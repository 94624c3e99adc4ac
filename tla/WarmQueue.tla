------------------------------ MODULE WarmQueue ------------------------------
(***************************************************************************)
(* The warm queue: API processes reconcile, once a minute, a BullMQ job    *)
(* for the revision of the day; workers take the job, read the published   *)
(* suggestion index from the database and write it to the cache.  Redis    *)
(* runs one command or script at a time; between two of them anything may  *)
(* happen.  Day d is the window of revision d.                             *)
(***************************************************************************)
EXTENDS Naturals, FiniteSets

CONSTANTS Days,         \* the revisions, in the order of their windows
          Uncacheable,  \* those whose index the cache's validation rejects
          Producers, Workers,
          MaxOutstanding,   \* WARM_POLICY.maximumOutstandingJobs
          MaxKeys,          \* REDIS_NAMESPACE_BUDGETS.cache.maximumKeys
          Attempts,         \* WARM_POLICY.attempts
          TTL,              \* cacheTtlSeconds and maximumAgeMs, in days
          MaxFaults         \* a bound on what goes wrong in a behaviour

ASSUME WarmAssumption ==
  /\ Days \in Nat \ {0} /\ Uncacheable \subseteq 1..Days
  /\ MaxOutstanding \in Nat \ {0} /\ MaxKeys \in Nat \ {0}
  /\ Attempts \in Nat \ {0} /\ TTL \in Nat \ {0} /\ MaxFaults \in Nat

VARIABLES now,       \* the day, by the clocks of PostgreSQL and of Redis
          job,       \* BullMQ's job of each revision
          reserved,  \* the admission ZSET
          late,      \* commands of a producer that gave up, not yet executed
          producer, worker,
          keyUntil, registeredUntil,  \* the cache's keys and their registry
          faults

queueVars == <<job, reserved, late>>
cacheVars == <<keyUntil, registeredUntil>>
vars == <<now, job, reserved, late, producer, worker, keyUntil, registeredUntil, faults>>

Revisions == 1..Days
None == 0
Outstanding == {"wait", "active", "delayed"}
Finished == {"completed", "failed"}
JobStates == {"none"} \cup Outstanding \cup Finished

NoJob == [st |-> "none", made |-> 0, stalls |-> 0, added |-> 0]
IdleProducer == [pc |-> "idle", rev |-> None]
IdleWorker == [up |-> "running", pc |-> "idle", rev |-> None]

TypeOK ==
  /\ now \in Revisions /\ faults \in 0..MaxFaults
  /\ job \in [Revisions -> [st : JobStates, made : 0..(Attempts - 1), stalls : 0..1,
                            added : 0..Days]]
  /\ reserved \subseteq Revisions
  /\ late \subseteq [op : {"remove", "admit", "add", "release"}, rev : Revisions]
  /\ producer \in [Producers ->
       [pc : {"idle", "lookup", "state", "remove", "admit", "add", "release"},
        rev : {None} \cup Revisions]]
  /\ worker \in [Workers ->
       [up : {"running", "draining", "down"}, pc : {"idle", "read", "write", "report"},
        rev : {None} \cup Revisions]]
  /\ keyUntil \in [Revisions -> 0..(Days + TTL)]
  /\ registeredUntil \in [Revisions -> 0..(Days + TTL)]

Init ==
  /\ now = 1 /\ faults = 0
  /\ job = [r \in Revisions |-> NoJob] /\ reserved = {} /\ late = {}
  /\ producer = [p \in Producers |-> IdleProducer]
  /\ worker = [w \in Workers |-> IdleWorker]
  /\ keyUntil = [r \in Revisions |-> 0] /\ registeredUntil = [r \in Revisions |-> 0]

OutstandingJobs == {r \in Revisions : job[r].st \in Outstanding}
LiveKeys == {r \in Revisions : keyUntil[r] > now}
Registered == {r \in Revisions : registeredUntil[r] > now}

Fault == faults < MaxFaults /\ faults' = faults + 1
NoFault == UNCHANGED faults

(***************************************************************************)
(* The producer: run()                                                     *)
(***************************************************************************)
ToPC(p, pc) == producer' = [producer EXCEPT ![p].pc = pc]
Return(p) == producer' = [producer EXCEPT ![p] = IdleProducer]

\* reconcile(): the interval, a reconnection or the recovery timer; pending
\* admits one run at a time, whose first step reads the current revision.
Reconcile(p) ==
  /\ producer[p].pc = "idle"
  /\ producer' = [producer EXCEPT ![p] = [pc |-> "lookup", rev |-> now]]
  /\ UNCHANGED <<now, queueVars, worker, cacheVars, faults>>

GetJob(p) ==
  /\ producer[p].pc = "lookup"
  /\ ToPC(p, IF job[producer[p].rev].st = "none" THEN "admit" ELSE "state")
  /\ UNCHANGED <<now, queueVars, worker, cacheVars, faults>>

\* Anything but a finished job is a duplicate, a job that is gone too.
GetState(p) ==
  /\ producer[p].pc = "state"
  /\ IF job[producer[p].rev].st \in Finished THEN ToPC(p, "remove") ELSE Return(p)
  /\ UNCHANGED <<now, queueVars, worker, cacheVars, faults>>

\* BullMQ removes whatever is stored under the id, unless a worker holds its
\* lock: then it throws and the run ends as "unavailable".
RemoveJob(r) == job' = [job EXCEPT ![r] = IF @.st = "active" THEN @ ELSE NoJob]

Remove(p) ==
  LET r == producer[p].rev
  IN /\ producer[p].pc = "remove" /\ RemoveJob(r)
     /\ IF job[r].st = "active" THEN Return(p) ELSE ToPC(p, "admit")
     /\ UNCHANGED <<now, reserved, late, worker, cacheVars, faults>>

\* The admission script's test: no reservation of the id, and room for one.
\* A job just added is counted with its reservation.
admitted(r) ==
  /\ r \notin reserved
  /\ Cardinality(reserved) + Cardinality(OutstandingJobs) < MaxOutstanding

Reserve(r) == reserved' = IF admitted(r) THEN reserved \cup {r} ELSE reserved

Admit(p) ==
  LET r == producer[p].rev
  IN /\ producer[p].pc = "admit" /\ Reserve(r)
     /\ IF admitted(r) THEN ToPC(p, "add") ELSE Return(p)
     /\ UNCHANGED <<now, job, late, worker, cacheVars, faults>>

\* client.add with a job id: BullMQ keeps the job it has.
AddJob(r) ==
  job' = IF job[r].st = "none"
         THEN [job EXCEPT ![r] = [NoJob EXCEPT !.st = "wait", !.added = now]]
         ELSE job

Add(p) ==
  /\ producer[p].pc = "add" /\ AddJob(producer[p].rev) /\ ToPC(p, "release")
  /\ UNCHANGED <<now, reserved, late, worker, cacheVars, faults>>

Release(p) ==
  /\ producer[p].pc = "release" /\ reserved' = reserved \ {producer[p].rev} /\ Return(p)
  /\ UNCHANGED <<now, job, late, worker, cacheVars, faults>>

\* The deadline of one second, a lost connection or a failed read of the
\* database: the client is disconnected and forgotten.  What was sent may
\* still be executed, or is lost.
GiveUp(p) ==
  LET mine == producer[p]
  IN /\ mine.pc # "idle" /\ Fault /\ Return(p)
     /\ \/ UNCHANGED late
        \/ mine.pc \in {"remove", "admit", "add", "release"}
             /\ late' = late \cup {[op |-> mine.pc, rev |-> mine.rev]}
     /\ UNCHANGED <<now, job, reserved, worker, cacheVars>>

ExecuteLate(c) ==
  /\ c \in late /\ late' = late \ {c}
  /\ CASE c.op = "remove" -> RemoveJob(c.rev) /\ UNCHANGED reserved
       [] c.op = "admit" -> Reserve(c.rev) /\ UNCHANGED job
       [] c.op = "add" -> AddJob(c.rev) /\ UNCHANGED reserved
       [] c.op = "release" -> reserved' = reserved \ {c.rev} /\ UNCHANGED job
  /\ UNCHANGED <<now, producer, worker, cacheVars, faults>>

\* A slip: reservations are shorter than a run.
expired(r) == r \in reserved

\* Two seconds after the reservation: its run ended within one, and Redis
\* has executed by then what the run sent.
reservationEnds(r) ==
  /\ r \in reserved
  /\ \A p \in Producers : producer[p].pc \in {"add", "release"} => producer[p].rev # r
  /\ \A c \in late : c.rev # r

Expire(r) ==
  /\ reservationEnds(r) /\ reserved' = reserved \ {r}
  /\ UNCHANGED <<now, job, late, producer, worker, cacheVars, faults>>

(***************************************************************************)
(* The worker                                                              *)
(***************************************************************************)
SetState(r, st) == job' = [job EXCEPT ![r].st = st]

\* What a finished job counted is never read again: it is not kept.
Finish(r, st) == job' = [job EXCEPT ![r] = [NoJob EXCEPT !.st = st]]
Ready(w) == worker[w].up = "running"
Working(w, pc) == worker[w].pc = pc /\ worker[w].up # "down"
Put(w, pc, r) == worker' = [worker EXCEPT ![w].pc = pc, ![w].rev = r]

\* A draining worker that has nothing left to do is closed.
PutDown(w) ==
  worker' = [worker EXCEPT ![w].pc = "idle", ![w].rev = None,
                           ![w].up = IF @ = "draining" THEN "down" ELSE @]

\* moveToFailed: a transient failure is delayed until its attempts are used.
FailJob(r, recoverable) ==
  LET made == job[r].made + 1
  IN IF recoverable /\ made < Attempts
     THEN job' = [job EXCEPT ![r].made = made, ![r].st = "delayed"]
     ELSE Finish(r, "failed")

\* processJob and processWarmJob up to the read: a job too old is poison.
Take(w, r) ==
  /\ Ready(w) /\ worker[w].pc = "idle" /\ job[r].st = "wait"
  /\ IF now - job[r].added > TTL THEN FailJob(r, FALSE) /\ UNCHANGED worker
     ELSE SetState(r, "active") /\ Put(w, "read", r)
  /\ UNCHANGED <<now, reserved, late, producer, cacheVars, faults>>

\* What the cache asks of an index: its bounds, form and distinct names.
validateIndex(r) == r \notin Uncacheable

\* readIndex validates what it read before it returns it.
ReadIndex(w) ==
  LET r == worker[w].rev
  IN /\ Working(w, "read")
     /\ IF validateIndex(r) THEN Put(w, "write", r) /\ UNCHANGED job
        ELSE FailJob(r, FALSE) /\ PutDown(w)
     /\ UNCHANGED <<now, reserved, late, producer, cacheVars, faults>>

register(r) == registeredUntil' = [registeredUntil EXCEPT ![r] = now + TTL]

\* A slip: the registry's own key is forgotten in the budget.
brimful(r) == r \notin Registered /\ Cardinality(Registered) >= MaxKeys

\* CACHE_SET_V1_LUA refuses a new key when the registry is full.
registryFull(r) == r \notin Registered /\ Cardinality(Registered) >= MaxKeys - 1
CacheSet(r) == register(r) /\ keyUntil' = [keyUntil EXCEPT ![r] = now + TTL]

WriteIndex(w) ==
  LET r == worker[w].rev
  IN /\ Working(w, "write")
     /\ IF registryFull(r) THEN FailJob(r, TRUE) /\ PutDown(w) /\ UNCHANGED cacheVars
        ELSE CacheSet(r) /\ Put(w, "report", r) /\ UNCHANGED job
     /\ UNCHANGED <<now, reserved, late, producer, faults>>

Complete(w) ==
  /\ Working(w, "report") /\ Finish(worker[w].rev, "completed") /\ PutDown(w)
  /\ UNCHANGED <<now, reserved, late, producer, cacheVars, faults>>

\* A failed read or write, or the abort after five seconds: a write given up
\* may have reached Redis.
FailTransiently(w) ==
  LET r == worker[w].rev
  IN /\ worker[w].pc \in {"read", "write"} /\ worker[w].up # "down" /\ Fault
     /\ FailJob(r, TRUE) /\ PutDown(w)
     /\ \/ UNCHANGED cacheVars
        \/ worker[w].pc = "write" /\ ~registryFull(r) /\ CacheSet(r)
     /\ UNCHANGED <<now, reserved, late, producer>>

Promote(r) ==
  /\ job[r].st = "delayed" /\ (\E w \in Workers : Ready(w)) /\ SetState(r, "wait")
  /\ UNCHANGED <<now, reserved, late, producer, worker, cacheVars, faults>>

\* A slip: a job whose worker is gone stays where it is.
neverStalls(r) == FALSE

\* The lock of an active job ends ten seconds after its worker.
lockExpired(r) == job[r].st = "active" /\ \A w \in Workers : worker[w].rev # r

\* A working worker finds the stalled job; maxStalledCount is 1.
Stall(r) ==
  /\ lockExpired(r) /\ \E w \in Workers : Ready(w)
  /\ IF job[r].stalls + 1 > 1 THEN Finish(r, "failed")
     ELSE job' = [job EXCEPT ![r].stalls = @ + 1, ![r].st = "wait"]
  /\ UNCHANGED <<now, reserved, late, producer, worker, cacheVars, faults>>

\* stop(): close(false) waits for the jobs under way and takes no other.
Drain(w) ==
  /\ Ready(w) /\ Fault
  /\ worker' = [worker EXCEPT ![w].up = IF @ = "running" /\ worker[w].pc = "idle"
                                        THEN "down" ELSE "draining"]
  /\ UNCHANGED <<now, queueVars, producer, cacheVars>>

\* The drain's ten seconds are over, or the process is killed: connections
\* are cut, and nobody tells Redis of the job.
Cut(w) ==
  /\ \/ worker[w].up = "draining" /\ NoFault
     \/ Ready(w) /\ Fault
  /\ worker' = [worker EXCEPT ![w] = [IdleWorker EXCEPT !.up = "down"]]
  /\ UNCHANGED <<now, queueVars, producer, cacheVars>>

Restart(w) ==
  /\ worker[w].up = "down" /\ worker' = [worker EXCEPT ![w] = IdleWorker]
  /\ UNCHANGED <<now, queueVars, producer, cacheVars, faults>>

Midnight ==
  /\ now < Days /\ now' = now + 1
  /\ UNCHANGED <<queueVars, producer, worker, cacheVars, faults>>

ProducerSteps(p) ==
  GetJob(p) \/ GetState(p) \/ Remove(p) \/ Admit(p) \/ Add(p) \/ Release(p)
WorkerSteps(w) ==
  (\E r \in Revisions : Take(w, r)) \/ ReadIndex(w) \/ WriteIndex(w) \/ Complete(w)

Next ==
  \/ \E p \in Producers : Reconcile(p) \/ ProducerSteps(p) \/ GiveUp(p)
  \/ \E c \in late : ExecuteLate(c)
  \/ \E r \in Revisions : Expire(r) \/ Promote(r) \/ Stall(r)
  \/ \E w \in Workers : WorkerSteps(w) \/ FailTransiently(w) \/ Drain(w) \/ Cut(w) \/ Restart(w)
  \/ Midnight

Spec == Init /\ [][Next]_vars

\* Time passes, timers fire, Redis executes what it received, and a worker
\* that stopped is started again; nothing says that anything fails.
FairSpec ==
  /\ Spec /\ WF_vars(Midnight)
  /\ \A p \in Producers : WF_vars(Reconcile(p)) /\ WF_vars(ProducerSteps(p))
  /\ WF_vars(\E c \in late : ExecuteLate(c))
  /\ \A r \in Revisions : WF_vars(Expire(r)) /\ WF_vars(Promote(r)) /\ WF_vars(Stall(r))
  /\ \A w \in Workers : WF_vars(WorkerSteps(w)) /\ WF_vars(Restart(w))

-----------------------------------------------------------------------------
(***************************************************************************)
(* Properties                                                              *)
(***************************************************************************)
\* Outstanding jobs, with those a producer may still add, never exceed the
\* limit, whatever producers are given up or executed late and whatever is
\* retried: "Redis-time reservation covers concurrent producers until their
\* one-second enqueue deadline" (producer.ts:23).
OutstandingIsBounded ==
  Cardinality(OutstandingJobs \cup reserved) <= MaxOutstanding

\* The live keys of the cache and its registry's own stay within the key
\* budget: a key never outlives its entry (suggestions/redis.ts:24).
KeysAreBounded ==
  LiveKeys \subseteq Registered /\ Cardinality(LiveKeys) + 1 <= MaxKeys

\* Whatever jobs were lost, stalled, failed or removed by a rival producer,
\* the revision of the last day ends up in the cache, unless its index cannot
\* be cached or other live keys fill the registry (producer.ts:177).
CurrentIsWarmed ==
  <>[](Days \in LiveKeys \/ Days \in Uncacheable \/ registryFull(Days))
=============================================================================
