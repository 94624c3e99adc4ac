--------------------------- MODULE WarmQueueProofs ---------------------------
(***************************************************************************)
(* The bounds of the warm queue and of the cache, for any numbers of days, *)
(* producers, workers, attempts and disturbances, and any limits.          *)
(*                                                                         *)
(* That few jobs are outstanding is not inductive: a producer that has     *)
(* passed the admission script adds its job later, perhaps after it gave   *)
(* up.  IInv says that until then its revision is reserved, and that       *)
(* nobody else can take the reservation away (Reserving); and that a       *)
(* worker reports only on a job that is still active and its own (Busy),   *)
(* so that no report brings a job back that Redis has dropped.             *)
(***************************************************************************)
EXTENDS WarmQueue, FiniteSetTheorems, TLAPS

\* Producers and late commands that still rely on a reservation of r.
Adding == {"add", "release"}
Relies(p, r) == producer[p].pc \in Adding /\ producer[p].rev = r

Reserving ==
  /\ \A p \in Producers : producer[p].pc # "idle" => producer[p].rev \in Revisions
  /\ \A p \in Producers : producer[p].pc \in Adding => producer[p].rev \in reserved
  /\ \A p, q \in Producers : \A r \in Revisions : Relies(p, r) /\ Relies(q, r) => p = q
  /\ \A c \in late : c.op \in Adding =>
       /\ c.rev \in reserved
       /\ \A p \in Producers : ~Relies(p, c.rev)
       /\ \A d \in late : d.op \in Adding /\ d.rev = c.rev => d = c

\* A worker with a revision works on it, and it alone.
Busy ==
  \A w \in Workers :
    /\ worker[w].pc = "idle" <=> worker[w].rev = None
    /\ worker[w].up = "down" => worker[w].pc = "idle"
    /\ worker[w].rev # None =>
         /\ job[worker[w].rev].st = "active"
         /\ \A v \in Workers : worker[v].rev = worker[w].rev => v = w

\* Key and registry entry are written together and live as long.
Accounted ==
  /\ keyUntil = registeredUntil
  /\ Cardinality(Registered) + 1 <= MaxKeys

IInv == TypeOK /\ Reserving /\ Busy /\ OutstandingIsBounded /\ Accounted

LEMMA Constants ==
  /\ Days \in Nat /\ 1 \in Revisions /\ None \notin Revisions /\ Revisions \subseteq Nat
  /\ MaxOutstanding \in Nat /\ MaxOutstanding >= 1 /\ MaxKeys \in Nat /\ MaxKeys >= 1
  /\ Attempts \in Nat /\ Attempts >= 1 /\ TTL \in Nat /\ MaxFaults \in Nat
  BY WarmAssumption DEF Revisions, None

\* Sets of revisions are finite.
LEMMA Finite ==
  ASSUME NEW S \in SUBSET Revisions
  PROVE  IsFiniteSet(S) /\ Cardinality(S) \in Nat
<1>1. IsFiniteSet(Revisions)
  BY Constants, FS_Interval DEF Revisions
<1> QED  BY <1>1, FS_Subset, FS_CardinalityType

LEMMA Smaller ==
  ASSUME NEW S \in SUBSET Revisions, NEW T \in SUBSET S
  PROVE  Cardinality(T) <= Cardinality(S)
<1>1. IsFiniteSet(S)
  BY Finite
<1> QED  BY <1>1, FS_Subset

LEMMA OneMore ==
  ASSUME NEW S \in SUBSET Revisions, NEW r \in Revisions
  PROVE  Cardinality(S \cup {r}) <= Cardinality(S) + 1
<1>1. IsFiniteSet(S) /\ Cardinality(S) \in Nat
  BY Finite
<1>2. Cardinality(S \cup {r}) =
        IF r \in S THEN Cardinality(S) ELSE Cardinality(S) + 1
  BY <1>1, FS_AddElement
<1> QED  BY <1>1, <1>2

LEMMA AtMostTheSum ==
  ASSUME NEW S \in SUBSET Revisions, NEW T \in SUBSET Revisions
  PROVE  Cardinality(S \cup T) <= Cardinality(S) + Cardinality(T)
<1>1. /\ IsFiniteSet(S) /\ IsFiniteSet(T)
      /\ Cardinality(S) \in Nat /\ Cardinality(T) \in Nat
  BY Finite
<1>2. Cardinality(S \cap T) \in Nat
  <2>1. S \cap T \in SUBSET Revisions
    OBVIOUS
  <2> QED  BY <2>1, Finite
<1>3. Cardinality(S \cup T) =
        Cardinality(S) + Cardinality(T) - Cardinality(S \cap T)
  BY <1>1, FS_Union
<1> QED  BY <1>1, <1>2, <1>3

LEMMA InitInv == Init => IInv
<1> SUFFICES ASSUME Init PROVE IInv
  OBVIOUS
<1> USE DEF Init, None
<1>1. TypeOK
  <2>1. NoJob \in [st : JobStates, made : 0..(Attempts - 1), stalls : 0..1,
                   added : 0..Days]
    BY Constants DEF NoJob, JobStates
  <2>2. now \in Revisions /\ faults \in 0..MaxFaults
    BY Constants
  <2>3. 0 \in 0..(Days + TTL)
    BY Constants
  <2>4. IdleProducer.rev \in {None} \cup Revisions
    BY DEF IdleProducer
  <2> QED
    BY <2>1, <2>2, <2>3, <2>4 DEF TypeOK, IdleProducer, IdleWorker
<1>2. Reserving
  BY DEF Reserving, IdleProducer, Relies, Adding
<1>3. Busy
  BY DEF Busy, IdleWorker
<1>4. OutstandingJobs = {} /\ reserved = {} /\ Registered = {}
  BY DEF OutstandingJobs, Registered, NoJob, Outstanding
<1>5. OutstandingIsBounded
  BY <1>4, FS_EmptySet, Constants DEF OutstandingIsBounded
<1>6. Accounted
  BY <1>4, FS_EmptySet, Constants DEF Accounted
<1> QED  BY <1>1, <1>2, <1>3, <1>5, <1>6 DEF IInv

(***************************************************************************)
(* Steps of a job: typed, and of no other job.                             *)
(***************************************************************************)
JobRows == [st : JobStates, made : 0..(Attempts - 1), stalls : 0..1, added : 0..Days]

OnlyJob(r) ==
  /\ job' \in [Revisions -> JobRows]
  /\ \A q \in Revisions \ {r} : job'[q] = job[q]

LEMMA JobSteps ==
  ASSUME TypeOK, NEW r \in Revisions
  PROVE  /\ \A recoverable \in BOOLEAN : FailJob(r, recoverable) =>
               OnlyJob(r) /\ job'[r].st \in {"delayed", "failed"}
         /\ \A st \in Finished : Finish(r, st) => OnlyJob(r) /\ job'[r].st = st
         /\ \A st \in Outstanding : SetState(r, st) => OnlyJob(r) /\ job'[r].st = st
         /\ RemoveJob(r) => OnlyJob(r) /\ IF job[r].st = "active"
                                          THEN job' = job ELSE job'[r].st = "none"
         /\ AddJob(r) => OnlyJob(r) /\ IF job[r].st = "none"
                                       THEN job'[r].st = "wait" ELSE job' = job
         /\ Stall(r) => OnlyJob(r) /\ job'[r].st \in {"wait", "failed"}
<1>1. job \in [Revisions -> JobRows] /\ now \in 0..Days
  BY Constants DEF TypeOK, JobRows, Revisions
<1>2. NoJob \in JobRows
  BY Constants DEF NoJob, JobRows, JobStates
<1>3. ASSUME NEW st \in Finished, Finish(r, st)
      PROVE  OnlyJob(r) /\ job'[r].st = st
  <2>1. [NoJob EXCEPT !.st = st] \in JobRows
    BY <1>2 DEF JobRows, JobStates
  <2>2. [NoJob EXCEPT !.st = st].st = st
    BY DEF NoJob
  <2> QED  BY <1>1, <1>3, <2>1, <2>2 DEF Finish, OnlyJob
<1>4. ASSUME NEW st \in Outstanding, SetState(r, st)
      PROVE  OnlyJob(r) /\ job'[r].st = st
  BY <1>1, <1>4 DEF SetState, OnlyJob, JobRows, JobStates
<1>5. ASSUME NEW recoverable \in BOOLEAN, FailJob(r, recoverable)
      PROVE  OnlyJob(r) /\ job'[r].st \in {"delayed", "failed"}
  <2>1. CASE recoverable /\ job[r].made + 1 < Attempts
    <3>1. job' = [job EXCEPT ![r].made = job[r].made + 1, ![r].st = "delayed"]
      BY <1>5, <2>1 DEF FailJob
    <3>2. job[r].made + 1 \in 0..(Attempts - 1)
      BY <1>1, <2>1, Constants DEF JobRows
    <3> QED  BY <1>1, <3>1, <3>2 DEF OnlyJob, JobRows, JobStates, Outstanding
  <2>2. CASE ~(recoverable /\ job[r].made + 1 < Attempts)
    <3>1. Finish(r, "failed")
      BY <1>5, <2>2 DEF FailJob
    <3> QED  BY <1>3, <3>1 DEF Finished
  <2> QED  BY <2>1, <2>2
<1>6. ASSUME RemoveJob(r)
      PROVE  OnlyJob(r) /\ IF job[r].st = "active"
                           THEN job' = job ELSE job'[r].st = "none"
  BY <1>1, <1>2, <1>6 DEF RemoveJob, OnlyJob, NoJob
<1>7. ASSUME AddJob(r)
      PROVE  OnlyJob(r) /\ IF job[r].st = "none"
                           THEN job'[r].st = "wait" ELSE job' = job
  <2>1. CASE job[r].st = "none"
    <3> DEFINE new == [NoJob EXCEPT !.st = "wait", !.added = now]
    <3>1. new \in JobRows /\ new.st = "wait"
      BY <1>1, <1>2 DEF NoJob, JobRows, JobStates, Outstanding
    <3>2. job' = [job EXCEPT ![r] = new]
      BY <1>7, <2>1 DEF AddJob
    <3> HIDE DEF new
    <3> QED  BY <1>1, <2>1, <3>1, <3>2 DEF OnlyJob
  <2>2. CASE job[r].st # "none"
    BY <1>1, <1>7, <2>2 DEF AddJob, OnlyJob
  <2> QED  BY <2>1, <2>2
<1>8. ASSUME Stall(r) PROVE OnlyJob(r) /\ job'[r].st \in {"wait", "failed"}
  <2>1. CASE job[r].stalls + 1 > 1
    BY <1>3, <1>8, <2>1 DEF Stall, Finished
  <2>2. CASE ~(job[r].stalls + 1 > 1)
    <3>1. job' = [job EXCEPT ![r].stalls = @ + 1, ![r].st = "wait"]
      BY <1>8, <2>2 DEF Stall
    <3>2. job[r].stalls + 1 \in 0..1
      BY <1>1, <2>2 DEF JobRows
    <3> QED  BY <1>1, <3>1, <3>2 DEF OnlyJob, JobRows, JobStates, Outstanding
  <2> QED  BY <2>1, <2>2
<1> QED  BY <1>3, <1>4, <1>5, <1>6, <1>7, <1>8

LEMMA WorkerRecord ==
  ASSUME NEW U, NEW P, NEW R, NEW row \in [up : U, pc : P, rev : R],
         NEW u \in U, NEW p \in P, NEW r \in R
  PROVE  [row EXCEPT !.pc = p, !.rev = r, !.up = u] \in [up : U, pc : P, rev : R]
  OBVIOUS

LEMMA TypeStep ==
  ASSUME TypeOK, Reserving, Busy, Next
  PROVE  TypeOK'
<1> DEFINE ProducerRows ==
             [pc : {"idle", "lookup", "state", "remove", "admit", "add", "release"},
              rev : {None} \cup Revisions]
           WorkerRows ==
             [up : {"running", "draining", "down"},
              pc : {"idle", "read", "write", "report"}, rev : {None} \cup Revisions]
           Late == [op : {"remove", "admit", "add", "release"}, rev : Revisions]
           Lives == 0..(Days + TTL)
<1>1. /\ now \in Revisions /\ faults \in 0..MaxFaults
      /\ job \in [Revisions -> JobRows] /\ reserved \subseteq Revisions
      /\ late \subseteq Late /\ producer \in [Producers -> ProducerRows]
      /\ worker \in [Workers -> WorkerRows]
      /\ keyUntil \in [Revisions -> Lives] /\ registeredUntil \in [Revisions -> Lives]
  BY DEF TypeOK, JobRows
<1>2. /\ IdleProducer \in ProducerRows /\ IdleWorker \in WorkerRows
      /\ [IdleWorker EXCEPT !.up = "down"] \in WorkerRows
  BY DEF IdleProducer, IdleWorker
<1>3. \A p \in Producers : producer[p].pc # "idle" => producer[p].rev \in Revisions
  BY DEF Reserving
<1>4. \A w \in Workers : worker[w].pc # "idle" => worker[w].rev \in Revisions
  BY <1>1 DEF Busy
<1>5. /\ job' \in [Revisions -> JobRows] /\ reserved' \subseteq Revisions
      /\ late' \subseteq Late /\ producer' \in [Producers -> ProducerRows]
      /\ worker' \in [Workers -> WorkerRows]
      /\ keyUntil' \in [Revisions -> Lives] /\ registeredUntil' \in [Revisions -> Lives]
      => TypeOK'
  <2>1. now' \in Revisions
    <3>1. now' = now \/ (now < Days /\ now' = now + 1)
      BY DEF Next, Midnight, Reconcile, ProducerSteps, GetJob, GetState, Remove, Admit, Add,
             Release, GiveUp, ExecuteLate, Expire, Promote, Stall, WorkerSteps, Take, ReadIndex,
             WriteIndex, Complete, FailTransiently, Drain, Cut, Restart
    <3> QED  BY <1>1, <3>1, Constants DEF Revisions
  <2>2. faults' \in 0..MaxFaults
    <3>1. faults' = faults \/ (faults < MaxFaults /\ faults' = faults + 1)
      BY DEF Next, Midnight, Reconcile, ProducerSteps, GetJob, GetState, Remove, Admit, Add,
             Release, GiveUp, ExecuteLate, Expire, Promote, Stall, WorkerSteps, Take, ReadIndex,
             WriteIndex, Complete, FailTransiently, Drain, Cut, Restart, Fault, NoFault
    <3> QED  BY <1>1, <3>1, Constants
  <2> QED  BY <2>1, <2>2 DEF TypeOK, JobRows
<1> HIDE DEF Lives
<1>6. ASSUME NEW p \in Producers, Reconcile(p) PROVE TypeOK'
  BY <1>1, <1>5, <1>6 DEF Reconcile, queueVars, cacheVars
<1>7. ASSUME NEW p \in Producers, ProducerSteps(p) PROVE TypeOK'
  <2> DEFINE r == producer[p].rev
  <2>1. producer' \in [Producers -> ProducerRows]
    BY <1>1, <1>2, <1>7
    DEF ProducerSteps, GetJob, GetState, Remove, Admit, Add, Release, ToPC, Return
  <2>2. reserved' \subseteq Revisions
    BY <1>1, <1>3, <1>7
    DEF ProducerSteps, GetJob, GetState, Remove, Admit, Add, Release, Reserve, queueVars
  <2>3. job' \in [Revisions -> JobRows]
    <3>1. CASE Remove(p)
      BY <1>3, <3>1, JobSteps DEF Remove, OnlyJob
    <3>2. CASE Add(p)
      BY <1>3, <3>2, JobSteps DEF Add, OnlyJob
    <3> QED  BY <1>1, <1>7, <3>1, <3>2
             DEF ProducerSteps, GetJob, GetState, Admit, Release, queueVars
  <2>4. UNCHANGED <<late, worker, keyUntil, registeredUntil>>
    BY <1>7 DEF ProducerSteps, GetJob, GetState, Remove, Admit, Add, Release, queueVars,
                cacheVars
  <2> QED  BY <1>1, <1>5, <2>1, <2>2, <2>3, <2>4
<1>8. ASSUME NEW p \in Producers, GiveUp(p) PROVE TypeOK'
  <2>1. producer' \in [Producers -> ProducerRows]
    BY <1>1, <1>2, <1>8 DEF GiveUp, Return
  <2>2. late' \subseteq Late
    BY <1>1, <1>3, <1>8 DEF GiveUp
  <2> QED  BY <1>1, <1>5, <1>8, <2>1, <2>2 DEF GiveUp, cacheVars
<1>9. ASSUME NEW c \in late, ExecuteLate(c) PROVE TypeOK'
  <2>1. c.rev \in Revisions /\ c.op \in {"remove", "admit", "add", "release"}
    BY <1>1
  <2>2. reserved' \subseteq Revisions
    BY <1>1, <1>9, <2>1 DEF ExecuteLate, Reserve
  <2>3. job' \in [Revisions -> JobRows]
    BY <1>1, <1>9, <2>1, JobSteps DEF ExecuteLate, OnlyJob
  <2> QED  BY <1>1, <1>5, <1>9, <2>2, <2>3 DEF ExecuteLate, cacheVars
<1>10. ASSUME NEW r \in Revisions, Expire(r) \/ Promote(r) \/ Stall(r) PROVE TypeOK'
  <2>1. job' \in [Revisions -> JobRows]
    BY <1>1, <1>10, JobSteps DEF Expire, Promote, OnlyJob, Outstanding
  <2> QED  BY <1>1, <1>5, <1>10, <2>1 DEF Expire, Promote, Stall, cacheVars
<1>11. ASSUME NEW w \in Workers, WorkerSteps(w) \/ FailTransiently(w) PROVE TypeOK'
  <2>1. worker' \in [Workers -> WorkerRows]
    <3>1. PutDown(w) => worker' \in [Workers -> WorkerRows]
      <4> DEFINE row == [worker[w] EXCEPT !.pc = "idle", !.rev = None,
                           !.up = IF @ = "draining" THEN "down" ELSE @]
      <4>1. row \in WorkerRows
        <5> DEFINE up == IF worker[w].up = "draining" THEN "down" ELSE worker[w].up
        <5>1. worker[w] \in WorkerRows /\ up \in {"running", "draining", "down"}
          BY <1>1
        <5>2. row = [worker[w] EXCEPT !.pc = "idle", !.rev = None, !.up = up]
          OBVIOUS
        <5> HIDE DEF up, row
        <5>3. [worker[w] EXCEPT !.pc = "idle", !.rev = None, !.up = up] \in WorkerRows
          BY <5>1, WorkerRecord
        <5> QED  BY <5>2, <5>3
      <4>2. PutDown(w) => worker' = [worker EXCEPT ![w] = row]
        BY <1>1 DEF PutDown
      <4> HIDE DEF row
      <4> QED  BY <1>1, <4>1, <4>2
    <3>2. ASSUME NEW pc \in {"read", "write", "report"}, NEW r \in Revisions, Put(w, pc, r)
          PROVE  worker' \in [Workers -> WorkerRows]
      BY <1>1, <3>2 DEF Put
    <3> HIDE DEF WorkerRows
    <3>3. ASSUME NEW r \in Revisions, Take(w, r) PROVE worker' \in [Workers -> WorkerRows]
      BY <1>1, <3>2, <3>3 DEF Take
    <3>4. CASE ReadIndex(w) \/ WriteIndex(w) \/ Complete(w) \/ FailTransiently(w)
      BY <1>4, <3>1, <3>2, <3>4
      DEF ReadIndex, WriteIndex, Complete, FailTransiently, Working
    <3> QED  BY <1>11, <3>3, <3>4 DEF WorkerSteps
  <2>2. job' \in [Revisions -> JobRows]
    <3>1. ASSUME NEW r \in Revisions, Take(w, r) PROVE job' \in [Revisions -> JobRows]
      BY <3>1, JobSteps DEF Take, OnlyJob, Outstanding
    <3>2. ASSUME ReadIndex(w) \/ WriteIndex(w) \/ Complete(w) \/ FailTransiently(w)
          PROVE  job' \in [Revisions -> JobRows]
      BY <1>1, <1>4, <3>2, JobSteps
      DEF ReadIndex, WriteIndex, Complete, FailTransiently, Working, OnlyJob, Finished
    <3> QED  BY <1>11, <3>1, <3>2 DEF WorkerSteps
  <2>3. /\ keyUntil' \in [Revisions -> Lives] /\ registeredUntil' \in [Revisions -> Lives]
    <3>1. now + TTL \in Lives
      BY <1>1, Constants DEF Lives, Revisions
    <3>2. UNCHANGED cacheVars \/ \E r \in Revisions : CacheSet(r)
      BY <1>4, <1>11
      DEF WorkerSteps, Take, ReadIndex, WriteIndex, Complete, FailTransiently, Working
    <3> HIDE DEF Lives
    <3> QED  BY <1>1, <3>1, <3>2 DEF cacheVars, CacheSet, register
  <2>4. UNCHANGED <<reserved, late, producer>>
    BY <1>11 DEF WorkerSteps, Take, ReadIndex, WriteIndex, Complete, FailTransiently
  <2> QED  BY <1>1, <1>5, <2>1, <2>2, <2>3, <2>4
<1>12. ASSUME NEW w \in Workers, Drain(w) \/ Cut(w) \/ Restart(w) PROVE TypeOK'
  <2>1. worker' \in [Workers -> WorkerRows]
    BY <1>1, <1>2, <1>12 DEF Drain, Cut, Restart
  <2> QED  BY <1>1, <1>5, <1>12, <2>1 DEF Drain, Cut, Restart, queueVars, cacheVars
<1>13. CASE Midnight
  BY <1>1, <1>5, <1>13 DEF Midnight, queueVars, cacheVars
<1> QED
  BY <1>6, <1>7, <1>8, <1>9, <1>10, <1>11, <1>12, <1>13 DEF Next

\* Reservations are given up only by those who rely on them, one at a time.
LEMMA ReservingStep ==
  ASSUME TypeOK, Reserving, Next
  PROVE  Reserving'
<1> DEFINE Unmoved(p) ==
             \A q \in Producers : q # p => producer'[q] = producer[q]
<1>1. /\ producer \in [Producers -> [pc : {"idle", "lookup", "state", "remove", "admit",
                                           "add", "release"},
                                     rev : {None} \cup Revisions]]
      /\ now \in Revisions /\ reserved \subseteq Revisions
      /\ \A c \in late : c.rev \in Revisions
  BY DEF TypeOK
<1>2. ASSUME UNCHANGED <<producer, reserved, late>> PROVE Reserving'
  BY <1>2 DEF Reserving, Relies
\* A step of one producer that relies on nothing new and keeps what others need.
<1>3. ASSUME NEW p \in Producers, Unmoved(p), late' = late, reserved \subseteq reserved',
             producer'[p].pc \notin Adding,
             producer'[p].pc # "idle" => producer'[p].rev \in Revisions
      PROVE  Reserving'
  BY <1>3 DEF Reserving, Relies
<1>4. ASSUME NEW p \in Producers, Reconcile(p) PROVE Reserving'
  <2>1. producer'[p] = [pc |-> "lookup", rev |-> now] /\ Unmoved(p)
    BY <1>1, <1>4 DEF Reconcile
  <2> QED  BY <1>1, <1>3, <1>4, <2>1 DEF Reconcile, queueVars, Adding
<1>5. ASSUME NEW p \in Producers, GetJob(p) \/ GetState(p) \/ Remove(p) PROVE Reserving'
  <2>1. /\ Unmoved(p) /\ late' = late /\ reserved' = reserved
        /\ producer[p].pc # "idle"
        /\ \/ producer'[p].rev = producer[p].rev
              /\ producer'[p].pc \in {"admit", "state", "remove"}
           \/ producer'[p].pc = "idle"
    BY <1>1, <1>5 DEF GetJob, GetState, Remove, ToPC, Return, queueVars, IdleProducer
  <2>2. producer[p].rev \in Revisions
    BY <2>1 DEF Reserving
  <2> QED  BY <1>3, <2>1, <2>2 DEF Adding
<1>6. ASSUME NEW p \in Producers, Admit(p) PROVE Reserving'
  <2> DEFINE r == producer[p].rev
  <2>1. r \in Revisions /\ producer[p].pc = "admit" /\ late' = late /\ Unmoved(p)
    BY <1>1, <1>6 DEF Admit, ToPC, Return, Reserving
  <2>2. CASE admitted(r)
    <3>1. /\ producer'[p].pc = "add" /\ producer'[p].rev = r
          /\ reserved' = reserved \cup {r} /\ r \notin reserved
      BY <1>1, <1>6, <2>2 DEF Admit, Reserve, ToPC, admitted
    <3> HIDE DEF r
    <3> QED  BY <2>1, <3>1 DEF Reserving, Relies, Adding
  <2>3. CASE ~admitted(r)
    <3>1. producer'[p].pc = "idle" /\ reserved' = reserved
      BY <1>1, <1>6, <2>3 DEF Admit, Reserve, Return, IdleProducer
    <3> QED  BY <1>3, <2>1, <3>1 DEF Adding
  <2> QED  BY <2>2, <2>3
<1>7. ASSUME NEW p \in Producers, Add(p) PROVE Reserving'
  <2>1. /\ Unmoved(p) /\ producer[p].pc = "add" /\ producer'[p].pc = "release"
        /\ producer'[p].rev = producer[p].rev /\ late' = late /\ reserved' = reserved
    BY <1>1, <1>7 DEF Add, ToPC
  <2> QED  BY <2>1 DEF Reserving, Relies, Adding
<1>8. ASSUME NEW p \in Producers, Release(p) PROVE Reserving'
  <2> DEFINE r == producer[p].rev
  <2>1. /\ Unmoved(p) /\ producer'[p].pc = "idle" /\ late' = late
        /\ reserved' = reserved \ {r} /\ Relies(p, r) /\ r \in Revisions
    BY <1>1, <1>8 DEF Release, Return, IdleProducer, Relies, Adding, Reserving
  <2> HIDE DEF r
  <2>2. \A q \in Producers : q # p /\ producer[q].pc \in Adding => producer[q].rev # r
    BY <2>1 DEF Reserving, Relies
  <2>3. \A c \in late : c.op \in Adding => c.rev # r
    BY <2>1 DEF Reserving
  <2> QED  BY <2>1, <2>2, <2>3 DEF Reserving, Relies, Adding
<1>9. ASSUME NEW p \in Producers, GiveUp(p) PROVE Reserving'
  <2> DEFINE d == [op |-> producer[p].pc, rev |-> producer[p].rev]
  <2>1. /\ Unmoved(p) /\ producer'[p].pc = "idle" /\ reserved' = reserved
        /\ late' = late \/ late' = late \cup {d}
    BY <1>1, <1>9 DEF GiveUp, Return, IdleProducer
  <2>2. d.op = producer[p].pc /\ d.rev = producer[p].rev
    OBVIOUS
  <2>3. d.op \in Adding => d.rev \in reserved /\ Relies(p, d.rev) /\ d.rev \in Revisions
    BY <1>1, <2>2 DEF Reserving, Relies
  <2> HIDE DEF d
  <2>4. d.op \in Adding => \A c \in late : c.op \in Adding => c.rev # d.rev
    BY <2>3 DEF Reserving
  <2>5. d.op \in Adding => \A q \in Producers : q # p => ~Relies(q, d.rev)
    BY <2>3 DEF Reserving
  <2> QED  BY <2>1, <2>3, <2>4, <2>5 DEF Reserving, Relies, Adding
<1>10. ASSUME NEW c \in late, ExecuteLate(c) PROVE Reserving'
  <2>1. /\ producer' = producer /\ late' = late \ {c}
        /\ \/ reserved \subseteq reserved'
           \/ c.op \in Adding /\ reserved' = reserved \ {c.rev}
    BY <1>1, <1>10 DEF ExecuteLate, Reserve, Adding, TypeOK
  <2>2. CASE reserved \subseteq reserved'
    BY <2>1, <2>2 DEF Reserving, Relies
  <2>3. CASE c.op \in Adding /\ reserved' = reserved \ {c.rev}
    BY <2>1, <2>3 DEF Reserving, Relies
  <2> QED  BY <2>1, <2>2, <2>3
<1>11. ASSUME NEW r \in Revisions, Expire(r) PROVE Reserving'
  <2>1. /\ UNCHANGED <<producer, late>> /\ reserved' = reserved \ {r}
        /\ \A p \in Producers : producer[p].pc \in Adding => producer[p].rev # r
        /\ \A c \in late : c.rev # r
    BY <1>11 DEF Expire, reservationEnds, Adding
  <2> QED  BY <2>1 DEF Reserving, Relies
<1>12. ASSUME NEW r \in Revisions, Promote(r) \/ Stall(r) PROVE Reserving'
  BY <1>2, <1>12 DEF Promote, Stall
<1>13. ASSUME NEW w \in Workers,
              WorkerSteps(w) \/ FailTransiently(w) \/ Drain(w) \/ Cut(w) \/ Restart(w)
       PROVE  Reserving'
  BY <1>2, <1>13
  DEF WorkerSteps, Take, ReadIndex, WriteIndex, Complete, FailTransiently, Drain, Cut,
      Restart, queueVars
<1>14. CASE Midnight
  BY <1>2, <1>14 DEF Midnight, queueVars
<1> QED
  BY <1>4, <1>5, <1>6, <1>7, <1>8, <1>9, <1>10, <1>11, <1>12, <1>13, <1>14
  DEF Next, ProducerSteps

\* Nobody but its worker touches a job that is being worked on.
LEMMA BusyStep ==
  ASSUME TypeOK, Reserving, Busy, Next
  PROVE  Busy'
<1> DEFINE Active(r) == job[r].st = "active"
           Unmoved(w) == \A v \in Workers : v # w => worker'[v] = worker[v]
<1>1. /\ worker \in [Workers -> [up : {"running", "draining", "down"},
                                 pc : {"idle", "read", "write", "report"},
                                 rev : {None} \cup Revisions]]
      /\ None \notin Revisions /\ reserved \subseteq Revisions
      /\ \A c \in late : c.rev \in Revisions
  BY Constants DEF TypeOK
<1>2. ASSUME worker' = worker,
             \A r \in Revisions : Active(r) => job'[r].st = "active"
      PROVE  Busy'
  BY <1>1, <1>2 DEF Busy
\* A worker takes a job that nobody works on, or puts down its own.
<1>3. ASSUME NEW w \in Workers, NEW r \in Revisions, Unmoved(w), OnlyJob(r),
             ~Active(r), job'[r].st = "active", worker'[w].rev = r,
             worker'[w].pc # "idle", worker'[w].up # "down"
      PROVE  Busy'
  BY <1>1, <1>3 DEF Busy, OnlyJob
<1>4. ASSUME NEW w \in Workers, NEW r \in Revisions, Unmoved(w), OnlyJob(r),
             worker[w].rev = r, worker'[w].rev = None, worker'[w].pc = "idle"
      PROVE  Busy'
  BY <1>1, <1>4 DEF Busy, OnlyJob
<1>5. ASSUME NEW w \in Workers, Unmoved(w), job' = job,
             \/ worker'[w].rev = None /\ worker'[w].pc = "idle"
             \/ /\ worker'[w].rev = worker[w].rev /\ worker'[w].up # "down"
                /\ worker'[w].pc = "idle" <=> worker[w].pc = "idle"
      PROVE  Busy'
  BY <1>1, <1>5 DEF Busy
<1>6. \A p \in Producers : producer[p].pc # "idle" => producer[p].rev \in Revisions
  BY DEF Reserving
<1>7. ASSUME NEW p \in Producers,
             Reconcile(p) \/ ProducerSteps(p) \/ GiveUp(p)
      PROVE  Busy'
  <2>1. CASE Remove(p)
    BY <1>2, <1>6, <2>1, JobSteps DEF Remove, OnlyJob
  <2>2. CASE Add(p)
    BY <1>2, <1>6, <2>2, JobSteps DEF Add, OnlyJob
  <2>3. CASE ~Remove(p) /\ ~Add(p)
    BY <1>2, <1>7, <2>3
    DEF Reconcile, ProducerSteps, GiveUp, GetJob, GetState, Admit, Release, queueVars
  <2> QED  BY <2>1, <2>2, <2>3
<1>8. ASSUME NEW c \in late, ExecuteLate(c) PROVE Busy'
  <2>1. c.rev \in Revisions /\ c.op \in {"remove", "admit", "add", "release"}
    BY <1>1 DEF TypeOK
  <2>2. worker' = worker /\ (RemoveJob(c.rev) \/ AddJob(c.rev) \/ job' = job)
    BY <1>8, <2>1 DEF ExecuteLate
  <2> QED  BY <1>2, <2>1, <2>2, JobSteps DEF OnlyJob
<1>9. ASSUME NEW r \in Revisions, Expire(r) \/ Promote(r) \/ Stall(r) PROVE Busy'
  <2>1. CASE Expire(r)
    BY <1>2, <2>1 DEF Expire
  <2>2. CASE Promote(r)
    BY <1>2, <2>2, JobSteps DEF Promote, OnlyJob, Outstanding
  <2>3. CASE Stall(r)
    <3>1. worker' = worker /\ \A w \in Workers : worker[w].rev # r
      BY <2>3 DEF Stall, lockExpired
    <3> QED  BY <1>1, <2>3, <3>1, JobSteps DEF Busy, OnlyJob
  <2> QED  BY <1>9, <2>1, <2>2, <2>3
<1>10. ASSUME NEW w \in Workers, NEW r \in Revisions, Take(w, r) PROVE Busy'
  <2>1. CASE now - job[r].added > TTL
    <3>1. worker' = worker /\ FailJob(r, FALSE) /\ ~Active(r)
      BY <1>10, <2>1 DEF Take
    <3> QED  BY <1>2, <3>1, JobSteps DEF OnlyJob
  <2>2. CASE ~(now - job[r].added > TTL)
    <3>1. /\ SetState(r, "active") /\ Put(w, "read", r) /\ ~Active(r)
          /\ worker[w].up = "running"
      BY <1>10, <2>2 DEF Take, Ready
    <3>2. /\ Unmoved(w) /\ worker'[w].rev = r /\ worker'[w].pc = "read"
          /\ worker'[w].up = "running"
      BY <1>1, <3>1 DEF Put
    <3>3. OnlyJob(r) /\ job'[r].st = "active"
      BY <3>1, JobSteps DEF Outstanding
    <3> QED  BY <1>3, <3>1, <3>2, <3>3
  <2> QED  BY <2>1, <2>2
<1>11. ASSUME NEW w \in Workers,
              ReadIndex(w) \/ WriteIndex(w) \/ Complete(w) \/ FailTransiently(w)
       PROVE  Busy'
  <2> DEFINE r == worker[w].rev
  <2>1. worker[w].pc # "idle" /\ worker[w].up # "down" /\ r \in Revisions
    BY <1>1, <1>11
    DEF ReadIndex, WriteIndex, Complete, FailTransiently, Working, Busy
  <2>2. \/ /\ FailJob(r, FALSE) \/ FailJob(r, TRUE) \/ Finish(r, "completed")
           /\ PutDown(w)
        \/ /\ job' = job
           /\ \E pc \in {"write", "report"} : Put(w, pc, r)
    BY <1>11 DEF ReadIndex, WriteIndex, Complete, FailTransiently
  <2>3. PutDown(w) => Unmoved(w) /\ worker'[w].rev = None /\ worker'[w].pc = "idle"
    BY <1>1 DEF PutDown
  <2>4. ASSUME NEW pc \in {"write", "report"}, Put(w, pc, r)
        PROVE  /\ Unmoved(w) /\ worker'[w].rev = r /\ worker'[w].pc = pc
               /\ worker'[w].up = worker[w].up
    BY <1>1, <2>4 DEF Put
  <2>5. FailJob(r, FALSE) \/ FailJob(r, TRUE) \/ Finish(r, "completed") => OnlyJob(r)
    BY <2>1, JobSteps DEF Finished
  <2>6. CASE job' = job /\ \E pc \in {"write", "report"} : Put(w, pc, r)
    BY <1>5, <2>1, <2>4, <2>6
  <2>7. CASE ~(job' = job /\ \E pc \in {"write", "report"} : Put(w, pc, r))
    <3>1. /\ Unmoved(w) /\ worker'[w].rev = None /\ worker'[w].pc = "idle"
          /\ OnlyJob(r)
      BY <2>2, <2>3, <2>5, <2>7
    <3> QED  BY <1>4, <2>1, <3>1
  <2> QED  BY <2>6, <2>7
<1>12. ASSUME NEW w \in Workers, Drain(w) PROVE Busy'
  <2>1. /\ Unmoved(w) /\ job' = job /\ worker'[w].rev = worker[w].rev
        /\ worker'[w].pc = worker[w].pc
        /\ worker'[w].up = "down" => worker[w].pc = "idle"
    BY <1>1, <1>12 DEF Drain, queueVars
  <2> QED  BY <1>1, <2>1 DEF Busy
<1>13. ASSUME NEW w \in Workers, Cut(w) \/ Restart(w) PROVE Busy'
  <2>1. /\ Unmoved(w) /\ job' = job /\ worker'[w].rev = None /\ worker'[w].pc = "idle"
    BY <1>1, <1>13 DEF Cut, Restart, IdleWorker, queueVars
  <2> QED  BY <1>5, <2>1
<1>14. CASE Midnight
  BY <1>2, <1>14 DEF Midnight, queueVars
<1> QED
  BY <1>7, <1>8, <1>9, <1>10, <1>11, <1>12, <1>13, <1>14 DEF Next, WorkerSteps

\* Only the admission script lets a revision in, and it leaves room for it.
LEMMA OutstandingStep ==
  ASSUME TypeOK, Reserving, Busy, OutstandingIsBounded, Next
  PROVE  OutstandingIsBounded'
<1> DEFINE In == OutstandingJobs \cup reserved
<1>1. /\ In \in SUBSET Revisions /\ reserved \in SUBSET Revisions
      /\ OutstandingJobs \in SUBSET Revisions
      /\ In' = {r \in Revisions : job'[r].st \in Outstanding} \cup reserved'
  BY DEF TypeOK, OutstandingJobs
<1>2. Cardinality(In) <= MaxOutstanding
  BY DEF OutstandingIsBounded
<1>3. ASSUME In' \subseteq In PROVE OutstandingIsBounded'
  <2>1. Cardinality(In') <= Cardinality(In)
    BY <1>1, <1>3, Smaller
  <2>2. Cardinality(In) \in Nat /\ Cardinality(In') \in Nat
    BY <1>1, <1>3, Finite
  <2> QED  BY <1>2, <2>1, <2>2, Constants DEF OutstandingIsBounded
<1>4. ASSUME NEW r \in Revisions, Reserve(r), UNCHANGED job PROVE OutstandingIsBounded'
  <2>1. CASE admitted(r)
    <3>1. In' = In \cup {r}
      BY <1>4, <2>1 DEF Reserve, OutstandingJobs
    <3>2. Cardinality(In) <= Cardinality(OutstandingJobs) + Cardinality(reserved)
      BY <1>1, AtMostTheSum
    <3>3. Cardinality(In \cup {r}) <= Cardinality(In) + 1
      BY <1>1, OneMore
    <3>4. Cardinality(reserved) + Cardinality(OutstandingJobs) < MaxOutstanding
      BY <2>1 DEF admitted
    <3>5. /\ Cardinality(reserved) \in Nat /\ Cardinality(OutstandingJobs) \in Nat
          /\ Cardinality(In) \in Nat
      BY <1>1, Finite
    <3>6. In \cup {r} \in SUBSET Revisions
      BY <1>1
    <3>7. Cardinality(In \cup {r}) \in Nat
      BY <3>6, Finite
    <3>8. Cardinality(In \cup {r}) <= MaxOutstanding
      BY <3>2, <3>3, <3>4, <3>5, <3>7, Constants
    <3> QED  BY <3>1, <3>8 DEF OutstandingIsBounded
  <2>2. CASE ~admitted(r)
    BY <1>3, <1>4, <2>2 DEF Reserve, OutstandingJobs
  <2> QED  BY <2>1, <2>2
\* A step of a job that was outstanding, or that a reservation covers.
<1>5. ASSUME NEW r \in Revisions, OnlyJob(r), reserved' = reserved,
             r \in In \/ job'[r].st \notin Outstanding
      PROVE  OutstandingIsBounded'
  BY <1>1, <1>3, <1>5 DEF OnlyJob, OutstandingJobs
<1>6. ASSUME UNCHANGED job, reserved' \subseteq reserved PROVE OutstandingIsBounded'
  BY <1>3, <1>6 DEF OutstandingJobs
<1>7. /\ \A r \in Revisions : RemoveJob(r) /\ reserved' = reserved => OutstandingIsBounded'
      /\ \A r \in reserved : AddJob(r) /\ reserved' = reserved => OutstandingIsBounded'
  <2>1. ASSUME NEW r \in Revisions, RemoveJob(r), reserved' = reserved
        PROVE  OutstandingIsBounded'
    BY <1>5, <1>6, <2>1, JobSteps DEF Outstanding
  <2>2. ASSUME NEW r \in reserved, AddJob(r), reserved' = reserved
        PROVE  OutstandingIsBounded'
    <3>1. r \in Revisions
      BY <1>1
    <3> QED  BY <1>5, <2>2, <3>1, JobSteps
  <2> QED  BY <2>1, <2>2
<1>8. ASSUME NEW p \in Producers,
             Reconcile(p) \/ ProducerSteps(p) \/ GiveUp(p)
      PROVE  OutstandingIsBounded'
  <2>1. producer[p].pc # "idle" => producer[p].rev \in Revisions
    BY DEF Reserving
  <2>2. producer[p].pc = "add" => producer[p].rev \in reserved
    BY DEF Reserving, Adding
  <2>3. CASE Remove(p)
    BY <1>7, <2>1, <2>3 DEF Remove
  <2>4. CASE Add(p)
    BY <1>7, <2>2, <2>4 DEF Add
  <2>5. CASE Admit(p)
    BY <1>4, <2>1, <2>5 DEF Admit
  <2>6. CASE ~Remove(p) /\ ~Add(p) /\ ~Admit(p)
    BY <1>6, <1>8, <2>6
    DEF Reconcile, ProducerSteps, GiveUp, GetJob, GetState, Release, queueVars
  <2> QED  BY <2>3, <2>4, <2>5, <2>6
<1>9. ASSUME NEW c \in late, ExecuteLate(c) PROVE OutstandingIsBounded'
  <2>1. /\ c.rev \in Revisions /\ c.op \in {"remove", "admit", "add", "release"}
        /\ c.op = "add" => c.rev \in reserved
    BY DEF TypeOK, Reserving, Adding
  <2>2. CASE c.op = "remove"
    BY <1>7, <1>9, <2>1, <2>2 DEF ExecuteLate
  <2>3. CASE c.op = "admit"
    BY <1>4, <1>9, <2>1, <2>3 DEF ExecuteLate
  <2>4. CASE c.op = "add"
    BY <1>7, <1>9, <2>1, <2>4 DEF ExecuteLate
  <2>5. CASE c.op = "release"
    BY <1>6, <1>9, <2>5 DEF ExecuteLate
  <2> QED  BY <2>1, <2>2, <2>3, <2>4, <2>5
<1>10. ASSUME NEW r \in Revisions, Expire(r) \/ Promote(r) \/ Stall(r)
       PROVE  OutstandingIsBounded'
  <2>1. CASE Expire(r)
    BY <1>6, <2>1 DEF Expire
  <2>2. CASE Promote(r) \/ Stall(r)
    <3>1. r \in In /\ reserved' = reserved
      BY <2>2 DEF Promote, Stall, lockExpired, OutstandingJobs, Outstanding
    <3>2. OnlyJob(r)
      BY <2>2, JobSteps DEF Promote, Outstanding
    <3> QED  BY <1>5, <3>1, <3>2
  <2> QED  BY <1>10, <2>1, <2>2
<1>11. ASSUME NEW w \in Workers, NEW r \in Revisions, Take(w, r)
       PROVE  OutstandingIsBounded'
  <2>1. r \in In /\ reserved' = reserved
    BY <1>11 DEF Take, OutstandingJobs, Outstanding
  <2>2. OnlyJob(r)
    BY <1>11, JobSteps DEF Take, Outstanding
  <2> QED  BY <1>5, <2>1, <2>2
<1>12. ASSUME NEW w \in Workers,
              ReadIndex(w) \/ WriteIndex(w) \/ Complete(w) \/ FailTransiently(w)
       PROVE  OutstandingIsBounded'
  <2> DEFINE r == worker[w].rev
  <2>1. worker[w].pc # "idle"
    BY <1>12 DEF ReadIndex, WriteIndex, Complete, FailTransiently, Working
  <2>2. r \in Revisions /\ job[r].st = "active"
    BY <2>1 DEF Busy, TypeOK
  <2>3. r \in In
    BY <2>2 DEF OutstandingJobs, Outstanding
  <2>4. /\ reserved' = reserved
        /\ \/ FailJob(r, FALSE) \/ FailJob(r, TRUE) \/ Finish(r, "completed")
           \/ job' = job
    BY <1>12 DEF ReadIndex, WriteIndex, Complete, FailTransiently
  <2>5. OnlyJob(r) \/ job' = job
    BY <2>2, <2>4, JobSteps DEF Finished
  <2> QED  BY <1>5, <1>6, <2>2, <2>3, <2>4, <2>5
<1>13. ASSUME Midnight \/ \E w \in Workers : Drain(w) \/ Cut(w) \/ Restart(w)
       PROVE  OutstandingIsBounded'
  BY <1>6, <1>13 DEF Midnight, Drain, Cut, Restart, queueVars
<1> QED
  BY <1>8, <1>9, <1>10, <1>11, <1>12, <1>13 DEF Next, WorkerSteps

LEMMA AccountedStep ==
  ASSUME TypeOK, Busy, Accounted, Next
  PROVE  Accounted'
<1>1. /\ registeredUntil \in [Revisions -> 0..(Days + TTL)] /\ now \in Nat
      /\ keyUntil = registeredUntil
      /\ Registered \in SUBSET Revisions
      /\ Registered' = {r \in Revisions : registeredUntil'[r] > now'}
  BY Constants DEF TypeOK, Registered, Accounted
<1>2. Cardinality(Registered) \in Nat /\ Cardinality(Registered) + 1 <= MaxKeys
  BY <1>1, Finite DEF Accounted
<1>3. ASSUME Registered' \subseteq Registered, keyUntil' = registeredUntil'
      PROVE  Accounted'
  <2>1. Cardinality(Registered') <= Cardinality(Registered)
    BY <1>1, <1>3, Smaller
  <2>2. Cardinality(Registered') \in Nat
    BY <1>1, <1>3, Finite
  <2> QED  BY <1>2, <1>3, <2>1, <2>2, Constants DEF Accounted
<1>4. ASSUME UNCHANGED cacheVars, now' = now PROVE Accounted'
  BY <1>1, <1>3, <1>4 DEF cacheVars, Registered
<1>5. ASSUME NEW r \in Revisions, CacheSet(r), ~registryFull(r), now' = now
      PROVE  Accounted'
  <2>1. keyUntil' = registeredUntil' /\ Registered' \subseteq Registered \cup {r}
    BY <1>1, <1>5 DEF CacheSet, register, Registered
  <2>2. CASE r \in Registered
    BY <1>3, <2>1, <2>2
  <2>3. CASE r \notin Registered
    <3>1. Cardinality(Registered) + 1 <= MaxKeys - 1
      BY <1>2, <1>5, <2>3, Constants DEF registryFull
    <3>2. Cardinality(Registered \cup {r}) <= Cardinality(Registered) + 1
      BY <1>1, OneMore
    <3>3. Registered \cup {r} \in SUBSET Revisions
      BY <1>1
    <3>4. Cardinality(Registered') <= Cardinality(Registered \cup {r})
      BY <2>1, <3>3, Smaller
    <3>5. Cardinality(Registered \cup {r}) \in Nat /\ Cardinality(Registered') \in Nat
      BY <1>1, <3>3, Finite
    <3>6. Cardinality(Registered') + 1 <= MaxKeys
      BY <1>2, <3>1, <3>2, <3>4, <3>5, Constants
    <3> QED  BY <2>1, <3>6 DEF Accounted
  <2> QED  BY <2>2, <2>3
<1>6. CASE Midnight
  <2>1. UNCHANGED cacheVars /\ now' = now + 1
    BY <1>6 DEF Midnight
  <2>2. Registered' \subseteq Registered
    BY <1>1, <2>1 DEF cacheVars, Registered
  <2> QED  BY <1>1, <1>3, <2>1, <2>2 DEF cacheVars
<1>7. ASSUME NEW w \in Workers, WriteIndex(w) \/ FailTransiently(w) PROVE Accounted'
  <2> DEFINE r == worker[w].rev
  <2>1. worker[w].pc # "idle" /\ now' = now
    BY <1>7 DEF WriteIndex, FailTransiently, Working
  <2>2. r \in Revisions
    BY <2>1 DEF Busy, TypeOK
  <2>3. UNCHANGED cacheVars \/ (~registryFull(r) /\ CacheSet(r))
    BY <1>7 DEF WriteIndex, FailTransiently
  <2> QED  BY <1>4, <1>5, <2>1, <2>2, <2>3
<1>8. CASE ~Midnight /\ ~\E w \in Workers : WriteIndex(w) \/ FailTransiently(w)
  <2>1. UNCHANGED cacheVars /\ now' = now
    BY <1>8
    DEF Next, Reconcile, ProducerSteps, GetJob, GetState, Remove, Admit, Add, Release,
        GiveUp, ExecuteLate, Expire, Promote, Stall, WorkerSteps, Take, ReadIndex, Complete,
        Drain, Cut, Restart, cacheVars
  <2> QED  BY <1>4, <2>1
<1> QED  BY <1>6, <1>7, <1>8

LEMMA NextInv ==
  ASSUME IInv, [Next]_vars
  PROVE  IInv'
<1>1. CASE Next
  BY <1>1, TypeStep, ReservingStep, BusyStep, OutstandingStep, AccountedStep DEF IInv
<1>2. CASE UNCHANGED vars
  BY <1>2
  DEF IInv, vars, queueVars, cacheVars, TypeOK, Reserving, Relies, Busy, Accounted,
      OutstandingIsBounded, OutstandingJobs, Registered
<1> QED  BY <1>1, <1>2

\* Reservations, jobs, workers and the cache's registry account for each other.
THEOREM WarmInvariant == Spec => []IInv
  BY InitInv, NextInv, PTL DEF Spec

\* The types of the queue's, the producers', the workers' and the cache's state.
THEOREM WarmTypeOK == Spec => []TypeOK
<1>1. IInv => TypeOK
  BY DEF IInv
<1> QED  BY <1>1, WarmInvariant, PTL

\* "Redis-time reservation covers concurrent producers until their one-second
\* enqueue deadline" (producer.ts:23): however many producers there are, and
\* whatever they give up, outstanding jobs stay within their limit.
THEOREM WarmOutstandingIsBounded == Spec => []OutstandingIsBounded
<1>1. IInv => OutstandingIsBounded
  BY DEF IInv
<1> QED  BY <1>1, WarmInvariant, PTL

\* The cache and its registry stay within the key budget (suggestions/redis.ts:24).
THEOREM WarmKeysAreBounded == Spec => []KeysAreBounded
<1>1. IInv => KeysAreBounded
  BY DEF IInv, Accounted, KeysAreBounded, LiveKeys, Registered
<1> QED  BY <1>1, WarmInvariant, PTL
=============================================================================
