------------------------- MODULE WebControllerProofs -------------------------
(***************************************************************************)
(* Safety of the browser's controller for any numbers of guests, slots,    *)
(* intents and disturbances.                                               *)
(***************************************************************************)
EXTENDS WebController, TLAPS

Commands == {"GUESS", "REVEAL", "GIVE_UP"}
Recoveries == {"startRecovery", "commandRecovery"}
Exists(s) == attempts[s].state # "NONE"

(***************************************************************************)
(* Types                                                                   *)
(***************************************************************************)
Replies == {"none", "APPLIED", "REPLAYED", "AUTHENTICATION_REQUIRED", "REFUSED", "UNKNOWN_ATTEMPT",
            "NO_CURRENT_CASE", "TERMINAL_ATTEMPT", "STALE_VERSION", "EVIDENCE_LIMIT"}

\* What an answer shows: it names the slot even when there is no attempt.
Shown == [guest : Guests, slot : Slots, version : 0..Limit + 2,
          state : Finished \cup {"UNKNOWN", "AUTHENTICATION_REQUIRED", "NO_CASE",
                                "NOT_STARTED", "ACTIVE", "NONE"},
          last : Entities \cup {None}]
Pcs == {"idle", "sent"} \cup Waiting
Copies == 0..MaxFaults
Awaited == {"nothing", "current", "owned", "seen"}
Tasks == [pc : Pcs, op : Ops, copy : Copies, replay : BOOLEAN, on : Awaited, id : Ids,
          reply : Replies, seen : Shown]
Keys == (0..MaxIntents) \X {0}
Messages == [op : Ops, copy : Copies, guest : Guests, key : Keys]
Receipts == [key : Keys, slot : Slots]

Types ==
  /\ TypeOK
  /\ receipts \subseteq Receipts /\ net \subseteq Messages /\ task \in Tasks
  /\ ready \in BOOLEAN /\ intents \in 0..MaxIntents /\ faults \in 0..MaxFaults

(***************************************************************************)
(* The inductive invariant                                                 *)
(***************************************************************************)
\* An operation of the browser: nobody's of a later guest or slot, and a
\* command is about an attempt there is, in a version it has reached.
OpKnown(op) ==
  /\ op.kind # "NONE" /\ op.id \in 1..intents
  /\ op.guest <= guest /\ op.slot <= slot
  /\ op.kind \in Commands /\ op.guest = guest =>
       Exists(op.slot) /\ op.version <= attempts[op.slot].version

\* What was read of an attempt is no later than the attempt, and final if the
\* attempt was over.
Honest(seen) ==
  /\ seen.guest <= guest /\ seen.slot <= slot
  /\ seen.guest = guest =>
       LET row == attempts[seen.slot]
       IN /\ row.state # "NONE" /\ seen.version <= row.version
          /\ seen.state \in Finished => row.state = seen.state /\ row.last = seen.last

\* The command can still take effect.
Used(op) == \E r \in receipts : r.key = <<op.id, 0>>
Alive(op) ==
  /\ alive /\ op.guest = guest /\ ~Used(op)
  /\ attempts[op.slot].state = "ACTIVE" /\ attempts[op.slot].version = op.version
  /\ op.entity # Gone /\ ~(op.kind = "REVEAL" /\ op.version = Limit)

\* The attempts in progress have versions the rules can still raise.
Playing == \A s \in Slots : attempts[s].state = "ACTIVE" => attempts[s].version <= Limit

ServiceSound ==
  /\ Playing
  /\ \A r \in receipts :
       /\ r.slot <= slot /\ Exists(r.slot)
       /\ \A q \in receipts : q.key = r.key => q = r

WireSound ==
  \A m \in net :
    /\ OpKnown(m.op) /\ m.key = <<m.op.id, 0>>
    /\ m.op.guest <= m.guest /\ m.guest <= guest
    /\ m.op.id = pending.id => m.op = pending
    /\ m.op.kind \in Commands /\ m.op.id # pending.id => ~Alive(m.op)

TaskSound ==
  /\ task.pc \notin Waiting => task.on = "nothing"
  /\ pending # NoOp => OpKnown(pending)
  /\ task.pc # "idle" => OpKnown(task.op) /\ pending \in {NoOp, task.op}
  /\ task.pc \in {"stale", "noted"} => pending = NoOp
  /\ task.pc = "startRecovery" => task.op.kind = "START"
  /\ task.pc = "commandRecovery" =>
       task.op.kind \in Commands /\ task.id = IdOf(task.op) /\ task.on # "current"
  /\ task.pc \in Recoveries =>
       pending = task.op \/ (status = "SESSION_LOST" /\ task.on = "nothing")
  /\ task.on = "seen" => IsAttempt(shown) /\ IdOf(shown) = task.id /\ shown.guest = guest

ReplySound ==
  task.pc = "sent" /\ task.reply # "none" =>
    /\ task.op.kind \in Commands => ~Alive(task.op)
    /\ task.op.kind = "START" =>
         task.reply \notin {"STALE_VERSION", "TERMINAL_ATTEMPT", "EVIDENCE_LIMIT"}
    /\ task.reply \in {"APPLIED", "REPLAYED"} =>
         task.seen \in Seen /\ IsAttempt(task.seen) /\ Honest(task.seen)

SessionSound ==
  /\ ~ready => current = NoRead
  /\ boot # "off" => ~ready /\ view.state \notin {"NOT_STARTED", "NO_CASE"}
                     /\ \A i \in Ids : owned[i] # NoRead => task.on = "owned" /\ task.id = i
  /\ boot \in {"bootstrap", "resume"} => task.pc = "idle" /\ status # "READY"
  /\ boot = "bootstrap" => pending = NoOp
  /\ boot = "create" =>
       /\ pending.kind # "START"
       /\ \A i \in Ids : owned[i].at = "answered" => owned[i].value = AuthLost
       /\ alive => task.pc # "sent" /\ status # "READY" /\ \A i \in Ids : owned[i] = NoRead
  /\ status = "SESSION_LOST" =>
       /\ pending = NoOp /\ boot = "off" /\ ~ready
       /\ alive => task.pc # "sent"

CurrentSound ==
  current.at = "answered" =>
    LET seen == current.value
    IN IF seen = AuthLost THEN ~alive
       ELSE /\ seen.guest = guest /\ seen.slot <= slot
            /\ seen.state \in Finished \cup {"ACTIVE", "NO_CASE", "NOT_STARTED"}
            /\ IsAttempt(seen) => Exists(seen.slot)
            /\ seen.state = "NO_CASE" => seen.slot \notin Published
            /\ view.state = "NOT_STARTED" => view.slot <= seen.slot
            /\ pending.kind = "START" => pending.slot <= seen.slot

OwnedSound ==
  \A i \in Ids :
    /\ owned[i] # NoRead => i.guest <= guest /\ i.slot <= slot
                            /\ (i.guest = guest => Exists(i.slot))
    /\ owned[i].at = "answered" =>
         LET seen == owned[i].value
         IN \/ seen = NoView
            \/ seen = AuthLost
               /\ (alive => task.on = "owned" /\ task.id = i /\ i.guest < guest)
            \/ IsAttempt(seen) /\ IdOf(seen) = i /\ i.guest = guest /\ Honest(seen)

ScreenSound ==
  /\ view.guest <= guest /\ view.slot <= slot
  /\ view.state \in {"NOT_STARTED", "NO_CASE"} => view.guest = guest
  /\ view.state = "NO_CASE" => view.slot \notin Published
  /\ IsAttempt(view) /\ view.guest = guest => Exists(view.slot)
  /\ IsAttempt(shown) => Honest(shown)
  /\ pending.kind = "START" =>
       /\ pending.guest = guest
       /\ view.state # "UNKNOWN" => view.guest = guest /\ pending.slot <= view.slot

IInv ==
  /\ Types /\ ServiceSound /\ WireSound /\ TaskSound /\ ReplySound /\ SessionSound
  /\ CurrentSound /\ OwnedSound /\ ScreenSound
  /\ SentIsStored /\ AwaitsSomething

(***************************************************************************)
(* The service only moves forward                                          *)
(***************************************************************************)
\* An attempt stays, its version never falls, and once finished it is final.
Later(row, next) ==
  row.state # "NONE" =>
    /\ next.state # "NONE" /\ row.version <= next.version
    /\ row.state \in Finished => next = row

Progress ==
  /\ guest <= guest' /\ slot <= slot' /\ intents <= intents'
  /\ alive' => alive \/ guest < guest'
  /\ guest' = guest =>
       receipts \subseteq receipts' /\ \A s \in Slots : Later(attempts[s], attempts'[s])

\* What one accepted command makes of an attempt in progress.
LEMMA PlayedIsARow ==
  ASSUME NEW row \in Rows, row.state = "ACTIVE", row.version <= Limit,
         NEW kind \in Commands, NEW entity \in Entities \cup {None},
         ~(kind = "REVEAL" /\ row.version = Limit)
  PROVE  /\ Played(row, kind, entity) \in Rows
         /\ Played(row, kind, entity).state = "ACTIVE" =>
              Played(row, kind, entity).version <= Limit
         /\ Later(row, Played(row, kind, entity))
BY ServiceAssumption DEF Played, Rows, Commands, Finished, Later

\* A row after a step: of its type, still playable if in progress, and later.
Sound(row, next) ==
  /\ next \in Rows /\ (next.state = "ACTIVE" => next.version <= Limit)
  /\ Later(row, next)

\* Rewriting one attempt soundly.
LEMMA OneAttempt ==
  ASSUME attempts \in [Slots -> Rows], Playing, NEW s \in Slots, NEW row,
         attempts' = [attempts EXCEPT ![s] = row], Sound(attempts[s], row)
  PROVE  attempts' \in [Slots -> Rows] /\ Playing'
         /\ \A q \in Slots : Later(attempts[q], attempts'[q])
BY ServiceAssumption DEF Playing, Later, Rows, Sound

\* A command that is applied acts on an attempt in progress, within the rules.
LEMMA AppliedCommand ==
  ASSUME Types, ServiceSound, NEW op \in Ops, op.kind \in Commands,
         CommandOutcome(op) = "APPLIED"
  PROVE  /\ attempts[op.slot].state = "ACTIVE" /\ op.guest = guest
         /\ attempts[op.slot].version = op.version
         /\ ~(op.kind = "REVEAL" /\ attempts[op.slot].version = Limit)
<1>1. op.guest = guest
  BY DEF CommandOutcome
<1>2. attempts[op.slot].state = "ACTIVE"
  BY <1>1 DEF CommandOutcome
<1> QED
  BY <1>1, <1>2 DEF CommandOutcome, AtEvidenceLimit

\* A request that is applied: one attempt moves on, and a new key is used.
LEMMA AppliedStep ==
  ASSUME Types, ServiceSound, NEW s \in Slots, s <= slot, NEW row, NEW key \in Keys,
         attempts' = [attempts EXCEPT ![s] = row],
         receipts' = receipts \cup {[key |-> key, slot |-> s]},
         Sound(attempts[s], row), row.state # "NONE",
         \A r \in receipts : r.key # key, slot' = slot
  PROVE  /\ attempts' \in [Slots -> Rows] /\ receipts' \subseteq Receipts
         /\ ServiceSound' /\ \A q \in Slots : Later(attempts[q], attempts'[q])
<1>1. attempts \in [Slots -> Rows] /\ receipts \subseteq Receipts
  BY DEF Types, TypeOK
<1>2. attempts' \in [Slots -> Rows] /\ Playing' /\ \A q \in Slots : Later(attempts[q], attempts'[q])
  BY <1>1, OneAttempt DEF ServiceSound
<1>3. receipts' \subseteq Receipts
  BY <1>1 DEF Receipts
<1>4. \A q \in Slots : q = s \/ Exists(q) => Exists(q)'
  BY <1>1, <1>2 DEF Exists, Later
<1>5. \A r \in receipts' : r.slot <= slot' /\ Exists(r.slot)'
  BY <1>1, <1>4 DEF ServiceSound, Receipts
<1>6. \A r, q \in receipts' : q.key = r.key => q = r
  BY <1>1 DEF ServiceSound
<1> QED
  BY <1>2, <1>3, <1>5, <1>6 DEF ServiceSound

\* Serving a request: at most one attempt moves on, and a receipt with a key
\* of its own names a slot that has an attempt.
LEMMA ServeStep ==
  ASSUME Types, ServiceSound, NEW m \in net, OpKnown(m.op), Serve(m),
         UNCHANGED <<guest, alive, slot>>
  PROVE  /\ attempts' \in [Slots -> Rows] /\ receipts' \subseteq Receipts
         /\ ServiceSound' /\ receipts \subseteq receipts'
         /\ \A q \in Slots : Later(attempts[q], attempts'[q])
<1> DEFINE s == Target(m.op)
           row == IF m.op.kind # "START" THEN Played(attempts[s], m.op.kind, m.op.entity)
                  ELSE IF attempts[s].state = "NONE" THEN Started ELSE attempts[s]
<1>1. m \in Messages /\ m.op \in Ops /\ m.key \in Keys /\ attempts \in [Slots -> Rows] /\ slot \in Slots
      /\ receipts \subseteq Receipts
  BY DEF Types, TypeOK, Messages
<1>2. s \in Slots /\ s <= slot
  BY <1>1, ServiceAssumption DEF Target, Ops, OpKnown
<1>3. CASE Outcome(m) # "APPLIED"
  <2>1. UNCHANGED <<attempts, receipts>>
    BY <1>3 DEF Serve
  <2>2. \A q \in Slots : Later(attempts[q], attempts'[q])
    BY <1>1, <2>1, ServiceAssumption DEF Later, Rows
  <2> QED
    BY <1>1, <2>1, <2>2 DEF ServiceSound, Playing, Exists
<1>4. CASE Outcome(m) = "APPLIED"
  <2>1. attempts' = [attempts EXCEPT ![s] = row]
        /\ receipts' = receipts \cup {[key |-> m.key, slot |-> s]}
    BY <1>4 DEF Serve
  <2>2. \A r \in receipts : r.key # m.key
    BY <1>4 DEF Outcome
  <2>3. Sound(attempts[s], row) /\ row.state # "NONE"
    <3>1. CASE m.op.kind = "START"
      <4>1. attempts[s] \in Rows /\ (attempts[s].state = "ACTIVE" => attempts[s].version <= Limit)
        BY <1>1, <1>2 DEF ServiceSound, Playing
      <4>2. row = IF attempts[s].state = "NONE" THEN Started ELSE attempts[s]
        BY <3>1
      <4> HIDE DEF row, s
      <4>3. Started \in Rows /\ Started.state = "ACTIVE" /\ Started.version <= Limit
        BY ServiceAssumption DEF Started, Rows
      <4> QED
        BY <4>1, <4>2, <4>3 DEF Sound, Later, Rows
    <3>2. CASE m.op.kind # "START"
      <4>1. m.op.kind \in Commands /\ s = m.op.slot
        BY <1>1, <3>2 DEF Ops, OpKnown, Commands, Target
      <4>2. CommandOutcome(m.op) = "APPLIED"
        BY <1>4, <3>2 DEF Outcome
      <4>3. attempts[s].state = "ACTIVE" /\ ~(m.op.kind = "REVEAL" /\ attempts[s].version = Limit)
        BY <1>1, <4>1, <4>2, AppliedCommand
      <4>4. m.op.entity \in Entities \cup {None}
        BY <1>1 DEF Ops
      <4>5. attempts[s].version <= Limit /\ attempts[s] \in Rows
        BY <1>1, <1>2, <4>3 DEF ServiceSound, Playing
      <4>6. row \in Rows /\ (row.state = "ACTIVE" => row.version <= Limit) /\ Later(attempts[s], row)
        BY <3>2, <4>1, <4>3, <4>4, <4>5, PlayedIsARow
      <4> HIDE DEF row, s
      <4> QED
        BY <4>3, <4>6 DEF Sound, Later
    <3> QED
      BY <3>1, <3>2
  <2>4. /\ attempts' \in [Slots -> Rows] /\ receipts' \subseteq Receipts
        /\ ServiceSound' /\ \A q \in Slots : Later(attempts[q], attempts'[q])
    <3> HIDE DEF row, s
    <3> QED
      BY <1>1, <1>2, <2>1, <2>2, <2>3, AppliedStep
  <2> QED
    BY <2>1, <2>4
<1> QED
  BY <1>3, <1>4

(***************************************************************************)
(* Every step is progress of the service                                   *)
(***************************************************************************)
ServiceTypes ==
  /\ guest \in Guests /\ alive \in BOOLEAN /\ slot \in Slots
  /\ attempts \in [Slots -> Rows] /\ receipts \subseteq Receipts

\* A session of a new guest: no attempts and no receipts yet.
LEMMA SessionStep ==
  ASSUME Types, ServiceSound, CreateSession
  PROVE  ServiceTypes' /\ ServiceSound' /\ guest < guest' /\ slot' = slot
BY ServiceAssumption
DEF CreateSession, Types, TypeOK, ServiceTypes, ServiceSound, Playing, NoAttempts, Rows,
    Receipts, Exists

\* An attempt in progress that expires.
LEMMA RewrittenRow ==
  ASSUME NEW S, NEW V, NEW L, NEW row \in [state : S, version : V, last : L],
         NEW state \in S, NEW version \in V
  PROVE  LET next == [row EXCEPT !.state = state, !.version = version]
         IN /\ next \in [state : S, version : V, last : L]
            /\ next.state = state /\ next.version = version
OBVIOUS

\* An attempt in progress that expires is a later row, and final.
LEMMA ExpiredRow ==
  ASSUME NEW row \in Rows, row.state = "ACTIVE", row.version <= Limit
  PROVE  Sound(row, [row EXCEPT !.state = "EXPIRED", !.version = row.version + 1])
<1> DEFINE next == [row EXCEPT !.state = "EXPIRED", !.version = row.version + 1]
<1>1. row.version \in Nat /\ row.version + 1 \in 0..Limit + 1
  BY ServiceAssumption DEF Rows
<1>2. next \in Rows /\ next.state = "EXPIRED" /\ next.version = row.version + 1
  BY <1>1, RewrittenRow DEF Rows, Finished
<1> HIDE DEF next
<1>3. Sound(row, next)
  BY <1>1, <1>2 DEF Sound, Later, Finished
<1> QED
  BY <1>3 DEF next

\* What the world does to the service beside the browser's requests.
LEMMA WorldStep ==
  ASSUME Types, ServiceSound, Rollover \/ SessionEnds \/ OtherTabPlays
  PROVE  /\ ServiceTypes' /\ ServiceSound'
         /\ guest' = guest /\ slot <= slot' /\ (alive' => alive) /\ receipts' = receipts
         /\ \A s \in Slots : Later(attempts[s], attempts'[s])
<1>1. guest \in Guests /\ alive \in BOOLEAN /\ slot \in Slots /\ slot \in Nat
      /\ attempts \in [Slots -> Rows] /\ receipts \subseteq Receipts
  BY ServiceAssumption DEF Types, TypeOK
<1>2. ASSUME attempts' \in [Slots -> Rows], Playing', slot' \in Slots, slot <= slot',
             receipts' = receipts,
             \A s \in Slots : Later(attempts[s], attempts'[s])
      PROVE  ServiceSound'
  <2>1. \A r \in receipts : r.slot <= slot /\ r.slot \in Slots /\ r.slot \in Nat /\ Exists(r.slot)
    BY <1>1, ServiceAssumption DEF ServiceSound, Receipts
  <2>2. slot \in Nat /\ slot' \in Nat
    BY <1>1, <1>2, ServiceAssumption
  <2>3. \A r \in receipts : r.slot <= slot' /\ Exists(r.slot)'
    BY <1>2, <2>1, <2>2 DEF Exists, Later
  <2> QED
    BY <1>2, <2>3 DEF ServiceSound
<1>3. CASE Rollover
  <2>1. slot' \in Slots /\ slot <= slot'
    <3>1. slot' = slot + 1 /\ slot + 1 \in Slots
      BY <1>3 DEF Rollover
    <3> QED
      BY <1>1, <3>1
  <2>2. \A s \in Slots : Sound(attempts[s], attempts'[s])
    <3> SUFFICES ASSUME NEW s \in Slots PROVE Sound(attempts[s], attempts'[s])
      OBVIOUS
    <3>1. attempts[s] \in Rows /\ (attempts[s].state = "ACTIVE" => attempts[s].version <= Limit)
      BY <1>1 DEF ServiceSound, Playing
    <3>2. CASE attempts[s].state = "ACTIVE"
      <4>1. attempts'[s] = [attempts[s] EXCEPT !.state = "EXPIRED", !.version = attempts[s].version + 1]
        BY <1>3, <3>2 DEF Rollover
      <4> QED
        BY <3>1, <3>2, <4>1, ExpiredRow
    <3>3. CASE attempts[s].state # "ACTIVE"
      <4>1. attempts'[s] = attempts[s]
        BY <1>3, <3>3 DEF Rollover
      <4> QED
        BY <3>1, <3>3, <4>1, ServiceAssumption DEF Sound, Later, Rows
    <3> QED
      BY <3>2, <3>3
  <2>3. attempts' \in [Slots -> Rows]
    BY <1>3, <2>2 DEF Rollover, Sound
  <2> QED
    BY <1>1, <1>2, <1>3, <2>1, <2>2, <2>3 DEF Rollover, Sound, Playing, ServiceTypes
<1>4. CASE SessionEnds
  <2>1. UNCHANGED <<guest, slot, attempts, receipts>> /\ alive' = FALSE /\ alive
    BY <1>4 DEF SessionEnds
  <2>2. \A s \in Slots : Later(attempts[s], attempts'[s])
    BY <1>1, <2>1, ServiceAssumption DEF Later, Rows
  <2>3. Playing' /\ attempts' \in [Slots -> Rows] /\ slot' \in Slots /\ slot <= slot'
    BY <1>1, <2>1 DEF ServiceSound, Playing
  <2> QED
    BY <1>1, <1>2, <2>1, <2>2, <2>3 DEF ServiceTypes
<1>5. CASE OtherTabPlays
  <2>1. PICK row : attempts' = [attempts EXCEPT ![slot] = row] /\ Sound(attempts[slot], row)
    <3>1. CASE attempts[slot].state = "NONE" /\ attempts' = [attempts EXCEPT ![slot] = Started]
      <4>1. Sound(attempts[slot], Started)
        BY <1>1, <3>1, ServiceAssumption DEF Sound, Later, Started, Rows
      <4> QED
        BY <3>1, <4>1
    <3>2. ASSUME NEW kind \in Commands, NEW entity \in Entities,
                 attempts[slot].state = "ACTIVE", ~AtEvidenceLimit(slot, kind),
                 attempts' = [attempts EXCEPT ![slot] = Played(attempts[slot], kind, entity)]
          PROVE  \E row : attempts' = [attempts EXCEPT ![slot] = row] /\ Sound(attempts[slot], row)
      <4>1. attempts[slot].version <= Limit /\ attempts[slot] \in Rows
        BY <1>1, <3>2 DEF ServiceSound, Playing
      <4>2. Sound(attempts[slot], Played(attempts[slot], kind, entity))
        BY <3>2, <4>1, PlayedIsARow DEF Sound, AtEvidenceLimit
      <4> QED
        BY <3>2, <4>2
    <3> QED
      BY <1>5, <3>1, <3>2 DEF OtherTabPlays, Commands
  <2>2. attempts' \in [Slots -> Rows] /\ Playing' /\ \A s \in Slots : Later(attempts[s], attempts'[s])
    BY <1>1, <2>1, OneAttempt DEF ServiceSound
  <2> QED
    BY <1>1, <1>2, <1>5, <2>2 DEF OtherTabPlays, ServiceTypes
<1> QED
  BY <1>3, <1>4, <1>5

\* What a step of the page leaves of the service and of the intents.
LEMMA PageKeepsService ==
  ASSUME Types, PageEvent \/ AnswerCurrent \/ (\E i \in Ids : AnswerOwned(i))
  PROVE  /\ intents <= intents'
         /\ UNCHANGED service \/ (SessionAnswered /\ CreateSession)
<1>1. intents \in Nat
  BY BoundsAssumption DEF Types
<1>2. CASE StartAttempt \/ SubmitCommand
  <2>1. CASE StartAttempt
    BY <1>1, <2>1 DEF StartAttempt, RunNewMutation, NoOp
  <2>2. CASE SubmitCommand
    BY <1>1, <2>2 DEF SubmitCommand, RunNewMutation
  <2> QED
    BY <1>2, <2>1, <2>2
<1>3. CASE Refresh \/ HandleCurrent \/ (\E i \in Ids : HandleOwned(i)) \/ ReadFails
           \/ Reload \/ NewSession \/ SessionFails
  <2>1. intents' = intents /\ UNCHANGED service
    BY <1>3 DEF Refresh, HandleCurrent, HandleOwned, ReadFails, Reload, NewSession, SessionFails
  <2> QED
    BY <1>1, <2>1
<1>4. CASE SessionAnswered
  BY <1>1, <1>4 DEF SessionAnswered
<1>5. CASE MutationSucceeds \/ MutationUnauthenticated \/ MutationRefused \/ MutationUncertain
           \/ RefusalShown
  BY <1>1, <1>5 DEF MutationSucceeds, MutationUnauthenticated, MutationRefused,
    MutationUncertain, RefusalShown
<1>6. CASE ReplayPending \/ ReconcilePending \/ StartReconciled \/ CommandReconciled
  BY <1>1, <1>6 DEF ReplayPending, ReconcilePending, Recover, StartReconciled, CommandReconciled
<1>7. CASE AnswerCurrent \/ (\E i \in Ids : AnswerOwned(i))
  BY <1>1, <1>7 DEF AnswerCurrent, AnswerOwned
<1> QED
  BY <1>2, <1>3, <1>4, <1>5, <1>6, <1>7 DEF PageEvent

\* Every step, of the page or of the world, is progress of a sound service.
LEMMA ServiceStep ==
  ASSUME Types, ServiceSound, WireSound, [Next]_vars
  PROVE  Progress /\ ServiceTypes' /\ ServiceSound'
<1>1. /\ guest \in Guests /\ alive \in BOOLEAN /\ slot \in Slots /\ intents \in Nat
      /\ guest \in Nat /\ slot \in Nat
      /\ attempts \in [Slots -> Rows] /\ receipts \subseteq Receipts
  BY ServiceAssumption, BoundsAssumption DEF Types, TypeOK
<1>2. \A s \in Slots : Later(attempts[s], attempts[s])
  BY <1>1, ServiceAssumption DEF Later, Rows
<1>3. CASE UNCHANGED service /\ intents <= intents'
  BY <1>1, <1>2, <1>3
  DEF Progress, ServiceTypes, ServiceSound, Playing, Exists, service
<1>4. CASE SessionAnswered /\ CreateSession /\ intents <= intents'
  <2>1. ServiceTypes' /\ ServiceSound' /\ guest < guest' /\ slot' = slot
    BY <1>4, SessionStep
  <2> QED
    BY <1>1, <1>4, <2>1, ServiceAssumption DEF Progress, ServiceTypes
<1>5. CASE Deliver
  <2>1. PICK m \in net : Serve(m) /\ UNCHANGED <<guest, alive, slot, intents>>
    BY <1>5 DEF Deliver
  <2>2. OpKnown(m.op)
    BY DEF WireSound
  <2>3. /\ attempts' \in [Slots -> Rows] /\ receipts' \subseteq Receipts
        /\ ServiceSound' /\ receipts \subseteq receipts'
        /\ \A q \in Slots : Later(attempts[q], attempts'[q])
    BY <2>1, <2>2, ServeStep
  <2> QED
    BY <1>1, <2>1, <2>3 DEF Progress, ServiceTypes
<1>6. CASE World
  <2>1. /\ ServiceTypes' /\ ServiceSound'
        /\ guest' = guest /\ slot <= slot' /\ (alive' => alive) /\ receipts' = receipts
        /\ \A s \in Slots : Later(attempts[s], attempts'[s])
    BY <1>6, WorldStep DEF World
  <2>2. intents' = intents
    BY <1>6 DEF World
  <2> QED
    BY <1>1, <2>1, <2>2 DEF Progress
<1>7. CASE UNCHANGED vars
  BY <1>1, <1>3, <1>7 DEF vars, service
<1> QED
  BY <1>3, <1>4, <1>5, <1>6, <1>7, PageKeepsService DEF Next, Answers

(***************************************************************************)
(* What progress of the service cannot undo                                *)
(***************************************************************************)
\* The components of the records, as numbers.
LEMMA NumberFacts ==
  /\ Guests \subseteq Nat /\ Slots \subseteq Nat /\ 0..Limit + 1 \subseteq Nat
  /\ 0..Limit + 2 \subseteq Nat /\ 0..MaxIntents \subseteq Nat
BY ServiceAssumption, BoundsAssumption

\* Types of an operation's parts.
LEMMA OpFacts ==
  \A op \in Ops : /\ op.id \in Nat /\ op.guest \in Nat /\ op.guest \in Guests
                  /\ op.slot \in Nat /\ op.slot \in Slots /\ op.version \in Nat
<1> TAKE op \in Ops
<1>1. op.id \in 0..MaxIntents /\ op.guest \in Guests /\ op.slot \in Slots /\ op.version \in 0..Limit + 2
  BY DEF Ops
<1> QED
  BY <1>1, NumberFacts

\* Types of a projection's parts.
LEMMA SeenFacts ==
  \A seen \in Shown : /\ seen.guest \in Nat /\ seen.guest \in Guests
                      /\ seen.slot \in Nat /\ seen.slot \in Slots /\ seen.version \in Nat
<1> TAKE seen \in Shown
<1>1. seen.guest \in Guests /\ seen.slot \in Slots /\ seen.version \in 0..Limit + 2
  BY DEF Shown
<1> QED
  BY <1>1, NumberFacts

\* Types of a stored attempt.
LEMMA RowFacts ==
  ASSUME Types, NEW s \in Slots
  PROVE  attempts[s] \in Rows /\ attempts[s].version \in Nat
<1>1. attempts[s] \in Rows
  BY DEF Types, TypeOK
<1>2. attempts[s].version \in 0..Limit + 1
  BY <1>1 DEF Rows
<1> QED
  BY <1>1, <1>2, NumberFacts

\* An attempt that exists goes on existing for its guest.
LEMMA ExistsStays ==
  ASSUME Types, Progress, guest' = guest
  PROVE  \A s \in Slots : Exists(s) => Exists(s)'
BY DEF Progress, Exists, Later

\* An operation known to the page stays one.
LEMMA KnownStays ==
  ASSUME Types, ServiceTypes', Progress, intents' \in Nat
  PROVE  \A op \in Ops : OpKnown(op) => OpKnown(op)'
<1> SUFFICES ASSUME NEW op \in Ops, OpKnown(op) PROVE OpKnown(op)'
  OBVIOUS
<1>1. /\ guest \in Nat /\ guest' \in Nat /\ slot \in Nat /\ slot' \in Nat /\ intents \in Nat
      /\ guest <= guest' /\ slot <= slot' /\ intents <= intents'
  BY ServiceAssumption, BoundsAssumption DEF Types, TypeOK, ServiceTypes, Progress
<1>2. op.id \in Nat /\ op.guest \in Nat /\ op.slot \in Nat /\ op.slot \in Slots /\ op.version \in Nat
  BY OpFacts
<1>3. /\ op.kind # "NONE" /\ op.id \in 1..intents' /\ op.guest <= guest' /\ op.slot <= slot'
  BY <1>1, <1>2 DEF OpKnown
<1>4. ASSUME op.kind \in Commands, op.guest = guest'
      PROVE  Exists(op.slot)' /\ op.version <= attempts'[op.slot].version
  <2>1. guest' = guest
    BY <1>1, <1>2, <1>4 DEF OpKnown
  <2>2. Exists(op.slot) /\ op.version <= attempts[op.slot].version
    BY <1>4, <2>1 DEF OpKnown
  <2>3. Later(attempts[op.slot], attempts'[op.slot])
    BY <1>2, <2>1 DEF Progress
  <2>4. attempts[op.slot].version \in Nat /\ attempts'[op.slot].version \in Nat
    BY <1>2, ServiceAssumption DEF Types, TypeOK, ServiceTypes, Rows
  <2> QED
    BY <1>2, <2>2, <2>3, <2>4 DEF Later, Exists
<1> QED
  BY <1>3, <1>4 DEF OpKnown

\* A command that can take no effect never can again.
LEMMA DeadStays ==
  ASSUME Types, ServiceTypes', Progress
  PROVE  \A op \in Ops : OpKnown(op) /\ op.kind \in Commands /\ ~Alive(op) => ~Alive(op)'
<1> SUFFICES ASSUME NEW op \in Ops, OpKnown(op), op.kind \in Commands, Alive(op)'
             PROVE  Alive(op)
  OBVIOUS
<1>1. /\ guest \in Nat /\ guest' \in Nat /\ guest <= guest'
  BY ServiceAssumption DEF Types, TypeOK, ServiceTypes, Progress
<1>2. op.guest \in Nat /\ op.slot \in Slots /\ op.version \in Nat
  BY OpFacts
<1>3. /\ alive' /\ op.guest = guest' /\ ~Used(op)'
      /\ attempts'[op.slot].state = "ACTIVE" /\ attempts'[op.slot].version = op.version
      /\ op.entity # Gone /\ ~(op.kind = "REVEAL" /\ op.version = Limit)
  BY DEF Alive
<1>4. guest' = guest
  BY <1>1, <1>2, <1>3 DEF OpKnown
<1>5. alive
  BY <1>1, <1>3, <1>4 DEF Progress
<1>6. ~Used(op)
  BY <1>3, <1>4 DEF Used, Progress
<1>7. /\ Later(attempts[op.slot], attempts'[op.slot])
      /\ Exists(op.slot) /\ op.version <= attempts[op.slot].version
  BY <1>2, <1>3, <1>4 DEF Progress, OpKnown
<1>8. attempts[op.slot] \in Rows /\ attempts[op.slot].version \in Nat
  BY <1>2, RowFacts
<1>9. attempts[op.slot].version = op.version
  BY <1>2, <1>3, <1>7, <1>8 DEF Later, Exists
<1>10. attempts[op.slot].state = "ACTIVE"
  BY <1>3, <1>7, <1>8 DEF Later, Exists, Rows, Finished
<1> QED
  BY <1>3, <1>4, <1>5, <1>6, <1>9, <1>10 DEF Alive

\* What was read of an attempt stays a true account of its past.
LEMMA HonestStays ==
  ASSUME Types, ServiceTypes', Progress
  PROVE  \A seen \in Shown : Honest(seen) => Honest(seen)'
<1> SUFFICES ASSUME NEW seen \in Shown, Honest(seen) PROVE Honest(seen)'
  OBVIOUS
<1>1. /\ guest \in Nat /\ guest' \in Nat /\ slot \in Nat /\ slot' \in Nat
      /\ guest <= guest' /\ slot <= slot'
  BY ServiceAssumption DEF Types, TypeOK, ServiceTypes, Progress
<1>2. seen.guest \in Nat /\ seen.slot \in Nat /\ seen.slot \in Slots /\ seen.version \in Nat
  BY SeenFacts
<1>3. seen.guest <= guest' /\ seen.slot <= slot'
  BY <1>1, <1>2 DEF Honest
<1>4. ASSUME seen.guest = guest'
      PROVE  LET row == attempts'[seen.slot]
             IN /\ row.state # "NONE" /\ seen.version <= row.version
                /\ seen.state \in Finished => row.state = seen.state /\ row.last = seen.last
  <2>1. guest' = guest
    BY <1>1, <1>2, <1>4 DEF Honest
  <2>2. Later(attempts[seen.slot], attempts'[seen.slot])
    BY <1>2, <2>1 DEF Progress
  <2>3. attempts[seen.slot].version \in Nat /\ attempts'[seen.slot].version \in Nat
    BY <1>2, ServiceAssumption DEF Types, TypeOK, ServiceTypes, Rows
  <2> QED
    BY <1>2, <1>4, <2>1, <2>2, <2>3 DEF Later, Honest
<1> QED
  BY <1>3, <1>4 DEF Honest

(***************************************************************************)
(* What the page's operators build                                         *)
(***************************************************************************)
LEMMA ConstantFacts ==
  /\ NoView \in Seen /\ AuthLost \in Seen /\ NoRead \in Reads /\ Asked \in Reads
  /\ NoReads \in [Ids -> Reads] /\ NoOp \in Ops /\ Idle \in Tasks
  /\ Idle.pc = "idle" /\ Idle.on = "nothing" /\ Idle.reply = "none"
  /\ NoRead.at = "none" /\ Asked.at = "asked" /\ NoOp.kind = "NONE" /\ NoOp.id = 0
  /\ NoView.state = "UNKNOWN" /\ AuthLost.state = "AUTHENTICATION_REQUIRED"
<1>1. 0 \in 0..Limit + 2 /\ 0 \in 0..MaxIntents /\ 0 \in 0..MaxFaults /\ 0 \in Guests /\ 0 \in Slots
  BY ServiceAssumption, BoundsAssumption
<1>2. NoView \in Seen /\ NoView.state = "UNKNOWN"
  BY <1>1 DEF NoView, Seen
<1>3. AuthLost \in Seen /\ AuthLost.state = "AUTHENTICATION_REQUIRED"
  BY <1>2 DEF AuthLost, Seen
<1>4. NoRead \in Reads /\ Asked \in Reads /\ NoRead.at = "none" /\ Asked.at = "asked"
  BY <1>2 DEF NoRead, Asked, Reads
<1>5. NoReads \in [Ids -> Reads]
  BY <1>4 DEF NoReads
<1>6. NoOp \in Ops /\ NoOp.kind = "NONE" /\ NoOp.id = 0
  BY <1>1 DEF NoOp, Ops
<1>7. NoView \in Shown /\ IdOf(NoView) \in Ids
  BY <1>1, <1>2 DEF NoView, Shown, IdOf, Ids
<1>8. Idle \in Tasks /\ Idle.pc = "idle" /\ Idle.on = "nothing" /\ Idle.reply = "none"
  BY <1>1, <1>6, <1>7 DEF Idle, Tasks, Replies, Pcs, Copies, Awaited
<1> QED
  BY <1>2, <1>3, <1>4, <1>5, <1>6, <1>8

\* What the page keeps is what an answer may show.
LEMMA SeenIsShown == \A seen \in Seen : seen \in Shown
BY DEF Seen, Shown

\* Ids of attempts and their parts.
LEMMA IdFacts ==
  /\ \A seen \in Shown : IdOf(seen) \in Ids
  /\ \A op \in Ops : IdOf(op) \in Ids
  /\ \A i \in Ids : /\ i.guest \in Guests /\ i.guest \in Nat /\ i.slot \in Slots /\ i.slot \in Nat
<1>1. \A seen \in Shown : IdOf(seen) \in Ids
  BY SeenFacts DEF IdOf, Ids
<1>2. \A op \in Ops : IdOf(op) \in Ids
  BY OpFacts DEF IdOf, Ids
<1>3. \A i \in Ids : i.guest \in Guests /\ i.slot \in Slots
  BY DEF Ids
<1> QED
  BY <1>1, <1>2, <1>3, NumberFacts

\* A case keeps the identity and the state of what it is of.
LEMMA CaseFacts ==
  \A seen \in Seen : /\ CaseOf(seen) \in Seen /\ CaseOf(seen).guest = seen.guest
                     /\ CaseOf(seen).slot = seen.slot /\ CaseOf(seen).state = seen.state
<1> TAKE seen \in Seen
<1>1. NoView \in Seen
  BY ConstantFacts
<1>2. seen.guest \in Guests /\ seen.slot \in Slots
  BY SeenFacts, SeenIsShown
<1> QED
  BY <1>1, <1>2 DEF CaseOf, Seen

\* Two tasks that differ at most in the read they wait for.
SameWork(t, u) ==
  /\ u.pc = t.pc /\ u.op = t.op /\ u.copy = t.copy /\ u.replay = t.replay
  /\ u.reply = t.reply /\ u.seen = t.seen

\* Changing what a task waits for changes nothing else of it.
LEMMA WaitRecord ==
  \A t \in Tasks, n \in Awaited :
    LET u == [t EXCEPT !.on = n]
    IN u \in Tasks /\ SameWork(t, u) /\ u.id = t.id /\ u.on = n
<1> TAKE t \in Tasks, n \in Awaited
<1> DEFINE u == [t EXCEPT !.on = n]
<1>1. u \in Tasks
  BY DEF Tasks
<1>2. SameWork(t, u) /\ u.id = t.id /\ u.on = n
  BY DEF SameWork, Tasks
<1> QED
  BY <1>1, <1>2

\* A task that begins to wait for a read.
LEMMA AwaitFacts ==
  \A t \in Tasks, kind \in {"current", "owned"}, i \in Ids :
    LET u == Await(t, kind, i)
    IN u \in Tasks /\ SameWork(t, u) /\ u.on = kind /\ u.id = i
<1> TAKE t \in Tasks, kind \in {"current", "owned"}, i \in Ids
<1>1. kind \in Awaited
  BY DEF Awaited
<1>2. Await(t, kind, i) \in Tasks
  BY <1>1 DEF Await, Tasks
<1>3. SameWork(t, Await(t, kind, i)) /\ Await(t, kind, i).on = kind /\ Await(t, kind, i).id = i
  BY <1>1 DEF Await, SameWork, Tasks
<1> QED
  BY <1>2, <1>3

\* A task that is forsaken keeps its work and waits for nothing.
LEMMA ForsakeFacts ==
  \A t \in Tasks, kind \in {"current", "owned"}, ids \in SUBSET Ids :
    LET u == Forsake(t, kind, ids)
    IN /\ u \in Tasks /\ SameWork(t, u) /\ u.id = t.id
       /\ u.on = IF t.on = kind /\ t.id \in ids THEN "nothing" ELSE t.on
<1> TAKE t \in Tasks, kind \in {"current", "owned"}, ids \in SUBSET Ids
<1>1. t.id \in Ids /\ "nothing" \in Awaited
  BY DEF Tasks, Awaited
<1>2. LET u == [t EXCEPT !.on = "nothing"]
      IN u \in Tasks /\ SameWork(t, u) /\ u.id = t.id /\ u.on = "nothing"
  BY <1>1, WaitRecord
<1> QED
  BY <1>2 DEF Forsake, SameWork

\* The same for a task that waited for the current case.
LEMMA ForsakeCurrentFacts ==
  \A t \in Tasks :
    LET u == ForsakeCurrent(t)
    IN /\ u \in Tasks /\ SameWork(t, u) /\ u.id = t.id
       /\ u.on = IF t.on = "current" THEN "nothing" ELSE t.on
<1>1. \A t \in Tasks : t.id \in Ids
  BY DEF Tasks
<1> QED
  BY <1>1, ForsakeFacts DEF ForsakeCurrent

\* The same for a task that waited for one of these attempts.
LEMMA ForsakeOwnedFacts ==
  \A t \in Tasks, ids \in SUBSET Ids :
    LET u == ForsakeOwned(t, ids)
    IN /\ u \in Tasks /\ SameWork(t, u) /\ u.id = t.id
       /\ u.on = IF t.on = "owned" /\ t.id \in ids THEN "nothing" ELSE t.on
BY ForsakeFacts DEF ForsakeOwned

\* The same for a task that waited for any read.
LEMMA ForsakeAllFacts ==
  \A t \in Tasks :
    LET u == ForsakeAll(t)
    IN /\ u \in Tasks /\ SameWork(t, u) /\ u.id = t.id
       /\ u.on = IF t.on \in {"current", "owned"} THEN "nothing" ELSE t.on
<1>1. \A t \in Tasks : t.id \in Ids
  BY DEF Tasks
<1> QED
  BY <1>1, ForsakeCurrentFacts, ForsakeOwnedFacts DEF ForsakeAll, SameWork

\* A copy on the wire carries its operation, its session and its stored key.
LEMMA MessageFacts ==
  ASSUME Types
  PROVE  \A op \in Ops : /\ Message(op) \in Messages /\ Message(op).op = op
                         /\ Message(op).guest = guest /\ Message(op).key = <<op.id, 0>>
<1> TAKE op \in Ops
<1>1. guest \in Guests /\ faults \in Copies
  BY DEF Types, TypeOK, Copies
<1>2. <<op.id, 0>> \in Keys
  BY DEF Ops, Keys
<1> QED
  BY <1>1, <1>2 DEF Message, Messages, IdempotencyKey

\* Sending an operation makes the task wait for its answer.
LEMMA TransmitFacts ==
  ASSUME Types
  PROVE  \A op \in Ops : Transmit(op) =>
           /\ net' = net \cup {Message(op)} /\ mutation' = "IN_FLIGHT"
           /\ task' \in Tasks /\ task'.pc = "sent" /\ task'.op = op
           /\ task'.on = "nothing" /\ task'.reply = "none"
<1> SUFFICES ASSUME NEW op \in Ops, Transmit(op)
             PROVE  /\ net' = net \cup {Message(op)} /\ mutation' = "IN_FLIGHT"
                    /\ task' \in Tasks /\ task'.pc = "sent" /\ task'.op = op
                    /\ task'.on = "nothing" /\ task'.reply = "none"
  OBVIOUS
<1>1. faults \in Copies
  BY DEF Types, Copies
<1>2. task' = [Idle EXCEPT !.pc = "sent", !.op = op, !.copy = faults]
  BY DEF Transmit
<1>3. Idle \in Tasks /\ Idle.on = "nothing" /\ Idle.reply = "none" /\ "sent" \in Pcs
  BY ConstantFacts DEF Pcs
<1>4. task' \in Tasks
  BY <1>1, <1>2, <1>3 DEF Tasks
<1>5. task'.pc = "sent" /\ task'.op = op /\ task'.on = Idle.on /\ task'.reply = Idle.reply
  BY <1>2, <1>3 DEF Tasks
<1> QED
  BY <1>3, <1>4, <1>5 DEF Transmit

\* What the loss of the session leaves behind.
LEMMA LoseFacts ==
  \A t \in Tasks : LoseSession(t) =>
    /\ pending' = NoOp /\ status' = "SESSION_LOST" /\ mutation' = "IDLE" /\ ready' = FALSE
    /\ boot' = "off" /\ current' = NoRead /\ owned' = NoReads
    /\ UNCHANGED <<view, shown>>
    /\ task' \in Tasks /\ SameWork(t, task') /\ task'.id = t.id
    /\ task'.on = IF t.on \in {"current", "owned"} THEN "nothing" ELSE t.on
BY ForsakeAllFacts DEF LoseSession

\* Applying an attempt changes at most the state of the case shown.
LEMMA ViewFacts ==
  \A v, seen \in Seen :
    /\ ViewWith(v, seen) \in Seen
    /\ ViewWith(v, seen).guest = v.guest /\ ViewWith(v, seen).slot = v.slot
    /\ \/ ViewWith(v, seen) = v
       \/ /\ IsAttempt(v) /\ IdOf(v) = IdOf(seen)
          /\ ViewWith(v, seen).state = seen.state
<1> TAKE v, seen \in Seen
<1>1. IdOf(v) = IdOf(seen) => v.guest = seen.guest /\ v.slot = seen.slot
  BY DEF IdOf
<1> QED
  BY <1>1, CaseFacts DEF ViewWith

\* Ending reads leaves the others.
LEMMA WithoutFacts ==
  \A reads \in [Ids -> Reads], ids \in SUBSET Ids :
    /\ Without(reads, ids) \in [Ids -> Reads]
    /\ \A i \in Ids : Without(reads, ids)[i] = IF i \in ids THEN NoRead ELSE reads[i]
BY ConstantFacts DEF Without

\* The reads a finished attempt aborts are reads of attempts.
LEMMA CancelledFacts == \A seen \in Seen : Cancelled(seen) \in SUBSET Ids
BY DEF Cancelled

(***************************************************************************)
(* Type correctness                                                        *)
(***************************************************************************)
Statuses == {"HYDRATING", "READ_ERROR", "READY", "SESSION_LOST"}
Mutations == {"IDLE", "IN_FLIGHT", "STALE", "UNCERTAIN"}
Boots == {"off", "bootstrap", "resume", "create"}

PageTypes ==
  /\ pending \in Ops /\ view \in Seen /\ shown \in Seen
  /\ status \in Statuses /\ mutation \in Mutations /\ boot \in Boots /\ ready \in BOOLEAN
  /\ current \in Reads /\ owned \in [Ids -> Reads] /\ task \in Tasks /\ net \subseteq Messages
  /\ intents \in 0..MaxIntents /\ faults \in 0..MaxFaults

\* The types of the service and those of the page,
LEMMA TypesSplit == Types => ServiceTypes /\ PageTypes
BY DEF Types, TypeOK, ServiceTypes, PageTypes, Statuses, Mutations, Boots

\* and back.
LEMMA TypesJoin == ServiceTypes /\ PageTypes => Types
<1> SUFFICES ASSUME ServiceTypes, PageTypes PROVE Types
  OBVIOUS
<1>1. task.pc \in {"idle", "sent", "startRecovery"} \cup Waiting
  BY DEF PageTypes, Tasks, Pcs, Waiting
<1>2. \A m \in net : m.op \in Ops /\ m.copy \in 0..MaxFaults
  BY DEF PageTypes, Messages, Copies
<1> QED
  BY <1>1, <1>2 DEF Types, TypeOK, ServiceTypes, PageTypes, Statuses, Mutations, Boots

\* A disturbance is one of those left.
LEMMA FaultFacts ==
  ASSUME Types, Fault
  PROVE  faults' \in 0..MaxFaults
BY BoundsAssumption DEF Types, Fault

\* What an answer says of a case or an attempt is a case or an attempt.
LEMMA ProjectionFacts ==
  ASSUME Types, NEW s \in Slots
  PROVE  /\ Projection(s) \in Shown /\ Projection(s).guest = guest /\ Projection(s).slot = s
         /\ Projection(s).state = attempts[s].state
         /\ Projection(s).version = attempts[s].version /\ Projection(s).last = attempts[s].last
         /\ attempts[s].state # "NONE" => Projection(s) \in Seen /\ IsAttempt(Projection(s))
         /\ attempts[s].state \in Finished \cup {"NONE", "ACTIVE"}
<1>1. attempts[s] \in Rows /\ guest \in Guests
  BY RowFacts DEF Types, TypeOK
<1>2. attempts[s].state \in Finished \cup {"NONE", "ACTIVE"} /\ attempts[s].last \in Entities \cup {None}
      /\ attempts[s].version \in 0..Limit + 2
  BY <1>1, ServiceAssumption DEF Rows
<1> HIDE DEF Finished
<1> QED
  BY <1>1, <1>2 DEF Projection, Shown, Seen, IsAttempt

\* What the server says of the current case.
LEMMA CurrentCaseFacts ==
  ASSUME Types
  PROVE  /\ CurrentCase \in Seen /\ CurrentCase.guest = guest /\ CurrentCase.slot = slot
         /\ CurrentCase.state \in Finished \cup {"ACTIVE", "NO_CASE", "NOT_STARTED"}
         /\ IsAttempt(CurrentCase) => attempts[slot].state # "NONE"
         /\ CurrentCase.state = "NO_CASE" => slot \notin Published
<1> DEFINE P == Projection(slot)
<1>1. slot \in Slots
  BY DEF Types, TypeOK
<1>2. /\ P \in Shown /\ P.guest = guest /\ P.slot = slot /\ P.state = attempts[slot].state
      /\ P.state # "NONE" => P \in Seen /\ IsAttempt(P)
      /\ P.state \in Finished \cup {"NONE", "ACTIVE"}
  BY <1>1, ProjectionFacts
<1>3. ASSUME NEW state \in {"NO_CASE", "NOT_STARTED"}
      PROVE  /\ [P EXCEPT !.state = state] \in Seen
             /\ [P EXCEPT !.state = state].guest = guest
             /\ [P EXCEPT !.state = state].slot = slot
             /\ [P EXCEPT !.state = state].state = state
  <2> HIDE DEF P
  <2>1. state \in Finished \cup {"UNKNOWN", "AUTHENTICATION_REQUIRED", "NO_CASE", "NOT_STARTED", "ACTIVE"}
    OBVIOUS
  <2> HIDE DEF Finished
  <2> QED
    BY <1>2, <2>1 DEF Shown, Seen
<1>4. CASE slot \notin Published
  <2>1. CurrentCase = [P EXCEPT !.state = "NO_CASE"]
    BY <1>4 DEF CurrentCase
  <2>2. CurrentCase \in Seen /\ CurrentCase.guest = guest /\ CurrentCase.slot = slot
        /\ CurrentCase.state = "NO_CASE"
    <3> HIDE DEF P
    <3> QED
      BY <1>3, <2>1
  <2> QED
    BY <1>4, <2>2 DEF IsAttempt, Finished
<1>5. CASE slot \in Published /\ attempts[slot].state = "NONE"
  <2>1. CurrentCase = [P EXCEPT !.state = "NOT_STARTED"]
    BY <1>5 DEF CurrentCase
  <2>2. CurrentCase \in Seen /\ CurrentCase.guest = guest /\ CurrentCase.slot = slot
        /\ CurrentCase.state = "NOT_STARTED"
    <3> HIDE DEF P
    <3> QED
      BY <1>3, <2>1
  <2> QED
    BY <1>5, <2>2 DEF IsAttempt, Finished
<1>6. CASE slot \in Published /\ attempts[slot].state # "NONE"
  <2>1. CurrentCase = P
    BY <1>6 DEF CurrentCase
  <2> HIDE DEF P
  <2> QED
    BY <1>2, <1>6, <2>1 DEF IsAttempt, Finished
<1> QED
  BY <1>4, <1>5, <1>6

(***************************************************************************)
(* The answers to requests                                                 *)
(***************************************************************************)
LEMMA OutcomeFacts ==
  ASSUME Types, ServiceSound, WireSound, NEW m \in net
  PROVE  /\ Outcome(m) \in Replies \ {"none"}
         /\ m.op.kind = "START" =>
              Outcome(m) \notin {"STALE_VERSION", "TERMINAL_ATTEMPT", "EVIDENCE_LIMIT"}
         /\ m.op.kind \in Commands => (Outcome(m) = "APPLIED" <=> Alive(m.op))
<1>1. m \in Messages /\ m.op \in Ops /\ OpKnown(m.op) /\ m.key = <<m.op.id, 0>>
      /\ m.op.guest <= m.guest /\ m.guest <= guest
      /\ m.op.guest \in Nat /\ m.guest \in Nat /\ guest \in Nat
  <2>1. m \in Messages /\ m.op \in Ops /\ m.guest \in Guests /\ guest \in Guests
    BY DEF Types, TypeOK, Messages
  <2> QED
    BY <2>1, OpFacts, NumberFacts DEF WireSound
<1>2. StartOutcome \in {"APPLIED", "NO_CURRENT_CASE"}
  BY DEF StartOutcome
<1>3. CASE m.op.kind = "START"
  BY <1>2, <1>3 DEF Outcome, Replies, Commands
<1>4. ASSUME m.op.kind \in Commands
      PROVE  /\ CommandOutcome(m.op) \in {"APPLIED", "REFUSED", "UNKNOWN_ATTEMPT", "TERMINAL_ATTEMPT",
                                          "STALE_VERSION", "EVIDENCE_LIMIT"}
             /\ CommandOutcome(m.op) = "APPLIED" <=>
                  /\ m.op.guest = guest
                  /\ attempts[m.op.slot].state = "ACTIVE"
                  /\ attempts[m.op.slot].version = m.op.version
                  /\ m.op.entity # Gone /\ ~(m.op.kind = "REVEAL" /\ m.op.version = Limit)
  <2>1. CASE m.op.guest # guest
    BY <2>1 DEF CommandOutcome
  <2>2. CASE m.op.guest = guest /\ attempts[m.op.slot].state # "ACTIVE"
    BY <2>2 DEF CommandOutcome
  <2>3. CASE m.op.guest = guest /\ attempts[m.op.slot].state = "ACTIVE"
    BY <2>3 DEF CommandOutcome, AtEvidenceLimit
  <2> QED
    BY <2>1, <2>2, <2>3
<1>5. ASSUME m.op.kind \in Commands
      PROVE  /\ Outcome(m) \in Replies \ {"none"}
             /\ Outcome(m) = "APPLIED" <=> Alive(m.op)
  <2>1. m.op.kind # "START"
    BY <1>5 DEF Commands
  <2>2. CASE ~alive \/ m.guest # guest
    <3>1. Outcome(m) = "AUTHENTICATION_REQUIRED"
      BY <2>2 DEF Outcome
    <3> QED
      BY <1>1, <2>2, <3>1 DEF Alive, Replies
  <2>3. CASE alive /\ m.guest = guest /\ Used(m.op)
    <3>1. Outcome(m) = "REPLAYED"
      BY <1>1, <2>3 DEF Outcome, Used
    <3> QED
      BY <2>3, <3>1 DEF Alive, Replies
  <2>4. CASE alive /\ m.guest = guest /\ ~Used(m.op)
    <3>1. Outcome(m) = CommandOutcome(m.op)
      BY <1>1, <2>1, <2>4 DEF Outcome, Used
    <3> QED
      BY <1>4, <1>5, <2>4, <3>1 DEF Alive, Replies
  <2> QED
    BY <2>2, <2>3, <2>4
<1> QED
  BY <1>1, <1>3, <1>5 DEF Ops, OpKnown, Commands

\* The answer names an attempt that is as it says, if the request took effect.
LEMMA AnswerFacts ==
  ASSUME Types, ServiceSound, WireSound, NEW m \in net, Serve(m),
         UNCHANGED <<guest, alive, slot>>
  PROVE  /\ AnswerTo(m) \in Shown
         /\ Outcome(m) \in {"APPLIED", "REPLAYED"} =>
              /\ AnswerTo(m) \in Seen /\ IsAttempt(AnswerTo(m))
              /\ AnswerTo(m).guest = guest' /\ AnswerTo(m).slot <= slot'
              /\ LET row == attempts'[AnswerTo(m).slot]
                 IN /\ row.state # "NONE" /\ AnswerTo(m).version = row.version
                    /\ AnswerTo(m).state = row.state /\ AnswerTo(m).last = row.last
         /\ Outcome(m) = "APPLIED" => \E r \in receipts' : r.key = m.key
<1> DEFINE s == IF Outcome(m) = "REPLAYED"
                THEN (CHOOSE r \in receipts : r.key = m.key).slot ELSE Target(m.op)
<1>1. m \in Messages /\ m.op \in Ops /\ OpKnown(m.op) /\ slot \in Slots /\ guest \in Guests
      /\ slot \in Nat /\ receipts \subseteq Receipts
  <2>1. m.op \in Ops /\ m \in Messages /\ slot \in Slots /\ guest \in Guests /\ receipts \subseteq Receipts
    BY DEF Types, TypeOK, Messages
  <2> QED
    BY <2>1, NumberFacts DEF WireSound
<1>2. /\ attempts' \in [Slots -> Rows] /\ ServiceSound' /\ receipts \subseteq receipts'
      /\ \A q \in Slots : Later(attempts[q], attempts'[q])
  BY <1>1, ServeStep
<1>3. Outcome(m) = "APPLIED" =>
        \E r \in receipts' : r.key = m.key /\ r.slot = Target(m.op)
  <2>1. Outcome(m) = "APPLIED" =>
          receipts' = receipts \cup {[key |-> m.key, slot |-> Target(m.op)]}
    BY DEF Serve
  <2> DEFINE r == [key |-> m.key, slot |-> Target(m.op)]
  <2>2. r.key = m.key /\ r.slot = Target(m.op)
    OBVIOUS
  <2>3. Outcome(m) = "APPLIED" => r \in receipts'
    BY <2>1
  <2> HIDE DEF r
  <2> QED
    BY <2>2, <2>3
<1>4. Target(m.op) \in Slots /\ Target(m.op) <= slot
  BY <1>1, OpFacts DEF Target, OpKnown
<1>5. ASSUME Outcome(m) = "REPLAYED"
      PROVE  \E r \in receipts : s = r.slot
  <2>1. \E r \in receipts : r.key = m.key
    BY <1>5 DEF Outcome, StartOutcome, CommandOutcome
  <2> QED
    BY <1>5, <2>1
<1>6. s \in Slots /\ s <= slot
  <2>1. CASE Outcome(m) = "REPLAYED"
    <3>1. PICK r \in receipts : s = r.slot
      BY <1>5, <2>1
    <3>2. r.slot \in Slots /\ r.slot <= slot
      BY <1>1 DEF Receipts, ServiceSound
    <3> QED
      BY <3>1, <3>2
  <2> QED
    BY <1>4, <2>1
<1>7. AnswerTo(m) = [guest |-> guest, slot |-> s, state |-> attempts'[s].state,
                     version |-> attempts'[s].version, last |-> attempts'[s].last]
  BY DEF AnswerTo
<1>8. Outcome(m) \in {"APPLIED", "REPLAYED"} => attempts'[s].state # "NONE"
  <2>1. CASE Outcome(m) = "APPLIED"
    <3>1. s = Target(m.op)
      BY <2>1
    <3> HIDE DEF s
    <3> QED
      BY <1>2, <1>3, <2>1, <3>1 DEF ServiceSound, Exists
  <2>2. CASE Outcome(m) = "REPLAYED"
    <3>1. PICK r \in receipts : s = r.slot
      BY <1>5, <2>2
    <3> HIDE DEF s
    <3> QED
      BY <1>2, <3>1 DEF ServiceSound, Exists
  <2> QED
    BY <2>1, <2>2
<1> HIDE DEF s
<1>9. attempts'[s] \in Rows /\ attempts'[s].state \in Finished \cup {"NONE", "ACTIVE"}
      /\ attempts'[s].last \in Entities \cup {None} /\ attempts'[s].version \in 0..Limit + 2
  <2>1. attempts'[s] \in Rows
    BY <1>2, <1>6
  <2>2. attempts'[s].version \in 0..Limit + 2
    BY <2>1, ServiceAssumption DEF Rows
  <2> QED
    BY <2>1, <2>2 DEF Rows
<1>10. AnswerTo(m) \in Shown
  BY <1>1, <1>6, <1>7, <1>9 DEF Shown
<1>11. attempts'[s].state # "NONE" => AnswerTo(m) \in Seen /\ IsAttempt(AnswerTo(m))
  BY <1>1, <1>6, <1>7, <1>9 DEF Seen, IsAttempt
<1> QED
  BY <1>3, <1>6, <1>7, <1>8, <1>10, <1>11

(***************************************************************************)
(* The operations and tasks the page makes                                 *)
(***************************************************************************)
LEMMA StartOpFacts ==
  ASSUME Types, StartAttempt
  PROVE  \E op \in Ops :
           /\ RunNewMutation(op) /\ op.id = intents + 1 /\ op.kind = "START"
           /\ op.guest = view.guest /\ op.slot = view.slot
<1> DEFINE op == [NoOp EXCEPT !.id = intents + 1, !.kind = "START",
                              !.guest = view.guest, !.slot = view.slot]
<1>1. intents + 1 \in 0..MaxIntents /\ view.guest \in Guests /\ view.slot \in Slots
  <2>1. view \in Shown
    BY SeenIsShown DEF Types, TypeOK
  <2> QED
    BY <2>1, SeenFacts, BoundsAssumption DEF Types, StartAttempt
<1>2. NoOp \in Ops
  BY ConstantFacts
<1>3. op \in Ops
  BY <1>1, <1>2 DEF Ops
<1>4. op.id = intents + 1 /\ op.kind = "START" /\ op.guest = view.guest /\ op.slot = view.slot
  BY <1>2 DEF Ops
<1>5. RunNewMutation(op)
  BY DEF StartAttempt
<1> HIDE DEF op
<1> QED
  BY <1>3, <1>4, <1>5

\* A command is about the attempt shown.
LEMMA SubmitOpFacts ==
  ASSUME Types, SubmitCommand
  PROVE  \E op \in Ops :
           /\ RunNewMutation(op) /\ op.id = intents + 1 /\ op.kind \in Commands
           /\ op.guest = shown.guest /\ op.slot = shown.slot /\ op.version = shown.version
<1>1. PICK kind \in Commands, entity \in Entities \cup {None} :
        RunNewMutation([id |-> intents + 1, kind |-> kind, entity |-> entity,
                        guest |-> shown.guest, slot |-> shown.slot,
                        version |-> shown.version])
  BY DEF SubmitCommand, Commands
<1> DEFINE op == [id |-> intents + 1, kind |-> kind, entity |-> entity,
                  guest |-> shown.guest, slot |-> shown.slot, version |-> shown.version]
<1>2. /\ intents + 1 \in 0..MaxIntents /\ shown.guest \in Guests /\ shown.slot \in Slots
      /\ shown.version \in 0..Limit + 2
  <2>1. shown.version \in 0..Limit + 2 /\ shown \in Shown
    BY SeenIsShown DEF Types, TypeOK, Seen
  <2> QED
    BY <2>1, SeenFacts, BoundsAssumption DEF Types, SubmitCommand
<1>3. op \in Ops
  BY <1>2 DEF Ops, Commands
<1>4. /\ op.id = intents + 1 /\ op.kind = kind /\ op.guest = shown.guest /\ op.slot = shown.slot
      /\ op.version = shown.version
  OBVIOUS
<1> HIDE DEF op
<1> QED
  BY <1>1, <1>3, <1>4 DEF op

\* What a refusal makes of the task and of the reads.
LEMMA RefusedFacts ==
  ASSUME Types, MutationRefused
  PROVE  /\ task' \in Tasks /\ current' \in Reads /\ owned' \in [Ids -> Reads]
         /\ \/ task' = Idle /\ UNCHANGED <<current, owned>>
            \/ /\ task'.op = task.op /\ task'.pc = "noted" /\ task'.on = "current"
               /\ current' = Asked /\ ready /\ UNCHANGED owned
            \/ /\ task.reply \in {"STALE_VERSION", "TERMINAL_ATTEMPT", "EVIDENCE_LIMIT"}
               /\ task'.op = task.op /\ task'.pc \in {"stale", "noted"}
               /\ task'.on = "owned" /\ task'.id = IdOf(task.op)
               /\ owned' = [owned EXCEPT ![IdOf(task.op)] = Asked] /\ UNCHANGED current
<1> DEFINE next == [Idle EXCEPT !.op = task.op, !.pc =
                      IF task.reply = "STALE_VERSION" THEN "stale" ELSE "noted"]
<1>1. task \in Tasks /\ task.op \in Ops /\ IdOf(task.op) \in Ids /\ Idle \in Tasks
      /\ current \in Reads /\ owned \in [Ids -> Reads] /\ Asked \in Reads
  BY IdFacts, ConstantFacts DEF Types, TypeOK, Tasks
<1>2. next \in Tasks
  BY <1>1 DEF Tasks, Pcs, Waiting
<1>3. next.op = task.op /\ next.pc = IF task.reply = "STALE_VERSION" THEN "stale" ELSE "noted"
  BY <1>1 DEF Tasks
<1>4. \/ task' = Idle /\ UNCHANGED <<current, owned>>
      \/ /\ task.reply = "NO_CURRENT_CASE" /\ ready
         /\ current' = Asked /\ task' = Await(next, "current", IdOf(task.op)) /\ UNCHANGED owned
      \/ /\ task.reply \in {"STALE_VERSION", "TERMINAL_ATTEMPT", "EVIDENCE_LIMIT"}
         /\ owned' = [owned EXCEPT ![IdOf(task.op)] = Asked]
         /\ task' = Await(next, "owned", IdOf(task.op)) /\ UNCHANGED current
  <2>1. CASE task.reply = "REFUSED"
    BY <2>1 DEF MutationRefused
  <2>2. CASE task.reply = "NO_CURRENT_CASE"
    BY <2>2 DEF MutationRefused
  <2>3. CASE task.reply \in {"STALE_VERSION", "TERMINAL_ATTEMPT", "EVIDENCE_LIMIT"}
    BY <2>3 DEF MutationRefused
  <2> QED
    BY <2>1, <2>2, <2>3 DEF MutationRefused, Replied
<1> HIDE DEF next
<1>5. ASSUME NEW kind \in {"current", "owned"}
      PROVE  LET u == Await(next, kind, IdOf(task.op))
             IN u \in Tasks /\ u.op = task.op /\ u.pc = next.pc /\ u.on = kind /\ u.id = IdOf(task.op)
  BY <1>1, <1>2, <1>3, AwaitFacts DEF SameWork
<1> QED
  BY <1>1, <1>3, <1>4, <1>5

\* What the start of a recovery makes of them.
LEMMA RecoverFacts ==
  ASSUME Types
  PROVE  \A replay \in BOOLEAN : Recover(replay) =>
           \/ /\ pending.kind # "START" /\ Transmit(pending) /\ UNCHANGED <<current, owned>>
           \/ /\ task' \in Tasks /\ current' \in Reads /\ owned' \in [Ids -> Reads]
              /\ task'.op = pending /\ task'.reply = "none" /\ UNCHANGED <<mutation, net>>
              /\ \/ /\ pending.kind = "START" /\ task'.pc = "startRecovery" /\ UNCHANGED owned
                    /\ \/ ready /\ current' = Asked /\ task'.on = "current"
                       \/ task'.on = "nothing" /\ UNCHANGED current
                 \/ /\ pending.kind # "START" /\ task'.pc = "commandRecovery"
                    /\ task'.on = "owned" /\ task'.id = IdOf(pending)
                    /\ owned' = [owned EXCEPT ![IdOf(pending)] = Asked] /\ UNCHANGED current
<1> TAKE replay \in BOOLEAN
<1> DEFINE t == [Idle EXCEPT !.op = pending, !.replay = replay]
           start == [t EXCEPT !.pc = "startRecovery"]
           command == [t EXCEPT !.pc = "commandRecovery"]
<1>1. pending \in Ops /\ IdOf(pending) \in Ids /\ Idle \in Tasks /\ Idle.on = "nothing"
      /\ Idle.reply = "none"
      /\ current \in Reads /\ owned \in [Ids -> Reads] /\ Asked \in Reads
  BY IdFacts, ConstantFacts DEF Types, TypeOK
<1>2. t \in Tasks
  BY <1>1 DEF Tasks
<1>3. t.op = pending /\ t.on = "nothing" /\ t.reply = "none"
  BY <1>1 DEF Tasks
<1>4. Recover(replay) =>
        \/ pending.kind # "START" /\ Transmit(pending) /\ UNCHANGED <<current, owned>>
        \/ /\ pending.kind = "START" /\ ready /\ current' = Asked
           /\ task' = Await(start, "current", IdOf(pending)) /\ UNCHANGED <<mutation, owned, net>>
        \/ /\ pending.kind = "START" /\ task' = start /\ UNCHANGED <<mutation, current, owned, net>>
        \/ /\ pending.kind # "START" /\ owned' = [owned EXCEPT ![IdOf(pending)] = Asked]
           /\ task' = Await(command, "owned", IdOf(pending)) /\ UNCHANGED <<mutation, current, net>>
  BY DEF Recover
<1> HIDE DEF t
<1>5. /\ start \in Tasks /\ command \in Tasks
      /\ start.pc = "startRecovery" /\ start.op = pending /\ start.on = "nothing" /\ start.reply = "none"
      /\ command.pc = "commandRecovery" /\ command.op = pending /\ command.reply = "none"
  BY <1>2, <1>3 DEF Tasks, Pcs, Waiting
<1> HIDE DEF start, command
<1>6. LET u == Await(start, "current", IdOf(pending))
      IN u \in Tasks /\ u.op = pending /\ u.pc = start.pc /\ u.on = "current" /\ u.reply = "none"
  BY <1>1, <1>5, AwaitFacts DEF SameWork
<1>7. LET u == Await(command, "owned", IdOf(pending))
      IN /\ u \in Tasks /\ u.op = pending /\ u.pc = command.pc /\ u.on = "owned"
         /\ u.reply = "none" /\ u.id = IdOf(pending)
  BY <1>1, <1>5, AwaitFacts DEF SameWork
<1> QED
  BY <1>1, <1>4, <1>5, <1>6, <1>7

(***************************************************************************)
(* Types of the page after each of its steps                               *)
(***************************************************************************)
LEMMA PageTypesStep ==
  ASSUME IInv, [Next]_vars
  PROVE  PageTypes'
<1>1. PageTypes /\ Types
  BY TypesSplit DEF IInv
<1>2. /\ pending \in Ops /\ view \in Seen /\ shown \in Seen
      /\ status \in Statuses /\ mutation \in Mutations /\ boot \in Boots /\ ready \in BOOLEAN
      /\ current \in Reads /\ owned \in [Ids -> Reads] /\ task \in Tasks /\ net \subseteq Messages
      /\ intents \in 0..MaxIntents /\ faults \in 0..MaxFaults
  BY <1>1 DEF PageTypes
<1>3. /\ current.value \in Seen /\ IdOf(current.value) \in Ids
      /\ \A i \in Ids : owned[i].value \in Seen
      /\ task.op \in Ops /\ IdOf(pending) \in Ids /\ IdOf(task.op) \in Ids
  <2>1. current.value \in Seen /\ task.op \in Ops /\ \A i \in Ids : owned[i] \in Reads
    BY <1>2 DEF Reads, Tasks
  <2>2. \A i \in Ids : owned[i].value \in Seen
    BY <2>1 DEF Reads
  <2> QED
    BY <1>2, <2>1, <2>2, IdFacts, SeenIsShown
<1>4. /\ {"HYDRATING", "READ_ERROR", "READY", "SESSION_LOST"} \subseteq Statuses
      /\ {"IDLE", "IN_FLIGHT", "STALE", "UNCERTAIN"} \subseteq Mutations
      /\ {"off", "bootstrap", "resume", "create"} \subseteq Boots
  BY DEF Statuses, Mutations, Boots
<1>5. /\ NoView \in Seen /\ AuthLost \in Seen /\ NoRead \in Reads /\ Asked \in Reads
      /\ NoReads \in [Ids -> Reads] /\ NoOp \in Ops /\ Idle \in Tasks
  BY ConstantFacts
<1>6. Fault => faults' \in 0..MaxFaults
  BY <1>1, FaultFacts
<1>7. ASSUME LoseSession(task) \/ LoseSession(Idle), UNCHANGED <<net, intents, faults>>
      PROVE  PageTypes'
  BY <1>2, <1>4, <1>5, <1>7, LoseFacts DEF PageTypes
<1>8. \A op \in Ops : Transmit(op) =>
        task' \in Tasks /\ net' \subseteq Messages /\ mutation' \in Mutations
  BY <1>1, <1>2, <1>4, TransmitFacts, MessageFacts
<1>9. CASE UNCHANGED vars
  BY <1>2, <1>9 DEF PageTypes, vars, page
<1>10. CASE Refresh
  BY <1>2, <1>5, <1>10, ForsakeCurrentFacts DEF Refresh, PageTypes
<1>11. CASE AnswerCurrent
  <2>1. current' \in Reads
    BY <1>1, <1>5, <1>11, CurrentCaseFacts, CaseFacts DEF AnswerCurrent, Reads
  <2> QED
    BY <1>2, <1>11, <2>1 DEF AnswerCurrent, PageTypes
<1>12. ASSUME NEW i \in Ids, AnswerOwned(i)
       PROVE  PageTypes'
  <2>1. i.guest = guest => Exists(i.slot)
    <3>1. NoRead.at = "none" /\ Asked.at = "asked"
      BY ConstantFacts
    <3> QED
      BY <1>12, <3>1 DEF IInv, OwnedSound, AnswerOwned
  <2>2. i.guest = guest => Projection(i.slot) \in Seen
    BY <1>1, <2>1, ProjectionFacts, IdFacts DEF Exists
  <2>3. owned' \in [Ids -> Reads]
    <3>1. \A seen \in Seen : [at |-> "answered", value |-> seen] \in Reads
      BY DEF Reads
    <3> QED
      BY <1>2, <1>5, <1>12, <2>2, <3>1 DEF AnswerOwned
  <2> QED
    BY <1>2, <1>12, <2>3 DEF AnswerOwned, PageTypes
<1>13. CASE Deliver
  <2>1. PICK m \in net :
          /\ Serve(m) /\ net' = net \ {m}
          /\ task' = IF task.pc = "sent" /\ task.op = m.op /\ task.copy = m.copy
                     THEN [task EXCEPT !.reply = Outcome(m), !.seen = AnswerTo(m)]
                     ELSE task
          /\ UNCHANGED <<guest, alive, slot, pending, status, mutation, ready, view,
                         shown, boot, current, owned, intents, faults>>
    BY <1>13 DEF Deliver
  <2>2. Outcome(m) \in Replies /\ AnswerTo(m) \in Shown
    BY <2>1, OutcomeFacts, AnswerFacts DEF IInv
  <2>3. task' \in Tasks
    BY <1>2, <2>1, <2>2 DEF Tasks
  <2> QED
    BY <1>2, <2>1, <2>3 DEF PageTypes
<1>14. CASE HandleCurrent
  <2> DEFINE seen == current.value
             i == IdOf(seen)
  <2>1. CASE seen = AuthLost
    BY <1>7, <1>14, <2>1 DEF HandleCurrent
  <2>2. CASE seen # AuthLost
    <3>1. view' \in Seen /\ status' \in Statuses /\ current' \in Reads
          /\ UNCHANGED <<pending, mutation, ready, shown, boot, net, intents, faults>>
      BY <1>3, <1>4, <1>5, <1>14, <2>2, CaseFacts DEF HandleCurrent
    <3>2. owned' \in [Ids -> Reads]
      BY <1>2, <1>3, <1>5, <1>14, <2>2 DEF HandleCurrent
    <3>3. task' \in Tasks
      <4>1. i \in Ids /\ {i} \in SUBSET Ids
        BY <1>3
      <4> QED
        BY <1>2, <1>14, <2>2, <4>1, AwaitFacts, ForsakeOwnedFacts, ForsakeAllFacts,
           ForsakeCurrentFacts DEF HandleCurrent
    <3> QED
      BY <1>2, <3>1, <3>2, <3>3 DEF PageTypes
  <2> QED
    BY <2>1, <2>2
<1>15. ASSUME NEW i \in Ids, HandleOwned(i)
       PROVE  PageTypes'
  <2> DEFINE seen == owned[i].value
  <2>1. CASE seen = AuthLost /\ LoseSession(task)
    BY <1>7, <1>15, <2>1 DEF HandleOwned
  <2>2. CASE /\ seen = NoView /\ status' = "READ_ERROR"
             /\ owned' = [owned EXCEPT ![i] = NoRead] /\ task' = ForsakeOwned(task, {i})
             /\ UNCHANGED <<pending, mutation, ready, view, shown, boot, current>>
    <3>1. task' \in Tasks /\ owned' \in [Ids -> Reads]
      BY <1>2, <1>5, <2>2, ForsakeOwnedFacts
    <3> QED
      BY <1>2, <1>4, <1>15, <2>2, <3>1 DEF HandleOwned, PageTypes
  <2>3. CASE /\ shown' = seen /\ view' = ViewWith(view, seen)
             /\ owned' = Without(owned, {i} \cup Cancelled(seen))
             /\ task' = IF task.on = "owned" /\ task.id = i THEN [task EXCEPT !.on = "seen"]
                        ELSE ForsakeOwned(task, Cancelled(seen))
             /\ UNCHANGED <<pending, status, mutation, ready, boot, current>>
    <3>1. seen \in Seen /\ Cancelled(seen) \in SUBSET Ids /\ "seen" \in Awaited
      BY <1>3, CancelledFacts DEF Awaited
    <3>2. task' \in Tasks
      <4>1. [task EXCEPT !.on = "seen"] \in Tasks
        BY <1>2, <3>1 DEF Tasks
      <4> QED
        BY <1>2, <2>3, <3>1, <4>1, ForsakeOwnedFacts
    <3>3. owned' \in [Ids -> Reads]
      BY <1>2, <2>3, <3>1, WithoutFacts
    <3>4. view' \in Seen
      BY <1>2, <2>3, <3>1, ViewFacts
    <3> QED
      BY <1>2, <1>15, <2>3, <3>1, <3>2, <3>3, <3>4 DEF HandleOwned, PageTypes
  <2> QED
    BY <1>15, <2>1, <2>2, <2>3 DEF HandleOwned
<1>16. CASE ReadFails
  <2>1. current' \in Reads /\ owned' \in [Ids -> Reads]
    BY <1>2, <1>5, <1>16 DEF ReadFails
  <2>2. task' \in Tasks
    <3>1. \A i \in Ids : ForsakeOwned(task, {i}) \in Tasks
      <4> TAKE i \in Ids
      <4>1. {i} \in SUBSET Ids
        OBVIOUS
      <4> QED
        BY <1>2, <4>1, ForsakeOwnedFacts
    <3>2. ForsakeCurrent(task) \in Tasks
      BY <1>2, ForsakeCurrentFacts
    <3> QED
      BY <1>16, <3>1, <3>2 DEF ReadFails
  <2> QED
    BY <1>2, <1>4, <1>6, <1>16, <2>1, <2>2 DEF ReadFails, PageTypes
<1>17. CASE Reload
  BY <1>2, <1>4, <1>5, <1>6, <1>17 DEF Reload, PageTypes
<1>18. CASE NewSession
  BY <1>2, <1>4, <1>5, <1>18, ForsakeAllFacts DEF NewSession, PageTypes
<1>19. CASE SessionAnswered
  <2>1. CASE Booted /\ UNCHANGED <<net, intents, faults>>
    BY <1>2, <1>4, <1>5, <2>1, ForsakeCurrentFacts DEF Booted, PageTypes
  <2>2. CASE LoseSession(task) /\ UNCHANGED <<net, intents, faults>>
    BY <1>7, <2>2
  <2> QED
    BY <1>19, <2>1, <2>2 DEF SessionAnswered
<1>20. CASE SessionFails
  BY <1>2, <1>4, <1>6, <1>20 DEF SessionFails, PageTypes
<1>21. ASSUME NEW op \in Ops, op.id = intents + 1, RunNewMutation(op), intents < MaxIntents
       PROVE  PageTypes'
  <2>1. intents' \in 0..MaxIntents
    BY <1>2, <1>21, BoundsAssumption DEF RunNewMutation
  <2>2. task' \in Tasks /\ net' \subseteq Messages /\ mutation' \in Mutations
    BY <1>8, <1>21 DEF RunNewMutation
  <2> QED
    BY <1>2, <1>21, <2>1, <2>2 DEF RunNewMutation, PageTypes
<1>22. CASE StartAttempt
  BY <1>1, <1>21, <1>22, StartOpFacts DEF StartAttempt
<1>23. CASE SubmitCommand
  BY <1>1, <1>21, <1>23, SubmitOpFacts DEF SubmitCommand
<1>24. CASE MutationSucceeds
  <2>1. task.seen \in Seen
    BY <1>24 DEF MutationSucceeds, Replied, IInv, ReplySound
  <2>2. owned' \in [Ids -> Reads]
    BY <1>2, <1>24, <2>1, WithoutFacts, CancelledFacts DEF MutationSucceeds
  <2>3. view' \in Seen
    BY <1>2, <1>24, <2>1, CaseFacts, ViewFacts DEF MutationSucceeds
  <2> QED
    BY <1>2, <1>4, <1>5, <1>24, <2>1, <2>2, <2>3 DEF MutationSucceeds, PageTypes
<1>25. CASE MutationUnauthenticated
  BY <1>7, <1>25 DEF MutationUnauthenticated
<1>26. CASE MutationRefused
  <2>1. task' \in Tasks /\ current' \in Reads /\ owned' \in [Ids -> Reads]
    BY <1>1, <1>26, RefusedFacts DEF IInv
  <2> QED
    BY <1>2, <1>4, <1>5, <1>26, <2>1 DEF MutationRefused, PageTypes
<1>27. CASE MutationUncertain
  BY <1>2, <1>4, <1>5, <1>6, <1>27 DEF MutationUncertain, PageTypes
<1>28. CASE RefusalShown
  BY <1>2, <1>4, <1>5, <1>28 DEF RefusalShown, PageTypes
<1>29. ASSUME NEW replay \in BOOLEAN, Recover(replay)
       PROVE  PageTypes'
  <2>1. /\ task' \in Tasks /\ current' \in Reads /\ owned' \in [Ids -> Reads]
        /\ net' \subseteq Messages /\ mutation' \in Mutations
    BY <1>1, <1>2, <1>8, <1>29, RecoverFacts DEF IInv
  <2> QED
    BY <1>2, <1>29, <2>1 DEF Recover, PageTypes
<1>30. CASE StartReconciled
  <2>1. task' \in Tasks /\ net' \subseteq Messages /\ mutation' \in Mutations /\ pending' \in Ops
    BY <1>2, <1>3, <1>4, <1>5, <1>8, <1>30 DEF StartReconciled, ClearPending
  <2> QED
    BY <1>2, <1>30, <2>1 DEF StartReconciled, PageTypes
<1>31. CASE CommandReconciled
  <2>1. task' \in Tasks /\ net' = net /\ mutation' \in Mutations /\ pending' \in Ops
    BY <1>2, <1>4, <1>5, <1>31 DEF CommandReconciled, ClearPending
  <2> QED
    BY <1>2, <1>31, <2>1 DEF CommandReconciled, PageTypes
<1>32. CASE World
  <2>1. faults' \in 0..MaxFaults
    BY <1>2, <1>6, <1>32 DEF World
  <2> QED
    BY <1>2, <1>32, <2>1 DEF World, page, PageTypes
<1> QED
  BY <1>9, <1>10, <1>11, <1>12, <1>13, <1>14, <1>15, <1>16, <1>17, <1>18, <1>19, <1>20, <1>22,
     <1>23, <1>24, <1>25, <1>26, <1>27, <1>28, <1>29, <1>30, <1>31, <1>32
  DEF Next, PageEvent, Answers, ReplayPending, ReconcilePending

\* Every step keeps the types.
LEMMA TypesStep ==
  ASSUME IInv, [Next]_vars
  PROVE  Types'
<1>1. ServiceTypes'
  BY ServiceStep DEF IInv
<1>2. PageTypes'
  BY PageTypesStep
<1> QED
  BY <1>1, <1>2, TypesJoin, PTL

(***************************************************************************)
(* What every step may rely on                                             *)
(***************************************************************************)
LEMMA StepFacts ==
  ASSUME IInv, [Next]_vars
  PROVE  /\ Types /\ Types' /\ Progress /\ ServiceSound'
         /\ guest \in Nat /\ guest' \in Nat /\ slot \in Nat /\ slot' \in Nat
         /\ intents \in Nat /\ intents' \in Nat
         /\ guest <= guest' /\ slot <= slot' /\ intents <= intents'
         /\ pending \in Ops /\ pending' \in Ops /\ task \in Tasks /\ task.op \in Ops
         /\ view \in Seen /\ shown \in Seen /\ view \in Shown /\ shown \in Shown
         /\ \A op \in Ops : OpKnown(op) => OpKnown(op)'
         /\ \A op \in Ops : OpKnown(op) /\ op.kind \in Commands /\ ~Alive(op) => ~Alive(op)'
         /\ \A seen \in Shown : Honest(seen) => Honest(seen)'
         /\ guest' = guest => \A s \in Slots : Exists(s) => Exists(s)'
<1>1. Types /\ Types' /\ Progress /\ ServiceSound' /\ ServiceTypes'
  BY TypesStep, ServiceStep DEF IInv
<1>2. /\ guest \in Nat /\ guest' \in Nat /\ slot \in Nat /\ slot' \in Nat
      /\ intents \in Nat /\ intents' \in Nat
      /\ guest <= guest' /\ slot <= slot' /\ intents <= intents'
  BY <1>1, NumberFacts DEF Types, TypeOK, Progress
<1>3. /\ pending \in Ops /\ pending' \in Ops /\ task \in Tasks /\ task.op \in Ops
      /\ view \in Seen /\ shown \in Seen /\ view \in Shown /\ shown \in Shown
  BY <1>1, SeenIsShown DEF Types, TypeOK, Tasks
<1> QED
  BY <1>1, <1>2, <1>3, KnownStays, DeadStays, HonestStays, ExistsStays

\* An operation in progress has an identifier, NoOp has none.
LEMMA PendingFacts ==
  ASSUME IInv
  PROVE  /\ pending.kind = "NONE" <=> pending = NoOp
         /\ pending.id = 0 <=> pending = NoOp
         /\ task.pc # "idle" => task.op # NoOp /\ OpKnown(task.op)
BY ConstantFacts DEF IInv, TaskSound, OpKnown

\* A lost session is not alive, or has an intent that is no longer its guest's.
LEMMA LostIsDead ==
  ASSUME IInv
  PROVE  /\ current.at = "answered" /\ current.value = AuthLost => ~alive
         /\ \A i \in Ids : Quiet /\ owned[i].at = "answered" /\ owned[i].value = AuthLost =>
              /\ alive => task.on = "owned" /\ task.id = i /\ i.guest < guest
              /\ pending.kind \in Commands => ~Alive(pending)
<1>1. current.at = "answered" /\ current.value = AuthLost => ~alive
  BY DEF IInv, CurrentSound
<1>2. ASSUME NEW i \in Ids, owned[i].at = "answered", owned[i].value = AuthLost
      PROVE  alive => task.on = "owned" /\ task.id = i /\ i.guest < guest
  <2>1. AuthLost # NoView /\ ~IsAttempt(AuthLost)
    BY ConstantFacts DEF IsAttempt, Finished
  <2> QED
    BY <1>2, <2>1 DEF IInv, OwnedSound
<1>3. ASSUME NEW i \in Ids, owned[i].at = "answered", owned[i].value = AuthLost,
             pending.kind \in Commands
      PROVE  ~Alive(pending)
  <2>1. CASE ~alive
    BY <2>1 DEF Alive
  <2>2. CASE alive
    <3>1. task.on = "owned" /\ task.id = i /\ i.guest < guest
      BY <1>2, <1>3, <2>2
    <3>2. task.pc \in Waiting /\ pending # NoOp
      <4>1. task.pc \in Waiting
        BY <3>1 DEF IInv, TaskSound
      <4> QED
        BY <1>3, <4>1, ConstantFacts DEF Commands
    <3>3. pending = task.op /\ task.pc \notin {"stale", "noted"}
      BY <3>2 DEF IInv, TaskSound, Waiting
    <3>4. task.pc = "commandRecovery"
      BY <1>3, <3>2, <3>3 DEF IInv, TaskSound, Waiting, Commands
    <3>5. IdOf(pending) = i
      BY <3>1, <3>3, <3>4 DEF IInv, TaskSound
    <3>6. pending.guest < guest
      BY <3>1, <3>5 DEF IdOf
    <3>7. pending.guest \in Nat /\ guest \in Nat
      BY OpFacts, NumberFacts DEF IInv, Types, TypeOK
    <3> QED
      BY <3>6, <3>7 DEF Alive
  <2> QED
    BY <2>1, <2>2
<1> QED
  BY <1>1, <1>2, <1>3

(***************************************************************************)
(* The stored intent and the wire                                          *)
(***************************************************************************)
\* The intent is kept, or a new one is stored while there was none, or one that
\* can no longer take effect is forgotten.
StoredAnew ==
  /\ pending = NoOp /\ task.pc = "idle" /\ Quiet
  /\ pending'.id = intents + 1 /\ intents' = intents + 1
  /\ OpKnown(pending)' /\ Transmit(pending') /\ status = "READY"
  /\ \/ /\ pending'.kind = "START" /\ view.state = "NOT_STARTED"
        /\ pending'.guest = view.guest /\ pending'.slot = view.slot
     \/ pending'.kind \in Commands
  /\ UNCHANGED <<service, status, ready, view, shown, boot, current, owned, faults>>

ForgottenDead ==
  pending' = NoOp /\ (pending.kind \in Commands => ~Alive(pending))

\* A new mutation stores an operation that the server could know.
LEMMA NewOperation ==
  ASSUME IInv, [Next]_vars, StartAttempt \/ SubmitCommand
  PROVE  StoredAnew
<1>1. PICK op \in Ops :
        /\ RunNewMutation(op) /\ op.id = intents + 1
        /\ \/ /\ op.kind = "START" /\ view.state = "NOT_STARTED"
              /\ op.guest = view.guest /\ op.slot = view.slot
           \/ /\ op.kind \in Commands /\ shown.state = "ACTIVE"
              /\ op.guest = shown.guest /\ op.slot = shown.slot /\ op.version = shown.version
  <2>1. CASE StartAttempt
    BY <2>1, StartOpFacts, StepFacts DEF StartAttempt
  <2>2. CASE SubmitCommand
    BY <2>2, SubmitOpFacts, StepFacts DEF SubmitCommand
  <2> QED
    BY <2>1, <2>2
<1>2. /\ pending' = op /\ intents' = op.id /\ Transmit(op)
      /\ UNCHANGED <<service, status, ready, view, shown, boot, current, owned, faults>>
      /\ Quiet /\ task.pc = "idle" /\ pending = NoOp
  BY <1>1 DEF RunNewMutation
<1>3. status = "READY"
  BY DEF StartAttempt, SubmitCommand, Playable
<1>4. /\ op.guest <= guest /\ op.slot <= slot
      /\ op.kind \in Commands /\ op.guest = guest =>
           Exists(op.slot) /\ op.version <= attempts[op.slot].version
  <2>1. CASE op.kind = "START"
    BY <1>1, <2>1 DEF IInv, ScreenSound, Commands
  <2>2. CASE op.kind \in Commands
    <3>1. Honest(shown)
      BY <1>1, <2>2 DEF IInv, ScreenSound, IsAttempt, Commands
    <3>2. op.guest = shown.guest /\ op.slot = shown.slot /\ op.version = shown.version
      BY <1>1, <2>2 DEF Commands
    <3> QED
      BY <3>1, <3>2 DEF Honest, Exists
  <2> QED
    BY <1>1, <2>1, <2>2
<1>5. op.id \in 1..intents' /\ op.kind # "NONE" /\ intents' = intents + 1
  BY <1>1, <1>2, StepFacts DEF Commands
<1>6. OpKnown(pending)'
  BY <1>2, <1>4, <1>5 DEF OpKnown, Exists, service
<1> QED
  BY <1>1, <1>2, <1>3, <1>5, <1>6 DEF StoredAnew

\* The stored intent changes in one of three ways.
LEMMA PendingStep ==
  ASSUME IInv, [Next]_vars
  PROVE  UNCHANGED pending \/ StoredAnew \/ ForgottenDead
<1>1. NoOp.kind \notin Commands /\ "START" \notin Commands
  BY ConstantFacts DEF Commands
<1>2. CASE UNCHANGED vars \/ Refresh \/ AnswerCurrent \/ (\E i \in Ids : AnswerOwned(i)) \/ Deliver
           \/ ReadFails \/ Reload \/ SessionFails \/ MutationUncertain \/ RefusalShown
           \/ ReplayPending \/ ReconcilePending \/ World
  BY <1>2 DEF vars, Refresh, AnswerCurrent, AnswerOwned, Deliver, ReadFails, Reload, SessionFails,
    MutationUncertain, RefusalShown, ReplayPending, ReconcilePending, Recover, World
<1>3. CASE StartAttempt \/ SubmitCommand
  BY <1>3, NewOperation
<1>4. CASE HandleCurrent
  <2>1. CASE current.value = AuthLost
    <3>1. ~alive /\ pending' = NoOp
      BY <1>4, <2>1, LostIsDead DEF HandleCurrent, LoseSession
    <3> QED
      BY <3>1 DEF ForgottenDead, Alive
  <2>2. CASE current.value # AuthLost
    BY <1>4, <2>2 DEF HandleCurrent
  <2> QED
    BY <2>1, <2>2
<1>5. ASSUME NEW i \in Ids, HandleOwned(i)
      PROVE  UNCHANGED pending \/ ForgottenDead
  <2>1. CASE owned[i].value = AuthLost /\ LoseSession(task)
    <3>1. pending.kind \in Commands => ~Alive(pending)
      BY <1>5, <2>1, LostIsDead DEF HandleOwned
    <3> QED
      BY <2>1, <3>1 DEF ForgottenDead, LoseSession
  <2>2. CASE UNCHANGED pending
    BY <2>2
  <2> QED
    BY <1>5, <2>1, <2>2 DEF HandleOwned
<1>6. CASE NewSession
  BY <1>6 DEF NewSession, IInv, SessionSound
<1>7. CASE SessionAnswered
  BY <1>7 DEF SessionAnswered, Booted, LoseSession, ForgottenDead, Alive
<1>8. CASE MutationSucceeds \/ MutationUnauthenticated \/ MutationRefused
  <2>1. task.pc = "sent" /\ task.reply # "none" /\ pending' = NoOp
    BY <1>8 DEF MutationSucceeds, MutationUnauthenticated, MutationRefused, Replied, LoseSession
  <2>2. pending \in {NoOp, task.op}
    BY <2>1 DEF IInv, TaskSound
  <2>3. task.op.kind \in Commands => ~Alive(task.op)
    BY <2>1 DEF IInv, ReplySound
  <2> QED
    BY <1>1, <2>1, <2>2, <2>3 DEF ForgottenDead
<1>9. CASE StartReconciled
  <2>1. task.op.kind = "START" /\ pending \in {NoOp, task.op}
    BY <1>9 DEF StartReconciled, IInv, TaskSound
  <2> QED
    BY <1>1, <1>9, <2>1 DEF StartReconciled, ClearPending, ForgottenDead
<1>10. CASE CommandReconciled
  <2>1. CASE UNCHANGED pending
    BY <2>1
  <2>2. CASE task.on = "seen" /\ commandOutcomeIsProven(task.op, shown) /\ pending' = NoOp
    <3>1. pending \in {NoOp, task.op}
      BY <1>10 DEF CommandReconciled, IInv, TaskSound
    <3>2. task.id = IdOf(task.op) /\ IsAttempt(shown) /\ IdOf(shown) = task.id
      BY <1>10, <2>2 DEF CommandReconciled, IInv, TaskSound
    <3>3. shown.guest = task.op.guest /\ shown.slot = task.op.slot
      BY <3>2 DEF IdOf
    <3>4. shown.state \in Finished
      BY <2>2 DEF commandOutcomeIsProven, Finished
    <3>5. Honest(shown)
      BY <3>2 DEF IInv, ScreenSound
    <3>6. task.op.guest = guest => attempts[task.op.slot].state \in Finished
      BY <3>3, <3>4, <3>5 DEF Honest
    <3>7. ~Alive(task.op)
      BY <3>6 DEF Alive, Finished
    <3> QED
      BY <1>1, <2>2, <3>1, <3>7 DEF ForgottenDead
  <2> QED
    BY <1>10, <2>1, <2>2 DEF CommandReconciled, ClearPending
<1> QED
  BY <1>2, <1>3, <1>4, <1>5, <1>6, <1>7, <1>8, <1>9, <1>10 DEF Next, PageEvent, Answers

\* What is put on the wire is the stored intent.
LEMMA NetStep ==
  ASSUME IInv, [Next]_vars
  PROVE  \/ net' \subseteq net
         \/ /\ net' = net \cup {Message(pending')} /\ OpKnown(pending)' /\ guest' = guest
            /\ pending' = pending \/ StoredAnew
<1>1. CASE UNCHANGED vars \/ Refresh \/ AnswerCurrent \/ (\E i \in Ids : AnswerOwned(i)) \/ Deliver
           \/ HandleCurrent \/ (\E i \in Ids : HandleOwned(i))
           \/ ReadFails \/ Reload \/ NewSession \/ SessionAnswered \/ SessionFails
  BY <1>1 DEF vars, Refresh, AnswerCurrent, AnswerOwned, Deliver, HandleCurrent, HandleOwned,
    ReadFails, Reload, NewSession, SessionAnswered, SessionFails
<1>2. CASE MutationSucceeds \/ MutationUnauthenticated \/ MutationRefused \/ MutationUncertain
           \/ RefusalShown \/ CommandReconciled \/ World
  BY <1>2 DEF MutationSucceeds, MutationUnauthenticated, MutationRefused, MutationUncertain,
    RefusalShown, CommandReconciled, ClearPending, World
<1>3. CASE StartAttempt \/ SubmitCommand
  <2>1. StoredAnew
    BY <1>3, NewOperation
  <2>2. Transmit(pending') /\ guest' = guest /\ OpKnown(pending)'
    BY <2>1 DEF StoredAnew, service
  <2>3. net' = net \cup {Message(pending')}
    BY <2>2 DEF Transmit
  <2> QED
    BY <2>1, <2>2, <2>3
<1>4. CASE net' = net
  BY <1>4
<1>5. ASSUME Transmit(pending), UNCHANGED <<pending, guest>>, pending # NoOp
      PROVE  net' = net \cup {Message(pending')} /\ OpKnown(pending)'
  <2>1. net' = net \cup {Message(pending)}
    BY <1>5 DEF Transmit
  <2>2. OpKnown(pending)
    BY <1>5 DEF IInv, TaskSound
  <2>3. OpKnown(pending)'
    <3> DEFINE op == pending
    <3>1. /\ op.kind # "NONE" /\ op.id \in 1..intents' /\ op.guest <= guest' /\ op.slot <= slot'
          /\ op.kind \in Commands /\ op.guest = guest' =>
               attempts'[op.slot].state # "NONE" /\ op.version <= attempts'[op.slot].version
      BY <2>2, StepFacts DEF OpKnown, Exists
    <3> QED
      BY <1>5, <3>1 DEF OpKnown, Exists
  <2> QED
    BY <1>5, <2>1, <2>3
<1>6. CASE ReplayPending \/ ReconcilePending
  <2>1. PICK replay \in BOOLEAN : Recover(replay)
    BY <1>6 DEF ReplayPending, ReconcilePending
  <2>2. net' = net \/ Transmit(pending)
    BY <2>1 DEF Recover
  <2>3. UNCHANGED <<pending, guest>> /\ pending # NoOp
    BY <2>1 DEF Recover, service
  <2> QED
    BY <1>4, <1>5, <2>2, <2>3
<1>7. CASE StartReconciled
  <2>1. CASE net' # net
    <3>1. Transmit(task.op) /\ status # "SESSION_LOST" /\ UNCHANGED <<pending, guest>>
      BY <1>7, <2>1 DEF StartReconciled, ClearPending, service
    <3>2. pending = task.op /\ pending # NoOp
      BY <1>7, <3>1, PendingFacts DEF StartReconciled, IInv, TaskSound, Recoveries
    <3>3. Transmit(pending)
      BY <3>1, <3>2
    <3> QED
      BY <1>5, <3>1, <3>2, <3>3
  <2> QED
    BY <1>4, <2>1
<1> QED
  BY <1>1, <1>2, <1>3, <1>6, <1>7 DEF Next, PageEvent, Answers

\* Copies under way stay copies of one known operation each.
LEMMA WireStep ==
  ASSUME IInv, [Next]_vars
  PROVE  WireSound'
<1>1. UNCHANGED pending \/ StoredAnew \/ ForgottenDead
  BY PendingStep
<1>2. NoOp.id = 0
  BY ConstantFacts
<1>3. ASSUME NEW m \in net
      PROVE  /\ OpKnown(m.op)' /\ m.key = <<m.op.id, 0>>
             /\ m.op.guest <= m.guest /\ m.guest <= guest'
             /\ m.op.id = pending'.id => m.op = pending'
             /\ m.op.kind \in Commands /\ m.op.id # pending'.id => ~Alive(m.op)'
  <2>1. /\ m.op \in Ops /\ m.guest \in Nat /\ OpKnown(m.op) /\ m.key = <<m.op.id, 0>>
        /\ m.op.guest <= m.guest /\ m.guest <= guest /\ m.op.id \in 1..intents
        /\ m.op.id = pending.id => m.op = pending
        /\ m.op.kind \in Commands /\ m.op.id # pending.id => ~Alive(m.op)
    <3>1. m \in Messages
      BY DEF IInv, Types
    <3>2. m.guest \in Nat /\ m.op \in Ops
      BY <3>1, NumberFacts DEF Messages
    <3> QED
      BY <3>2 DEF IInv, WireSound, OpKnown
  <2>2. OpKnown(m.op)'
    BY <2>1, StepFacts
  <2>3. m.guest <= guest'
    BY <2>1, StepFacts
  <2>4. CASE UNCHANGED pending
    BY <2>1, <2>2, <2>3, <2>4, StepFacts
  <2>5. CASE StoredAnew
    <3>1. pending = NoOp /\ pending'.id = intents + 1
      BY <2>5 DEF StoredAnew
    <3>2. m.op.id # pending'.id /\ m.op.id # pending.id
      BY <1>2, <2>1, <3>1, StepFacts
    <3> QED
      BY <2>1, <2>2, <2>3, <3>2, StepFacts
  <2>6. CASE ForgottenDead
    <3>1. m.op.id # pending'.id
      BY <1>2, <2>1, <2>6, StepFacts DEF ForgottenDead
    <3>2. m.op.kind \in Commands => ~Alive(m.op)
      BY <2>1, <2>6 DEF ForgottenDead
    <3> QED
      BY <2>1, <2>2, <2>3, <3>1, <3>2, StepFacts
  <2> QED
    BY <1>1, <2>4, <2>5, <2>6
<1>4. ASSUME NEW m, m = Message(pending'), OpKnown(pending)', guest' = guest
      PROVE  /\ OpKnown(m.op)' /\ m.key = <<m.op.id, 0>>
             /\ m.op.guest <= m.guest /\ m.guest <= guest'
             /\ m.op = pending'
  <2>1. m.op = pending' /\ m.guest = guest /\ m.key = <<pending'.id, 0>>
    BY <1>4 DEF Message, IdempotencyKey
  <2> QED
    BY <1>4, <2>1, StepFacts DEF OpKnown
<1>5. \/ net' \subseteq net
      \/ /\ net' = net \cup {Message(pending')} /\ OpKnown(pending)' /\ guest' = guest
         /\ pending' = pending \/ StoredAnew
  BY NetStep
<1>6. CASE net' \subseteq net
  BY <1>3, <1>6 DEF WireSound
<1>7. CASE net' = net \cup {Message(pending')} /\ OpKnown(pending)' /\ guest' = guest
  <2> SUFFICES ASSUME NEW m \in net'
               PROVE  /\ OpKnown(m.op)' /\ m.key = <<m.op.id, 0>>
                      /\ m.op.guest <= m.guest /\ m.guest <= guest'
                      /\ m.op.id = pending'.id => m.op = pending'
                      /\ m.op.kind \in Commands /\ m.op.id # pending'.id => ~Alive(m.op)'
    BY DEF WireSound
  <2>1. CASE m \in net
    BY <1>3, <2>1
  <2>2. CASE m = Message(pending')
    BY <1>4, <1>7, <2>2
  <2> QED
    BY <1>7, <2>1, <2>2
<1> QED
  BY <1>5, <1>6, <1>7

(***************************************************************************)
(* The task                                                                *)
(***************************************************************************)
LEMMA QuietFacts ==
  ASSUME IInv, Quiet
  PROVE  task.on # "seen" /\ (task.pc \in Waiting => task.on \in {"current", "owned"})
BY DEF IInv, Types, Tasks, Awaited, TaskSound, Quiet

\* The stored intent is known to the server.
LEMMA PendingKnown ==
  ASSUME IInv, [Next]_vars
  PROVE  pending' # NoOp => OpKnown(pending)'
<1>1. CASE UNCHANGED pending
  <2> SUFFICES ASSUME pending # NoOp PROVE OpKnown(pending)'
    BY <1>1
  <2>1. OpKnown(pending)
    BY DEF IInv, TaskSound
  <2>2. /\ pending.kind # "NONE" /\ pending.id \in 1..intents'
        /\ pending.guest <= guest' /\ pending.slot <= slot'
        /\ pending.kind \in Commands /\ pending.guest = guest' =>
             attempts'[pending.slot].state # "NONE" /\ pending.version <= attempts'[pending.slot].version
    BY <2>1, StepFacts DEF OpKnown, Exists
  <2> QED
    BY <1>1, <2>2 DEF OpKnown, Exists
<1>2. CASE StoredAnew
  BY <1>2 DEF StoredAnew
<1>3. CASE ForgottenDead
  BY <1>3 DEF ForgottenDead
<1> QED
  BY <1>1, <1>2, <1>3, PendingStep

\* The operation of the task stays known.
LEMMA TaskOpKnown ==
  ASSUME IInv, [Next]_vars, task.pc # "idle", task'.op = task.op
  PROVE  OpKnown(task.op)'
<1>1. OpKnown(task.op) /\ task.op \in Ops
  BY StepFacts DEF IInv, TaskSound
<1>2. /\ task.op.kind # "NONE" /\ task.op.id \in 1..intents'
      /\ task.op.guest <= guest' /\ task.op.slot <= slot'
      /\ task.op.kind \in Commands /\ task.op.guest = guest' =>
           attempts'[task.op.slot].state # "NONE" /\ task.op.version <= attempts'[task.op.slot].version
  BY <1>1, StepFacts DEF OpKnown, Exists
<1> QED
  BY <1>2 DEF OpKnown, Exists

\* A task that ends,
LEMMA TaskIdle ==
  ASSUME IInv, [Next]_vars, task' = Idle
  PROVE  TaskSound'
<1>1. task'.pc = "idle" /\ task'.on = "nothing"
  BY ConstantFacts
<1> QED
  BY <1>1, PendingKnown DEF TaskSound, Waiting, Recoveries

\* one that sends the stored intent,
LEMMA TaskSent ==
  ASSUME IInv, [Next]_vars, task'.pc = "sent", task'.on = "nothing", task'.op = pending',
         pending' # NoOp
  PROVE  TaskSound'
BY PendingKnown DEF TaskSound, Waiting, Recoveries

\* The task goes on with its work, at most forsaken by its read.
LEMMA TaskKept ==
  ASSUME IInv, [Next]_vars, UNCHANGED pending,
         task'.pc = task.pc, task'.op = task.op, task'.id = task.id,
         task'.on = task.on \/ task'.on = "nothing",
         task'.on = "seen" => UNCHANGED <<shown, guest>>,
         task.on = "nothing" /\ task.pc \in Waiting => UNCHANGED status
  PROVE  TaskSound'
<1>1. task.pc # "idle" => OpKnown(task.op)'
  BY TaskOpKnown
<1>2. task.pc \notin Waiting => task.on = "nothing"
  BY DEF IInv, TaskSound
<1>3. task.pc \in Recoveries => pending = task.op \/ (status = "SESSION_LOST" /\ task.on = "nothing")
  BY DEF IInv, TaskSound
<1>4. task'.pc \in Recoveries => pending' = task'.op \/ (status' = "SESSION_LOST" /\ task'.on = "nothing")
  BY <1>3 DEF Recoveries, Waiting
<1>5. task'.pc # "idle" => OpKnown(task.op)'
  BY <1>1
<1>6. task'.on = "seen" => IsAttempt(shown') /\ IdOf(shown') = task'.id /\ shown'.guest = guest'
  BY DEF IInv, TaskSound, IsAttempt, IdOf
<1> QED
  BY <1>2, <1>4, <1>5, <1>6, PendingKnown DEF IInv, TaskSound, IsAttempt, IdOf

\* and one whose session is lost.
LEMMA TaskLost ==
  ASSUME IInv, [Next]_vars, Quiet, LoseSession(task)
  PROVE  TaskSound'
<1>1. /\ pending' = NoOp /\ status' = "SESSION_LOST"
      /\ task'.pc = task.pc /\ task'.op = task.op /\ task'.id = task.id
      /\ task'.on = IF task.on \in {"current", "owned"} THEN "nothing" ELSE task.on
  BY LoseFacts, StepFacts DEF SameWork
<1>2. task'.on = "nothing"
  BY <1>1, QuietFacts, StepFacts DEF Tasks, Awaited
<1>3. task.pc # "idle" => OpKnown(task.op)'
  BY <1>1, TaskOpKnown
<1> QED
  BY <1>1, <1>2, <1>3 DEF IInv, TaskSound

\* Forsaking one attempt's read keeps the work.
LEMMA OneForsaken ==
  \A t \in Tasks, i \in Ids :
    LET u == ForsakeOwned(t, {i})
    IN /\ u \in Tasks /\ u.pc = t.pc /\ u.op = t.op /\ u.id = t.id /\ u.reply = t.reply
       /\ u.seen = t.seen /\ u.on = IF t.on = "owned" /\ t.id = i THEN "nothing" ELSE t.on
<1> TAKE t \in Tasks, i \in Ids
<1>1. {i} \in SUBSET Ids
  OBVIOUS
<1> QED
  BY <1>1, ForsakeOwnedFacts DEF SameWork

\* Types of the reads of attempts.
LEMMA OwnedFacts ==
  ASSUME IInv
  PROVE  \A i \in Ids : owned[i] \in Reads /\ owned[i].value \in Seen
<1> TAKE i \in Ids
<1>1. owned[i] \in Reads
  BY DEF IInv, Types, TypeOK
<1> QED
  BY <1>1 DEF Reads

\* The task stays in step with the stored intent and with what is shown.
LEMMA TaskStep ==
  ASSUME IInv, [Next]_vars
  PROVE  TaskSound'
<1>1. task \in Tasks /\ task.op \in Ops /\ task.id \in Ids
  BY StepFacts DEF Tasks
<1>2. CASE UNCHANGED vars
  BY <1>2, TaskKept DEF vars, page, service
<1>3. CASE AnswerCurrent \/ (\E i \in Ids : AnswerOwned(i)) \/ SessionFails \/ World
  <2>1. UNCHANGED <<pending, task, shown, guest>>
    BY <1>3 DEF AnswerCurrent, AnswerOwned, SessionFails, World, Rollover, SessionEnds, OtherTabPlays,
      page, service
  <2>2. task.on = "nothing" /\ task.pc \in Waiting => UNCHANGED status
    BY <1>3, QuietFacts DEF AnswerCurrent, AnswerOwned, SessionFails, World, page
  <2> QED
    BY <2>1, <2>2, TaskKept
<1>4. CASE Deliver
  <2>1. /\ task'.pc = task.pc /\ task'.op = task.op /\ task'.id = task.id /\ task'.on = task.on
        /\ UNCHANGED <<pending, status, shown, guest>>
    BY <1>1, <1>4 DEF Deliver, Tasks
  <2> QED
    BY <2>1, TaskKept
<1>5. CASE Refresh
  <2>1. /\ task'.pc = task.pc /\ task'.op = task.op /\ task'.id = task.id
        /\ task'.on = task.on \/ task'.on = "nothing"
        /\ UNCHANGED <<pending, status, shown, guest>>
    BY <1>1, <1>5, ForsakeCurrentFacts DEF Refresh, SameWork, service
  <2> QED
    BY <2>1, TaskKept
<1>6. CASE ReadFails
  <2>1. /\ task'.pc = task.pc /\ task'.op = task.op /\ task'.id = task.id
        /\ task'.on = task.on \/ task'.on = "nothing"
    <3>1. \A i \in Ids : LET u == ForsakeOwned(task, {i})
                         IN u.pc = task.pc /\ u.op = task.op /\ u.id = task.id
                            /\ (u.on = task.on \/ u.on = "nothing")
      BY <1>1, OneForsaken
    <3>2. LET u == ForsakeCurrent(task)
          IN u.pc = task.pc /\ u.op = task.op /\ u.id = task.id
             /\ (u.on = task.on \/ u.on = "nothing")
      BY <1>1, ForsakeCurrentFacts DEF SameWork
    <3> QED
      BY <1>6, <3>1, <3>2 DEF ReadFails
  <2>2. UNCHANGED <<pending, shown, guest>> /\ Quiet
    BY <1>6 DEF ReadFails, service
  <2> QED
    BY <2>1, <2>2, QuietFacts, TaskKept
<1>7. CASE HandleCurrent
  <2> DEFINE seen == current.value
             i == IdOf(seen)
  <2>1. Quiet
    BY <1>7 DEF HandleCurrent
  <2>2. CASE LoseSession(task)
    BY <2>1, <2>2, TaskLost
  <2>3. CASE ~LoseSession(task)
    <3>1. UNCHANGED <<pending, shown, guest>>
      BY <1>7, <2>3 DEF HandleCurrent, service
    <3>2. i \in Ids
      BY IdFacts, SeenIsShown, StepFacts DEF Types, TypeOK, Reads
    <3>3. \/ task.on = "current" /\ task' = Await(task, "owned", i)
          \/ task' = ForsakeOwned(task, {i}) \/ task' = ForsakeAll(task) \/ task' = ForsakeCurrent(task)
      BY <1>7, <2>3 DEF HandleCurrent
    <3>4. CASE task.on = "current" /\ task' = Await(task, "owned", i)
      <4>1. task'.pc = task.pc /\ task'.op = task.op /\ task'.on = "owned"
        <5> HIDE DEF i
        <5>1. SameWork(task, Await(task, "owned", i)) /\ Await(task, "owned", i).on = "owned"
          BY <1>1, <3>2, AwaitFacts
        <5> QED  BY <3>4, <5>1 DEF SameWork
      <4>2. task.pc # "idle" => OpKnown(task.op)'
        BY <4>1, TaskOpKnown
      <4>3. task.pc \in Waiting \ {"commandRecovery"}
        BY <3>4 DEF IInv, TaskSound
      <4> QED
        BY <3>1, <3>4, <4>1, <4>2, <4>3, PendingKnown DEF IInv, TaskSound, Recoveries
    <3>5. CASE task' = ForsakeOwned(task, {i}) \/ task' = ForsakeAll(task) \/ task' = ForsakeCurrent(task)
      <4>1. /\ task'.pc = task.pc /\ task'.op = task.op /\ task'.id = task.id
            /\ task'.on = task.on \/ task'.on = "nothing"
        BY <1>1, <3>2, <3>5, OneForsaken, ForsakeAllFacts, ForsakeCurrentFacts DEF SameWork
      <4> QED
        BY <2>1, <3>1, <4>1, QuietFacts, TaskKept
    <3> QED
      BY <3>3, <3>4, <3>5
  <2> QED
    BY <2>2, <2>3
<1>8. ASSUME NEW i \in Ids, HandleOwned(i)
      PROVE  TaskSound'
  <2> DEFINE seen == owned[i].value
  <2>1. Quiet
    BY <1>8 DEF HandleOwned
  <2>2. CASE LoseSession(task)
    BY <2>1, <2>2, TaskLost
  <2>3. CASE task' = ForsakeOwned(task, {i}) /\ UNCHANGED pending
    BY <1>1, <2>1, <2>3, OneForsaken, QuietFacts, TaskKept
  <2>4. CASE task' = ForsakeOwned(task, Cancelled(seen)) /\ UNCHANGED pending
    <3>1. Cancelled(seen) \in SUBSET Ids
      BY CancelledFacts, OwnedFacts
    <3>2. /\ task'.pc = task.pc /\ task'.op = task.op /\ task'.id = task.id
          /\ task'.on = task.on \/ task'.on = "nothing"
      BY <1>1, <2>4, <3>1, ForsakeOwnedFacts DEF SameWork
    <3> QED
      BY <2>1, <2>4, <3>2, QuietFacts, TaskKept
  <2>5. CASE /\ task.on = "owned" /\ task.id = i /\ task' = [task EXCEPT !.on = "seen"]
             /\ UNCHANGED <<pending, guest>> /\ IsAttempt(seen) /\ shown' = seen
    <3>1. task'.pc = task.pc /\ task'.op = task.op /\ task'.id = task.id /\ task'.on = "seen"
      BY <1>1, <2>5 DEF Tasks
    <3>2. IsAttempt(shown') /\ IdOf(shown') = task'.id /\ shown'.guest = guest'
      <4>1. seen # NoView /\ seen # AuthLost
        BY <2>5, ConstantFacts DEF IsAttempt, Finished
      <4>2. IdOf(seen) = i /\ i.guest = guest
        BY <1>8, <4>1 DEF HandleOwned, IInv, OwnedSound
      <4> QED
        BY <2>5, <3>1, <4>2 DEF IdOf
    <3>3. task.pc # "idle" => OpKnown(task.op)'
      BY <3>1, TaskOpKnown
    <3>4. task.pc \in Waiting
      BY <2>5 DEF IInv, TaskSound
    <3> QED
      BY <2>5, <3>1, <3>2, <3>3, <3>4, PendingKnown DEF IInv, TaskSound, Recoveries, IsAttempt, IdOf
  <2> QED
    BY <1>8, <2>2, <2>3, <2>4, <2>5 DEF HandleOwned, service
<1>9. CASE NewSession
  <2>1. task.pc \notin Recoveries /\ pending = NoOp /\ pending' = NoOp
    <3>1. status = "SESSION_LOST" /\ Quiet /\ pending = NoOp /\ pending' = NoOp
      BY <1>9 DEF NewSession, IInv, SessionSound
    <3>2. ASSUME task.pc \in Recoveries PROVE FALSE
      <4>1. task.on # "nothing" /\ task.op # NoOp
        BY <3>1, <3>2, QuietFacts, PendingFacts DEF Recoveries, Waiting
      <4> QED
        BY <3>1, <3>2, <4>1 DEF IInv, TaskSound
    <3> QED
      BY <3>1, <3>2
  <2>2. /\ task'.pc = task.pc /\ task'.op = task.op /\ task'.id = task.id /\ task'.on # "seen"
        /\ task'.on = task.on \/ task'.on = "nothing"
    BY <1>1, <1>9, QuietFacts, ForsakeAllFacts DEF NewSession, SameWork
  <2>3. task.pc # "idle" => OpKnown(task.op)'
    BY <2>2, TaskOpKnown
  <2> QED
    BY <2>1, <2>2, <2>3, PendingKnown DEF IInv, TaskSound, Recoveries
<1>10. CASE SessionAnswered
  <2>1. Quiet
    BY <1>10 DEF SessionAnswered
  <2>2. CASE LoseSession(task)
    BY <2>1, <2>2, TaskLost
  <2>3. CASE Booted
    <3>1. /\ task'.pc = task.pc /\ task'.op = task.op /\ task'.id = task.id /\ UNCHANGED pending
          /\ task'.on = task.on \/ task'.on = "nothing"
      BY <1>1, <2>3, ForsakeCurrentFacts DEF Booted, SameWork
    <3> QED
      BY <2>1, <3>1, QuietFacts, TaskKept
  <2> QED
    BY <1>10, <2>2, <2>3 DEF SessionAnswered
<1>11. CASE Reload \/ MutationSucceeds \/ MutationUncertain \/ RefusalShown \/ CommandReconciled
  BY <1>11, TaskIdle DEF Reload, MutationSucceeds, MutationUncertain, RefusalShown,
    CommandReconciled, ClearPending
<1>12. CASE MutationUnauthenticated
  <2>1. task'.pc = "idle" /\ task'.on = "nothing" /\ pending' = NoOp
    BY <1>12, LoseFacts, ConstantFacts DEF MutationUnauthenticated, SameWork
  <2> QED
    BY <2>1 DEF TaskSound, Waiting, Recoveries
<1>13. CASE StartAttempt \/ SubmitCommand
  <2>1. StoredAnew
    BY <1>13, NewOperation
  <2>2. Transmit(pending') /\ pending'.id = intents + 1
    BY <2>1 DEF StoredAnew
  <2>3. task'.pc = "sent" /\ task'.op = pending' /\ task'.on = "nothing"
    BY <2>2, TransmitFacts, StepFacts
  <2> QED
    BY <2>2, <2>3, TaskSent, StepFacts, ConstantFacts
<1>14. CASE MutationRefused
  <2>1. task.pc = "sent" /\ pending' = NoOp
    BY <1>14 DEF MutationRefused, Replied
  <2>2. CASE task' = Idle
    BY <2>2, TaskIdle
  <2>3. CASE task'.op = task.op /\ task'.pc \in {"stale", "noted"} /\ task'.on \in {"current", "owned"}
    <3>1. OpKnown(task.op)'
      BY <2>1, <2>3, TaskOpKnown
    <3> QED
      BY <2>1, <2>3, <3>1 DEF TaskSound, Waiting, Recoveries
  <2> QED
    BY <1>14, <2>2, <2>3, RefusedFacts, StepFacts
<1>15. CASE ReplayPending \/ ReconcilePending
  <2>1. PICK replay \in BOOLEAN : Recover(replay)
    BY <1>15 DEF ReplayPending, ReconcilePending
  <2>2. UNCHANGED <<pending, guest>> /\ pending # NoOp
    BY <2>1 DEF Recover, service
  <2>3. CASE Transmit(pending)
    BY <2>2, <2>3, TransmitFacts, TaskSent, StepFacts
  <2>4. CASE /\ task'.op = pending
             /\ \/ pending.kind = "START" /\ task'.pc = "startRecovery" /\ task'.on \in {"current", "nothing"}
                \/ /\ pending.kind # "START" /\ task'.pc = "commandRecovery"
                   /\ task'.on = "owned" /\ task'.id = IdOf(pending)
    <3>1. pending.kind # "START" => pending.kind \in Commands
      BY <2>2, PendingFacts, StepFacts DEF Ops, Commands
    <3> QED
      BY <2>2, <2>4, <3>1, PendingKnown DEF TaskSound, Waiting, Recoveries, IdOf
  <2> QED
    BY <2>1, <2>3, <2>4, RecoverFacts, StepFacts
<1>16. CASE StartReconciled
  <2>1. CASE task' = Idle
    BY <2>1, TaskIdle
  <2>2. CASE task' # Idle
    <3>1. Transmit(task.op) /\ status # "SESSION_LOST" /\ UNCHANGED pending
      BY <1>16, <2>2 DEF StartReconciled, ClearPending
    <3>2. pending = task.op /\ pending # NoOp
      BY <1>16, <3>1, PendingFacts DEF StartReconciled, IInv, TaskSound, Recoveries
    <3>3. task'.pc = "sent" /\ task'.op = pending' /\ task'.on = "nothing"
      BY <3>1, <3>2, TransmitFacts, StepFacts
    <3> QED
      BY <3>1, <3>2, <3>3, TaskSent
  <2> QED
    BY <2>1, <2>2
<1> QED
  BY <1>2, <1>3, <1>4, <1>5, <1>6, <1>7, <1>8, <1>9, <1>10, <1>11, <1>12, <1>13, <1>14, <1>15, <1>16
  DEF Next, PageEvent, Answers

(***************************************************************************)
(* The request under way and its answer                                    *)
(***************************************************************************)
\* The same request, whose intent only the end of its session forgets.
SentKept ==
  /\ task.pc = "sent" /\ task'.op = task.op /\ task'.reply = task.reply
  /\ task'.seen = task.seen /\ (UNCHANGED pending \/ ~alive)

\* A request under way was so before, or has been answered now, or is new.
LEMMA SentStep ==
  ASSUME IInv, [Next]_vars, task'.pc = "sent"
  PROVE  SentKept \/ Deliver \/ (task'.reply = "none" /\ task'.op = pending')
<1>1. task \in Tasks /\ task.op \in Ops /\ task.id \in Ids
  BY StepFacts DEF Tasks
<1>2. task.pc = "sent" => task.on = "nothing"
  BY DEF IInv, TaskSound, Waiting
<1>3. Idle.pc = "idle"
  BY ConstantFacts
<1>4. CASE UNCHANGED vars \/ AnswerCurrent \/ (\E i \in Ids : AnswerOwned(i)) \/ SessionFails \/ World
  BY <1>4 DEF vars, AnswerCurrent, AnswerOwned, SessionFails, World, page, SentKept
<1>5. CASE Refresh
  BY <1>1, <1>5, ForsakeCurrentFacts DEF Refresh, SameWork, SentKept
<1>6. CASE ReadFails
  <2>1. /\ task'.pc = task.pc /\ task'.op = task.op /\ task'.reply = task.reply
        /\ task'.seen = task.seen
    <3>1. \A i \in Ids : LET u == ForsakeOwned(task, {i})
                         IN u.pc = task.pc /\ u.op = task.op /\ u.reply = task.reply /\ u.seen = task.seen
      BY <1>1, OneForsaken
    <3>2. LET u == ForsakeCurrent(task)
          IN u.pc = task.pc /\ u.op = task.op /\ u.reply = task.reply /\ u.seen = task.seen
      BY <1>1, ForsakeCurrentFacts DEF SameWork
    <3> QED
      BY <1>6, <3>1, <3>2 DEF ReadFails
  <2> QED
    BY <1>6, <2>1 DEF ReadFails, SentKept
<1>7. ASSUME LoseSession(task), ~alive
      PROVE  SentKept
  BY <1>1, <1>7, LoseFacts DEF SameWork, SentKept
<1>8. CASE HandleCurrent
  <2> DEFINE i == IdOf(current.value)
  <2>1. CASE current.value = AuthLost
    BY <1>7, <1>8, <2>1, LostIsDead DEF HandleCurrent
  <2>2. CASE current.value # AuthLost
    <3>1. i \in Ids
      BY IdFacts, SeenIsShown, StepFacts DEF Types, TypeOK, Reads
    <3>2. \/ task' = Await(task, "owned", i) \/ task' = ForsakeOwned(task, {i})
          \/ task' = ForsakeAll(task) \/ task' = ForsakeCurrent(task)
      BY <1>8, <2>2 DEF HandleCurrent
    <3>3. /\ task'.pc = task.pc /\ task'.op = task.op /\ task'.reply = task.reply
          /\ task'.seen = task.seen
      <4>1. CASE task' = Await(task, "owned", i)
        BY <1>1, <3>1, <4>1, AwaitFacts DEF SameWork
      <4>2. CASE task' = ForsakeOwned(task, {i})
        BY <1>1, <3>1, <4>2, OneForsaken
      <4>3. CASE task' = ForsakeAll(task) \/ task' = ForsakeCurrent(task)
        BY <1>1, <4>3, ForsakeAllFacts, ForsakeCurrentFacts DEF SameWork
      <4> QED
        BY <3>2, <4>1, <4>2, <4>3
    <3> QED
      BY <1>8, <2>2, <3>3 DEF HandleCurrent, SentKept
  <2> QED
    BY <2>1, <2>2
<1>9. ASSUME NEW i \in Ids, HandleOwned(i)
      PROVE  SentKept
  <2> DEFINE seen == owned[i].value
  <2>1. CASE seen = AuthLost /\ LoseSession(task)
    <3>1. task.pc = "sent"
      BY <1>1, <2>1, LoseFacts DEF SameWork
    <3>2. ~alive
      BY <1>2, <1>9, <2>1, <3>1, LostIsDead DEF HandleOwned
    <3> QED
      BY <1>7, <2>1, <3>2
  <2>2. CASE task' = ForsakeOwned(task, {i}) /\ UNCHANGED pending
    BY <1>1, <2>2, OneForsaken DEF SentKept
  <2>3. CASE task' = ForsakeOwned(task, Cancelled(seen)) /\ UNCHANGED pending
    <3>1. Cancelled(seen) \in SUBSET Ids
      BY CancelledFacts, OwnedFacts
    <3> QED
      BY <1>1, <2>3, <3>1, ForsakeOwnedFacts DEF SameWork, SentKept
  <2>4. CASE task.on = "owned" /\ task' = [task EXCEPT !.on = "seen"]
    BY <1>1, <1>2, <2>4 DEF Tasks
  <2> QED
    BY <1>9, <2>1, <2>2, <2>3, <2>4 DEF HandleOwned
<1>10. CASE NewSession
  <2>1. pending' = pending
    BY <1>10 DEF NewSession, IInv, SessionSound
  <2> QED
    BY <1>1, <1>10, <2>1, ForsakeAllFacts DEF NewSession, SameWork, SentKept
<1>11. CASE SessionAnswered
  <2>1. CASE LoseSession(task) /\ ~alive
    BY <1>7, <2>1
  <2>2. CASE Booted
    BY <1>1, <2>2, ForsakeCurrentFacts DEF Booted, SameWork, SentKept
  <2> QED
    BY <1>11, <2>1, <2>2 DEF SessionAnswered
<1>12. CASE Reload \/ MutationSucceeds \/ MutationUncertain \/ RefusalShown \/ CommandReconciled
  BY <1>3, <1>12 DEF Reload, MutationSucceeds, MutationUncertain, RefusalShown,
    CommandReconciled, ClearPending
<1>13. CASE MutationUnauthenticated
  BY <1>3, <1>13, LoseFacts, ConstantFacts DEF MutationUnauthenticated, SameWork
<1>14. CASE StartAttempt \/ SubmitCommand
  <2>1. Transmit(pending')
    BY <1>14, NewOperation DEF StoredAnew
  <2> QED
    BY <2>1, TransmitFacts, StepFacts
<1>15. CASE MutationRefused
  BY <1>3, <1>15, RefusedFacts, StepFacts
<1>16. CASE ReplayPending \/ ReconcilePending
  <2>1. PICK replay \in BOOLEAN : Recover(replay)
    BY <1>16 DEF ReplayPending, ReconcilePending
  <2>2. Transmit(pending) /\ UNCHANGED pending
    BY <2>1, RecoverFacts, StepFacts DEF Recover
  <2> QED
    BY <2>2, TransmitFacts, StepFacts
<1>17. CASE StartReconciled
  <2>1. Transmit(task.op) /\ status # "SESSION_LOST" /\ UNCHANGED pending
    BY <1>3, <1>17 DEF StartReconciled, ClearPending
  <2>2. pending = task.op
    BY <1>17, <2>1 DEF StartReconciled, IInv, TaskSound, Recoveries
  <2> QED
    BY <1>1, <2>1, <2>2, TransmitFacts, StepFacts
<1> QED
  BY <1>4, <1>5, <1>6, <1>8, <1>9, <1>10, <1>11, <1>12, <1>13, <1>14, <1>15, <1>16, <1>17
  DEF Next, PageEvent, Answers

\* The answer waiting for the page stays true, and its intent stored.
LEMMA ReplyStep ==
  ASSUME IInv, [Next]_vars
  PROVE  ReplySound' /\ SentIsStored'
<1> SUFFICES ASSUME task'.pc = "sent" PROVE ReplySound' /\ SentIsStored'
  BY DEF ReplySound, SentIsStored
<1>1. CASE task'.reply = "none" /\ task'.op = pending'
  BY <1>1 DEF ReplySound, SentIsStored
<1>2. CASE SentKept
  <2>1. OpKnown(task.op) /\ task.op \in Ops /\ task.op.guest \in Nat
    BY <1>2, StepFacts, OpFacts DEF SentKept, IInv, TaskSound
  <2>2. SentIsStored'
    <3> SUFFICES ASSUME task.reply = "none", alive', task.op.guest = guest'
                 PROVE  pending' = task.op
      BY <1>2 DEF SentIsStored, SentKept
    <3>1. guest' = guest
      BY <2>1, StepFacts DEF OpKnown
    <3>2. alive
      BY <3>1, StepFacts DEF Progress
    <3> QED
      BY <1>2, <3>1, <3>2 DEF SentKept, IInv, SentIsStored
  <2>3. ASSUME task.reply # "none"
        PROVE  ReplySound'
    <3>1. /\ task.op.kind \in Commands => ~Alive(task.op)
          /\ task.op.kind = "START" =>
               task.reply \notin {"STALE_VERSION", "TERMINAL_ATTEMPT", "EVIDENCE_LIMIT"}
          /\ task.reply \in {"APPLIED", "REPLAYED"} =>
               task.seen \in Seen /\ IsAttempt(task.seen) /\ Honest(task.seen)
      BY <1>2, <2>3 DEF SentKept, IInv, ReplySound
    <3>2. task.op.kind \in Commands => ~Alive(task.op)'
      <4> SUFFICES ASSUME task.op.kind \in Commands PROVE ~Alive(task.op)'
        OBVIOUS
      <4>1. \A op \in Ops : OpKnown(op) /\ op.kind \in Commands /\ ~Alive(op) =>
              ~(/\ alive' /\ op.guest = guest' /\ ~(\E r \in receipts' : r.key = <<op.id, 0>>)
                /\ attempts'[op.slot].state = "ACTIVE" /\ attempts'[op.slot].version = op.version
                /\ op.entity # Gone /\ ~(op.kind = "REVEAL" /\ op.version = Limit))
        BY StepFacts DEF Alive, Used
      <4> QED
        BY <1>2, <2>1, <3>1, <4>1 DEF Alive, Used, SentKept
    <3>3. task.reply \in {"APPLIED", "REPLAYED"} => Honest(task.seen)'
      <4> SUFFICES ASSUME task.reply \in {"APPLIED", "REPLAYED"} PROVE Honest(task.seen)'
        OBVIOUS
      <4>1. task.seen \in Shown /\ Honest(task.seen)
        BY <3>1, SeenIsShown
      <4>2. /\ task.seen.guest <= guest' /\ task.seen.slot <= slot'
            /\ task.seen.guest = guest' =>
                 LET row == attempts'[task.seen.slot]
                 IN /\ row.state # "NONE" /\ task.seen.version <= row.version
                    /\ task.seen.state \in Finished => row.state = task.seen.state /\ row.last = task.seen.last
        BY <4>1, StepFacts DEF Honest
      <4> QED
        BY <1>2, <4>2 DEF Honest, SentKept
    <3> QED
      BY <1>2, <3>1, <3>2, <3>3 DEF SentKept, ReplySound, Honest, Alive, Used, IsAttempt
  <2>4. ASSUME task.reply = "none"
        PROVE  ReplySound'
    BY <1>2, <2>4 DEF SentKept, ReplySound
  <2> QED
    BY <2>2, <2>3, <2>4
<1>3. CASE Deliver
  <2>1. PICK m \in net :
          /\ Serve(m)
          /\ \/ task' = task
             \/ task.op = m.op /\ task' = [task EXCEPT !.reply = Outcome(m), !.seen = AnswerTo(m)]
          /\ UNCHANGED <<guest, alive, slot, pending>>
    BY <1>3 DEF Deliver
  <2>2. CASE task' = task
    <3>1. SentKept
      BY <2>1, <2>2 DEF SentKept
    <3> QED
      BY <1>2, <3>1
  <2> DEFINE answered == [task EXCEPT !.reply = Outcome(m), !.seen = AnswerTo(m)]
  <2>3. CASE task.op = m.op /\ task' = answered
    <3>1. task'.reply = Outcome(m) /\ task'.seen = AnswerTo(m) /\ task'.op = m.op
      BY <2>3, StepFacts DEF Tasks
    <3>2. /\ Outcome(m) \in Replies \ {"none"}
          /\ m.op.kind = "START" =>
               Outcome(m) \notin {"STALE_VERSION", "TERMINAL_ATTEMPT", "EVIDENCE_LIMIT"}
          /\ m.op.kind \in Commands => (Outcome(m) = "APPLIED" <=> Alive(m.op))
          /\ m.key = <<m.op.id, 0>> /\ m.op \in Ops /\ OpKnown(m.op)
      <4>1. m.op \in Ops
        BY DEF IInv, Types, Messages
      <4> QED
        BY <4>1, OutcomeFacts DEF IInv, WireSound
    <3>3. /\ Outcome(m) \in {"APPLIED", "REPLAYED"} =>
              /\ AnswerTo(m) \in Seen /\ IsAttempt(AnswerTo(m))
              /\ AnswerTo(m).guest = guest' /\ AnswerTo(m).slot <= slot'
              /\ LET row == attempts'[AnswerTo(m).slot]
                 IN /\ row.state # "NONE" /\ AnswerTo(m).version = row.version
                    /\ AnswerTo(m).state = row.state /\ AnswerTo(m).last = row.last
          /\ Outcome(m) = "APPLIED" => \E r \in receipts' : r.key = m.key
      BY <2>1, AnswerFacts DEF IInv
    <3>4. m.op.kind \in Commands => ~Alive(m.op)'
      <4>1. CASE Outcome(m) = "APPLIED"
        BY <3>2, <3>3, <4>1 DEF Alive, Used
      <4>2. CASE Outcome(m) # "APPLIED"
        BY <3>2, <4>2, StepFacts
      <4> QED
        BY <4>1, <4>2
    <3>5. Outcome(m) \in {"APPLIED", "REPLAYED"} =>
            /\ task'.seen \in Seen /\ IsAttempt(task'.seen)
            /\ task'.seen.guest <= guest' /\ task'.seen.slot <= slot'
            /\ LET row == attempts'[task'.seen.slot]
               IN /\ row.state # "NONE" /\ task'.seen.version <= row.version
                  /\ row.state = task'.seen.state /\ row.last = task'.seen.last
      <4> SUFFICES ASSUME Outcome(m) \in {"APPLIED", "REPLAYED"}
                   PROVE  /\ task'.seen \in Seen /\ IsAttempt(task'.seen)
                          /\ task'.seen.guest <= guest' /\ task'.seen.slot <= slot'
                          /\ LET row == attempts'[task'.seen.slot]
                             IN /\ row.state # "NONE" /\ task'.seen.version <= row.version
                                /\ row.state = task'.seen.state /\ row.last = task'.seen.last
        OBVIOUS
      <4>1. AnswerTo(m).version \in Nat
        BY <3>3, SeenIsShown, SeenFacts
      <4> QED
        BY <3>1, <3>3, <4>1, StepFacts
    <3>6. ReplySound'
      BY <3>1, <3>2, <3>4, <3>5 DEF ReplySound, Honest, Alive, Used, IsAttempt
    <3> QED
      BY <3>1, <3>2, <3>6 DEF SentIsStored
  <2>4. task' = task \/ (task.op = m.op /\ task' = answered)
    BY <2>1
  <2> HIDE DEF answered
  <2> QED
    BY <2>2, <2>3, <2>4
<1> QED
  BY <1>1, <1>2, <1>3, SentStep

(***************************************************************************)
(* The reads the task waits for                                            *)
(***************************************************************************)
LEMMA AwaitsIdle ==
  ASSUME task'.on \notin {"current", "owned"}
  PROVE  AwaitsSomething'
BY DEF AwaitsSomething

\* Whatever ends a read also ends the wait for it.
LEMMA AwaitsStep ==
  ASSUME IInv, [Next]_vars
  PROVE  AwaitsSomething'
<1>1. /\ task \in Tasks /\ task.id \in Ids /\ owned \in [Ids -> Reads]
      /\ task.on = "current" => current # NoRead
      /\ task.on = "owned" => owned[task.id] # NoRead
  BY StepFacts DEF IInv, AwaitsSomething, Types, TypeOK, Tasks
<1>2. /\ Idle.on = "nothing" /\ Asked # NoRead
      /\ \A seen : [at |-> "answered", value |-> seen] # NoRead
  BY ConstantFacts DEF NoRead
<1>3. CASE UNCHANGED vars \/ SessionFails \/ World
  BY <1>1, <1>3 DEF vars, SessionFails, World, page, AwaitsSomething
<1>4. CASE Refresh
  BY <1>1, <1>4, ForsakeCurrentFacts DEF Refresh, AwaitsSomething
<1>5. CASE AnswerCurrent
  BY <1>1, <1>2, <1>5 DEF AnswerCurrent, AwaitsSomething
<1>6. ASSUME NEW i \in Ids, AnswerOwned(i)
      PROVE  AwaitsSomething'
  <2>1. PICK seen : owned' = [owned EXCEPT ![i] = [at |-> "answered", value |-> seen]]
    BY <1>6 DEF AnswerOwned
  <2> DEFINE read == [at |-> "answered", value |-> seen]
  <2>2. read # NoRead
    BY <1>2
  <2>3. owned' = [owned EXCEPT ![i] = read]
    BY <2>1
  <2> HIDE DEF read
  <2>4. \A j \in Ids : owned[j] # NoRead => owned'[j] # NoRead
    BY <1>1, <2>2, <2>3
  <2> QED
    BY <1>1, <1>6, <2>4 DEF AnswerOwned, AwaitsSomething
<1>7. CASE Deliver
  <2>1. task'.on = task.on /\ task'.id = task.id
    BY <1>1, <1>7 DEF Deliver, Tasks
  <2> QED
    BY <1>1, <1>7, <2>1 DEF Deliver, AwaitsSomething
<1>8. ASSUME LoseSession(task), Quiet
      PROVE  AwaitsSomething'
  BY <1>1, <1>8, LoseFacts, AwaitsIdle
<1>9. CASE HandleCurrent
  <2> DEFINE i == IdOf(current.value)
  <2>1. i \in Ids
    BY IdFacts, SeenIsShown, StepFacts DEF Types, TypeOK, Reads
  <2>2. CASE LoseSession(task)
    BY <1>8, <1>9, <2>2 DEF HandleCurrent
  <2>3. CASE owned' = [owned EXCEPT ![i] = Asked] /\ task.on = "current" /\ task' = Await(task, "owned", i)
    BY <1>1, <1>2, <2>1, <2>3, AwaitFacts DEF AwaitsSomething
  <2>4. CASE owned' = [owned EXCEPT ![i] = Asked] /\ task.on # "current" /\ task' = ForsakeOwned(task, {i})
    <3>1. task'.id = task.id /\ task'.on # "current" /\ (task'.on = "owned" => task.on = "owned" /\ task.id # i)
      BY <1>1, <2>1, <2>4, OneForsaken
    <3> QED
      BY <1>1, <1>2, <2>1, <2>4, <3>1 DEF AwaitsSomething
  <2>5. CASE task' = ForsakeAll(task)
    BY <1>1, <2>5, ForsakeAllFacts, AwaitsIdle
  <2>6. CASE task' = ForsakeCurrent(task) /\ UNCHANGED owned
    BY <1>1, <2>6, ForsakeCurrentFacts DEF AwaitsSomething
  <2> QED
    BY <1>9, <2>2, <2>3, <2>4, <2>5, <2>6 DEF HandleCurrent
<1>10. ASSUME NEW i \in Ids, HandleOwned(i)
       PROVE  AwaitsSomething'
  <2> DEFINE seen == owned[i].value
  <2>1. CASE LoseSession(task)
    BY <1>8, <1>10, <2>1 DEF HandleOwned
  <2>2. CASE task' = ForsakeOwned(task, {i}) /\ owned' = [owned EXCEPT ![i] = NoRead] /\ UNCHANGED current
    <3>1. task'.id = task.id /\ (task'.on = "current" => task.on = "current")
          /\ (task'.on = "owned" => task.on = "owned" /\ task.id # i)
      BY <1>1, <2>2, OneForsaken
    <3> QED
      BY <1>1, <2>2, <3>1 DEF AwaitsSomething
  <2>3. CASE /\ ~(task.on = "owned" /\ task.id = i) /\ task' = ForsakeOwned(task, Cancelled(seen))
             /\ owned' = Without(owned, {i} \cup Cancelled(seen)) /\ UNCHANGED current
    <3>1. Cancelled(seen) \in SUBSET Ids /\ {i} \cup Cancelled(seen) \in SUBSET Ids
      BY CancelledFacts, OwnedFacts
    <3>2. task'.id = task.id /\ (task'.on = "current" => task.on = "current")
          /\ (task'.on = "owned" => task.on = "owned" /\ task.id \notin Cancelled(seen))
      BY <1>1, <2>3, <3>1, ForsakeOwnedFacts
    <3>3. task'.on = "owned" => owned'[task.id] = owned[task.id]
      BY <1>1, <2>3, <3>1, <3>2, WithoutFacts
    <3> QED
      BY <1>1, <2>3, <3>2, <3>3 DEF AwaitsSomething
  <2>4. CASE task' = [task EXCEPT !.on = "seen"]
    <3>1. task'.on = "seen"
      BY <1>1, <2>4 DEF Tasks
    <3> QED
      BY <3>1, AwaitsIdle
  <2> QED
    BY <1>10, <2>1, <2>2, <2>3, <2>4 DEF HandleOwned
<1>11. CASE ReadFails
  <2>1. CASE task' = ForsakeCurrent(task) /\ UNCHANGED owned
    BY <1>1, <2>1, ForsakeCurrentFacts DEF AwaitsSomething
  <2>2. ASSUME NEW i \in Ids, owned' = [owned EXCEPT ![i] = NoRead], task' = ForsakeOwned(task, {i}),
               UNCHANGED current
        PROVE  AwaitsSomething'
    <3>1. task'.id = task.id /\ (task'.on = "current" => task.on = "current")
          /\ (task'.on = "owned" => task.on = "owned" /\ task.id # i)
      BY <1>1, <2>2, OneForsaken
    <3> QED
      BY <1>1, <2>2, <3>1 DEF AwaitsSomething
  <2> QED
    BY <1>11, <2>1, <2>2 DEF ReadFails
<1>12. CASE NewSession
  BY <1>1, <1>12, ForsakeAllFacts, AwaitsIdle DEF NewSession
<1>13. CASE SessionAnswered
  <2>1. CASE LoseSession(task)
    BY <1>8, <1>13, <2>1 DEF SessionAnswered
  <2>2. CASE Booted
    BY <1>1, <2>2, ForsakeCurrentFacts DEF Booted, AwaitsSomething
  <2> QED
    BY <1>13, <2>1, <2>2 DEF SessionAnswered
<1>14. CASE task' = Idle
  BY <1>2, <1>14, AwaitsIdle
<1>15. CASE Reload \/ MutationSucceeds \/ MutationUncertain \/ RefusalShown \/ CommandReconciled
  BY <1>14, <1>15 DEF Reload, MutationSucceeds, MutationUncertain, RefusalShown,
    CommandReconciled, ClearPending
<1>16. CASE MutationUnauthenticated
  BY <1>16, LoseFacts, ConstantFacts, AwaitsIdle DEF MutationUnauthenticated
<1>17. ASSUME NEW op \in Ops, Transmit(op)
       PROVE  AwaitsSomething'
  BY <1>17, TransmitFacts, StepFacts, AwaitsIdle
<1>18. CASE StartAttempt \/ SubmitCommand
  BY <1>17, <1>18, StartOpFacts, SubmitOpFacts, StepFacts DEF RunNewMutation
<1>19. CASE MutationRefused
  <2>1. \/ task' = Idle
        \/ task'.on = "current" /\ current' = Asked
        \/ /\ task'.on = "owned" /\ task'.id = IdOf(task.op)
           /\ owned' = [owned EXCEPT ![IdOf(task.op)] = Asked]
    BY <1>19, RefusedFacts, StepFacts
  <2> QED
    BY <1>1, <1>2, <1>14, <2>1, IdFacts, StepFacts DEF AwaitsSomething
<1>20. CASE ReplayPending \/ ReconcilePending
  <2>1. PICK replay \in BOOLEAN : Recover(replay)
    BY <1>20 DEF ReplayPending, ReconcilePending
  <2>2. \/ Transmit(pending)
        \/ task'.on = "current" /\ current' = Asked
        \/ task'.on = "nothing"
        \/ /\ task'.on = "owned" /\ task'.id = IdOf(pending)
           /\ owned' = [owned EXCEPT ![IdOf(pending)] = Asked]
    BY <2>1, RecoverFacts, StepFacts
  <2> QED
    BY <1>1, <1>2, <1>17, <2>2, IdFacts, StepFacts DEF AwaitsSomething
<1>21. CASE StartReconciled
  <2>1. task' = Idle \/ Transmit(task.op)
    BY <1>21 DEF StartReconciled, ClearPending
  <2> QED
    BY <1>14, <1>17, <2>1, StepFacts
<1> QED
  BY <1>3, <1>4, <1>5, <1>6, <1>7, <1>9, <1>10, <1>11, <1>12, <1>13, <1>15, <1>16, <1>18, <1>19,
     <1>20, <1>21
  DEF Next, PageEvent, Answers

(***************************************************************************)
(* The session                                                             *)
(***************************************************************************)
\* The case is read only in a session.
LEMMA ReadyStep ==
  ASSUME IInv, [Next]_vars
  PROVE  ~ready' => current' = NoRead
<1>1. ~ready => current = NoRead
  BY DEF IInv, SessionSound
<1>2. Asked # NoRead
  BY ConstantFacts
<1>3. ASSUME NEW t \in Tasks, LoseSession(t)
      PROVE  current' = NoRead
  BY <1>3, LoseFacts
<1>4. Idle \in Tasks /\ task \in Tasks
  BY ConstantFacts, StepFacts
<1>5. CASE UNCHANGED <<ready, current>>
  BY <1>1, <1>5
<1>6. CASE UNCHANGED vars \/ (\E i \in Ids : AnswerOwned(i)) \/ Deliver \/ SessionFails
           \/ MutationSucceeds \/ MutationUncertain \/ RefusalShown \/ StartReconciled
           \/ CommandReconciled \/ World
  BY <1>5, <1>6 DEF vars, AnswerOwned, Deliver, SessionFails, MutationSucceeds, MutationUncertain,
    RefusalShown, StartReconciled, CommandReconciled, World, page
<1>7. CASE Refresh \/ Reload \/ NewSession
  BY <1>7 DEF Refresh, Reload, NewSession
<1>8. CASE AnswerCurrent
  BY <1>1, <1>2, <1>8 DEF AnswerCurrent
<1>9. CASE HandleCurrent
  BY <1>3, <1>4, <1>9 DEF HandleCurrent
<1>10. ASSUME NEW i \in Ids, HandleOwned(i)
       PROVE  ~ready' => current' = NoRead
  BY <1>1, <1>3, <1>4, <1>10 DEF HandleOwned
<1>11. CASE ReadFails
  BY <1>1, <1>11 DEF ReadFails
<1>12. CASE SessionAnswered
  BY <1>3, <1>4, <1>12 DEF SessionAnswered, Booted
<1>13. CASE StartAttempt \/ SubmitCommand
  BY <1>1, <1>13, NewOperation DEF StoredAnew
<1>14. CASE MutationUnauthenticated
  BY <1>3, <1>4, <1>14 DEF MutationUnauthenticated
<1>15. CASE MutationRefused
  <2>1. UNCHANGED ready /\ (current' = current \/ ready)
    BY <1>15, RefusedFacts, StepFacts DEF MutationRefused
  <2> QED
    BY <1>1, <2>1
<1>16. CASE ReplayPending \/ ReconcilePending
  <2>1. PICK replay \in BOOLEAN : Recover(replay)
    BY <1>16 DEF ReplayPending, ReconcilePending
  <2>2. UNCHANGED ready /\ (current' = current \/ ready)
    BY <2>1, RecoverFacts, StepFacts DEF Recover
  <2> QED
    BY <1>1, <2>2
<1> QED
  BY <1>6, <1>7, <1>8, <1>9, <1>10, <1>11, <1>12, <1>13, <1>14, <1>15, <1>16
  DEF Next, PageEvent, Answers

LostSound ==
  status = "SESSION_LOST" =>
    pending = NoOp /\ boot = "off" /\ ~ready /\ (alive => task.pc # "sent")

\* A lost session stays lost until the player asks for a new one.
LEMMA LostStep ==
  ASSUME IInv, [Next]_vars
  PROVE  LostSound'
<1>1. LostSound
  BY DEF IInv, SessionSound, LostSound
<1>2. task \in Tasks /\ task.op \in Ops /\ task.id \in Ids /\ Idle.pc = "idle" /\ Idle \in Tasks
  BY StepFacts, ConstantFacts DEF Tasks
<1>3. alive' => alive \/ guest < guest'
  BY StepFacts DEF Progress
<1>4. ASSUME UNCHANGED <<status, pending, boot, ready>>, alive' => alive,
             task'.pc = task.pc \/ task'.pc # "sent"
      PROVE  LostSound'
  BY <1>1, <1>4 DEF LostSound
<1>5. ASSUME LoseSession(task), alive' => alive, alive => task.pc # "sent"
      PROVE  LostSound'
  <2>1. task'.pc = task.pc
    BY <1>2, <1>5, LoseFacts DEF SameWork
  <2> QED
    BY <1>5, <2>1 DEF LostSound, LoseSession
<1>6. CASE status' # "SESSION_LOST"
  BY <1>6 DEF LostSound
<1>7. CASE UNCHANGED vars \/ AnswerCurrent \/ (\E i \in Ids : AnswerOwned(i)) \/ World
  <2>1. UNCHANGED <<status, pending, boot, ready, task>>
    BY <1>7 DEF vars, AnswerCurrent, AnswerOwned, World, page
  <2>2. alive' => alive
    BY <1>7 DEF vars, AnswerCurrent, AnswerOwned, World, Rollover, SessionEnds, OtherTabPlays, service
  <2> QED
    BY <1>4, <2>1, <2>2
<1>8. CASE Deliver
  <2>1. task'.pc = task.pc
    BY <1>2, <1>8 DEF Deliver, Tasks
  <2> QED
    BY <1>4, <1>8, <2>1 DEF Deliver
<1>9. CASE Refresh
  BY <1>6, <1>9 DEF Refresh
<1>10. CASE HandleCurrent
  <2>1. CASE current.value = AuthLost
    <3>1. ~alive /\ LoseSession(task) /\ UNCHANGED alive
      BY <1>10, <2>1, LostIsDead DEF HandleCurrent, service
    <3> QED
      BY <1>5, <3>1
  <2>2. CASE current.value # AuthLost
    BY <1>6, <1>10, <2>2 DEF HandleCurrent
  <2> QED
    BY <2>1, <2>2
<1>11. ASSUME NEW i \in Ids, HandleOwned(i)
       PROVE  LostSound'
  <2>1. Quiet /\ UNCHANGED alive /\ owned[i].at = "answered"
    BY <1>11 DEF HandleOwned, service
  <2>2. CASE owned[i].value = AuthLost /\ LoseSession(task)
    <3>1. alive => task.on = "owned"
      BY <2>1, <2>2, LostIsDead
    <3>2. task.on = "owned" => task.pc # "sent"
      BY DEF IInv, TaskSound, Waiting
    <3> QED
      BY <1>5, <2>1, <2>2, <3>1, <3>2
  <2>3. CASE status' = "READ_ERROR"
    BY <1>6, <2>3
  <2>4. CASE /\ UNCHANGED <<pending, status, ready, boot>>
             /\ task' = IF task.on = "owned" /\ task.id = i THEN [task EXCEPT !.on = "seen"]
                        ELSE ForsakeOwned(task, Cancelled(owned[i].value))
    <3>1. Cancelled(owned[i].value) \in SUBSET Ids
      BY CancelledFacts, OwnedFacts
    <3>2. ForsakeOwned(task, Cancelled(owned[i].value)).pc = task.pc
      BY <1>2, <3>1, ForsakeOwnedFacts DEF SameWork
    <3>3. [task EXCEPT !.on = "seen"].pc = task.pc
      BY <1>2 DEF Tasks
    <3>4. task'.pc = task.pc
      BY <2>4, <3>2, <3>3
    <3> QED
      BY <1>4, <2>1, <2>4, <3>4
  <2> QED
    BY <1>11, <2>2, <2>3, <2>4 DEF HandleOwned
<1>12. CASE ReadFails \/ Reload \/ NewSession \/ SessionFails \/ MutationSucceeds
  BY <1>6, <1>12 DEF ReadFails, Reload, NewSession, SessionFails, MutationSucceeds
<1>13. CASE SessionAnswered
  <2>1. CASE Booted
    BY <1>1, <1>6, <1>13, <2>1 DEF SessionAnswered, Booted, LostSound
  <2>2. CASE LoseSession(task) /\ ~alive /\ UNCHANGED service
    BY <1>5, <2>2 DEF service
  <2> QED
    BY <1>13, <2>1, <2>2 DEF SessionAnswered
<1>14. CASE StartAttempt \/ SubmitCommand
  BY <1>6, <1>14, NewOperation DEF StoredAnew
<1>15. CASE MutationUnauthenticated
  <2>1. task'.pc = "idle" /\ pending' = NoOp /\ boot' = "off" /\ ready' = FALSE
    BY <1>2, <1>15, LoseFacts DEF MutationUnauthenticated, SameWork
  <2> QED
    BY <2>1 DEF LostSound
<1>16. CASE MutationRefused
  <2>1. task'.pc # "sent"
    BY <1>2, <1>16, RefusedFacts, StepFacts
  <2>2. UNCHANGED <<status, boot, ready, alive>> /\ pending' = NoOp
    BY <1>16 DEF MutationRefused, service
  <2> QED
    BY <1>1, <2>1, <2>2 DEF LostSound
<1>17. CASE MutationUncertain \/ RefusalShown
  <2>1. UNCHANGED <<status, pending, boot, ready, alive>> /\ task' = Idle
    BY <1>17 DEF MutationUncertain, RefusalShown, service
  <2> QED
    BY <1>2, <1>4, <2>1
<1>18. CASE ReplayPending \/ ReconcilePending
  BY <1>6, <1>18 DEF ReplayPending, ReconcilePending, Recover
<1>19. CASE StartReconciled \/ CommandReconciled
  <2>1. UNCHANGED <<status, boot, ready, alive>>
    BY <1>19 DEF StartReconciled, CommandReconciled, service
  <2>2. CASE status = "SESSION_LOST"
    <3>1. task' = Idle /\ UNCHANGED pending
      BY <1>19, <2>2 DEF StartReconciled, CommandReconciled
    <3> QED
      BY <1>2, <1>4, <2>1, <3>1
  <2> QED
    BY <1>6, <2>1, <2>2
<1> QED
  BY <1>7, <1>8, <1>9, <1>10, <1>11, <1>12, <1>13, <1>14, <1>15, <1>16, <1>17, <1>18, <1>19
  DEF Next, PageEvent, Answers

\* Only a reload or a new session begins to ask for a session.
LEMMA BootChanges ==
  ASSUME IInv, [Next]_vars
  PROVE  boot' = "off" \/ boot' = boot \/ Reload \/ NewSession
<1>1. CASE UNCHANGED vars \/ Refresh \/ AnswerCurrent \/ (\E i \in Ids : AnswerOwned(i)) \/ Deliver
           \/ ReadFails \/ SessionFails \/ World
  BY <1>1 DEF vars, Refresh, AnswerCurrent, AnswerOwned, Deliver, ReadFails, SessionFails, World, page
<1>2. CASE HandleCurrent \/ (\E i \in Ids : HandleOwned(i)) \/ SessionAnswered
           \/ MutationUnauthenticated
  BY <1>2 DEF HandleCurrent, HandleOwned, SessionAnswered, MutationUnauthenticated, LoseSession, Booted
<1>3. CASE StartAttempt \/ SubmitCommand
  BY <1>3, NewOperation DEF StoredAnew
<1>4. CASE MutationSucceeds \/ MutationRefused \/ MutationUncertain \/ RefusalShown
           \/ ReplayPending \/ ReconcilePending \/ StartReconciled \/ CommandReconciled
  BY <1>4 DEF MutationSucceeds, MutationRefused, MutationUncertain, RefusalShown, ReplayPending,
    ReconcilePending, Recover, StartReconciled, CommandReconciled
<1> QED
  BY <1>1, <1>2, <1>3, <1>4 DEF Next, PageEvent, Answers

BootSound ==
  /\ boot # "off" => ~ready /\ view.state \notin {"NOT_STARTED", "NO_CASE"}
                     /\ \A i \in Ids : owned[i] # NoRead => task.on = "owned" /\ task.id = i
  /\ boot \in {"bootstrap", "resume"} => task.pc = "idle" /\ status # "READY"
  /\ boot = "bootstrap" => pending = NoOp
  /\ boot = "create" =>
       /\ pending.kind # "START"
       /\ \A i \in Ids : owned[i].at = "answered" => owned[i].value = AuthLost
       /\ alive => task.pc # "sent" /\ status # "READY" /\ \A i \in Ids : owned[i] = NoRead

\* Without reads of attempts under way.
LEMMA BootUnread ==
  ASSUME BootSound, boot # "off", UNCHANGED <<boot, ready>>,
         \A i \in Ids : owned'[i] = NoRead,
         view'.state \notin {"NOT_STARTED", "NO_CASE"},
         boot = "create" => pending'.kind # "START",
         boot # "create" => task'.pc = "idle" /\ status' # "READY" /\ (pending' = pending \/ pending' = NoOp),
         boot = "create" /\ alive' => task'.pc # "sent" /\ status' # "READY"
  PROVE  BootSound'
BY ConstantFacts DEF BootSound

\* With the reads as they were.
LEMMA BootKept ==
  ASSUME BootSound, UNCHANGED <<boot, ready, status, pending, view, owned>>, alive' => alive,
         task'.pc = task.pc, task'.on = task.on, task'.id = task.id
  PROVE  BootSound'
BY DEF BootSound

\* While the session is asked for, nothing of the last one is shown or handled.
LEMMA BootStep ==
  ASSUME IInv, [Next]_vars
  PROVE  BootSound'
<1>1. BootSound
  BY DEF IInv, SessionSound, BootSound
<1>2. CASE boot' = "off"
  BY <1>2 DEF BootSound
<1>3. /\ NoView.state = "UNKNOWN" /\ NoOp.kind = "NONE" /\ Idle.pc = "idle" /\ Idle.on = "nothing"
      /\ NoRead.at = "none" /\ Asked.at = "asked"
      /\ task \in Tasks /\ task.op \in Ops /\ task.id \in Ids
  BY ConstantFacts, StepFacts DEF Tasks
<1>4. CASE Reload
  <2>1. /\ status' = "HYDRATING" /\ ready' = FALSE /\ view' = NoView /\ task' = Idle
        /\ boot' = IF pending = NoOp THEN "bootstrap" ELSE "resume"
        /\ owned' = NoReads /\ UNCHANGED pending
    BY <1>4 DEF Reload
  <2>2. \A i \in Ids : owned'[i] = NoRead
    BY <2>1 DEF NoReads
  <2> QED
    BY <1>3, <2>1, <2>2 DEF BootSound
<1>5. CASE NewSession
  <2>1. /\ status' = "HYDRATING" /\ ready' = FALSE /\ view' = NoView /\ boot' = "create"
        /\ owned' = NoReads /\ pending' = NoOp /\ UNCHANGED alive
    BY <1>5 DEF NewSession, service
  <2>2. \A i \in Ids : owned'[i] = NoRead
    BY <2>1 DEF NoReads
  <2>3. alive => task'.pc # "sent"
    BY <1>3, <1>5, ForsakeAllFacts DEF NewSession, SameWork, IInv, SessionSound
  <2> QED
    BY <1>3, <2>1, <2>2, <2>3 DEF BootSound
<1>6. ASSUME boot # "off", boot' = boot, ~Reload, ~NewSession
      PROVE  BootSound'
  <2>1. /\ ready = FALSE /\ current = NoRead /\ view.state \notin {"NOT_STARTED", "NO_CASE"}
        /\ \A i \in Ids : owned[i] # NoRead => task.on = "owned" /\ task.id = i
        /\ boot \in {"bootstrap", "resume", "create"}
    BY <1>1, <1>6 DEF BootSound, IInv, SessionSound, Types, TypeOK
  <2>2. /\ boot # "create" => task.pc = "idle" /\ status # "READY"
        /\ boot = "create" => pending.kind # "START"
        /\ boot = "create" /\ alive => task.pc # "sent" /\ status # "READY"
    BY <1>1, <2>1 DEF BootSound
  <2>3. task.on # "owned" => \A i \in Ids : owned[i] = NoRead
    BY <2>1
  <2>4. task.pc \notin Waiting => task.on = "nothing"
    BY DEF IInv, TaskSound
  <2>5. alive' => alive \/ guest < guest'
    BY StepFacts DEF Progress
  <2>6. CASE UNCHANGED vars \/ World
    <3>1. alive' => alive
      BY <2>6 DEF vars, World, Rollover, SessionEnds, OtherTabPlays, service
    <3>2. UNCHANGED <<boot, ready, status, pending, view, owned, task>>
      BY <2>6 DEF vars, World, page
    <3> QED
      BY <1>1, <3>1, <3>2, BootKept
  <2>7. ASSUME NEW i \in Ids, AnswerOwned(i)
        PROVE  BootSound'
    <3>1. owned[i] # NoRead /\ owned[i] = Asked
      BY <1>3, <2>7 DEF AnswerOwned
    <3>2. task.on = "owned" /\ task.id = i /\ task.pc \in Waiting
      BY <2>1, <2>4, <3>1
    <3>3. boot = "create" /\ ~alive
      BY <1>1, <1>3, <2>1, <2>2, <3>1, <3>2 DEF BootSound, Waiting
    <3> DEFINE read == [at |-> "answered", value |-> AuthLost]
    <3>4. owned' = [owned EXCEPT ![i] = read] /\ UNCHANGED <<boot, ready, status, pending, view, task, alive>>
      BY <2>7, <3>3 DEF AnswerOwned, service
    <3>5. read.value = AuthLost
      OBVIOUS
    <3> HIDE DEF read
    <3>6. \A j \in Ids : owned'[j] = IF j = i THEN read ELSE owned[j]
      BY <3>4 DEF IInv, Types, TypeOK
    <3> QED
      BY <1>1, <3>2, <3>3, <3>4, <3>5, <3>6 DEF BootSound
  <2>8. CASE Deliver
    <3>1. task'.pc = task.pc /\ task'.on = task.on /\ task'.id = task.id
      BY <1>3, <2>8 DEF Deliver, Tasks
    <3> QED
      BY <1>1, <2>8, <3>1, BootKept DEF Deliver
  <2>9. ~Refresh /\ ~AnswerCurrent /\ ~HandleCurrent
    BY <1>3, <2>1 DEF Refresh, AnswerCurrent, HandleCurrent
  <2>10. ASSUME NEW i \in Ids, HandleOwned(i)
         PROVE  BootSound'
    <3>1. owned[i] # NoRead
      BY <1>3, <2>10 DEF HandleOwned
    <3>2. task.on = "owned" /\ task.id = i /\ task.pc \in Waiting
      BY <2>1, <2>4, <3>1
    <3>3. boot = "create" /\ ~alive /\ ~alive'
      <4>1. boot = "create" /\ ~alive
        BY <1>1, <1>3, <2>1, <2>2, <3>1, <3>2 DEF BootSound, Waiting
      <4> QED
        BY <2>10, <4>1 DEF HandleOwned, service
    <3>4. ~LoseSession(task)
      BY <1>6 DEF LoseSession
    <3>5. CASE owned' = [owned EXCEPT ![i] = NoRead] /\ UNCHANGED <<pending, ready, view, boot>>
      <4>1. \A j \in Ids : owned'[j] = NoRead
        BY <2>1, <3>2, <3>5 DEF IInv, Types, TypeOK
      <4> QED
        BY <1>1, <1>6, <2>1, <2>2, <3>3, <3>5, <4>1, BootUnread
    <3>6. CASE /\ IsAttempt(owned[i].value) /\ view' = ViewWith(view, owned[i].value)
               /\ owned' = Without(owned, {i} \cup Cancelled(owned[i].value))
               /\ UNCHANGED <<pending, ready, boot>>
      <4>1. {i} \cup Cancelled(owned[i].value) \in SUBSET Ids
        BY OwnedFacts, CancelledFacts
      <4>2. \A j \in Ids : owned'[j] = NoRead
        BY <2>1, <3>2, <3>6, <4>1, WithoutFacts DEF IInv, Types, TypeOK
      <4>3. view'.state \notin {"NOT_STARTED", "NO_CASE"}
        BY <2>1, <3>6, ViewFacts, OwnedFacts, StepFacts DEF IsAttempt, Finished
      <4> QED
        BY <1>1, <1>6, <2>2, <3>3, <3>6, <4>2, <4>3, BootUnread
    <3> QED
      BY <2>10, <3>4, <3>5, <3>6 DEF HandleOwned
  <2>11. CASE ReadFails
    <3>1. PICK i \in Ids : owned[i] # NoRead /\ owned' = [owned EXCEPT ![i] = NoRead]
      BY <2>1, <2>11 DEF ReadFails
    <3>2. task.on = "owned" /\ task.id = i /\ task.pc \in Waiting
      BY <2>1, <2>4, <3>1
    <3>3. boot = "create" /\ ~alive /\ ~alive'
      <4>1. boot = "create" /\ ~alive
        BY <1>1, <1>3, <2>1, <2>2, <3>1, <3>2 DEF BootSound, Waiting
      <4> QED
        BY <2>11, <4>1 DEF ReadFails, service
    <3>4. \A j \in Ids : owned'[j] = NoRead
      BY <2>1, <3>1, <3>2 DEF IInv, Types, TypeOK
    <3> QED
      BY <1>1, <1>6, <2>1, <2>2, <2>11, <3>3, <3>4, BootUnread DEF ReadFails
  <2>12. ~SessionAnswered /\ ~SessionFails /\ ~MutationUnauthenticated
    BY <1>6 DEF SessionAnswered, Booted, LoseSession, SessionFails, MutationUnauthenticated
  <2>13. CASE StartAttempt \/ SubmitCommand
    <3>1. StoredAnew
      BY <2>13, NewOperation
    <3>2. status = "READY" /\ task.pc = "idle"
      BY <3>1 DEF StoredAnew
    <3>3. boot = "create" /\ ~alive
      BY <2>2, <3>2
    <3>4. pending'.kind \in Commands /\ UNCHANGED <<ready, view, boot, owned, alive>>
      BY <2>1, <3>1 DEF StoredAnew, service
    <3>5. \A i \in Ids : owned'[i] = NoRead
      BY <2>3, <2>4, <3>2, <3>4 DEF Waiting
    <3> QED
      BY <1>1, <1>6, <2>1, <3>3, <3>4, <3>5, BootUnread DEF Commands
  <2>14. CASE MutationSucceeds
    <3>1. task.pc = "sent" /\ task.reply \in {"APPLIED", "REPLAYED"}
      BY <2>14 DEF MutationSucceeds, Replied
    <3>2. boot = "create" /\ ~alive /\ \A i \in Ids : owned[i] = NoRead
      BY <2>2, <2>3, <2>4, <3>1 DEF Waiting
    <3>3. task.seen \in Seen /\ IsAttempt(task.seen)
      BY <3>1 DEF IInv, ReplySound
    <3>4. \A i \in Ids : owned'[i] = NoRead
      BY <2>14, <3>2, <3>3, CancelledFacts, WithoutFacts DEF MutationSucceeds, IInv, Types, TypeOK
    <3>5. view'.state \notin {"NOT_STARTED", "NO_CASE"}
      <4>1. task.seen.state \notin {"NOT_STARTED", "NO_CASE"}
        BY <3>3 DEF IsAttempt, Finished
      <4>2. ViewWith(view, task.seen).state \in {view.state, task.seen.state}
        BY <3>3, ViewFacts, StepFacts
      <4>3. CaseOf(task.seen).state = task.seen.state
        BY <3>3, CaseFacts
      <4> QED
        BY <2>1, <2>14, <4>1, <4>2, <4>3 DEF MutationSucceeds
    <3>6. pending' = NoOp /\ UNCHANGED <<boot, ready, alive>>
      BY <2>14 DEF MutationSucceeds, service
    <3> QED
      BY <1>1, <1>3, <1>6, <3>2, <3>4, <3>5, <3>6, BootUnread
  <2>15. CASE MutationRefused
    <3>1. task.pc = "sent" /\ pending' = NoOp /\ UNCHANGED <<boot, ready, status, view, alive>>
      BY <2>15 DEF MutationRefused, Replied, service
    <3>2. boot = "create" /\ ~alive /\ \A i \in Ids : owned[i] = NoRead
      BY <2>2, <2>3, <2>4, <3>1 DEF Waiting
    <3>3. CASE task' = Idle /\ UNCHANGED owned
      BY <1>1, <1>3, <1>6, <2>1, <3>1, <3>2, <3>3, BootUnread
    <3>4. CASE /\ task'.on = "owned" /\ task'.id = IdOf(task.op)
               /\ owned' = [owned EXCEPT ![IdOf(task.op)] = Asked]
      <4>1. \A j \in Ids : owned'[j] = IF j = IdOf(task.op) THEN Asked ELSE NoRead
        BY <3>2, <3>4 DEF IInv, Types, TypeOK
      <4> QED
        BY <1>3, <2>1, <3>1, <3>2, <3>4, <4>1 DEF BootSound
    <3> QED
      BY <2>1, <2>15, <3>3, <3>4, RefusedFacts, StepFacts
  <2>16. CASE MutationUncertain
    <3>1. task.pc = "sent" /\ task' = Idle /\ UNCHANGED <<boot, ready, status, view, owned, pending, alive>>
      BY <2>16 DEF MutationUncertain, service
    <3>2. boot = "create" /\ ~alive /\ \A i \in Ids : owned[i] = NoRead
      BY <2>2, <2>3, <2>4, <3>1 DEF Waiting
    <3> QED
      BY <1>1, <1>6, <2>1, <2>2, <3>1, <3>2, BootUnread
  <2>17. CASE RefusalShown \/ CommandReconciled \/ StartReconciled
    <3>1. task.pc \in Waiting /\ task.on \in {"nothing", "seen"}
      BY <2>17 DEF RefusalShown, CommandReconciled, StartReconciled, Waiting, Quiet
    <3>2. \A i \in Ids : owned[i] = NoRead
      BY <2>3, <3>1
    <3>3. UNCHANGED <<boot, ready, status, view, owned, alive>>
      BY <2>17 DEF RefusalShown, CommandReconciled, StartReconciled, service
    <3>4. task' = Idle /\ (pending' = pending \/ pending' = NoOp)
      BY <2>1, <2>17 DEF RefusalShown, CommandReconciled, StartReconciled, ClearPending
    <3>5. boot = "create"
      BY <2>1, <2>2, <3>1 DEF Waiting
    <3> QED
      BY <1>1, <1>3, <1>6, <2>1, <2>2, <3>2, <3>3, <3>4, <3>5, BootUnread
  <2>18. CASE ReplayPending \/ ReconcilePending
    <3>1. PICK replay \in BOOLEAN : Recover(replay)
      BY <2>18 DEF ReplayPending, ReconcilePending
    <3>2. /\ status = "READY" /\ task.pc = "idle"
          /\ UNCHANGED <<boot, ready, status, view, pending, alive>>
      BY <3>1 DEF Recover, service
    <3>3. boot = "create" /\ ~alive /\ \A i \in Ids : owned[i] = NoRead
      BY <2>2, <2>3, <2>4, <3>2 DEF Waiting
    <3>4. CASE UNCHANGED owned
      BY <1>1, <1>6, <2>1, <2>2, <3>2, <3>3, <3>4, BootUnread
    <3>5. CASE /\ task'.on = "owned" /\ task'.id = IdOf(pending)
               /\ owned' = [owned EXCEPT ![IdOf(pending)] = Asked]
      <4>1. \A j \in Ids : owned'[j] = IF j = IdOf(pending) THEN Asked ELSE NoRead
        BY <3>3, <3>5 DEF IInv, Types, TypeOK
      <4> QED
        BY <1>3, <2>1, <2>2, <3>2, <3>3, <3>5, <4>1 DEF BootSound
    <3> QED
      BY <3>1, <3>4, <3>5, RecoverFacts, StepFacts
  <2> QED
    BY <1>6, <2>6, <2>7, <2>8, <2>9, <2>10, <2>11, <2>12, <2>13, <2>14, <2>15, <2>16, <2>17, <2>18
    DEF Next, PageEvent, Answers
<1>7. boot' = "off" \/ boot' = boot \/ Reload \/ NewSession
  BY BootChanges
<1> QED
  BY <1>2, <1>4, <1>5, <1>6, <1>7

\* The page stays in step with its session.
LEMMA PageSessionStep ==
  ASSUME IInv, [Next]_vars
  PROVE  SessionSound'
BY ReadyStep, LostStep, BootStep DEF SessionSound, LostSound, BootSound

(***************************************************************************)
(* The answer of the current case                                          *)
(***************************************************************************)
\* Only a new session changes the guest, and nothing else revives a session.
LEMMA GuestStep ==
  ASSUME IInv, [Next]_vars
  PROVE  \/ SessionAnswered /\ CreateSession /\ Booted
         \/ guest' = guest /\ (alive' => alive)
<1>1. CASE SessionAnswered
  BY <1>1 DEF SessionAnswered, service
<1>2. guest' = guest => (alive' => alive)
  BY StepFacts DEF Progress
<1>3. CASE UNCHANGED vars \/ Refresh \/ HandleCurrent \/ (\E i \in Ids : HandleOwned(i)) \/ ReadFails
           \/ Reload \/ NewSession \/ SessionFails
  BY <1>2, <1>3 DEF vars, service, Refresh, HandleCurrent, HandleOwned, ReadFails, Reload, NewSession,
    SessionFails
<1>4. CASE StartAttempt \/ SubmitCommand
  BY <1>2, <1>4, NewOperation DEF StoredAnew, service
<1>5. CASE MutationSucceeds \/ MutationUnauthenticated \/ MutationRefused \/ MutationUncertain
           \/ RefusalShown \/ ReplayPending \/ ReconcilePending \/ StartReconciled \/ CommandReconciled
  BY <1>2, <1>5 DEF service, MutationSucceeds, MutationUnauthenticated, MutationRefused,
    MutationUncertain, RefusalShown, ReplayPending, ReconcilePending, Recover, StartReconciled,
    CommandReconciled
<1>6. CASE AnswerCurrent \/ (\E i \in Ids : AnswerOwned(i)) \/ Deliver
  BY <1>2, <1>6 DEF service, AnswerCurrent, AnswerOwned, Deliver
<1>7. CASE World
  BY <1>2, <1>7 DEF World, Rollover, SessionEnds, OtherTabPlays
<1> QED
  BY <1>1, <1>3, <1>4, <1>5, <1>6, <1>7 DEF Next, PageEvent, Answers

\* The answer is as good as it was, for a screen and an intent no newer.
LEMMA CurrentKept ==
  ASSUME IInv, [Next]_vars, UNCHANGED current, guest' = guest, alive' => alive,
         view'.state = "NOT_STARTED" => view.state = "NOT_STARTED" /\ view'.slot = view.slot,
         pending'.kind = "START" =>
           pending' = pending \/ (view.state = "NOT_STARTED" /\ pending'.slot = view.slot)
  PROVE  CurrentSound'
<1>1. CurrentSound /\ current.value \in Seen /\ slot <= slot' /\ slot \in Nat /\ slot' \in Nat
      /\ current.value.slot \in Slots /\ current.value.slot \in Nat
  BY StepFacts, ServiceAssumption DEF IInv, Types, TypeOK, Reads, Seen
<1>2. \A s \in Slots : Exists(s) => Exists(s)'
  BY StepFacts
<1> PICK seen : seen = current.value
  OBVIOUS
<1>3. CASE current.at = "answered" /\ seen # AuthLost
  <2>1. /\ seen.guest = guest /\ seen.slot <= slot
        /\ seen.state \in Finished \cup {"ACTIVE", "NO_CASE", "NOT_STARTED"}
        /\ IsAttempt(seen) => Exists(seen.slot)
        /\ seen.state = "NO_CASE" => seen.slot \notin Published
        /\ view.state = "NOT_STARTED" => view.slot <= seen.slot
        /\ pending.kind = "START" => pending.slot <= seen.slot
    BY <1>1, <1>3 DEF CurrentSound
  <2>2. IsAttempt(seen) => Exists(seen.slot)'
    BY <1>1, <1>2, <2>1
  <2>3. view'.state = "NOT_STARTED" => view'.slot <= seen.slot
    BY <2>1
  <2>4. pending'.kind = "START" => pending'.slot <= seen.slot
    BY <2>1
  <2>5. seen.slot <= slot'
    BY <1>1, <2>1
  <2>6. current'.value = seen
    OBVIOUS
  <2>7. /\ seen.guest = guest' /\ seen.slot <= slot' /\ (IsAttempt(seen) => Exists(seen.slot)')
        /\ seen.state \in Finished \cup {"ACTIVE", "NO_CASE", "NOT_STARTED"}
        /\ seen.state = "NO_CASE" => seen.slot \notin Published
        /\ view'.state = "NOT_STARTED" => view'.slot <= seen.slot
        /\ pending'.kind = "START" => pending'.slot <= seen.slot
    BY <2>1, <2>2, <2>3, <2>4, <2>5
  <2> QED
    BY <1>3, <2>6, <2>7 DEF CurrentSound, IsAttempt, Exists
<1>4. CASE current.at # "answered" \/ seen = AuthLost
  BY <1>1, <1>4 DEF CurrentSound
<1> QED
  BY <1>3, <1>4

\* A response of the case is about today.
LEMMA CurrentAnswered ==
  ASSUME IInv, [Next]_vars, AnswerCurrent
  PROVE  CurrentSound'
<1> DEFINE seen == IF alive THEN CaseOf(CurrentCase) ELSE AuthLost
<1>1. current' = [at |-> "answered", value |-> seen]
      /\ UNCHANGED <<guest, alive, slot, attempts, view, pending>>
  BY DEF AnswerCurrent, service
<1>2. current'.value = seen
  BY <1>1
<1>3. CASE ~alive
  BY <1>1, <1>2, <1>3 DEF CurrentSound
<1>4. CASE alive
  <2>1. /\ seen.guest = guest /\ seen.slot = slot
        /\ seen.state \in Finished \cup {"ACTIVE", "NO_CASE", "NOT_STARTED"}
        /\ IsAttempt(seen) => Exists(slot)
        /\ seen.state = "NO_CASE" => slot \notin Published
    <3>1. CurrentCase \in Seen /\ IsAttempt(CurrentCase) => Exists(slot)
      BY StepFacts, CurrentCaseFacts DEF Exists
    <3> QED
      BY <1>4, <3>1, StepFacts, CurrentCaseFacts, CaseFacts DEF IsAttempt
  <2>2. view.slot <= slot
    BY DEF IInv, ScreenSound
  <2>3. pending.kind = "START" => pending.slot <= slot
    <3>1. pending.kind = "START" => OpKnown(pending)
      BY ConstantFacts DEF IInv, TaskSound
    <3> QED
      BY <3>1 DEF OpKnown
  <2>4. seen # AuthLost
    BY <2>1, ConstantFacts DEF Finished
  <2>5. slot <= slot
    BY StepFacts
  <2> HIDE DEF seen
  <2> QED
    BY <1>1, <1>2, <2>1, <2>2, <2>3, <2>4, <2>5 DEF CurrentSound, Exists, IsAttempt
<1> QED
  BY <1>3, <1>4

\* What is read of the case stays newer than the screen and the intent.
LEMMA CurrentStep ==
  ASSUME IInv, [Next]_vars
  PROVE  CurrentSound'
<1>1. /\ NoRead.at = "none" /\ Asked.at = "asked" /\ NoView.state = "UNKNOWN" /\ NoOp.kind = "NONE"
      /\ Idle \in Tasks /\ task \in Tasks /\ task.op \in Ops
  BY ConstantFacts, StepFacts
<1>2. CASE current' \in {NoRead, Asked}
  BY <1>1, <1>2 DEF CurrentSound
<1>3. (guest' = guest /\ (alive' => alive)) \/ current' = Asked
  BY GuestStep DEF Booted
<1>4. ASSUME UNCHANGED <<current, view>>, pending' = pending \/ pending' = NoOp
      PROVE  CurrentSound'
  BY <1>1, <1>2, <1>3, <1>4, CurrentKept
<1>5. CASE UNCHANGED vars \/ (\E i \in Ids : AnswerOwned(i)) \/ Deliver \/ SessionFails
           \/ MutationUncertain \/ RefusalShown \/ StartReconciled \/ CommandReconciled \/ World
  BY <1>4, <1>5 DEF vars, page, AnswerOwned, Deliver, SessionFails, MutationUncertain, RefusalShown,
    StartReconciled, CommandReconciled, ClearPending, World
<1>6. ASSUME NEW t \in Tasks, LoseSession(t)
      PROVE  CurrentSound'
  BY <1>2, <1>6, LoseFacts
<1>7. CASE Refresh \/ Reload \/ NewSession
  BY <1>2, <1>7 DEF Refresh, Reload, NewSession
<1>8. CASE HandleCurrent
  BY <1>1, <1>2, <1>6, <1>8 DEF HandleCurrent
<1>9. ASSUME NEW i \in Ids, HandleOwned(i)
      PROVE  CurrentSound'
  <2>1. CASE LoseSession(task)
    BY <1>1, <1>6, <2>1
  <2>2. CASE UNCHANGED <<current, view, pending>>
    BY <1>4, <2>2
  <2>3. CASE /\ IsAttempt(owned[i].value) /\ view' = ViewWith(view, owned[i].value)
             /\ UNCHANGED <<current, pending>>
    <3>1. view'.slot = view.slot /\ (view' = view \/ view'.state = owned[i].value.state)
      BY <2>3, OwnedFacts, StepFacts, ViewFacts
    <3>2. owned[i].value.state # "NOT_STARTED"
      BY <2>3 DEF IsAttempt, Finished
    <3> QED
      BY <1>2, <1>3, <2>3, <3>1, <3>2, CurrentKept
  <2> QED
    BY <1>9, <2>1, <2>2, <2>3 DEF HandleOwned
<1>10. CASE ReadFails
  BY <1>2, <1>4, <1>10 DEF ReadFails
<1>11. CASE SessionAnswered
  BY <1>1, <1>2, <1>6, <1>11 DEF SessionAnswered, Booted
<1>12. CASE StartAttempt \/ SubmitCommand
  <2>1. /\ UNCHANGED <<current, view>>
        /\ pending'.kind = "START" => view.state = "NOT_STARTED" /\ pending'.slot = view.slot
    BY <1>12, NewOperation DEF StoredAnew, Commands
  <2> QED
    BY <1>2, <1>3, <2>1, CurrentKept
<1>13. CASE MutationSucceeds
  <2>1. /\ pending' = NoOp /\ UNCHANGED current
        /\ view' = IF task.op.kind = "START" THEN CaseOf(task.seen) ELSE ViewWith(view, task.seen)
        /\ task.pc = "sent" /\ task.reply \in {"APPLIED", "REPLAYED"}
    BY <1>13 DEF MutationSucceeds, Replied
  <2>2. task.seen \in Seen /\ IsAttempt(task.seen)
    BY <2>1 DEF IInv, ReplySound
  <2>3. task.seen.state # "NOT_STARTED"
    BY <2>2 DEF IsAttempt, Finished
  <2>4. view'.state = "NOT_STARTED" => view' = view
    BY <2>1, <2>2, <2>3, CaseFacts, ViewFacts, StepFacts
  <2> QED
    BY <1>1, <1>2, <1>3, <2>1, <2>4, CurrentKept
<1>14. CASE MutationUnauthenticated
  BY <1>1, <1>6, <1>14 DEF MutationUnauthenticated
<1>15. CASE MutationRefused
  <2>1. pending' = NoOp /\ UNCHANGED view /\ (current' = Asked \/ current' = current)
    BY <1>15, RefusedFacts, StepFacts DEF MutationRefused
  <2> QED
    BY <1>2, <1>4, <2>1
<1>16. CASE ReplayPending \/ ReconcilePending
  <2>1. PICK replay \in BOOLEAN : Recover(replay)
    BY <1>16 DEF ReplayPending, ReconcilePending
  <2>2. UNCHANGED <<pending, view>> /\ (current' = Asked \/ current' = current)
    BY <2>1, RecoverFacts, StepFacts DEF Recover
  <2> QED
    BY <1>2, <1>4, <2>2
<1>17. CASE AnswerCurrent
  BY <1>17, CurrentAnswered
<1> QED
  BY <1>5, <1>7, <1>8, <1>9, <1>10, <1>11, <1>12, <1>13, <1>14, <1>15, <1>16, <1>17
  DEF Next, PageEvent, Answers

(***************************************************************************)
(* The reads of attempts                                                   *)
(***************************************************************************)
Readable(i) == i.guest <= guest /\ i.slot <= slot /\ (i.guest = guest => Exists(i.slot))

ReadSound(i) ==
  /\ owned[i] # NoRead => Readable(i)
  /\ owned[i].at = "answered" =>
       LET seen == owned[i].value
       IN \/ seen = NoView
          \/ seen = AuthLost /\ (alive => task.on = "owned" /\ task.id = i /\ i.guest < guest)
          \/ IsAttempt(seen) /\ IdOf(seen) = i /\ i.guest = guest /\ Honest(seen)

\* The reads of attempts, one by one.
LEMMA OwnedIsReads == OwnedSound <=> \A i \in Ids : ReadSound(i)
BY DEF OwnedSound, ReadSound, Readable

\* What could be read can be read later.
LEMMA ReadableStays ==
  ASSUME IInv, [Next]_vars, NEW i \in Ids, Readable(i)
  PROVE  Readable(i)'
<1>1. /\ i.guest \in Nat /\ i.slot \in Nat /\ i.slot \in Slots
      /\ guest \in Nat /\ guest' \in Nat /\ slot \in Nat /\ slot' \in Nat
      /\ guest <= guest' /\ slot <= slot'
      /\ guest' = guest => \A s \in Slots : Exists(s) => Exists(s)'
  BY IdFacts, StepFacts
<1>2. i.guest <= guest' /\ i.slot <= slot'
  BY <1>1 DEF Readable
<1>3. i.guest = guest' => Exists(i.slot)'
  BY <1>1 DEF Readable
<1> QED
  BY <1>2, <1>3 DEF Readable

\* The attempt of a known command can be read.
LEMMA CommandReadable ==
  ASSUME IInv, NEW op \in Ops, OpKnown(op), op.kind # "START"
  PROVE  IdOf(op) \in Ids /\ Readable(IdOf(op))
BY IdFacts DEF OpKnown, Readable, IdOf, Ops, Commands

\* A read that ends or goes on, and one asked of what can be read.
LEMMA ReadKept ==
  ASSUME IInv, [Next]_vars, guest' = guest, alive' => alive, NEW i \in Ids,
         \/ owned'[i] = NoRead
         \/ owned'[i] = Asked /\ Readable(i)
         \/ /\ owned'[i] = owned[i]
            /\ task.on = "owned" /\ task.id = i => task'.on = "owned" /\ task'.id = i
  PROVE  ReadSound(i)'
<1>1. NoRead.at = "none" /\ Asked.at = "asked"
  BY ConstantFacts
<1>2. CASE owned'[i] = NoRead
  BY <1>1, <1>2 DEF ReadSound
<1>3. CASE owned'[i] = Asked /\ Readable(i)
  BY <1>1, <1>3, ReadableStays DEF ReadSound
<1>4. CASE /\ owned'[i] = owned[i]
           /\ task.on = "owned" /\ task.id = i => task'.on = "owned" /\ task'.id = i
  <2> PICK seen : seen = owned[i].value
    OBVIOUS
  <2>1. ReadSound(i)
    BY OwnedIsReads DEF IInv
  <2>2. owned[i] # NoRead => Readable(i)'
    BY <2>1, ReadableStays DEF ReadSound
  <2>3. IsAttempt(seen) /\ Honest(seen) => Honest(seen)'
    BY StepFacts, OwnedFacts, SeenIsShown
  <2> QED
    BY <1>4, <2>1, <2>2, <2>3 DEF ReadSound, IsAttempt
<1> QED
  BY <1>2, <1>3, <1>4

\* The same for all reads.
LEMMA OwnedKept ==
  ASSUME IInv, [Next]_vars, guest' = guest, alive' => alive,
         \A i \in Ids :
           \/ owned'[i] = NoRead
           \/ owned'[i] = Asked /\ Readable(i)
           \/ /\ owned'[i] = owned[i]
              /\ task.on = "owned" /\ task.id = i => task'.on = "owned" /\ task'.id = i
  PROVE  OwnedSound'
<1>1. \A i \in Ids : ReadSound(i)'
  BY ReadKept
<1> QED
  BY <1>1 DEF OwnedSound, ReadSound, Readable

\* A new session keeps only the read the task waits for.
LEMMA OwnedBooted ==
  ASSUME IInv, [Next]_vars, SessionAnswered, CreateSession, Booted
  PROVE  OwnedSound'
<1>1. /\ boot \in {"create", "bootstrap"} /\ guest < guest' /\ guest \in Nat /\ guest' \in Nat
      /\ UNCHANGED owned /\ task' = ForsakeCurrent(task) /\ task \in Tasks
  <2>1. guest \in Nat /\ guest' \in Nat /\ task \in Tasks
    BY StepFacts
  <2>2. guest < guest'
    BY <2>1 DEF CreateSession
  <2>3. ~UNCHANGED service
    BY <2>1, <2>2 DEF service
  <2> QED
    BY <2>1, <2>2, <2>3 DEF SessionAnswered, Booted
<1>2. \A i \in Ids : owned[i] # NoRead => task.on = "owned" /\ task.id = i
  BY <1>1 DEF IInv, SessionSound
<1>3. boot = "bootstrap" => task.on # "owned"
  BY DEF IInv, SessionSound, TaskSound, Waiting
<1>4. task'.id = task.id /\ (task.on = "owned" => task'.on = "owned")
  BY <1>1, ForsakeCurrentFacts
<1>5. ASSUME NEW i \in Ids
      PROVE  ReadSound(i)'
  <2>1. CASE owned[i] = NoRead
    BY <1>1, <2>1, ConstantFacts DEF ReadSound
  <2>2. CASE owned[i] # NoRead
    <3>1. task.on = "owned" /\ task.id = i /\ boot = "create"
      BY <1>1, <1>2, <1>3, <2>2
    <3>2. Readable(i)
      BY <2>2, OwnedIsReads DEF IInv, ReadSound
    <3>3. Readable(i)' /\ i.guest < guest'
      BY <1>1, <3>2, ReadableStays, IdFacts DEF Readable
    <3>4. owned[i].at = "answered" => owned[i].value = AuthLost
      BY <3>1 DEF IInv, SessionSound
    <3> QED
      BY <1>1, <1>4, <3>1, <3>3, <3>4 DEF ReadSound
  <2> QED
    BY <2>1, <2>2
<1> QED
  BY <1>5 DEF OwnedSound, ReadSound, Readable

\* What an attempt's read says is true of the attempt, or that it is not ours.
LEMMA OwnedAnswered ==
  ASSUME IInv, [Next]_vars, NEW i \in Ids, AnswerOwned(i)
  PROVE  OwnedSound'
<1> PICK seen : seen = IF ~alive THEN AuthLost
                       ELSE IF i.guest = guest THEN Projection(i.slot) ELSE NoView
  OBVIOUS
<1>1. /\ owned[i] = Asked /\ owned' = [owned EXCEPT ![i] = [at |-> "answered", value |-> seen]]
      /\ UNCHANGED <<guest, alive, slot, attempts, task>>
  BY DEF AnswerOwned, service
<1>2. \A j \in Ids : owned'[j] = IF j = i THEN [at |-> "answered", value |-> seen] ELSE owned[j]
  BY <1>1 DEF IInv, Types, TypeOK
<1>3. Readable(i)
  BY <1>1, OwnedIsReads, ConstantFacts DEF IInv, ReadSound
<1>4. \/ seen = NoView
      \/ seen = AuthLost /\ ~alive
      \/ IsAttempt(seen) /\ IdOf(seen) = i /\ i.guest = guest /\ Honest(seen)
  <2>1. CASE alive /\ i.guest = guest
    <3>1. Exists(i.slot) /\ i.slot <= slot
      BY <1>3, <2>1 DEF Readable
    <3>2. i.slot \in Slots /\ i = [guest |-> i.guest, slot |-> i.slot]
      BY IdFacts DEF Ids
    <3>3. /\ seen.guest = guest /\ seen.slot = i.slot /\ IsAttempt(seen)
          /\ seen.version = attempts[i.slot].version /\ seen.state = attempts[i.slot].state
          /\ seen.last = attempts[i.slot].last /\ attempts[i.slot].version \in Nat
          /\ guest \in Nat
      BY <2>1, <3>1, <3>2, ProjectionFacts, RowFacts, StepFacts DEF Exists
    <3>4. Honest(seen)
      BY <3>1, <3>3 DEF Honest, Exists
    <3>5. IdOf(seen) = i
      BY <2>1, <3>2, <3>3 DEF IdOf
    <3> QED
      BY <2>1, <3>3, <3>4, <3>5
  <2>2. CASE ~(alive /\ i.guest = guest)
    BY <2>2
  <2> QED
    BY <2>1, <2>2
<1>5. Honest(seen) => Honest(seen)'
  BY <1>1 DEF Honest
<1>6. ReadSound(i)'
  <2>1. owned'[i].value = seen
    BY <1>2
  <2>2. Readable(i)'
    BY <1>3, ReadableStays
  <2> QED
    BY <1>1, <1>4, <1>5, <2>1, <2>2 DEF ReadSound, IsAttempt
<1>7. \A j \in Ids \ {i} : ReadSound(j)'
  BY <1>1, <1>2, ReadKept
<1> QED
  BY <1>6, <1>7 DEF OwnedSound, ReadSound, Readable

\* Every step keeps the reads of attempts sound.
LEMMA OwnedStep ==
  ASSUME IInv, [Next]_vars
  PROVE  OwnedSound'
<1>1. /\ task \in Tasks /\ task.op \in Ops /\ task.id \in Ids /\ pending \in Ops
      /\ owned \in [Ids -> Reads] /\ Idle.on = "nothing" /\ Idle \in Tasks
  BY StepFacts, ConstantFacts DEF IInv, Types, TypeOK, Tasks
<1>2. task.pc \notin Waiting => task.on = "nothing"
  BY DEF IInv, TaskSound
<1>3. CASE SessionAnswered /\ CreateSession /\ Booted
  BY <1>3, OwnedBooted
<1>4. CASE guest' = guest /\ (alive' => alive)
  <2>1. ASSUME UNCHANGED owned, task.on = "owned" => task'.on = "owned" /\ task'.id = task.id
        PROVE  OwnedSound'
    BY <1>4, <2>1, OwnedKept
  <2>2. ASSUME owned' = NoReads
        PROVE  OwnedSound'
    <3>1. \A i \in Ids : owned'[i] = NoRead
      BY <2>2 DEF NoReads
    <3> QED
      BY <1>4, <3>1, OwnedKept
  <2>3. ASSUME NEW t \in Tasks, LoseSession(t)
        PROVE  OwnedSound'
    BY <2>2, <2>3, LoseFacts
  \* The read of i is asked again; a task that waited for it is forsaken.
  <2>4. ASSUME NEW i \in Ids, Readable(i), owned' = [owned EXCEPT ![i] = Asked],
               task.on = "owned" /\ task.id # i => task'.on = "owned" /\ task'.id = task.id
        PROVE  OwnedSound'
    <3>1. \A j \in Ids : owned'[j] = IF j = i THEN Asked ELSE owned[j]
      BY <1>1, <2>4
    <3> QED
      BY <1>4, <2>4, <3>1, OwnedKept
  <2>5. ASSUME NEW i \in Ids, owned' = [owned EXCEPT ![i] = NoRead], task' = ForsakeOwned(task, {i})
        PROVE  OwnedSound'
    <3>1. \A j \in Ids : owned'[j] = IF j = i THEN NoRead ELSE owned[j]
      BY <1>1, <2>5
    <3>2. task'.id = task.id /\ (task.on = "owned" /\ task.id # i => task'.on = "owned")
      BY <1>1, <2>5, OneForsaken
    <3> QED
      BY <1>4, <3>1, <3>2, OwnedKept
  <2>6. CASE UNCHANGED vars \/ AnswerCurrent \/ SessionFails \/ World
    <3>1. UNCHANGED <<owned, task>>
      BY <2>6 DEF vars, page, AnswerCurrent, SessionFails, World
    <3> QED
      BY <2>1, <3>1
  <2>7. CASE Refresh
    BY <1>1, <2>1, <2>7, ForsakeCurrentFacts DEF Refresh
  <2>8. ASSUME NEW i \in Ids, AnswerOwned(i)
        PROVE  OwnedSound'
    BY <2>8, OwnedAnswered
  <2>9. CASE Deliver
    <3>1. task'.on = task.on /\ task'.id = task.id
      BY <1>1, <2>9 DEF Deliver, Tasks
    <3> QED
      BY <2>1, <2>9, <3>1 DEF Deliver
  <2>10. CASE HandleCurrent
    <3> PICK seen : seen = current.value
      OBVIOUS
    <3>1. current.at = "answered" /\ seen \in Seen /\ IdOf(seen) \in Ids
      BY <2>10, SeenIsShown, IdFacts DEF HandleCurrent, IInv, Types, TypeOK, Reads
    <3>2. CASE LoseSession(task)
      BY <1>1, <2>3, <3>2
    <3>3. CASE seen # AuthLost /\ IsAttempt(seen) /\ owned' = [owned EXCEPT ![IdOf(seen)] = Asked]
               /\ task' = IF task.on = "current" THEN Await(task, "owned", IdOf(seen))
                          ELSE ForsakeOwned(task, {IdOf(seen)})
      <4>1. Readable(IdOf(seen))
        <5>1. seen.guest = guest /\ seen.slot <= slot /\ Exists(seen.slot)
          BY <3>1, <3>3 DEF IInv, CurrentSound, IsAttempt
        <5> QED
          BY <5>1, StepFacts DEF Readable, IdOf
      <4>2. task.on = "owned" /\ task.id # IdOf(seen) => task'.on = "owned" /\ task'.id = task.id
        BY <1>1, <3>1, <3>3, OneForsaken
      <4> QED
        BY <2>4, <3>1, <3>3, <4>1, <4>2
    <3>4. CASE owned' = NoReads
      BY <2>2, <3>4
    <3>5. CASE task' = ForsakeCurrent(task) /\ UNCHANGED owned
      BY <1>1, <2>1, <3>5, ForsakeCurrentFacts
    <3> QED
      BY <2>10, <3>2, <3>3, <3>4, <3>5 DEF HandleCurrent
  <2>11. ASSUME NEW i \in Ids, HandleOwned(i)
         PROVE  OwnedSound'
    <3> DEFINE gone == Cancelled(owned[i].value)
    <3>1. gone \in SUBSET Ids /\ {i} \cup gone \in SUBSET Ids
      BY OwnedFacts, CancelledFacts
    <3>2. CASE LoseSession(task)
      BY <1>1, <2>3, <3>2
    <3>3. CASE owned' = [owned EXCEPT ![i] = NoRead] /\ task' = ForsakeOwned(task, {i})
      BY <2>5, <3>3
    <3>4. CASE /\ owned' = Without(owned, {i} \cup gone)
               /\ task' = IF task.on = "owned" /\ task.id = i THEN [task EXCEPT !.on = "seen"]
                          ELSE ForsakeOwned(task, gone)
      <4>1. \A j \in Ids : owned'[j] = IF j \in {i} \cup gone THEN NoRead ELSE owned[j]
        BY <1>1, <3>1, <3>4, WithoutFacts
      <4>2. task.on = "owned" /\ task.id \notin {i} \cup gone => task'.on = "owned" /\ task'.id = task.id
        BY <1>1, <3>1, <3>4, ForsakeOwnedFacts
      <4> HIDE DEF gone
      <4>3. \A j \in Ids :
              \/ owned'[j] = NoRead
              \/ /\ owned'[j] = owned[j]
                 /\ task.on = "owned" /\ task.id = j => task'.on = "owned" /\ task'.id = j
        BY <4>1, <4>2
      <4> QED
        BY <1>4, <4>3, OwnedKept
    <3> QED
      BY <2>11, <3>2, <3>3, <3>4 DEF HandleOwned
  <2>12. CASE ReadFails
    <3>1. CASE task' = ForsakeCurrent(task) /\ UNCHANGED owned
      BY <1>1, <2>1, <3>1, ForsakeCurrentFacts
    <3> QED
      BY <2>5, <2>12, <3>1 DEF ReadFails
  <2>13. CASE Reload \/ NewSession
    BY <2>2, <2>13 DEF Reload, NewSession
  <2>14. CASE SessionAnswered
    <3>1. CASE LoseSession(task)
      BY <1>1, <2>3, <3>1
    <3>2. CASE Booted
      BY <1>1, <2>1, <3>2, ForsakeCurrentFacts DEF Booted
    <3> QED
      BY <2>14, <3>1, <3>2 DEF SessionAnswered
  <2>15. CASE StartAttempt \/ SubmitCommand
    <3>1. task.pc = "idle" /\ UNCHANGED owned
      BY <2>15, NewOperation DEF StoredAnew
    <3> QED
      BY <1>2, <2>1, <3>1 DEF Waiting
  <2>16. CASE MutationSucceeds
    <3>1. task.on # "owned" /\ task.seen \in Seen
      BY <1>2, <2>16 DEF MutationSucceeds, Replied, Waiting, IInv, ReplySound
    <3>2. \A j \in Ids : owned'[j] = NoRead \/ owned'[j] = owned[j]
      BY <1>1, <2>16, <3>1, CancelledFacts, WithoutFacts DEF MutationSucceeds
    <3> QED
      BY <1>4, <3>1, <3>2, OwnedKept
  <2>17. CASE MutationUnauthenticated
    BY <1>1, <2>3, <2>17 DEF MutationUnauthenticated
  <2>18. CASE MutationRefused
    <3>1. task.pc = "sent" /\ task.on # "owned" /\ OpKnown(task.op)
      BY <1>2, <2>18 DEF MutationRefused, Replied, Waiting, IInv, TaskSound
    <3>2. CASE UNCHANGED owned
      BY <2>1, <3>1, <3>2
    <3>3. CASE /\ task.reply \in {"STALE_VERSION", "TERMINAL_ATTEMPT", "EVIDENCE_LIMIT"}
               /\ owned' = [owned EXCEPT ![IdOf(task.op)] = Asked]
      <4>1. task.op.kind # "START"
        BY <3>1, <3>3 DEF IInv, ReplySound
      <4> QED
        BY <1>1, <2>4, <3>1, <3>3, <4>1, CommandReadable
    <3> QED
      BY <2>18, <3>2, <3>3, RefusedFacts, StepFacts
  <2>19. CASE MutationUncertain \/ RefusalShown \/ StartReconciled \/ CommandReconciled
    <3>1. UNCHANGED owned /\ task.on # "owned"
      BY <1>2, <2>19 DEF MutationUncertain, RefusalShown, StartReconciled, CommandReconciled, Quiet,
        Waiting
    <3> QED
      BY <2>1, <3>1
  <2>20. CASE ReplayPending \/ ReconcilePending
    <3>1. PICK replay \in BOOLEAN : Recover(replay)
      BY <2>20 DEF ReplayPending, ReconcilePending
    <3>2. task.on # "owned" /\ pending # NoOp
      BY <1>2, <3>1 DEF Recover, Waiting
    <3>3. OpKnown(pending)
      BY <3>2 DEF IInv, TaskSound
    <3>4. CASE UNCHANGED owned
      BY <2>1, <3>2, <3>4
    <3>5. CASE pending.kind # "START" /\ owned' = [owned EXCEPT ![IdOf(pending)] = Asked]
      BY <1>1, <2>4, <3>2, <3>3, <3>5, CommandReadable
    <3> QED
      BY <3>1, <3>4, <3>5, RecoverFacts, StepFacts
  <2> QED
    BY <2>6, <2>7, <2>8, <2>9, <2>10, <2>11, <2>12, <2>13, <2>14, <2>15, <2>16, <2>17, <2>18, <2>19,
       <2>20
    DEF Next, PageEvent, Answers
<1> QED
  BY <1>3, <1>4, GuestStep

(***************************************************************************)
(* The screen                                                              *)
(***************************************************************************)
ViewSound(v) ==
  /\ v.guest <= guest /\ v.slot <= slot
  /\ v.state \in {"NOT_STARTED", "NO_CASE"} => v.guest = guest
  /\ v.state = "NO_CASE" => v.slot \notin Published
  /\ IsAttempt(v) /\ v.guest = guest => Exists(v.slot)

\* The intent op fits what the screen says of the case.
Fits(op, v) ==
  op.kind = "START" =>
    op.guest = guest /\ (v.state # "UNKNOWN" => v.guest = guest /\ op.slot <= v.slot)

\* The screen: the case, the attempt, and the intent beside them.
LEMMA ScreenParts ==
  ScreenSound <=> ViewSound(view) /\ (IsAttempt(shown) => Honest(shown)) /\ Fits(pending, view)
BY DEF ScreenSound, ViewSound, Fits

\* What the case said stays true of its slot.
LEMMA ViewStays ==
  ASSUME IInv, [Next]_vars, guest' = guest, NEW v \in Seen, ViewSound(v)
  PROVE  ViewSound(v)'
<1>1. /\ v.slot \in Nat /\ v.slot \in Slots /\ slot \in Nat /\ slot' \in Nat /\ slot <= slot'
      /\ \A s \in Slots : Exists(s) => Exists(s)'
  BY SeenIsShown, SeenFacts, StepFacts
<1>2. v.slot <= slot'
  BY <1>1 DEF ViewSound
<1>3. IsAttempt(v) /\ v.guest = guest => Exists(v.slot)'
  BY <1>1 DEF ViewSound
<1> QED
  BY <1>2, <1>3 DEF ViewSound, IsAttempt

\* A screen that shows something sound.
LEMMA ScreenShows ==
  ASSUME IInv, [Next]_vars, guest' = guest, NEW v \in Seen, view' = v, ViewSound(v),
         NEW seen \in Seen, shown' = seen, IsAttempt(seen) => Honest(seen),
         NEW op, pending' = op, Fits(op, v)
  PROVE  ScreenSound'
<1>1. ViewSound(v)' /\ (IsAttempt(seen) => Honest(seen)')
  BY ViewStays, StepFacts, SeenIsShown
<1>2. Fits(op, v)'
  BY DEF Fits
<1> QED
  BY <1>1, <1>2 DEF ScreenSound, ViewSound, Fits, IsAttempt

\* A new session shows nothing of the old one that could be taken for its own.
LEMMA ScreenBooted ==
  ASSUME IInv, [Next]_vars, SessionAnswered, CreateSession, Booted
  PROVE  ScreenSound'
<1>1. guest \in Nat /\ guest' \in Nat /\ slot' \in Nat /\ guest < guest' /\ slot' = slot
  BY StepFacts DEF CreateSession
<1>2. boot \in {"create", "bootstrap"} /\ UNCHANGED <<view, shown, pending>>
  <2>1. ~UNCHANGED service
    BY <1>1 DEF service
  <2> QED
    BY <2>1 DEF SessionAnswered, Booted
<1>3. view.state \notin {"NOT_STARTED", "NO_CASE"} /\ pending.kind # "START"
  BY <1>2, ConstantFacts DEF IInv, SessionSound
<1>4. view.guest \in Nat /\ view.slot \in Nat /\ view.guest <= guest /\ view.slot <= slot
  BY StepFacts, SeenFacts DEF IInv, ScreenSound
<1>5. view.guest <= guest' /\ view.guest # guest' /\ view.slot <= slot'
  BY <1>1, <1>4
<1> PICK seen : seen = shown
  OBVIOUS
<1>6. IsAttempt(seen) => Honest(seen)'
  <2>1. seen \in Shown /\ (IsAttempt(seen) => Honest(seen))
    BY StepFacts DEF IInv, ScreenSound
  <2> QED
    BY <2>1, StepFacts
<1> QED
  BY <1>2, <1>3, <1>5, <1>6 DEF ScreenSound, IsAttempt

\* Every step keeps the screen sound.
LEMMA ScreenStep ==
  ASSUME IInv, [Next]_vars
  PROVE  ScreenSound'
<1>1. /\ task \in Tasks /\ task.op \in Ops /\ pending \in Ops /\ Idle \in Tasks
      /\ view \in Seen /\ shown \in Seen /\ NoView \in Seen /\ NoView.state = "UNKNOWN"
      /\ NoOp.kind = "NONE"
  BY StepFacts, ConstantFacts
<1>2. ViewSound(view) /\ (IsAttempt(shown) => Honest(shown)) /\ Fits(pending, view)
  BY ScreenParts DEF IInv
<1>3. CASE SessionAnswered /\ CreateSession /\ Booted
  BY <1>3, ScreenBooted
<1>4. CASE guest' = guest /\ (alive' => alive)
  <2>1. ASSUME UNCHANGED <<view, shown>>, pending' = pending \/ pending' = NoOp
        PROVE  ScreenSound'
    <3>1. Fits(pending', view)
      BY <1>1, <1>2, <2>1 DEF Fits
    <3> QED
      BY <1>1, <1>2, <1>4, <2>1, <3>1, ScreenShows
  <2>2. ASSUME NEW t \in Tasks, LoseSession(t)
        PROVE  ScreenSound'
    BY <2>1, <2>2, LoseFacts
  <2>3. CASE UNCHANGED vars \/ Refresh \/ AnswerCurrent \/ (\E i \in Ids : AnswerOwned(i)) \/ Deliver
             \/ ReadFails \/ SessionFails \/ MutationRefused \/ MutationUncertain \/ RefusalShown
             \/ StartReconciled \/ CommandReconciled \/ World
    <3>1. UNCHANGED <<view, shown>> /\ (pending' = pending \/ pending' = NoOp)
      BY <2>3 DEF vars, page, Refresh, AnswerCurrent, AnswerOwned, Deliver, ReadFails, SessionFails,
        MutationRefused, MutationUncertain, RefusalShown, StartReconciled, CommandReconciled,
        ClearPending, World
    <3> QED
      BY <2>1, <3>1
  <2>4. CASE HandleCurrent
    <3> PICK seen : seen = current.value
      OBVIOUS
    <3>1. current.at = "answered" /\ seen \in Seen
      BY <2>4 DEF HandleCurrent, IInv, Types, TypeOK, Reads
    <3>2. CASE LoseSession(task)
      BY <1>1, <2>2, <3>2
    <3>3. CASE seen # AuthLost /\ view' = CaseOf(seen) /\ UNCHANGED <<shown, pending>>
      <4>1. /\ seen.guest = guest /\ seen.slot <= slot
            /\ IsAttempt(seen) => Exists(seen.slot)
            /\ seen.state = "NO_CASE" => seen.slot \notin Published
            /\ pending.kind = "START" => pending.slot <= seen.slot
        BY <3>1, <3>3 DEF IInv, CurrentSound, IsAttempt
      <4> PICK v : v = CaseOf(seen)
        OBVIOUS
      <4>2. v \in Seen /\ v.guest = guest /\ v.slot = seen.slot /\ v.state = seen.state
        BY <3>1, <4>1, CaseFacts
      <4>3. guest \in Nat
        BY StepFacts
      <4>4. ViewSound(v)
        BY <4>1, <4>2, <4>3 DEF ViewSound, IsAttempt
      <4>5. Fits(pending, v)
        BY <1>2, <4>1, <4>2 DEF Fits
      <4> QED
        BY <1>1, <1>2, <1>4, <3>3, <4>2, <4>4, <4>5, ScreenShows
    <3> QED
      BY <2>4, <3>2, <3>3 DEF HandleCurrent
  <2>5. ASSUME NEW seen \in Seen, IsAttempt(seen), Honest(seen), shown' = seen,
               view' = ViewWith(view, seen), pending' = pending \/ pending' = NoOp
        PROVE  ScreenSound'
    <3> PICK v : v = ViewWith(view, seen)
      OBVIOUS
    <3>1. /\ v \in Seen /\ v.guest = view.guest /\ v.slot = view.slot
          /\ v = view \/ (IsAttempt(view) /\ v.state = seen.state)
      BY <1>1, <2>5, ViewFacts
    <3>2. ViewSound(v)
      BY <1>2, <2>5, <3>1 DEF ViewSound, IsAttempt, Finished
    <3>3. Fits(pending', v)
      BY <1>1, <1>2, <2>5, <3>1 DEF Fits, IsAttempt, Finished
    <3> QED
      BY <1>1, <1>4, <2>5, <3>1, <3>2, <3>3, ScreenShows
  <2>6. ASSUME NEW i \in Ids, HandleOwned(i)
        PROVE  ScreenSound'
    <3> PICK seen : seen = owned[i].value
      OBVIOUS
    <3>1. owned[i].at = "answered" /\ seen \in Seen
      BY <2>6, OwnedFacts DEF HandleOwned
    <3>2. CASE LoseSession(task)
      BY <1>1, <2>2, <3>2
    <3>3. CASE seen = NoView /\ UNCHANGED <<pending, view, shown>>
      BY <2>1, <3>3
    <3>4. CASE /\ IsAttempt(seen) /\ shown' = seen /\ view' = ViewWith(view, seen)
               /\ UNCHANGED pending
      <4>1. seen # NoView /\ seen # AuthLost
        BY <3>4, ConstantFacts DEF IsAttempt, Finished
      <4>2. Honest(seen)
        BY <3>1, <4>1, OwnedIsReads DEF IInv, ReadSound
      <4> QED
        BY <2>5, <3>1, <3>4, <4>2
    <3> QED
      BY <2>6, <3>2, <3>3, <3>4 DEF HandleOwned
  <2>7. CASE Reload \/ NewSession
    <3>1. /\ view' = NoView /\ shown' = NoView /\ (pending' = pending \/ pending' = NoOp)
      BY <2>7 DEF Reload, NewSession
    <3>2. NoView.guest = 0 /\ NoView.slot = 0 /\ ~IsAttempt(NoView)
      BY DEF NoView, IsAttempt, Finished
    <3>3. ViewSound(NoView)
      BY <1>1, <3>2, StepFacts DEF ViewSound
    <3>4. Fits(pending', NoView)
      BY <1>1, <1>2, <3>1 DEF Fits
    <3> QED
      BY <1>1, <1>4, <3>1, <3>2, <3>3, <3>4, ScreenShows
  <2>8. CASE SessionAnswered
    <3>1. CASE LoseSession(task)
      BY <1>1, <2>2, <3>1
    <3>2. CASE Booted
      BY <2>1, <3>2 DEF Booted
    <3> QED
      BY <2>8, <3>1, <3>2 DEF SessionAnswered
  <2>9. CASE StartAttempt \/ SubmitCommand
    <3>1. /\ UNCHANGED <<view, shown>>
          /\ pending'.kind = "START" =>
               view.state = "NOT_STARTED" /\ pending'.guest = view.guest /\ pending'.slot = view.slot
      BY <2>9, NewOperation DEF StoredAnew, Commands
    <3>2. view.slot \in Nat
      BY StepFacts, SeenFacts
    <3>3. Fits(pending', view)
      BY <1>2, <3>1, <3>2 DEF Fits, ViewSound
    <3> QED
      BY <1>1, <1>2, <1>4, <3>1, <3>3, ScreenShows
  <2>10. CASE MutationSucceeds
    <3> PICK seen : seen = task.seen
      OBVIOUS
    <3>1. /\ pending' = NoOp /\ shown' = seen
          /\ view' = IF task.op.kind = "START" THEN CaseOf(seen) ELSE ViewWith(view, seen)
          /\ task.pc = "sent" /\ task.reply \in {"APPLIED", "REPLAYED"}
      BY <2>10 DEF MutationSucceeds, Replied
    <3>2. seen \in Seen /\ IsAttempt(seen) /\ Honest(seen)
      BY <3>1 DEF IInv, ReplySound
    <3>3. CASE view' = CaseOf(seen)
      <4> PICK v : v = CaseOf(seen)
        OBVIOUS
      <4>1. v \in Seen /\ v.guest = seen.guest /\ v.slot = seen.slot /\ v.state = seen.state
        BY <3>2, CaseFacts
      <4>2. v.guest <= guest /\ v.slot <= slot /\ (v.guest = guest => Exists(v.slot))
        BY <3>2, <4>1 DEF Honest, Exists
      <4>3. v.state \notin {"NOT_STARTED", "NO_CASE"}
        BY <3>2, <4>1 DEF IsAttempt, Finished
      <4>4. ViewSound(v) /\ Fits(NoOp, v)
        BY <1>1, <4>2, <4>3 DEF ViewSound, Fits
      <4> QED
        BY <1>4, <3>1, <3>2, <3>3, <4>1, <4>4, ScreenShows
    <3>4. CASE view' = ViewWith(view, seen)
      BY <2>5, <3>1, <3>2, <3>4
    <3> QED
      BY <3>1, <3>3, <3>4
  <2>11. CASE MutationUnauthenticated
    BY <1>1, <2>2, <2>11 DEF MutationUnauthenticated
  <2>12. CASE ReplayPending \/ ReconcilePending
    BY <2>1, <2>12 DEF ReplayPending, ReconcilePending, Recover
  <2> QED
    BY <2>3, <2>4, <2>6, <2>7, <2>8, <2>9, <2>10, <2>11, <2>12 DEF Next, PageEvent, Answers
<1> QED
  BY <1>3, <1>4, GuestStep

(***************************************************************************)
(* The invariant                                                           *)
(***************************************************************************)
LEMMA InitTypes == Init => Types
<1> SUFFICES ASSUME Init PROVE Types
  OBVIOUS
<1>1. /\ guest = 0 /\ alive = TRUE /\ slot = 0 /\ attempts = NoAttempts /\ receipts = {}
  BY DEF Init, ServiceInit
<1>2. NoAttempts \in [Slots -> Rows]
  BY ServiceAssumption DEF NoAttempts, Rows
<1>3. ServiceTypes
  BY <1>1, <1>2, ServiceAssumption DEF ServiceTypes
<1>4. PageTypes
  <2>1. /\ pending \in Ops /\ view \in Seen /\ shown \in Seen /\ current \in Reads
        /\ owned \in [Ids -> Reads] /\ task \in Tasks
    BY ConstantFacts DEF Init
  <2>2. status \in Statuses /\ mutation \in Mutations /\ boot \in Boots /\ ready \in BOOLEAN
    BY DEF Init, Statuses, Mutations, Boots
  <2>3. net \subseteq Messages
    BY DEF Init
  <2>4. intents \in 0..MaxIntents /\ faults \in 0..MaxFaults
    BY BoundsAssumption DEF Init
  <2> QED
    BY <2>1, <2>2, <2>3, <2>4 DEF PageTypes
<1> QED
  BY <1>3, <1>4, TypesJoin

\* The page starts in the invariant.
LEMMA InitIInv == Init => IInv
<1> SUFFICES ASSUME Init PROVE IInv
  OBVIOUS
<1>1. Types
  BY InitTypes
<1>2. /\ guest = 0 /\ slot = 0 /\ attempts = NoAttempts /\ receipts = {} /\ net = {}
      /\ pending = NoOp /\ status = "HYDRATING" /\ ready = FALSE /\ view = NoView
      /\ shown = NoView /\ boot = "bootstrap" /\ current = NoRead /\ owned = NoReads /\ task = Idle
  BY DEF Init, ServiceInit
<1>3. /\ Idle.pc = "idle" /\ Idle.on = "nothing" /\ NoRead.at = "none" /\ NoOp.kind = "NONE"
      /\ NoView.state = "UNKNOWN" /\ NoView.guest = 0 /\ NoView.slot = 0 /\ NoOp \in Ops
  BY ConstantFacts DEF NoView
<1>4. \A i \in Ids : owned[i] = NoRead
  BY <1>2 DEF NoReads
<1>5. ServiceSound
  BY <1>2 DEF ServiceSound, Playing, NoAttempts
<1>6. WireSound /\ TaskSound /\ ReplySound /\ SentIsStored /\ AwaitsSomething
  BY <1>2, <1>3 DEF WireSound, TaskSound, ReplySound, SentIsStored, AwaitsSomething, Waiting,
    Recoveries
<1>7. SessionSound
  BY <1>2, <1>3, <1>4 DEF SessionSound
<1>8. CurrentSound /\ OwnedSound
  BY <1>2, <1>3, <1>4 DEF CurrentSound, OwnedSound
<1>9. ScreenSound
  BY <1>2, <1>3 DEF ScreenSound, IsAttempt, Finished
<1> QED
  BY <1>1, <1>5, <1>6, <1>7, <1>8, <1>9 DEF IInv

\* Every step keeps the invariant.
LEMMA NextIInv == IInv /\ [Next]_vars => IInv'
<1> SUFFICES ASSUME IInv, [Next]_vars PROVE IInv'
  OBVIOUS
<1>1. Types' /\ ServiceSound'
  BY StepFacts
<1>2. WireSound' /\ TaskSound' /\ ReplySound' /\ SentIsStored' /\ AwaitsSomething'
  BY WireStep, TaskStep, ReplyStep, AwaitsStep
<1>3. SessionSound' /\ CurrentSound' /\ OwnedSound' /\ ScreenSound'
  BY PageSessionStep, CurrentStep, OwnedStep, ScreenStep
<1> QED
  BY <1>1, <1>2, <1>3 DEF IInv

\* The page, the requests and reads under way, and the backend agree at every
\* moment, whatever is lost, late, repeated or reloaded.
THEOREM WebInvariant == Spec => []IInv
BY InitIInv, NextIInv, PTL DEF Spec

\* The controller's state keeps its types.
THEOREM WebTypeOK == Spec => []TypeOK
<1>1. IInv => TypeOK
  BY DEF IInv, Types
<1> QED
  BY <1>1, WebInvariant, PTL

\* A request on the wire is the intent in sessionStorage until it is answered,
\* so a reload (GameController.initialize) always knows what may have happened.
THEOREM WebSentIsStored == Spec => []SentIsStored
<1>1. IInv => SentIsStored
  BY DEF IInv
<1> QED
  BY <1>1, WebInvariant, PTL

\* The controller waits only for reads that are in flight: an aborted or failed
\* read (LatestRead) never leaves its caller behind.
THEOREM WebAwaitsSomething == Spec => []AwaitsSomething
<1>1. IInv => AwaitsSomething
  BY DEF IInv
<1> QED
  BY <1>1, WebInvariant, PTL

\* One intention of the player acts at most once, however often its request is
\* sent: replays carry the stored idempotency key.
THEOREM WebIntentActsOnce == Spec => []IntentActsOnce
<1>1. IInv => IntentActsOnce
  <2> SUFFICES ASSUME IInv, NEW r \in receipts, NEW q \in receipts, r.key[1] = q.key[1]
               PROVE  r = q
    BY DEF IntentActsOnce
  <2>1. r.key \in Keys /\ q.key \in Keys
    BY DEF IInv, Types, Receipts
  <2>2. r.key = <<r.key[1], 0>> /\ q.key = <<q.key[1], 0>>
    BY <2>1 DEF Keys
  <2> QED
    BY <2>2 DEF IInv, ServiceSound
<1> QED
  BY <1>1, WebInvariant, PTL

\* A command the page has forgotten can do nothing any more: the reasons to
\* forget it (an answer, a proof that it came true, a lost session) all make the
\* copies still under way harmless.
THEOREM WebForgottenCommandsAreDead == Spec => []ForgottenCommandsAreDead
<1>1. IInv => ForgottenCommandsAreDead
  <2> SUFFICES ASSUME IInv, NEW m \in net, m.op.kind # "START", m.op.id # pending.id
               PROVE  Outcome(m) # "APPLIED"
    BY DEF ForgottenCommandsAreDead
  <2>1. m.op \in Ops /\ OpKnown(m.op)
    BY DEF IInv, Types, Messages, WireSound
  <2>2. m.op.kind \in Commands
    BY <2>1 DEF Ops, OpKnown, Commands
  <2>3. ~Alive(m.op)
    BY <2>2 DEF IInv, WireSound
  <2> QED
    BY <2>2, <2>3, OutcomeFacts DEF IInv
<1> QED
  BY <1>1, WebInvariant, PTL

\* The backend as the page meets it only moves forward: within a guest's session
\* receipts stay, versions never fall and a finished attempt is final.
THEOREM WebServiceProgress == Spec => [][Progress]_vars
<1>1. IInv /\ [Next]_vars => [Progress]_vars
  BY StepFacts
<1> QED
  BY <1>1, WebInvariant, PTL DEF Spec

(***************************************************************************)
(* Reconciliation                                                          *)
(***************************************************************************)
Reconciled ==
  /\ task.pc \in Recoveries /\ pending # NoOp
  /\ pending' = NoOp /\ status' \in {"READY", "READ_ERROR"}

\* #reconcilePending of a START.
LEMMA StartFulfilled ==
  ASSUME IInv, StartReconciled, Reconciled
  PROVE  Fulfilled(pending)
<1>1. task.pc = "startRecovery" /\ status # "SESSION_LOST" /\ startIsSettled(task.op, view)
  BY DEF StartReconciled, Reconciled
<1>2. pending = task.op /\ pending.kind = "START"
  BY <1>1 DEF IInv, TaskSound, Recoveries
<1>3. view.state # "UNKNOWN"
  BY <1>1 DEF startIsSettled, IsAttempt, Finished
<1>4. view.guest = guest /\ pending.slot <= view.slot /\ view.slot <= slot
  BY <1>2, <1>3 DEF IInv, ScreenSound
<1>5. view.slot \in Nat /\ pending.slot \in Nat /\ slot \in Nat
  BY SeenFacts, SeenIsShown, OpFacts, ServiceAssumption DEF IInv, Types, TypeOK
<1>6. CASE pending.slot = view.slot
  <2>1. IsAttempt(view) => Exists(pending.slot)
    BY <1>4, <1>6 DEF IInv, ScreenSound
  <2>2. view.state = "NO_CASE" => pending.slot \notin Published
    BY <1>6 DEF IInv, ScreenSound
  <2> QED
    BY <1>1, <1>2, <1>6, <2>1, <2>2 DEF startIsSettled, Fulfilled, Exists
<1>7. CASE pending.slot # view.slot
  <2>1. slot # pending.slot
    BY <1>4, <1>5, <1>7
  <2> QED
    BY <1>2, <2>1 DEF Fulfilled
<1> QED
  BY <1>6, <1>7

\* #reconcilePending of a command.
LEMMA CommandFulfilled ==
  ASSUME IInv, CommandReconciled, Reconciled
  PROVE  Fulfilled(pending)
<1>1. /\ task.pc = "commandRecovery" /\ status # "SESSION_LOST"
      /\ task.on = "seen" /\ commandOutcomeIsProven(task.op, shown)
  BY DEF CommandReconciled, Reconciled
<1>2. pending = task.op /\ task.id = IdOf(task.op)
  BY <1>1 DEF IInv, TaskSound, Recoveries
<1>3. IsAttempt(shown) /\ IdOf(shown) = IdOf(pending) /\ shown.guest = guest
  BY <1>1, <1>2 DEF IInv, TaskSound
<1>4. shown.slot = pending.slot
  BY <1>3 DEF IdOf
<1>5. shown.state \in Finished =>
        attempts[pending.slot].state = shown.state /\ attempts[pending.slot].last = shown.last
  BY <1>3, <1>4 DEF IInv, ScreenSound, Honest
<1> QED
  BY <1>1, <1>2, <1>5 DEF commandOutcomeIsProven, Fulfilled, Finished

\* Nothing else forgets an intent while its recovery is under way, but the end
\* of the session.
LEMMA OnlyReconciled ==
  ASSUME IInv, [Next]_vars, Reconciled
  PROVE  StartReconciled \/ CommandReconciled
<1>1. Idle \in Tasks /\ task \in Tasks
  BY ConstantFacts, StepFacts
<1>2. ~UNCHANGED pending
  BY DEF Reconciled
<1>3. \A t \in Tasks : ~LoseSession(t)
  BY LoseFacts DEF Reconciled
<1>4. ~(UNCHANGED vars \/ Refresh \/ AnswerCurrent \/ (\E i \in Ids : AnswerOwned(i)) \/ Deliver
        \/ ReadFails \/ Reload \/ SessionFails \/ MutationUncertain \/ RefusalShown \/ World)
  BY <1>2 DEF vars, Refresh, AnswerCurrent, AnswerOwned, Deliver, ReadFails, Reload, SessionFails,
    MutationUncertain, RefusalShown, World
<1>5. ~HandleCurrent /\ ~(\E i \in Ids : HandleOwned(i)) /\ ~MutationUnauthenticated
  BY <1>1, <1>2, <1>3 DEF HandleCurrent, HandleOwned, MutationUnauthenticated
<1>6. ~SessionAnswered
  BY <1>1, <1>2, <1>3 DEF SessionAnswered, Booted
<1>7. ~NewSession /\ ~MutationSucceeds /\ ~MutationRefused
  BY DEF Reconciled, Recoveries, NewSession, MutationSucceeds, MutationRefused, Replied
<1>8. ~(StartAttempt \/ SubmitCommand)
  BY NewOperation DEF StoredAnew, Reconciled
<1>9. ~(ReplayPending \/ ReconcilePending)
  BY <1>2 DEF ReplayPending, ReconcilePending, Recover
<1> QED
  BY <1>4, <1>5, <1>6, <1>7, <1>8, <1>9 DEF Next, PageEvent, Answers

\* Reconciliation forgets an intent only when it came true or never can:
\* commandOutcomeIsProven and the settling of a START never guess.
THEOREM WebReconciledIsFulfilled == Spec => ReconciledIsFulfilled
<1>1. IInv /\ [Next]_vars =>
        [task.pc \in {"startRecovery", "commandRecovery"} /\ pending # NoOp
           /\ pending' = NoOp /\ status' \in {"READY", "READ_ERROR"} => Fulfilled(pending)]_vars
  BY OnlyReconciled, StartFulfilled, CommandFulfilled DEF Reconciled, Recoveries
<1> QED
  BY <1>1, WebInvariant, PTL DEF Spec, ReconciledIsFulfilled
=============================================================================
