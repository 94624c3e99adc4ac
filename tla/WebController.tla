---------------------------- MODULE WebController ----------------------------
(***************************************************************************)
(* One browser tab's GameController.  JavaScript runs to completion, so an *)
(* action is everything one event sets off until the next await.  A read   *)
(* is in flight at most once per LatestRead: run(true) and cancel() abort  *)
(* the one before, whose caller goes on empty-handed.  At most one         *)
(* mutation or recovery runs (#mutationInFlight, #recoveryInProgress): it  *)
(* is "task", and it may wait for a read.                                  *)
(***************************************************************************)
EXTENDS PlayService

CONSTANTS MaxIntents,   \* bound on the actions the player takes
          MaxFaults     \* bound on disturbances: lost or failed responses,
                        \* reloads, moves in another tab, the session's end

ASSUME BoundsAssumption == MaxIntents \in Nat /\ MaxFaults \in Nat

VARIABLES pending,    \* the intent in sessionStorage; survives a reload
          status, mutation, ready,
          view,       \* state.currentCase
          shown,      \* state.displayedAttempt
          boot,       \* the request initialize() awaits
          current,    \* the read of #currentRead in flight
          owned,      \* the reads of #ownedReads in flight, by attempt
          task,       \* the mutation or recovery under way
          net,        \* copies of mutation requests on their way to the server
          intents, faults

page == <<status, mutation, ready, view, shown, boot, current, owned, task>>
vars == <<service, page, pending, net, intents, faults>>

Ids == [guest : Guests, slot : Slots]
IdOf(seen) == [guest |-> seen.guest, slot |-> seen.slot]
NoView == [guest |-> 0, slot |-> 0, state |-> "UNKNOWN", version |-> 0, last |-> None]
AuthLost == [NoView EXCEPT !.state = "AUTHENTICATION_REQUIRED"]
\* What the rules look at in state.currentCase.
CaseOf(seen) == [NoView EXCEPT !.guest = seen.guest, !.slot = seen.slot,
                               !.state = seen.state]
IsAttempt(seen) == seen.state \in Finished \cup {"ACTIVE"}

NoRead == [at |-> "none", value |-> NoView]
Asked == [at |-> "asked", value |-> NoView]
NoReads == [i \in Ids |-> NoRead]

NoOp == [id |-> 0, kind |-> "NONE", entity |-> None, guest |-> 0, slot |-> 0,
         version |-> 0]
Idle == [pc |-> "idle", op |-> NoOp, copy |-> 0, replay |-> FALSE,
         on |-> "nothing", id |-> IdOf(NoView), reply |-> "none", seen |-> NoView]

\* A slip: every send draws a key of its own.
FreshKey(op, copy) == <<op.id, copy>>

\* The key a copy of the operation carries: the stored one, on every replay.
IdempotencyKey(op, copy) == <<op.id, 0>>

Message(op) == [op |-> op, copy |-> faults, guest |-> guest,
                key |-> IdempotencyKey(op, faults)]

Init ==
  /\ ServiceInit
  /\ pending = NoOp /\ net = {} /\ intents = 0 /\ faults = 0
  /\ status = "HYDRATING" /\ mutation = "IDLE" /\ ready = FALSE
  /\ view = NoView /\ shown = NoView /\ boot = "bootstrap"
  /\ current = NoRead /\ owned = NoReads /\ task = Idle

Waiting == {"startRecovery", "commandRecovery", "stale", "noted"}
Fault == faults < MaxFaults /\ faults' = faults + 1

\* The task's await is over, so its continuation runs before any other event.
Quiet == ~(task.pc \in Waiting /\ task.on \in {"nothing", "seen"})


\* A slip: an aborted read never settles the promise its caller awaits.
leaveWaiting(t, kind, ids) == t

\* A task whose read was aborted or has failed goes on with nothing.
Forsake(t, kind, ids) ==
  IF t.on = kind /\ t.id \in ids THEN [t EXCEPT !.on = "nothing"] ELSE t

ForsakeCurrent(t) == Forsake(t, "current", Ids)
ForsakeOwned(t, ids) == Forsake(t, "owned", ids)
ForsakeAll(t) == ForsakeCurrent(ForsakeOwned(t, Ids))

Await(t, kind, id) == [t EXCEPT !.on = kind, !.id = id]

(***************************************************************************)
(* State updates the handlers share                                        *)
(***************************************************************************)
\* #handleSessionLoss, with what the task becomes.
LoseSession(t) ==
  /\ pending' = NoOp
  /\ status' = "SESSION_LOST" /\ mutation' = "IDLE" /\ ready' = FALSE
  /\ boot' = "off" /\ current' = NoRead /\ owned' = NoReads
  /\ task' = ForsakeAll(t)
  /\ UNCHANGED <<view, shown>>

\* #applyAttempt's change of currentCase.
ViewWith(v, seen) ==
  IF IsAttempt(v) /\ IdOf(v) = IdOf(seen) THEN CaseOf(seen) ELSE v

\* #applyAttempt's #cancelOwnedReads: a finished attempt aborts the others.
Cancelled(seen) == IF seen.state = "ACTIVE" THEN {} ELSE Ids \ {IdOf(seen)}
Without(reads, ids) == [i \in Ids |-> IF i \in ids THEN NoRead ELSE reads[i]]

\* Puts a copy of the operation on the wire (#executeMutation up to its await).
Transmit(op) ==
  /\ net' = net \cup {Message(op)}
  /\ task' = [Idle EXCEPT !.pc = "sent", !.op = op, !.copy = faults]
  /\ mutation' = "IN_FLIGHT"

(***************************************************************************)
(* Reads                                                                   *)
(***************************************************************************)
\* Focus, visibility, the rollover timer and the Retry button all end here:
\* refreshCurrentCase(true), which does nothing until the session is ready.
Refresh ==
  /\ Quiet /\ ready /\ status # "SESSION_LOST"
  /\ current' = Asked
  /\ task' = ForsakeCurrent(task)
  /\ UNCHANGED <<service, pending, status, mutation, ready, view, shown, boot,
                 owned, net, intents, faults>>

AnswerCurrent ==
  /\ current = Asked
  /\ current' = [at |-> "answered", value |-> IF alive THEN CaseOf(CurrentCase) ELSE AuthLost]
  /\ UNCHANGED <<service, pending, status, mutation, ready, view, shown, boot,
                 owned, task, net, intents, faults>>

AnswerOwned(i) ==
  /\ owned[i] = Asked
  /\ owned' = [owned EXCEPT ![i] = [at |-> "answered", value |->
       IF ~alive THEN AuthLost
       ELSE IF i.guest = guest THEN Projection(i.slot) ELSE NoView]]
  /\ UNCHANGED <<service, pending, status, mutation, ready, view, shown, boot,
                 current, task, net, intents, faults>>

\* refreshCurrentCase after its await: an attempt is read again by its id.
HandleCurrent ==
  LET seen == current.value
      i == IdOf(seen)
  IN /\ Quiet /\ current.at = "answered"
     /\ \/ seen = AuthLost /\ LoseSession(task)
        \/ /\ seen # AuthLost
           /\ view' = CaseOf(seen) /\ status' = "READY" /\ current' = NoRead
           /\ \/ /\ IsAttempt(seen)
                 /\ owned' = [owned EXCEPT ![i] = Asked]
                 /\ task' = IF task.on = "current" THEN Await(task, "owned", i)
                            ELSE ForsakeOwned(task, {i})
              \/ /\ seen.state = "NO_CASE"
                 /\ owned' = NoReads /\ task' = ForsakeAll(task)
              \/ /\ seen.state = "NOT_STARTED"
                 /\ task' = ForsakeCurrent(task) /\ UNCHANGED owned
           /\ UNCHANGED <<pending, mutation, ready, shown, boot>>
     /\ UNCHANGED <<service, net, intents, faults>>

\* #refreshOwnedAttempt after its await.
HandleOwned(i) ==
  LET seen == owned[i].value
      awaited == task.on = "owned" /\ task.id = i
  IN /\ Quiet /\ owned[i].at = "answered"
     /\ \/ seen = AuthLost /\ LoseSession(task)
        \/ /\ seen = NoView       \* the attempt is another guest's: not found
           /\ status' = "READ_ERROR" /\ owned' = [owned EXCEPT ![i] = NoRead]
           /\ task' = ForsakeOwned(task, {i})
           /\ UNCHANGED <<pending, mutation, ready, view, shown, boot, current>>
        \/ /\ IsAttempt(seen)
           /\ shown' = seen /\ view' = ViewWith(view, seen)
           /\ owned' = Without(owned, {i} \cup Cancelled(seen))
           /\ task' = IF awaited THEN [task EXCEPT !.on = "seen"]
                      ELSE ForsakeOwned(task, Cancelled(seen))
           /\ UNCHANGED <<pending, status, mutation, ready, boot, current>>
     /\ UNCHANGED <<service, net, intents, faults>>

\* requestReadWithRetry gives up: #handleReadFailure.
ReadFails ==
  /\ Quiet /\ Fault
  /\ \/ /\ current # NoRead /\ current' = NoRead
        /\ task' = ForsakeCurrent(task) /\ UNCHANGED owned
     \/ \E i \in Ids :
          /\ owned[i] # NoRead /\ owned' = [owned EXCEPT ![i] = NoRead]
          /\ task' = ForsakeOwned(task, {i}) /\ UNCHANGED current
  /\ status' = "READ_ERROR"
  /\ UNCHANGED <<service, pending, mutation, ready, view, shown, boot, net, intents>>

(***************************************************************************)
(* initialize                                                              *)
(***************************************************************************)
\* A reload rebuilds the page from the intent in sessionStorage.
Reload ==
  /\ Fault
  /\ status' = "HYDRATING" /\ mutation' = "IDLE" /\ ready' = FALSE
  /\ view' = NoView /\ shown' = NoView
  /\ boot' = IF pending = NoOp THEN "bootstrap" ELSE "resume"
  /\ current' = NoRead /\ owned' = NoReads /\ task' = Idle
  /\ UNCHANGED <<service, pending, net, intents>>

\* initialize(true), offered once the session is lost.
NewSession ==
  /\ Quiet /\ status = "SESSION_LOST"
  /\ status' = "HYDRATING" /\ mutation' = "IDLE" /\ ready' = FALSE
  /\ view' = NoView /\ shown' = NoView /\ boot' = "create"
  /\ pending' = NoOp
  /\ current' = NoRead /\ owned' = NoReads /\ task' = ForsakeAll(task)
  /\ UNCHANGED <<service, net, intents, faults>>

\* The session answered: the stored intent is uncertain until it is settled.
Booted ==
  /\ ready' = TRUE /\ boot' = "off"
  /\ mutation' = IF pending = NoOp THEN "IDLE" ELSE "UNCERTAIN"
  /\ current' = Asked /\ task' = ForsakeCurrent(task)
  /\ UNCHANGED <<pending, status, view, shown, owned>>

\* A session is created at once when none is alive, unless an intent is
\* stored: then the player must first give the old identity up.
SessionAnswered ==
  /\ Quiet
  /\ \/ /\ boot = "create" \/ (boot = "bootstrap" /\ ~alive)
        /\ CreateSession /\ Booted
     \/ boot \in {"bootstrap", "resume"} /\ alive /\ Booted /\ UNCHANGED service
     \/ boot = "resume" /\ ~alive /\ LoseSession(task) /\ UNCHANGED service
  /\ UNCHANGED <<net, intents, faults>>

SessionFails ==
  /\ Quiet /\ boot # "off" /\ Fault
  /\ boot' = "off" /\ status' = "READ_ERROR"
  /\ UNCHANGED <<service, pending, mutation, ready, view, shown, current, owned,
                 task, net, intents>>

(***************************************************************************)
(* Mutations                                                               *)
(***************************************************************************)
\* A slip: sent, and stored only with the answer.
SendUnstored(op) ==
  /\ Quiet /\ task.pc = "idle" /\ pending = NoOp
  /\ intents' = op.id /\ Transmit(op)
  /\ UNCHANGED <<service, pending, status, ready, view, shown, boot, current,
                 owned, faults>>

\* #runNewMutation: stored first, then sent.
RunNewMutation(op) ==
  /\ Quiet /\ task.pc = "idle" /\ pending = NoOp
  /\ pending' = op /\ intents' = op.id
  /\ Transmit(op)
  /\ UNCHANGED <<service, status, ready, view, shown, boot, current, owned, faults>>

\* The buttons CurrentCaseView offers: none on the loading, lost-session and
\* error cards, and none while mutationIsBlocking.
Playable == status = "READY" /\ mutation \notin {"IN_FLIGHT", "UNCERTAIN"}

StartAttempt ==
  /\ Playable /\ view.state = "NOT_STARTED" /\ intents < MaxIntents
  /\ RunNewMutation([NoOp EXCEPT !.id = intents + 1, !.kind = "START",
                                 !.guest = view.guest, !.slot = view.slot])

SubmitCommand ==
  /\ Playable /\ view.state = "ACTIVE" /\ intents < MaxIntents
  /\ shown.state = "ACTIVE"
  /\ \E kind \in {"GUESS", "REVEAL", "GIVE_UP"} :
       \E entity \in IF kind = "GUESS" THEN Entities ELSE {None} :
         RunNewMutation([id |-> intents + 1, kind |-> kind, entity |-> entity,
                         guest |-> shown.guest, slot |-> shown.slot,
                         version |-> shown.version])

\* A copy reaches the server, perhaps long after the browser gave it up.
Deliver ==
  \E m \in net :
    /\ Serve(m)
    /\ net' = net \ {m}
    /\ task' = IF task.pc = "sent" /\ task.op = m.op /\ task.copy = m.copy
               THEN [task EXCEPT !.reply = Outcome(m), !.seen = AnswerTo(m)]
               ELSE task
    /\ UNCHANGED <<guest, alive, slot, pending, status, mutation, ready, view,
                   shown, boot, current, owned, intents, faults>>

Replied(outcomes) == Quiet /\ task.pc = "sent" /\ task.reply \in outcomes

MutationSucceeds ==
  LET seen == task.seen
  IN /\ Replied({"APPLIED", "REPLAYED"})
     /\ pending' = NoOp /\ mutation' = "IDLE" /\ status' = "READY"
     /\ view' = IF task.op.kind = "START" THEN CaseOf(seen) ELSE ViewWith(view, seen)
     /\ shown' = seen
     /\ owned' = Without(owned, Cancelled(seen))
     /\ task' = Idle
     /\ UNCHANGED <<service, ready, boot, current, net, intents, faults>>

MutationUnauthenticated ==
  /\ Replied({"AUTHENTICATION_REQUIRED"})
  /\ LoseSession(Idle)
  /\ UNCHANGED <<service, net, intents, faults>>

\* A definitive refusal forgets the intent and shows what refused it: the
\* attempt for a stale, finished or exhausted one, the case for NO_CURRENT_CASE.
MutationRefused ==
  LET op == task.op
      next == [Idle EXCEPT !.op = op, !.pc =
                 IF task.reply = "STALE_VERSION" THEN "stale" ELSE "noted"]
  IN /\ Replied({"STALE_VERSION", "TERMINAL_ATTEMPT", "EVIDENCE_LIMIT",
                 "NO_CURRENT_CASE", "REFUSED"})
     /\ pending' = NoOp
     /\ mutation' = IF task.reply = "STALE_VERSION" THEN mutation ELSE "IDLE"
     /\ CASE task.reply = "REFUSED" ->
               task' = Idle /\ UNCHANGED <<current, owned>>
          [] task.reply = "NO_CURRENT_CASE" ->
               IF ready /\ status # "SESSION_LOST"
               THEN current' = Asked /\ task' = Await(next, "current", IdOf(op))
                    /\ UNCHANGED owned
               ELSE task' = Idle /\ UNCHANGED <<current, owned>>
          [] OTHER ->
               /\ owned' = [owned EXCEPT ![IdOf(op)] = Asked]
               /\ task' = Await(next, "owned", IdOf(op))
               /\ UNCHANGED current
     /\ UNCHANGED <<service, status, ready, view, shown, boot, net, intents, faults>>

\* A slip: an unanswered request is taken for one that never arrived.
ForgetUnanswered ==
  /\ Quiet /\ task.pc = "sent" /\ Fault
  /\ pending' = NoOp /\ mutation' = "IDLE" /\ task' = Idle
  /\ UNCHANGED <<service, status, ready, view, shown, boot, current, owned, net,
                 intents>>

\* No answer, or one that proves nothing (RATE_LIMITED, 503, a malformed body,
\* as which the client takes the 404 for another guest's attempt): the intent
\* is kept for a replay with the same key.
MutationUncertain ==
  /\ Quiet /\ task.pc = "sent"
  /\ IF task.reply = "UNKNOWN_ATTEMPT" THEN UNCHANGED faults ELSE Fault
  /\ mutation' = "UNCERTAIN" /\ task' = Idle
  /\ UNCHANGED <<service, pending, status, ready, view, shown, boot, current,
                 owned, net, intents>>

\* After the refresh that follows a refusal.
RefusalShown ==
  /\ task.pc \in {"stale", "noted"} /\ ~Quiet
  /\ mutation' = IF task.pc = "stale" /\ status # "SESSION_LOST" THEN "STALE" ELSE mutation
  /\ task' = Idle
  /\ UNCHANGED <<service, pending, status, ready, view, shown, boot, current,
                 owned, net, intents, faults>>

(***************************************************************************)
(* Recovery of a stored intent                                             *)
(***************************************************************************)
\* A slip: any newer version is taken for the command's doing.
newerVersionProves(op, seen) == seen.version > op.version

\* commandOutcomeIsProven: only a final state that is the command's own doing.
commandOutcomeIsProven(op, seen) ==
  /\ seen.version > op.version
  /\ \/ op.kind = "GIVE_UP" /\ seen.state = "GIVEN_UP"
     \/ op.kind = "GUESS" /\ seen.state \in {"SOLVED", "EXHAUSTED"}
        /\ seen.last = op.entity

\* A START is settled once its slot has an attempt or is no longer on offer.
startIsSettled(op, v) ==
  \/ IsAttempt(v)
  \/ v.state = "NO_CASE"
  \/ v.state = "NOT_STARTED" /\ v.slot # op.slot

Recover(replay) ==
  LET t == [Idle EXCEPT !.op = pending, !.replay = replay]
      i == IdOf(pending)
  IN /\ Quiet /\ task.pc = "idle" /\ pending # NoOp
     /\ status = "READY" /\ mutation = "UNCERTAIN" /\ view.state # "NO_CASE"
     /\ \/ /\ pending.kind = "START"
           /\ IF ready /\ status # "SESSION_LOST"
              THEN /\ current' = Asked
                   /\ task' = Await([t EXCEPT !.pc = "startRecovery"], "current", i)
              ELSE /\ task' = [t EXCEPT !.pc = "startRecovery"]
                   /\ UNCHANGED current
           /\ UNCHANGED <<mutation, owned, net>>
        \/ /\ pending.kind # "START" /\ replay
           /\ Transmit(pending) /\ UNCHANGED <<current, owned>>
        \/ /\ pending.kind # "START" /\ ~replay
           /\ owned' = [owned EXCEPT ![i] = Asked]
           /\ task' = Await([t EXCEPT !.pc = "commandRecovery"], "owned", i)
           /\ UNCHANGED <<mutation, current, net>>
     /\ UNCHANGED <<service, pending, status, ready, view, shown, boot, intents, faults>>

ReplayPending == Recover(TRUE)
ReconcilePending == Recover(FALSE)

ClearPending == pending' = NoOp /\ mutation' = "IDLE" /\ task' = Idle /\ UNCHANGED net

\* The end of #reconcilePending and, for a replay of a START, what follows it.
StartReconciled ==
  LET op == task.op
  IN /\ task.pc = "startRecovery" /\ ~Quiet
     /\ \/ /\ status = "SESSION_LOST"
           /\ task' = Idle /\ UNCHANGED <<pending, mutation, net>>
        \/ /\ status # "SESSION_LOST" /\ startIsSettled(op, view) /\ ClearPending
        \/ /\ status # "SESSION_LOST" /\ ~startIsSettled(op, view)
           /\ IF task.replay /\ view.state = "NOT_STARTED" /\ status = "READY"
              THEN Transmit(op)
              ELSE mutation' = "UNCERTAIN" /\ task' = Idle /\ UNCHANGED net
           /\ UNCHANGED pending
     /\ UNCHANGED <<service, status, ready, view, shown, boot, current, owned,
                    intents, faults>>

CommandReconciled ==
  LET proven == task.on = "seen" /\ commandOutcomeIsProven(task.op, shown)
  IN /\ task.pc = "commandRecovery" /\ ~Quiet
     /\ \/ /\ status = "SESSION_LOST"
           /\ task' = Idle /\ UNCHANGED <<pending, mutation, net>>
        \/ status # "SESSION_LOST" /\ proven /\ ClearPending
        \/ /\ status # "SESSION_LOST" /\ ~proven
           /\ mutation' = "UNCERTAIN" /\ task' = Idle /\ UNCHANGED <<pending, net>>
     /\ UNCHANGED <<service, status, ready, view, shown, boot, current, owned,
                    intents, faults>>

World ==
  /\ \/ Rollover /\ UNCHANGED faults
     \/ (SessionEnds \/ OtherTabPlays) /\ Fault
  /\ UNCHANGED <<page, pending, net, intents>>

PageEvent ==
  \/ Refresh \/ HandleCurrent \/ (\E i \in Ids : HandleOwned(i)) \/ ReadFails
  \/ Reload \/ NewSession \/ SessionAnswered \/ SessionFails
  \/ StartAttempt \/ SubmitCommand
  \/ MutationSucceeds \/ MutationUnauthenticated \/ MutationRefused
  \/ MutationUncertain \/ RefusalShown
  \/ ReplayPending \/ ReconcilePending \/ StartReconciled \/ CommandReconciled

Answers == AnswerCurrent \/ (\E i \in Ids : AnswerOwned(i)) \/ Deliver
Next == PageEvent \/ Answers \/ World

Spec == Init /\ [][Next]_vars

(***************************************************************************)
(* Properties                                                              *)
(***************************************************************************)
Seen == [guest : Guests, slot : Slots, version : 0..Limit + 2,
         state : Finished \cup {"UNKNOWN", "AUTHENTICATION_REQUIRED", "NO_CASE",
                                "NOT_STARTED", "ACTIVE"},
         last : Entities \cup {None}]
Reads == [at : {"none", "asked", "answered"}, value : Seen]
Ops == [id : 0..MaxIntents, kind : {"NONE", "START", "GUESS", "REVEAL", "GIVE_UP"},
        entity : Entities \cup {None}, guest : Guests, slot : Slots,
        version : 0..Limit + 2]

TypeOK ==
  /\ guest \in Guests /\ alive \in BOOLEAN /\ slot \in Slots
  /\ attempts \in [Slots -> Rows]
  /\ pending \in Ops /\ view \in Seen /\ shown \in Seen
  /\ status \in {"HYDRATING", "READ_ERROR", "READY", "SESSION_LOST"}
  /\ mutation \in {"IDLE", "IN_FLIGHT", "STALE", "UNCERTAIN"}
  /\ boot \in {"off", "bootstrap", "resume", "create"}
  /\ current \in Reads /\ owned \in [Ids -> Reads]
  /\ task.pc \in {"idle", "sent", "startRecovery"} \cup Waiting
  /\ \A m \in net : m.op \in Ops /\ m.copy \in 0..MaxFaults

\* A request on the wire is the one in sessionStorage until it is answered, so
\* a reload at any moment still knows it; only the end of its session, which
\* makes the request harmless, forgets it earlier.
SentIsStored ==
  task.pc = "sent" /\ task.reply = "none" /\ alive /\ task.op.guest = guest
    => pending = task.op

\* The player's one intention takes effect at most once, however often its
\* request is sent: no two receipts stem from the same intent.
IntentActsOnce ==
  \A r, q \in receipts : r.key[1] = q.key[1] => r = q

\* A command the browser has forgotten can do nothing any more: every copy
\* still under way would be refused, or replayed from its receipt.
ForgottenCommandsAreDead ==
  \A m \in net :
    m.op.kind # "START" /\ m.op.id # pending.id => Outcome(m) # "APPLIED"

\* Reconciliation forgets an intent only when it came true or never can: the
\* attempt ended the way the command meant, the START's slot has an attempt or
\* is over.
Fulfilled(op) ==
  LET row == attempts[op.slot]
  IN \/ op.kind = "START" /\ (row.state # "NONE" \/ slot # op.slot \/ slot \notin Published)
     \/ op.kind = "GIVE_UP" /\ row.state = "GIVEN_UP"
     \/ op.kind = "GUESS" /\ row.state \in {"SOLVED", "EXHAUSTED"} /\ row.last = op.entity

ReconciledIsFulfilled ==
  [][task.pc \in {"startRecovery", "commandRecovery"} /\ pending # NoOp
       /\ pending' = NoOp /\ status' \in {"READY", "READ_ERROR"}
     => Fulfilled(pending)]_vars

\* The controller never waits for something that will not come: a read it waits
\* for is in flight, so that it ends or fails, and the next action is let in.
AwaitsSomething ==
  /\ task.on = "current" => current # NoRead
  /\ task.on = "owned" => owned[task.id] # NoRead

\* plans/s6-web.md:351: "generation checks prevent late responses from
\* overwriting newer state".  The response of a read never takes the attempt
\* shown back to an earlier version of itself.
ReadsNeverGoBack ==
  [][(\E i \in Ids : HandleOwned(i)) /\ IsAttempt(shown) /\ IdOf(shown') = IdOf(shown)
       => shown'.version >= shown.version]_vars
=============================================================================
