-------------------------- MODULE TransactionRuntime --------------------------
(***************************************************************************)
(* transaction(): a client is borrowed from the pool, BEGIN, settings,     *)
(* work, COMMIT or ROLLBACK are sent over its connection, and the client   *)
(* goes back.  Meanwhile the request may be aborted, the connection may    *)
(* break, and the server goes on with what it has received.  A call        *)
(* without a deadline is one that is never aborted.                        *)
(***************************************************************************)
EXTENDS Naturals, FiniteSets

CONSTANTS Calls,      \* calls of transaction()
          ReadOnly,   \* those with the readOnly option
          PoolSize    \* the pool's max

ASSUME RuntimeAssumption == ReadOnly \subseteq Calls /\ PoolSize \in Nat \ {0}

VARIABLE call         \* where each call and its connection are

Statements == {"begin", "settings", "work", "commit", "rollback"}
Outcomes == {"none", "OK", "TIMEOUT", "ERROR", "ROLLBACK_FAILED"}

CallStates == [
  pc : {"idle", "acquire", "awaitEnd", "done"} \cup Statements,
  outcome : Outcomes,
  aborted : BOOLEAN,       \* the deadline's signal
  queued : BOOLEAN,        \* its connect() waits in the pool
  listening : BOOLEAN,     \* "cancel" is registered with the signal
  started : BOOLEAN,       \* transactionStarted
  ending : BOOLEAN,        \* cancellationComplete is set
  client : {"none", "lent", "returned", "destroyed"},
  releases : Nat,          \* calls of client.release()
  conn : {"none", "up", "broken", "destroyed"},
  ended : BOOLEAN,         \* the client emitted 'end'
  reply : {"none", "ok", "failed"},
  db : {"none", "open", "committed", "rolledBack"},
  executing : {"none"} \cup Statements]   \* what the server has received

NoCall == [pc |-> "idle", outcome |-> "none", aborted |-> FALSE, queued |-> FALSE,
           listening |-> FALSE, started |-> FALSE, ending |-> FALSE,
           client |-> "none", releases |-> 0, conn |-> "none", ended |-> FALSE,
           reply |-> "none", db |-> "none", executing |-> "none"]

Init == call = [t \in Calls |-> NoCall]

Become(t, r) == call' = [call EXCEPT ![t] = r]
Lent == {t \in Calls : call[t].client = "lent"}

\* timeoutError: 55P03 and 57014 are the lock's and the statement's timeout.
timeoutError(r, e) ==
  IF r.aborted \/ e \in {"TIMEOUT", "55P03", "57014"} THEN "TIMEOUT" ELSE "ERROR"

\* client.release(): the pool keeps a client whose connection is up.
Return(r) ==
  [r EXCEPT !.releases = @ + 1,
            !.client = IF r.conn = "up" THEN "returned" ELSE "destroyed"]

\* client.release(error): the pool closes the connection.
Destroy(r) ==
  [r EXCEPT !.releases = @ + 1, !.client = "destroyed",
            !.conn = IF @ = "up" THEN "destroyed" ELSE @]

\* A slip: the finally block does not look at "released".
alwaysRelease(r) == Return([r EXCEPT !.pc = "done", !.listening = FALSE])

\* The finally block.
Finally(r) ==
  LET out == [r EXCEPT !.pc = "done", !.listening = FALSE]
  IN IF r.client = "lent" THEN Return(out) ELSE out

Finish(r, outcome) == Finally([r EXCEPT !.outcome = outcome])

\* A slip: an end that has already been emitted is waited for.
waitForNextEnd(r) == [r EXCEPT !.ending = TRUE, !.pc = "awaitEnd"]

\* waitForClientEnd: over at once if the client has emitted its end.
waitForClientEnd(r) ==
  IF r.ended THEN Finally([r EXCEPT !.ending = TRUE])
  ELSE [r EXCEPT !.ending = TRUE, !.pc = "awaitEnd"]

Send(r, statement) ==
  [r EXCEPT !.pc = statement, !.reply = "none",
            !.executing = IF r.conn = "up" THEN statement ELSE @]

\* The catch block, once the error is known.
Catch(r, e) ==
  LET error == timeoutError(r, e)
  IN IF r.started THEN Send([r EXCEPT !.outcome = error], "rollback")
     ELSE Finish(r, error)

(***************************************************************************)
(* Borrowing a client                                                      *)
(***************************************************************************)
\* throwIfCancelled, then connect(): the deadline may have passed already.
Call(t) ==
  /\ call[t].pc = "idle"
  /\ \/ Become(t, [call[t] EXCEPT !.pc = "acquire", !.queued = TRUE])
     \/ Become(t, Finish(call[t], "TIMEOUT"))

\* acquireClient's timer; its abort listener is Abort below.
AcquireTimeout(t) ==
  /\ call[t].pc = "acquire"
  /\ Become(t, Finish(call[t], "TIMEOUT"))

\* The pool has a client for the call: too late, and it is released; in time,
\* and throwIfCancelled lets BEGIN be sent or not.
Borrow(t) ==
  LET r == [call[t] EXCEPT !.queued = FALSE, !.client = "lent", !.conn = "up"]
  IN /\ call[t].queued /\ Cardinality(Lent) < PoolSize
     /\ \/ r.pc = "done" /\ Become(t, Return(r))
        \/ r.pc = "acquire" /\ Become(t, Send([r EXCEPT !.listening = TRUE], "begin"))
        \/ r.pc = "acquire" /\ Become(t, Finish(r, "TIMEOUT"))

ConnectFails(t) ==
  LET r == [call[t] EXCEPT !.queued = FALSE]
  IN /\ call[t].queued /\ Cardinality(Lent) < PoolSize
     /\ \/ r.pc = "done" /\ Become(t, r)
        \/ r.pc = "acquire" /\ Become(t, Finish(r, "ERROR"))

(***************************************************************************)
(* The statements                                                          *)
(***************************************************************************)
Replied(t, statement, reply) ==
  /\ call[t].pc = statement /\ call[t].reply = reply /\ call[t].conn = "up"

\* A slip: only what follows the settings counts as a transaction.
BeginUnmarked(t) ==
  /\ Replied(t, "begin", "ok")
  /\ Become(t, Send(call[t], "settings"))

BeginReturns(t) ==
  /\ Replied(t, "begin", "ok")
  /\ Become(t, Send([call[t] EXCEPT !.started = TRUE], "settings"))

SettingsReturn(t) ==
  /\ Replied(t, "settings", "ok")
  /\ Become(t, Send(call[t], "work"))

\* A slip: a write's COMMIT can be cancelled as a read's.
keepListening(t) == call[t].listening

\* Before COMMIT a write stops listening: it is not cancelled any more.
stillListening(t) == call[t].listening /\ t \in ReadOnly

\* work() returned; throwIfCancelled comes between it and COMMIT.
WorkReturns(t) ==
  /\ Replied(t, "work", "ok")
  /\ \/ ~call[t].aborted
        /\ Become(t, Send([call[t] EXCEPT !.listening = stillListening(t)], "commit"))
     \/ Become(t, Catch(call[t], "TIMEOUT"))

\* A slip: COMMIT is not awaited.
CommitUnawaited(t) ==
  /\ call[t].pc = "commit"
  /\ Become(t, Finish([call[t] EXCEPT !.started = FALSE], "OK"))

CommitReturns(t) ==
  /\ Replied(t, "commit", "ok")
  /\ Become(t, Finish([call[t] EXCEPT !.started = FALSE], "OK"))

\* A statement, or work() after its last one, fails.
StatementFails(t) ==
  \E statement \in Statements \ {"rollback"}, e \in {"55P03", "57014", "other"} :
    /\ Replied(t, statement, "failed") \/ (statement = "work" /\ Replied(t, "work", "ok"))
    /\ Become(t, Catch(call[t], e))

RollbackReturns(t) ==
  /\ Replied(t, "rollback", "ok")
  /\ Become(t, Finish([call[t] EXCEPT !.started = FALSE], call[t].outcome))

\* The connection is gone, so what awaits a statement is rejected.
StatementLost(t) ==
  /\ call[t].pc \in Statements \ {"rollback"} /\ call[t].conn = "broken"
  /\ Become(t, Catch(call[t], "other"))

RollbackError(error) == IF error = "TIMEOUT" THEN "TIMEOUT" ELSE "ROLLBACK_FAILED"

RollbackLost(t) ==
  LET r == [call[t] EXCEPT !.outcome = RollbackError(@)]
  IN /\ call[t].pc = "rollback" /\ call[t].conn # "up"
     /\ IF r.client = "lent" THEN Become(t, waitForClientEnd(Destroy(r)))
        ELSE Become(t, Finally(r))

(***************************************************************************)
(* Cancellation                                                            *)
(***************************************************************************)
\* cancel(): the connection is closed under whatever is awaited.
Cancel(r) ==
  IF ~r.listening \/ r.client # "lent" THEN r
  ELSE IF r.pc = "rollback" THEN [Destroy(r) EXCEPT !.ending = TRUE]
  ELSE waitForClientEnd([Destroy(r) EXCEPT !.outcome = "TIMEOUT"])

\* The deadline's timer or a disconnect fires the signal and its listeners.
Abort(t) ==
  LET r == [call[t] EXCEPT !.aborted = TRUE]
  IN /\ call[t].pc \notin {"idle", "done"} /\ ~call[t].aborted
     /\ IF r.pc = "acquire" THEN Become(t, Finish(r, "TIMEOUT"))
        ELSE Become(t, Cancel(r))

\* The client emits 'end': what waits for it goes on.
End(t) ==
  LET r == [call[t] EXCEPT !.ended = TRUE]
  IN /\ call[t].conn \in {"broken", "destroyed"} /\ ~call[t].ended
     /\ Become(t, IF r.pc = "awaitEnd" THEN Finally(r) ELSE r)

(***************************************************************************)
(* The server and the network                                              *)
(***************************************************************************)
\* The server runs a statement it received, connection or not.  A failed
\* statement leaves the transaction to be rolled back; a failed COMMIT ends it.
Execute(t) ==
  LET s == call[t].executing
      done == [call[t] EXCEPT !.executing = "none", !.reply = "ok"]
  IN /\ s # "none"
     /\ \/ s = "begin" /\ Become(t, [done EXCEPT !.db = "open"])
        \/ s \in {"settings", "work"} /\ Become(t, done)
        \/ s = "commit" /\ Become(t, [done EXCEPT !.db = "committed"])
        \/ s = "rollback" /\ Become(t, [done EXCEPT !.db =
                                IF @ = "open" THEN "rolledBack" ELSE @])

ExecuteFails(t) ==
  LET s == call[t].executing
      done == [call[t] EXCEPT !.executing = "none", !.reply = "failed"]
  IN /\ s \in Statements \ {"rollback"}
     /\ Become(t, IF s = "commit" THEN [done EXCEPT !.db = "rolledBack"] ELSE done)

\* The connection breaks; a statement on its way may never arrive.
Break(t) ==
  /\ call[t].conn = "up" /\ call[t].client = "lent"
  /\ \E e \in {"none", call[t].executing} :
       Become(t, [call[t] EXCEPT !.conn = "broken", !.executing = e])

\* Between statements the server notices that the client is gone.
ServerRollsBack(t) ==
  /\ call[t].conn \in {"broken", "destroyed"}
  /\ call[t].executing = "none" /\ call[t].db = "open"
  /\ Become(t, [call[t] EXCEPT !.db = "rolledBack"])

Progress(t) ==
  \/ Borrow(t) \/ BeginReturns(t) \/ SettingsReturn(t) \/ WorkReturns(t)
  \/ CommitReturns(t) \/ StatementFails(t) \/ RollbackReturns(t)
  \/ StatementLost(t) \/ RollbackLost(t) \/ End(t)
  \/ Execute(t) \/ ExecuteFails(t) \/ ServerRollsBack(t)

Step(t) == Call(t) \/ AcquireTimeout(t) \/ ConnectFails(t) \/ Abort(t) \/ Break(t) \/ Progress(t)
Next == \E t \in Calls : Step(t)

Spec == Init /\ [][Next]_call

\* The server answers or notices the end, the client library settles what is
\* awaited, and the pool lends a client it has.
Fairness == \A t \in Calls : WF_call(Progress(t))
FairSpec == Spec /\ Fairness

(***************************************************************************)
(* Properties                                                              *)
(***************************************************************************)
TypeOK == call \in [Calls -> CallStates]

\* Whatever is aborted, breaks or comes too late, a client that was borrowed is
\* released once, by the time the call returns or, after a call that gave up
\* waiting for it, at once; never twice, since the second release would take it
\* from whoever borrowed it next.
ReleasedOnce ==
  \A t \in Calls :
    LET r == call[t]
    IN /\ r.releases = IF r.client \in {"returned", "destroyed"} THEN 1 ELSE 0
       /\ r.pc = "done" => r.client # "lent"

\* A client goes back into the pool only with its transaction over on the server
\* and nothing of it under way, so the next borrower starts afresh.
CleanWhenReturned ==
  \A t \in Calls :
    call[t].client = "returned" => call[t].db # "open" /\ call[t].executing = "none"

\* The caller is told of success only when the server has committed.
SuccessIsCommitted ==
  \A t \in Calls : call[t].outcome = "OK" => call[t].db = "committed"

\* A write that is reported as timed out has not been committed and never will
\* be, with one exception: its connection broke during COMMIT.
TimeoutsDidNotCommit ==
  \A t \in Calls \ ReadOnly :
    call[t].outcome = "TIMEOUT" /\ call[t].db = "committed" => call[t].conn = "broken"

\* Every call ends, and its client is back or gone.
CallsEnd ==
  \A t \in Calls : call[t].pc # "idle" ~> call[t].pc = "done" /\ call[t].client # "lent"
=============================================================================
