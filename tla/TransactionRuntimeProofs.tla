----------------------- MODULE TransactionRuntimeProofs -----------------------
(***************************************************************************)
(* The safety properties of TransactionRuntime, for any number of calls.   *)
(* Every action replaces the record of one call, so the invariant is a     *)
(* predicate on one record, and each group of actions has its lemma.       *)
(***************************************************************************)
EXTENDS TransactionRuntime, TLAPS

\* A client is lent until it is released once.
Released(r) ==
  /\ r.releases = IF r.client \in {"returned", "destroyed"} THEN 1 ELSE 0
  /\ r.pc \in {"idle", "acquire"} => r.client = "none"
  /\ r.pc \in {"awaitEnd", "done"} => r.client # "lent"
  /\ r.pc \in Statements \ {"rollback"} => r.client = "lent"
  /\ r.queued => r.pc \in {"acquire", "done"} /\ r.client = "none"
  /\ r.client = "lent" => r.conn \in {"up", "broken"}
  /\ r.client = "none" => r.conn = "none"
  /\ r.conn = "none" => r.client = "none" /\ r.executing = "none" /\ r.db = "none"

\* While the connection is up, page and server agree on the statement sent and
\* on what its reply says of the transaction.
InStep(r) ==
  r.client = "lent" /\ r.conn = "up" =>
    /\ r.pc \in Statements
    /\ r.executing = IF r.reply = "none" THEN r.pc ELSE "none"
    /\ r.pc = "begin" => r.db = IF r.reply = "ok" THEN "open" ELSE "none"
    /\ r.pc \in {"settings", "work"} => r.db = "open"
    /\ r.pc = "commit" /\ r.reply = "none" => r.db = "open"
    /\ r.pc = "commit" /\ r.reply = "ok" => r.db = "committed"
    /\ r.pc = "commit" /\ r.reply = "failed" => r.db = "rolledBack"
    /\ r.pc = "rollback" /\ r.reply = "ok" => r.db # "open"
    /\ r.db = "committed" => r.pc = "commit"

\* The next borrower finds no trace of the last one.
Clean(r) ==
  r.client = "returned" => r.conn = "up" /\ r.db # "open" /\ r.executing = "none"

\* transactionStarted follows the server's transaction.
Marked(r) ==
  /\ r.pc \in {"settings", "work", "commit", "rollback"} => r.started
  /\ r.pc \in {"idle", "acquire", "begin"} => ~r.started

\* Success is told of what is durable.
Told(r) ==
  r.outcome = "OK" => r.pc = "done" /\ r.db = "committed" /\ r.executing = "none"

\* The COMMIT of a write is out of reach of a cancellation.
Decided(r) ==
  r.db = "committed" \/ r.executing = "commit" =>
    \/ r.pc = "commit" /\ ~r.listening /\ r.outcome = "none"
    \/ r.conn = "broken"
    \/ r.outcome = "OK"

\* No outcome before the transaction fails or ends.
Uncalled(r) == r.pc \in {"idle", "acquire"} \cup (Statements \ {"rollback"}) => r.outcome = "none"

Good(t, r) ==
  /\ r \in CallStates /\ Released(r) /\ InStep(r) /\ Clean(r) /\ Marked(r)
  /\ Told(r) /\ Uncalled(r) /\ (t \notin ReadOnly => Decided(r))

IInv == /\ call = [t \in Calls |-> call[t]]
        /\ \A t \in Calls : Good(t, call[t])

\* Replacing one good record by another keeps the invariant.
LEMMA BecomeKeeps ==
  ASSUME IInv, NEW t \in Calls, NEW r, Good(t, r), Become(t, r)
  PROVE  IInv'
<1>1. call' = [u \in Calls |-> IF u = t THEN r ELSE call[u]]
  BY DEF IInv, Become
<1>2. \A u \in Calls : call'[u] = IF u = t THEN r ELSE call[u]
  BY <1>1
<1>3. \A u \in Calls : Good(u, call'[u])
  BY <1>2 DEF IInv
<1>4. call' = [u \in Calls |-> call'[u]]
  BY <1>1
<1> QED
  BY <1>3, <1>4 DEF IInv, Good

\* What makes the record r good once the finally block leaves it with outcome o.
Settled(t, r, o) ==
  /\ r \in CallStates /\ o \in Outcomes
  /\ r.releases = IF r.client \in {"returned", "destroyed"} THEN 1 ELSE 0
  /\ r.queued => r.client = "none"
  /\ r.client = "lent" => r.conn \in {"up", "broken"}
  /\ r.client = "none" => r.conn = "none"
  /\ r.conn = "none" => r.client = "none" /\ r.executing = "none" /\ r.db = "none"
  /\ r.client = "lent" /\ r.conn = "up" => r.db # "open" /\ r.executing = "none"
  /\ Clean(r)
  /\ o = "OK" => r.db = "committed" /\ r.executing = "none"
  /\ t \notin ReadOnly => (r.db = "committed" \/ r.executing = "commit"
                             => r.conn = "broken" \/ o = "OK")

LEMMA ReturnFields ==
  ASSUME NEW r \in CallStates
  PROVE  LET s == Return(r)
         IN /\ s \in CallStates
            /\ s.client = IF r.conn = "up" THEN "returned" ELSE "destroyed"
            /\ s.releases = r.releases + 1
            /\ s.pc = r.pc /\ s.outcome = r.outcome /\ s.queued = r.queued
            /\ s.listening = r.listening /\ s.started = r.started
            /\ s.conn = r.conn /\ s.db = r.db /\ s.executing = r.executing
<1> DEFINE client == IF r.conn = "up" THEN "returned" ELSE "destroyed"
<1>1. client \in {"returned", "destroyed"}
  OBVIOUS
<1>2. Return(r) = [r EXCEPT !.releases = r.releases + 1, !.client = client]
  BY DEF Return
<1>3. r.releases + 1 \in Nat
  BY DEF CallStates
<1> HIDE DEF client
<1>4. Return(r) \in CallStates
  BY <1>1, <1>2, <1>3 DEF CallStates
<1>5. Return(r).client = client
  BY <1>2 DEF CallStates
<1>6. LET s == Return(r)
      IN /\ s.releases = r.releases + 1
         /\ s.pc = r.pc /\ s.outcome = r.outcome /\ s.queued = r.queued
         /\ s.listening = r.listening /\ s.started = r.started
         /\ s.conn = r.conn /\ s.db = r.db /\ s.executing = r.executing
  BY <1>2 DEF CallStates
<1> QED
  BY <1>4, <1>5, <1>6 DEF client

LEMMA DestroyFields ==
  ASSUME NEW r \in CallStates
  PROVE  LET s == Destroy(r)
         IN /\ s \in CallStates
            /\ s.client = "destroyed" /\ s.releases = r.releases + 1
            /\ s.conn = IF r.conn = "up" THEN "destroyed" ELSE r.conn
            /\ s.pc = r.pc /\ s.outcome = r.outcome /\ s.queued = r.queued
            /\ s.listening = r.listening /\ s.started = r.started
            /\ s.db = r.db /\ s.executing = r.executing
<1> DEFINE conn == IF r.conn = "up" THEN "destroyed" ELSE r.conn
<1>1. conn \in {"none", "up", "broken", "destroyed"} /\ r.releases + 1 \in Nat
  BY DEF CallStates
<1>2. Destroy(r) = [r EXCEPT !.releases = r.releases + 1, !.client = "destroyed",
                             !.conn = conn]
  BY DEF Destroy, CallStates
<1> HIDE DEF conn
<1>3. Destroy(r) \in CallStates
  BY <1>1, <1>2 DEF CallStates
<1>4. Destroy(r).conn = conn
  BY <1>2 DEF CallStates
<1>5. LET s == Destroy(r)
      IN /\ s.client = "destroyed" /\ s.releases = r.releases + 1
         /\ s.pc = r.pc /\ s.outcome = r.outcome /\ s.queued = r.queued
         /\ s.listening = r.listening /\ s.started = r.started
         /\ s.db = r.db /\ s.executing = r.executing
  BY <1>2 DEF CallStates
<1> QED
  BY <1>3, <1>4, <1>5 DEF conn

LEMMA SendFields ==
  ASSUME NEW r \in CallStates, NEW statement \in Statements
  PROVE  LET s == Send(r, statement)
         IN /\ s \in CallStates
            /\ s.pc = statement /\ s.reply = "none"
            /\ s.executing = IF r.conn = "up" THEN statement ELSE r.executing
            /\ s.outcome = r.outcome /\ s.queued = r.queued /\ s.started = r.started
            /\ s.listening = r.listening /\ s.client = r.client
            /\ s.releases = r.releases /\ s.conn = r.conn /\ s.db = r.db
<1> DEFINE received == IF r.conn = "up" THEN statement ELSE r.executing
<1>1. received \in {"none"} \cup Statements /\ statement \in Statements
  BY DEF CallStates
<1>2. Send(r, statement) = [r EXCEPT !.pc = statement, !.reply = "none",
                                     !.executing = received]
  BY DEF Send, CallStates
<1> HIDE DEF received
<1>3. Send(r, statement) \in CallStates
  BY <1>1, <1>2 DEF CallStates
<1>4. Send(r, statement).executing = received
  BY <1>2 DEF CallStates
<1>5. LET s == Send(r, statement)
      IN /\ s.pc = statement /\ s.reply = "none"
         /\ s.outcome = r.outcome /\ s.queued = r.queued /\ s.started = r.started
         /\ s.listening = r.listening /\ s.client = r.client
         /\ s.releases = r.releases /\ s.conn = r.conn /\ s.db = r.db
  BY <1>2 DEF CallStates
<1> QED
  BY <1>3, <1>4, <1>5 DEF received

LEMMA FinallyIsGood ==
  ASSUME NEW t \in Calls, NEW r, Settled(t, r, r.outcome)
  PROVE  Good(t, Finally(r))
<1> DEFINE s == Finally(r)
           out == [r EXCEPT !.pc = "done", !.listening = FALSE]
<1>1. r \in CallStates
  BY DEF Settled
<1>2. /\ out \in CallStates
      /\ out.pc = "done" /\ ~out.listening /\ out.outcome = r.outcome
      /\ out.queued = r.queued /\ out.conn = r.conn /\ out.db = r.db
      /\ out.executing = r.executing /\ out.releases = r.releases
      /\ out.client = r.client
  BY <1>1 DEF CallStates
<1>3. s = IF r.client = "lent" THEN Return(out) ELSE out
  BY DEF Finally
<1> HIDE DEF s, out
<1>4. /\ s \in CallStates
      /\ s.pc = "done" /\ ~s.listening /\ s.outcome = r.outcome /\ s.queued = r.queued
      /\ s.conn = r.conn /\ s.db = r.db /\ s.executing = r.executing
      /\ s.client = IF r.client # "lent" THEN r.client
                    ELSE IF r.conn = "up" THEN "returned" ELSE "destroyed"
      /\ s.releases = IF r.client = "lent" THEN r.releases + 1 ELSE r.releases
  BY <1>2, <1>3, ReturnFields
<1>5. Released(s) /\ InStep(s) /\ Clean(s)
  BY <1>4 DEF Settled, Released, InStep, Clean, Statements
<1>6. Marked(s) /\ Told(s) /\ Uncalled(s) /\ (t \notin ReadOnly => Decided(s))
  BY <1>4 DEF Settled, Marked, Told, Uncalled, Decided, Statements
<1> QED
  BY <1>4, <1>5, <1>6 DEF Good, s

LEMMA FinishIsGood ==
  ASSUME NEW t \in Calls, NEW r, NEW o, Settled(t, r, o)
  PROVE  Good(t, Finish(r, o))
<1> DEFINE s == [r EXCEPT !.outcome = o]
<1>1. /\ s \in CallStates /\ s.outcome = o
      /\ s.client = r.client /\ s.releases = r.releases /\ s.queued = r.queued
      /\ s.conn = r.conn /\ s.executing = r.executing /\ s.db = r.db
  BY DEF Settled, CallStates
<1> HIDE DEF s
<1>2. Settled(t, s, s.outcome)
  BY <1>1 DEF Settled, Clean
<1> QED
  BY <1>2, FinallyIsGood DEF Finish, s

LEMMA WaitIsGood ==
  ASSUME NEW t \in Calls, NEW r, Settled(t, r, r.outcome),
         r.client = "destroyed", r.outcome # "OK"
  PROVE  Good(t, waitForClientEnd(r))
<1> DEFINE s == [r EXCEPT !.ending = TRUE]
           w == [r EXCEPT !.ending = TRUE, !.pc = "awaitEnd"]
<1>1. /\ s \in CallStates /\ s.outcome = r.outcome
      /\ s.client = r.client /\ s.releases = r.releases /\ s.queued = r.queued
      /\ s.conn = r.conn /\ s.executing = r.executing /\ s.db = r.db
  BY DEF Settled, CallStates
<1>2. /\ w \in CallStates /\ w.outcome = r.outcome /\ w.pc = "awaitEnd"
      /\ w.client = r.client /\ w.releases = r.releases /\ w.queued = r.queued
      /\ w.conn = r.conn /\ w.executing = r.executing /\ w.db = r.db
  BY DEF Settled, CallStates
<1>3. waitForClientEnd(r) = IF r.ended THEN Finally(s) ELSE w
  BY DEF waitForClientEnd
<1> HIDE DEF s, w
<1>4. Good(t, Finally(s))
  <2>1. Settled(t, s, s.outcome)
    BY <1>1 DEF Settled, Clean
  <2> QED
    BY <2>1, FinallyIsGood
<1>5. Good(t, w)
  <2>1. Released(w) /\ InStep(w) /\ Clean(w)
    BY <1>2 DEF Settled, Released, InStep, Clean, Statements
  <2>2. Marked(w) /\ Told(w) /\ Uncalled(w) /\ (t \notin ReadOnly => Decided(w))
    BY <1>2 DEF Settled, Marked, Told, Uncalled, Decided, Statements
  <2> QED
    BY <1>2, <2>1, <2>2 DEF Good
<1> QED
  BY <1>3, <1>4, <1>5

LEMMA CatchIsGood ==
  ASSUME NEW t \in Calls, NEW r, NEW e, Good(t, r),
         r.pc \in Statements \ {"rollback"},
         r.conn = "up" => /\ r.db # "committed"
                          /\ r.pc = "begin" => r.db = "none" /\ r.executing = "none"
  PROVE  Good(t, Catch(r, e))
<1> DEFINE error == timeoutError(r, e)
           o == [r EXCEPT !.outcome = error]
           s == Send(o, "rollback")
<1>1. error \in {"TIMEOUT", "ERROR"}
  BY DEF timeoutError
<1>2. Catch(r, e) = IF r.started THEN s ELSE Finish(r, error)
  BY DEF Catch
<1> HIDE DEF error
<1>3. CASE r.started
  <2>1. /\ o \in CallStates /\ o.outcome = error
        /\ o.client = r.client /\ o.releases = r.releases /\ o.queued = r.queued
        /\ o.conn = r.conn /\ o.executing = r.executing /\ o.db = r.db
        /\ o.started = r.started
    BY <1>1 DEF Good, CallStates, Outcomes
  <2> HIDE DEF o
  <2>2. "rollback" \in Statements
    BY DEF Statements
  <2>3. /\ s \in CallStates /\ s.pc = "rollback" /\ s.reply = "none"
        /\ s.executing = IF r.conn = "up" THEN "rollback" ELSE r.executing
        /\ s.outcome = error /\ s.queued = r.queued /\ s.started = r.started
        /\ s.client = r.client /\ s.releases = r.releases /\ s.conn = r.conn
        /\ s.db = r.db
    BY <2>1, <2>2, SendFields
  <2> HIDE DEF s
  <2>4. Released(s) /\ InStep(s) /\ Clean(s)
    BY <2>3 DEF Good, Released, InStep, Clean, Statements
  <2>5. Marked(s) /\ Told(s) /\ Uncalled(s) /\ (t \notin ReadOnly => Decided(s))
    BY <1>1, <1>3, <2>3 DEF Good, Released, Marked, Told, Uncalled, Decided, Statements
  <2>6. Good(t, s)
    BY <2>3, <2>4, <2>5 DEF Good
  <2> QED
    BY <1>2, <1>3, <2>6
<1>4. CASE ~r.started
  <2>1. r.pc = "begin"
    BY <1>4 DEF Good, Marked, Statements
  <2>2. Settled(t, r, error)
    BY <1>1, <2>1 DEF Good, Settled, Released, Clean, Uncalled, Decided, Statements, Outcomes
  <2> QED
    BY <1>2, <1>4, <2>2, FinishIsGood
<1> QED
  BY <1>3, <1>4

\* Borrowing: the calls that end here never had a client, or return it untouched.
LEMMA BorrowingKeeps ==
  ASSUME IInv, NEW t \in Calls,
         Call(t) \/ AcquireTimeout(t) \/ ConnectFails(t) \/ Borrow(t)
  PROVE  IInv'
<1> DEFINE r == call[t]
<1>1. Good(t, r)
  BY DEF IInv
<1>2. r \in CallStates
  BY <1>1 DEF Good
<1>3. ASSUME r.pc \in {"idle", "acquire"} PROVE Settled(t, r, "TIMEOUT")
  BY <1>1, <1>3 DEF Good, Settled, Released, Clean, Uncalled, Decided, Outcomes
<1>4. CASE Call(t)
  <2> DEFINE s == [r EXCEPT !.pc = "acquire", !.queued = TRUE]
  <2>1. r.pc = "idle"
    BY <1>4 DEF Call
  <2>2. /\ s \in CallStates /\ s.pc = "acquire" /\ s.queued /\ s.outcome = r.outcome
        /\ s.client = r.client /\ s.releases = r.releases /\ s.conn = r.conn
        /\ s.executing = r.executing /\ s.db = r.db /\ s.started = r.started
    BY <1>2 DEF CallStates
  <2> HIDE DEF s
  <2>3. Good(t, s)
    <3>1. Released(s) /\ InStep(s) /\ Clean(s)
      BY <1>1, <2>1, <2>2 DEF Good, Released, InStep, Clean, Statements
    <3>2. Marked(s) /\ Told(s) /\ Uncalled(s) /\ (t \notin ReadOnly => Decided(s))
      BY <1>1, <2>1, <2>2 DEF Good, Released, Marked, Told, Uncalled, Decided, Statements
    <3> QED
      BY <2>2, <3>1, <3>2 DEF Good
  <2>4. Good(t, Finish(r, "TIMEOUT"))
    BY <1>3, <2>1, FinishIsGood
  <2>5. Become(t, s) \/ Become(t, Finish(r, "TIMEOUT"))
    BY <1>4 DEF Call, s
  <2> QED
    BY <2>3, <2>4, <2>5, BecomeKeeps
<1>5. CASE AcquireTimeout(t)
  <2>1. Good(t, Finish(r, "TIMEOUT"))
    BY <1>3, <1>5, FinishIsGood DEF AcquireTimeout
  <2> QED
    BY <1>5, <2>1, BecomeKeeps DEF AcquireTimeout
<1>6. CASE ConnectFails(t)
  <2> DEFINE s == [r EXCEPT !.queued = FALSE]
  <2>1. /\ s \in CallStates /\ ~s.queued /\ s.pc = r.pc /\ s.outcome = r.outcome
        /\ s.client = r.client /\ s.releases = r.releases /\ s.conn = r.conn
        /\ s.executing = r.executing /\ s.db = r.db /\ s.started = r.started
    BY <1>2 DEF CallStates
  <2>2. /\ r.queued
        /\ \/ s.pc = "done" /\ Become(t, s)
           \/ s.pc = "acquire" /\ Become(t, Finish(s, "ERROR"))
    BY <1>6, Zenon DEF ConnectFails
  <2> HIDE DEF s
  <2>3. CASE s.pc = "done" /\ Become(t, s)
    <3>1. Released(s) /\ InStep(s) /\ Clean(s)
      BY <1>1, <2>1, <2>2, <2>3 DEF Good, Released, InStep, Clean, Statements
    <3>2. Marked(s) /\ Told(s) /\ Uncalled(s) /\ (t \notin ReadOnly => Decided(s))
      BY <1>1, <2>1, <2>2, <2>3 DEF Good, Released, Marked, Told, Uncalled, Decided, Statements
    <3> QED
      BY <2>1, <2>3, <3>1, <3>2, BecomeKeeps DEF Good
  <2>4. CASE s.pc = "acquire" /\ Become(t, Finish(s, "ERROR"))
    <3>1. Settled(t, s, "ERROR")
      BY <1>1, <2>1, <2>2, <2>4 DEF Good, Settled, Released, Clean, Uncalled, Decided, Outcomes
    <3> QED
      BY <2>4, <3>1, FinishIsGood, BecomeKeeps
  <2> QED
    BY <2>2, <2>3, <2>4
<1>7. CASE Borrow(t)
  <2> DEFINE s == [r EXCEPT !.queued = FALSE, !.client = "lent", !.conn = "up"]
             l == [s EXCEPT !.listening = TRUE]
  <2>1. /\ s \in CallStates /\ ~s.queued /\ s.pc = r.pc /\ s.outcome = r.outcome
        /\ s.client = "lent" /\ s.releases = r.releases /\ s.conn = "up"
        /\ s.executing = r.executing /\ s.db = r.db /\ s.started = r.started
    BY <1>2 DEF CallStates
  <2>2. /\ r.queued /\ r.client = "none" /\ r.releases = 0 /\ r.executing = "none"
        /\ r.db = "none" /\ r.outcome # "OK"
    BY <1>1, <1>7 DEF Borrow, Good, Released, Told
  <2>3. \/ s.pc = "done" /\ Become(t, Return(s))
        \/ s.pc = "acquire" /\ Become(t, Send(l, "begin"))
        \/ s.pc = "acquire" /\ Become(t, Finish(s, "TIMEOUT"))
    BY <1>7 DEF Borrow
  <2>4. l \in CallStates /\ l.outcome = s.outcome /\ l.client = s.client
        /\ l.releases = s.releases /\ l.queued = s.queued /\ l.conn = s.conn
        /\ l.db = s.db /\ l.started = s.started
    BY <2>1 DEF CallStates
  <2> HIDE DEF s, l
  <2>5. CASE s.pc = "done" /\ Become(t, Return(s))
    <3> DEFINE b == Return(s)
    <3>1. /\ b \in CallStates /\ b.client = "returned" /\ b.releases = 1 /\ b.pc = "done"
          /\ b.outcome = r.outcome /\ ~b.queued /\ b.conn = "up" /\ b.db = "none"
          /\ b.executing = "none"
      BY <2>1, <2>2, <2>5, ReturnFields
    <3>2. Become(t, b)
      BY <2>5
    <3> HIDE DEF b
    <3>3. Released(b) /\ InStep(b) /\ Clean(b)
      BY <3>1 DEF Released, InStep, Clean, Statements
    <3>4. Marked(b) /\ Told(b) /\ Uncalled(b) /\ (t \notin ReadOnly => Decided(b))
      BY <1>1, <2>2, <3>1 DEF Good, Marked, Told, Uncalled, Decided, Statements
    <3> QED
      BY <3>1, <3>2, <3>3, <3>4, BecomeKeeps DEF Good
  <2>6. CASE s.pc = "acquire" /\ Become(t, Send(l, "begin"))
    <3> DEFINE b == Send(l, "begin")
    <3>1. "begin" \in Statements
      BY DEF Statements
    <3>2. /\ b \in CallStates /\ b.client = "lent" /\ b.releases = 0 /\ b.pc = "begin"
          /\ b.outcome = r.outcome /\ ~b.queued /\ b.conn = "up" /\ b.db = "none"
          /\ b.executing = "begin" /\ b.reply = "none" /\ b.started = r.started
      BY <2>1, <2>2, <2>4, <3>1, SendFields
    <3>3. Become(t, b)
      BY <2>6
    <3> HIDE DEF b
    <3>4. ~r.started /\ r.outcome = "none"
      BY <1>1, <2>1, <2>6 DEF Good, Marked, Uncalled
    <3>5. Released(b) /\ InStep(b) /\ Clean(b)
      BY <3>2 DEF Released, InStep, Clean, Statements
    <3>6. Marked(b) /\ Told(b) /\ Uncalled(b) /\ (t \notin ReadOnly => Decided(b))
      BY <3>2, <3>4 DEF Marked, Told, Uncalled, Decided, Statements
    <3> QED
      BY <3>2, <3>3, <3>5, <3>6, BecomeKeeps DEF Good
  <2>7. CASE s.pc = "acquire" /\ Become(t, Finish(s, "TIMEOUT"))
    <3>1. Settled(t, s, "TIMEOUT")
      BY <2>1, <2>2 DEF Settled, Clean, Outcomes
    <3> QED
      BY <2>7, <3>1, FinishIsGood, BecomeKeeps
  <2> QED
    BY <2>3, <2>5, <2>6, <2>7
<1> QED
  BY <1>4, <1>5, <1>6, <1>7

\* The statements that succeed.
LEMMA StatementsKeep ==
  ASSUME IInv, NEW t \in Calls,
         \/ BeginReturns(t) \/ SettingsReturn(t) \/ WorkReturns(t)
         \/ CommitReturns(t) \/ RollbackReturns(t)
  PROVE  IInv'
<1> DEFINE r == call[t]
<1>1. Good(t, r)
  BY DEF IInv
<1>2. r \in CallStates
  BY <1>1 DEF Good
\* A statement is sent after the one before it has succeeded.
<1>3. ASSUME NEW b, NEW s \in {"settings", "work", "commit"}, b \in CallStates,
             r.pc \in {"begin", "settings", "work"}, r.conn = "up", r.reply = "ok",
             b.client = r.client, b.releases = r.releases, b.queued = r.queued,
             b.outcome = r.outcome, b.conn = r.conn, b.db = r.db, b.started,
             s = "commit" /\ t \notin ReadOnly => ~b.listening
      PROVE  Good(t, Send(b, s))
  <2> DEFINE n == Send(b, s)
  <2>1. s \in Statements
    BY <1>3 DEF Statements
  <2>2. /\ n \in CallStates /\ n.pc = s /\ n.reply = "none" /\ n.executing = s
        /\ n.outcome = r.outcome /\ n.queued = r.queued /\ n.started
        /\ n.client = r.client /\ n.releases = r.releases /\ n.conn = "up"
        /\ n.db = r.db /\ n.listening = b.listening
    BY <1>3, <2>1, SendFields
  <2> HIDE DEF n
  <2>3. r.client = "lent" /\ r.db = "open" /\ r.outcome = "none"
    BY <1>1, <1>3 DEF Good, Released, InStep, Uncalled, Statements
  <2>4. Released(n) /\ InStep(n) /\ Clean(n)
    BY <1>1, <1>3, <2>2, <2>3 DEF Good, Released, InStep, Clean, Statements
  <2>5. Marked(n) /\ Told(n) /\ Uncalled(n) /\ (t \notin ReadOnly => Decided(n))
    BY <1>3, <2>2, <2>3 DEF Marked, Told, Uncalled, Decided, Statements
  <2> QED
    BY <2>2, <2>4, <2>5 DEF Good, n
<1>4. CASE BeginReturns(t)
  <2> DEFINE b == [r EXCEPT !.started = TRUE]
  <2>1. /\ b \in CallStates /\ b.client = r.client /\ b.releases = r.releases
        /\ b.queued = r.queued /\ b.outcome = r.outcome /\ b.conn = r.conn
        /\ b.db = r.db /\ b.started
    BY <1>2 DEF CallStates
  <2>2. /\ r.pc = "begin" /\ r.conn = "up" /\ r.reply = "ok"
        /\ Become(t, Send(b, "settings"))
    BY <1>4 DEF BeginReturns, Replied
  <2> HIDE DEF b
  <2> QED
    BY <1>3, <2>1, <2>2, BecomeKeeps
<1>5. CASE SettingsReturn(t)
  <2>1. r.pc = "settings" /\ r.conn = "up" /\ r.reply = "ok" /\ Become(t, Send(r, "work"))
    BY <1>5 DEF SettingsReturn, Replied
  <2>2. r.started
    BY <1>1, <2>1 DEF Good, Marked
  <2> QED
    BY <1>2, <1>3, <2>1, <2>2, BecomeKeeps
<1>6. CASE WorkReturns(t)
  <2> DEFINE b == [r EXCEPT !.listening = stillListening(t)]
  <2>1. /\ b \in CallStates /\ b.client = r.client /\ b.releases = r.releases
        /\ b.queued = r.queued /\ b.outcome = r.outcome /\ b.conn = r.conn
        /\ b.db = r.db /\ b.started = r.started
        /\ t \notin ReadOnly => ~b.listening
    BY <1>2 DEF CallStates, stillListening
  <2>2. r.pc = "work" /\ r.conn = "up" /\ r.reply = "ok"
    BY <1>6 DEF WorkReturns, Replied
  <2>3. Become(t, Send(b, "commit")) \/ Become(t, Catch(r, "TIMEOUT"))
    BY <1>6 DEF WorkReturns
  <2> HIDE DEF b
  <2>4. r.started /\ r.db = "open" /\ r.client = "lent"
    BY <1>1, <2>2 DEF Good, Marked, InStep, Released, Statements
  <2>5. Good(t, Send(b, "commit"))
    BY <1>3, <2>1, <2>2, <2>4
  <2>6. Good(t, Catch(r, "TIMEOUT"))
    BY <1>1, <2>2, <2>4, CatchIsGood DEF Statements
  <2> QED
    BY <2>3, <2>5, <2>6, BecomeKeeps
<1>7. ASSUME NEW o \in Outcomes, r.conn = "up", r.reply = "ok",
             (r.pc = "commit" /\ o = "OK") \/ (r.pc = "rollback" /\ o = r.outcome)
      PROVE  Good(t, Finish([r EXCEPT !.started = FALSE], o))
  <2> DEFINE b == [r EXCEPT !.started = FALSE]
  <2>1. /\ b \in CallStates /\ b.client = r.client /\ b.releases = r.releases
        /\ b.queued = r.queued /\ b.conn = r.conn /\ b.db = r.db
        /\ b.executing = r.executing
    BY <1>2 DEF CallStates
  <2> HIDE DEF b
  <2>2. o = "OK" => r.pc = "commit"
    BY <1>1, <1>7 DEF Good, Told
  <2>3. Settled(t, b, o)
    BY <1>1, <1>7, <2>1, <2>2 DEF Good, Settled, Released, InStep, Clean, Decided, Statements
  <2> QED
    BY <2>3, FinishIsGood DEF b
<1>8. CASE CommitReturns(t)
  <2>1. Become(t, Finish([r EXCEPT !.started = FALSE], "OK"))
    BY <1>8 DEF CommitReturns
  <2>2. r.conn = "up" /\ r.reply = "ok" /\ r.pc = "commit"
    BY <1>8 DEF CommitReturns, Replied
  <2>3. "OK" \in Outcomes
    BY DEF Outcomes
  <2>4. Good(t, Finish([r EXCEPT !.started = FALSE], "OK"))
    BY <1>7, <2>2, <2>3
  <2> QED
    BY <2>1, <2>4, BecomeKeeps
<1>9. CASE RollbackReturns(t)
  <2>1. Become(t, Finish([r EXCEPT !.started = FALSE], r.outcome))
    BY <1>9 DEF RollbackReturns
  <2>2. r.conn = "up" /\ r.reply = "ok" /\ r.pc = "rollback"
    BY <1>9 DEF RollbackReturns, Replied
  <2>3. r.outcome \in Outcomes
    BY <1>2 DEF CallStates
  <2>4. Good(t, Finish([r EXCEPT !.started = FALSE], r.outcome))
    BY <1>7, <2>2, <2>3
  <2> QED
    BY <2>1, <2>4, BecomeKeeps
<1> QED
  BY <1>4, <1>5, <1>6, <1>8, <1>9

\* The statements that fail or are lost.
LEMMA FailuresKeep ==
  ASSUME IInv, NEW t \in Calls,
         StatementFails(t) \/ StatementLost(t) \/ RollbackLost(t)
  PROVE  IInv'
<1> DEFINE r == call[t]
<1>1. Good(t, r)
  BY DEF IInv
<1>2. r \in CallStates
  BY <1>1 DEF Good
<1>3. CASE StatementFails(t)
  <2>1. PICK e : /\ r.pc \in Statements \ {"rollback"} /\ r.conn = "up"
                 /\ r.reply = "failed" \/ (r.pc = "work" /\ r.reply = "ok")
                 /\ Become(t, Catch(r, e))
    BY <1>3 DEF StatementFails, Replied
  <2>2. /\ r.db # "committed"
        /\ r.pc = "begin" => r.db = "none" /\ r.executing = "none"
    BY <1>1, <2>1 DEF Good, Released, InStep, Statements
  <2>3. Good(t, Catch(r, e))
    BY <1>1, <2>1, <2>2, CatchIsGood
  <2> QED
    BY <2>1, <2>3, BecomeKeeps
<1>4. CASE StatementLost(t)
  <2>1. /\ r.pc \in Statements \ {"rollback"} /\ r.conn = "broken"
        /\ Become(t, Catch(r, "other"))
    BY <1>4 DEF StatementLost
  <2>2. Good(t, Catch(r, "other"))
    BY <1>1, <2>1, CatchIsGood
  <2> QED
    BY <2>1, <2>2, BecomeKeeps
<1>5. CASE RollbackLost(t)
  <2> DEFINE error == RollbackError(r.outcome)
             b == [r EXCEPT !.outcome = error]
             d == Destroy(b)
  <2>1. r.pc = "rollback" /\ r.conn # "up"
    BY <1>5 DEF RollbackLost
  <2>2. error \in {"TIMEOUT", "ROLLBACK_FAILED"}
    BY DEF RollbackError
  <2>3. b = [r EXCEPT !.outcome = RollbackError(@)]
    BY <1>2 DEF CallStates
  <2> HIDE DEF error
  <2>4. /\ b \in CallStates /\ b.outcome = error /\ b.client = r.client
        /\ b.releases = r.releases /\ b.queued = r.queued /\ b.conn = r.conn
        /\ b.db = r.db /\ b.executing = r.executing
    BY <1>2, <2>2 DEF CallStates, Outcomes
  <2>5. Become(t, IF b.client = "lent" THEN waitForClientEnd(d) ELSE Finally(b))
    <3>1. IF b.client = "lent" THEN Become(t, waitForClientEnd(d)) ELSE Become(t, Finally(b))
      BY <1>5, <2>3 DEF RollbackLost
    <3> QED
      BY <3>1
  <2> HIDE DEF b
  <2>6. /\ d \in CallStates /\ d.client = "destroyed" /\ d.outcome = error
        /\ d.releases = r.releases + 1 /\ d.queued = r.queued /\ d.conn = r.conn
        /\ d.db = r.db /\ d.executing = r.executing
    BY <2>1, <2>4, DestroyFields
  <2> HIDE DEF d
  <2>7. CASE r.client = "lent"
    <3>1. Settled(t, d, d.outcome)
      BY <1>1, <2>1, <2>2, <2>6, <2>7 DEF Good, Settled, Released, Clean, Decided, Told, Outcomes
    <3>2. Good(t, waitForClientEnd(d))
      BY <2>2, <2>6, <3>1, WaitIsGood
    <3> QED
      BY <2>4, <2>5, <2>7, <3>2, BecomeKeeps
  <2>8. CASE r.client # "lent"
    <3>1. Settled(t, b, b.outcome)
      BY <1>1, <2>1, <2>2, <2>4, <2>8 DEF Good, Settled, Released, Clean, Decided, Told, Outcomes
    <3> QED
      BY <2>4, <2>5, <2>8, <3>1, FinallyIsGood, BecomeKeeps
  <2> QED
    BY <2>7, <2>8
<1> QED
  BY <1>3, <1>4, <1>5

\* Cancellation, and the end of the connection.
LEMMA CancellationKeeps ==
  ASSUME IInv, NEW t \in Calls, Abort(t) \/ End(t)
  PROVE  IInv'
<1> DEFINE r == call[t]
<1>1. Good(t, r)
  BY DEF IInv
<1>2. r \in CallStates
  BY <1>1 DEF Good
<1>3. CASE Abort(t)
  <2> DEFINE b == [r EXCEPT !.aborted = TRUE]
             k == [Destroy(b) EXCEPT !.ending = TRUE]
             o == [Destroy(b) EXCEPT !.outcome = "TIMEOUT"]
  <2>1. /\ b \in CallStates /\ b.pc = r.pc /\ b.outcome = r.outcome
        /\ b.client = r.client /\ b.releases = r.releases /\ b.queued = r.queued
        /\ b.conn = r.conn /\ b.db = r.db /\ b.executing = r.executing
        /\ b.listening = r.listening /\ b.started = r.started /\ b.reply = r.reply
    BY <1>2 DEF CallStates
  <2>2. r.pc \notin {"idle", "done"}
    BY <1>3 DEF Abort
  <2>3. Become(t, IF b.pc = "acquire" THEN Finish(b, "TIMEOUT") ELSE Cancel(b))
    <3>1. IF b.pc = "acquire" THEN Become(t, Finish(b, "TIMEOUT")) ELSE Become(t, Cancel(b))
      BY <1>3 DEF Abort
    <3> QED
      BY <3>1
  <2>4. Cancel(b) = IF ~b.listening \/ b.client # "lent" THEN b
                    ELSE IF b.pc = "rollback" THEN k ELSE waitForClientEnd(o)
    BY DEF Cancel
  <2> HIDE DEF b
  <2>5. CASE b.pc = "acquire"
    <3>1. Settled(t, b, "TIMEOUT")
      BY <1>1, <2>1, <2>5 DEF Good, Settled, Released, Clean, Decided, Outcomes
    <3> QED
      BY <2>3, <2>5, <3>1, FinishIsGood, BecomeKeeps
  <2>6. CASE b.pc # "acquire" /\ (~b.listening \/ b.client # "lent")
    <3>1. Released(b) /\ InStep(b) /\ Clean(b)
      BY <1>1, <2>1 DEF Good, Released, InStep, Clean
    <3>2. Marked(b) /\ Told(b) /\ Uncalled(b) /\ (t \notin ReadOnly => Decided(b))
      BY <1>1, <2>1 DEF Good, Marked, Told, Uncalled, Decided
    <3>3. Good(t, b)
      BY <2>1, <3>1, <3>2 DEF Good
    <3> QED
      BY <2>3, <2>4, <2>6, <3>3, BecomeKeeps
  <2>7. CASE b.pc # "acquire" /\ b.listening /\ b.client = "lent"
    <3> DEFINE d == Destroy(b)
    <3>1. /\ d \in CallStates /\ d.client = "destroyed" /\ d.pc = r.pc
          /\ d.outcome = r.outcome /\ d.releases = 1 /\ d.queued = r.queued
          /\ d.conn = IF r.conn = "up" THEN "destroyed" ELSE r.conn
          /\ d.db = r.db /\ d.executing = r.executing /\ d.started = r.started
          /\ d.listening
      BY <1>1, <2>1, <2>7, DestroyFields DEF Good, Released
    <3> HIDE DEF d
    <3>2. r.conn \in {"up", "broken"} /\ ~r.queued
      BY <1>1, <2>1, <2>7 DEF Good, Released
    <3>3. t \notin ReadOnly =>
            (r.db = "committed" \/ r.executing = "commit" => r.conn = "broken")
      BY <1>1, <2>1, <2>2, <2>7 DEF Good, Decided, Told
    <3>4. CASE r.pc = "rollback"
      <4>1. /\ k \in CallStates /\ k.client = "destroyed" /\ k.pc = "rollback"
            /\ k.outcome = r.outcome /\ k.releases = 1 /\ k.queued = r.queued
            /\ k.conn = d.conn /\ k.db = r.db /\ k.executing = r.executing
            /\ k.started = r.started
        <5>1. k = [d EXCEPT !.ending = TRUE]
          BY DEF d
        <5> HIDE DEF k
        <5> QED
          BY <3>1, <3>4, <5>1 DEF CallStates
      <4> HIDE DEF k
      <4>2. Released(k) /\ InStep(k) /\ Clean(k)
        BY <1>1, <3>1, <3>2, <3>4, <4>1 DEF Good, Released, InStep, Clean, Statements
      <4>3. Marked(k) /\ Told(k) /\ Uncalled(k) /\ (t \notin ReadOnly => Decided(k))
        BY <1>1, <3>1, <3>3, <3>4, <4>1 DEF Good, Marked, Told, Uncalled, Decided, Statements
      <4>4. Good(t, k)
        BY <4>1, <4>2, <4>3 DEF Good
      <4> QED
        BY <2>1, <2>3, <2>4, <2>7, <3>4, <4>4, BecomeKeeps
    <3>5. CASE r.pc # "rollback"
      <4>1. /\ o \in CallStates /\ o.client = "destroyed" /\ o.outcome = "TIMEOUT"
            /\ o.releases = 1 /\ o.queued = r.queued /\ o.conn = d.conn
            /\ o.db = r.db /\ o.executing = r.executing
        <5>1. o = [d EXCEPT !.outcome = "TIMEOUT"]
          BY DEF d
        <5> HIDE DEF o
        <5> QED
          BY <3>1, <5>1 DEF CallStates, Outcomes
      <4> HIDE DEF o
      <4>2. Settled(t, o, o.outcome)
        BY <1>1, <3>1, <3>2, <3>3, <4>1 DEF Settled, Clean, Outcomes
      <4>3. Good(t, waitForClientEnd(o))
        BY <4>1, <4>2, WaitIsGood
      <4> QED
        BY <2>1, <2>3, <2>4, <2>7, <3>5, <4>3, BecomeKeeps
    <3> QED
      BY <3>4, <3>5
  <2> QED
    BY <2>5, <2>6, <2>7
<1>4. CASE End(t)
  <2> DEFINE b == [r EXCEPT !.ended = TRUE]
  <2>1. /\ b \in CallStates /\ b.pc = r.pc /\ b.outcome = r.outcome
        /\ b.client = r.client /\ b.releases = r.releases /\ b.queued = r.queued
        /\ b.conn = r.conn /\ b.db = r.db /\ b.executing = r.executing
        /\ b.listening = r.listening /\ b.started = r.started /\ b.reply = r.reply
    BY <1>2 DEF CallStates
  <2>2. Become(t, IF b.pc = "awaitEnd" THEN Finally(b) ELSE b)
    BY <1>4 DEF End
  <2> HIDE DEF b
  <2>3. CASE b.pc = "awaitEnd"
    <3>1. b.outcome \in Outcomes
      BY <2>1 DEF CallStates
    <3>2. Settled(t, b, b.outcome)
      BY <1>1, <2>1, <2>3, <3>1 DEF Good, Settled, Released, Clean, Decided, Told, Statements
    <3> QED
      BY <2>2, <2>3, <3>2, FinallyIsGood, BecomeKeeps
  <2>4. CASE b.pc # "awaitEnd"
    <3>1. Released(b) /\ InStep(b) /\ Clean(b)
      BY <1>1, <2>1 DEF Good, Released, InStep, Clean
    <3>2. Marked(b) /\ Told(b) /\ Uncalled(b) /\ (t \notin ReadOnly => Decided(b))
      BY <1>1, <2>1 DEF Good, Marked, Told, Uncalled, Decided
    <3>3. Good(t, b)
      BY <2>1, <3>1, <3>2 DEF Good
    <3> QED
      BY <2>2, <2>4, <3>3, BecomeKeeps
  <2> QED
    BY <2>3, <2>4
<1> QED
  BY <1>3, <1>4

\* The server and the network.
LEMMA WorldKeeps ==
  ASSUME IInv, NEW t \in Calls,
         Execute(t) \/ ExecuteFails(t) \/ Break(t) \/ ServerRollsBack(t)
  PROVE  IInv'
<1> DEFINE r == call[t]
<1>1. Good(t, r)
  BY DEF IInv
<1>2. r \in CallStates
  BY <1>1 DEF Good
\* Only the reply, the transaction, the statement received and the connection change.
<1>3. ASSUME NEW b, b \in CallStates, Become(t, b),
             b.pc = r.pc, b.outcome = r.outcome, b.client = r.client,
             b.releases = r.releases, b.queued = r.queued, b.started = r.started,
             b.listening = r.listening,
             b.conn = "none" => b.client = "none" /\ b.executing = "none" /\ b.db = "none",
             r.client = "lent" => b.conn \in {"up", "broken"},
             r.client = "none" => b.conn = "none",
             InStep(b), Clean(b),
             r.outcome = "OK" => b.db = r.db /\ b.executing = r.executing,
             t \notin ReadOnly => Decided(b)
      PROVE  IInv'
  <2>1. Released(b)
    BY <1>1, <1>3 DEF Good, Released
  <2>2. Marked(b) /\ Told(b) /\ Uncalled(b)
    BY <1>1, <1>3 DEF Good, Marked, Told, Uncalled
  <2> QED
    BY <1>3, <2>1, <2>2, BecomeKeeps DEF Good
<1>4. CASE Execute(t) \/ ExecuteFails(t)
  <2> DEFINE x == r.executing
  <2>1. PICK d \in {"none", "open", "committed", "rolledBack"}, reply \in {"ok", "failed"} :
          /\ x # "none"
          /\ Become(t, [r EXCEPT !.executing = "none", !.reply = reply, !.db = d])
          /\ reply = "ok" /\ x = "begin" => d = "open"
          /\ reply = "failed" /\ x # "commit" => d = r.db
          /\ x \in {"settings", "work"} => d = r.db
          /\ x = "commit" => d = IF reply = "ok" THEN "committed" ELSE "rolledBack"
          /\ x = "rollback" => d = (IF r.db = "open" THEN "rolledBack" ELSE r.db) /\ reply = "ok"
    <3> DEFINE done(reply) == [r EXCEPT !.executing = "none", !.reply = reply]
    <3>1. ASSUME NEW d \in {"none", "open", "committed", "rolledBack"},
                 NEW reply \in {"ok", "failed"}
          PROVE  [done(reply) EXCEPT !.db = d]
                   = [r EXCEPT !.executing = "none", !.reply = reply, !.db = d]
      BY <1>2 DEF CallStates
    <3>2. ASSUME NEW reply \in {"ok", "failed"}
          PROVE  /\ done(reply) = [r EXCEPT !.executing = "none", !.reply = reply, !.db = r.db]
                 /\ done(reply).db = r.db
      BY <1>2 DEF CallStates
    <3>3. r.db \in {"none", "open", "committed", "rolledBack"} /\ x \in {"none"} \cup Statements
      BY <1>2 DEF CallStates
    <3>4. CASE Execute(t)
      <4>1. /\ x # "none"
            /\ \/ x = "begin" /\ Become(t, [done("ok") EXCEPT !.db = "open"])
               \/ x \in {"settings", "work"} /\ Become(t, done("ok"))
               \/ x = "commit" /\ Become(t, [done("ok") EXCEPT !.db = "committed"])
               \/ x = "rollback" /\ Become(t, [done("ok") EXCEPT !.db =
                                       IF r.db = "open" THEN "rolledBack" ELSE r.db])
        <5>1. [done("ok") EXCEPT !.db = IF @ = "open" THEN "rolledBack" ELSE @]
                = [done("ok") EXCEPT !.db = IF r.db = "open" THEN "rolledBack" ELSE r.db]
          BY <3>2
        <5> QED
          BY <3>4, <5>1 DEF Execute
      <4>2. PICK d \in {"none", "open", "committed", "rolledBack"} :
              /\ Become(t, [done("ok") EXCEPT !.db = d])
              /\ x = "begin" => d = "open"
              /\ x \in {"settings", "work"} => d = r.db
              /\ x = "commit" => d = "committed"
              /\ x = "rollback" => d = IF r.db = "open" THEN "rolledBack" ELSE r.db
        <5>1. [done("ok") EXCEPT !.db = r.db] = done("ok")
          BY <3>1, <3>2, <3>3
        <5> HIDE DEF done
        <5> QED
          BY <3>3, <4>1, <5>1 DEF Statements
      <4> QED
        BY <3>1, <4>1, <4>2
    <3>5. CASE ExecuteFails(t)
      <4>1. /\ x \in Statements \ {"rollback"}
            /\ Become(t, IF x = "commit" THEN [done("failed") EXCEPT !.db = "rolledBack"]
                         ELSE done("failed"))
        BY <3>5 DEF ExecuteFails
      <4> QED
        BY <3>1, <3>2, <3>3, <4>1 DEF Statements
    <3> QED
      BY <1>4, <3>4, <3>5
  <2> DEFINE b == [r EXCEPT !.executing = "none", !.reply = reply, !.db = d]
  <2>2. /\ b \in CallStates /\ b.pc = r.pc /\ b.outcome = r.outcome
        /\ b.client = r.client /\ b.releases = r.releases /\ b.queued = r.queued
        /\ b.started = r.started /\ b.listening = r.listening /\ b.conn = r.conn
        /\ b.executing = "none" /\ b.reply = reply /\ b.db = d
    BY <1>2 DEF CallStates
  <2>3. Become(t, b)
    BY <2>1
  <2> HIDE DEF b
  <2>4. r.client # "returned" /\ r.conn # "none" /\ r.outcome # "OK"
    BY <1>1, <2>1 DEF Good, Clean, Released, Told
  <2>5. r.client = "lent" /\ r.conn = "up" => r.reply = "none" /\ r.pc = x /\ x \in Statements
    BY <1>1, <2>1 DEF Good, InStep
  <2>6. InStep(b)
    <3>1. CASE r.client = "lent" /\ r.conn = "up"
      BY <1>1, <2>1, <2>2, <2>5, <3>1 DEF Good, InStep, Statements
    <3> QED
      BY <2>2, <3>1 DEF InStep
  <2>7. Clean(b)
    BY <2>2, <2>4 DEF Clean
  <2>8. t \notin ReadOnly => Decided(b)
    <3>1. CASE x = "commit"
      BY <1>1, <2>2, <2>4, <3>1 DEF Good, Decided
    <3>2. CASE x # "commit"
      <4>1. d = "committed" => r.db = "committed"
        BY <1>2, <2>1, <3>2 DEF CallStates, Statements
      <4> QED
        BY <1>1, <2>2, <4>1 DEF Good, Decided
    <3> QED
      BY <3>1, <3>2
  <2>9. /\ b.conn = "none" => b.client = "none" /\ b.executing = "none" /\ b.db = "none"
        /\ r.client = "lent" => b.conn \in {"up", "broken"}
        /\ r.client = "none" => b.conn = "none"
    BY <1>1, <2>2, <2>4 DEF Good, Released
  <2> QED
    BY <1>3, <2>2, <2>3, <2>4, <2>6, <2>7, <2>8, <2>9
<1>5. CASE Break(t)
  <2>1. PICK e \in {"none", r.executing} :
          Become(t, [r EXCEPT !.conn = "broken", !.executing = e])
    BY <1>5 DEF Break
  <2> DEFINE b == [r EXCEPT !.conn = "broken", !.executing = e]
  <2>2. /\ b \in CallStates /\ b.pc = r.pc /\ b.outcome = r.outcome
        /\ b.client = r.client /\ b.releases = r.releases /\ b.queued = r.queued
        /\ b.started = r.started /\ b.listening = r.listening /\ b.conn = "broken"
        /\ b.db = r.db
    BY <1>2 DEF CallStates
  <2>3. Become(t, b) /\ r.client = "lent"
    BY <1>5, <2>1 DEF Break
  <2> HIDE DEF b
  <2>4. InStep(b) /\ Clean(b) /\ Decided(b)
    BY <2>2, <2>3 DEF InStep, Clean, Decided
  <2>5. r.outcome # "OK"
    BY <1>1, <2>3 DEF Good, Told, Released
  <2> QED
    BY <1>3, <2>2, <2>3, <2>4, <2>5
<1>6. CASE ServerRollsBack(t)
  <2> DEFINE b == [r EXCEPT !.db = "rolledBack"]
  <2>1. /\ b \in CallStates /\ b.pc = r.pc /\ b.outcome = r.outcome
        /\ b.client = r.client /\ b.releases = r.releases /\ b.queued = r.queued
        /\ b.started = r.started /\ b.listening = r.listening /\ b.conn = r.conn
        /\ b.executing = r.executing /\ b.db = "rolledBack"
    BY <1>2 DEF CallStates
  <2>2. /\ Become(t, b) /\ r.conn \in {"broken", "destroyed"} /\ r.executing = "none"
        /\ r.db = "open"
    BY <1>6 DEF ServerRollsBack
  <2> HIDE DEF b
  <2>3. InStep(b) /\ Clean(b) /\ Decided(b)
    BY <1>1, <2>1, <2>2 DEF Good, InStep, Clean, Decided
  <2>4. r.outcome # "OK"
    BY <1>1, <2>2 DEF Good, Told
  <2>5. /\ r.client = "lent" => b.conn \in {"up", "broken"}
        /\ r.client = "none" => b.conn = "none"
        /\ b.conn # "none"
    BY <1>1, <2>1, <2>2 DEF Good, Released
  <2> QED
    BY <1>3, <2>1, <2>2, <2>3, <2>4, <2>5
<1> QED
  BY <1>4, <1>5, <1>6

LEMMA NextKeeps ==
  ASSUME IInv, [Next]_call
  PROVE  IInv'
<1>1. CASE UNCHANGED call
  BY <1>1 DEF IInv
<1>2. CASE Next
  <2>1. PICK t \in Calls : Step(t)
    BY <1>2 DEF Next
  <2>2. CASE Call(t) \/ AcquireTimeout(t) \/ ConnectFails(t) \/ Borrow(t)
    BY <2>2, BorrowingKeeps
  <2>3. CASE \/ BeginReturns(t) \/ SettingsReturn(t) \/ WorkReturns(t)
             \/ CommitReturns(t) \/ RollbackReturns(t)
    BY <2>3, StatementsKeep
  <2>4. CASE StatementFails(t) \/ StatementLost(t) \/ RollbackLost(t)
    BY <2>4, FailuresKeep
  <2>5. CASE Abort(t) \/ End(t)
    BY <2>5, CancellationKeeps
  <2>6. CASE Execute(t) \/ ExecuteFails(t) \/ Break(t) \/ ServerRollsBack(t)
    BY <2>6, WorldKeeps
  <2> QED
    BY <2>1, <2>2, <2>3, <2>4, <2>5, <2>6 DEF Step, Progress
<1> QED
  BY <1>1, <1>2

LEMMA RuntimeInvariant == Spec => []IInv
<1>1. Init => IInv
  <2> SUFFICES ASSUME Init PROVE IInv
    OBVIOUS
  <2>1. call = [t \in Calls |-> NoCall]
    BY DEF Init
  <2>2. \A t \in Calls : Good(t, NoCall)
    <3>1. NoCall \in CallStates
      BY DEF NoCall, CallStates, Outcomes, Statements
    <3>2. Released(NoCall) /\ InStep(NoCall) /\ Clean(NoCall)
      BY DEF NoCall, Released, InStep, Clean, Statements
    <3>3. Marked(NoCall) /\ Told(NoCall) /\ Uncalled(NoCall) /\ Decided(NoCall)
      BY DEF NoCall, Marked, Told, Uncalled, Decided, Statements
    <3> QED
      BY <3>1, <3>2, <3>3 DEF Good
  <2>3. \A t \in Calls : call[t] = NoCall
    BY <2>1
  <2>4. call = [t \in Calls |-> call[t]]
    BY <2>1
  <2> QED
    BY <2>2, <2>3, <2>4 DEF IInv
<1>2. IInv /\ [Next]_call => IInv'
  BY NextKeeps
<1> QED
  BY <1>1, <1>2, PTL DEF Spec

(***************************************************************************)
(* The properties                                                          *)
(***************************************************************************)
\* Every call's record is always one of CallStates, whatever transaction() meets.
THEOREM RuntimeTypeOK == Spec => []TypeOK
<1>1. IInv => TypeOK
  BY DEF IInv, TypeOK, Good
<1> QED
  BY <1>1, RuntimeInvariant, PTL

\* transaction() releases every client it borrows once and never twice.
THEOREM RuntimeReleasedOnce == Spec => []ReleasedOnce
<1>1. IInv => ReleasedOnce
  BY DEF IInv, ReleasedOnce, Good, Released
<1> QED
  BY <1>1, RuntimeInvariant, PTL

\* transaction() returns a client to the pool only with its transaction over.
THEOREM RuntimeCleanWhenReturned == Spec => []CleanWhenReturned
<1>1. IInv => CleanWhenReturned
  BY DEF IInv, CleanWhenReturned, Good, Clean
<1> QED
  BY <1>1, RuntimeInvariant, PTL

\* transaction() returns its result only when the server has committed.
THEOREM RuntimeSuccessIsCommitted == Spec => []SuccessIsCommitted
<1>1. IInv => SuccessIsCommitted
  BY DEF IInv, SuccessIsCommitted, Good, Told
<1> QED
  BY <1>1, RuntimeInvariant, PTL

\* A write that transaction() reports as timed out is not committed, then or
\* later, unless its connection broke during COMMIT.
THEOREM RuntimeTimeoutsDidNotCommit == Spec => []TimeoutsDidNotCommit
<1>1. IInv => TimeoutsDidNotCommit
  <2> SUFFICES ASSUME IInv, NEW t \in Calls \ ReadOnly,
                      call[t].outcome = "TIMEOUT", call[t].db = "committed"
               PROVE  call[t].conn = "broken"
    BY DEF TimeoutsDidNotCommit
  <2> QED
    BY DEF IInv, Good, Decided
<1> QED
  BY <1>1, RuntimeInvariant, PTL
=============================================================================
