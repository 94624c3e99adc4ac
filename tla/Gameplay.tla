------------------------------ MODULE Gameplay ------------------------------
(***************************************************************************)
(* The gameplay transactions of packages/database/src/gameplay run by a    *)
(* set of concurrent connections against one PostgreSQL database.  Every   *)
(* transaction that can write takes the guest's row lock first, checks the *)
(* session, looks up the receipt of its idempotency key, samples the clock *)
(* after the lock, drafts its rows and commits; it may be cut off at any   *)
(* point, and the clock moves between any two of its steps.                *)
(***************************************************************************)
EXTENDS GuestLedger

Sets == INSTANCE FiniteSetsExt

CONSTANTS
  Guests,       \* guest identities
  Conns,        \* database connections, one request each at a time
  None,         \* nobody holds the lock, no guest, no key
  Requests,     \* the requests clients may send, see RequestShapes
  Expiries,     \* times at which a guest's session may expire
  MaxTime       \* bound of the clock in a run

\* Reads have no key; their command names the kind and the attempt.
Reads == [kind : {"READ_CURRENT", "READ_ATTEMPT", "READ_PROFILE"},
          attempt : AttemptIds \cup {NoAttempt}, version : {0},
          entity : {"none"}]
RequestShapes == [key : Keys, command : Commands]
                 \cup [key : {None}, command : Reads]

ASSUME GameplayAssumption ==
  /\ None \notin Guests \cup Keys \cup Conns
  /\ Requests \subseteq RequestShapes
  /\ Expiries \subseteq Nat /\ MaxTime \in Nat

VARIABLES
  ledger,       \* committed rows, per guest
  expiresAt,    \* guest_sessions.expires_at; one session per guest
  guestLock,    \* holder of the row lock on guests, per guest
  tx,           \* what each connection's transaction is doing
  now           \* the database clock

vars == <<ledger, expiresAt, guestLock, tx, now>>

NoCommand == [kind |-> "NONE", attempt |-> NoAttempt, version |-> 0,
              entity |-> "none"]
NoRequest == [key |-> None, command |-> NoCommand]
NoAnswer == [ok |-> FALSE, code |-> "NONE", attempt |-> NoAttempt]

Idle == [pc |-> "idle", guest |-> None, begunAt |-> 0, request |-> NoRequest,
         sampledAt |-> 0, draft |-> EmptyLedger, answer |-> NoAnswer]

Init ==
  /\ ledger = [g \in Guests |-> EmptyLedger]
  /\ expiresAt \in [Guests -> Expiries]
  /\ guestLock = [g \in Guests |-> None]
  /\ tx = [c \in Conns |-> Idle]
  /\ now = 0

At(c, pc) == tx[c].pc = pc
Committed(c) == ledger[tx[c].guest]

\* A request is drawn from Requests by the step that first looks at what it
\* asks for: until then a transaction knows only its guest and session.
Mutations == {rq \in Requests : rq.key # None}
ReadsOf(kind) == {rq \in Requests : rq.command.kind = kind}

\* A slip: PostgreSQL's now(), which is the time of BEGIN.
transactionStart(c) == tx[c].begunAt

\* clock_timestamp(): the wall clock, not the transaction's start.
databaseNow(c) == now

sessionIsLive(c) == expiresAt[tx[c].guest] > now

\* Ids no row has, committed or about to be: randomUUID never repeats.
UnusedIds ==
  {a \in AttemptIds : /\ \A g \in Guests : ~Exists(ledger[g], a)
                      /\ \A c \in Conns : ~Exists(tx[c].draft, a)}

\* A slip: the key is not looked up.
noPrior(c, rq) == NoReceipt

\* The receipt committed for a request's key.
Prior(c, rq) == Committed(c).receipts[rq.key]

(***************************************************************************)
(* Steps of a transaction.  Answer and AwaitReceipt say what a step leaves *)
(* in the transaction of connection c.                                     *)
(***************************************************************************)
Keep == UNCHANGED <<ledger, expiresAt, now>>

Draft(c, pc, rq, L, answer) ==
  /\ tx' = [tx EXCEPT ![c] = [@ EXCEPT !.pc = pc, !.request = rq, !.draft = L,
                                       !.sampledAt = databaseNow(c),
                                       !.answer = answer]]
  /\ UNCHANGED guestLock
  /\ Keep

Answer(c, rq, L, ok, code, id) ==
  Draft(c, "answered", rq, L, [ok |-> ok, code |-> code, attempt |-> id])

Reject(c, rq, L, code, id) == Answer(c, rq, L, FALSE, code, id)

\* A slip: a played command is answered before its receipt is written.
answerAtOnce(c, rq, L, id) ==
  Answer(c, rq, L, TRUE, committedOutcome(rq.command), id)

AwaitReceipt(c, rq, L, id) ==
  Draft(c, "writing", rq, L, [ok |-> TRUE, attempt |-> id,
                              code |-> committedOutcome(rq.command)])

GoTo(c, pc) == tx' = [tx EXCEPT ![c].pc = pc]

Unlock(c) ==
  guestLock' = [g \in Guests |-> IF guestLock[g] = c THEN None
                                                     ELSE guestLock[g]]

\* BEGIN.
Begin(c, g) ==
  /\ At(c, "idle")
  /\ tx' = [tx EXCEPT ![c].pc = "begun", ![c].guest = g, ![c].begunAt = now]
  /\ UNCHANGED guestLock
  /\ Keep

\* readCurrentCase looks up revision and attempt before any lock; without
\* either it answers at once (NO_CASE, NOT_STARTED) and commits nothing.
PeekCurrent(c) ==
  /\ At(c, "begun")
  /\ \E rq \in ReadsOf("READ_CURRENT") :
       LET found == UNION {AttemptsOf(Committed(c), s) :
                             s \in currentRevision(databaseNow(c))}
       IN IF found = {} THEN tx' = [tx EXCEPT ![c] = Idle]
          ELSE \E id \in found :
                 tx' = [tx EXCEPT ![c].pc = "peeked",
                                  ![c].request = [rq EXCEPT !.command.attempt = id]]
  /\ UNCHANGED guestLock
  /\ Keep

\* A slip: the SELECT without FOR UPDATE.
lookAtGuest(c) ==
  guestLock' = [guestLock EXCEPT ![tx[c].guest] = c]

\* SELECT ... FROM guests WHERE id = $1 FOR UPDATE.
lockGuest(c) ==
  /\ guestLock[tx[c].guest] = None
  /\ guestLock' = [guestLock EXCEPT ![tx[c].guest] = c]

Lock(c) ==
  /\ \/ At(c, "begun") /\ GoTo(c, "locked")
     \/ At(c, "peeked") /\ GoTo(c, "reading")
  /\ lockGuest(c)
  /\ Keep

CheckSession(c) ==
  /\ At(c, "locked")
  /\ \/ /\ sessionIsLive(c)
        /\ GoTo(c, "admitted")
        /\ UNCHANGED guestLock
        /\ Keep
     \/ /\ ~sessionIsLive(c)
        /\ Reject(c, NoRequest, Committed(c), "SESSION_EXPIRED", NoAttempt)

\* A slip: the replay answers with the attempt as stored.
replayAsStored(c) ==
  /\ At(c, "admitted")
  /\ \E rq \in Mutations :
       LET prior == Prior(c, rq)
       IN /\ prior # NoReceipt
          /\ IF prior.command = rq.command
             THEN Answer(c, rq, Committed(c), TRUE, prior.outcome, prior.attempt)
             ELSE Reject(c, rq, Committed(c), "IDEMPOTENCY_CONFLICT", NoAttempt)

\* A receipt for the key: the same command is answered from it, against the
\* attempt as it is now; another command is a conflict.
ReplayReceipt(c) ==
  /\ At(c, "admitted")
  /\ \E rq \in Mutations :
       LET prior == Prior(c, rq)
       IN /\ prior # NoReceipt
          /\ IF prior.command = rq.command
             THEN Answer(c, rq, expireIfClosed(Committed(c), prior.attempt,
                                               databaseNow(c)),
                         TRUE, prior.outcome, prior.attempt)
             ELSE Reject(c, rq, Committed(c), "IDEMPOTENCY_CONFLICT", NoAttempt)

StartAttempt(c) ==
  /\ At(c, "admitted")
  /\ \E rq \in Mutations :
       /\ Prior(c, rq) = NoReceipt /\ rq.command.kind = "START"
       /\ LET t == databaseNow(c)
              L == Committed(c)
          IN \/ /\ currentRevision(t) = {}
                /\ Reject(c, rq, L, "NO_CASE", NoAttempt)
             \/ \E slot \in currentRevision(t) :
                \E id \in startedIds(L, slot, UnusedIds) :
                  AwaitReceipt(c, rq, openAttempt(L, id, slot, t), id)

ExecuteCommand(c) ==
  /\ At(c, "admitted")
  /\ \E rq \in Mutations :
       LET id == rq.command.attempt
           t == databaseNow(c)
           L == expireIfClosed(Committed(c), id, t)
           code == rejection(L, rq.command)
       IN /\ Prior(c, rq) = NoReceipt /\ rq.command.kind # "START"
          /\ CASE ~Exists(Committed(c), id) ->
                    Reject(c, rq, Committed(c), "UNKNOWN_ATTEMPT", NoAttempt)
               [] Exists(Committed(c), id) /\ code # "NONE" ->
                    Reject(c, rq, L, code, id)
               [] OTHER -> AwaitReceipt(c, rq, playCommand(L, rq.command, t), id)

\* readOwnedAttempt, and readCurrentCase once it has the lock.
ReadAttempt(c) ==
  \E rq \in ReadsOf("READ_ATTEMPT") \cup {tx[c].request} :
    LET id == rq.command.attempt
    IN /\ \/ At(c, "locked") /\ rq.command.kind = "READ_ATTEMPT"
          \/ At(c, "reading") /\ rq = tx[c].request
       /\ IF Exists(Committed(c), id)
          THEN Answer(c, rq, expireIfClosed(Committed(c), id, databaseNow(c)),
                      TRUE, "VIEW", id)
          ELSE Reject(c, rq, Committed(c), "UNKNOWN_ATTEMPT", NoAttempt)

\* readProfile locks the guest's open attempts, samples, and passes each of
\* them through expireIfClosed in slot order before it aggregates.
ReadProfile(c) ==
  /\ At(c, "locked")
  /\ \E rq \in ReadsOf("READ_PROFILE") :
       Draft(c, "expiring", rq, Committed(c), NoAnswer)

ElapsedAttempts(L, t) ==
  {a \in AttemptIds : L.attempts[a].state = "ACTIVE"
                      /\ t >= ClosesAt(L.attempts[a].slot)}

ExpireNext(c) ==
  /\ At(c, "expiring")
  /\ LET L == tx[c].draft
         left == ElapsedAttempts(L, tx[c].sampledAt)
     IN \/ \E id \in left :
             /\ \A a \in left : L.attempts[id].slot <= L.attempts[a].slot
             /\ tx' = [tx EXCEPT ![c].draft =
                                   expireIfClosed(L, id, tx[c].sampledAt)]
        \/ /\ left = {}
           /\ tx' = [tx EXCEPT ![c].pc = "answered",
                               ![c].answer = [ok |-> TRUE, code |-> "PROFILE",
                                              attempt |-> NoAttempt]]
  /\ UNCHANGED guestLock
  /\ Keep

\* INSERT INTO command_receipts; its trigger checks the session once more, at
\* the time of the insert, and fails the transaction when it has expired.
receiptAdmitted(c) == expiresAt[tx[c].guest] > now

\* A slip: the refusal is caught at a savepoint and the command committed.
refusalSwallowed(c) ==
  /\ At(c, "writing")
  /\ tx' = [tx EXCEPT ![c].pc = "answered",
                      ![c].draft = IF ~receiptAdmitted(c) THEN @
                                   ELSE insertReceipt(@, tx[c].request.key,
                                                      tx[c].request.command,
                                                      tx[c].answer.attempt, now)]
  /\ UNCHANGED guestLock
  /\ Keep

InsertReceipt(c) ==
  /\ At(c, "writing")
  /\ receiptAdmitted(c)
  /\ tx' = [tx EXCEPT ![c].pc = "answered",
                      ![c].draft = insertReceipt(@, tx[c].request.key,
                                                 tx[c].request.command,
                                                 tx[c].answer.attempt, now)]
  /\ UNCHANGED guestLock
  /\ Keep

\* COMMIT: rejections too commit what expireIfClosed did on their way.
Commit(c) ==
  /\ At(c, "answered")
  /\ ledger' = [ledger EXCEPT ![tx[c].guest] = tx[c].draft]
  /\ tx' = [tx EXCEPT ![c] = Idle]
  /\ Unlock(c)
  /\ UNCHANGED <<expiresAt, now>>

\* ROLLBACK, or the end of the connection: a refused receipt, a lock or
\* statement timeout, the request's deadline, a crash of the API process.
Abort(c) ==
  /\ ~At(c, "idle")
  /\ tx' = [tx EXCEPT ![c] = Idle]
  /\ Unlock(c)
  /\ Keep

Tick ==
  /\ now < MaxTime
  /\ now' = now + 1
  /\ UNCHANGED <<ledger, expiresAt, guestLock, tx>>

\* What a connection does of itself once a request has begun.
Advance(c) ==
  \/ PeekCurrent(c) \/ Lock(c) \/ CheckSession(c) \/ ReplayReceipt(c)
  \/ StartAttempt(c) \/ ExecuteCommand(c) \/ ReadAttempt(c) \/ ReadProfile(c)
  \/ ExpireNext(c) \/ InsertReceipt(c) \/ Commit(c)

Next ==
  \/ \E c \in Conns : Advance(c) \/ Abort(c) \/ \E g \in Guests : Begin(c, g)
  \/ Tick

Spec == Init /\ [][Next]_vars

(***************************************************************************)
(* Fairness.  Every statement of a transaction returns: it succeeds, or it *)
(* fails at the lock_timeout that transaction() sets, or because the       *)
(* receipt's trigger refuses it, and the transaction then rolls back.      *)
(* Nothing obliges a client to send requests or the clock to move.         *)
(***************************************************************************)
\* A slip: no lock_timeout, a wait has no end.
neverTimesOut(c) == FALSE

TimeOut(c) == (At(c, "begun") \/ At(c, "peeked")) /\ Abort(c)
Refused(c) == At(c, "writing") /\ ~receiptAdmitted(c) /\ Abort(c)

Fairness == \A c \in Conns : WF_vars(Advance(c) \/ TimeOut(c) \/ Refused(c))
FairSpec == Spec /\ Fairness

(***************************************************************************)
(* Properties                                                              *)
(***************************************************************************)
Pcs == {"idle", "begun", "peeked", "locked", "reading", "admitted",
        "expiring", "writing", "answered"}
Codes ==
  Outcomes \cup {"NONE", "VIEW", "PROFILE", "SESSION_EXPIRED", "NO_CASE",
                "IDEMPOTENCY_CONFLICT", "UNKNOWN_ATTEMPT", "TERMINAL_ATTEMPT",
                "STALE_VERSION", "UNKNOWN_ENTITY", "EVIDENCE_LIMIT"}
Answers == [ok : BOOLEAN, code : Codes, attempt : AttemptIds \cup {NoAttempt}]
Transactions ==
  [pc : Pcs, guest : Guests \cup {None}, begunAt : Nat,
   request : RequestShapes \cup {NoRequest}, sampledAt : Nat, draft : Ledgers,
   answer : Answers]

\* The variables hold what their declarations say; a draft is a whole ledger.
TypeOK ==
  /\ ledger \in [Guests -> Ledgers]
  /\ expiresAt \in [Guests -> Nat]
  /\ guestLock \in [Guests -> Conns \cup {None}]
  /\ tx \in [Conns -> Transactions]
  /\ now \in Nat

Drafts == {tx[c].draft : c \in Conns}
Books == {ledger[g] : g \in Guests} \cup Drafts

\* Whatever the interleaving, no statement of a transaction runs into a CHECK
\* or UNIQUE constraint of the schema: drafts fit it as committed rows do.
NoConstraintFails == \A L \in Books : WithinConstraints(L)

\* A guest has one attempt per slot however often and concurrently it is
\* started, and every START receipt of the guest names one that exists.
OneAttemptPerSlot ==
  \A L \in Books :
    /\ \A s \in Slots : Cardinality(AttemptsOf(L, s)) <= 1
    /\ \A k \in Keys :
         L.receipts[k] # NoReceipt => Exists(L, L.receipts[k].attempt)

\* Finalization happens once and completely: the terminal row, its
\* finalization, its contributions and its leaderboard entry come together,
\* whether a command, a replay, a read or the profile found the attempt over.
FinalizedOnce == \A L \in Books, a \in AttemptIds : ClosedOnce(L, a)

\* A region's stored knowledge is the prior plus the guest's contributions,
\* each counted once: finalize accumulates it by increments.
KnowledgeIsTheSum ==
  \A L \in Books, r \in Regions :
    LET mine == {x \in L.contributions : x.region = r}
    IN L.knowledge[r] =
         [alpha |-> 200 + Sets!MapThenSumSet(LAMBDA x : x.alpha, mine),
          beta |-> 200 + Sets!MapThenSumSet(LAMBDA x : 100 - x.alpha, mine),
          samples |-> Cardinality(mine)]

\* The guess rows of every attempt agree with its counters, in number, order,
\* correctness and evidence, although the two are written by two statements.
GuessesMatchAttempts ==
  \A L \in Books, a \in AttemptIds : GuessesTellTheStory(L, a)

\* Committed versions form an unbroken history of receipts: no move without
\* its receipt, no receipt without its move, none applied twice.
VersionsMatchReceipts ==
  \A g \in Guests, a \in AttemptIds : VersionCountsMoves(ledger[g], a)

\* No effect on an attempt is dated outside its window, however long after
\* the request or the commit the statement ran; and the days a guest played,
\* from which the streaks are computed, are exactly the slots guessed at.
EffectsInsideWindow ==
  \A L \in Books :
    /\ \A a \in AttemptIds : InsideWindow(L, a)
    /\ L.days = {L.attempts[x.attempt].slot : x \in L.guesses}

\* A mutation is answered "ok" only on a receipt of that very command under
\* that key, with the outcome first committed: a retry learns nothing else.
AnswersMatchReceipts ==
  \A c \in Conns :
    LET t == tx[c]
        r == t.draft.receipts[t.request.key]
    IN At(c, "answered") /\ t.request.key # None /\ t.answer.ok =>
         /\ r # NoReceipt
         /\ r.command = t.request.command
         /\ r.outcome = t.answer.code /\ r.attempt = t.answer.attempt

\* Attempts, guesses, receipts and answers tell one story, whatever is retried,
\* raced or cut off: three tables written by separate statements, and what
\* the client is told of them.
BookMatchesReceipts ==
  GuessesMatchAttempts /\ VersionsMatchReceipts /\ AnswersMatchReceipts

\* No answer shows an attempt as open that was over when the clock was read,
\* and no profile is computed while one of the guest's attempts is.
NoElapsedAttemptShownOpen ==
  \A c \in Conns :
    LET L == tx[c].draft
        left == ElapsedAttempts(L, tx[c].sampledAt)
    IN At(c, "answered") =>
         /\ tx[c].answer.attempt \notin left
         /\ tx[c].answer.code = "PROFILE" => left = {}

\* A rejection, a replay and a read change nothing but what time has closed:
\* no guess, receipt, day or leaderboard entry comes of them.
OnlyNewReceiptsPlay ==
  \A c \in Conns :
    At(c, "answered") /\ tx[c].draft.receipts = Committed(c).receipts =>
      /\ tx[c].draft.guesses = Committed(c).guesses
      /\ tx[c].draft.days = Committed(c).days
      /\ tx[c].draft.board = Committed(c).board
      /\ \A a \in AttemptIds :
           tx[c].draft.attempts[a] # Committed(c).attempts[a] =>
             tx[c].draft.attempts[a].state = "EXPIRED"

\* A transaction that has looked at rows holds its guest's lock and no other,
\* and nobody holds a lock without being in such a transaction.
LockIsHeld ==
  \A c \in Conns, g \in Guests :
    guestLock[g] = c <=>
      /\ tx[c].guest = g
      /\ tx[c].pc \notin {"idle", "begun", "peeked"}

\* A finished attempt never changes again: not its state, not its counters,
\* not its version, not its date.
FinishedForever ==
  [][\A g \in Guests : KeepsFinished(ledger[g], ledger'[g])]_vars

\* No commit undoes another: rows of the append-only tables stay, and an
\* attempt keeps its slot while its version and evidence never go back.
NothingIsLost == [][\A g \in Guests : Grows(ledger[g], ledger'[g])]_vars

\* A command whose receipt the trigger refuses, because its session ended while
\* it ran, leaves nothing behind: no commit opens an attempt, moves it, guesses
\* at it or ranks it but with a receipt for it that was not there before, was
\* written after the rows it vouches for and before the end of the session.
RefusedLeavesNoRows ==
  [][\A g \in Guests : \A a \in PlayedBetween(ledger[g], ledger'[g]) :
       \E k \in Keys :
         LET r == ledger'[g].receipts[k]
         IN /\ ledger[g].receipts[k] = NoReceipt /\ r # NoReceipt
            /\ r.attempt = a /\ r.at < expiresAt[g]
            /\ ledger'[g].attempts[a].updatedAt <= r.at
            /\ \A x \in GuessesOf(ledger'[g], a) : x.at <= r.at]_vars

\* An attempt's rows are dated in the order they were committed: the clock is
\* read after the lock, so a transaction that waited does not write the past.
CommitsInTimeOrder ==
  [][\A g \in Guests, a \in AttemptIds :
       Exists(ledger[g], a) =>
         /\ ledger[g].attempts[a].updatedAt <= ledger'[g].attempts[a].updatedAt
         /\ \A x \in GuessesOf(ledger'[g], a) \ GuessesOf(ledger[g], a) :
              x.at >= ledger[g].attempts[a].updatedAt]_vars

\* Every request that has begun ends, answered or rolled back: nobody waits
\* for ever behind another request of the same guest.
RequestsEnd == \A c \in Conns : At(c, "begun") ~> At(c, "idle")

(***************************************************************************)
(* The promise of GameBook, read off the committed rows: a guest's game of *)
(* a slot is the attempt of that slot; its moves are its version less the  *)
(* expiry; the standing is what finalizations and leaderboard count.       *)
(***************************************************************************)
RowOf(g, s) ==
  IF AttemptsOf(ledger[g], s) = {} THEN NoRow
  ELSE ledger[g].attempts[CHOOSE a \in AttemptsOf(ledger[g], s) : TRUE]

bookSpent(g, k) ==
  LET r == ledger[g].receipts[k]
  IN IF r = NoReceipt THEN [slot |-> -1, outcome |-> "NONE"]
     ELSE [slot |-> ledger[g].attempts[r.attempt].slot, outcome |-> r.outcome]

Book == INSTANCE GameBook WITH
  Budget <- AllWrong,
  game <- [g \in Guests |-> [s \in Slots |-> RowOf(g, s).state]],
  moves <- [g \in Guests |-> [s \in Slots |->
              RowOf(g, s).version
              - (IF RowOf(g, s).state = "EXPIRED" THEN 1 ELSE 0)]],
  spent <- [g \in Guests |-> [k \in Keys |-> bookSpent(g, k)]],
  tally <- [g \in Guests |-> [finished |-> Cardinality(ledger[g].finals),
                              solved |-> Cardinality(ledger[g].board)]]

\* Concurrent, retried, cut-off and late transactions add up to a game played
\* one command at a time: every commit is one step of GameBook or none.
KeepsTheBook == Book!Spec
=============================================================================
