---------------------------- MODULE GuestLedger ----------------------------
(***************************************************************************)
(* The rows PostgreSQL keeps for one guest and what the statements of      *)
(* packages/database/src/gameplay do to them (reconciliation.ts,           *)
(* attempts.ts, profile.ts).  Every row is owned by one guest, so a ledger *)
(* is the guest's share of the tables.  Operators take a ledger and return *)
(* the ledger the transaction has drafted; Gameplay.tla interleaves them.  *)
(* Time is a number of ticks of the database clock.                        *)
(***************************************************************************)
EXTENDS AttemptEngine, FiniteSets

CONSTANTS
  AttemptIds,   \* UUIDs the attempts may be given
  NoAttempt,    \* no attempt id
  Keys,         \* idempotency keys
  Slots,        \* daily slots, numbered by UTC day
  Published,    \* the slots with a published revision
  Regions,      \* region catalogue
  RegionsOf,    \* the regions of each slot's revision
  DayTicks,     \* ticks of the clock in a day
  TickMs        \* milliseconds in a tick

ASSUME LedgerAssumption ==
  /\ NoAttempt \notin AttemptIds
  /\ Slots \subseteq Nat /\ Published \subseteq Slots
  /\ RegionsOf \in [Slots -> SUBSET Regions]
  /\ DayTicks \in Nat \ {0} /\ TickMs \in Nat

(***************************************************************************)
(* Windows.  A slot is a UTC day: opens_at <= t < closes_at.  The database *)
(* admits one published revision per slot, so a slot stands for it.        *)
(***************************************************************************)
OpensAt(slot) == slot * DayTicks
ClosesAt(slot) == (slot + 1) * DayTicks
utcDay(t) == t \div DayTicks
currentRevision(t) == {s \in Published : OpensAt(s) <= t /\ t < ClosesAt(s)}

(***************************************************************************)
(* Rows.  A row with state "NONE" is an id no attempt has; terminal_at is  *)
(* updatedAt of a terminal row, as no statement updates one.               *)
(***************************************************************************)
Outcomes == {"STARTED", "CORRECT", "WRONG", "REVEALED", "GIVEN_UP"}
AttemptRows ==
  [state : {"NONE"} \cup AttemptStates, slot : Slots \cup {-1},
   e : 0..MaxEvidence, w : 0..MaxWrong, W : 0..AllWrong, version : Nat,
   startedAt : Nat, updatedAt : Nat]
NoRow == [state |-> "NONE", slot |-> -1, e |-> 0, w |-> 0, W |-> 0,
          version |-> 0, startedAt |-> 0, updatedAt |-> 0]

Commands ==
  [kind : {"START"}, attempt : {NoAttempt}, version : {0}, entity : {"none"}]
  \cup [kind : {"REVEAL", "GIVE_UP"}, attempt : AttemptIds, version : Nat,
        entity : {"none"}]
  \cup [kind : {"GUESS"}, attempt : AttemptIds, version : Nat,
        entity : {"answer", "other", "unknown"}]

\* A receipt keeps the fingerprint of its command, i.e. the command itself.
Receipts ==
  [command : Commands, outcome : Outcomes, attempt : AttemptIds,
   version : Nat, at : Nat]
NoReceipt == [outcome |-> "NONE"]

Ledgers ==
  [attempts : [AttemptIds -> AttemptRows],
   receipts : [Keys -> Receipts \cup {NoReceipt}],
   guesses : SUBSET [attempt : AttemptIds, number : Nat, correct : BOOLEAN,
                     e : 0..MaxEvidence, at : Nat],
   days : SUBSET Nat,
   finals : SUBSET [attempt : AttemptIds, outcome : TerminalStates,
                    score : Nat, at : Nat],
   contributions : SUBSET [attempt : AttemptIds, region : Regions,
                           alpha : 0..100],
   knowledge : [Regions -> [alpha : Nat, beta : Nat, samples : Nat]],
   board : SUBSET [attempt : AttemptIds, slot : Slots, e : 0..MaxEvidence,
                   W : 0..AllWrong, elapsed : Nat, score : Nat]]

EmptyLedger ==
  [attempts |-> [a \in AttemptIds |-> NoRow],
   receipts |-> [k \in Keys |-> NoReceipt],
   guesses |-> {}, days |-> {}, finals |-> {}, contributions |-> {},
   knowledge |-> [r \in Regions |-> [alpha |-> 200, beta |-> 200,
                                     samples |-> 0]],
   board |-> {}]

Exists(L, id) == id \in AttemptIds /\ L.attempts[id].state # "NONE"
AttemptsOf(L, slot) ==
  {a \in AttemptIds : L.attempts[a].state # "NONE" /\ L.attempts[a].slot = slot}

snapshot(row) == [state |-> row.state, e |-> row.e, w |-> row.w, W |-> row.W]

\* UPDATE attempts SET <counters>, version = version + 1, updated_at = at.
UpdateAttempt(L, id, next, at) ==
  LET row == L.attempts[id]
  IN [L EXCEPT !.attempts[id] =
        [row EXCEPT !.state = next.state, !.e = next.e, !.w = next.w,
                    !.W = next.W, !.version = @ + 1, !.updatedAt = at]]

(***************************************************************************)
(* finalize: the attempt's terminal row, then -- only if this transaction  *)
(* is the one that inserts the finalization -- its share of the regional   *)
(* knowledge and, for a solve, its leaderboard entry.                      *)
(***************************************************************************)
\* A slip: the upsert adds the excluded row, prior and all.
addPriorAgain(knowledge, regions, p) ==
  [r \in Regions |->
     IF r \in regions
     THEN LET prior == IF knowledge[r].samples = 0 THEN 0 ELSE 200
          IN [alpha |-> knowledge[r].alpha + prior + p,
              beta |-> knowledge[r].beta + prior + (100 - p),
              samples |-> knowledge[r].samples + 1]
     ELSE knowledge[r]]

AddKnowledge(knowledge, regions, p) ==
  [r \in Regions |->
     IF r \in regions
     THEN [alpha |-> knowledge[r].alpha + p,
           beta |-> knowledge[r].beta + (100 - p),
           samples |-> knowledge[r].samples + 1]
     ELSE knowledge[r]]

finalize(L, id, next, at) ==
  LET row == L.attempts[id]
      updated == UpdateAttempt(L, id, next, at)
      elapsed == AtLeastZero(at - row.startedAt) * TickMs
      score == IF next.state = "SOLVED"
               THEN scoreSolvedAttempt(next, elapsed) ELSE 0
      p == regionalPerformance(next)
      entry == [attempt |-> id, slot |-> row.slot, e |-> next.e, W |-> next.W,
                elapsed |-> elapsed, score |-> score]
  IN IF \E f \in L.finals : f.attempt = id THEN updated
     ELSE [updated EXCEPT
             !.finals = @ \cup {[attempt |-> id, outcome |-> next.state,
                                 score |-> score, at |-> at]},
             !.contributions = @ \cup {[attempt |-> id, region |-> r,
                                        alpha |-> p] : r \in RegionsOf[row.slot]},
             !.knowledge = AddKnowledge(@, RegionsOf[row.slot], p),
             !.board = @ \cup (IF next.state = "SOLVED" THEN {entry} ELSE {})]

\* Slips of expireIfClosed: a terminal attempt goes through again; the row
\* alone is updated; the attempt ends when it is met.
expireAnyState(L, id, t) ==
  LET row == L.attempts[id]
  IN IF row.state # "NONE" /\ t >= ClosesAt(row.slot)
     THEN finalize(L, id, expire(snapshot(row)).attempt, ClosesAt(row.slot))
     ELSE L

markExpired(L, id, t) ==
  LET row == L.attempts[id]
  IN IF row.state = "ACTIVE" /\ t >= ClosesAt(row.slot)
     THEN UpdateAttempt(L, id, expire(snapshot(row)).attempt, ClosesAt(row.slot))
     ELSE L

expireAsOfNow(L, id, t) ==
  LET row == L.attempts[id]
  IN IF row.state = "ACTIVE" /\ t >= ClosesAt(row.slot)
     THEN finalize(L, id, expire(snapshot(row)).attempt, t)
     ELSE L

\* An open attempt met at or after its close is finalized as of the close.
expireIfClosed(L, id, t) ==
  LET row == L.attempts[id]
  IN IF row.state = "ACTIVE" /\ t >= ClosesAt(row.slot)
     THEN finalize(L, id, expire(snapshot(row)).attempt, ClosesAt(row.slot))
     ELSE L

(***************************************************************************)
(* startCurrentAttempt: INSERT ... ON CONFLICT (guest_id, slot_id) DO      *)
(* NOTHING, with a UUID nobody has, at the sampled time; a guest who has   *)
(* an attempt in the slot gets that one.                                   *)
(***************************************************************************)
\* A slip: the insert without its ON CONFLICT.
alwaysFresh(L, slot, unused) == unused

startedIds(L, slot, unused) ==
  IF AttemptsOf(L, slot) = {} THEN unused ELSE AttemptsOf(L, slot)

openAttempt(L, id, slot, t) ==
  IF Exists(L, id) THEN L
  ELSE [L EXCEPT !.attempts[id] =
          [state |-> "ACTIVE", slot |-> slot, e |-> 0, w |-> 0, W |-> 0,
           version |-> 0, startedAt |-> t, updatedAt |-> t]]

(***************************************************************************)
(* executeGameplayCommand, once the attempt row is locked and sampled.     *)
(***************************************************************************)
transition(a, command) ==
  CASE command.kind = "GUESS" -> applyGuess(a, command.entity = "answer")
    [] command.kind = "REVEAL" -> revealEvidence(a)
    [] OTHER -> giveUp(a)

committedOutcome(command) ==
  CASE command.kind = "START" -> "STARTED"
    [] command.kind = "GUESS" ->
         IF command.entity = "answer" THEN "CORRECT" ELSE "WRONG"
    [] command.kind = "REVEAL" -> "REVEALED"
    [] OTHER -> "GIVEN_UP"

\* A slip: the expected version is not compared.
rejectionAtAnyVersion(L, command) ==
  LET row == L.attempts[command.attempt]
  IN CASE row.state # "ACTIVE" -> "TERMINAL_ATTEMPT"
       [] row.state = "ACTIVE" /\ command.entity = "unknown" -> "UNKNOWN_ENTITY"
       [] OTHER -> transition(snapshot(row), command).reason

\* "NONE" when the command is played; L has been through expireIfClosed.
rejection(L, command) ==
  LET row == L.attempts[command.attempt]
  IN CASE row.state # "ACTIVE" -> "TERMINAL_ATTEMPT"
       [] row.state = "ACTIVE" /\ row.version # command.version -> "STALE_VERSION"
       [] row.state = "ACTIVE" /\ row.version = command.version
            /\ command.entity = "unknown" -> "UNKNOWN_ENTITY"
       [] OTHER -> transition(snapshot(row), command).reason

recordGuess(L, command, t) ==
  LET row == L.attempts[command.attempt]
  IN IF command.kind # "GUESS" THEN L
     ELSE [L EXCEPT
             !.guesses = @ \cup {[attempt |-> command.attempt,
                                  number |-> row.W + 1,
                                  correct |-> command.entity = "answer",
                                  e |-> row.e, at |-> t]},
             !.days = @ \cup {utcDay(t)}]

playCommand(L, command, t) ==
  LET id == command.attempt
      next == transition(snapshot(L.attempts[id]), command).attempt
      noted == recordGuess(L, command, t)
  IN IF next.state = "ACTIVE" THEN UpdateAttempt(noted, id, next, t)
                              ELSE finalize(noted, id, next, t)

insertReceipt(L, key, command, id, t) ==
  [L EXCEPT !.receipts[key] =
     [command |-> command, outcome |-> committedOutcome(command),
      attempt |-> id, version |-> L.attempts[id].version, at |-> t]]

(***************************************************************************)
(* What the rows of one guest owe each other.  Every part speaks of one    *)
(* ledger, committed or drafted; Gameplay.tla says when it must hold.      *)
(***************************************************************************)
GuessesOf(L, id) == {x \in L.guesses : x.attempt = id}
FinalsOf(L, id) == {x \in L.finals : x.attempt = id}
EntriesOf(L, id) == {x \in L.board : x.attempt = id}
ReceiptsOn(L, id) ==
  {k \in Keys : L.receipts[k] # NoReceipt /\ L.receipts[k].attempt = id}
MovesOn(L, id) ==
  {k \in ReceiptsOn(L, id) : L.receipts[k].command.kind # "START"}

\* The CHECK and UNIQUE constraints of migration 0001 on the rows of a ledger.
WithinConstraints(L) ==
  /\ \A a \in AttemptIds : Exists(L, a) =>
       /\ ValidSnapshot(snapshot(L.attempts[a]))
       /\ L.attempts[a].startedAt <= L.attempts[a].updatedAt
  /\ \A x \in L.guesses :
       /\ x.number \in 1..AllWrong
       /\ \A y \in L.guesses :
            x.attempt = y.attempt /\ x.number = y.number => x = y
  /\ \A x \in L.finals : x.outcome # "SOLVED" => x.score = 0
  /\ \A x, y \in L.board : x.slot = y.slot => x = y

\* An attempt is final exactly when it has its one finalization, which agrees
\* with it; its contributions are those of its outcome, one per region of the
\* revision; and it is on the leaderboard exactly when solved, as it stands.
ClosedOnce(L, id) ==
  LET row == L.attempts[id]
      shares == {x \in L.contributions : x.attempt = id}
  IN IF row.state \in TerminalStates
     THEN \E f \in L.finals :
            /\ FinalsOf(L, id) = {f}
            /\ f.outcome = row.state /\ f.at = row.updatedAt
            /\ shares = {[attempt |-> id, region |-> r,
                           alpha |-> regionalPerformance(snapshot(row))] :
                            r \in RegionsOf[row.slot]}
            /\ IF row.state = "SOLVED"
               THEN EntriesOf(L, id) =
                      {[attempt |-> id, slot |-> row.slot, e |-> row.e,
                        W |-> row.W, score |-> f.score,
                        elapsed |-> (row.updatedAt - row.startedAt) * TickMs]}
               ELSE EntriesOf(L, id) = {}
     ELSE FinalsOf(L, id) = {} /\ shares = {} /\ EntriesOf(L, id) = {}

\* The guesses of an attempt tell its story: the wrong ones are numbered 1..W
\* (an exhausted attempt's W says 15 whatever was played), the right one comes
\* last and solves it, and neither time nor evidence ever goes back.
GuessesTellTheStory(L, id) ==
  LET row == L.attempts[id]
      right == {x \in GuessesOf(L, id) : x.correct}
      wrong == GuessesOf(L, id) \ right
  IN /\ {x.number : x \in wrong} = 1..Cardinality(wrong)
     /\ row.state # "EXHAUSTED" => row.W = Cardinality(wrong)
     /\ row.state = "SOLVED" <=> right # {}
     /\ \A x \in right : x.number = row.W + 1 /\ x.e = row.e
     /\ \A x, y \in GuessesOf(L, id) :
          x.number < y.number => x.at <= y.at /\ x.e <= y.e

\* The version counts the committed moves, and no two moves were committed
\* against the same version; the expiry alone adds one without a receipt.
VersionCountsMoves(L, id) ==
  LET row == L.attempts[id]
      moves == Cardinality(MovesOn(L, id))
  IN /\ row.version = moves + (IF row.state = "EXPIRED" THEN 1 ELSE 0)
     /\ {L.receipts[k].version : k \in MovesOn(L, id)} = 1..moves
     /\ \A k \in MovesOn(L, id) :
          L.receipts[k].version = L.receipts[k].command.version + 1

\* What happens to an attempt happens inside its slot's window; only the
\* expiry is dated at the close itself.
InsideWindow(L, id) ==
  LET row == L.attempts[id]
  IN Exists(L, id) =>
       /\ OpensAt(row.slot) <= row.startedAt /\ row.startedAt < ClosesAt(row.slot)
       /\ row.updatedAt <= ClosesAt(row.slot)
       /\ row.state = "EXPIRED" <=> row.updatedAt = ClosesAt(row.slot)
       /\ \A x \in GuessesOf(L, id) :
            row.startedAt <= x.at /\ x.at < ClosesAt(row.slot)

\* Nothing of L is missing from D: the append-only rows are all there, and
\* attempts have only moved on.
Grows(L, D) ==
  /\ \A k \in Keys : L.receipts[k] # NoReceipt => D.receipts[k] = L.receipts[k]
  /\ L.guesses \subseteq D.guesses
  /\ L.days \subseteq D.days
  /\ L.finals \subseteq D.finals
  /\ L.contributions \subseteq D.contributions
  /\ L.board \subseteq D.board
  /\ \A a \in AttemptIds : L.attempts[a].state # "NONE" =>
       /\ D.attempts[a].state # "NONE"
       /\ D.attempts[a].slot = L.attempts[a].slot
       /\ L.attempts[a].version <= D.attempts[a].version
       /\ L.attempts[a].e <= D.attempts[a].e

\* The attempts played on between L and D: opened, moved, guessed at or ranked.
\* An attempt that time has closed was not played.
PlayedBetween(L, D) ==
  {a \in AttemptIds :
     \/ D.attempts[a] # L.attempts[a] /\ D.attempts[a].state # "EXPIRED"
     \/ GuessesOf(D, a) # GuessesOf(L, a)
     \/ EntriesOf(D, a) # EntriesOf(L, a)}

\* Finished attempts of L stand in D as they were.
KeepsFinished(L, D) ==
  \A a \in AttemptIds :
    L.attempts[a].state \in TerminalStates => D.attempts[a] = L.attempts[a]
=============================================================================
