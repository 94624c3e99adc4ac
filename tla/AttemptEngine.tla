--------------------------- MODULE AttemptEngine ---------------------------
(***************************************************************************)
(* The pure rules of one attempt (packages/domain/src/attempt-engine.ts):  *)
(* counters, transitions and score.  A snapshot is a record with the state *)
(* and the counters of docs/architecture/game-rules.md:                    *)
(*   e  evidence level, w  wrong guesses at that level, W  all wrong ones. *)
(* The number of levels and of guesses per level are parameters, so that   *)
(* the concurrent modules can be checked with a shorter game; the code's   *)
(* values are MaxEvidence = 4 and MaxWrong = 2.                            *)
(***************************************************************************)
EXTENDS Integers

CONSTANTS
  MaxEvidence,   \* last evidence level; 4 in the code
  MaxWrong       \* unused wrong guesses a level tolerates; 2 in the code

ASSUME EngineAssumption == MaxEvidence \in 0..4 /\ MaxWrong \in Nat

TerminalStates == {"SOLVED", "GIVEN_UP", "EXHAUSTED", "EXPIRED"}
AttemptStates == {"ACTIVE"} \cup TerminalStates

\* 15 in the code: every level's guesses used up.
AllWrong == (MaxEvidence + 1) * (MaxWrong + 1)

Snapshots == [state : AttemptStates, e : 0..MaxEvidence, w : 0..MaxWrong,
              W : 0..AllWrong]

(***************************************************************************)
(* assertValidAttemptSnapshot: the counters a stored attempt may have.     *)
(***************************************************************************)
ValidSnapshot(a) ==
  /\ a \in Snapshots
  /\ IF a.state = "EXHAUSTED"
     THEN a.e = MaxEvidence /\ a.w = MaxWrong /\ a.W = AllWrong
     ELSE a.w <= a.W /\ a.W <= (MaxWrong + 1) * a.e + a.w

FreshSnapshot == [state |-> "ACTIVE", e |-> 0, w |-> 0, W |-> 0]

Accepted(a) == [accepted |-> TRUE, reason |-> "NONE", attempt |-> a]
Rejected(reason, a) == [accepted |-> FALSE, reason |-> reason, attempt |-> a]

\* A slip: the guesses of a level are not reset by the next.
keepGuesses(a, wrong) == [a EXCEPT !.e = @ + 1, !.W = @ + wrong]

\* The next level and a fresh set of guesses, revealed or paid for by a wrong
\* guess.
NextLevel(a, wrong) == [a EXCEPT !.e = @ + 1, !.w = 0, !.W = @ + wrong]

\* A slip: a tolerated guess is counted in the total only.
countTotalOnly(a) ==
  CASE a.w < MaxWrong -> [a EXCEPT !.W = @ + 1]
    [] a.w >= MaxWrong /\ a.e = MaxEvidence -> [a EXCEPT !.state = "EXHAUSTED"]
    [] OTHER -> NextLevel(a, 1)

\* A slip: the exhausting guess counts itself and no more.
exhaustByCounting(a) ==
  CASE a.w < MaxWrong -> [a EXCEPT !.w = @ + 1, !.W = @ + 1]
    [] a.w >= MaxWrong /\ a.e = MaxEvidence ->
         [a EXCEPT !.state = "EXHAUSTED", !.W = @ + 1]
    [] OTHER -> NextLevel(a, 1)

WrongGuess(a) ==
  CASE a.w < MaxWrong -> [a EXCEPT !.w = @ + 1, !.W = @ + 1]
    [] a.w >= MaxWrong /\ a.e = MaxEvidence ->
         [state |-> "EXHAUSTED", e |-> MaxEvidence, w |-> MaxWrong,
          W |-> AllWrong]
    [] OTHER -> NextLevel(a, 1)

applyGuess(a, correct) ==
  CASE a.state # "ACTIVE" -> Rejected("TERMINAL_ATTEMPT", a)
    [] a.state = "ACTIVE" /\ correct ->
         Accepted([a EXCEPT !.state = "SOLVED"])
    [] OTHER -> Accepted(WrongGuess(a))

revealEvidence(a) ==
  CASE a.state # "ACTIVE" -> Rejected("TERMINAL_ATTEMPT", a)
    [] a.state = "ACTIVE" /\ a.e = MaxEvidence ->
         Rejected("EVIDENCE_LIMIT", a)
    [] OTHER -> Accepted(NextLevel(a, 0))

\* giveUp and expire differ only in the state they leave.
Close(a, state) ==
  IF a.state # "ACTIVE" THEN Rejected("TERMINAL_ATTEMPT", a)
                        ELSE Accepted([a EXCEPT !.state = state])
giveUp(a) == Close(a, "GIVEN_UP")
expire(a) == Close(a, "EXPIRED")

(***************************************************************************)
(* Score of a solved attempt and what it is worth to a region's knowledge  *)
(* (aggregates.ts, regionalPerformanceHundredths: hundredths of a point).  *)
(***************************************************************************)
\* A slip: two lines of LEVEL_RULES swapped.
swappedTiers ==
  [e \in 0..4 |-> CASE e = 0 -> 1200 [] e = 1 -> 1000 [] e = 2 -> 500
                    [] e = 3 -> 750 [] OTHER -> 250]

TierScore ==
  [e \in 0..4 |-> CASE e = 0 -> 1200 [] e = 1 -> 1000 [] e = 2 -> 750
                    [] e = 3 -> 500 [] OTHER -> 250]

timeBonusFor(ms) ==
  CASE ms <= 30000 -> 150
    [] 30000 < ms /\ ms <= 60000 -> 100
    [] 60000 < ms /\ ms <= 120000 -> 60
    [] 120000 < ms /\ ms <= 300000 -> 25
    [] OTHER -> 0

AtLeastZero(n) == IF n < 0 THEN 0 ELSE n

scoreSolvedAttempt(a, ms) ==
  AtLeastZero(TierScore[a.e] - 40 * a.W + timeBonusFor(ms))

KnowledgeBase ==
  [e \in 0..4 |-> CASE e = 0 -> 100 [] e = 1 -> 85 [] e = 2 -> 65
                    [] e = 3 -> 45 [] OTHER -> 25]

regionalPerformance(a) ==
  IF a.state = "SOLVED" THEN AtLeastZero(KnowledgeBase[a.e] - 5 * a.W) ELSE 0
=============================================================================
