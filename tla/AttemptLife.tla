---------------------------- MODULE AttemptLife ----------------------------
(***************************************************************************)
(* One attempt driven through the rules of AttemptEngine by every order of *)
(* guesses, reveals, a surrender and the expiry, at the code's own bounds  *)
(* (5 evidence levels of 3 guesses).  "wrongs" counts the rows the guesses *)
(* table holds for the attempt, "reveals" the REVEALED receipts: what the  *)
(* player really did, against which the engine's counters are judged.      *)
(***************************************************************************)
EXTENDS AttemptEngine

VARIABLES attempt, wrongs, reveals

lifeVars == <<attempt, wrongs, reveals>>

LifeInit == attempt = FreshSnapshot /\ wrongs = 0 /\ reveals = 0

Apply(transition) ==
  /\ transition.accepted
  /\ attempt' = transition.attempt

GuessWrong ==
  /\ Apply(applyGuess(attempt, FALSE))
  /\ wrongs' = wrongs + 1
  /\ UNCHANGED reveals

GuessRight == Apply(applyGuess(attempt, TRUE)) /\ UNCHANGED <<wrongs, reveals>>

Reveal ==
  /\ Apply(revealEvidence(attempt))
  /\ reveals' = reveals + 1
  /\ UNCHANGED wrongs

Surrender == Apply(giveUp(attempt)) /\ UNCHANGED <<wrongs, reveals>>
Expire == Apply(expire(attempt)) /\ UNCHANGED <<wrongs, reveals>>

Play == GuessWrong \/ GuessRight \/ Reveal \/ Surrender
LifeNext == Play \/ Expire

LifeSpec == LifeInit /\ [][LifeNext]_lifeVars

(***************************************************************************)
(* Properties                                                              *)
(***************************************************************************)
LifeOK == attempt \in Snapshots /\ wrongs \in 0..AllWrong /\ reveals \in Nat

\* Every attempt the rules produce passes assertValidAttemptSnapshot, so the
\* engine never throws on a row it wrote itself (attempt-engine.ts:207).
AssertionNeverThrows == ValidSnapshot(attempt)

\* The evidence shown was paid for: each level above the reveals cost all the
\* guesses of a level, and no wrong guess goes uncounted while the game runs.
EvidenceIsPaidFor ==
  LET bought == attempt.e - reveals
  IN /\ bought >= 0
     /\ wrongs >= (MaxWrong + 1) * bought + attempt.w
     /\ attempt.state # "EXHAUSTED" => attempt.W = wrongs

\* Points a correct guess would earn now if it came that late.
Worth(a, ms) == scoreSolvedAttempt([a EXCEPT !.state = "SOLVED"], ms)

\* No move, however clever, makes a later solve worth more: guessing wrong or
\* revealing never pays (LEVEL_RULES, the penalty and the bonus together).
NoMovePays ==
  [][attempt'.state = "ACTIVE" =>
       \A ms \in {0, 30001, 300001} :
         Worth(attempt', ms) <= Worth(attempt, ms)]_lifeVars

\* Opportunities left before exhaustion.
Remaining(a) == (MaxWrong + 1) * (MaxEvidence - a.e) + (MaxWrong + 1 - a.w)

\* Each accepted move that leaves the attempt open uses up an opportunity, so
\* no sequence of guesses and reveals goes on beyond the budget of the game.
MovesAreFinite ==
  [][attempt'.state = "ACTIVE" => Remaining(attempt') < Remaining(attempt)]_lifeVars
=============================================================================
