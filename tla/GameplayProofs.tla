--------------------------- MODULE GameplayProofs ---------------------------
(***************************************************************************)
(* The rules of the attempt engine and the life of one attempt, and then   *)
(* the safety of the gameplay transactions for any numbers of guests,      *)
(* connections, keys, attempts, slots and regions, and any set of          *)
(* requests.  The inductive invariant IInv says that the guest lock is     *)
(* exclusive, that committed and drafted ledgers are sound, and that what  *)
(* a transaction has drafted under the lock contains what is committed.    *)
(* That last part is what makes COMMIT lose nothing; it needs the lock, as *)
(* another commit for the same guest would break it.                       *)
(*                                                                         *)
(* BooksInv adds that committed and drafted rows add up, and what each     *)
(* draft still owes: rows and receipt of a command are written by separate *)
(* steps, so in between one move has no receipt (Promised), and the answer *)
(* must be the one the receipt will repeat (Told).  It also says what the  *)
(* draft did to the committed ledger, one command or the end of some days, *)
(* which makes every commit one step of GameBook or none.                  *)
(***************************************************************************)
EXTENDS Gameplay, AttemptLife, FiniteSetTheorems, TLAPS

(***************************************************************************)
(* The rules of AttemptEngine for every number of levels up to the code's  *)
(* four and every number of guesses per level, then the life of one        *)
(* attempt under them.  Neither EvidenceIsPaidFor nor the bound on the     *)
(* guess rows is inductive: both need the counters to be valid and the     *)
(* rows to match the total while the game is on, so the four are proved    *)
(* together.                                                               *)
(***************************************************************************)
\* The guesses that a level and the levels below it allow, with the products
\* written out: levels are few, guesses per level are not bounded.
LEMMA Budget ==
  ASSUME NEW e \in 0..MaxEvidence
  PROVE  /\ (MaxWrong + 1) * e \in Nat
         /\ (MaxWrong + 1) * (e + 1) = (MaxWrong + 1) * e + MaxWrong + 1
         /\ (MaxWrong + 1) * (e + 1) <= AllWrong
         /\ AllWrong \in Nat
<1>1. e \in 0..4 /\ MaxEvidence \in 0..4 /\ e <= MaxEvidence /\ MaxWrong \in Nat
  BY EngineAssumption
<1>2. CASE e = 0  BY <1>1, <1>2 DEF AllWrong
<1>3. CASE e = 1  BY <1>1, <1>3 DEF AllWrong
<1>4. CASE e = 2  BY <1>1, <1>4 DEF AllWrong
<1>5. CASE e = 3  BY <1>1, <1>5 DEF AllWrong
<1>6. CASE e = 4  BY <1>1, <1>6 DEF AllWrong
<1> QED  BY <1>1, <1>2, <1>3, <1>4, <1>5, <1>6

LEMMA FreshValid == ValidSnapshot(FreshSnapshot)
<1>1. MaxEvidence \in Nat /\ MaxWrong \in Nat
  BY EngineAssumption
<1>2. AllWrong \in Nat /\ 0 \in 0..MaxEvidence
  BY <1>1, Budget
<1> QED
  BY <1>1, <1>2 DEF ValidSnapshot, FreshSnapshot, Snapshots, AttemptStates

\* What is known of the counters of a valid attempt that is still open.
LEMMA OpenCounters ==
  ASSUME NEW a, ValidSnapshot(a), a.state = "ACTIVE"
  PROVE  /\ a \in Snapshots
         /\ a.e \in 0..MaxEvidence /\ a.w \in 0..MaxWrong /\ a.W \in Nat
         /\ a.w <= a.W /\ a.W <= (MaxWrong + 1) * a.e + a.w
         /\ a.W + 1 <= AllWrong
         /\ MaxEvidence \in 0..4 /\ MaxWrong \in Nat /\ AllWrong \in Nat
<1>1. MaxEvidence \in 0..4 /\ MaxWrong \in Nat
  BY EngineAssumption
<1>2. /\ a \in Snapshots
      /\ a.w <= a.W /\ a.W <= (MaxWrong + 1) * a.e + a.w
  BY DEF ValidSnapshot
<1>3. a.e \in 0..MaxEvidence /\ a.w \in 0..MaxWrong /\ a.W \in 0..AllWrong
  BY <1>2 DEF Snapshots
<1>4. /\ (MaxWrong + 1) * a.e \in Nat
      /\ (MaxWrong + 1) * (a.e + 1) = (MaxWrong + 1) * a.e + MaxWrong + 1
      /\ (MaxWrong + 1) * (a.e + 1) <= AllWrong
      /\ AllWrong \in Nat
  BY <1>3, Budget
<1>5. a.W + 1 <= AllWrong
  BY <1>1, <1>2, <1>3, <1>4
<1> QED  BY <1>1, <1>2, <1>3, <1>4, <1>5

\* Moving to the next level keeps the counters within what was paid for.
LEMMA NextLevelValid ==
  ASSUME NEW a, ValidSnapshot(a), a.state = "ACTIVE", a.e < MaxEvidence,
         NEW more \in 0..1, more = 1 => a.w = MaxWrong
  PROVE  ValidSnapshot(NextLevel(a, more))
<1> DEFINE b == NextLevel(a, more)
<1>1. /\ a \in Snapshots
      /\ a.e \in 0..MaxEvidence /\ a.w \in 0..MaxWrong /\ a.W \in Nat
      /\ a.w <= a.W /\ a.W <= (MaxWrong + 1) * a.e + a.w
      /\ a.W + 1 <= AllWrong
      /\ MaxEvidence \in 0..4 /\ MaxWrong \in Nat /\ AllWrong \in Nat
  BY OpenCounters
<1>2. /\ (MaxWrong + 1) * a.e \in Nat
      /\ (MaxWrong + 1) * (a.e + 1) = (MaxWrong + 1) * a.e + MaxWrong + 1
  BY <1>1, Budget
<1>3. b.state = "ACTIVE" /\ b.e = a.e + 1 /\ b.w = 0 /\ b.W = a.W + more
  BY <1>1 DEF NextLevel, Snapshots
<1>4. b \in Snapshots
  <2>1. a.e + 1 \in 0..MaxEvidence /\ 0 \in 0..MaxWrong
        /\ a.W + more \in 0..AllWrong
    BY <1>1
  <2> QED  BY <1>1, <2>1 DEF NextLevel, Snapshots
<1>5. b.W <= (MaxWrong + 1) * b.e + b.w
  BY <1>1, <1>2, <1>3
<1> QED  BY <1>1, <1>3, <1>4, <1>5 DEF ValidSnapshot

\* A wrong guess at a valid open attempt leaves a valid one.
LEMMA WrongGuessValid ==
  ASSUME NEW a, ValidSnapshot(a), a.state = "ACTIVE"
  PROVE  ValidSnapshot(WrongGuess(a))
<1>1. /\ a \in Snapshots
      /\ a.e \in 0..MaxEvidence /\ a.w \in 0..MaxWrong /\ a.W \in Nat
      /\ a.w <= a.W /\ a.W <= (MaxWrong + 1) * a.e + a.w
      /\ a.W + 1 <= AllWrong
      /\ MaxEvidence \in 0..4 /\ MaxWrong \in Nat /\ AllWrong \in Nat
  BY OpenCounters
<1>2. CASE a.w < MaxWrong
  <2> DEFINE b == [a EXCEPT !.w = @ + 1, !.W = @ + 1]
  <2>1. WrongGuess(a) = b
    <3>1. ~(a.w >= MaxWrong)
      BY <1>1, <1>2
    <3> QED  BY <1>2, <3>1 DEF WrongGuess
  <2>2. b.state = "ACTIVE" /\ b.e = a.e /\ b.w = a.w + 1 /\ b.W = a.W + 1
    BY <1>1 DEF Snapshots
  <2>3. b \in Snapshots
    <3>1. a.w + 1 \in 0..MaxWrong /\ a.W + 1 \in 0..AllWrong
      BY <1>1, <1>2
    <3> QED  BY <1>1, <3>1 DEF Snapshots
  <2>4. (MaxWrong + 1) * a.e \in Nat
    BY <1>1, Budget
  <2> QED  BY <1>1, <2>1, <2>2, <2>3, <2>4 DEF ValidSnapshot
<1>3. CASE a.w >= MaxWrong /\ a.e = MaxEvidence
  BY <1>1, <1>3 DEF WrongGuess, ValidSnapshot, Snapshots, AttemptStates, TerminalStates
<1>4. CASE a.w >= MaxWrong /\ a.e # MaxEvidence
  <2>1. WrongGuess(a) = NextLevel(a, 1)
    BY <1>1, <1>4 DEF WrongGuess
  <2>2. a.e < MaxEvidence /\ a.w = MaxWrong
    BY <1>1, <1>4
  <2>3. ValidSnapshot(NextLevel(a, 1))
    BY <2>2, NextLevelValid
  <2> QED  BY <2>1, <2>3
<1> QED  BY <1>1, <1>2, <1>3, <1>4

\* Closing an attempt keeps its counters.
LEMMA CloseValid ==
  ASSUME NEW a, ValidSnapshot(a), a.state = "ACTIVE",
         NEW state \in {"SOLVED", "GIVEN_UP", "EXPIRED"}
  PROVE  ValidSnapshot([a EXCEPT !.state = state])
<1>1. a \in Snapshots /\ a.w <= a.W /\ a.W <= (MaxWrong + 1) * a.e + a.w
  BY DEF ValidSnapshot
<1> QED  BY <1>1 DEF ValidSnapshot, Snapshots, AttemptStates, TerminalStates

\* Every transition of the engine, accepted or rejected, takes a snapshot that
\* assertValidAttemptSnapshot accepts to one that it accepts.
THEOREM TransitionsStayValid ==
  ASSUME NEW a, ValidSnapshot(a)
  PROVE  /\ \A correct \in BOOLEAN : ValidSnapshot(applyGuess(a, correct).attempt)
         /\ ValidSnapshot(revealEvidence(a).attempt)
         /\ ValidSnapshot(giveUp(a).attempt)
         /\ ValidSnapshot(expire(a).attempt)
<1>1. ASSUME NEW correct \in BOOLEAN
      PROVE  ValidSnapshot(applyGuess(a, correct).attempt)
  <2>1. CASE a.state # "ACTIVE"
    BY <2>1 DEF applyGuess, Rejected
  <2>2. CASE a.state = "ACTIVE" /\ correct
    BY <2>2, CloseValid DEF applyGuess, Accepted
  <2>3. CASE a.state = "ACTIVE" /\ ~correct
    BY <2>3, WrongGuessValid DEF applyGuess, Accepted
  <2> QED  BY <2>1, <2>2, <2>3
<1>2. ValidSnapshot(revealEvidence(a).attempt)
  <2>1. CASE a.state # "ACTIVE" \/ a.e = MaxEvidence
    BY <2>1 DEF revealEvidence, Rejected
  <2>2. CASE a.state = "ACTIVE" /\ a.e # MaxEvidence
    <3>1. /\ a \in Snapshots /\ a.e \in 0..MaxEvidence /\ a.W \in Nat
          /\ MaxEvidence \in 0..4
      BY <2>2, OpenCounters
    <3> QED  BY <2>2, <3>1, NextLevelValid DEF revealEvidence, Accepted
  <2> QED  BY <2>1, <2>2
<1>3. ASSUME NEW state \in {"GIVEN_UP", "EXPIRED"}
      PROVE  ValidSnapshot(Close(a, state).attempt)
  BY <1>3, CloseValid DEF Close, Accepted, Rejected
<1> QED  BY <1>1, <1>2, <1>3 DEF giveUp, expire

\* No transition takes evidence back.
LEMMA EvidenceOnlyGrows ==
  ASSUME NEW a, ValidSnapshot(a)
  PROVE  /\ \A correct \in BOOLEAN : a.e <= applyGuess(a, correct).attempt.e
         /\ a.e <= revealEvidence(a).attempt.e
         /\ a.e <= giveUp(a).attempt.e
         /\ a.e <= expire(a).attempt.e
<1>1. /\ a \in Snapshots /\ a.e \in Nat /\ a.w \in Nat /\ a.e <= MaxEvidence
      /\ MaxEvidence \in Nat /\ MaxWrong \in Nat
  BY EngineAssumption DEF ValidSnapshot, Snapshots
<1>2. \A n \in 0..1 : NextLevel(a, n).e = a.e + 1
  BY <1>1 DEF NextLevel, Snapshots
<1>3. a.e <= WrongGuess(a).e
  <2>1. CASE a.w < MaxWrong
    <3>1. WrongGuess(a) = [a EXCEPT !.w = @ + 1, !.W = @ + 1]
      <4>1. ~(a.w >= MaxWrong)
        BY <1>1, <2>1
      <4> QED  BY <2>1, <4>1 DEF WrongGuess
    <3> QED  BY <1>1, <3>1 DEF Snapshots
  <2>2. CASE ~(a.w < MaxWrong)
    <3>1. a.w >= MaxWrong
      BY <1>1, <2>2
    <3>2. CASE a.e = MaxEvidence
      BY <1>1, <2>2, <3>1, <3>2 DEF WrongGuess
    <3>3. CASE a.e # MaxEvidence
      <4>1. WrongGuess(a) = NextLevel(a, 1)
        BY <2>2, <3>3 DEF WrongGuess
      <4> QED  BY <1>1, <1>2, <4>1
    <3> QED  BY <3>2, <3>3
  <2> QED  BY <2>1, <2>2
<1>4. \A state : a.e = [a EXCEPT !.state = state].e
  BY <1>1 DEF Snapshots
<1>5. \A correct \in BOOLEAN : a.e <= applyGuess(a, correct).attempt.e
  BY <1>1, <1>3, <1>4 DEF applyGuess, Accepted, Rejected
<1>6. a.e <= revealEvidence(a).attempt.e
  BY <1>1, <1>2 DEF revealEvidence, Accepted, Rejected
<1> QED
  BY <1>1, <1>4, <1>5, <1>6 DEF giveUp, expire, Close, Accepted, Rejected

\* The score is never negative and never above 1350; a contribution is between
\* nothing and a whole sample.
THEOREM ScoresAreBounded ==
  ASSUME NEW a, ValidSnapshot(a), NEW ms \in Nat
  PROVE  /\ scoreSolvedAttempt(a, ms) \in Nat /\ scoreSolvedAttempt(a, ms) <= 1350
         /\ regionalPerformance(a) \in 0..100
<1>1. a.e \in 0..4 /\ a.W \in Nat
  BY EngineAssumption, Budget DEF ValidSnapshot, Snapshots, AllWrong
<1>2. timeBonusFor(ms) \in Nat /\ timeBonusFor(ms) <= 150
  BY DEF timeBonusFor
<1>3. /\ TierScore[a.e] \in Nat /\ TierScore[a.e] <= 1200
      /\ KnowledgeBase[a.e] \in 0..100
  BY <1>1 DEF TierScore, KnowledgeBase
<1>4. scoreSolvedAttempt(a, ms) \in Nat /\ scoreSolvedAttempt(a, ms) <= 1350
  <2> DEFINE tier == TierScore[a.e]  W == a.W  bonus == timeBonusFor(ms)
  <2>1. /\ tier \in Nat /\ tier <= 1200 /\ W \in Nat
        /\ bonus \in Nat /\ bonus <= 150
    BY <1>1, <1>2, <1>3
  <2> HIDE DEF tier, W, bonus
  <2>2. LET points == AtLeastZero(tier - 40 * W + bonus)
        IN points \in Nat /\ points <= 1350
    BY <2>1 DEF AtLeastZero
  <2> QED  BY <2>2 DEF scoreSolvedAttempt, tier, W, bonus
<1>5. regionalPerformance(a) \in 0..100
  <2> DEFINE base == KnowledgeBase[a.e]  W == a.W
  <2>1. base \in 0..100 /\ W \in Nat
    BY <1>1, <1>3
  <2> HIDE DEF base, W
  <2>2. AtLeastZero(base - 5 * W) \in 0..100
    BY <2>1 DEF AtLeastZero
  <2> QED  BY <2>2 DEF regionalPerformance, base, W
<1> QED  BY <1>4, <1>5

(***************************************************************************)
(* One attempt                                                             *)
(***************************************************************************)
LifeIInv == LifeOK /\ AssertionNeverThrows /\ EvidenceIsPaidFor

LEMMA InitLifeIInv == LifeInit => LifeIInv
<1> SUFFICES ASSUME LifeInit PROVE LifeIInv
  OBVIOUS
<1>1. MaxEvidence \in Nat /\ MaxWrong \in Nat
  BY EngineAssumption
<1>2. AllWrong \in Nat /\ (MaxWrong + 1) * 0 = 0
  BY <1>1, Budget
<1>3. attempt.e = 0 /\ attempt.w = 0 /\ attempt.W = 0 /\ attempt.state = "ACTIVE"
  BY DEF LifeInit, FreshSnapshot
<1>4. ValidSnapshot(attempt)
  BY FreshValid DEF LifeInit
<1> QED
  BY <1>1, <1>2, <1>3, <1>4
  DEF LifeInit, LifeIInv, LifeOK, AssertionNeverThrows, EvidenceIsPaidFor, ValidSnapshot

\* What LifeIInv says of a game that is on.
LEMMA GameOn ==
  ASSUME LifeIInv, attempt.state = "ACTIVE"
  PROVE  /\ attempt.e \in 0..MaxEvidence /\ attempt.w \in 0..MaxWrong
         /\ wrongs \in Nat /\ reveals \in Nat /\ attempt.W = wrongs
         /\ wrongs + 1 <= AllWrong /\ AllWrong \in Nat
         /\ attempt.e - reveals \in 0..MaxEvidence
         /\ wrongs >= (MaxWrong + 1) * (attempt.e - reveals) + attempt.w
         /\ ValidSnapshot(attempt)
         /\ MaxEvidence \in 0..4 /\ MaxWrong \in Nat
<1>1. /\ ValidSnapshot(attempt)
      /\ wrongs \in 0..AllWrong /\ reveals \in Nat /\ attempt.W = wrongs
      /\ attempt.e - reveals >= 0
      /\ wrongs >= (MaxWrong + 1) * (attempt.e - reveals) + attempt.w
  BY DEF LifeIInv, LifeOK, AssertionNeverThrows, EvidenceIsPaidFor
<1>2. /\ attempt.e \in 0..MaxEvidence /\ attempt.w \in 0..MaxWrong
      /\ attempt.W + 1 <= AllWrong /\ AllWrong \in Nat
      /\ MaxEvidence \in 0..4 /\ MaxWrong \in Nat
  BY <1>1, OpenCounters
<1>3. wrongs \in Nat /\ attempt.e - reveals \in 0..MaxEvidence
  BY <1>1, <1>2
<1> QED  BY <1>1, <1>2, <1>3

\* How the counters of an open game move: a guess within the level, a guess
\* that buys the next level, a reveal.
SameLevel ==
  /\ attempt'.state = "ACTIVE" /\ attempt'.e = attempt.e
  /\ attempt'.w = attempt.w + 1 /\ attempt'.W = attempt.W + 1
  /\ wrongs' = wrongs + 1 /\ reveals' = reveals
NewLevel ==
  /\ attempt'.state = "ACTIVE" /\ attempt'.e = attempt.e + 1
  /\ attempt.e < MaxEvidence /\ attempt'.w = 0
Revealed ==
  /\ NewLevel /\ attempt'.W = attempt.W
  /\ wrongs' = wrongs /\ reveals' = reveals + 1
Bought ==
  /\ NewLevel /\ attempt.w = MaxWrong /\ attempt'.W = attempt.W + 1
  /\ wrongs' = wrongs + 1 /\ reveals' = reveals
Exhausting ==
  /\ attempt'.state = "EXHAUSTED" /\ attempt'.e = attempt.e
  /\ attempt'.w = attempt.w /\ attempt.w = MaxWrong
  /\ wrongs' = wrongs + 1 /\ reveals' = reveals
Closing ==
  /\ attempt'.state \in {"SOLVED", "GIVEN_UP", "EXPIRED"}
  /\ attempt'.e = attempt.e /\ attempt'.w = attempt.w /\ attempt'.W = attempt.W
  /\ wrongs' = wrongs /\ reveals' = reveals

LEMMA StepShapes ==
  ASSUME LifeIInv, LifeNext
  PROVE  /\ attempt.state = "ACTIVE"
         /\ ValidSnapshot(attempt')
         /\ SameLevel \/ Exhausting \/ Closing \/ Revealed \/ Bought
<1>1. attempt.state = "ACTIVE"
  BY DEF LifeNext, Play, GuessWrong, GuessRight, Reveal, Surrender, Expire, Apply,
         applyGuess, revealEvidence, giveUp, expire, Close, Rejected
<1>2. /\ attempt.e \in 0..MaxEvidence /\ attempt.w \in 0..MaxWrong
      /\ ValidSnapshot(attempt) /\ attempt \in Snapshots
      /\ MaxEvidence \in 0..4 /\ MaxWrong \in Nat
      /\ wrongs \in Nat /\ reveals \in Nat
  BY <1>1, GameOn, OpenCounters
<1>3. CASE GuessWrong
  <2>1. /\ attempt' = WrongGuess(attempt)
        /\ wrongs' = wrongs + 1 /\ reveals' = reveals
    BY <1>1, <1>3 DEF GuessWrong, Apply, applyGuess, Accepted
  <2>2. ValidSnapshot(attempt')
    BY <1>1, <1>2, <2>1, WrongGuessValid
  <2>3. CASE attempt.w < MaxWrong
    <3>1. attempt' = [attempt EXCEPT !.w = @ + 1, !.W = @ + 1]
      <4>1. ~(attempt.w >= MaxWrong)
        BY <1>2, <2>3
      <4> QED  BY <2>1, <2>3, <4>1 DEF WrongGuess
    <3>2. SameLevel
      BY <1>1, <1>2, <2>1, <3>1 DEF SameLevel, Snapshots
    <3> QED  BY <1>1, <2>2, <3>2
  <2>4. CASE attempt.w >= MaxWrong /\ attempt.e = MaxEvidence
    <3>1. attempt' = [state |-> "EXHAUSTED", e |-> MaxEvidence, w |-> MaxWrong,
                      W |-> AllWrong]
      <4>1. ~(attempt.w < MaxWrong)
        BY <1>2, <2>4
      <4> QED  BY <2>1, <2>4, <4>1 DEF WrongGuess
    <3>2. Exhausting
      BY <1>2, <2>1, <2>4, <3>1 DEF Exhausting
    <3> QED  BY <1>1, <2>2, <3>2
  <2>5. CASE attempt.w >= MaxWrong /\ attempt.e # MaxEvidence
    <3>1. attempt' = NextLevel(attempt, 1)
      <4>1. ~(attempt.w < MaxWrong)
        BY <1>2, <2>5
      <4> QED  BY <2>1, <2>5, <4>1 DEF WrongGuess
    <3>2. attempt.e < MaxEvidence /\ attempt.w = MaxWrong
      BY <1>2, <2>5
    <3>3. Bought
      BY <1>1, <1>2, <2>1, <3>1, <3>2 DEF Revealed, Bought, NewLevel, NextLevel, Snapshots
    <3> QED  BY <1>1, <2>2, <3>2, <3>3
  <2> QED  BY <1>2, <2>3, <2>4, <2>5
<1>4. CASE Reveal
  <2>1. /\ attempt.e # MaxEvidence /\ attempt' = NextLevel(attempt, 0)
        /\ reveals' = reveals + 1 /\ wrongs' = wrongs
    BY <1>1, <1>4 DEF Reveal, Apply, revealEvidence, Accepted, Rejected
  <2>2. attempt.e < MaxEvidence
    BY <1>2, <2>1
  <2>3. ValidSnapshot(attempt')
    BY <1>1, <1>2, <2>1, <2>2, NextLevelValid
  <2>4. Revealed
    BY <1>1, <1>2, <2>1, <2>2 DEF Revealed, Bought, NewLevel, NextLevel, Snapshots
  <2> QED  BY <1>1, <2>3, <2>4
<1>5. CASE GuessRight \/ Surrender \/ Expire
  <2>1. PICK state \in {"SOLVED", "GIVEN_UP", "EXPIRED"} :
          attempt' = [attempt EXCEPT !.state = state]
    BY <1>1, <1>5 DEF GuessRight, Surrender, Expire, Apply, applyGuess, giveUp,
                      expire, Close, Accepted
  <2>2. wrongs' = wrongs /\ reveals' = reveals
    BY <1>5 DEF GuessRight, Surrender, Expire
  <2>3. ValidSnapshot(attempt')
    BY <1>1, <1>2, <2>1, CloseValid
  <2>4. Closing
    BY <1>2, <2>1, <2>2 DEF Closing, Snapshots
  <2> QED  BY <1>1, <2>3, <2>4
<1> QED  BY <1>3, <1>4, <1>5 DEF LifeNext, Play

LEMMA NextLifeIInv == LifeIInv /\ [LifeNext]_lifeVars => LifeIInv'
<1> SUFFICES ASSUME LifeIInv, [LifeNext]_lifeVars PROVE LifeIInv'
  OBVIOUS
<1>1. CASE UNCHANGED lifeVars
  BY <1>1 DEF LifeIInv, LifeOK, AssertionNeverThrows, EvidenceIsPaidFor, lifeVars
<1>2. CASE LifeNext
  <2>1. /\ attempt.state = "ACTIVE" /\ ValidSnapshot(attempt')
        /\ SameLevel \/ Exhausting \/ Closing \/ Revealed \/ Bought
    BY <1>2, StepShapes
  <2>2. /\ attempt.e \in 0..MaxEvidence /\ attempt.w \in 0..MaxWrong
        /\ wrongs \in Nat /\ reveals \in Nat /\ attempt.W = wrongs
        /\ wrongs + 1 <= AllWrong /\ AllWrong \in Nat
        /\ attempt.e - reveals \in 0..MaxEvidence
        /\ MaxEvidence \in 0..4 /\ MaxWrong \in Nat
    BY <2>1, GameOn
  <2> DEFINE bought == attempt.e - reveals
  <2>p. wrongs >= (MaxWrong + 1) * bought + attempt.w
    BY <2>1, GameOn
  <2>3. /\ (MaxWrong + 1) * bought \in Nat
        /\ (MaxWrong + 1) * (bought + 1) = (MaxWrong + 1) * bought + MaxWrong + 1
    BY <2>2, Budget
  <2>4. LifeOK'
    <3>1. attempt' \in Snapshots
      BY <2>1 DEF ValidSnapshot
    <3>2. /\ wrongs' = wrongs \/ wrongs' = wrongs + 1
          /\ reveals' = reveals \/ reveals' = reveals + 1
      BY <2>1, <2>2 DEF SameLevel, Exhausting, Closing, Revealed, Bought
    <3>3. wrongs' \in 0..AllWrong /\ reveals' \in Nat
      BY <2>2, <3>2
    <3> QED  BY <3>1, <3>3 DEF LifeOK
  <2> DEFINE paid == wrongs' >= (MaxWrong + 1) * (attempt'.e - reveals') + attempt'.w
  <2>5. /\ attempt'.e - reveals' >= 0 /\ paid
        /\ attempt'.state # "EXHAUSTED" => attempt'.W = wrongs'
    <3>1. CASE SameLevel \/ Exhausting \/ Closing
      <4>1. attempt'.e = attempt.e /\ reveals' = reveals
        BY <3>1 DEF SameLevel, Exhausting, Closing
      <4>2. \/ wrongs' = wrongs + 1 /\ attempt'.w = attempt.w + 1
            \/ wrongs' = wrongs + 1 /\ attempt'.w = attempt.w
            \/ wrongs' = wrongs /\ attempt'.w = attempt.w
        BY <3>1 DEF SameLevel, Exhausting, Closing
      <4>3. attempt'.state # "EXHAUSTED" => attempt'.W = wrongs'
        BY <2>2, <3>1 DEF SameLevel, Exhausting, Closing
      <4>4. paid
        BY <2>2, <2>p, <2>3, <4>1, <4>2
      <4> QED  BY <2>2, <4>1, <4>3, <4>4
    <3>2. CASE Revealed
      <4>1. /\ attempt'.e = attempt.e + 1 /\ reveals' = reveals + 1
            /\ attempt'.w = 0 /\ wrongs' = wrongs /\ attempt'.W = attempt.W
        BY <3>2 DEF Revealed, NewLevel
      <4>2. attempt'.e - reveals' = bought /\ wrongs' = wrongs /\ attempt'.W = wrongs'
        BY <2>2, <4>1
      <4>3. paid
        BY <2>2, <2>p, <2>3, <4>1, <4>2
      <4> QED  BY <2>2, <4>2, <4>3
    <3>3. CASE Bought
      <4>1. /\ attempt'.e = attempt.e + 1 /\ reveals' = reveals
            /\ attempt.w = MaxWrong
            /\ attempt'.w = 0 /\ wrongs' = wrongs + 1 /\ attempt'.W = attempt.W + 1
        BY <3>3 DEF Bought, NewLevel
      <4>2. attempt'.e - reveals' = bought + 1 /\ attempt'.W = wrongs'
        BY <2>2, <4>1
      <4>3. paid
        BY <2>2, <2>p, <2>3, <4>1, <4>2
      <4> QED  BY <2>2, <4>2, <4>3
    <3> QED  BY <2>1, <3>1, <3>2, <3>3
  <2>6. EvidenceIsPaidFor'
    BY <2>5 DEF EvidenceIsPaidFor
  <2> QED  BY <2>1, <2>4, <2>6 DEF LifeIInv, AssertionNeverThrows
<1> QED  BY <1>1, <1>2

\* Snapshots stay valid and every level, reveal and wrong guess is accounted for.
THEOREM LifeInvariant == LifeSpec => []LifeIInv
  BY InitLifeIInv, NextLifeIInv, PTL DEF LifeSpec

\* The counters stay in their ranges and the guess rows within the budget.
THEOREM LifeTypeOK == LifeSpec => []LifeOK
  BY LifeInvariant, PTL DEF LifeIInv

\* assertValidAttemptSnapshot never throws on a row the engine produced.
THEOREM LifeAssertionNeverThrows == LifeSpec => []AssertionNeverThrows
  BY LifeInvariant, PTL DEF LifeIInv

\* Evidence is paid for, by guesses or by reveals, in every game.
THEOREM LifeEvidenceIsPaidFor == LifeSpec => []EvidenceIsPaidFor
  BY LifeInvariant, PTL DEF LifeIInv

\* No move makes a later solve worth more, at any elapsed time.
LEMMA MovesNeverPay ==
  ASSUME LifeIInv, LifeNext, attempt'.state = "ACTIVE", NEW ms \in Nat
  PROVE  Worth(attempt', ms) <= Worth(attempt, ms)
<1>1. /\ attempt.state = "ACTIVE" /\ ValidSnapshot(attempt')
      /\ SameLevel \/ Revealed \/ Bought
  BY StepShapes DEF Exhausting, Closing
<1>2. /\ attempt.e \in 0..4 /\ attempt.W \in Nat
      /\ attempt \in Snapshots /\ attempt' \in Snapshots
      /\ attempt'.e \in 0..4
  <2>1. /\ ValidSnapshot(attempt) /\ ValidSnapshot(attempt')
        /\ MaxEvidence \in 0..4 /\ AllWrong \in Nat
    BY <1>1, GameOn
  <2>2. attempt \in Snapshots /\ attempt' \in Snapshots
    BY <2>1 DEF ValidSnapshot
  <2> QED  BY <2>1, <2>2 DEF Snapshots
<1>3. attempt'.W \in Nat /\ attempt.W <= attempt'.W
      /\ (attempt'.e = attempt.e \/ attempt'.e = attempt.e + 1)
  BY <1>1, <1>2 DEF SameLevel, Revealed, Bought, NewLevel
<1> DEFINE t == TierScore[attempt.e]  u == TierScore[attempt'.e]
           bonus == timeBonusFor(ms)
           V == attempt.W  W == attempt'.W
<1>4. t \in Nat /\ u \in Nat /\ u <= t /\ bonus \in Nat
  BY <1>2, <1>3 DEF TierScore, timeBonusFor
<1>5. /\ Worth(attempt, ms) = AtLeastZero(t - 40 * V + bonus)
      /\ Worth(attempt', ms) = AtLeastZero(u - 40 * W + bonus)
  BY <1>2 DEF Worth, scoreSolvedAttempt, Snapshots
<1> HIDE DEF t, u, bonus
<1>6. V \in Nat /\ W \in Nat /\ V <= W
  BY <1>2, <1>3
<1> HIDE DEF V, W
<1>7. AtLeastZero(u - 40 * W + bonus) <= AtLeastZero(t - 40 * V + bonus)
  BY <1>4, <1>6 DEF AtLeastZero
<1> QED  BY <1>5, <1>7

\* No move but a right guess ever raises what solving is worth (scoreSolvedAttempt).
THEOREM LifeNoMovePays == LifeSpec => NoMovePays
<1> DEFINE A == attempt'.state = "ACTIVE" =>
                  \A ms \in {0, 30001, 300001} :
                    Worth(attempt', ms) <= Worth(attempt, ms)
<1>1. LifeIInv /\ [LifeNext]_lifeVars => [A]_lifeVars
  BY MovesNeverPay
<1> QED  BY LifeInvariant, <1>1, PTL DEF LifeSpec, NoMovePays

\* Every move of an open game uses up an opportunity: at most
\* (MaxEvidence + 1) * (MaxWrong + 1) of them can be made.
THEOREM LifeMovesAreFinite == LifeSpec => MovesAreFinite
<1> DEFINE A == attempt'.state = "ACTIVE" =>
                  Remaining(attempt') < Remaining(attempt)
<1>1. ASSUME LifeIInv, LifeNext, attempt'.state = "ACTIVE"
      PROVE  Remaining(attempt') < Remaining(attempt)
  <2>1. /\ attempt.state = "ACTIVE"
        /\ SameLevel \/ Revealed \/ Bought
    BY <1>1, StepShapes DEF Exhausting, Closing
  <2>2. /\ attempt.e \in 0..MaxEvidence /\ attempt.w \in 0..MaxWrong
        /\ MaxEvidence \in 0..4 /\ MaxWrong \in Nat
    BY <1>1, <2>1, GameOn
  <2> DEFINE left == MaxEvidence - attempt.e
  <2>3. left \in 0..MaxEvidence /\ (MaxWrong + 1) * left \in Nat
    BY <2>2, Budget
  <2>4. CASE SameLevel
    BY <2>2, <2>3, <2>4 DEF SameLevel, Remaining
  <2>5. CASE Revealed \/ Bought
    <3>1. /\ attempt'.e = attempt.e + 1 /\ attempt'.w = 0
          /\ left - 1 \in 0..MaxEvidence
      BY <2>2, <2>5 DEF Revealed, Bought, NewLevel
    <3>2. (MaxWrong + 1) * ((left - 1) + 1)
            = (MaxWrong + 1) * (left - 1) + MaxWrong + 1
      BY <3>1, Budget
    <3>3. MaxEvidence - attempt'.e = left - 1 /\ (left - 1) + 1 = left
      BY <2>2, <3>1
    <3>4. (MaxWrong + 1) * (left - 1) \in Nat
      BY <3>1, Budget
    <3>5. attempt.w <= MaxWrong /\ (attempt.w = MaxWrong \/ attempt.w <= MaxWrong)
      BY <2>2
    <3> DEFINE below == (MaxWrong + 1) * (left - 1)
    <3>6. (MaxWrong + 1) * left = below + MaxWrong + 1
      BY <3>2, <3>3
    <3>7. Remaining(attempt') = below + (MaxWrong + 1)
      BY <2>2, <3>1, <3>3 DEF Remaining
    <3>8. Remaining(attempt) = below + MaxWrong + 1 + (MaxWrong + 1 - attempt.w)
      BY <3>6 DEF Remaining
    <3>9. below \in Nat
      BY <3>4
    <3> HIDE DEF below
    <3> QED  BY <2>2, <3>7, <3>8, <3>9
  <2> QED  BY <2>1, <2>4, <2>5
<1>2. LifeIInv /\ [LifeNext]_lifeVars => [A]_lifeVars
  BY <1>1
<1> QED  BY LifeInvariant, <1>2, PTL DEF LifeSpec, MovesAreFinite


(***************************************************************************)
(* The ledger                                                              *)
(*                                                                         *)
(* What the statements of GuestLedger preserve.  First: a sound ledger     *)
(* stays sound, and only grows.  Then the books: what the rows of a guest  *)
(* owe each other at a time t (Kept), what each attempt's guesses,         *)
(* receipts and versions add up to (Counts, and Owed while a receipt is    *)
(* still to be written), and what a statement sequence does to them        *)
(* (Quiet, Begun, Played).                                                 *)
(***************************************************************************)
\* A ledger of the right type whose attempts are those of published slots with
\* counters that assertValidAttemptSnapshot accepts.
Sound(L) ==
  /\ L \in Ledgers
  /\ \A a \in AttemptIds : L.attempts[a].state # "NONE" =>
       ValidSnapshot(snapshot(L.attempts[a])) /\ L.attempts[a].slot \in Slots

LEMMA Basics ==
  /\ AllWrong \in Nat /\ MaxEvidence \in Nat /\ MaxWrong \in Nat
  /\ \A s \in Slots : s \in Nat /\ ClosesAt(s) \in Nat /\ OpensAt(s) \in Nat
  /\ TickMs \in Nat /\ DayTicks \in Nat \ {0} /\ -1 \notin Slots
<1>1. AllWrong \in Nat /\ MaxEvidence \in Nat /\ MaxWrong \in Nat
  <2>1. MaxEvidence \in Nat /\ MaxWrong \in Nat
    BY EngineAssumption
  <2>2. 0 \in 0..MaxEvidence
    BY <2>1
  <2> QED  BY <2>1, <2>2, Budget
<1>2. ASSUME NEW s \in Slots PROVE s \in Nat /\ ClosesAt(s) \in Nat /\ OpensAt(s) \in Nat
  BY LedgerAssumption DEF ClosesAt, OpensAt
<1> QED  BY <1>1, <1>2, LedgerAssumption

LEMMA EmptySound == Sound(EmptyLedger)
<1>1. NoRow \in AttemptRows
  BY Basics DEF NoRow, AttemptRows, AttemptStates
<1>2. EmptyLedger \in Ledgers
  BY <1>1 DEF EmptyLedger, Ledgers
<1>3. \A a \in AttemptIds : EmptyLedger.attempts[a].state = "NONE"
  BY DEF EmptyLedger, NoRow
<1> QED  BY <1>2, <1>3 DEF Sound

\* The row that UpdateAttempt writes.
LEMMA UpdatedRow ==
  ASSUME NEW L, Sound(L), NEW id \in AttemptIds, L.attempts[id].state # "NONE",
         NEW next, ValidSnapshot(next), NEW at \in Nat
  PROVE  LET U == UpdateAttempt(L, id, next, at)
         IN /\ Sound(U)
            /\ U.attempts[id].state = next.state
            /\ U.attempts[id].e = next.e
            /\ U.attempts[id].slot = L.attempts[id].slot
            /\ U.attempts[id].version = L.attempts[id].version + 1
            /\ \A a \in AttemptIds \ {id} : U.attempts[a] = L.attempts[a]
            /\ U.receipts = L.receipts /\ U.guesses = L.guesses
            /\ U.days = L.days /\ U.finals = L.finals
            /\ U.contributions = L.contributions
            /\ U.knowledge = L.knowledge /\ U.board = L.board
<1> DEFINE U == UpdateAttempt(L, id, next, at)
           old == L.attempts[id]
           new == [old EXCEPT !.state = next.state, !.e = next.e, !.w = next.w,
                     !.W = next.W, !.version = @ + 1, !.updatedAt = at]
<1>1. L \in Ledgers /\ old \in AttemptRows /\ L.attempts \in [AttemptIds -> AttemptRows]
  BY DEF Sound, Ledgers
<1>2. next \in Snapshots
  BY DEF ValidSnapshot
<1>3. /\ new.state = next.state /\ new.e = next.e /\ new.w = next.w
      /\ new.W = next.W /\ new.slot = old.slot /\ new.version = old.version + 1
  BY <1>1 DEF AttemptRows
<1>4. new \in AttemptRows
  <2>1. /\ next.state \in AttemptStates /\ next.e \in 0..MaxEvidence
        /\ next.w \in 0..MaxWrong /\ next.W \in 0..AllWrong
    BY <1>2 DEF Snapshots
  <2>2. old.version + 1 \in Nat
    BY <1>1 DEF AttemptRows
  <2> QED  BY <1>1, <2>1, <2>2 DEF AttemptRows
<1>5. U = [L EXCEPT !.attempts[id] = new]
  BY DEF UpdateAttempt
<1>6. U.attempts = [L.attempts EXCEPT ![id] = new]
  BY <1>1, <1>5 DEF Ledgers
<1>7. /\ U.attempts[id] = new
      /\ \A a \in AttemptIds \ {id} : U.attempts[a] = L.attempts[a]
  BY <1>1, <1>6
<1>8. /\ U.receipts = L.receipts /\ U.guesses = L.guesses
      /\ U.days = L.days /\ U.finals = L.finals
      /\ U.contributions = L.contributions
      /\ U.knowledge = L.knowledge /\ U.board = L.board
  BY <1>1, <1>5 DEF Ledgers
<1>9. U \in Ledgers
  BY <1>1, <1>4, <1>5, SMTT(60) DEF Ledgers
<1>10. snapshot(new) = next
  BY <1>2, <1>3 DEF snapshot, Snapshots
<1>11. Sound(U)
  BY <1>3, <1>7, <1>9, <1>10, ZenonT(60) DEF Sound
<1> QED  BY <1>3, <1>7, <1>8, <1>11

\* Growth is a preorder on sound ledgers.
LEMMA GrowthReflexive ==
  ASSUME NEW L, Sound(L)
  PROVE  Grows(L, L) /\ KeepsFinished(L, L)
<1>1. \A a \in AttemptIds : L.attempts[a].version \in Nat /\ L.attempts[a].e \in Nat
  BY Basics DEF Sound, Ledgers, AttemptRows
<1> QED  BY <1>1 DEF Grows, KeepsFinished

LEMMA GrowthTransitive ==
  ASSUME NEW L, NEW M, NEW N, Sound(L), Sound(M), Sound(N),
         Grows(L, M), KeepsFinished(L, M), Grows(M, N), KeepsFinished(M, N)
  PROVE  Grows(L, N) /\ KeepsFinished(L, N)
<1>1. \A a \in AttemptIds :
        /\ L.attempts[a].version \in Nat /\ L.attempts[a].e \in Nat
        /\ M.attempts[a].version \in Nat /\ M.attempts[a].e \in Nat
        /\ N.attempts[a].version \in Nat /\ N.attempts[a].e \in Nat
  BY Basics DEF Sound, Ledgers, AttemptRows
<1>2. \A k \in Keys : L.receipts[k] # NoReceipt => N.receipts[k] = L.receipts[k]
  BY DEF Grows
<1>3. \A a \in AttemptIds : L.attempts[a].state # "NONE" =>
        /\ N.attempts[a].state # "NONE"
        /\ N.attempts[a].slot = L.attempts[a].slot
        /\ L.attempts[a].version <= N.attempts[a].version
        /\ L.attempts[a].e <= N.attempts[a].e
  BY <1>1 DEF Grows
<1>4. KeepsFinished(L, N)
  BY DEF KeepsFinished
<1> QED  BY <1>2, <1>3, <1>4 DEF Grows

\* Updating the row of an open attempt, with no less evidence, is growth.
LEMMA UpdateGrows ==
  ASSUME NEW L, Sound(L), NEW id \in AttemptIds, L.attempts[id].state = "ACTIVE",
         NEW next, ValidSnapshot(next), L.attempts[id].e <= next.e, NEW at \in Nat
  PROVE  LET U == UpdateAttempt(L, id, next, at)
         IN Grows(L, U) /\ KeepsFinished(L, U)
<1> DEFINE U == UpdateAttempt(L, id, next, at)
<1>1. /\ U.attempts[id].state = next.state
      /\ U.attempts[id].e = next.e
      /\ U.attempts[id].slot = L.attempts[id].slot
      /\ U.attempts[id].version = L.attempts[id].version + 1
      /\ \A a \in AttemptIds \ {id} : U.attempts[a] = L.attempts[a]
      /\ U.receipts = L.receipts /\ U.guesses = L.guesses
      /\ U.days = L.days /\ U.finals = L.finals
      /\ U.contributions = L.contributions
      /\ U.knowledge = L.knowledge /\ U.board = L.board
  BY UpdatedRow
<1>2. \A a \in AttemptIds : L.attempts[a].version \in Nat /\ L.attempts[a].e \in Nat
  BY Basics DEF Sound, Ledgers, AttemptRows
<1>3. next.state # "NONE"
  BY DEF ValidSnapshot, Snapshots, AttemptStates, TerminalStates
<1>4. KeepsFinished(L, U)
  BY <1>1 DEF KeepsFinished, TerminalStates
<1> HIDE DEF U
<1>5. Grows(L, U)
  BY <1>1, <1>2, <1>3 DEF Grows
<1> QED  BY <1>4, <1>5 DEF U

\* What finalize may write for an attempt: a score, and a share of knowledge.
LEMMA FinalWorth ==
  ASSUME NEW a, ValidSnapshot(a), NEW ms \in Nat
  PROVE  LET score == IF a.state = "SOLVED" THEN scoreSolvedAttempt(a, ms) ELSE 0
         IN score \in Nat /\ regionalPerformance(a) \in 0..100
<1>1. scoreSolvedAttempt(a, ms) \in Nat /\ regionalPerformance(a) \in 0..100
  BY ScoresAreBounded
<1> DEFINE s == scoreSolvedAttempt(a, ms)
<1> HIDE DEF s
<1>2. s \in Nat
  BY <1>1 DEF s
<1>3. (IF a.state = "SOLVED" THEN s ELSE 0) \in Nat
  BY <1>2
<1> QED  BY <1>1, <1>3 DEF s

\* finalize writes a sound ledger that has grown from the one before.
LEMMA FinalizeSound ==
  ASSUME NEW L, Sound(L), NEW id \in AttemptIds, L.attempts[id].state = "ACTIVE",
         NEW next, ValidSnapshot(next), next.state \in TerminalStates,
         L.attempts[id].e <= next.e, NEW at \in Nat
  PROVE  LET F == finalize(L, id, next, at)
         IN Sound(F) /\ Grows(L, F) /\ KeepsFinished(L, F)
            /\ F.attempts[id].state = next.state /\ F.receipts = L.receipts
<1> DEFINE row == L.attempts[id]
           U == UpdateAttempt(L, id, next, at)
           F == finalize(L, id, next, at)
           elapsed == AtLeastZero(at - row.startedAt) * TickMs
           score == IF next.state = "SOLVED"
                    THEN scoreSolvedAttempt(next, elapsed) ELSE 0
           p == regionalPerformance(next)
           entry == [attempt |-> id, slot |-> row.slot, e |-> next.e,
                     W |-> next.W, elapsed |-> elapsed, score |-> score]
           final == [attempt |-> id, outcome |-> next.state, score |-> score,
                     at |-> at]
           shares == {[attempt |-> id, region |-> r, alpha |-> p] :
                        r \in RegionsOf[row.slot]}
           added == IF next.state = "SOLVED" THEN {entry} ELSE {}
           known == AddKnowledge(U.knowledge, RegionsOf[row.slot], p)
           G == [U EXCEPT !.finals = @ \cup {final},
                          !.contributions = @ \cup shares,
                          !.knowledge = known,
                          !.board = @ \cup added]
<1>1. Sound(U) /\ Grows(L, U) /\ KeepsFinished(L, U)
      /\ U.attempts[id].state = next.state /\ U.receipts = L.receipts
  <2>1. Grows(L, U) /\ KeepsFinished(L, U)
    BY UpdateGrows
  <2> QED  BY <2>1, UpdatedRow
<1>2. F = U \/ F = G
  BY DEF finalize
<1>3. row \in AttemptRows /\ row.slot \in Slots /\ next \in Snapshots
  BY DEF Sound, Ledgers, ValidSnapshot
<1>4. RegionsOf[row.slot] \subseteq Regions
  BY <1>3, LedgerAssumption
<1>5. elapsed \in Nat
  <2>1. row.startedAt \in Nat
    BY <1>3 DEF AttemptRows
  <2>2. AtLeastZero(at - row.startedAt) \in Nat
    BY <2>1 DEF AtLeastZero
  <2> QED  BY <2>2, Basics
<1>6. score \in Nat /\ p \in 0..100
  BY <1>5, FinalWorth, Zenon
<1>7. /\ U \in Ledgers /\ U.knowledge \in [Regions -> [alpha : Nat, beta : Nat, samples : Nat]]
  BY <1>1 DEF Sound, Ledgers
<1>8. known \in [Regions -> [alpha : Nat, beta : Nat, samples : Nat]]
  <2> SUFFICES ASSUME NEW r \in Regions
               PROVE known[r] \in [alpha : Nat, beta : Nat, samples : Nat]
    BY DEF AddKnowledge
  <2> DEFINE k == U.knowledge[r]
  <2>1. k.alpha \in Nat /\ k.beta \in Nat /\ k.samples \in Nat
        /\ k \in [alpha : Nat, beta : Nat, samples : Nat]
    BY <1>7
  <2>2. k.alpha + p \in Nat /\ k.beta + (100 - p) \in Nat /\ k.samples + 1 \in Nat
    BY <1>6, <2>1
  <2> QED  BY <2>1, <2>2 DEF AddKnowledge
<1> HIDE DEF known, p, score, elapsed
<1>9. final \in [attempt : AttemptIds, outcome : TerminalStates, score : Nat, at : Nat]
  BY <1>6
<1>10. shares \subseteq [attempt : AttemptIds, region : Regions, alpha : 0..100]
  BY <1>4, <1>6
<1>11. entry \in [attempt : AttemptIds, slot : Slots, e : 0..MaxEvidence,
                  W : 0..AllWrong, elapsed : Nat, score : Nat]
  BY <1>3, <1>5, <1>6 DEF Snapshots
<1> HIDE DEF final, shares, entry, U
<1>12. /\ G.attempts = U.attempts /\ G.receipts = U.receipts
       /\ G.guesses = U.guesses /\ G.days = U.days
       /\ U.finals \subseteq G.finals
       /\ U.contributions \subseteq G.contributions /\ U.board \subseteq G.board
  BY <1>7 DEF Ledgers
<1>13. G \in Ledgers
  BY <1>7, <1>8, <1>9, <1>10, <1>11, ZenonT(60) DEF Ledgers
<1> HIDE DEF G
<1>14. Sound(G)
  BY <1>1, <1>12, <1>13 DEF Sound
<1>15. Grows(L, G) /\ KeepsFinished(L, G)
  BY <1>1, <1>12 DEF Grows, KeepsFinished
<1> QED  BY <1>1, <1>2, <1>12, <1>14, <1>15

\* expireIfClosed writes a sound ledger that has grown.
LEMMA ExpireSound ==
  ASSUME NEW L, Sound(L), NEW id \in AttemptIds, NEW t \in Nat
  PROVE  LET X == expireIfClosed(L, id, t)
         IN Sound(X) /\ Grows(L, X) /\ KeepsFinished(L, X)
            /\ X.receipts = L.receipts
            /\ (X.attempts[id].state = "NONE" <=> L.attempts[id].state = "NONE")
<1> DEFINE row == L.attempts[id]
           next == expire(snapshot(row)).attempt
           due == row.state = "ACTIVE" /\ t >= ClosesAt(row.slot)
<1>1. CASE ~due
  <2>1. expireIfClosed(L, id, t) = L
    BY <1>1 DEF expireIfClosed
  <2> QED  BY <2>1, GrowthReflexive
<1>2. CASE due
  <2>1. ValidSnapshot(snapshot(row)) /\ row.slot \in Slots
    BY <1>2 DEF Sound
  <2>2. /\ next.state = "EXPIRED" /\ ValidSnapshot(next)
        /\ row.e <= next.e
    <3>1. snapshot(row).state = "ACTIVE" /\ snapshot(row).e = row.e
          /\ snapshot(row) \in Snapshots
      BY <1>2, <2>1 DEF snapshot, ValidSnapshot
    <3>2. ValidSnapshot(next) /\ row.e <= next.e
      BY <2>1, <3>1, TransitionsStayValid, EvidenceOnlyGrows
    <3>3. next = [snapshot(row) EXCEPT !.state = "EXPIRED"]
      BY <3>1 DEF expire, Close, Accepted
    <3> QED  BY <3>1, <3>2, <3>3 DEF Snapshots
  <2>3. expireIfClosed(L, id, t) = finalize(L, id, next, ClosesAt(row.slot))
    BY <1>2 DEF expireIfClosed
  <2>4. ClosesAt(row.slot) \in Nat /\ next.state \in TerminalStates
    BY <2>1, <2>2, Basics DEF TerminalStates
  <2> HIDE DEF next
  <2> QED  BY <1>2, <2>2, <2>3, <2>4, FinalizeSound
<1> QED  BY <1>1, <1>2

\* Opening an attempt at most adds one.
LEMMA OpenSound ==
  ASSUME NEW L, Sound(L), NEW id \in AttemptIds, NEW slot \in Slots, NEW t \in Nat
  PROVE  LET O == openAttempt(L, id, slot, t)
         IN Sound(O) /\ Grows(L, O) /\ KeepsFinished(L, O)
            /\ O.receipts = L.receipts /\ O.attempts[id].state # "NONE"
<1> DEFINE new == [state |-> "ACTIVE", slot |-> slot, e |-> 0, w |-> 0, W |-> 0,
                   version |-> 0, startedAt |-> t, updatedAt |-> t]
           O == openAttempt(L, id, slot, t)
<1>1. CASE Exists(L, id)
  <2>1. O = L
    BY <1>1 DEF openAttempt
  <2>2. L.attempts[id].state # "NONE"
    BY <1>1 DEF Exists
  <2> QED  BY <2>1, <2>2, GrowthReflexive
<1>2. CASE ~Exists(L, id)
  <2>1. O = [L EXCEPT !.attempts[id] = new] /\ L.attempts[id].state = "NONE"
    BY <1>2 DEF openAttempt, Exists
  <2>2. L \in Ledgers /\ new \in AttemptRows
    BY Basics DEF Sound, AttemptRows, AttemptStates
  <2>3. O \in Ledgers
    BY <2>1, <2>2, SMTT(60) DEF Ledgers
  <2>4. /\ O.attempts[id] = new
        /\ \A a \in AttemptIds \ {id} : O.attempts[a] = L.attempts[a]
        /\ O.receipts = L.receipts /\ O.guesses = L.guesses
        /\ O.days = L.days /\ O.finals = L.finals
        /\ O.contributions = L.contributions /\ O.board = L.board
    BY <2>1, <2>2 DEF Ledgers
  <2>5. snapshot(new) = FreshSnapshot /\ new.slot = slot /\ new.state = "ACTIVE"
    BY DEF snapshot, FreshSnapshot
  <2> HIDE DEF new, O
  <2>6. Sound(O)
    BY <2>3, <2>4, <2>5, FreshValid DEF Sound
  <2>7. \A a \in AttemptIds : L.attempts[a].version \in Nat /\ L.attempts[a].e \in Nat
    BY Basics DEF Sound, Ledgers, AttemptRows
  <2>8. Grows(L, O)
    BY <2>1, <2>4, <2>7 DEF Grows
  <2>9. KeepsFinished(L, O)
    BY <2>1, <2>4 DEF KeepsFinished, TerminalStates
  <2> QED  BY <2>4, <2>5, <2>6, <2>8, <2>9 DEF O
<1> QED  BY <1>1, <1>2

\* Recording a guess at an open attempt only adds rows.
LEMMA RecordSound ==
  ASSUME NEW L, Sound(L), NEW command \in Commands, command.attempt \in AttemptIds,
         L.attempts[command.attempt].state = "ACTIVE", NEW t \in Nat
  PROVE  LET R == recordGuess(L, command, t)
         IN Sound(R) /\ Grows(L, R) /\ KeepsFinished(L, R)
            /\ R.receipts = L.receipts /\ R.attempts = L.attempts
<1> DEFINE row == L.attempts[command.attempt]
           R == recordGuess(L, command, t)
           guess == [attempt |-> command.attempt, number |-> row.W + 1,
                     correct |-> command.entity = "answer", e |-> row.e, at |-> t]
           G == [L EXCEPT !.guesses = @ \cup {guess}, !.days = @ \cup {utcDay(t)}]
<1>1. R = L \/ R = G
  BY DEF recordGuess
<1>2. L \in Ledgers /\ row \in AttemptRows
  BY DEF Sound, Ledgers
<1>3. row.W + 1 \in Nat /\ row.e \in 0..MaxEvidence
  BY <1>2, Basics DEF AttemptRows
<1>4. utcDay(t) \in Nat
  BY LedgerAssumption DEF utcDay
<1>5. guess \in [attempt : AttemptIds, number : Nat, correct : BOOLEAN,
                 e : 0..MaxEvidence, at : Nat]
  BY <1>3
<1> HIDE DEF guess
<1>6. G \in Ledgers
  BY <1>2, <1>4, <1>5, ZenonT(60) DEF Ledgers
<1>7. /\ G.attempts = L.attempts /\ G.receipts = L.receipts
      /\ L.guesses \subseteq G.guesses /\ L.days \subseteq G.days
      /\ G.finals = L.finals /\ G.contributions = L.contributions
      /\ G.board = L.board
  BY <1>2 DEF Ledgers
<1> HIDE DEF G
<1>8. Sound(G)
  BY <1>6, <1>7 DEF Sound
<1>9. Grows(L, L) /\ KeepsFinished(L, L)
  BY GrowthReflexive
<1>10. Grows(L, G) /\ KeepsFinished(L, G)
  BY <1>7, <1>9 DEF Grows, KeepsFinished
<1> QED  BY <1>1, <1>7, <1>8, <1>9, <1>10

\* A played command leaves a sound ledger that has grown.
LEMMA PlaySound ==
  ASSUME NEW L, Sound(L), NEW command \in Commands, command.attempt \in AttemptIds,
         L.attempts[command.attempt].state = "ACTIVE", NEW t \in Nat
  PROVE  LET P == playCommand(L, command, t)
         IN Sound(P) /\ Grows(L, P) /\ KeepsFinished(L, P)
            /\ P.receipts = L.receipts
            /\ P.attempts[command.attempt].state # "NONE"
<1> DEFINE id == command.attempt
           row == L.attempts[id]
           next == transition(snapshot(row), command).attempt
           R == recordGuess(L, command, t)
           P == playCommand(L, command, t)
<1>1. Sound(R) /\ Grows(L, R) /\ KeepsFinished(L, R)
      /\ R.receipts = L.receipts /\ R.attempts = L.attempts
  BY RecordSound
<1>2. ValidSnapshot(snapshot(row)) /\ snapshot(row).e = row.e
  BY DEF Sound, snapshot
<1>3. ValidSnapshot(next) /\ row.e <= next.e
  <2>1. /\ ValidSnapshot(applyGuess(snapshot(row), command.entity = "answer").attempt)
        /\ row.e <= applyGuess(snapshot(row), command.entity = "answer").attempt.e
    <3>1. (command.entity = "answer") \in BOOLEAN
      OBVIOUS
    <3> QED  BY <1>2, <3>1, TransitionsStayValid, EvidenceOnlyGrows
  <2>2. /\ ValidSnapshot(revealEvidence(snapshot(row)).attempt)
        /\ row.e <= revealEvidence(snapshot(row)).attempt.e
        /\ ValidSnapshot(giveUp(snapshot(row)).attempt)
        /\ row.e <= giveUp(snapshot(row)).attempt.e
    BY <1>2, TransitionsStayValid, EvidenceOnlyGrows
  <2> QED  BY <2>1, <2>2 DEF transition
<1>4. next.state = "ACTIVE" \/ next.state \in TerminalStates
  BY <1>3 DEF ValidSnapshot, Snapshots, AttemptStates
<1>5. P = IF next.state = "ACTIVE" THEN UpdateAttempt(R, id, next, t)
                                   ELSE finalize(R, id, next, t)
  BY DEF playCommand
<1> HIDE DEF next, R, P
<1>6. /\ Sound(P) /\ Grows(R, P) /\ KeepsFinished(R, P)
      /\ P.receipts = R.receipts /\ P.attempts[id].state # "NONE"
  <2>1. CASE next.state = "ACTIVE"
    <3>1. P = UpdateAttempt(R, id, next, t)
      BY <1>5, <2>1
    <3>2. Sound(P) /\ P.receipts = R.receipts /\ P.attempts[id].state = next.state
      BY <1>1, <1>3, <3>1, UpdatedRow
    <3>3. Grows(R, P) /\ KeepsFinished(R, P)
      BY <1>1, <1>3, <3>1, UpdateGrows
    <3> QED  BY <2>1, <3>2, <3>3
  <2>2. CASE next.state \in TerminalStates
    <3>1. next.state # "ACTIVE" /\ next.state # "NONE"
      BY <2>2 DEF TerminalStates
    <3>2. P = finalize(R, id, next, t)
      BY <1>5, <3>1
    <3> QED  BY <1>1, <1>3, <2>2, <3>1, <3>2, FinalizeSound
  <2> QED  BY <1>4, <2>1, <2>2
<1>7. Grows(L, P) /\ KeepsFinished(L, P)
  BY <1>1, <1>6, GrowthTransitive
<1> QED  BY <1>1, <1>6, <1>7 DEF P

\* A receipt under an unused key only adds one.
LEMMA ReceiptSound ==
  ASSUME NEW L, Sound(L), NEW key \in Keys, L.receipts[key] = NoReceipt,
         NEW command \in Commands, NEW id \in AttemptIds, NEW t \in Nat
  PROVE  LET I == insertReceipt(L, key, command, id, t)
         IN /\ Sound(I) /\ Grows(L, I) /\ KeepsFinished(L, I)
            /\ I.receipts[key].at = t
            /\ \A k \in Keys \ {key} : I.receipts[k] = L.receipts[k]
<1> DEFINE new == [command |-> command, outcome |-> committedOutcome(command),
                   attempt |-> id, version |-> L.attempts[id].version, at |-> t]
           I == insertReceipt(L, key, command, id, t)
<1>1. L \in Ledgers /\ L.attempts[id].version \in Nat
  BY DEF Sound, Ledgers, AttemptRows
<1>2. committedOutcome(command) \in Outcomes
  BY DEF committedOutcome, Outcomes
<1>3. new \in Receipts
  BY <1>1, <1>2 DEF Receipts
<1>4. I = [L EXCEPT !.receipts[key] = new]
  BY DEF insertReceipt
<1> HIDE DEF new
<1>5. I \in Ledgers
  BY <1>1, <1>3, <1>4 DEF Ledgers
<1>6. /\ I.receipts[key] = new
      /\ \A k \in Keys \ {key} : I.receipts[k] = L.receipts[k]
      /\ I.attempts = L.attempts /\ I.guesses = L.guesses /\ I.days = L.days
      /\ I.finals = L.finals /\ I.contributions = L.contributions
      /\ I.board = L.board
  BY <1>1, <1>4 DEF Ledgers
<1>7. new.at = t
  BY DEF new
<1> HIDE DEF I
<1>8. Sound(I)
  BY <1>5, <1>6 DEF Sound
<1>9. Grows(L, L) /\ KeepsFinished(L, L)
  BY GrowthReflexive
<1>10. Grows(L, I) /\ KeepsFinished(L, I)
  BY <1>6, <1>9 DEF Grows, KeepsFinished
<1> QED  BY <1>6, <1>7, <1>8, <1>10 DEF I

(***************************************************************************)
(* Sums over finite sets.  MapThenSumSet is a function on the subsets of a *)
(* set that picks an element and recurs.  Strict inclusion of finite sets  *)
(* is well-founded, so among the subsets where a claim about such a        *)
(* function is wrong one is least: that is the induction used here.        *)
(***************************************************************************)
Picked(s) == CHOOSE x \in s : TRUE
Solves(f, w, S) ==
  f = [s \in SUBSET S |->
         IF s = {} THEN 0 ELSE w[Picked(s)] + f[s \ {Picked(s)}]]

\* The sum of the weights w over S.
Total(w, S) == (CHOOSE f : Solves(f, w, S))[S]

\* Among the subsets of a finite set that are wrong, one has no smaller.
LEMMA LeastSubset ==
  ASSUME NEW S, IsFiniteSet(S), NEW Bad, Bad \subseteq SUBSET S, Bad # {}
  PROVE  \E s \in Bad : \A t \in SUBSET s : t # s => t \notin Bad
<1>1. IsWellFoundedOn(StrictSubsetOrdering(S), SUBSET S)
  BY FS_StrictSubsetOrderingWellFounded, FS_FiniteSubsetsOfFinite
<1>2. PICK s \in Bad : \A t \in Bad : ~ (<<t, s>> \in StrictSubsetOrdering(S))
  BY <1>1, WFMin, SMT
<1>3. ASSUME NEW t \in SUBSET s, t # s, t \in Bad PROVE FALSE
  <2>1. <<t, s>> \in (SUBSET S) \X (SUBSET S)
    BY <1>2, <1>3
  <2>2. <<t, s>> \in StrictSubsetOrdering(S)
    BY <1>3, <2>1 DEF StrictSubsetOrdering
  <2> QED  BY <1>2, <1>3, <2>2
<1> QED  BY <1>2, <1>3

LEMMA PickedIsIn ==
  ASSUME NEW s, s # {}
  PROVE  /\ Picked(s) \in s /\ s \ {Picked(s)} \in SUBSET s
         /\ s \ {Picked(s)} # s
  BY DEF Picked

\* What a solution is at a subset.
LEMMA SolutionAt ==
  ASSUME NEW f, NEW w, NEW S, Solves(f, w, S), NEW s \in SUBSET S
  PROVE  f[s] = IF s = {} THEN 0 ELSE w[Picked(s)] + f[s \ {Picked(s)}]
<1> DEFINE body(t) == IF t = {} THEN 0 ELSE w[Picked(t)] + f[t \ {Picked(t)}]
<1>1. f = [t \in SUBSET S |-> body(t)]
  BY DEF Solves
<1> HIDE DEF body
<1>2. f[s] = body(s)
  BY <1>1
<1> QED  BY <1>2 DEF body

\* Two solutions agree on the finite subsets they share.
LEMMA SolutionsAgree ==
  ASSUME NEW f, NEW g, NEW w, NEW S, NEW T, Solves(f, w, S), Solves(g, w, T),
         NEW U, IsFiniteSet(U), U \subseteq S, U \subseteq T
  PROVE  f[U] = g[U]
<1> DEFINE Bad == {s \in SUBSET U : f[s] # g[s]}
<1>1. SUFFICES ASSUME Bad # {} PROVE FALSE
  <2>1. U \in SUBSET U
    OBVIOUS
  <2> QED  BY <2>1
<1>2. PICK s \in Bad : \A t \in SUBSET s : t # s => t \notin Bad
  <2>1. Bad \subseteq SUBSET U
    OBVIOUS
  <2> HIDE DEF Bad
  <2> QED  BY <1>1, <2>1, LeastSubset
<1>3. s \in SUBSET S /\ s \in SUBSET T /\ s \in SUBSET U /\ f[s] # g[s]
  BY <1>2
<1>4. CASE s = {}
  BY <1>3, <1>4, SolutionAt
<1>5. CASE s # {}
  <2>1. f[s \ {Picked(s)}] = g[s \ {Picked(s)}]
    BY <1>2, <1>3, <1>5, PickedIsIn
  <2>2. f[s] = w[Picked(s)] + f[s \ {Picked(s)}]
    BY <1>3, <1>5, SolutionAt
  <2>3. g[s] = w[Picked(s)] + g[s \ {Picked(s)}]
    BY <1>3, <1>5, SolutionAt
  <2> QED  BY <1>3, <2>1, <2>2, <2>3
<1> QED  BY <1>4, <1>5

\* Every finite set has a solution.
LEMMA SolutionExists ==
  ASSUME NEW w, NEW S, IsFiniteSet(S)
  PROVE  \E f : Solves(f, w, S)
<1> DEFINE Bad == {s \in SUBSET S : ~ \E f : Solves(f, w, s)}
<1>1. SUFFICES ASSUME Bad # {} PROVE FALSE
  <2>1. S \in SUBSET S
    OBVIOUS
  <2> QED  BY <2>1
<1>2. PICK s \in Bad : \A t \in SUBSET s : t # s => t \notin Bad
  <2>1. Bad \subseteq SUBSET S
    OBVIOUS
  <2> HIDE DEF Bad
  <2> QED  BY <1>1, <2>1, LeastSubset
<1>3. s \in SUBSET S /\ ~ \E f : Solves(f, w, s)
  BY <1>2
<1> DEFINE best(t) == CHOOSE f : Solves(f, w, t)
           f == [t \in SUBSET s |->
                   IF t = {} THEN 0
                   ELSE w[Picked(t)] + best(t \ {Picked(t)})[t \ {Picked(t)}]]
<1>4. ASSUME NEW t \in SUBSET s, t # s
      PROVE  Solves(best(t), w, t)
  <2>1. \E h : Solves(h, w, t)
    BY <1>2, <1>3, <1>4
  <2> QED  BY <2>1
<1>5. ASSUME NEW t \in SUBSET s, t # s
      PROVE  f[t] = best(t)[t]
  <2> DEFINE h == best(t)
             u == t \ {Picked(t)}
  <2>1. Solves(h, w, t) /\ t \in SUBSET t
    BY <1>4, <1>5
  <2>2. h[t] = IF t = {} THEN 0 ELSE w[Picked(t)] + h[u]
    BY <2>1, SolutionAt, Zenon
  <2>3. CASE t = {}
    BY <2>2, <2>3
  <2>4. CASE t # {}
    <3>1. u \in SUBSET t /\ u # t
      BY <2>4, PickedIsIn
    <3>2. u \in SUBSET s /\ u # s /\ u \subseteq u
      BY <1>5, <3>1
    <3>3. Solves(best(u), w, u)
      BY <1>4, <3>2
    <3>4. IsFiniteSet(u)
      BY <1>3, <3>2, FS_Subset
    <3> HIDE DEF h, u, best
    <3>5. h[u] = best(u)[u]
      BY <2>1, <3>1, <3>2, <3>3, <3>4, SolutionsAgree
    <3>6. h[t] = w[Picked(t)] + best(u)[u]
      BY <2>2, <2>4, <3>5
    <3> QED  BY <1>5, <2>4, <3>6 DEF h, u
  <2> QED  BY <2>3, <2>4
<1> HIDE DEF best
<1>6. ASSUME NEW t \in SUBSET s
      PROVE  f[t] = IF t = {} THEN 0 ELSE w[Picked(t)] + f[t \ {Picked(t)}]
  <2>1. CASE t = {}
    BY <1>6, <2>1
  <2>2. CASE t # {}
    <3> DEFINE u == t \ {Picked(t)}
    <3>1. u \in SUBSET s /\ u # s
      BY <1>6, <2>2, PickedIsIn
    <3>2. f[u] = best(u)[u]
      BY <1>5, <3>1
    <3>3. f[t] = w[Picked(t)] + best(u)[u]
      BY <1>6, <2>2
    <3> QED  BY <2>2, <3>2, <3>3
  <2> QED  BY <2>1, <2>2
<1>7. f = [t \in SUBSET s |->
             IF t = {} THEN 0 ELSE w[Picked(t)] + f[t \ {Picked(t)}]]
  <2> DEFINE body(t) == IF t = {} THEN 0 ELSE w[Picked(t)] + f[t \ {Picked(t)}]
  <2>1. \A t \in SUBSET s : f[t] = body(t)
    BY <1>6
  <2>2. f = [t \in SUBSET s |-> f[t]]
    OBVIOUS
  <2> HIDE DEF body, f
  <2>3. f = [t \in SUBSET s |-> body(t)]
    BY <2>1, <2>2
  <2> QED  BY <2>3 DEF body
<1> HIDE DEF f
<1>8. Solves(f, w, s)
  BY <1>7 DEF Solves
<1> QED  BY <1>3, <1>8

LEMMA TotalSolves ==
  ASSUME NEW f, NEW w, NEW S, NEW T, Solves(f, w, S), IsFiniteSet(T),
         T \subseteq S
  PROVE  f[T] = Total(w, T)
<1>1. \E g : Solves(g, w, T)
  BY SolutionExists
<1> DEFINE g == CHOOSE h : Solves(h, w, T)
<1>2. Solves(g, w, T)
  BY <1>1
<1> HIDE DEF g
<1>3. f[T] = g[T]
  BY <1>2, SolutionsAgree
<1> QED  BY <1>3 DEF Total, g

LEMMA TotalUnfolds ==
  ASSUME NEW w, NEW S, IsFiniteSet(S)
  PROVE  Total(w, S) =
           IF S = {} THEN 0 ELSE w[Picked(S)] + Total(w, S \ {Picked(S)})
<1>1. PICK f : Solves(f, w, S)
  BY SolutionExists
<1>2. f[S] = Total(w, S)
  BY <1>1, TotalSolves
<1>3. S \in SUBSET S
  OBVIOUS
<1>4. f[S] = IF S = {} THEN 0 ELSE w[Picked(S)] + f[S \ {Picked(S)}]
  BY <1>1, <1>3, SolutionAt, Zenon
<1>5. CASE S = {}
  BY <1>2, <1>4, <1>5
<1>6. CASE S # {}
  <2>1. S \ {Picked(S)} \subseteq S /\ IsFiniteSet(S \ {Picked(S)})
    BY FS_Subset
  <2>2. f[S \ {Picked(S)}] = Total(w, S \ {Picked(S)})
    BY <1>1, <2>1, TotalSolves
  <2> QED  BY <1>2, <1>4, <1>6, <2>2
<1> QED  BY <1>5, <1>6

\* The total of naturals is a natural.
LEMMA TotalIsNat ==
  ASSUME NEW U, NEW w \in [U -> Nat], NEW S, S \subseteq U, IsFiniteSet(S)
  PROVE  Total(w, S) \in Nat
<1> DEFINE Bad == {s \in SUBSET S : Total(w, s) \notin Nat}
<1>1. SUFFICES ASSUME Bad # {} PROVE FALSE
  <2>1. S \in SUBSET S
    OBVIOUS
  <2> QED  BY <2>1
<1>2. PICK s \in Bad : \A t \in SUBSET s : t # s => t \notin Bad
  <2>1. Bad \subseteq SUBSET S
    OBVIOUS
  <2> HIDE DEF Bad
  <2> QED  BY <1>1, <2>1, LeastSubset
<1>3. s \in SUBSET S /\ IsFiniteSet(s) /\ Total(w, s) \notin Nat
  BY <1>2, FS_Subset
<1>4. CASE s = {}
  <2>1. Total(w, s) = 0
    BY <1>3, <1>4, TotalUnfolds, Zenon
  <2> QED  BY <1>3, <2>1
<1>5. CASE s # {}
  <2>1. Total(w, s \ {Picked(s)}) \in Nat
    BY <1>2, <1>3, <1>5, PickedIsIn
  <2>2. w[Picked(s)] \in Nat
    BY <1>3, <1>5, PickedIsIn
  <2>3. Total(w, s) = w[Picked(s)] + Total(w, s \ {Picked(s)})
    BY <1>3, <1>5, TotalUnfolds
  <2> QED  BY <1>3, <2>1, <2>2, <2>3
<1> QED  BY <1>4, <1>5

\* The order in which a total picks does not matter: any element can be taken
\* out of it first.
LEMMA TotalTakesOut ==
  ASSUME NEW U, NEW w \in [U -> Nat], NEW S, S \subseteq U, IsFiniteSet(S),
         NEW x \in S
  PROVE  Total(w, S) = w[x] + Total(w, S \ {x})
<1> DEFINE Bad == {s \in SUBSET S :
                     \E y \in s : Total(w, s) # w[y] + Total(w, s \ {y})}
<1>1. SUFFICES ASSUME Bad # {} PROVE FALSE
  <2>1. S \in SUBSET S
    OBVIOUS
  <2> QED  BY <2>1
<1>2. PICK s \in Bad : \A t \in SUBSET s : t # s => t \notin Bad
  <2>1. Bad \subseteq SUBSET S
    OBVIOUS
  <2> HIDE DEF Bad
  <2> QED  BY <1>1, <2>1, LeastSubset
<1>3. s \in SUBSET S /\ IsFiniteSet(s)
  BY <1>2, FS_Subset
<1>4. PICK y \in s : Total(w, s) # w[y] + Total(w, s \ {y})
  BY <1>2
<1> DEFINE c == Picked(s)
<1>5. c \in s
  BY <1>4, PickedIsIn
<1>6. Total(w, s) = w[c] + Total(w, s \ {c})
  BY <1>3, <1>4, TotalUnfolds
<1> HIDE DEF c
<1>7. CASE y = c
  BY <1>4, <1>6, <1>7
<1>8. CASE y # c
  <2> DEFINE rest == (s \ {c}) \ {y}
  <2>1. Total(w, s \ {c}) = w[y] + Total(w, rest)
    <3>1. s \ {c} \in SUBSET s /\ s \ {c} # s /\ y \in s \ {c}
      BY <1>4, <1>5, <1>8
    <3>2. s \ {c} \notin Bad /\ s \ {c} \in SUBSET S
      BY <1>2, <1>3, <3>1
    <3> QED  BY <3>1, <3>2
  <2>2. Total(w, s \ {y}) = w[c] + Total(w, (s \ {y}) \ {c})
    <3>1. s \ {y} \in SUBSET s /\ s \ {y} # s /\ c \in s \ {y}
      BY <1>4, <1>5, <1>8
    <3>2. s \ {y} \notin Bad /\ s \ {y} \in SUBSET S
      BY <1>2, <1>3, <3>1
    <3> QED  BY <3>1, <3>2
  <2>3. (s \ {y}) \ {c} = rest
    OBVIOUS
  <2>4. w[y] \in Nat /\ w[c] \in Nat
    BY <1>3, <1>4, <1>5
  <2>5. Total(w, rest) \in Nat
    <3>1. rest \subseteq U /\ IsFiniteSet(rest)
      BY <1>3, FS_Subset
    <3> QED  BY <3>1, TotalIsNat
  <2> DEFINE a == w[y]  b == w[c]  n == Total(w, rest)
  <2>6. /\ Total(w, s) = b + Total(w, s \ {c})
        /\ Total(w, s \ {c}) = a + n /\ Total(w, s \ {y}) = b + n
        /\ a \in Nat /\ b \in Nat /\ n \in Nat
    BY <1>6, <2>1, <2>2, <2>3, <2>4, <2>5
  <2> HIDE DEF rest, Bad, a, b, n
  <2>7. Total(w, s) = a + Total(w, s \ {y})
    BY <2>6
  <2> QED  BY <1>4, <2>7 DEF a
<1> QED  BY <1>7, <1>8

(***************************************************************************)
(* The two sums of contributions.                                          *)
(***************************************************************************)
Shares == [attempt : AttemptIds, region : Regions, alpha : 0..100]
AlphaSum(S) == Sets!MapThenSumSet(LAMBDA x : x.alpha, S)
BetaSum(S) == Sets!MapThenSumSet(LAMBDA x : 100 - x.alpha, S)
Alphas == [x \in Shares |-> x.alpha]
Betas == [x \in Shares |-> 100 - x.alpha]

LEMMA AlphaSumIsTotal ==
  ASSUME NEW S, S \subseteq Shares, IsFiniteSet(S)
  PROVE  AlphaSum(S) = Total(Alphas, S)
<1> DEFINE P(f) == f = [s \in SUBSET S |->
                          IF s = {} THEN 0
                          ELSE (CHOOSE x \in s : TRUE).alpha
                               + f[s \ {CHOOSE x \in s : TRUE}]]
<1>1. AlphaSum(S) = (CHOOSE f : P(f))[S]
  BY DEF AlphaSum, Sets!MapThenSumSet, Sets!MapThenFoldSet
<1>2. ASSUME NEW f PROVE P(f) <=> Solves(f, Alphas, S)
  <2> DEFINE body(s) == IF s = {} THEN 0
                        ELSE Picked(s).alpha + f[s \ {Picked(s)}]
             body2(s) == IF s = {} THEN 0
                         ELSE Alphas[Picked(s)] + f[s \ {Picked(s)}]
  <2>1. ASSUME NEW s \in SUBSET S PROVE body(s) = body2(s)
    <3>1. CASE s = {}
      BY <3>1
    <3>2. CASE s # {}
      <4>1. Picked(s) \in Shares
        BY <3>2, PickedIsIn
      <4> QED  BY <4>1 DEF Alphas
    <3> QED  BY <3>1, <3>2
  <2>2. P(f) <=> f = [s \in SUBSET S |-> body(s)]
    BY DEF Picked
  <2>3. Solves(f, Alphas, S) <=> f = [s \in SUBSET S |-> body2(s)]
    BY DEF Solves
  <2> HIDE DEF body, body2, P
  <2>4. [s \in SUBSET S |-> body(s)] = [s \in SUBSET S |-> body2(s)]
    BY <2>1
  <2> QED  BY <2>2, <2>3, <2>4
<1> HIDE DEF P
<1>3. \E f : P(f)
  BY <1>2, SolutionExists
<1> DEFINE h == CHOOSE f : P(f)
<1>4. P(h)
  BY <1>3
<1>5. Solves(h, Alphas, S)
  BY <1>2, <1>4
<1> QED  BY <1>1, <1>5, TotalSolves

LEMMA BetaSumIsTotal ==
  ASSUME NEW S, S \subseteq Shares, IsFiniteSet(S)
  PROVE  BetaSum(S) = Total(Betas, S)
<1> DEFINE P(f) == f = [s \in SUBSET S |->
                          IF s = {} THEN 0
                          ELSE (100 - (CHOOSE x \in s : TRUE).alpha)
                               + f[s \ {CHOOSE x \in s : TRUE}]]
<1>1. BetaSum(S) = (CHOOSE f : P(f))[S]
  BY DEF BetaSum, Sets!MapThenSumSet, Sets!MapThenFoldSet
<1>2. ASSUME NEW f PROVE P(f) <=> Solves(f, Betas, S)
  <2> DEFINE body(s) == IF s = {} THEN 0
                        ELSE (100 - Picked(s).alpha) + f[s \ {Picked(s)}]
             body2(s) == IF s = {} THEN 0
                         ELSE Betas[Picked(s)] + f[s \ {Picked(s)}]
  <2>1. ASSUME NEW s \in SUBSET S PROVE body(s) = body2(s)
    <3>1. CASE s = {}
      BY <3>1
    <3>2. CASE s # {}
      <4>1. Picked(s) \in Shares
        BY <3>2, PickedIsIn
      <4> QED  BY <4>1 DEF Betas
    <3> QED  BY <3>1, <3>2
  <2>2. P(f) <=> f = [s \in SUBSET S |-> body(s)]
    BY DEF Picked
  <2>3. Solves(f, Betas, S) <=> f = [s \in SUBSET S |-> body2(s)]
    BY DEF Solves
  <2> HIDE DEF body, body2, P
  <2>4. [s \in SUBSET S |-> body(s)] = [s \in SUBSET S |-> body2(s)]
    BY <2>1
  <2> QED  BY <2>2, <2>3, <2>4
<1> HIDE DEF P
<1>3. \E f : P(f)
  BY <1>2, SolutionExists
<1> DEFINE h == CHOOSE f : P(f)
<1>4. P(h)
  BY <1>3
<1>5. Solves(h, Betas, S)
  BY <1>2, <1>4
<1> QED  BY <1>1, <1>5, TotalSolves

\* One more share adds its own part to each sum, and no share none.
LEMMA SumsGrow ==
  /\ AlphaSum({}) = 0 /\ BetaSum({}) = 0
  /\ \A S \in SUBSET Shares : \A x \in Shares \ S : IsFiniteSet(S) =>
       /\ AlphaSum(S) \in Nat /\ BetaSum(S) \in Nat
       /\ AlphaSum(S \cup {x}) = AlphaSum(S) + x.alpha
       /\ BetaSum(S \cup {x}) = BetaSum(S) + (100 - x.alpha)
<1>1. Alphas \in [Shares -> Nat] /\ Betas \in [Shares -> Nat]
  <2>1. \A x \in Shares : x.alpha \in Nat /\ 100 - x.alpha \in Nat
    BY DEF Shares
  <2> QED  BY <2>1 DEF Alphas, Betas
<1>2. AlphaSum({}) = 0 /\ BetaSum({}) = 0
  <2>1. IsFiniteSet({}) /\ {} \subseteq Shares
    BY FS_EmptySet
  <2> QED  BY <2>1, AlphaSumIsTotal, BetaSumIsTotal, TotalUnfolds
<1>3. ASSUME NEW S \in SUBSET Shares, NEW x \in Shares \ S, IsFiniteSet(S)
      PROVE  /\ AlphaSum(S) \in Nat /\ BetaSum(S) \in Nat
             /\ AlphaSum(S \cup {x}) = AlphaSum(S) + x.alpha
             /\ BetaSum(S \cup {x}) = BetaSum(S) + (100 - x.alpha)
  <2> DEFINE T == S \cup {x}
  <2>1. T \subseteq Shares /\ IsFiniteSet(T) /\ x \in T /\ T \ {x} = S
    BY <1>3, FS_AddElement
  <2> HIDE DEF T
  <2>2. /\ AlphaSum(T) = Total(Alphas, T) /\ BetaSum(T) = Total(Betas, T)
        /\ AlphaSum(S) = Total(Alphas, S) /\ BetaSum(S) = Total(Betas, S)
    BY <1>3, <2>1, AlphaSumIsTotal, BetaSumIsTotal
  <2>3. /\ Total(Alphas, T) = Alphas[x] + Total(Alphas, S)
        /\ Total(Betas, T) = Betas[x] + Total(Betas, S)
    <3>1. /\ Total(Alphas, T) = Alphas[x] + Total(Alphas, T \ {x})
          /\ Total(Betas, T) = Betas[x] + Total(Betas, T \ {x})
      BY <1>1, <2>1, TotalTakesOut
    <3> QED  BY <2>1, <3>1
  <2>4. /\ Total(Alphas, S) \in Nat /\ Total(Betas, S) \in Nat
    BY <1>1, <1>3, TotalIsNat
  <2>5. /\ Alphas[x] = x.alpha /\ Betas[x] = 100 - x.alpha
        /\ x.alpha \in 0..100
    BY <1>3 DEF Alphas, Betas, Shares
  <2>6. /\ AlphaSum(T) = AlphaSum(S) + x.alpha
        /\ BetaSum(T) = BetaSum(S) + (100 - x.alpha)
    BY <2>2, <2>3, <2>4, <2>5
  <2> QED  BY <2>2, <2>4, <2>6 DEF T
<1> QED  BY <1>2, <1>3

(***************************************************************************)
(* What the rows of a guest owe each other at time t.                      *)
(***************************************************************************)
OnePerSlot(L) ==
  \A a, b \in AttemptIds :
    Exists(L, a) /\ Exists(L, b) /\ L.attempts[a].slot = L.attempts[b].slot
      => a = b

NamesExist(L) ==
  /\ \A k \in Keys : L.receipts[k] # NoReceipt =>
       Exists(L, L.receipts[k].attempt)
  /\ \A x \in L.guesses : Exists(L, x.attempt)

\* Nothing is dated later than t, and an attempt's guesses no later than its
\* row.
DatedBy(L, a, t) ==
  Exists(L, a) =>
    /\ L.attempts[a].startedAt <= L.attempts[a].updatedAt
    /\ L.attempts[a].updatedAt <= t
    /\ \A x \in GuessesOf(L, a) : x.at <= L.attempts[a].updatedAt

DaysPlayed(L) == L.days = {L.attempts[x.attempt].slot : x \in L.guesses}

\* Guesses are finitely many, differently numbered, and saw no more evidence
\* than the attempt has now.
Numbered(L, a) ==
  /\ IsFiniteSet(GuessesOf(L, a))
  /\ \A x \in GuessesOf(L, a) :
       /\ x.number \in 1..AllWrong /\ x.e <= L.attempts[a].e
       /\ \A y \in GuessesOf(L, a) : x.number = y.number => x = y

\* Only a solve is worth anything.
ScoresFit(L) == \A f \in L.finals : f.outcome # "SOLVED" => f.score = 0

Countable(L) == IsFiniteSet(L.finals) /\ IsFiniteSet(L.board)

\* The knowledge of every region is the prior and what was contributed to it.
InRegion(contributions, r) == {x \in contributions : x.region = r}
Known(L) ==
  \A r \in Regions :
    LET mine == InRegion(L.contributions, r)
    IN /\ IsFiniteSet(mine)
       /\ L.knowledge[r] = [alpha |-> 200 + AlphaSum(mine),
                            beta |-> 200 + BetaSum(mine),
                            samples |-> Cardinality(mine)]

\* The opportunities an attempt has used up; its moves so far at most.
Used(a) == (MaxWrong + 1) * a.e + a.w
Budgeted(L, a) ==
  L.attempts[a].state = "ACTIVE" => L.attempts[a].version <= Used(L.attempts[a])

Kept(L, t) ==
  /\ Sound(L) /\ OnePerSlot(L) /\ NamesExist(L) /\ DaysPlayed(L)
  /\ ScoresFit(L) /\ Countable(L) /\ Known(L)
  /\ \A a \in AttemptIds :
       /\ ClosedOnce(L, a) /\ InsideWindow(L, a) /\ DatedBy(L, a, t)
       /\ GuessesTellTheStory(L, a) /\ Numbered(L, a) /\ Budgeted(L, a)

(***************************************************************************)
(* A move of an attempt, or its expiry, as the two tell in the rows.       *)
(***************************************************************************)
MovedRow(row, next, at) ==
  [row EXCEPT !.state = next.state, !.e = next.e, !.w = next.w, !.W = next.W,
              !.version = @ + 1, !.updatedAt = at]

FinalOf(id, next, score, at) ==
  [attempt |-> id, outcome |-> next.state, score |-> score, at |-> at]
SharesOf(id, slot, next) ==
  {[attempt |-> id, region |-> r, alpha |-> regionalPerformance(next)] :
     r \in RegionsOf[slot]}
EntryOf(id, row, next, score, at) ==
  [attempt |-> id, slot |-> row.slot, e |-> next.e, W |-> next.W,
   elapsed |-> (at - row.startedAt) * TickMs, score |-> score]

Counted(L, P, id, next, at) ==
  IF next.state = "ACTIVE"
  THEN /\ P.finals = L.finals /\ P.contributions = L.contributions
       /\ P.board = L.board /\ P.knowledge = L.knowledge
  ELSE \E score \in Nat :
         /\ next.state # "SOLVED" => score = 0
         /\ P.finals = L.finals \cup {FinalOf(id, next, score, at)}
         /\ P.contributions = L.contributions
                                \cup SharesOf(id, L.attempts[id].slot, next)
         /\ P.knowledge = AddKnowledge(L.knowledge,
                                       RegionsOf[L.attempts[id].slot],
                                       regionalPerformance(next))
         /\ P.board = L.board \cup
              IF next.state = "SOLVED"
              THEN {EntryOf(id, L.attempts[id], next, score, at)} ELSE {}

GuessAt(id, row, correct, at) ==
  [attempt |-> id, number |-> row.W + 1, correct |-> correct, e |-> row.e,
   at |-> at]

\* The guess, if the move is one, and what it does to the counters.
Guessed(L, P, id, next, at) ==
  \/ /\ P.guesses = L.guesses /\ P.days = L.days
     /\ next.W = L.attempts[id].W /\ next.state \notin {"SOLVED", "EXHAUSTED"}
  \/ \E correct \in BOOLEAN :
       /\ P.guesses = L.guesses \cup {GuessAt(id, L.attempts[id], correct, at)}
       /\ P.days = L.days \cup {utcDay(at)}
       /\ IF correct
          THEN /\ next.state = "SOLVED"
               /\ next.W = L.attempts[id].W /\ next.e = L.attempts[id].e
          ELSE /\ next.state \in {"ACTIVE", "EXHAUSTED"}
               /\ next.state = "ACTIVE" => next.W = L.attempts[id].W + 1

\* P is L after an open attempt's move to next at a time no earlier than its
\* last.
Moved(L, P, id, next, at) ==
  /\ L.attempts[id].state = "ACTIVE" /\ ValidSnapshot(next)
  /\ L.attempts[id].e <= next.e
  /\ next.state = "ACTIVE" => Used(L.attempts[id]) + 1 <= Used(next)
  /\ at \in Nat /\ L.attempts[id].updatedAt <= at
  /\ at <= ClosesAt(L.attempts[id].slot)
  /\ next.state = "EXPIRED" <=> at = ClosesAt(L.attempts[id].slot)
  /\ P.attempts = [L.attempts EXCEPT
                     ![id] = MovedRow(L.attempts[id], next, at)]
  /\ P.receipts = L.receipts
  /\ Counted(L, P, id, next, at)
  /\ Guessed(L, P, id, next, at)

\* What a move does to the rows of the attempts.
LEMMA MovedRows ==
  ASSUME NEW L, Sound(L), NEW P, NEW id \in AttemptIds, NEW next, NEW at,
         Moved(L, P, id, next, at)
  PROVE  /\ L.attempts[id] \in AttemptRows /\ L.attempts[id].slot \in Slots
         /\ P.attempts[id] = MovedRow(L.attempts[id], next, at)
         /\ P.attempts[id].state = next.state
         /\ P.attempts[id].slot = L.attempts[id].slot
         /\ P.attempts[id].e = next.e /\ P.attempts[id].W = next.W
         /\ P.attempts[id].w = next.w
         /\ P.attempts[id].startedAt = L.attempts[id].startedAt
         /\ P.attempts[id].updatedAt = at
         /\ P.attempts[id].version = L.attempts[id].version + 1
         /\ snapshot(P.attempts[id]) = next
         /\ next \in Snapshots /\ next.state # "NONE"
         /\ \A a \in AttemptIds \ {id} : P.attempts[a] = L.attempts[a]
<1> DEFINE row == L.attempts[id]  new == MovedRow(row, next, at)
<1>1. /\ row \in AttemptRows /\ L.attempts \in [AttemptIds -> AttemptRows]
      /\ row.state = "ACTIVE"
  BY DEF Sound, Ledgers, Moved
<1>2. row.slot \in Slots
  BY <1>1 DEF Sound
<1>3. next \in Snapshots
  BY DEF Moved, ValidSnapshot
<1>4. next.state # "NONE"
  BY <1>3 DEF Snapshots, AttemptStates, TerminalStates
<1>5. /\ new.state = next.state /\ new.slot = row.slot /\ new.e = next.e
      /\ new.w = next.w /\ new.W = next.W /\ new.startedAt = row.startedAt
      /\ new.updatedAt = at /\ new.version = row.version + 1
  BY <1>1 DEF MovedRow, AttemptRows
<1>6. snapshot(new) = next
  BY <1>3, <1>5 DEF snapshot, Snapshots
<1>7. P.attempts = [L.attempts EXCEPT ![id] = new]
  BY DEF Moved
<1>8. P.attempts[id] = new /\ \A a \in AttemptIds \ {id} : P.attempts[a] = L.attempts[a]
  BY <1>1, <1>7
<1> HIDE DEF new
<1> QED  BY <1>1, <1>2, <1>3, <1>4, <1>5, <1>6, <1>8 DEF new

\* A move neither adds attempts nor moves them to another slot.
LEMMA MovedStaysPut ==
  ASSUME NEW L, Sound(L), NEW P, NEW id \in AttemptIds, NEW next, NEW at,
         Moved(L, P, id, next, at), NEW a \in AttemptIds
  PROVE  /\ P.attempts[a].slot = L.attempts[a].slot
         /\ Exists(P, a) <=> Exists(L, a)
<1>1. /\ P.attempts[id].state = next.state
      /\ P.attempts[id].slot = L.attempts[id].slot
      /\ next.state # "NONE"
      /\ \A b \in AttemptIds \ {id} : P.attempts[b] = L.attempts[b]
  BY MovedRows
<1>2. L.attempts[id].state # "NONE"
  BY DEF Moved
<1> QED  BY <1>1, <1>2 DEF Exists

\* An attempt that comes to its end is counted once, and completely.
LEMMA MovedClosesOnce ==
  ASSUME NEW L, Sound(L), NEW P, NEW id \in AttemptIds, NEW next, NEW at,
         Moved(L, P, id, next, at), \A a \in AttemptIds : ClosedOnce(L, a)
  PROVE  \A a \in AttemptIds : ClosedOnce(P, a)
<1> SUFFICES ASSUME NEW a \in AttemptIds PROVE ClosedOnce(P, a)
  OBVIOUS
<1> DEFINE row == L.attempts[id]
           shares(M, b) == {x \in M.contributions : x.attempt = b}
<1>1. /\ P.attempts[id].state = next.state
      /\ P.attempts[id].slot = row.slot
      /\ P.attempts[id].e = next.e /\ P.attempts[id].W = next.W
      /\ P.attempts[id].startedAt = row.startedAt
      /\ P.attempts[id].updatedAt = at
      /\ snapshot(P.attempts[id]) = next
      /\ next \in Snapshots
      /\ \A b \in AttemptIds \ {id} : P.attempts[b] = L.attempts[b]
  BY MovedRows
<1>2. FinalsOf(L, id) = {} /\ shares(L, id) = {} /\ EntriesOf(L, id) = {}
  BY DEF ClosedOnce, Moved, TerminalStates
<1>3. CASE next.state = "ACTIVE"
  <2>1. /\ P.finals = L.finals /\ P.contributions = L.contributions
        /\ P.board = L.board
    BY <1>3 DEF Moved, Counted
  <2>2. /\ FinalsOf(P, a) = FinalsOf(L, a) /\ shares(P, a) = shares(L, a)
        /\ EntriesOf(P, a) = EntriesOf(L, a)
    BY <2>1 DEF FinalsOf, EntriesOf
  <2>3. CASE a = id
    BY <1>1, <1>2, <1>3, <2>2, <2>3 DEF ClosedOnce, TerminalStates
  <2>4. CASE a # id
    <3>1. P.attempts[a] = L.attempts[a] /\ ClosedOnce(L, a)
      BY <1>1, <2>4
    <3> QED  BY <2>1, <3>1 DEF ClosedOnce, FinalsOf, EntriesOf
  <2> QED  BY <2>3, <2>4
<1>4. CASE next.state # "ACTIVE"
  <2>1. PICK score \in Nat :
          /\ next.state # "SOLVED" => score = 0
          /\ P.finals = L.finals \cup {FinalOf(id, next, score, at)}
          /\ P.contributions = L.contributions \cup SharesOf(id, row.slot, next)
          /\ P.board = L.board \cup
               IF next.state = "SOLVED"
               THEN {EntryOf(id, row, next, score, at)} ELSE {}
    BY <1>4 DEF Moved, Counted
  <2> DEFINE f == FinalOf(id, next, score, at)
             entry == EntryOf(id, row, next, score, at)
  <2>2. /\ f.attempt = id /\ f.outcome = next.state /\ f.score = score /\ f.at = at
        /\ entry.attempt = id /\ entry.score = score
    BY DEF FinalOf, EntryOf
  <2>3. \A x \in SharesOf(id, row.slot, next) : x.attempt = id
    BY DEF SharesOf
  <2>4. CASE a = id
    <3>1. next.state \in TerminalStates
      BY <1>1, <1>4 DEF Snapshots, AttemptStates
    <3>2. FinalsOf(P, id) = {f}
      BY <1>2, <2>1, <2>2 DEF FinalsOf
    <3>3. shares(P, id) = SharesOf(id, row.slot, next)
      BY <1>2, <2>1, <2>3
    <3>4. IF next.state = "SOLVED" THEN EntriesOf(P, id) = {entry}
                                   ELSE EntriesOf(P, id) = {}
      BY <1>2, <2>1, <2>2 DEF EntriesOf
    <3>5. f \in P.finals
      BY <2>1
    <3>6. entry = [attempt |-> id, slot |-> row.slot, e |-> next.e,
                   W |-> next.W, score |-> f.score,
                   elapsed |-> (at - row.startedAt) * TickMs]
      BY <2>2 DEF EntryOf
    <3> HIDE DEF f, entry
    <3> QED
      BY <1>1, <2>2, <2>4, <3>1, <3>2, <3>3, <3>4, <3>5, <3>6
      DEF ClosedOnce, SharesOf
  <2>5. CASE a # id
    <3>1. P.attempts[a] = L.attempts[a] /\ ClosedOnce(L, a)
      BY <1>1, <2>5
    <3>2. FinalsOf(P, a) = FinalsOf(L, a)
      BY <2>1, <2>2, <2>5 DEF FinalsOf
    <3>3. shares(P, a) = shares(L, a)
      BY <2>1, <2>3, <2>5
    <3>4. EntriesOf(P, a) = EntriesOf(L, a)
      BY <2>1, <2>2, <2>5 DEF EntriesOf
    <3>5. L.finals \subseteq P.finals
      BY <2>1
    <3> QED  BY <3>1, <3>2, <3>3, <3>4, <3>5 DEF ClosedOnce
  <2> QED  BY <2>4, <2>5
<1> QED  BY <1>3, <1>4

\* What is added to the knowledge of a region is what is contributed to it.
LEMMA MovedKnown ==
  ASSUME NEW L, Sound(L), NEW P, NEW id \in AttemptIds, NEW next, NEW at,
         Moved(L, P, id, next, at), ClosedOnce(L, id), Known(L)
  PROVE  Known(P)
<1> DEFINE slot == L.attempts[id].slot
           p == regionalPerformance(next)
<1>1. CASE next.state = "ACTIVE"
  <2>1. P.contributions = L.contributions /\ P.knowledge = L.knowledge
    BY <1>1 DEF Moved, Counted
  <2> QED  BY <2>1 DEF Known
<1>2. CASE next.state # "ACTIVE"
  <2>1. /\ P.contributions = L.contributions \cup SharesOf(id, slot, next)
        /\ P.knowledge = AddKnowledge(L.knowledge, RegionsOf[slot], p)
    BY <1>2 DEF Moved, Counted
  <2>2. p \in 0..100
    <3>1. ValidSnapshot(next) /\ 0 \in Nat
      BY DEF Moved
    <3> QED  BY <3>1, FinalWorth
  <2>3. L.contributions \subseteq Shares
    BY DEF Sound, Ledgers, Shares
  <2>4. {x \in L.contributions : x.attempt = id} = {}
    BY DEF ClosedOnce, Moved, TerminalStates
  <2> HIDE DEF p, slot
  <2>5. ASSUME NEW r \in Regions
        PROVE  LET mine == InRegion(P.contributions, r)
               IN /\ IsFiniteSet(mine)
                  /\ P.knowledge[r] = [alpha |-> 200 + AlphaSum(mine),
                                       beta |-> 200 + BetaSum(mine),
                                       samples |-> Cardinality(mine)]
    <3> DEFINE had == InRegion(L.contributions, r)
               mine == InRegion(P.contributions, r)
               share == [attempt |-> id, region |-> r, alpha |-> p]
    <3>1. /\ IsFiniteSet(had)
          /\ L.knowledge[r] = [alpha |-> 200 + AlphaSum(had),
                               beta |-> 200 + BetaSum(had),
                               samples |-> Cardinality(had)]
      BY DEF Known
    <3>2. CASE r \notin RegionsOf[slot]
      <4>1. mine = had
        BY <2>1, <3>2 DEF InRegion, SharesOf
      <4>2. P.knowledge[r] = L.knowledge[r]
        BY <2>1, <3>2 DEF AddKnowledge
      <4> HIDE DEF mine, had
      <4>3. /\ IsFiniteSet(mine)
            /\ P.knowledge[r] = [alpha |-> 200 + AlphaSum(mine),
                                 beta |-> 200 + BetaSum(mine),
                                 samples |-> Cardinality(mine)]
        BY <3>1, <4>1, <4>2
      <4> QED  BY <4>3 DEF mine
    <3>3. CASE r \in RegionsOf[slot]
      <4>1. share \in Shares /\ share.alpha = p
        BY <2>2 DEF Shares
      <4>2. share \notin had
        BY <2>4 DEF InRegion
      <4>3. mine = had \cup {share}
        BY <2>1, <3>3 DEF InRegion, SharesOf, p
      <4>4. had \in SUBSET Shares
        BY <2>3 DEF InRegion
      <4>5. P.knowledge[r] = [alpha |-> L.knowledge[r].alpha + p,
                              beta |-> L.knowledge[r].beta + (100 - p),
                              samples |-> L.knowledge[r].samples + 1]
        BY <2>1, <3>3 DEF AddKnowledge
      <4> HIDE DEF mine, had, share
      <4>6. /\ AlphaSum(had) \in Nat /\ BetaSum(had) \in Nat
            /\ AlphaSum(mine) = AlphaSum(had) + p
            /\ BetaSum(mine) = BetaSum(had) + (100 - p)
        BY <3>1, <4>1, <4>2, <4>3, <4>4, SumsGrow
      <4>7. IsFiniteSet(mine) /\ Cardinality(mine) = Cardinality(had) + 1
        BY <3>1, <4>2, <4>3, FS_AddElement
      <4>8. /\ L.knowledge[r].alpha + p = 200 + AlphaSum(mine)
            /\ L.knowledge[r].beta + (100 - p) = 200 + BetaSum(mine)
            /\ L.knowledge[r].samples + 1 = Cardinality(mine)
        BY <2>2, <3>1, <4>6, <4>7
      <4> QED  BY <4>5, <4>7, <4>8 DEF mine
    <3> QED  BY <3>2, <3>3
  <2> QED  BY <2>5 DEF Known
<1> QED  BY <1>1, <1>2

LEMMA MovedOnePerSlot ==
  ASSUME NEW L, Sound(L), NEW P, NEW id \in AttemptIds, NEW next, NEW at,
         Moved(L, P, id, next, at), OnePerSlot(L)
  PROVE  OnePerSlot(P)
<1>1. ASSUME NEW a \in AttemptIds
      PROVE  P.attempts[a].slot = L.attempts[a].slot /\ (Exists(P, a) <=> Exists(L, a))
  BY MovedStaysPut
<1> QED  BY <1>1 DEF OnePerSlot

\* The day of a guess is the slot of its attempt.
LEMMA DayOfWindow ==
  ASSUME NEW s \in Slots, NEW t \in Nat, OpensAt(s) <= t, t < ClosesAt(s)
  PROVE  utcDay(t) = s
<1>1. s \in Nat /\ DayTicks \in Nat \ {0}
  BY LedgerAssumption
<1>2. s * DayTicks <= t /\ t < (s + 1) * DayTicks
  BY DEF OpensAt, ClosesAt
<1> DEFINE q == t \div DayTicks
<1>3. q \in Nat /\ DayTicks * q <= t /\ t < DayTicks * (q + 1)
  BY <1>1
<1> HIDE DEF q
<1>4. ~ (q < s)
  <2> SUFFICES ASSUME q + 1 <= s PROVE FALSE
    BY <1>1, <1>3
  <2>1. DayTicks * (q + 1) <= DayTicks * s
    BY <1>1, <1>3
  <2> QED  BY <1>1, <1>2, <1>3, <2>1
<1>5. ~ (s < q)
  <2> SUFFICES ASSUME s + 1 <= q PROVE FALSE
    BY <1>1, <1>3
  <2>1. DayTicks * (s + 1) <= DayTicks * q
    BY <1>1, <1>3
  <2> QED  BY <1>1, <1>2, <1>3, <2>1
<1> QED  BY <1>1, <1>3, <1>4, <1>5 DEF q, utcDay

\* Which guesses a move adds, to which attempt.
LEMMA MovedGuesses ==
  ASSUME NEW L, Sound(L), NEW P, NEW id \in AttemptIds, NEW next, NEW at,
         Moved(L, P, id, next, at)
  PROVE  /\ \A a \in AttemptIds \ {id} : GuessesOf(P, a) = GuessesOf(L, a)
         /\ \/ GuessesOf(P, id) = GuessesOf(L, id)
            \/ \E correct \in BOOLEAN :
                 GuessesOf(P, id) = GuessesOf(L, id)
                   \cup {GuessAt(id, L.attempts[id], correct, at)}
<1>1. CASE P.guesses = L.guesses
  BY <1>1 DEF GuessesOf
<1>2. ASSUME NEW correct \in BOOLEAN,
             P.guesses = L.guesses
                           \cup {GuessAt(id, L.attempts[id], correct, at)}
      PROVE  /\ \A a \in AttemptIds \ {id} : GuessesOf(P, a) = GuessesOf(L, a)
             /\ GuessesOf(P, id) = GuessesOf(L, id)
                  \cup {GuessAt(id, L.attempts[id], correct, at)}
  <2> DEFINE x == GuessAt(id, L.attempts[id], correct, at)
  <2>1. x.attempt = id
    BY DEF GuessAt
  <2> HIDE DEF x
  <2>2. P.guesses = L.guesses \cup {x}
    BY <1>2 DEF x
  <2> QED  BY <2>1, <2>2 DEF GuessesOf, x
<1> QED  BY <1>1, <1>2 DEF Moved, Guessed

LEMMA MovedNames ==
  ASSUME NEW L, Sound(L), NEW P, NEW id \in AttemptIds, NEW next, NEW at,
         Moved(L, P, id, next, at), NamesExist(L)
  PROVE  NamesExist(P)
<1>1. \A a \in AttemptIds : Exists(P, a) <=> Exists(L, a)
  BY MovedStaysPut
<1>2. Exists(L, id)
  BY DEF Moved, Exists
<1>3. \A x \in P.guesses : x \in L.guesses \/ x.attempt = id
  BY DEF Moved, Guessed, GuessAt
<1>4. P.receipts = L.receipts
  BY DEF Moved
<1> QED  BY <1>1, <1>2, <1>3, <1>4 DEF NamesExist, Exists

LEMMA MovedDates ==
  ASSUME NEW L, Sound(L), NEW P, NEW id \in AttemptIds, NEW next, NEW at,
         Moved(L, P, id, next, at), NEW t \in Nat, at <= t,
         \A a \in AttemptIds : DatedBy(L, a, t) /\ InsideWindow(L, a)
  PROVE  \A a \in AttemptIds : DatedBy(P, a, t) /\ InsideWindow(P, a)
<1> DEFINE row == L.attempts[id]
<1>1. /\ row \in AttemptRows /\ row.slot \in Slots
      /\ P.attempts[id].state = next.state
      /\ P.attempts[id].slot = row.slot
      /\ P.attempts[id].startedAt = row.startedAt
      /\ P.attempts[id].updatedAt = at
      /\ \A a \in AttemptIds \ {id} : P.attempts[a] = L.attempts[a]
  BY MovedRows
<1>2. \A a \in AttemptIds \ {id} : GuessesOf(P, a) = GuessesOf(L, a)
  BY MovedGuesses
<1>3. ASSUME NEW a \in AttemptIds \ {id}
      PROVE  DatedBy(P, a, t) /\ InsideWindow(P, a)
  BY <1>1, <1>2, <1>3 DEF DatedBy, InsideWindow, Exists
<1>4. /\ row.startedAt \in Nat /\ row.updatedAt \in Nat /\ at \in Nat
      /\ OpensAt(row.slot) \in Nat /\ ClosesAt(row.slot) \in Nat
  BY <1>1, Basics DEF AttemptRows, Moved
<1>5. /\ row.updatedAt <= at /\ at <= ClosesAt(row.slot)
      /\ next.state = "EXPIRED" <=> at = ClosesAt(row.slot)
  BY DEF Moved
<1>6. /\ row.startedAt <= row.updatedAt /\ Exists(L, id)
      /\ OpensAt(row.slot) <= row.startedAt /\ row.startedAt < ClosesAt(row.slot)
      /\ \A x \in GuessesOf(L, id) :
           x.at <= row.updatedAt /\ row.startedAt <= x.at /\ x.at < ClosesAt(row.slot)
  BY DEF DatedBy, InsideWindow, Exists, Moved
<1>7. \A x \in L.guesses : x.at \in Nat
  BY DEF Sound, Ledgers
<1>8. ASSUME NEW x \in GuessesOf(P, id)
      PROVE  /\ x.at <= at /\ row.startedAt <= x.at /\ x.at < ClosesAt(row.slot)
  <2>1. CASE x \in GuessesOf(L, id)
    <3>1. x.at \in Nat
      BY <1>7, <2>1 DEF GuessesOf
    <3> QED  BY <1>4, <1>5, <1>6, <2>1, <3>1
  <2>2. CASE x \notin GuessesOf(L, id)
    <3>1. PICK correct \in BOOLEAN : 
            /\ P.guesses = L.guesses \cup {GuessAt(id, row, correct, at)}
            /\ correct => next.state = "SOLVED"
            /\ ~correct => next.state \in {"ACTIVE", "EXHAUSTED"}
      BY <2>2 DEF Moved, Guessed, GuessesOf
    <3>2. x.at = at
      BY <2>2, <3>1 DEF GuessesOf, GuessAt
    <3>3. next.state # "EXPIRED"
      BY <3>1
    <3> QED  BY <1>4, <1>5, <1>6, <3>2, <3>3
  <2> QED  BY <2>1, <2>2
<1>9. DatedBy(P, id, t)
  <2>1. row.startedAt <= at
    BY <1>4, <1>5, <1>6
  <2> QED  BY <1>1, <1>8, <2>1 DEF DatedBy
<1>10. InsideWindow(P, id)
  BY <1>1, <1>5, <1>6, <1>8 DEF InsideWindow
<1> QED  BY <1>3, <1>9, <1>10

LEMMA MovedDays ==
  ASSUME NEW L, Sound(L), NEW P, NEW id \in AttemptIds, NEW next, NEW at,
         Moved(L, P, id, next, at), DaysPlayed(L), NamesExist(L),
         DatedBy(L, id, at), InsideWindow(L, id)
  PROVE  DaysPlayed(P)
<1> DEFINE row == L.attempts[id]
<1>1. \A a \in AttemptIds : P.attempts[a].slot = L.attempts[a].slot
  BY MovedStaysPut
<1>2. row \in AttemptRows /\ row.slot \in Slots
  BY MovedRows
<1>3. \A x \in L.guesses : x.attempt \in AttemptIds
  BY DEF Sound, Ledgers
<1>4. CASE P.guesses = L.guesses /\ P.days = L.days
  BY <1>1, <1>3, <1>4 DEF DaysPlayed
<1>5. ASSUME NEW correct \in BOOLEAN,
             P.guesses = L.guesses \cup {GuessAt(id, row, correct, at)},
             P.days = L.days \cup {utcDay(at)},
             next.state \in {"SOLVED", "ACTIVE", "EXHAUSTED"}
      PROVE  DaysPlayed(P)
  <2> DEFINE x == GuessAt(id, row, correct, at)
  <2>1. x.attempt = id
    BY DEF GuessAt
  <2>2. OpensAt(row.slot) <= at /\ at < ClosesAt(row.slot) /\ at \in Nat
    <3>1. /\ OpensAt(row.slot) <= row.startedAt /\ row.startedAt <= row.updatedAt
          /\ row.updatedAt <= at /\ at <= ClosesAt(row.slot) /\ at \in Nat
          /\ at # ClosesAt(row.slot)
      BY <1>5 DEF Moved, DatedBy, InsideWindow, Exists
    <3>2. /\ OpensAt(row.slot) \in Nat /\ row.startedAt \in Nat
          /\ row.updatedAt \in Nat /\ ClosesAt(row.slot) \in Nat
      BY <1>2, Basics DEF AttemptRows
    <3> QED  BY <3>1, <3>2
  <2>3. utcDay(at) = row.slot
    BY <1>2, <2>2, DayOfWindow
  <2> HIDE DEF x
  <2>4. P.guesses = L.guesses \cup {x}
    BY <1>5 DEF x
  <2>5. {P.attempts[y.attempt].slot : y \in P.guesses}
          = {L.attempts[y.attempt].slot : y \in L.guesses} \cup {row.slot}
    BY <1>1, <1>3, <2>1, <2>4
  <2> QED  BY <1>5, <2>3, <2>5 DEF DaysPlayed
<1> QED  BY <1>4, <1>5 DEF Moved, Guessed

\* The guesses of an open attempt: all wrong, numbered up to W.
LEMMA OpenStory ==
  ASSUME NEW L, Sound(L), NEW id \in AttemptIds, L.attempts[id].state = "ACTIVE",
         GuessesTellTheStory(L, id), Numbered(L, id)
  PROVE  LET W == L.attempts[id].W
         IN /\ W \in Nat /\ W + 1 \in 1..AllWrong /\ L.attempts[id].e \in Nat
            /\ \A x \in GuessesOf(L, id) :
                 ~x.correct /\ x.number \in 1..W /\ x.e \in Nat /\ x.at \in Nat
            /\ {x.number : x \in GuessesOf(L, id)} = 1..W
            /\ IsFiniteSet(GuessesOf(L, id))
            /\ Cardinality(GuessesOf(L, id)) = W
<1> DEFINE row == L.attempts[id]
           right == {x \in GuessesOf(L, id) : x.correct}
<1>1. ValidSnapshot(snapshot(row)) /\ snapshot(row).state = "ACTIVE"
      /\ snapshot(row).W = row.W
  BY DEF Sound, snapshot
<1>2. row.W \in Nat /\ row.W + 1 <= AllWrong /\ AllWrong \in Nat
  BY <1>1, OpenCounters
<1>3. row \in AttemptRows /\ MaxEvidence \in Nat
  BY EngineAssumption DEF Sound, Ledgers
<1>4. right = {} /\ GuessesOf(L, id) \ right = GuessesOf(L, id)
  BY DEF GuessesTellTheStory
<1>5. /\ {x.number : x \in GuessesOf(L, id)} = 1..Cardinality(GuessesOf(L, id))
      /\ row.W = Cardinality(GuessesOf(L, id))
  BY <1>4 DEF GuessesTellTheStory
<1>6. \A x \in GuessesOf(L, id) : x.number \in 1..row.W
  BY <1>5
<1>7. \A x \in GuessesOf(L, id) : ~x.correct
  BY <1>4
<1>8. \A x \in L.guesses : x.e \in 0..MaxEvidence /\ x.at \in Nat
  BY DEF Sound, Ledgers
<1>9. \A x \in GuessesOf(L, id) : x.e \in Nat /\ x.at \in Nat
  BY <1>3, <1>8 DEF GuessesOf
<1>10. row.e \in Nat
  BY <1>3 DEF AttemptRows
<1>11. IsFiniteSet(GuessesOf(L, id))
  BY DEF Numbered
<1> QED  BY <1>2, <1>5, <1>6, <1>7, <1>9, <1>10, <1>11

LEMMA MovedStory ==
  ASSUME NEW L, Sound(L), NEW P, NEW id \in AttemptIds, NEW next, NEW at,
         Moved(L, P, id, next, at), DatedBy(L, id, at),
         \A a \in AttemptIds : GuessesTellTheStory(L, a) /\ Numbered(L, a)
  PROVE  \A a \in AttemptIds : GuessesTellTheStory(P, a) /\ Numbered(P, a)
<1> DEFINE row == L.attempts[id]
           W == row.W
           old == GuessesOf(L, id)
<1>1. /\ row \in AttemptRows /\ next \in Snapshots
      /\ P.attempts[id].state = next.state
      /\ P.attempts[id].e = next.e /\ P.attempts[id].W = next.W
      /\ \A a \in AttemptIds \ {id} : P.attempts[a] = L.attempts[a]
  BY MovedRows
<1>2. /\ row.state = "ACTIVE" /\ row.e <= next.e /\ at \in Nat
      /\ row.updatedAt <= at /\ Exists(L, id)
  BY DEF Moved, Exists
<1>3. /\ W \in Nat /\ W + 1 \in 1..AllWrong /\ row.e \in Nat
      /\ \A x \in old :
           ~x.correct /\ x.number \in 1..W /\ x.e \in Nat /\ x.at \in Nat
      /\ {x.number : x \in old} = 1..W
      /\ IsFiniteSet(old) /\ Cardinality(old) = W
  BY <1>2, OpenStory
<1>4. next.e \in Nat /\ row.updatedAt \in Nat /\ AllWrong \in Nat
  BY <1>1, Basics DEF AttemptRows, Snapshots
<1>5. \A x \in old : /\ x.at <= at /\ x.e <= row.e /\ x.e <= next.e
                     /\ x.number \in 1..AllWrong
  <2> SUFFICES ASSUME NEW x \in old
               PROVE  x.at <= at /\ x.e <= row.e /\ x.e <= next.e
                      /\ x.number \in 1..AllWrong
    OBVIOUS
  <2>1. x.at <= row.updatedAt /\ x.e <= row.e /\ x.number \in 1..AllWrong
    BY <1>2 DEF DatedBy, Numbered
  <2> QED  BY <1>2, <1>3, <1>4, <2>1
<1>6. \A x, y \in old : /\ x.number = y.number => x = y
                        /\ x.number < y.number => x.at <= y.at /\ x.e <= y.e
  BY DEF Numbered, GuessesTellTheStory
<1>7. ASSUME NEW a \in AttemptIds \ {id}
      PROVE  GuessesTellTheStory(P, a) /\ Numbered(P, a)
  <2>1. GuessesOf(P, a) = GuessesOf(L, a) /\ P.attempts[a] = L.attempts[a]
    BY <1>1, MovedGuesses
  <2>2. GuessesTellTheStory(L, a) /\ Numbered(L, a)
    OBVIOUS
  <2> QED  BY <2>1, <2>2 DEF GuessesTellTheStory, Numbered
<1>8. ASSUME P.guesses = L.guesses, next.W = W,
             next.state \notin {"SOLVED", "EXHAUSTED"}
      PROVE  GuessesTellTheStory(P, id) /\ Numbered(P, id)
  <2>1. GuessesOf(P, id) = old
    BY <1>8 DEF GuessesOf
  <2>2. {x \in old : x.correct} = {} /\ old \ {x \in old : x.correct} = old
    BY <1>3
  <2>3. Numbered(P, id)
    BY <1>1, <1>3, <1>5, <1>6, <2>1 DEF Numbered
  <2>4. GuessesTellTheStory(P, id)
    BY <1>1, <1>3, <1>6, <1>8, <2>1, <2>2 DEF GuessesTellTheStory
  <2> QED  BY <2>3, <2>4
<1>9. ASSUME NEW correct \in BOOLEAN,
             P.guesses = L.guesses \cup {GuessAt(id, row, correct, at)},
             IF correct
             THEN next.state = "SOLVED" /\ next.W = W /\ next.e = row.e
             ELSE /\ next.state \in {"ACTIVE", "EXHAUSTED"}
                  /\ next.state = "ACTIVE" => next.W = W + 1
      PROVE  GuessesTellTheStory(P, id) /\ Numbered(P, id)
  <2> DEFINE x == GuessAt(id, row, correct, at)
             new == GuessesOf(P, id)
  <2>1. /\ x.attempt = id /\ x.number = W + 1 /\ x.correct = correct
        /\ x.e = row.e /\ x.at = at
    BY DEF GuessAt
  <2>2. new = old \cup {x}
    BY <1>9, <2>1 DEF GuessesOf
  <2> HIDE DEF x, new
  <2>3. x \notin old
    BY <1>3, <2>1
  <2>4. Numbered(P, id)
    <3>1. IsFiniteSet(new)
      BY <1>3, <2>2, FS_AddElement
    <3>2. \A y \in new : y.number \in 1..AllWrong /\ y.e <= next.e
      BY <1>2, <1>3, <1>5, <2>1, <2>2
    <3>3. \A y, z \in new : y.number = z.number => y = z
      BY <1>3, <1>6, <2>1, <2>2
    <3> QED  BY <1>1, <3>1, <3>2, <3>3 DEF Numbered, new
  <2>5. \A y, z \in new : y.number < z.number => y.at <= z.at /\ y.e <= z.e
    <3> SUFFICES ASSUME NEW y \in new, NEW z \in new, y.number < z.number
                 PROVE  y.at <= z.at /\ y.e <= z.e
      OBVIOUS
    <3>1. CASE z = x
      BY <1>2, <1>3, <1>5, <2>1, <2>2, <3>1
    <3>2. CASE z # x
      <4>1. z \in old /\ z.number \in 1..W
        BY <1>3, <2>2, <3>2
      <4>2. y # x
        BY <1>3, <2>1, <4>1
      <4> QED  BY <1>6, <2>2, <4>1, <4>2
    <3> QED  BY <3>1, <3>2
  <2>6. CASE correct
    <3>1. {y \in new : y.correct} = {x} /\ new \ {y \in new : y.correct} = old
      BY <1>3, <2>1, <2>2, <2>3, <2>6
    <3>2. P.attempts[id].state = "SOLVED" /\ P.attempts[id].W = W
          /\ P.attempts[id].e = row.e
      BY <1>1, <1>9, <2>6
    <3> QED  BY <1>3, <2>1, <2>4, <2>5, <3>1, <3>2 DEF GuessesTellTheStory, new
  <2>7. CASE ~correct
    <3>1. {y \in new : y.correct} = {} /\ new \ {y \in new : y.correct} = new
      BY <1>3, <2>1, <2>2, <2>7
    <3>2. Cardinality(new) = W + 1
      BY <1>3, <2>2, <2>3, FS_AddElement
    <3>3. {y.number : y \in new} = 1..(W + 1)
      <4>1. \A y \in new : y.number \in 1..(W + 1)
        BY <1>3, <2>1, <2>2
      <4>2. ASSUME NEW n \in 1..(W + 1) PROVE \E y \in new : y.number = n
        <5>1. CASE n = W + 1
          BY <2>1, <2>2, <5>1
        <5>2. CASE n # W + 1
          <6>1. n \in {y.number : y \in old}
            BY <1>3, <5>2
          <6> QED  BY <2>2, <6>1
        <5> QED  BY <5>1, <5>2
      <4> QED  BY <4>1, <4>2
    <3>4. /\ P.attempts[id].state \in {"ACTIVE", "EXHAUSTED"}
          /\ P.attempts[id].state # "EXHAUSTED" => P.attempts[id].W = W + 1
      BY <1>1, <1>9, <2>7
    <3> QED  BY <2>4, <2>5, <3>1, <3>2, <3>3, <3>4 DEF GuessesTellTheStory, new
  <2> QED  BY <2>6, <2>7
<1>10. GuessesTellTheStory(P, id) /\ Numbered(P, id)
  BY <1>8, <1>9 DEF Moved, Guessed
<1> QED  BY <1>7, <1>10

\* A move that leaves the attempt open uses up an opportunity.
LEMMA MovedWithinBudget ==
  ASSUME NEW L, Sound(L), NEW P, NEW id \in AttemptIds, NEW next, NEW at,
         Moved(L, P, id, next, at), \A a \in AttemptIds : Budgeted(L, a)
  PROVE  \A a \in AttemptIds : Budgeted(P, a)
<1> DEFINE row == L.attempts[id]
<1>1. /\ row \in AttemptRows /\ next \in Snapshots
      /\ P.attempts[id].state = next.state
      /\ P.attempts[id].e = next.e /\ P.attempts[id].w = next.w
      /\ P.attempts[id].version = row.version + 1
      /\ \A a \in AttemptIds \ {id} : P.attempts[a] = L.attempts[a]
  BY MovedRows
<1>2. ASSUME next.state = "ACTIVE" PROVE row.version + 1 <= Used(next)
  <2>1. /\ row.version <= Used(row) /\ Used(row) + 1 <= Used(next)
    BY <1>2 DEF Moved, Budgeted
  <2>2. /\ row.version \in Nat /\ row.e \in 0..MaxEvidence /\ row.w \in Nat
        /\ next.e \in 0..MaxEvidence /\ next.w \in Nat
    BY <1>1, Basics DEF AttemptRows, Snapshots
  <2>3. Used(row) \in Nat /\ Used(next) \in Nat
    <3>1. (MaxWrong + 1) * row.e \in Nat /\ (MaxWrong + 1) * next.e \in Nat
      BY <2>2, Budget
    <3> QED  BY <2>2, <3>1 DEF Used
  <2> QED  BY <2>1, <2>2, <2>3
<1>3. Budgeted(P, id)
  BY <1>1, <1>2 DEF Budgeted, Used
<1>4. \A a \in AttemptIds \ {id} : Budgeted(P, a)
  BY <1>1 DEF Budgeted
<1> QED  BY <1>3, <1>4

\* A move that leaves a sound ledger keeps the books.
LEMMA MovedKept ==
  ASSUME NEW L, NEW t \in Nat, Kept(L, t), NEW P, Sound(P),
         NEW id \in AttemptIds, NEW next, NEW at, at <= t,
         Moved(L, P, id, next, at)
  PROVE  Kept(P, t)
<1>1. /\ Sound(L) /\ OnePerSlot(L) /\ NamesExist(L) /\ DaysPlayed(L)
      /\ ScoresFit(L) /\ Countable(L) /\ Known(L)
      /\ \A a \in AttemptIds : ClosedOnce(L, a)
      /\ \A a \in AttemptIds : Budgeted(L, a)
      /\ \A a \in AttemptIds : DatedBy(L, a, t) /\ InsideWindow(L, a)
      /\ \A a \in AttemptIds : GuessesTellTheStory(L, a) /\ Numbered(L, a)
  BY DEF Kept
<1>2. DatedBy(L, id, at)
  BY <1>1 DEF DatedBy, Moved
<1>3. OnePerSlot(P)
  BY <1>1, MovedOnePerSlot
<1>4. NamesExist(P)
  BY <1>1, MovedNames
<1>5. DaysPlayed(P)
  BY <1>1, <1>2, MovedDays
<1>6. \A a \in AttemptIds : ClosedOnce(P, a)
  BY <1>1, MovedClosesOnce
<1>7. \A a \in AttemptIds : DatedBy(P, a, t) /\ InsideWindow(P, a)
  BY <1>1, MovedDates
<1>8. \A a \in AttemptIds : GuessesTellTheStory(P, a) /\ Numbered(P, a)
  BY <1>1, <1>2, MovedStory
<1>9. ScoresFit(P)
  BY <1>1 DEF ScoresFit, Moved, Counted, FinalOf
<1>10. Countable(P)
  <2>1. \A f : IsFiniteSet(L.finals \cup {f}) /\ IsFiniteSet(L.board \cup {f})
    BY <1>1, FS_AddElement DEF Countable
  <2> QED  BY <1>1, <2>1 DEF Countable, Moved, Counted
<1>11. \A a \in AttemptIds : Budgeted(P, a)
  BY <1>1, MovedWithinBudget
<1>12. Known(P)
  BY <1>1, MovedKnown
<1> QED
  BY <1>3, <1>4, <1>5, <1>6, <1>7, <1>8, <1>9, <1>10, <1>11, <1>12 DEF Kept

\* Time alone does not spoil the books.
LEMMA KeptLater ==
  ASSUME NEW L, NEW t \in Nat, NEW u \in Nat, Kept(L, t), t <= u
  PROVE  Kept(L, u)
<1>1. \A a \in AttemptIds : L.attempts[a].updatedAt \in Nat
  BY DEF Kept, Sound, Ledgers, AttemptRows
<1>2. \A a \in AttemptIds : DatedBy(L, a, u)
  BY <1>1 DEF Kept, DatedBy
<1> QED  BY <1>2 DEF Kept

(***************************************************************************)
(* The statements of GuestLedger as moves.                                 *)
(***************************************************************************)
LEMMA UpdateCounts ==
  ASSUME NEW R, Sound(R), NEW id \in AttemptIds, R.attempts[id].state = "ACTIVE",
         NEW next, next.state = "ACTIVE", NEW at \in Nat
  PROVE  LET U == UpdateAttempt(R, id, next, at)
         IN /\ U.attempts = [R.attempts EXCEPT
                               ![id] = MovedRow(R.attempts[id], next, at)]
            /\ U.receipts = R.receipts /\ U.guesses = R.guesses
            /\ U.days = R.days /\ Counted(R, U, id, next, at)
<1> DEFINE new == MovedRow(R.attempts[id], next, at)
           U == UpdateAttempt(R, id, next, at)
<1>1. R \in Ledgers
  BY DEF Sound
<1>2. U = [R EXCEPT !.attempts[id] = new]
  BY DEF UpdateAttempt, MovedRow
<1> HIDE DEF new
<1>3. /\ U.attempts = [R.attempts EXCEPT ![id] = new]
      /\ U.receipts = R.receipts /\ U.guesses = R.guesses /\ U.days = R.days
      /\ U.finals = R.finals /\ U.contributions = R.contributions
      /\ U.board = R.board /\ U.knowledge = R.knowledge
  BY <1>1, <1>2 DEF Ledgers
<1> QED  BY <1>3 DEF Counted, new

LEMMA FinalizeCounts ==
  ASSUME NEW R, Sound(R), NEW id \in AttemptIds, R.attempts[id].state = "ACTIVE",
         FinalsOf(R, id) = {}, NEW next, ValidSnapshot(next),
         next.state \in TerminalStates,
         NEW at \in Nat, R.attempts[id].startedAt <= at
  PROVE  LET F == finalize(R, id, next, at)
         IN /\ F.attempts = [R.attempts EXCEPT
                               ![id] = MovedRow(R.attempts[id], next, at)]
            /\ F.receipts = R.receipts /\ F.guesses = R.guesses
            /\ F.days = R.days /\ Counted(R, F, id, next, at)
<1> DEFINE row == R.attempts[id]
           new == MovedRow(row, next, at)
           U == UpdateAttempt(R, id, next, at)
           F == finalize(R, id, next, at)
           elapsed == AtLeastZero(at - row.startedAt) * TickMs
           score == IF next.state = "SOLVED"
                    THEN scoreSolvedAttempt(next, elapsed) ELSE 0
           p == regionalPerformance(next)
           entry == [attempt |-> id, slot |-> row.slot, e |-> next.e,
                     W |-> next.W, elapsed |-> elapsed, score |-> score]
           final == [attempt |-> id, outcome |-> next.state, score |-> score,
                     at |-> at]
           shares == {[attempt |-> id, region |-> r, alpha |-> p] :
                        r \in RegionsOf[row.slot]}
           added == IF next.state = "SOLVED" THEN {entry} ELSE {}
           known == AddKnowledge(U.knowledge, RegionsOf[row.slot], p)
<1>1. R \in Ledgers /\ row \in AttemptRows
  BY DEF Sound, Ledgers
<1>2. U = [R EXCEPT !.attempts[id] = new]
  BY DEF UpdateAttempt, MovedRow
<1>3. /\ row.startedAt \in Nat /\ at - row.startedAt \in Nat
      /\ AtLeastZero(at - row.startedAt) = at - row.startedAt
  BY <1>1 DEF AttemptRows, AtLeastZero
<1>4. elapsed = (at - row.startedAt) * TickMs /\ elapsed \in Nat
  BY <1>3, Basics
<1>5. score \in Nat /\ (next.state # "SOLVED" => score = 0)
  BY <1>4, FinalWorth, Zenon
<1>6. final = FinalOf(id, next, score, at)
  BY DEF FinalOf
<1>7. shares = SharesOf(id, row.slot, next)
  BY DEF SharesOf
<1>8. entry = EntryOf(id, row, next, score, at)
  BY <1>4 DEF EntryOf
<1>9. F = [U EXCEPT !.finals = @ \cup {final},
                    !.contributions = @ \cup shares,
                    !.knowledge = known,
                    !.board = @ \cup added]
  <2>1. ~ \E f \in R.finals : f.attempt = id
    BY DEF FinalsOf
  <2> QED  BY <2>1 DEF finalize
<1> HIDE DEF new, U, F, elapsed, score, p, entry, final, shares, known
<1>10. /\ DOMAIN U = DOMAIN R
       /\ U.attempts = [R.attempts EXCEPT ![id] = new]
       /\ U.receipts = R.receipts /\ U.guesses = R.guesses /\ U.days = R.days
       /\ U.finals = R.finals /\ U.contributions = R.contributions
       /\ U.board = R.board /\ U.knowledge = R.knowledge
  BY <1>1, <1>2 DEF Ledgers
<1>11. "finals" \in DOMAIN U /\ "contributions" \in DOMAIN U
       /\ "knowledge" \in DOMAIN U /\ "board" \in DOMAIN U
  BY <1>1, <1>10 DEF Ledgers
<1>12. /\ F.attempts = U.attempts /\ F.receipts = U.receipts
       /\ F.guesses = U.guesses /\ F.days = U.days
       /\ F.finals = U.finals \cup {final}
       /\ F.contributions = U.contributions \cup shares
       /\ F.board = U.board \cup added /\ F.knowledge = known
  BY <1>9, <1>11
<1>13. next.state # "ACTIVE"
  BY DEF TerminalStates
<1>14. Counted(R, F, id, next, at)
  <2>1. /\ F.finals = R.finals \cup {FinalOf(id, next, score, at)}
        /\ F.contributions = R.contributions \cup SharesOf(id, row.slot, next)
        /\ F.board = R.board \cup
              IF next.state = "SOLVED"
              THEN {EntryOf(id, row, next, score, at)} ELSE {}
    BY <1>6, <1>7, <1>8, <1>10, <1>12
  <2>2. F.knowledge = AddKnowledge(R.knowledge, RegionsOf[row.slot],
                                   regionalPerformance(next))
    BY <1>10, <1>12 DEF known, p
  <2> QED  BY <1>5, <1>13, <2>1, <2>2 DEF Counted
<1> QED  BY <1>10, <1>12, <1>14 DEF new, F

\* An expiry either changes nothing or is a move at the close.
LEMMA ExpireMoves ==
  ASSUME NEW L, NEW t \in Nat, Kept(L, t), NEW id \in AttemptIds,
         NEW u \in Nat
  PROVE  LET X == expireIfClosed(L, id, u)
             row == L.attempts[id]
             next == expire(snapshot(row)).attempt
         IN \/ X = L /\ ~(row.state = "ACTIVE" /\ u >= ClosesAt(row.slot))
            \/ /\ Moved(L, X, id, next, ClosesAt(row.slot))
               /\ X.guesses = L.guesses /\ X.days = L.days /\ X.board = L.board
               /\ ClosesAt(row.slot) <= u /\ next.state = "EXPIRED"
<1> DEFINE row == L.attempts[id]
           next == expire(snapshot(row)).attempt
           at == ClosesAt(row.slot)
           X == expireIfClosed(L, id, u)
<1>1. CASE ~(row.state = "ACTIVE" /\ u >= at)
  BY <1>1 DEF expireIfClosed
<1>2. CASE row.state = "ACTIVE" /\ u >= at
  <2>1. /\ Sound(L) /\ ClosedOnce(L, id) /\ DatedBy(L, id, t)
        /\ InsideWindow(L, id)
    BY DEF Kept
  <2>2. /\ ValidSnapshot(snapshot(row)) /\ row.slot \in Slots
        /\ row \in AttemptRows
    BY <1>2, <2>1 DEF Sound, Ledgers
  <2>3. /\ snapshot(row).state = "ACTIVE" /\ snapshot(row).e = row.e
        /\ snapshot(row).W = row.W /\ snapshot(row) \in Snapshots
    BY <1>2, <2>2 DEF snapshot, ValidSnapshot
  <2>4. ValidSnapshot(next)
    BY <2>2, TransitionsStayValid
  <2>5. /\ next.state = "EXPIRED" /\ next.e = row.e /\ next.W = row.W
    <3>1. next = [snapshot(row) EXCEPT !.state = "EXPIRED"]
      BY <2>3 DEF expire, Close, Accepted
    <3> QED  BY <2>3, <3>1 DEF Snapshots
  <2>6. /\ at \in Nat /\ row.startedAt \in Nat /\ row.updatedAt \in Nat
        /\ row.e \in Nat
    BY <2>2, Basics DEF AttemptRows
  <2>7. row.startedAt <= row.updatedAt /\ row.updatedAt <= at
    BY <1>2, <2>1 DEF DatedBy, InsideWindow, Exists
  <2>8. FinalsOf(L, id) = {}
    BY <1>2, <2>1 DEF ClosedOnce, TerminalStates
  <2>9. X = finalize(L, id, next, at)
    BY <1>2 DEF expireIfClosed
  <2> HIDE DEF next, X
  <2>10. next.state \in TerminalStates
    BY <2>5 DEF TerminalStates
  <2>11. /\ X.attempts = [L.attempts EXCEPT ![id] = MovedRow(row, next, at)]
         /\ X.receipts = L.receipts /\ X.guesses = L.guesses
         /\ X.days = L.days /\ Counted(L, X, id, next, at)
    BY <1>2, <2>1, <2>4, <2>6, <2>7, <2>8, <2>9, <2>10, FinalizeCounts
  <2>12. X.board = L.board
    BY <2>5, <2>11 DEF Counted
  <2>13. Moved(L, X, id, next, at)
    <3>1. Guessed(L, X, id, next, at)
      BY <2>5, <2>11 DEF Guessed
    <3> QED  BY <1>2, <2>4, <2>5, <2>6, <2>7, <2>11, <3>1 DEF Moved
  <2> QED  BY <1>2, <2>5, <2>11, <2>12, <2>13 DEF next, X
<1> QED  BY <1>1, <1>2

LEMMA ExpireKept ==
  ASSUME NEW L, NEW t \in Nat, Kept(L, t), NEW id \in AttemptIds,
         NEW u \in Nat, u <= t
  PROVE  LET X == expireIfClosed(L, id, u)
         IN /\ Kept(X, t)
            /\ X.attempts[id].state = "ACTIVE" =>
                 X = L /\ u < ClosesAt(X.attempts[id].slot)
<1> DEFINE row == L.attempts[id]
           next == expire(snapshot(row)).attempt
           at == ClosesAt(row.slot)
           X == expireIfClosed(L, id, u)
<1>1. Sound(L) /\ Sound(X)
  BY ExpireSound DEF Kept
<1>2. \/ X = L /\ ~(row.state = "ACTIVE" /\ u >= at)
      \/ Moved(L, X, id, next, at) /\ at <= u /\ next.state = "EXPIRED"
  BY ExpireMoves
<1> HIDE DEF X, next
<1>3. CASE X = L /\ ~(row.state = "ACTIVE" /\ u >= at)
  <2>1. ASSUME row.state = "ACTIVE" PROVE u < at
    <3>1. row.slot \in Slots
      BY <1>1, <2>1 DEF Sound
    <3> QED  BY <1>3, <2>1, <3>1, Basics
  <2> QED  BY <1>3, <2>1 DEF X
<1>4. CASE Moved(L, X, id, next, at) /\ at <= u /\ next.state = "EXPIRED"
  <2>1. at \in Nat
    BY <1>4 DEF Moved
  <2>2. at <= t
    BY <1>4, <2>1
  <2>3. Kept(X, t)
    BY <1>1, <1>4, <2>2, MovedKept
  <2>4. X.attempts[id].state = "EXPIRED"
    BY <1>1, <1>4, MovedRows
  <2> QED  BY <2>3, <2>4 DEF X
<1> QED  BY <1>2, <1>3, <1>4

\* A tolerated guess uses an opportunity, and so does the next level.
LEMMA StepUses ==
  ASSUME NEW a \in Snapshots
  PROVE  /\ a.w < MaxWrong =>
              Used(a) + 1 <= Used([a EXCEPT !.w = @ + 1, !.W = @ + 1])
         /\ \A more \in {0, 1} : Used(a) + 1 <= Used(NextLevel(a, more))
<1>1. a.e \in 0..MaxEvidence /\ a.w \in 0..MaxWrong /\ MaxWrong \in Nat
  BY Basics DEF Snapshots
<1>2. /\ (MaxWrong + 1) * a.e \in Nat
      /\ (MaxWrong + 1) * (a.e + 1) = (MaxWrong + 1) * a.e + MaxWrong + 1
  BY <1>1, Budget
<1>3. ASSUME a.w < MaxWrong
      PROVE  Used(a) + 1 <= Used([a EXCEPT !.w = @ + 1, !.W = @ + 1])
  <2> DEFINE b == [a EXCEPT !.w = @ + 1, !.W = @ + 1]
  <2>1. b.e = a.e /\ b.w = a.w + 1
    BY DEF Snapshots
  <2> HIDE DEF b
  <2> QED  BY <1>1, <1>2, <2>1 DEF Used, b
<1>4. ASSUME NEW more \in {0, 1}
      PROVE  Used(a) + 1 <= Used(NextLevel(a, more))
  <2>1. NextLevel(a, more).e = a.e + 1 /\ NextLevel(a, more).w = 0
    BY DEF Snapshots, NextLevel
  <2> HIDE DEF NextLevel
  <2> QED  BY <1>1, <1>2, <2>1 DEF Used
<1> QED  BY <1>3, <1>4

\* What a transition does to the counters, and to the guesses beside them.
LEMMA TransitionTells ==
  ASSUME NEW a, ValidSnapshot(a), a.state = "ACTIVE", NEW command \in Commands
  PROVE  LET next == transition(a, command).attempt
         IN /\ ValidSnapshot(next) /\ a.e <= next.e /\ next.state # "EXPIRED"
            /\ command.kind = "GUESS" =>
                 IF command.entity = "answer"
                 THEN next.state = "SOLVED" /\ next.W = a.W /\ next.e = a.e
                 ELSE /\ next.state \in {"ACTIVE", "EXHAUSTED"}
                      /\ next.state = "ACTIVE" => next.W = a.W + 1
            /\ command.kind # "GUESS" =>
                 /\ next.W = a.W
                 /\ next.state = IF command.kind = "REVEAL" THEN "ACTIVE"
                                                          ELSE "GIVEN_UP"
            /\ transition(a, command).reason = "NONE" /\ next.state = "ACTIVE"
                 => Used(a) + 1 <= Used(next)
<1> DEFINE next == transition(a, command).attempt
           correct == command.entity = "answer"
<1>1. /\ a \in Snapshots /\ a.w \in 0..MaxWrong /\ a.e \in 0..MaxEvidence
      /\ a.W \in Nat /\ MaxWrong \in Nat
  BY OpenCounters
<1>2. correct \in BOOLEAN
  OBVIOUS
<1>3. /\ ValidSnapshot(applyGuess(a, correct).attempt)
      /\ a.e <= applyGuess(a, correct).attempt.e
  BY <1>2, TransitionsStayValid, EvidenceOnlyGrows
<1>4. /\ ValidSnapshot(revealEvidence(a).attempt)
      /\ a.e <= revealEvidence(a).attempt.e
      /\ ValidSnapshot(giveUp(a).attempt) /\ a.e <= giveUp(a).attempt.e
  BY TransitionsStayValid, EvidenceOnlyGrows
<1>5. CASE command.kind = "GUESS"
  <2>1. next = applyGuess(a, correct).attempt
    BY <1>5 DEF transition
  <2>2. CASE correct
    <3>1. next = [a EXCEPT !.state = "SOLVED"]
      BY <2>1, <2>2 DEF applyGuess, Accepted
    <3>2. next.state = "SOLVED" /\ next.W = a.W /\ next.e = a.e
      BY <1>1, <3>1 DEF Snapshots
    <3> QED  BY <1>3, <1>5, <2>1, <2>2, <3>2
  <2>3. CASE ~correct
    <3>1. next = WrongGuess(a)
      BY <2>1, <2>3 DEF applyGuess, Accepted
    <3>2. CASE a.w < MaxWrong
      <4>1. WrongGuess(a) = [a EXCEPT !.w = @ + 1, !.W = @ + 1]
        BY <1>1, <3>2 DEF WrongGuess
      <4>2. next.state = "ACTIVE" /\ next.W = a.W + 1
        BY <1>1, <3>1, <4>1 DEF Snapshots
      <4>3. Used(a) + 1 <= Used(next)
        BY <1>1, <3>1, <3>2, <4>1, StepUses
      <4> QED  BY <1>3, <1>5, <2>1, <2>3, <4>2, <4>3
    <3>3. CASE a.w >= MaxWrong /\ a.e = MaxEvidence
      <4>1. next.state = "EXHAUSTED"
        BY <1>1, <3>1, <3>3 DEF WrongGuess
      <4> QED  BY <1>3, <1>5, <2>1, <2>3, <4>1
    <3>4. CASE a.w >= MaxWrong /\ a.e # MaxEvidence
      <4>1. WrongGuess(a) = NextLevel(a, 1)
        BY <1>1, <3>4 DEF WrongGuess
      <4>2. next.state = "ACTIVE" /\ next.W = a.W + 1
        BY <1>1, <3>1, <4>1 DEF NextLevel, Snapshots
      <4>3. Used(a) + 1 <= Used(next)
        BY <1>1, <3>1, <4>1, StepUses
      <4> QED  BY <1>3, <1>5, <2>1, <2>3, <4>2, <4>3
    <3> QED  BY <1>1, <3>2, <3>3, <3>4
  <2> QED  BY <2>2, <2>3
<1>6. CASE command.kind = "REVEAL"
  <2>1. next = revealEvidence(a).attempt
    BY <1>6 DEF transition
  <2>2. \/ next = a /\ transition(a, command).reason # "NONE"
        \/ next = NextLevel(a, 0)
    BY <1>6, <2>1 DEF revealEvidence, Accepted, Rejected, transition
  <2>3. NextLevel(a, 0).state = "ACTIVE" /\ NextLevel(a, 0).W = a.W
    BY <1>1 DEF NextLevel, Snapshots
  <2>4. next.state = "ACTIVE" /\ next.W = a.W
    BY <2>2, <2>3
  <2>5. transition(a, command).reason = "NONE" => Used(a) + 1 <= Used(next)
    BY <1>1, <2>2, StepUses
  <2> QED  BY <1>4, <1>6, <2>1, <2>4, <2>5
<1>7. CASE command.kind \notin {"GUESS", "REVEAL"}
  <2>1. next = giveUp(a).attempt
    BY <1>7 DEF transition
  <2>2. next = [a EXCEPT !.state = "GIVEN_UP"]
    BY <2>1 DEF giveUp, Close, Accepted
  <2>3. next.state = "GIVEN_UP" /\ next.W = a.W
    BY <1>1, <2>2 DEF Snapshots
  <2> QED  BY <1>4, <1>7, <2>1, <2>3
<1> QED  BY <1>5, <1>6, <1>7

\* How an attempt may stand after a command with this outcome.
Follows(state, outcome) ==
  /\ outcome = "CORRECT" => state = "SOLVED"
  /\ outcome = "WRONG" => state \in {"ACTIVE", "EXHAUSTED"}
  /\ outcome = "REVEALED" => state = "ACTIVE"
  /\ outcome = "GIVEN_UP" => state = "GIVEN_UP"

\* A command played in the window is a move at the time it is played.
LEMMA PlayMoves ==
  ASSUME NEW L, NEW t \in Nat, Kept(L, t), NEW command \in Commands,
         command.attempt \in AttemptIds, rejection(L, command) = "NONE",
         L.attempts[command.attempt].state = "ACTIVE",
         t < ClosesAt(L.attempts[command.attempt].slot)
  PROVE  LET id == command.attempt
             next == transition(snapshot(L.attempts[id]), command).attempt
         IN /\ Moved(L, playCommand(L, command, t), id, next, t)
            /\ Follows(next.state, committedOutcome(command))
<1> DEFINE id == command.attempt
           row == L.attempts[id]
           a == snapshot(row)
           next == transition(a, command).attempt
           R == recordGuess(L, command, t)
           P == playCommand(L, command, t)
           correct == command.entity = "answer"
<1>1. /\ Sound(L) /\ ClosedOnce(L, id) /\ DatedBy(L, id, t)
  BY DEF Kept
<1>2. L \in Ledgers /\ row \in AttemptRows /\ ValidSnapshot(a) /\ row.slot \in Slots
  BY <1>1 DEF Sound, Ledgers
<1>3. a.state = "ACTIVE" /\ a.e = row.e /\ a.W = row.W
  BY DEF snapshot
<1>4. transition(a, command).reason = "NONE"
  BY DEF rejection
<1>5. Used(a) = Used(row)
  BY DEF Used, snapshot
<1> HIDE DEF a
<1>6. /\ ValidSnapshot(next) /\ row.e <= next.e /\ next.state # "EXPIRED"
      /\ command.kind = "GUESS" =>
           IF correct
           THEN next.state = "SOLVED" /\ next.W = row.W /\ next.e = row.e
           ELSE /\ next.state \in {"ACTIVE", "EXHAUSTED"}
                /\ next.state = "ACTIVE" => next.W = row.W + 1
      /\ command.kind # "GUESS" =>
           /\ next.W = row.W
           /\ next.state = IF command.kind = "REVEAL" THEN "ACTIVE" ELSE "GIVEN_UP"
      /\ next.state = "ACTIVE" => Used(row) + 1 <= Used(next)
  BY <1>2, <1>3, <1>4, <1>5, TransitionTells
<1>7. Follows(next.state, committedOutcome(command))
  BY <1>6 DEF Follows, committedOutcome
<1>8. Sound(R) /\ R.attempts = L.attempts /\ R.receipts = L.receipts
  BY <1>1, RecordSound
<1>9. P = IF next.state = "ACTIVE" THEN UpdateAttempt(R, id, next, t)
                                   ELSE finalize(R, id, next, t)
  BY DEF playCommand, a
<1>10. /\ R.finals = L.finals /\ R.contributions = L.contributions
       /\ R.board = L.board /\ R.knowledge = L.knowledge
       /\ command.kind = "GUESS" =>
            /\ R.guesses = L.guesses \cup {GuessAt(id, row, correct, t)}
            /\ R.days = L.days \cup {utcDay(t)}
       /\ command.kind # "GUESS" => R.guesses = L.guesses /\ R.days = L.days
  BY <1>2 DEF recordGuess, GuessAt, Ledgers
<1>11. FinalsOf(L, id) = {}
  BY <1>1 DEF ClosedOnce, TerminalStates
<1>12. FinalsOf(R, id) = {}
  BY <1>10, <1>11 DEF FinalsOf
<1>13. /\ row.startedAt \in Nat /\ row.updatedAt \in Nat
       /\ row.startedAt <= row.updatedAt /\ row.updatedAt <= t
       /\ ClosesAt(row.slot) \in Nat
  BY <1>1, <1>2, Basics DEF AttemptRows, DatedBy, Exists
<1> HIDE DEF next, R, P
<1>14. /\ P.attempts = [L.attempts EXCEPT ![id] = MovedRow(row, next, t)]
       /\ P.receipts = L.receipts /\ P.guesses = R.guesses
       /\ P.days = R.days /\ Counted(R, P, id, next, t)
  <2>1. CASE next.state = "ACTIVE"
    <3>1. P = UpdateAttempt(R, id, next, t)
      BY <1>9, <2>1
    <3> QED  BY <1>8, <2>1, <3>1, UpdateCounts
  <2>2. CASE next.state # "ACTIVE"
    <3>1. P = finalize(R, id, next, t)
      BY <1>9, <2>2
    <3>2. next.state \in TerminalStates
      BY <1>6, <2>2 DEF ValidSnapshot, Snapshots, AttemptStates
    <3>3. R.attempts[id].startedAt <= t
      BY <1>8, <1>13
    <3> QED  BY <1>6, <1>8, <1>12, <3>1, <3>2, <3>3, FinalizeCounts
  <2> QED  BY <2>1, <2>2
<1>15. Counted(L, P, id, next, t)
  BY <1>8, <1>10, <1>14 DEF Counted
<1>16. Guessed(L, P, id, next, t)
  <2>1. CASE command.kind = "GUESS"
    <3>1. correct \in BOOLEAN
      OBVIOUS
    <3>2. /\ P.guesses = L.guesses \cup {GuessAt(id, row, correct, t)}
          /\ P.days = L.days \cup {utcDay(t)}
      BY <1>10, <1>14, <2>1
    <3> HIDE DEF correct
    <3> QED  BY <1>6, <2>1, <3>1, <3>2 DEF Guessed
  <2>2. CASE command.kind # "GUESS"
    BY <1>6, <1>10, <1>14, <2>2 DEF Guessed
  <2> QED  BY <2>1, <2>2
<1>17. t <= ClosesAt(row.slot) /\ t # ClosesAt(row.slot)
  BY <1>13
<1>18. Moved(L, P, id, next, t)
  BY <1>6, <1>13, <1>14, <1>15, <1>16, <1>17 DEF Moved
<1> QED  BY <1>18, <1>7 DEF next, P, a

LEMMA PlayKept ==
  ASSUME NEW L, NEW t \in Nat, Kept(L, t), NEW command \in Commands,
         command.attempt \in AttemptIds, rejection(L, command) = "NONE",
         L.attempts[command.attempt].state = "ACTIVE",
         t < ClosesAt(L.attempts[command.attempt].slot)
  PROVE  Kept(playCommand(L, command, t), t)
<1>1. Sound(L)
  BY DEF Kept
<1>2. Sound(playCommand(L, command, t))
  BY <1>1, PlaySound
<1> QED  BY <1>2, PlayMoves, MovedKept

\* A row nobody has been given has no guesses, shares or entries.
LEMMA NothingOfNobody ==
  ASSUME NEW L, NEW t \in Nat, Kept(L, t), NEW id \in AttemptIds,
         L.attempts[id].state = "NONE"
  PROVE  /\ GuessesOf(L, id) = {} /\ ReceiptsOn(L, id) = {}
         /\ FinalsOf(L, id) = {} /\ EntriesOf(L, id) = {}
         /\ {x \in L.contributions : x.attempt = id} = {}
<1>1. NamesExist(L) /\ ClosedOnce(L, id)
  BY DEF Kept
<1>2. GuessesOf(L, id) = {} /\ ReceiptsOn(L, id) = {}
  BY <1>1 DEF NamesExist, Exists, GuessesOf, ReceiptsOn
<1> QED  BY <1>1, <1>2 DEF ClosedOnce, TerminalStates

\* Opening the attempt of a slot whose window is open keeps the books.
LEMMA OpenKept ==
  ASSUME NEW L, NEW t \in Nat, Kept(L, t), NEW slot \in Slots,
         OpensAt(slot) <= t, t < ClosesAt(slot),
         NEW unused, \A a \in unused : a \in AttemptIds /\ ~Exists(L, a),
         NEW id \in startedIds(L, slot, unused)
  PROVE  LET O == openAttempt(L, id, slot, t)
         IN /\ id \in AttemptIds /\ Kept(O, t) /\ Exists(O, id)
            /\ O.attempts[id].slot = slot
            /\ \A a \in AttemptIds \ {id} : O.attempts[a] = L.attempts[a]
            /\ Exists(L, id) => O = L
            /\ ~Exists(L, id) =>
                 /\ AttemptsOf(L, slot) = {} /\ L.attempts[id].state = "NONE"
                 /\ O.attempts[id].state = "ACTIVE" /\ O.attempts[id].version = 0
            /\ O.guesses = L.guesses /\ O.receipts = L.receipts
            /\ O.finals = L.finals /\ O.board = L.board
<1> DEFINE new == [state |-> "ACTIVE", slot |-> slot, e |-> 0, w |-> 0, W |-> 0,
                   version |-> 0, startedAt |-> t, updatedAt |-> t]
           O == openAttempt(L, id, slot, t)
<1>1. CASE AttemptsOf(L, slot) # {}
  <2>1. id \in AttemptsOf(L, slot)
    BY <1>1 DEF startedIds
  <2>2. id \in AttemptIds /\ Exists(L, id) /\ L.attempts[id].slot = slot
    BY <2>1 DEF AttemptsOf, Exists
  <2>3. O = L
    BY <2>2 DEF openAttempt
  <2> QED  BY <2>2, <2>3
<1>2. CASE AttemptsOf(L, slot) = {}
  <2>1. id \in AttemptIds /\ ~Exists(L, id) /\ L.attempts[id].state = "NONE"
    BY <1>2 DEF startedIds, Exists
  <2>2. \A a \in AttemptIds : Exists(L, a) => L.attempts[a].slot # slot
    BY <1>2 DEF AttemptsOf, Exists
  <2>3. O = [L EXCEPT !.attempts[id] = new]
    BY <2>1 DEF openAttempt
  <2>4. /\ Sound(L) /\ OnePerSlot(L) /\ NamesExist(L) /\ DaysPlayed(L)
        /\ ScoresFit(L) /\ Countable(L) /\ Known(L)
        /\ \A a \in AttemptIds :
             /\ ClosedOnce(L, a) /\ InsideWindow(L, a) /\ DatedBy(L, a, t)
             /\ GuessesTellTheStory(L, a) /\ Numbered(L, a) /\ Budgeted(L, a)
    BY DEF Kept
  <2>5. L \in Ledgers
    BY <2>4 DEF Sound
  <2>6. Sound(O)
    BY <2>1, <2>4, OpenSound
  <2>7. /\ O.attempts[id] = new
        /\ \A a \in AttemptIds \ {id} : O.attempts[a] = L.attempts[a]
        /\ O.receipts = L.receipts /\ O.guesses = L.guesses /\ O.days = L.days
        /\ O.finals = L.finals /\ O.contributions = L.contributions
        /\ O.board = L.board /\ O.knowledge = L.knowledge
    BY <2>1, <2>3, <2>5 DEF Ledgers
  <2>8. /\ new.state = "ACTIVE" /\ new.slot = slot /\ new.W = 0 /\ new.e = 0
        /\ new.version = 0 /\ new.startedAt = t /\ new.updatedAt = t
    OBVIOUS
  <2> HIDE DEF O, new
  <2>9. Exists(O, id) /\ \A a \in AttemptIds \ {id} : Exists(O, a) <=> Exists(L, a)
    BY <2>1, <2>7, <2>8 DEF Exists
  <2>10. OnePerSlot(O)
    <3>1. \A a \in AttemptIds \ {id} :
            Exists(O, a) => O.attempts[a].slot # slot
      BY <2>2, <2>7, <2>9
    <3>2. O.attempts[id].slot = slot
      BY <2>7, <2>8
    <3> QED  BY <2>4, <2>7, <2>9, <3>1, <3>2 DEF OnePerSlot
  <2>11. NamesExist(O)
    BY <2>4, <2>7, <2>9 DEF NamesExist, Exists
  <2>12. DaysPlayed(O)
    <3>1. \A x \in L.guesses : x.attempt \in AttemptIds \ {id}
      BY <2>1, <2>4 DEF NamesExist, Exists
    <3>2. \A x \in L.guesses : O.attempts[x.attempt] = L.attempts[x.attempt]
      BY <2>7, <3>1
    <3> QED  BY <2>4, <2>7, <3>2 DEF DaysPlayed
  <2>13. /\ GuessesOf(L, id) = {} /\ FinalsOf(L, id) = {} /\ EntriesOf(L, id) = {}
         /\ {x \in L.contributions : x.attempt = id} = {}
    BY <2>1, NothingOfNobody
  <2>14. /\ \A a \in AttemptIds : GuessesOf(O, a) = GuessesOf(L, a)
         /\ \A a \in AttemptIds : FinalsOf(O, a) = FinalsOf(L, a)
         /\ \A a \in AttemptIds : EntriesOf(O, a) = EntriesOf(L, a)
    BY <2>7 DEF GuessesOf, FinalsOf, EntriesOf
  <2>15. ASSUME NEW a \in AttemptIds \ {id}
         PROVE  /\ ClosedOnce(O, a) /\ InsideWindow(O, a) /\ DatedBy(O, a, t)
                /\ GuessesTellTheStory(O, a) /\ Numbered(O, a)
    <3>1. /\ O.attempts[a] = L.attempts[a] /\ GuessesOf(O, a) = GuessesOf(L, a)
          /\ FinalsOf(O, a) = FinalsOf(L, a) /\ EntriesOf(O, a) = EntriesOf(L, a)
          /\ Exists(O, a) <=> Exists(L, a)
      BY <2>7, <2>9, <2>14
    <3>2. ClosedOnce(O, a)
      BY <2>4, <2>7, <3>1 DEF ClosedOnce
    <3>3. InsideWindow(O, a) /\ DatedBy(O, a, t)
      BY <2>4, <3>1 DEF InsideWindow, DatedBy
    <3> HIDE DEF O
    <3>4. GuessesTellTheStory(L, a) /\ Numbered(L, a)
      BY <2>4
    <3>5. GuessesTellTheStory(O, a)
      BY <3>1, <3>4 DEF GuessesTellTheStory
    <3>6. Numbered(O, a)
      BY <3>1, <3>4 DEF Numbered
    <3> QED  BY <3>2, <3>3, <3>5, <3>6
  <2>16. /\ ClosedOnce(O, id) /\ InsideWindow(O, id) /\ DatedBy(O, id, t)
         /\ GuessesTellTheStory(O, id) /\ Numbered(O, id)
    <3>1. GuessesOf(O, id) = {} /\ FinalsOf(O, id) = {} /\ EntriesOf(O, id) = {}
          /\ {x \in O.contributions : x.attempt = id} = {}
      BY <2>1, <2>7, <2>13, <2>14
    <3>2. ClosedOnce(O, id)
      BY <2>7, <2>8, <3>1 DEF ClosedOnce, TerminalStates
    <3>3. ClosesAt(slot) \in Nat
      BY Basics
    <3>4. InsideWindow(O, id)
      BY <2>7, <2>8, <3>1, <3>3 DEF InsideWindow
    <3>5. DatedBy(O, id, t)
      BY <2>7, <2>8, <3>1 DEF DatedBy
    <3>6. Numbered(O, id)
      BY <3>1, FS_EmptySet DEF Numbered
    <3>7. GuessesTellTheStory(O, id)
      <4>1. Cardinality({}) = 0 /\ 1..0 = {}
        BY FS_EmptySet
      <4>2. O.attempts[id].W = 0 /\ O.attempts[id].state = "ACTIVE"
        BY <2>7, <2>8
      <4>3. {x \in {} : x.correct} = {} /\ {} \ {} = {} /\ {x.number : x \in {}} = {}
        OBVIOUS
      <4> QED  BY <3>1, <4>1, <4>2, <4>3 DEF GuessesTellTheStory
    <3> QED  BY <3>2, <3>4, <3>5, <3>6, <3>7
  <2>17. Kept(O, t)
    <3>1. ScoresFit(O) /\ Countable(O) /\ Known(O)
      BY <2>4, <2>7 DEF ScoresFit, Countable, Known
    <3>2. \A a \in AttemptIds \ {id} : Budgeted(O, a)
      BY <2>4, <2>7 DEF Budgeted
    <3>3. Used(new) = 0
      <4>1. (MaxWrong + 1) * 0 = 0 /\ new.w = 0
        BY Basics DEF new
      <4> QED  BY <2>8, <4>1 DEF Used
    <3>4. Budgeted(O, id)
      BY <2>7, <2>8, <3>3 DEF Budgeted
    <3> QED
      BY <2>6, <2>10, <2>11, <2>12, <2>15, <2>16, <3>1, <3>2, <3>4 DEF Kept
  <2>18. /\ O.attempts[id].slot = slot /\ O.attempts[id].version = 0
         /\ O.attempts[id].state = "ACTIVE"
    BY <2>7, <2>8
  <2> QED  BY <1>2, <2>1, <2>7, <2>9, <2>17, <2>18 DEF O
<1> QED  BY <1>1, <1>2

\* A receipt is beside the rest of the books.
LEMMA ReceiptKept ==
  ASSUME NEW L, NEW t \in Nat, Kept(L, t), NEW key \in Keys,
         L.receipts[key] = NoReceipt, NEW command \in Commands,
         NEW id \in AttemptIds, Exists(L, id), NEW u \in Nat
  PROVE  LET I == insertReceipt(L, key, command, id, u)
         IN /\ Kept(I, t)
            /\ I.attempts = L.attempts /\ I.guesses = L.guesses
            /\ I.receipts[key] = [command |-> command,
                                  outcome |-> committedOutcome(command),
                                  attempt |-> id,
                                  version |-> L.attempts[id].version, at |-> u]
            /\ \A k \in Keys \ {key} : I.receipts[k] = L.receipts[k]
            /\ I.finals = L.finals /\ I.board = L.board
<1> DEFINE I == insertReceipt(L, key, command, id, u)
           new == [command |-> command, outcome |-> committedOutcome(command),
                   attempt |-> id, version |-> L.attempts[id].version, at |-> u]
<1>1. Sound(L) /\ Sound(I)
  BY ReceiptSound DEF Kept
<1>2. L \in Ledgers
  BY <1>1 DEF Sound
<1>3. I = [L EXCEPT !.receipts[key] = new]
  BY DEF insertReceipt
<1>4. new.attempt = id
  OBVIOUS
<1> HIDE DEF new
<1>5. /\ I.receipts[key] = new
      /\ \A k \in Keys \ {key} : I.receipts[k] = L.receipts[k]
      /\ I.attempts = L.attempts /\ I.guesses = L.guesses /\ I.days = L.days
      /\ I.finals = L.finals /\ I.contributions = L.contributions
      /\ I.board = L.board /\ I.knowledge = L.knowledge
  BY <1>2, <1>3 DEF Ledgers
<1> HIDE DEF I
<1>6. OnePerSlot(I) /\ DaysPlayed(I) /\ ScoresFit(I) /\ Countable(I) /\ Known(I)
  BY <1>5 DEF Kept, OnePerSlot, DaysPlayed, ScoresFit, Countable, Known, Exists
<1>7. NamesExist(I)
  BY <1>4, <1>5 DEF Kept, NamesExist, Exists
<1>8. ASSUME NEW a \in AttemptIds
      PROVE  /\ ClosedOnce(I, a) /\ InsideWindow(I, a) /\ DatedBy(I, a, t)
             /\ GuessesTellTheStory(I, a) /\ Numbered(I, a) /\ Budgeted(I, a)
  <2>1. /\ ClosedOnce(L, a) /\ InsideWindow(L, a) /\ DatedBy(L, a, t)
        /\ GuessesTellTheStory(L, a) /\ Numbered(L, a) /\ Budgeted(L, a)
    BY DEF Kept
  <2>2. /\ GuessesOf(I, a) = GuessesOf(L, a) /\ FinalsOf(I, a) = FinalsOf(L, a)
        /\ EntriesOf(I, a) = EntriesOf(L, a) /\ (Exists(I, a) <=> Exists(L, a))
    BY <1>5 DEF GuessesOf, FinalsOf, EntriesOf, Exists
  <2>3. ClosedOnce(I, a)
    BY <1>5, <2>1, <2>2 DEF ClosedOnce
  <2>4. InsideWindow(I, a) /\ DatedBy(I, a, t)
    BY <1>5, <2>1, <2>2 DEF InsideWindow, DatedBy
  <2>5. GuessesTellTheStory(I, a) /\ Numbered(I, a)
    BY <1>5, <2>1, <2>2 DEF GuessesTellTheStory, Numbered
  <2>6. Budgeted(I, a)
    BY <1>5, <2>1 DEF Budgeted
  <2> QED  BY <2>3, <2>4, <2>5, <2>6
<1>9. Kept(I, t)
  BY <1>1, <1>6, <1>7, <1>8 DEF Kept
<1> QED  BY <1>5, <1>9 DEF I, new

\* A guest's first ledger.
LEMMA EmptyKept == ASSUME NEW t \in Nat PROVE Kept(EmptyLedger, t)
<1> DEFINE E == EmptyLedger
<1>1. /\ \A a \in AttemptIds : E.attempts[a] = NoRow
      /\ \A k \in Keys : E.receipts[k] = NoReceipt
      /\ E.guesses = {} /\ E.days = {} /\ E.finals = {}
      /\ E.contributions = {} /\ E.board = {}
      /\ \A r \in Regions :
           E.knowledge[r] = [alpha |-> 200, beta |-> 200, samples |-> 0]
  BY DEF EmptyLedger
<1>2. NoRow.state = "NONE" /\ NoRow.W = 0
  BY DEF NoRow
<1>3. Sound(E)
  BY EmptySound
<1> HIDE DEF E
<1>4. \A a \in AttemptIds : ~Exists(E, a)
  BY <1>1, <1>2 DEF Exists
<1>5. OnePerSlot(E) /\ NamesExist(E) /\ DaysPlayed(E) /\ ScoresFit(E)
      /\ Countable(E)
  BY <1>1, <1>4, FS_EmptySet
  DEF OnePerSlot, NamesExist, DaysPlayed, ScoresFit, Countable
<1>6. ASSUME NEW a \in AttemptIds
      PROVE  /\ ClosedOnce(E, a) /\ InsideWindow(E, a) /\ DatedBy(E, a, t)
             /\ GuessesTellTheStory(E, a) /\ Numbered(E, a) /\ Budgeted(E, a)
  <2>1. GuessesOf(E, a) = {} /\ FinalsOf(E, a) = {} /\ EntriesOf(E, a) = {}
    BY <1>1 DEF GuessesOf, FinalsOf, EntriesOf
  <2>2. ClosedOnce(E, a)
    BY <1>1, <1>2, <2>1 DEF ClosedOnce, TerminalStates
  <2>3. InsideWindow(E, a) /\ DatedBy(E, a, t)
    BY <1>4 DEF InsideWindow, DatedBy
  <2>4. Numbered(E, a)
    BY <2>1, FS_EmptySet DEF Numbered
  <2>5. Cardinality({}) = 0 /\ 1..0 = {}
    BY FS_EmptySet
  <2>6. {x \in {} : x.correct} = {} /\ {} \ {} = {} /\ {x.number : x \in {}} = {}
    OBVIOUS
  <2>7. GuessesTellTheStory(E, a)
    BY <1>1, <1>2, <2>1, <2>5, <2>6 DEF GuessesTellTheStory
  <2>8. Budgeted(E, a)
    BY <1>1, <1>2 DEF Budgeted
  <2> QED  BY <2>2, <2>3, <2>4, <2>7, <2>8
<1>7. Known(E)
  <2>1. \A r \in Regions : InRegion(E.contributions, r) = {}
    BY <1>1 DEF InRegion
  <2>2. /\ IsFiniteSet({}) /\ Cardinality({}) = 0
        /\ 200 + AlphaSum({}) = 200 /\ 200 + BetaSum({}) = 200
    BY FS_EmptySet, SumsGrow
  <2> QED  BY <1>1, <2>1, <2>2 DEF Known
<1>8. Kept(E, t)
  BY <1>3, <1>5, <1>6, <1>7 DEF Kept
<1> QED  BY <1>8 DEF E

(***************************************************************************)
(* Versions against receipts.                                              *)
(***************************************************************************)
Counts(L, a) == VersionCountsMoves(L, a) /\ IsFiniteSet(MovesOn(L, a))

\* The attempt a command has moved, until its receipt is written.
Owed(L, a, command) ==
  LET moves == Cardinality(MovesOn(L, a))
  IN /\ IsFiniteSet(MovesOn(L, a)) /\ L.attempts[a].state # "EXPIRED"
     /\ L.attempts[a].version = moves + 1
     /\ command.version = moves
     /\ {L.receipts[k].version : k \in MovesOn(L, a)} = 1..moves
     /\ \A k \in MovesOn(L, a) :
          L.receipts[k].version = L.receipts[k].command.version + 1

\* Receipts are all that counts of an attempt whose row does not change.
LEMMA SameCounts ==
  ASSUME NEW L, NEW M, NEW a \in AttemptIds, Counts(L, a),
         M.attempts[a] = L.attempts[a], M.receipts = L.receipts
  PROVE  Counts(M, a)
<1>1. MovesOn(M, a) = MovesOn(L, a)
  BY DEF MovesOn, ReceiptsOn
<1> QED  BY <1>1 DEF Counts, VersionCountsMoves

\* An attempt without moves has version 0, unless it has expired.
LEMMA NoMovesCount ==
  ASSUME NEW L, NEW a \in AttemptIds, MovesOn(L, a) = {},
         L.attempts[a].version = 0, L.attempts[a].state # "EXPIRED"
  PROVE  Counts(L, a)
<1>1. Cardinality({}) = 0 /\ IsFiniteSet({}) /\ 1..0 = {}
  BY FS_EmptySet
<1>2. {L.receipts[k].version : k \in {}} = {}
  OBVIOUS
<1> QED  BY <1>1, <1>2 DEF Counts, VersionCountsMoves

LEMMA MovedOwes ==
  ASSUME NEW L, Sound(L), NEW P, NEW id \in AttemptIds, NEW next, NEW at,
         Moved(L, P, id, next, at), \A a \in AttemptIds : Counts(L, a)
  PROVE  /\ \A a \in AttemptIds \ {id} : Counts(P, a)
         /\ next.state = "EXPIRED" => Counts(P, id)
         /\ \A command : next.state # "EXPIRED"
                         /\ command.version = L.attempts[id].version
              => Owed(P, id, command)
<1>1. /\ \A a \in AttemptIds \ {id} : P.attempts[a] = L.attempts[a]
      /\ P.attempts[id].state = next.state
      /\ P.attempts[id].version = L.attempts[id].version + 1
  BY MovedRows
<1>2. P.receipts = L.receipts /\ L.attempts[id].state = "ACTIVE"
  BY DEF Moved
<1>3. \A a \in AttemptIds \ {id} : Counts(P, a)
  BY <1>1, <1>2, SameCounts
<1>4. MovesOn(P, id) = MovesOn(L, id)
  BY <1>2 DEF MovesOn, ReceiptsOn
<1>5. Counts(L, id)
  OBVIOUS
<1>6. L.attempts[id].version = Cardinality(MovesOn(L, id))
  <2>1. Cardinality(MovesOn(L, id)) \in Nat
    BY <1>5, FS_CardinalityType DEF Counts
  <2> QED  BY <1>2, <1>5, <2>1 DEF Counts, VersionCountsMoves
<1>7. ASSUME next.state = "EXPIRED" PROVE Counts(P, id)
  BY <1>1, <1>2, <1>4, <1>5, <1>6, <1>7 DEF Counts, VersionCountsMoves
<1>8. ASSUME NEW command, next.state # "EXPIRED",
             command.version = L.attempts[id].version
      PROVE  Owed(P, id, command)
  BY <1>1, <1>2, <1>4, <1>5, <1>6, <1>8 DEF Owed, Counts, VersionCountsMoves
<1> QED  BY <1>3, <1>7, <1>8

LEMMA OpenCounts ==
  ASSUME NEW L, NEW t \in Nat, Kept(L, t), NEW slot \in Slots,
         OpensAt(slot) <= t, t < ClosesAt(slot),
         NEW unused, \A a \in unused : a \in AttemptIds /\ ~Exists(L, a),
         NEW id \in startedIds(L, slot, unused),
         \A a \in AttemptIds : Counts(L, a)
  PROVE  \A a \in AttemptIds : Counts(openAttempt(L, id, slot, t), a)
<1> DEFINE O == openAttempt(L, id, slot, t)
<1>1. /\ id \in AttemptIds /\ Kept(O, t) /\ Exists(O, id)
      /\ \A a \in AttemptIds \ {id} : O.attempts[a] = L.attempts[a]
      /\ Exists(L, id) => O = L
      /\ ~Exists(L, id) => O.attempts[id].version = 0
      /\ O.receipts = L.receipts
  BY OpenKept
<1>2. CASE Exists(L, id)
  BY <1>1, <1>2
<1>3. CASE ~Exists(L, id)
  <2>1. L.attempts[id].state = "NONE"
    BY <1>1, <1>3 DEF Exists
  <2>2. MovesOn(L, id) = {}
    BY <1>1, <2>1, NothingOfNobody DEF MovesOn
  <2>3. MovesOn(O, id) = {}
    BY <1>1, <2>2 DEF MovesOn, ReceiptsOn
  <2>4. O.attempts[id].state = "ACTIVE"
    BY <1>1, <1>3 DEF openAttempt, Kept, Sound, Ledgers
  <2>5. O.attempts[id].version = 0
    BY <1>1, <1>3
  <2> HIDE DEF O
  <2>6. Counts(O, id)
    BY <1>1, <2>3, <2>4, <2>5, NoMovesCount
  <2>7. \A a \in AttemptIds \ {id} : Counts(O, a)
    BY <1>1, SameCounts
  <2> QED  BY <2>6, <2>7 DEF O
<1> QED  BY <1>2, <1>3

\* The receipt of a move settles what is owed; a START's owes nothing.
LEMMA ReceiptCounts ==
  ASSUME NEW L, NEW t \in Nat, Kept(L, t), NEW key \in Keys,
         L.receipts[key] = NoReceipt, NEW command \in Commands,
         NEW id \in AttemptIds, Exists(L, id), NEW u \in Nat,
         \A a \in AttemptIds \ {id} : Counts(L, a),
         IF command.kind = "START" THEN Counts(L, id) ELSE Owed(L, id, command)
  PROVE  \A a \in AttemptIds : Counts(insertReceipt(L, key, command, id, u), a)
<1> DEFINE I == insertReceipt(L, key, command, id, u)
           new == I.receipts[key]
<1>1. /\ I.attempts = L.attempts
      /\ new = [command |-> command, outcome |-> committedOutcome(command),
                attempt |-> id, version |-> L.attempts[id].version, at |-> u]
      /\ \A k \in Keys \ {key} : I.receipts[k] = L.receipts[k]
  BY ReceiptKept
<1>2. new.attempt = id /\ new.command = command /\ new # NoReceipt
      /\ new.version = L.attempts[id].version
  <2>1. new.at = u
    BY <1>1
  <2>2. new.outcome = committedOutcome(command)
    BY <1>1
  <2>3. committedOutcome(command) # "NONE" /\ NoReceipt.outcome = "NONE"
    BY DEF committedOutcome, NoReceipt
  <2> QED  BY <1>1, <2>2, <2>3
<1> HIDE DEF I
<1>3. \A a \in AttemptIds \ {id} : MovesOn(I, a) = MovesOn(L, a)
  BY <1>1, <1>2 DEF MovesOn, ReceiptsOn
<1>4. key \notin MovesOn(L, id)
  BY DEF MovesOn, ReceiptsOn
<1>5. MovesOn(I, id) = IF command.kind = "START" THEN MovesOn(L, id)
                       ELSE MovesOn(L, id) \cup {key}
  <2>1. CASE command.kind = "START"
    BY <1>1, <1>2, <1>4, <2>1 DEF MovesOn, ReceiptsOn
  <2>2. CASE command.kind # "START"
    BY <1>1, <1>2, <1>4, <2>2 DEF MovesOn, ReceiptsOn
  <2> QED  BY <2>1, <2>2
<1>6. \A a \in AttemptIds : \A k \in MovesOn(L, a) : I.receipts[k] = L.receipts[k]
  BY <1>1 DEF MovesOn, ReceiptsOn
<1>7. ASSUME NEW a \in AttemptIds, Counts(L, a), MovesOn(I, a) = MovesOn(L, a)
      PROVE  Counts(I, a)
  BY <1>1, <1>6, <1>7 DEF Counts, VersionCountsMoves
<1>8. ASSUME command.kind # "START" PROVE Counts(I, id)
  <2> DEFINE S == MovesOn(L, id)  n == Cardinality(S)  T == MovesOn(I, id)
  <2>1. Owed(L, id, command)
    BY <1>8
  <2>2. IsFiniteSet(S) /\ T = S \cup {key} /\ key \notin S
    BY <1>4, <1>5, <1>8, <2>1 DEF Owed
  <2>3. IsFiniteSet(T) /\ Cardinality(T) = n + 1 /\ n \in Nat
    BY <2>2, FS_AddElement, FS_CardinalityType
  <2>4. /\ L.attempts[id].state # "EXPIRED" /\ L.attempts[id].version = n + 1
        /\ command.version = n
        /\ {L.receipts[k].version : k \in S} = 1..n
        /\ \A k \in S : L.receipts[k].version = L.receipts[k].command.version + 1
    BY <2>1 DEF Owed
  <2> HIDE DEF n, S, T
  <2>5. \A k \in S : I.receipts[k] = L.receipts[k]
    BY <1>6 DEF S
  <2>6. \A k \in T : I.receipts[k].version = I.receipts[k].command.version + 1
    BY <1>2, <2>2, <2>4, <2>5
  <2>7. {I.receipts[k].version : k \in T} = 1..(n + 1)
    <3>1. \A k \in T : I.receipts[k].version \in 1..(n + 1)
      BY <1>2, <2>2, <2>3, <2>4, <2>5
    <3>2. ASSUME NEW m \in 1..(n + 1) PROVE \E k \in T : I.receipts[k].version = m
      <4>1. CASE m = n + 1
        BY <1>2, <2>2, <2>4, <4>1
      <4>2. CASE m # n + 1
        <5>1. m \in 1..n
          BY <2>3, <4>2
        <5>2. PICK k \in S : L.receipts[k].version = m
          BY <2>4, <5>1
        <5> QED  BY <2>2, <2>5, <5>2
      <4> QED  BY <4>1, <4>2
    <3> QED  BY <3>1, <3>2
  <2> QED
    BY <1>1, <2>3, <2>4, <2>6, <2>7 DEF Counts, VersionCountsMoves, T
<1>9. Counts(I, id)
  BY <1>5, <1>7, <1>8
<1> QED  BY <1>3, <1>7, <1>9 DEF I

(***************************************************************************)
(* What a transaction leaves alone, and the order in which it writes.      *)
(***************************************************************************)
\* These attempts have expired between L and D, and each is counted once.
Expired(L, D, ended) ==
  /\ IsFiniteSet(ended)
  /\ \A a \in ended : /\ L.attempts[a].state = "ACTIVE"
                      /\ D.attempts[a].state = "EXPIRED"
                      /\ D.attempts[a].slot = L.attempts[a].slot
                      /\ D.attempts[a].version = L.attempts[a].version + 1
  /\ \A a \in AttemptIds \ ended : D.attempts[a] = L.attempts[a]
  /\ Cardinality(D.finals) = Cardinality(L.finals) + Cardinality(ended)

\* D is L after nothing but expiries.
Quiet(L, D) ==
  /\ D.guesses = L.guesses /\ D.days = L.days /\ D.board = L.board
  /\ D.receipts = L.receipts
  /\ \E ended \in SUBSET AttemptIds : Expired(L, D, ended)

\* Nothing was guessed at, or ranked for, the other attempts.
OthersUntouched(L, D, id) ==
  \A a \in AttemptIds \ {id} :
    GuessesOf(D, a) = GuessesOf(L, a) /\ EntriesOf(D, a) = EntriesOf(L, a)

\* D is L after a START that found or opened attempt id, or a move of it.
Begun(L, D, id) ==
  /\ D.finals = L.finals /\ D.board = L.board /\ OthersUntouched(L, D, id)
  /\ \A a \in AttemptIds \ {id} : D.attempts[a] = L.attempts[a]
  /\ \/ D.attempts[id] = L.attempts[id]
     \/ /\ AttemptsOf(L, D.attempts[id].slot) = {}
        /\ L.attempts[id].state = "NONE"
        /\ D.attempts[id].state = "ACTIVE" /\ D.attempts[id].version = 0

Played(L, D, id, outcome) ==
  LET old == L.attempts[id]
      new == D.attempts[id]
  IN /\ old.state = "ACTIVE" /\ old.version < AllWrong
     /\ new.slot = old.slot /\ new.version = old.version + 1
     /\ new.state # "NONE" /\ Follows(new.state, outcome)
     /\ \A a \in AttemptIds \ {id} : D.attempts[a] = L.attempts[a]
     /\ OthersUntouched(L, D, id)
     /\ Cardinality(D.finals) = Cardinality(L.finals)
                                  + (IF new.state = "ACTIVE" THEN 0 ELSE 1)
     /\ Cardinality(D.board) = Cardinality(L.board)
                                 + (IF new.state = "SOLVED" THEN 1 ELSE 0)

Acted(L, D, id, outcome) ==
  IF outcome = "STARTED" THEN Begun(L, D, id) ELSE Played(L, D, id, outcome)

\* What D shows of attempt id is dated by the receipt under key at the latest.
Vouched(D, id, key) ==
  /\ D.attempts[id].updatedAt <= D.receipts[key].at
  /\ \A x \in GuessesOf(D, id) : x.at <= D.receipts[key].at

\* D is L after one command, under a key that was unused.
Settled(L, D) ==
  \E key \in Keys, id \in AttemptIds, outcome \in Outcomes :
    /\ L.receipts[key] = NoReceipt /\ Exists(D, id)
    /\ D.receipts[key] # NoReceipt
    /\ D.receipts[key].attempt = id /\ D.receipts[key].outcome = outcome
    /\ \A k \in Keys \ {key} : D.receipts[k] = L.receipts[k]
    /\ Acted(L, D, id, outcome) /\ Vouched(D, id, key)

\* What D adds to an attempt of L is dated no earlier than the attempt was.
InOrder(L, D) ==
  \A a \in AttemptIds : Exists(L, a) =>
    /\ L.attempts[a].updatedAt <= D.attempts[a].updatedAt
    /\ \A x \in GuessesOf(D, a) \ GuessesOf(L, a) :
         x.at >= L.attempts[a].updatedAt

LEMMA Times ==
  ASSUME NEW L, Sound(L)
  PROVE  /\ \A a \in AttemptIds : L.attempts[a].updatedAt \in Nat
         /\ \A a \in AttemptIds : \A x \in GuessesOf(L, a) : x.at \in Nat
<1>1. \A a \in AttemptIds : L.attempts[a].updatedAt \in Nat
  BY DEF Sound, Ledgers, AttemptRows
<1>2. \A a \in AttemptIds : \A x \in GuessesOf(L, a) : x.at \in Nat
  BY DEF Sound, Ledgers, GuessesOf
<1> QED  BY <1>1, <1>2

\* Neither is about receipts.
LEMMA ActedBeside ==
  ASSUME NEW L, NEW D, NEW I, I.attempts = D.attempts, I.finals = D.finals,
         I.board = D.board, I.guesses = D.guesses,
         NEW id, NEW outcome, Acted(L, D, id, outcome)
  PROVE  Acted(L, I, id, outcome)
<1>1. OthersUntouched(L, D, id) => OthersUntouched(L, I, id)
  BY DEF OthersUntouched, GuessesOf, EntriesOf
<1>2. Begun(L, D, id) => Begun(L, I, id)
  BY <1>1 DEF Begun
<1>3. Played(L, D, id, outcome) => Played(L, I, id, outcome)
  BY <1>1 DEF Played
<1> QED  BY <1>2, <1>3 DEF Acted

LEMMA QuietExpires ==
  ASSUME NEW L, NEW D, Quiet(L, D), NEW a \in AttemptIds,
         D.attempts[a] # L.attempts[a]
  PROVE  D.attempts[a].state = "EXPIRED"
  BY DEF Quiet, Expired

LEMMA OrderReflexive ==
  ASSUME NEW L, Sound(L)
  PROVE  InOrder(L, L)
  BY Times DEF InOrder

LEMMA QuietReflexive ==
  ASSUME NEW L, Countable(L)
  PROVE  Quiet(L, L)
<1>1. IsFiniteSet({}) /\ Cardinality({}) = 0 /\ Cardinality(L.finals) \in Nat
  BY FS_EmptySet, FS_CardinalityType DEF Countable
<1>2. Expired(L, L, {})
  BY <1>1 DEF Expired
<1>3. {} \in SUBSET AttemptIds
  OBVIOUS
<1> QED  BY <1>2, <1>3 DEF Quiet

\* A move that ends its attempt adds one to what is counted.
LEMMA MovedTally ==
  ASSUME NEW L, Sound(L), NEW P, NEW id \in AttemptIds, NEW next, NEW at,
         Moved(L, P, id, next, at), Countable(L), ClosedOnce(L, id)
  PROVE  /\ Cardinality(P.finals) = Cardinality(L.finals)
                                      + (IF next.state = "ACTIVE" THEN 0 ELSE 1)
         /\ Cardinality(P.board) = Cardinality(L.board)
                                     + (IF next.state = "SOLVED" THEN 1 ELSE 0)
<1>1. /\ IsFiniteSet(L.finals) /\ IsFiniteSet(L.board)
      /\ Cardinality(L.finals) \in Nat /\ Cardinality(L.board) \in Nat
  BY FS_CardinalityType DEF Countable
<1>2. FinalsOf(L, id) = {} /\ EntriesOf(L, id) = {}
  BY DEF Moved, ClosedOnce, TerminalStates
<1>3. CASE next.state = "ACTIVE"
  BY <1>1, <1>3 DEF Moved, Counted
<1>4. CASE next.state # "ACTIVE"
  <2>1. PICK score \in Nat :
          /\ P.finals = L.finals \cup {FinalOf(id, next, score, at)}
          /\ P.board = L.board \cup
               IF next.state = "SOLVED"
               THEN {EntryOf(id, L.attempts[id], next, score, at)} ELSE {}
    BY <1>4 DEF Moved, Counted
  <2> DEFINE f == FinalOf(id, next, score, at)
             entry == EntryOf(id, L.attempts[id], next, score, at)
  <2>2. f.attempt = id /\ entry.attempt = id
    BY DEF FinalOf, EntryOf
  <2>3. /\ P.finals = L.finals \cup {f}
        /\ P.board = L.board \cup IF next.state = "SOLVED" THEN {entry} ELSE {}
    BY <2>1
  <2> HIDE DEF f, entry
  <2>4. f \notin L.finals /\ entry \notin L.board
    BY <1>2, <2>2 DEF FinalsOf, EntriesOf
  <2>5. /\ Cardinality(L.finals \cup {f}) = Cardinality(L.finals) + 1
        /\ Cardinality(L.board \cup {entry}) = Cardinality(L.board) + 1
    BY <1>1, <2>4, FS_AddElement
  <2>6. Cardinality(P.finals) = Cardinality(L.finals) + 1
    BY <2>5, <2>3
  <2>7. Cardinality(P.board) = Cardinality(L.board)
                                + (IF next.state = "SOLVED" THEN 1 ELSE 0)
    <3>1. CASE next.state = "SOLVED"
      BY <2>5, <2>3, <3>1
    <3>2. CASE next.state # "SOLVED"
      <4>1. P.board = L.board
        BY <2>3, <3>2
      <4> QED  BY <1>1, <3>2, <4>1
    <3> QED  BY <3>1, <3>2
  <2> QED  BY <1>4, <2>6, <2>7
<1> QED  BY <1>3, <1>4

\* A move guesses at and ranks its own attempt only.
LEMMA MovedLeavesOthers ==
  ASSUME NEW L, Sound(L), NEW P, NEW id \in AttemptIds, NEW next, NEW at,
         Moved(L, P, id, next, at)
  PROVE  OthersUntouched(L, P, id)
<1>1. \A a \in AttemptIds \ {id} : GuessesOf(P, a) = GuessesOf(L, a)
  BY MovedGuesses
<1>2. L.board \subseteq P.board /\ \A x \in P.board : x \in L.board \/ x.attempt = id
  <2>1. CASE P.board = L.board
    BY <2>1
  <2>2. CASE P.board # L.board
    <3>1. PICK score \in Nat :
            P.board = L.board \cup
              IF next.state = "SOLVED"
              THEN {EntryOf(id, L.attempts[id], next, score, at)} ELSE {}
      BY <2>2 DEF Moved, Counted
    <3> DEFINE entry == EntryOf(id, L.attempts[id], next, score, at)
    <3>2. entry.attempt = id
      BY DEF EntryOf
    <3>3. P.board = L.board \cup IF next.state = "SOLVED" THEN {entry} ELSE {}
      BY <3>1
    <3> HIDE DEF entry
    <3> QED  BY <3>2, <3>3
  <2> QED  BY <2>1, <2>2
<1>3. \A a \in AttemptIds \ {id} : EntriesOf(P, a) = EntriesOf(L, a)
  BY <1>2 DEF EntriesOf
<1> QED  BY <1>1, <1>3 DEF OthersUntouched

\* A command of an open attempt is within the moves a game can take.
LEMMA MovedPlays ==
  ASSUME NEW L, NEW t \in Nat, Kept(L, t), NEW P, NEW id \in AttemptIds,
         NEW next, NEW at, Moved(L, P, id, next, at),
         NEW outcome, Follows(next.state, outcome)
  PROVE  Played(L, P, id, outcome)
<1> DEFINE row == L.attempts[id]
<1>1. Sound(L) /\ Countable(L) /\ ClosedOnce(L, id) /\ Budgeted(L, id)
  BY DEF Kept
<1>2. /\ row \in AttemptRows
      /\ P.attempts[id].state = next.state /\ next.state # "NONE"
      /\ P.attempts[id].slot = row.slot
      /\ P.attempts[id].version = row.version + 1
      /\ \A a \in AttemptIds \ {id} : P.attempts[a] = L.attempts[a]
  BY <1>1, MovedRows
<1>3. row.state = "ACTIVE"
  BY DEF Moved
<1>4. row.version < AllWrong
  <2>1. /\ row.version \in Nat /\ row.e \in 0..MaxEvidence
        /\ row.w \in 0..MaxWrong /\ MaxWrong \in Nat
    BY <1>2, Basics DEF AttemptRows
  <2>2. /\ (MaxWrong + 1) * row.e \in Nat /\ AllWrong \in Nat
        /\ (MaxWrong + 1) * row.e + MaxWrong + 1 <= AllWrong
    BY <2>1, Budget
  <2>3. row.version <= (MaxWrong + 1) * row.e + row.w
    BY <1>1, <1>3 DEF Budgeted, Used
  <2> QED  BY <2>1, <2>2, <2>3
<1>5. /\ Cardinality(P.finals) = Cardinality(L.finals)
                                   + (IF next.state = "ACTIVE" THEN 0 ELSE 1)
      /\ Cardinality(P.board) = Cardinality(L.board)
                                  + (IF next.state = "SOLVED" THEN 1 ELSE 0)
  BY <1>1, MovedTally
<1>6. OthersUntouched(L, P, id)
  BY <1>1, MovedLeavesOthers
<1> QED  BY <1>2, <1>3, <1>4, <1>5, <1>6 DEF Played

LEMMA OrderTransitive ==
  ASSUME NEW L, NEW M, NEW N, Sound(L), Sound(M), Sound(N), Grows(L, M),
         InOrder(L, M), InOrder(M, N)
  PROVE  InOrder(L, N)
<1> SUFFICES ASSUME NEW a \in AttemptIds, Exists(L, a)
             PROVE  /\ L.attempts[a].updatedAt <= N.attempts[a].updatedAt
                    /\ \A x \in GuessesOf(N, a) \ GuessesOf(L, a) :
                         x.at >= L.attempts[a].updatedAt
  BY DEF InOrder
<1>1. Exists(M, a)
  BY DEF Grows, Exists
<1>2. /\ L.attempts[a].updatedAt \in Nat /\ M.attempts[a].updatedAt \in Nat
      /\ N.attempts[a].updatedAt \in Nat
      /\ \A x \in GuessesOf(N, a) : x.at \in Nat
  BY Times
<1>3. /\ L.attempts[a].updatedAt <= M.attempts[a].updatedAt
      /\ M.attempts[a].updatedAt <= N.attempts[a].updatedAt
  BY <1>1 DEF InOrder
<1>4. ASSUME NEW x \in GuessesOf(N, a), x \notin GuessesOf(L, a)
      PROVE  x.at >= L.attempts[a].updatedAt
  <2>1. CASE x \in GuessesOf(M, a)
    BY <1>4, <2>1 DEF InOrder
  <2>2. CASE x \notin GuessesOf(M, a)
    <3>1. x.at >= M.attempts[a].updatedAt
      BY <1>1, <1>4, <2>2 DEF InOrder
    <3> QED  BY <1>2, <1>3, <3>1
  <2> QED  BY <2>1, <2>2
<1> QED  BY <1>2, <1>3, <1>4

LEMMA MovedInOrder ==
  ASSUME NEW L, Sound(L), NEW P, Sound(P), NEW id \in AttemptIds, NEW next,
         NEW at, Moved(L, P, id, next, at)
  PROVE  InOrder(L, P)
<1>1. /\ P.attempts[id].updatedAt = at
      /\ \A a \in AttemptIds \ {id} : P.attempts[a] = L.attempts[a]
  BY MovedRows
<1>2. L.attempts[id].updatedAt <= at /\ at \in Nat
  BY DEF Moved
<1>3. ASSUME NEW a \in AttemptIds \ {id}
      PROVE  GuessesOf(P, a) = GuessesOf(L, a)
             /\ L.attempts[a].updatedAt <= P.attempts[a].updatedAt
  <2>1. GuessesOf(P, a) = GuessesOf(L, a)
    BY MovedGuesses
  <2> QED  BY <1>1, <2>1, Times
<1>4. ASSUME NEW x \in GuessesOf(P, id), x \notin GuessesOf(L, id)
      PROVE  x.at >= L.attempts[id].updatedAt
  <2>1. PICK correct \in BOOLEAN :
          GuessesOf(P, id) = GuessesOf(L, id)
                               \cup {GuessAt(id, L.attempts[id], correct, at)}
    BY <1>4, MovedGuesses
  <2>2. x.at = at
    BY <1>4, <2>1 DEF GuessAt
  <2> QED  BY <1>2, <2>2, Times
<1>5. /\ L.attempts[id].updatedAt <= P.attempts[id].updatedAt
      /\ \A x \in GuessesOf(P, id) \ GuessesOf(L, id) :
           x.at >= L.attempts[id].updatedAt
  BY <1>1, <1>2, <1>4
<1>6. \A a \in AttemptIds \ {id} :
        /\ L.attempts[a].updatedAt <= P.attempts[a].updatedAt
        /\ \A x \in GuessesOf(P, a) \ GuessesOf(L, a) :
             x.at >= L.attempts[a].updatedAt
  BY <1>3
<1> QED  BY <1>5, <1>6 DEF InOrder

\* An expiry is quiet, in order, and keeps the count of moves.
LEMMA ExpireQuiet ==
  ASSUME NEW L, NEW t \in Nat, Kept(L, t), NEW id \in AttemptIds, NEW u \in Nat
  PROVE  LET X == expireIfClosed(L, id, u)
         IN /\ Quiet(L, X) /\ InOrder(L, X)
            /\ (\A a \in AttemptIds : Counts(L, a)) =>
                 \A a \in AttemptIds : Counts(X, a)
<1> DEFINE row == L.attempts[id]
           next == expire(snapshot(row)).attempt
           at == ClosesAt(row.slot)
           X == expireIfClosed(L, id, u)
<1>1. Sound(L) /\ Sound(X)
  BY ExpireSound DEF Kept
<1>2. \/ X = L
      \/ /\ Moved(L, X, id, next, at) /\ next.state = "EXPIRED"
         /\ X.guesses = L.guesses /\ X.days = L.days /\ X.board = L.board
  BY ExpireMoves
<1> HIDE DEF X, next, at
<1>3. CASE X = L
  <2>1. Countable(L)
    BY DEF Kept
  <2> QED  BY <1>1, <1>3, <2>1, OrderReflexive, QuietReflexive DEF X
<1>4. CASE /\ Moved(L, X, id, next, at) /\ next.state = "EXPIRED"
           /\ X.guesses = L.guesses /\ X.days = L.days /\ X.board = L.board
  <2>1. /\ X.attempts[id].state = "EXPIRED"
        /\ X.attempts[id].slot = row.slot
        /\ X.attempts[id].version = row.version + 1
        /\ \A a \in AttemptIds \ {id} : X.attempts[a] = L.attempts[a]
    BY <1>1, <1>4, MovedRows
  <2>2. Quiet(L, X)
    <3>1. Countable(L) /\ ClosedOnce(L, id)
      BY DEF Kept
    <3>2. Cardinality(X.finals) = Cardinality(L.finals) + 1
      BY <1>1, <1>4, <3>1, MovedTally
    <3>3. IsFiniteSet({id}) /\ Cardinality({id}) = 1
      BY FS_Singleton
    <3>4. row.state = "ACTIVE" /\ X.receipts = L.receipts
      BY <1>4 DEF Moved
    <3>5. Expired(L, X, {id})
      BY <2>1, <3>2, <3>3, <3>4 DEF Expired
    <3>6. {id} \in SUBSET AttemptIds
      OBVIOUS
    <3> QED  BY <1>4, <3>4, <3>5, <3>6 DEF Quiet
  <2>3. InOrder(L, X)
    BY <1>1, <1>4, MovedInOrder
  <2>4. ASSUME \A a \in AttemptIds : Counts(L, a)
        PROVE  \A a \in AttemptIds : Counts(X, a)
    <3>1. /\ \A a \in AttemptIds \ {id} : Counts(X, a)
          /\ next.state = "EXPIRED" => Counts(X, id)
      BY <1>1, <1>4, <2>4, MovedOwes
    <3> QED  BY <1>4, <3>1
  <2> QED  BY <2>2, <2>3, <2>4 DEF X
<1> QED  BY <1>2, <1>3, <1>4

\* Quiet transactions compose.
LEMMA QuietTransitive ==
  ASSUME NEW L, NEW M, NEW N, Quiet(L, M), Quiet(M, N), Countable(L)
  PROVE  Quiet(L, N)
<1>1. PICK first \in SUBSET AttemptIds : Expired(L, M, first)
  BY DEF Quiet
<1>2. PICK second \in SUBSET AttemptIds : Expired(M, N, second)
  BY DEF Quiet
<1> DEFINE both == first \cup second
<1>3. first \cap second = {}
  BY <1>1, <1>2 DEF Expired
<1>4. IsFiniteSet(first) /\ IsFiniteSet(second)
  BY <1>1, <1>2 DEF Expired
<1>5. /\ IsFiniteSet(both)
      /\ Cardinality(both) = Cardinality(first) + Cardinality(second)
                               - Cardinality({})
  BY <1>3, <1>4, FS_Union
<1>6. /\ Cardinality({}) = 0 /\ Cardinality(L.finals) \in Nat
      /\ Cardinality(first) \in Nat /\ Cardinality(second) \in Nat
  BY <1>4, FS_EmptySet, FS_CardinalityType DEF Countable
<1>7. Cardinality(N.finals) = Cardinality(L.finals) + Cardinality(both)
  BY <1>1, <1>2, <1>5, <1>6 DEF Expired
<1>8. ASSUME NEW a \in both
      PROVE  /\ L.attempts[a].state = "ACTIVE" /\ N.attempts[a].state = "EXPIRED"
             /\ N.attempts[a].slot = L.attempts[a].slot
             /\ N.attempts[a].version = L.attempts[a].version + 1
  <2>1. CASE a \in first
    BY <1>1, <1>2, <1>3, <2>1 DEF Expired
  <2>2. CASE a \in second
    BY <1>1, <1>2, <1>3, <2>2 DEF Expired
  <2> QED  BY <2>1, <2>2
<1>9. ASSUME NEW a \in AttemptIds \ both PROVE N.attempts[a] = L.attempts[a]
  BY <1>1, <1>2 DEF Expired
<1>10. Expired(L, N, both)
  BY <1>5, <1>7, <1>8, <1>9 DEF Expired
<1>11. both \in SUBSET AttemptIds
  OBVIOUS
<1> QED  BY <1>10, <1>11 DEF Quiet

(***************************************************************************)
(* What the runs check of the books.                                       *)
(***************************************************************************)
LEMMA KeptFits ==
  ASSUME NEW L, NEW t \in Nat, Kept(L, t)
  PROVE  WithinConstraints(L)
<1>1. /\ Sound(L) /\ OnePerSlot(L)
      /\ \A a \in AttemptIds :
           ClosedOnce(L, a) /\ DatedBy(L, a, t) /\ Numbered(L, a)
  BY DEF Kept
<1>2. ASSUME NEW a \in AttemptIds, Exists(L, a)
      PROVE  /\ ValidSnapshot(snapshot(L.attempts[a]))
             /\ L.attempts[a].startedAt <= L.attempts[a].updatedAt
  BY <1>1, <1>2 DEF Sound, DatedBy, Exists
<1>3. ASSUME NEW x \in L.guesses
      PROVE  /\ x.number \in 1..AllWrong
             /\ \A y \in L.guesses :
                  x.attempt = y.attempt /\ x.number = y.number => x = y
  <2>1. x.attempt \in AttemptIds
    BY <1>1 DEF Sound, Ledgers
  <2> QED  BY <1>1, <2>1 DEF Numbered, GuessesOf
<1>4. \A f \in L.finals : f.outcome # "SOLVED" => f.score = 0
  BY DEF Kept, ScoresFit
<1>5. ASSUME NEW x \in L.board
      PROVE  /\ x.attempt \in AttemptIds /\ Exists(L, x.attempt)
             /\ L.attempts[x.attempt].slot = x.slot
             /\ EntriesOf(L, x.attempt) = {x}
  <2> DEFINE a == x.attempt  row == L.attempts[a]
  <2>1. a \in AttemptIds /\ x \in EntriesOf(L, a)
    BY <1>1 DEF Sound, Ledgers, EntriesOf
  <2>2. ClosedOnce(L, a)
    BY <1>1, <2>1
  <2>3. row.state = "SOLVED"
    BY <2>1, <2>2 DEF ClosedOnce
  <2> DEFINE entry(f) == [attempt |-> a, slot |-> row.slot, e |-> row.e,
                          W |-> row.W, score |-> f.score,
                          elapsed |-> (row.updatedAt - row.startedAt) * TickMs]
  <2>4. \E f : EntriesOf(L, a) = {entry(f)}
    BY <2>2, <2>3 DEF ClosedOnce, TerminalStates
  <2>5. \A f : entry(f).slot = row.slot
    OBVIOUS
  <2> HIDE DEF entry
  <2> QED  BY <2>1, <2>3, <2>4, <2>5 DEF Exists
<1>6. ASSUME NEW x \in L.board, NEW y \in L.board, x.slot = y.slot PROVE x = y
  <2>1. x.attempt = y.attempt
    BY <1>1, <1>5, <1>6 DEF OnePerSlot
  <2> QED  BY <1>5, <2>1
<1> QED  BY <1>2, <1>3, <1>4, <1>6 DEF WithinConstraints

(***************************************************************************)
(* A ledger read as the book of games that Gameplay.tla keeps for a guest. *)
(***************************************************************************)
RowIn(L, s) ==
  IF AttemptsOf(L, s) = {} THEN NoRow
  ELSE L.attempts[CHOOSE a \in AttemptsOf(L, s) : TRUE]

MovesOf(row) == row.version - (IF row.state = "EXPIRED" THEN 1 ELSE 0)
SpentIn(L, k) ==
  IF L.receipts[k] = NoReceipt THEN [slot |-> -1, outcome |-> "NONE"]
  ELSE [slot |-> L.attempts[L.receipts[k].attempt].slot,
        outcome |-> L.receipts[k].outcome]

\* The row of a slot is that of its one attempt.
LEMMA RowOfAttempt ==
  ASSUME NEW L, OnePerSlot(L), NEW a \in AttemptIds, Exists(L, a)
  PROVE  RowIn(L, L.attempts[a].slot) = L.attempts[a]
<1> DEFINE mine == AttemptsOf(L, L.attempts[a].slot)
<1>1. a \in mine /\ \A b \in mine : b = a
  BY DEF OnePerSlot, AttemptsOf, Exists
<1> HIDE DEF mine
<1>2. (CHOOSE b \in mine : TRUE) = a
  BY <1>1
<1> QED  BY <1>1, <1>2 DEF RowIn, mine

LEMMA RowOfNobody ==
  ASSUME NEW L, NEW s, \A a \in AttemptIds : Exists(L, a) => L.attempts[a].slot # s
  PROVE  RowIn(L, s) = NoRow /\ AttemptsOf(L, s) = {}
  BY DEF RowIn, AttemptsOf, Exists

\* Slots whose attempts are untouched look the same.
LEMMA RowUntouched ==
  ASSUME NEW L, NEW D, NEW s, OnePerSlot(L), OnePerSlot(D),
         \A a \in AttemptIds :
           (Exists(L, a) /\ L.attempts[a].slot = s)
           \/ (Exists(D, a) /\ D.attempts[a].slot = s)
             => D.attempts[a] = L.attempts[a]
  PROVE  RowIn(D, s) = RowIn(L, s)
<1>1. CASE \E a \in AttemptIds : Exists(L, a) /\ L.attempts[a].slot = s
  <2>1. PICK a \in AttemptIds : Exists(L, a) /\ L.attempts[a].slot = s
    BY <1>1
  <2>2. D.attempts[a] = L.attempts[a] /\ Exists(D, a)
    BY <2>1 DEF Exists
  <2> QED  BY <2>1, <2>2, RowOfAttempt
<1>2. CASE \A a \in AttemptIds : Exists(L, a) => L.attempts[a].slot # s
  <2>1. \A a \in AttemptIds : Exists(D, a) => D.attempts[a].slot # s
    BY <1>2 DEF Exists
  <2> QED  BY <1>2, <2>1, RowOfNobody
<1> QED  BY <1>1, <1>2

\* What was spent stays spent on the same game.
LEMMA SpentStays ==
  ASSUME NEW L, NEW D, NamesExist(L), NEW k \in Keys,
         D.receipts[k] = L.receipts[k],
         \A a \in AttemptIds : Exists(L, a) => D.attempts[a].slot = L.attempts[a].slot
  PROVE  SpentIn(D, k) = SpentIn(L, k)
<1>1. CASE L.receipts[k] = NoReceipt
  BY <1>1 DEF SpentIn
<1>2. CASE L.receipts[k] # NoReceipt
  <2>1. Exists(L, L.receipts[k].attempt)
    BY <1>2 DEF NamesExist
  <2> QED  BY <2>1 DEF SpentIn, Exists
<1> QED  BY <1>1, <1>2

\* Expiries close as many games as there are days, and count each.
LEMMA QuietCloses ==
  ASSUME NEW L, NEW t, Kept(L, t), NEW D, NEW u, Kept(D, u), Quiet(L, D)
  PROVE  /\ \A k \in Keys : SpentIn(D, k) = SpentIn(L, k)
         /\ Cardinality(D.board) = Cardinality(L.board)
         /\ \E days \in SUBSET Slots :
              /\ \A s \in days : RowIn(L, s).state = "ACTIVE"
              /\ \A s \in Slots : RowIn(D, s).state =
                   IF s \in days THEN "EXPIRED" ELSE RowIn(L, s).state
              /\ \A s \in Slots : MovesOf(RowIn(D, s)) = MovesOf(RowIn(L, s))
              /\ Cardinality(D.finals) = Cardinality(L.finals) + Cardinality(days)
              /\ Cardinality(L.finals) \in Nat /\ Cardinality({}) = 0
<1>1. PICK ended \in SUBSET AttemptIds : Expired(L, D, ended)
  BY DEF Quiet
<1>2. /\ Sound(L) /\ OnePerSlot(L) /\ NamesExist(L) /\ Countable(L)
      /\ OnePerSlot(D)
  BY DEF Kept
<1> DEFINE slotOf == [a \in ended |-> L.attempts[a].slot]
           days == {slotOf[a] : a \in ended}
<1>3. \A a \in ended : Exists(L, a) /\ Exists(D, a) /\ L.attempts[a].slot \in Slots
  BY <1>1, <1>2 DEF Expired, Exists, Sound
<1>4. \A a, b \in ended : slotOf[a] = slotOf[b] => a = b
  BY <1>2, <1>3 DEF OnePerSlot
<1>5. Cardinality(days) = Cardinality(ended)
  <2>1. slotOf \in Surjection(ended, days)
    BY DEF Surjection
  <2>2. slotOf \in Injection(ended, days)
    BY <1>4 DEF Injection, IsInjective
  <2>3. IsFiniteSet(ended)
    BY <1>1 DEF Expired
  <2> HIDE DEF slotOf, days
  <2> QED  BY <2>1, <2>2, <2>3, FS_Surjection
<1>6. \A a \in AttemptIds :
        /\ Exists(L, a) <=> Exists(D, a)
        /\ D.attempts[a].slot = L.attempts[a].slot
        /\ a \notin ended => D.attempts[a] = L.attempts[a]
  BY <1>1, <1>3 DEF Expired, Exists
<1>7. \A k \in Keys : SpentIn(D, k) = SpentIn(L, k)
  BY <1>2, <1>6, SpentStays DEF Quiet
<1>8. days \in SUBSET Slots
  BY <1>3
<1>9. ASSUME NEW a \in ended
      PROVE  /\ RowIn(L, slotOf[a]) = L.attempts[a]
             /\ RowIn(D, slotOf[a]) = D.attempts[a]
  BY <1>2, <1>3, <1>6, RowOfAttempt
<1>10. ASSUME NEW s \in Slots, s \notin days
       PROVE  RowIn(D, s) = RowIn(L, s)
  <2>1. \A a \in AttemptIds : L.attempts[a].slot = s => a \notin ended
    BY <1>10
  <2> QED  BY <1>2, <1>6, <2>1, RowUntouched
<1>11. ASSUME NEW s \in days
       PROVE  /\ RowIn(L, s).state = "ACTIVE" /\ RowIn(D, s).state = "EXPIRED"
              /\ MovesOf(RowIn(D, s)) = MovesOf(RowIn(L, s))
  <2>1. PICK a \in ended : s = slotOf[a]
    OBVIOUS
  <2>2. /\ L.attempts[a].state = "ACTIVE" /\ D.attempts[a].state = "EXPIRED"
        /\ D.attempts[a].version = L.attempts[a].version + 1
    BY <1>1 DEF Expired
  <2>3. L.attempts[a].version \in Nat
    BY <1>2 DEF Sound, Ledgers, AttemptRows
  <2>4. RowIn(L, s) = L.attempts[a] /\ RowIn(D, s) = D.attempts[a]
    BY <1>9, <2>1
  <2> QED  BY <2>2, <2>3, <2>4 DEF MovesOf
<1> HIDE DEF days
<1>12. Cardinality(L.finals) \in Nat /\ Cardinality({}) = 0
  BY <1>2, FS_CardinalityType, FS_EmptySet DEF Countable
<1>13. Cardinality(D.finals) = Cardinality(L.finals) + Cardinality(days)
  BY <1>1, <1>5 DEF Expired
<1>14. Cardinality(D.board) = Cardinality(L.board)
  BY DEF Quiet
<1>15. \A s \in Slots : /\ RowIn(D, s).state =
                             IF s \in days THEN "EXPIRED" ELSE RowIn(L, s).state
                        /\ MovesOf(RowIn(D, s)) = MovesOf(RowIn(L, s))
  BY <1>10, <1>11
<1> QED  BY <1>7, <1>8, <1>11, <1>12, <1>13, <1>14, <1>15

\* A START finds the game of its slot, or opens it.
LEMMA BegunStarts ==
  ASSUME NEW L, NEW t, Kept(L, t), NEW D, NEW u, Kept(D, u),
         NEW id \in AttemptIds, Exists(D, id), Begun(L, D, id)
  PROVE  LET s == D.attempts[id].slot
         IN /\ s \in Slots
            /\ \A r \in Slots : RowIn(D, r).state =
                 IF r = s /\ RowIn(L, r).state = "NONE" THEN "ACTIVE"
                                                        ELSE RowIn(L, r).state
            /\ \A r \in Slots : MovesOf(RowIn(D, r)) = MovesOf(RowIn(L, r))
            /\ \A a \in AttemptIds :
                 Exists(L, a) => D.attempts[a].slot = L.attempts[a].slot
<1> DEFINE s == D.attempts[id].slot
<1>1. OnePerSlot(L) /\ OnePerSlot(D)
  BY DEF Kept
<1>2. s \in Slots /\ D.attempts[id].state # "NONE"
  BY DEF Kept, Sound, Exists
<1>3. CASE D.attempts[id] = L.attempts[id]
  <2>1. \A a \in AttemptIds : D.attempts[a] = L.attempts[a]
    BY <1>3 DEF Begun
  <2>2. \A r \in Slots : RowIn(D, r) = RowIn(L, r)
    BY <1>1, <2>1, RowUntouched
  <2>3. Exists(L, id)
    BY <1>3 DEF Exists
  <2>4. RowIn(L, s).state # "NONE"
    BY <1>1, <1>2, <1>3, <2>3, RowOfAttempt
  <2> QED  BY <1>2, <2>1, <2>2, <2>4
<1>4. CASE /\ AttemptsOf(L, s) = {} /\ L.attempts[id].state = "NONE"
           /\ D.attempts[id].state = "ACTIVE" /\ D.attempts[id].version = 0
  <2>1. \A a \in AttemptIds \ {id} : D.attempts[a] = L.attempts[a]
    BY DEF Begun
  <2>2. RowIn(D, s) = D.attempts[id]
    BY <1>1, RowOfAttempt
  <2>3. RowIn(L, s) = NoRow /\ NoRow.state = "NONE" /\ NoRow.version = 0
    BY <1>4 DEF RowIn, NoRow
  <2>4. ~Exists(L, id)
    BY <1>4 DEF Exists
  <2>5. ASSUME NEW r \in Slots, r # s PROVE RowIn(D, r) = RowIn(L, r)
    <3>1. \A a \in AttemptIds :
            (Exists(L, a) /\ L.attempts[a].slot = r)
            \/ (Exists(D, a) /\ D.attempts[a].slot = r)
              => D.attempts[a] = L.attempts[a]
      BY <2>1, <2>4, <2>5
    <3> QED  BY <1>1, <3>1, RowUntouched
  <2>6. MovesOf(RowIn(D, s)) = MovesOf(RowIn(L, s))
    BY <1>4, <2>2, <2>3 DEF MovesOf
  <2> HIDE DEF s
  <2> QED  BY <1>2, <1>4, <2>1, <2>2, <2>3, <2>4, <2>5, <2>6 DEF s
<1> QED  BY <1>3, <1>4 DEF Begun

\* A move is one of an open game.
LEMMA PlayedMoves ==
  ASSUME NEW L, NEW t, Kept(L, t), NEW D, NEW u, Kept(D, u),
         NEW id \in AttemptIds, NEW outcome \in Outcomes \ {"STARTED"},
         Played(L, D, id, outcome)
  PROVE  LET s == D.attempts[id].slot
         IN /\ s \in Slots /\ RowIn(L, s).state = "ACTIVE"
            /\ MovesOf(RowIn(L, s)) \in Nat /\ MovesOf(RowIn(L, s)) < AllWrong
            /\ RowIn(D, s).state = D.attempts[id].state
            /\ MovesOf(RowIn(D, s)) = MovesOf(RowIn(L, s)) + 1
            /\ \A r \in Slots \ {s} : RowIn(D, r) = RowIn(L, r)
            /\ \A a \in AttemptIds :
                 Exists(L, a) => D.attempts[a].slot = L.attempts[a].slot
<1> DEFINE s == D.attempts[id].slot
<1>1. OnePerSlot(L) /\ OnePerSlot(D)
  BY DEF Kept
<1>2. /\ L.attempts[id].state = "ACTIVE" /\ L.attempts[id].version < AllWrong
      /\ D.attempts[id].slot = L.attempts[id].slot
      /\ D.attempts[id].version = L.attempts[id].version + 1
      /\ D.attempts[id].state # "NONE" /\ Follows(D.attempts[id].state, outcome)
      /\ \A a \in AttemptIds \ {id} : D.attempts[a] = L.attempts[a]
  BY DEF Played
<1>3. Exists(L, id) /\ Exists(D, id)
  BY <1>2 DEF Exists
<1>4. s \in Slots /\ L.attempts[id].version \in Nat
  BY <1>2 DEF Kept, Sound, Ledgers, AttemptRows
<1>5. RowIn(L, s) = L.attempts[id] /\ RowIn(D, s) = D.attempts[id]
  BY <1>1, <1>2, <1>3, RowOfAttempt
<1>6. D.attempts[id].state # "EXPIRED"
  BY <1>2 DEF Follows, Outcomes
<1>7. MovesOf(RowIn(L, s)) = L.attempts[id].version
      /\ MovesOf(RowIn(D, s)) = L.attempts[id].version + 1
  BY <1>2, <1>4, <1>5, <1>6 DEF MovesOf
<1>8. ASSUME NEW r \in Slots \ {s} PROVE RowIn(D, r) = RowIn(L, r)
  <2>1. \A a \in AttemptIds :
          (Exists(L, a) /\ L.attempts[a].slot = r)
          \/ (Exists(D, a) /\ D.attempts[a].slot = r)
            => D.attempts[a] = L.attempts[a]
    BY <1>2, <1>8
  <2> QED  BY <1>1, <2>1, RowUntouched
<1>9. \A a \in AttemptIds :
        Exists(L, a) => D.attempts[a].slot = L.attempts[a].slot
  BY <1>2
<1> QED  BY <1>2, <1>4, <1>5, <1>7, <1>8, <1>9

(***************************************************************************)
(* The transactions                                                        *)
(***************************************************************************)
Unlocked == {"idle", "begun", "peeked"}
Drafting == {"expiring", "writing", "answered"}

\* Every receipt was written before the time given.
Timely(L, limit) ==
  \A k \in Keys : L.receipts[k] # NoReceipt => L.receipts[k].at < limit

\* What the draft of a transaction owes to the committed rows.
Extends(c) ==
  /\ Grows(Committed(c), tx[c].draft)
  /\ KeepsFinished(Committed(c), tx[c].draft)
  /\ Timely(tx[c].draft, expiresAt[tx[c].guest])

\* A receipt about to be inserted is under an unused key.
KeyIsFree(c) ==
  /\ tx[c].request.key \in Keys /\ tx[c].request.command \in Commands
  /\ tx[c].answer.attempt \in AttemptIds
  /\ tx[c].draft.receipts[tx[c].request.key] = NoReceipt

TxSound(c) ==
  /\ Sound(tx[c].draft)
  /\ tx[c].pc # "idle" => tx[c].guest \in Guests
  /\ tx[c].pc \in Drafting => Extends(c)
  /\ tx[c].pc = "writing" => KeyIsFree(c)

BooksSound ==
  \A g \in Guests : Sound(ledger[g]) /\ Timely(ledger[g], expiresAt[g])

IInv == TypeOK /\ BooksSound /\ LockIsHeld /\ \A c \in Conns : TxSound(c)

LEMMA IdleTyped == EmptyLedger \in Ledgers => Idle \in Transactions
<1> SUFFICES ASSUME EmptyLedger \in Ledgers PROVE Idle \in Transactions
  OBVIOUS
<1>1. NoAnswer \in Answers
  BY DEF NoAnswer, Answers, Codes
<1>2. NoRequest \in RequestShapes \cup {NoRequest} /\ "idle" \in Pcs /\ 0 \in Nat
  BY DEF Pcs
<1> HIDE DEF NoAnswer, NoRequest
<1> QED  BY <1>1, <1>2 DEF Idle, Transactions

LEMMA InitIInv == Init => IInv
<1> SUFFICES ASSUME Init PROVE IInv
  OBVIOUS
<1>1. Sound(EmptyLedger) /\ EmptyLedger \in Ledgers
  BY EmptySound DEF Sound
<1>2. None \notin Guests /\ None \notin Conns
  BY GameplayAssumption
<1>3. Idle \in Transactions
  BY <1>1, IdleTyped
<1>4. TypeOK
  BY <1>1, <1>3, GameplayAssumption DEF Init, TypeOK
<1>5. \A limit : Timely(EmptyLedger, limit)
  BY DEF Timely, EmptyLedger
<1>6. BooksSound
  BY <1>1, <1>5 DEF Init, BooksSound
<1>7. LockIsHeld
  BY <1>2 DEF Init, LockIsHeld, Idle
<1>8. \A c \in Conns : TxSound(c)
  BY <1>1 DEF Init, TxSound, Idle, Drafting
<1> QED  BY <1>4, <1>6, <1>7, <1>8 DEF IInv

\* The guest lock is exclusive: two drafts of the same guest do not exist.
LEMMA OneDraftPerGuest ==
  ASSUME LockIsHeld, NEW c \in Conns, NEW d \in Conns,
         tx[c].guest \in Guests, tx[c].guest = tx[d].guest,
         tx[c].pc \notin Unlocked, tx[d].pc \notin Unlocked
  PROVE  c = d
  BY DEF LockIsHeld, Unlocked

\* Drafting under the lock: the step of connection c that leaves L drafted and
\* answer prepared keeps the invariant when L grew from the committed rows.
LEMMA DraftKeepsIInv ==
  ASSUME IInv, NEW c \in Conns, tx[c].pc \notin Unlocked,
         NEW pc \in Drafting, NEW rq \in RequestShapes \cup {NoRequest},
         NEW L, Sound(L), Grows(Committed(c), L), KeepsFinished(Committed(c), L),
         L.receipts = Committed(c).receipts,
         NEW answer \in Answers,
         pc = "writing" => /\ rq.key \in Keys /\ rq.command \in Commands
                           /\ answer.attempt \in AttemptIds
                           /\ L.receipts[rq.key] = NoReceipt,
         Draft(c, pc, rq, L, answer)
  PROVE  IInv'
<1> DEFINE t == [tx[c] EXCEPT !.pc = pc, !.request = rq, !.draft = L,
                   !.sampledAt = databaseNow(c), !.answer = answer]
<1>1. /\ tx' = [tx EXCEPT ![c] = t]
      /\ guestLock' = guestLock /\ ledger' = ledger
      /\ expiresAt' = expiresAt /\ now' = now
  BY DEF Draft, Keep
<1>2. tx[c] \in Transactions /\ tx \in [Conns -> Transactions] /\ now \in Nat
  BY DEF IInv, TypeOK
<1>3. tx[c].guest \in Guests
  BY DEF IInv, TxSound, Unlocked
<1>4. L \in Ledgers
  BY DEF Sound
<1>5. t \in Transactions
  BY <1>2, <1>4 DEF Transactions, Drafting, Pcs, databaseNow
<1>6. /\ t.pc = pc /\ t.request = rq /\ t.draft = L /\ t.answer = answer
      /\ t.guest = tx[c].guest
  BY <1>2 DEF Transactions
<1>7. tx'[c] = t /\ \A d \in Conns \ {c} : tx'[d] = tx[d]
  BY <1>1, <1>2
<1> HIDE DEF t
<1>8. TypeOK'
  BY <1>1, <1>2, <1>5 DEF IInv, TypeOK
<1>9. BooksSound'
  BY <1>1 DEF IInv, BooksSound
<1>10. LockIsHeld'
  BY <1>1, <1>6, <1>7 DEF IInv, LockIsHeld, Drafting, Unlocked
<1>11. Timely(L, expiresAt[tx[c].guest])
  BY <1>3 DEF IInv, BooksSound, Timely, Committed
<1>12. TxSound(c)'
  BY <1>1, <1>3, <1>6, <1>7, <1>11 DEF TxSound, Extends, KeyIsFree, Committed
<1>13. \A d \in Conns \ {c} : TxSound(d)'
  BY <1>1, <1>7 DEF IInv, TxSound, Extends, KeyIsFree, Committed
<1> QED  BY <1>8, <1>9, <1>10, <1>12, <1>13 DEF IInv

\* Moving on without looking at rows, possibly taking the lock.
LEMMA MoveKeepsIInv ==
  ASSUME IInv, NEW c \in Conns, NEW t \in Transactions,
         t.guest \in Guests, t.draft = tx[c].draft,
         t.pc \notin Drafting, t.pc # "idle",
         tx' = [tx EXCEPT ![c] = t], Keep,
         \/ /\ guestLock' = guestLock /\ t.guest = tx[c].guest
            /\ t.pc \in Unlocked <=> tx[c].pc \in Unlocked
         \/ /\ guestLock' = guestLock
            /\ t.pc \in Unlocked /\ tx[c].pc \in Unlocked
         \/ /\ tx[c].pc \in Unlocked /\ t.pc \notin Unlocked
            /\ guestLock[t.guest] = None
            /\ guestLock' = [guestLock EXCEPT ![t.guest] = c]
  PROVE  IInv'
<1>1. ledger' = ledger /\ expiresAt' = expiresAt /\ now' = now
  BY DEF Keep
<1>2. tx \in [Conns -> Transactions] /\ guestLock \in [Guests -> Conns \cup {None}]
  BY DEF IInv, TypeOK
<1>3. tx'[c] = t /\ \A d \in Conns \ {c} : tx'[d] = tx[d]
  BY <1>2
<1>4. TypeOK'
  BY <1>1, <1>2 DEF IInv, TypeOK
<1>5. BooksSound'
  BY <1>1 DEF IInv, BooksSound
<1>6. LockIsHeld'
  BY <1>2, <1>3, GameplayAssumption DEF IInv, LockIsHeld, Unlocked
<1>7. TxSound(c)'
  BY <1>3 DEF IInv, TxSound, Drafting
<1>8. \A d \in Conns \ {c} : TxSound(d)'
  BY <1>1, <1>3 DEF IInv, TxSound, Extends, KeyIsFree, Committed
<1> QED  BY <1>4, <1>5, <1>6, <1>7, <1>8 DEF IInv

LEMMA BeginKeepsIInv ==
  ASSUME IInv, NEW c \in Conns, NEW g \in Guests, Begin(c, g)
  PROVE  IInv'
<1> DEFINE t == [tx[c] EXCEPT !.pc = "begun", !.guest = g, !.begunAt = now]
<1>1. tx' = [tx EXCEPT ![c] = t] /\ guestLock' = guestLock /\ Keep /\ tx[c].pc = "idle"
  BY DEF Begin, At
<1>2. tx[c] \in Transactions /\ now \in Nat
  BY DEF IInv, TypeOK
<1>3. /\ t \in Transactions /\ t.guest = g /\ t.draft = tx[c].draft /\ t.pc = "begun"
  BY <1>2 DEF Transactions, Pcs
<1> HIDE DEF t
<1>4. t.pc \notin Drafting /\ t.pc # "idle" /\ t.pc \in Unlocked /\ tx[c].pc \in Unlocked
  BY <1>1, <1>3 DEF Drafting, Unlocked
<1> QED  BY <1>1, <1>3, <1>4, MoveKeepsIInv

\* What Lock and a passed CheckSession do to the transaction.
LEMMA GoToShape ==
  ASSUME IInv, NEW c \in Conns, NEW pc \in Pcs, GoTo(c, pc)
  PROVE  \E t \in Transactions :
           /\ tx' = [tx EXCEPT ![c] = t]
           /\ t.pc = pc /\ t.guest = tx[c].guest /\ t.draft = tx[c].draft
<1> DEFINE t == [tx[c] EXCEPT !.pc = pc]
<1>1. tx[c] \in Transactions
  BY DEF IInv, TypeOK
<1>2. tx' = [tx EXCEPT ![c] = t]
  BY DEF GoTo
<1>3. t \in Transactions /\ t.pc = pc /\ t.guest = tx[c].guest /\ t.draft = tx[c].draft
  BY <1>1 DEF Transactions
<1> QED  BY <1>2, <1>3

LEMMA LockKeepsIInv ==
  ASSUME IInv, NEW c \in Conns, Lock(c)
  PROVE  IInv'
<1>1. PICK pc \in {"locked", "reading"} : GoTo(c, pc)
  BY DEF Lock
<1>2. /\ tx[c].pc \in {"begun", "peeked"} /\ Keep
      /\ guestLock[tx[c].guest] = None
      /\ guestLock' = [guestLock EXCEPT ![tx[c].guest] = c]
  BY DEF Lock, At, lockGuest
<1>3. PICK t \in Transactions :
        /\ tx' = [tx EXCEPT ![c] = t]
        /\ t.pc = pc /\ t.guest = tx[c].guest /\ t.draft = tx[c].draft
  BY <1>1, GoToShape DEF Pcs
<1>4. t.guest \in Guests
  BY <1>2, <1>3 DEF IInv, TxSound
<1>5. t.pc \notin Drafting /\ t.pc # "idle" /\ t.pc \notin Unlocked /\ tx[c].pc \in Unlocked
  BY <1>2, <1>3 DEF Drafting, Unlocked
<1> QED  BY <1>2, <1>3, <1>4, <1>5, MoveKeepsIInv

\* ROLLBACK and the end of a transaction that commits nothing.
LEMMA EndKeepsIInv ==
  ASSUME IInv, NEW c \in Conns, tx' = [tx EXCEPT ![c] = Idle], Keep,
         Unlock(c) \/ (tx[c].pc \in Unlocked /\ UNCHANGED guestLock)
  PROVE  IInv'
<1>1. ledger' = ledger /\ expiresAt' = expiresAt /\ now' = now
  BY DEF Keep
<1>2. tx \in [Conns -> Transactions] /\ guestLock \in [Guests -> Conns \cup {None}]
  BY DEF IInv, TypeOK
<1>3. tx'[c] = Idle /\ \A d \in Conns \ {c} : tx'[d] = tx[d]
  BY <1>2
<1>4. /\ Idle \in Transactions /\ Sound(Idle.draft)
      /\ Idle.pc = "idle" /\ Idle.guest = None
  BY IdleTyped, EmptySound DEF Sound, Idle
<1>5. guestLock' \in [Guests -> Conns \cup {None}]
  BY <1>2 DEF Unlock
<1>6. \A g \in Guests : guestLock'[g] # c
  BY <1>2, GameplayAssumption DEF Unlock, IInv, LockIsHeld, Unlocked
<1>7. \A g \in Guests, d \in Conns \ {c} : guestLock'[g] = d <=> guestLock[g] = d
  BY <1>2, GameplayAssumption DEF Unlock
<1>8. TypeOK'
  BY <1>1, <1>2, <1>4, <1>5 DEF IInv, TypeOK
<1>9. BooksSound'
  BY <1>1 DEF IInv, BooksSound
<1>10. LockIsHeld'
  BY <1>3, <1>4, <1>6, <1>7 DEF IInv, LockIsHeld
<1>11. TxSound(c)'
  BY <1>3, <1>4 DEF TxSound, Drafting
<1>12. \A d \in Conns \ {c} : TxSound(d)'
  BY <1>1, <1>3 DEF IInv, TxSound, Extends, KeyIsFree, Committed
<1> QED  BY <1>8, <1>9, <1>10, <1>11, <1>12 DEF IInv

\* What IInv says to a transaction that has the lock and looks at rows.
LEMMA UnderTheLock ==
  ASSUME IInv, NEW c \in Conns, tx[c].pc \notin Unlocked
  PROVE  /\ tx[c].guest \in Guests /\ Sound(Committed(c))
         /\ Grows(Committed(c), Committed(c))
         /\ KeepsFinished(Committed(c), Committed(c))
         /\ databaseNow(c) \in Nat
<1>1. tx[c].guest \in Guests /\ now \in Nat
  BY DEF IInv, TxSound, TypeOK, Unlocked
<1>2. Sound(Committed(c))
  BY <1>1 DEF IInv, BooksSound, Committed
<1> QED  BY <1>1, <1>2, GrowthReflexive DEF databaseNow

\* The requests of clients are what their shapes say.
LEMMA RequestsTyped ==
  /\ \A rq \in Mutations :
       rq \in RequestShapes /\ rq.key \in Keys /\ rq.command \in Commands
  /\ \A kind \in {"READ_CURRENT", "READ_ATTEMPT", "READ_PROFILE"} :
       \A rq \in ReadsOf(kind) :
         rq \in RequestShapes /\ rq \in [key : {None}, command : Reads]
<1>1. Requests \subseteq RequestShapes
  BY GameplayAssumption
<1>2. ASSUME NEW rq \in Mutations
      PROVE  rq \in RequestShapes /\ rq.key \in Keys /\ rq.command \in Commands
  BY <1>1 DEF Mutations, RequestShapes
<1>3. ASSUME NEW kind \in {"READ_CURRENT", "READ_ATTEMPT", "READ_PROFILE"},
             NEW rq \in ReadsOf(kind)
      PROVE  rq \in RequestShapes /\ rq \in [key : {None}, command : Reads]
  <2>1. rq \in RequestShapes /\ rq.command.kind = kind
    BY <1>1 DEF ReadsOf
  <2>2. \A command \in Commands : command.kind # kind
    BY DEF Commands
  <2>3. rq \in [key : {None}, command : Reads]
    BY <2>1, <2>2 DEF RequestShapes
  <2> QED  BY <2>1, <2>3
<1> QED  BY <1>2, <1>3

\* An answer that drafts at most expiries.
LEMMA AnswerKeepsIInv ==
  ASSUME IInv, NEW c \in Conns, tx[c].pc \notin Unlocked,
         NEW rq \in RequestShapes \cup {NoRequest},
         NEW L, Sound(L), Grows(Committed(c), L), KeepsFinished(Committed(c), L),
         L.receipts = Committed(c).receipts,
         NEW ok \in BOOLEAN, NEW code \in Codes,
         NEW id \in AttemptIds \cup {NoAttempt},
         Answer(c, rq, L, ok, code, id)
  PROVE  IInv'
<1> DEFINE answer == [ok |-> ok, code |-> code, attempt |-> id]
<1>1. Draft(c, "answered", rq, L, answer)
  BY DEF Answer
<1>2. answer \in Answers
  BY DEF Answers
<1> HIDE DEF answer
<1> QED  BY <1>1, <1>2, DraftKeepsIInv DEF Drafting

LEMMA RejectKeepsIInv ==
  ASSUME IInv, NEW c \in Conns, tx[c].pc \notin Unlocked,
         NEW rq \in RequestShapes \cup {NoRequest},
         NEW code \in Codes, NEW id \in AttemptIds \cup {NoAttempt},
         Reject(c, rq, Committed(c), code, id)
  PROVE  IInv'
  BY UnderTheLock, AnswerKeepsIInv DEF Reject

LEMMA PeekKeepsIInv ==
  ASSUME IInv, NEW c \in Conns, PeekCurrent(c)
  PROVE  IInv'
<1>1. tx[c].pc = "begun" /\ guestLock' = guestLock /\ Keep
  BY DEF PeekCurrent, At
<1>2. \/ tx' = [tx EXCEPT ![c] = Idle]
      \/ \E rq \in ReadsOf("READ_CURRENT"), id \in AttemptIds :
           tx' = [tx EXCEPT ![c].pc = "peeked",
                            ![c].request = [rq EXCEPT !.command.attempt = id]]
  BY DEF PeekCurrent, AttemptsOf
<1>3. CASE tx' = [tx EXCEPT ![c] = Idle]
  <2>1. tx[c].pc \in Unlocked
    BY <1>1 DEF Unlocked
  <2> QED  BY <1>1, <1>3, <2>1, EndKeepsIInv
<1>4. ASSUME NEW rq \in ReadsOf("READ_CURRENT"), NEW id \in AttemptIds,
             tx' = [tx EXCEPT ![c].pc = "peeked",
                              ![c].request = [rq EXCEPT !.command.attempt = id]]
      PROVE  IInv'
  <2> DEFINE asked == [rq EXCEPT !.command.attempt = id]
             t == [tx[c] EXCEPT !.pc = "peeked", !.request = asked]
  <2>1. tx' = [tx EXCEPT ![c] = t]
    BY <1>4
  <2>2. rq \in [key : {None}, command : Reads]
    BY RequestsTyped
  <2>3. asked \in RequestShapes
    BY <2>2 DEF RequestShapes, Reads
  <2>4. tx[c] \in Transactions /\ tx[c].guest \in Guests
    BY <1>1 DEF IInv, TypeOK, TxSound
  <2> HIDE DEF asked
  <2>5. /\ t \in Transactions /\ t.pc = "peeked" /\ t.guest = tx[c].guest
        /\ t.draft = tx[c].draft
    BY <2>3, <2>4 DEF Transactions, Pcs
  <2> HIDE DEF t
  <2>6. t.pc \notin Drafting /\ t.pc # "idle" /\ t.pc \in Unlocked /\ tx[c].pc \in Unlocked
    BY <1>1, <2>5 DEF Drafting, Unlocked
  <2> QED  BY <1>1, <2>1, <2>4, <2>5, <2>6, MoveKeepsIInv
<1> QED  BY <1>2, <1>3, <1>4

LEMMA CheckKeepsIInv ==
  ASSUME IInv, NEW c \in Conns, CheckSession(c)
  PROVE  IInv'
<1>1. tx[c].pc = "locked" /\ tx[c].pc \notin Unlocked
  BY DEF CheckSession, At, Unlocked
<1>2. CASE GoTo(c, "admitted") /\ UNCHANGED guestLock /\ Keep
  <2>1. PICK t \in Transactions :
          /\ tx' = [tx EXCEPT ![c] = t]
          /\ t.pc = "admitted" /\ t.guest = tx[c].guest /\ t.draft = tx[c].draft
    BY <1>2, GoToShape DEF Pcs
  <2>2. t.guest \in Guests
    BY <1>1, <2>1 DEF IInv, TxSound
  <2>3. t.pc \notin Drafting /\ t.pc # "idle" /\ t.pc \notin Unlocked
    BY <2>1 DEF Drafting, Unlocked
  <2> QED  BY <1>1, <1>2, <2>1, <2>2, <2>3, MoveKeepsIInv
<1>3. CASE Reject(c, NoRequest, Committed(c), "SESSION_EXPIRED", NoAttempt)
  BY <1>1, <1>3, RejectKeepsIInv DEF Codes
<1> QED  BY <1>2, <1>3 DEF CheckSession

LEMMA ReplayKeepsIInv ==
  ASSUME IInv, NEW c \in Conns, ReplayReceipt(c)
  PROVE  IInv'
<1>1. tx[c].pc \notin Unlocked
  BY DEF ReplayReceipt, At, Unlocked
<1>2. PICK rq \in Mutations :
        /\ Prior(c, rq) # NoReceipt
        /\ \/ Answer(c, rq, expireIfClosed(Committed(c), Prior(c, rq).attempt,
                                           databaseNow(c)),
                     TRUE, Prior(c, rq).outcome, Prior(c, rq).attempt)
           \/ Reject(c, rq, Committed(c), "IDEMPOTENCY_CONFLICT", NoAttempt)
  BY DEF ReplayReceipt
<1>3. rq \in RequestShapes /\ rq.key \in Keys
  BY RequestsTyped
<1>4. Sound(Committed(c)) /\ databaseNow(c) \in Nat
  BY <1>1, UnderTheLock
<1>5. Prior(c, rq) \in Receipts
  BY <1>2, <1>3, <1>4 DEF Prior, Sound, Ledgers
<1>6. Prior(c, rq).attempt \in AttemptIds /\ Prior(c, rq).outcome \in Codes
  BY <1>5 DEF Receipts, Codes
<1> DEFINE X == expireIfClosed(Committed(c), Prior(c, rq).attempt, databaseNow(c))
<1>7. /\ Sound(X) /\ Grows(Committed(c), X) /\ KeepsFinished(Committed(c), X)
      /\ X.receipts = Committed(c).receipts
  BY <1>4, <1>6, ExpireSound
<1> HIDE DEF X
<1>8. CASE Answer(c, rq, X, TRUE, Prior(c, rq).outcome, Prior(c, rq).attempt)
  BY <1>1, <1>3, <1>6, <1>7, <1>8, AnswerKeepsIInv
<1>9. CASE Reject(c, rq, Committed(c), "IDEMPOTENCY_CONFLICT", NoAttempt)
  BY <1>1, <1>3, <1>9, RejectKeepsIInv DEF Codes
<1> QED  BY <1>2, <1>8, <1>9 DEF X

\* A played command or a start, drafted and waiting for its receipt.
LEMMA AwaitKeepsIInv ==
  ASSUME IInv, NEW c \in Conns, tx[c].pc \notin Unlocked,
         NEW rq \in Mutations, Prior(c, rq) = NoReceipt,
         NEW L, Sound(L), Grows(Committed(c), L), KeepsFinished(Committed(c), L),
         L.receipts = Committed(c).receipts,
         NEW id \in AttemptIds, AwaitReceipt(c, rq, L, id)
  PROVE  IInv'
<1> DEFINE answer == [ok |-> TRUE, attempt |-> id,
                      code |-> committedOutcome(rq.command)]
<1>1. rq \in RequestShapes /\ rq.key \in Keys /\ rq.command \in Commands
  BY RequestsTyped
<1>2. committedOutcome(rq.command) \in Codes
  BY DEF committedOutcome, Codes, Outcomes
<1>3. answer \in Answers /\ answer.attempt \in AttemptIds
  BY <1>2 DEF Answers
<1>4. Draft(c, "writing", rq, L, answer)
  BY DEF AwaitReceipt
<1>5. L.receipts[rq.key] = NoReceipt
  BY DEF Prior
<1> HIDE DEF answer
<1> QED  BY <1>1, <1>3, <1>4, <1>5, DraftKeepsIInv DEF Drafting

LEMMA StartKeepsIInv ==
  ASSUME IInv, NEW c \in Conns, StartAttempt(c)
  PROVE  IInv'
<1>1. tx[c].pc \notin Unlocked
  BY DEF StartAttempt, At, Unlocked
<1> DEFINE t == databaseNow(c)
           L == Committed(c)
<1>2. PICK rq \in Mutations :
        /\ Prior(c, rq) = NoReceipt
        /\ \/ Reject(c, rq, L, "NO_CASE", NoAttempt)
           \/ \E slot \in currentRevision(t) :
              \E id \in startedIds(L, slot, UnusedIds) :
                AwaitReceipt(c, rq, openAttempt(L, id, slot, t), id)
  BY DEF StartAttempt
<1>3. Sound(L) /\ t \in Nat
  BY <1>1, UnderTheLock
<1>4. rq \in RequestShapes
  BY RequestsTyped
<1>5. CASE Reject(c, rq, L, "NO_CASE", NoAttempt)
  BY <1>1, <1>4, <1>5, RejectKeepsIInv DEF Codes
<1>6. ASSUME NEW slot \in currentRevision(t),
             NEW id \in startedIds(L, slot, UnusedIds),
             AwaitReceipt(c, rq, openAttempt(L, id, slot, t), id)
      PROVE  IInv'
  <2> DEFINE O == openAttempt(L, id, slot, t)
  <2>1. slot \in Slots
    BY LedgerAssumption DEF currentRevision
  <2>2. id \in AttemptIds
    BY DEF startedIds, UnusedIds, AttemptsOf
  <2>3. Sound(O) /\ Grows(L, O) /\ KeepsFinished(L, O) /\ O.receipts = L.receipts
    BY <1>3, <2>1, <2>2, OpenSound
  <2>4. AwaitReceipt(c, rq, O, id)
    BY <1>6
  <2> HIDE DEF O
  <2> QED  BY <1>1, <1>2, <2>2, <2>3, <2>4, AwaitKeepsIInv
<1> QED  BY <1>2, <1>5, <1>6

\* The codes a command may be rejected with; none only if the attempt is open.
LEMMA RejectionCodes ==
  ASSUME NEW L, NEW command
  PROVE  /\ rejection(L, command) \in Codes
         /\ rejection(L, command) = "NONE" =>
              L.attempts[command.attempt].state = "ACTIVE"
<1>1. \A a : transition(a, command).reason \in {"NONE", "TERMINAL_ATTEMPT", "EVIDENCE_LIMIT"}
  BY DEF transition, applyGuess, revealEvidence, giveUp, Close, Accepted, Rejected
<1> QED  BY <1>1 DEF rejection, Codes

LEMMA ExecuteKeepsIInv ==
  ASSUME IInv, NEW c \in Conns, ExecuteCommand(c)
  PROVE  IInv'
<1>1. tx[c].pc \notin Unlocked
  BY DEF ExecuteCommand, At, Unlocked
<1>2. PICK rq \in Mutations :
        LET id == rq.command.attempt
            t == databaseNow(c)
            L == expireIfClosed(Committed(c), id, t)
            code == rejection(L, rq.command)
        IN /\ Prior(c, rq) = NoReceipt
           /\ \/ Reject(c, rq, Committed(c), "UNKNOWN_ATTEMPT", NoAttempt)
              \/ Exists(Committed(c), id) /\ Reject(c, rq, L, code, id)
              \/ /\ Exists(Committed(c), id) /\ code = "NONE"
                 /\ AwaitReceipt(c, rq, playCommand(L, rq.command, t), id)
  BY DEF ExecuteCommand
<1> DEFINE id == rq.command.attempt
           t == databaseNow(c)
           L == expireIfClosed(Committed(c), id, t)
           code == rejection(L, rq.command)
<1>3. rq \in RequestShapes /\ rq.command \in Commands
  BY RequestsTyped
<1>4. Sound(Committed(c)) /\ t \in Nat
  BY <1>1, UnderTheLock
<1>5. CASE Reject(c, rq, Committed(c), "UNKNOWN_ATTEMPT", NoAttempt)
  BY <1>1, <1>3, <1>5, RejectKeepsIInv DEF Codes
<1>6. ASSUME Exists(Committed(c), id)
      PROVE  /\ id \in AttemptIds /\ Sound(L) /\ Grows(Committed(c), L)
             /\ KeepsFinished(Committed(c), L) /\ L.receipts = Committed(c).receipts
  <2>1. id \in AttemptIds
    BY <1>6 DEF Exists
  <2> QED  BY <1>4, <2>1, ExpireSound
<1>7. CASE Exists(Committed(c), id) /\ Reject(c, rq, L, code, id)
  <2>1. code \in Codes
    BY RejectionCodes
  <2>2. Answer(c, rq, L, FALSE, code, id)
    BY <1>7 DEF Reject
  <2> HIDE DEF L, code
  <2> QED  BY <1>1, <1>3, <1>6, <1>7, <2>1, <2>2, AnswerKeepsIInv
<1>8. CASE /\ Exists(Committed(c), id) /\ code = "NONE"
           /\ AwaitReceipt(c, rq, playCommand(L, rq.command, t), id)
  <2>1. L.attempts[id].state = "ACTIVE"
    BY <1>8, RejectionCodes
  <2> HIDE DEF L, code
  <2> DEFINE P == playCommand(L, rq.command, t)
  <2>2. Sound(P) /\ Grows(L, P) /\ KeepsFinished(L, P) /\ P.receipts = L.receipts
    BY <1>3, <1>4, <1>6, <1>8, <2>1, PlaySound
  <2>3. AwaitReceipt(c, rq, P, id)
    BY <1>8
  <2> HIDE DEF P
  <2>4. Grows(Committed(c), P) /\ KeepsFinished(Committed(c), P)
    BY <1>4, <1>6, <1>8, <2>2, GrowthTransitive
  <2> QED  BY <1>1, <1>2, <1>6, <1>8, <2>2, <2>3, <2>4, AwaitKeepsIInv
<1> QED  BY <1>2, <1>5, <1>7, <1>8

LEMMA ReadKeepsIInv ==
  ASSUME IInv, NEW c \in Conns, ReadAttempt(c)
  PROVE  IInv'
<1>1. tx[c].pc \notin Unlocked
  BY DEF ReadAttempt, At, Unlocked
<1>2. PICK rq \in ReadsOf("READ_ATTEMPT") \cup {tx[c].request} :
        \/ /\ Exists(Committed(c), rq.command.attempt)
           /\ Answer(c, rq, expireIfClosed(Committed(c), rq.command.attempt,
                                           databaseNow(c)),
                     TRUE, "VIEW", rq.command.attempt)
        \/ Reject(c, rq, Committed(c), "UNKNOWN_ATTEMPT", NoAttempt)
  BY DEF ReadAttempt
<1>3. rq \in RequestShapes \cup {NoRequest}
  <2>1. tx[c].request \in RequestShapes \cup {NoRequest}
    BY DEF IInv, TypeOK, Transactions
  <2> QED  BY <2>1, RequestsTyped
<1>4. Sound(Committed(c)) /\ databaseNow(c) \in Nat
  BY <1>1, UnderTheLock
<1> DEFINE id == rq.command.attempt
           X == expireIfClosed(Committed(c), id, databaseNow(c))
<1>5. CASE Exists(Committed(c), id) /\ Answer(c, rq, X, TRUE, "VIEW", id)
  <2>1. id \in AttemptIds
    BY <1>5 DEF Exists
  <2>2. /\ Sound(X) /\ Grows(Committed(c), X) /\ KeepsFinished(Committed(c), X)
        /\ X.receipts = Committed(c).receipts
    BY <1>4, <2>1, ExpireSound
  <2> HIDE DEF X
  <2> QED  BY <1>1, <1>3, <1>5, <2>1, <2>2, AnswerKeepsIInv DEF Codes
<1>6. CASE Reject(c, rq, Committed(c), "UNKNOWN_ATTEMPT", NoAttempt)
  BY <1>1, <1>3, <1>6, RejectKeepsIInv DEF Codes
<1> QED  BY <1>2, <1>5, <1>6

LEMMA ProfileKeepsIInv ==
  ASSUME IInv, NEW c \in Conns, ReadProfile(c)
  PROVE  IInv'
<1>1. tx[c].pc \notin Unlocked
  BY DEF ReadProfile, At, Unlocked
<1>2. PICK rq \in ReadsOf("READ_PROFILE") :
        Draft(c, "expiring", rq, Committed(c), NoAnswer)
  BY DEF ReadProfile
<1>3. rq \in RequestShapes
  BY RequestsTyped
<1>4. NoAnswer \in Answers
  BY DEF NoAnswer, Answers, Codes
<1> QED  BY <1>1, <1>2, <1>3, <1>4, UnderTheLock, DraftKeepsIInv DEF Drafting

\* A transaction that goes on drafting.
LEMMA ContinueKeepsIInv ==
  ASSUME IInv, NEW c \in Conns, tx[c].pc \in Drafting, NEW t \in Transactions,
         t.guest = tx[c].guest, t.pc \in Drafting, t.pc # "writing",
         Sound(t.draft), Grows(Committed(c), t.draft),
         KeepsFinished(Committed(c), t.draft),
         Timely(t.draft, expiresAt[tx[c].guest]),
         tx' = [tx EXCEPT ![c] = t], UNCHANGED guestLock, Keep
  PROVE  IInv'
<1>1. ledger' = ledger /\ expiresAt' = expiresAt /\ now' = now /\ guestLock' = guestLock
  BY DEF Keep
<1>2. tx \in [Conns -> Transactions] /\ tx[c].guest \in Guests
  BY DEF IInv, TypeOK, TxSound, Drafting
<1>3. tx'[c] = t /\ \A d \in Conns \ {c} : tx'[d] = tx[d]
  BY <1>2
<1>4. TypeOK'
  BY <1>1, <1>2 DEF IInv, TypeOK
<1>5. BooksSound'
  BY <1>1 DEF IInv, BooksSound
<1>6. LockIsHeld'
  BY <1>1, <1>3 DEF IInv, LockIsHeld, Drafting
<1>7. TxSound(c)'
  BY <1>1, <1>2, <1>3 DEF TxSound, Extends, Committed
<1>8. \A d \in Conns \ {c} : TxSound(d)'
  BY <1>1, <1>3 DEF IInv, TxSound, Extends, KeyIsFree, Committed
<1> QED  BY <1>4, <1>5, <1>6, <1>7, <1>8 DEF IInv

LEMMA ExpireNextKeepsIInv ==
  ASSUME IInv, NEW c \in Conns, ExpireNext(c)
  PROVE  IInv'
<1> DEFINE L == tx[c].draft
<1>1. tx[c].pc = "expiring" /\ UNCHANGED guestLock /\ Keep
  BY DEF ExpireNext, At
<1>2. tx[c] \in Transactions
  BY DEF IInv, TypeOK
<1>3. /\ Sound(L) /\ Grows(Committed(c), L) /\ KeepsFinished(Committed(c), L)
      /\ Timely(L, expiresAt[tx[c].guest])
  BY <1>1 DEF IInv, TxSound, Extends, Drafting
<1>4. ASSUME NEW id \in AttemptIds,
             tx' = [tx EXCEPT ![c].draft = expireIfClosed(L, id, tx[c].sampledAt)]
      PROVE  IInv'
  <2> DEFINE X == expireIfClosed(L, id, tx[c].sampledAt)
             t == [tx[c] EXCEPT !.draft = X]
  <2>1. tx[c].sampledAt \in Nat
    BY <1>2 DEF Transactions
  <2>2. Sound(X) /\ Grows(L, X) /\ KeepsFinished(L, X) /\ X.receipts = L.receipts
    BY <1>3, <2>1, ExpireSound
  <2>3. tx' = [tx EXCEPT ![c] = t]
    BY <1>4
  <2> HIDE DEF X
  <2>4. Sound(Committed(c))
    BY <1>1, UnderTheLock DEF Unlocked
  <2>5. Grows(Committed(c), X) /\ KeepsFinished(Committed(c), X)
    BY <1>3, <2>2, <2>4, GrowthTransitive
  <2>6. Timely(X, expiresAt[tx[c].guest])
    BY <1>3, <2>2 DEF Timely
  <2>7. X \in Ledgers
    BY <2>2 DEF Sound
  <2>8. t \in Transactions /\ t.guest = tx[c].guest /\ t.pc = "expiring" /\ t.draft = X
    BY <1>1, <1>2, <2>7 DEF Transactions
  <2> HIDE DEF t
  <2> QED  BY <1>1, <2>2, <2>3, <2>5, <2>6, <2>8, ContinueKeepsIInv DEF Drafting
<1>5. ASSUME tx' = [tx EXCEPT ![c].pc = "answered",
                              ![c].answer = [ok |-> TRUE, code |-> "PROFILE",
                                             attempt |-> NoAttempt]]
      PROVE  IInv'
  <2> DEFINE answer == [ok |-> TRUE, code |-> "PROFILE", attempt |-> NoAttempt]
             t == [tx[c] EXCEPT !.pc = "answered", !.answer = answer]
  <2>1. answer \in Answers
    BY DEF Answers, Codes
  <2>2. tx' = [tx EXCEPT ![c] = t]
    BY <1>5
  <2> HIDE DEF answer
  <2>3. t \in Transactions /\ t.guest = tx[c].guest /\ t.pc = "answered" /\ t.draft = L
    BY <1>2, <2>1 DEF Transactions, Pcs
  <2> HIDE DEF t
  <2> QED  BY <1>1, <1>3, <2>2, <2>3, ContinueKeepsIInv DEF Drafting
<1> QED  BY <1>4, <1>5 DEF ExpireNext, ElapsedAttempts

LEMMA InsertKeepsIInv ==
  ASSUME IInv, NEW c \in Conns, InsertReceipt(c)
  PROVE  IInv'
<1> DEFINE L == tx[c].draft
           key == tx[c].request.key
           I == insertReceipt(L, key, tx[c].request.command,
                              tx[c].answer.attempt, now)
           t == [tx[c] EXCEPT !.pc = "answered", !.draft = I]
<1>1. /\ tx[c].pc = "writing" /\ now < expiresAt[tx[c].guest]
      /\ UNCHANGED guestLock /\ Keep
  <2>1. /\ tx[c].pc = "writing" /\ expiresAt[tx[c].guest] > now
        /\ UNCHANGED guestLock /\ Keep
    BY DEF InsertReceipt, At, receiptAdmitted
  <2>2. now \in Nat /\ expiresAt[tx[c].guest] \in Nat
    BY <2>1 DEF IInv, TypeOK, TxSound
  <2> QED  BY <2>1, <2>2
<1>2. tx[c] \in Transactions /\ now \in Nat
  BY DEF IInv, TypeOK
<1>3. /\ Sound(L) /\ Grows(Committed(c), L) /\ KeepsFinished(Committed(c), L)
      /\ Timely(L, expiresAt[tx[c].guest]) /\ KeyIsFree(c)
  BY <1>1 DEF IInv, TxSound, Extends, Drafting
<1>4. tx' = [tx EXCEPT ![c] = t]
  BY DEF InsertReceipt
<1>5. /\ Sound(I) /\ Grows(L, I) /\ KeepsFinished(L, I)
      /\ I.receipts[key].at = now
      /\ \A k \in Keys \ {key} : I.receipts[k] = L.receipts[k]
  BY <1>2, <1>3, ReceiptSound DEF KeyIsFree
<1> HIDE DEF I
<1>6. Sound(Committed(c))
  BY <1>1, UnderTheLock DEF Unlocked
<1>7. Grows(Committed(c), I) /\ KeepsFinished(Committed(c), I)
  BY <1>3, <1>5, <1>6, GrowthTransitive
<1>8. Timely(I, expiresAt[tx[c].guest])
  BY <1>1, <1>3, <1>5 DEF Timely
<1>9. I \in Ledgers
  BY <1>5 DEF Sound
<1>10. t \in Transactions /\ t.guest = tx[c].guest /\ t.pc = "answered" /\ t.draft = I
  BY <1>2, <1>9 DEF Transactions, Pcs
<1> HIDE DEF t
<1> QED  BY <1>1, <1>4, <1>5, <1>7, <1>8, <1>10, ContinueKeepsIInv DEF Drafting

\* Commit publishes the draft of the one transaction that has the lock.
LEMMA CommitKeepsIInv ==
  ASSUME IInv, NEW c \in Conns, Commit(c)
  PROVE  IInv'
<1> DEFINE g == tx[c].guest
<1>1. /\ tx[c].pc = "answered" /\ ledger' = [ledger EXCEPT ![g] = tx[c].draft]
      /\ tx' = [tx EXCEPT ![c] = Idle] /\ Unlock(c)
      /\ expiresAt' = expiresAt /\ now' = now
  BY DEF Commit, At
<1>2. /\ tx \in [Conns -> Transactions] /\ guestLock \in [Guests -> Conns \cup {None}]
      /\ ledger \in [Guests -> Ledgers] /\ g \in Guests
  BY <1>1 DEF IInv, TypeOK, TxSound
<1>3. tx'[c] = Idle /\ \A d \in Conns \ {c} : tx'[d] = tx[d]
  BY <1>1, <1>2
<1>4. /\ ledger'[g] = tx[c].draft
      /\ \A h \in Guests \ {g} : ledger'[h] = ledger[h]
  BY <1>1, <1>2
<1>5. /\ Idle \in Transactions /\ Sound(Idle.draft)
      /\ Idle.pc = "idle" /\ Idle.guest = None
  BY IdleTyped, EmptySound DEF Sound, Idle
<1>6. Sound(tx[c].draft) /\ Timely(tx[c].draft, expiresAt[g])
  BY <1>1 DEF IInv, TxSound, Extends, Drafting
<1>7. \A h \in Guests : guestLock'[h] # c
  BY <1>1, <1>2, GameplayAssumption DEF Unlock
<1>8. \A h \in Guests, d \in Conns \ {c} : guestLock'[h] = d <=> guestLock[h] = d
  BY <1>1, <1>2, GameplayAssumption DEF Unlock
<1>9. TypeOK'
  <2>1. guestLock' \in [Guests -> Conns \cup {None}]
    BY <1>1, <1>2 DEF Unlock
  <2>2. ledger' \in [Guests -> Ledgers]
    BY <1>1, <1>2, <1>6 DEF Sound
  <2> QED  BY <1>1, <1>2, <1>5, <2>1, <2>2 DEF IInv, TypeOK
<1>10. BooksSound'
  BY <1>1, <1>2, <1>4, <1>6 DEF IInv, BooksSound
<1>11. LockIsHeld'
  BY <1>3, <1>5, <1>7, <1>8 DEF IInv, LockIsHeld
<1>12. TxSound(c)'
  BY <1>3, <1>5 DEF TxSound, Drafting
<1>13. ASSUME NEW d \in Conns \ {c} PROVE TxSound(d)'
  <2>1. TxSound(d) /\ tx'[d] = tx[d]
    BY <1>3 DEF IInv
  <2>2. ASSUME tx[d].pc \in Drafting PROVE Extends(d)'
    <3>1. tx[d].guest \in Guests /\ Extends(d) /\ tx[d].pc \notin Unlocked
      BY <2>1, <2>2 DEF TxSound, Drafting, Unlocked
    <3>2. tx[c].pc \notin Unlocked
      BY <1>1 DEF Unlocked
    <3>3. tx[d].guest # g
      BY <1>2, <3>1, <3>2, OneDraftPerGuest DEF IInv
    <3>4. ledger'[tx[d].guest] = ledger[tx[d].guest]
      BY <1>4, <3>1, <3>3
    <3> QED  BY <1>1, <2>1, <3>1, <3>4 DEF Extends, Committed
  <2> QED  BY <2>1, <2>2 DEF TxSound, KeyIsFree
<1> QED  BY <1>9, <1>10, <1>11, <1>12, <1>13 DEF IInv

LEMMA AbortKeepsIInv ==
  ASSUME IInv, NEW c \in Conns, Abort(c)
  PROVE  IInv'
  BY EndKeepsIInv DEF Abort

LEMMA TickKeepsIInv ==
  ASSUME IInv, Tick \/ UNCHANGED vars
  PROVE  IInv'
<1>1. UNCHANGED <<ledger, expiresAt, guestLock, tx>> /\ now' \in Nat
  BY DEF Tick, vars, IInv, TypeOK
<1>2. TypeOK' /\ BooksSound' /\ LockIsHeld'
  BY <1>1 DEF IInv, TypeOK, BooksSound, LockIsHeld
<1>3. \A c \in Conns : TxSound(c)'
  BY <1>1 DEF IInv, TxSound, Extends, KeyIsFree, Committed
<1> QED  BY <1>2, <1>3 DEF IInv

LEMMA NextIInv == IInv /\ [Next]_vars => IInv'
<1> SUFFICES ASSUME IInv, [Next]_vars PROVE IInv'
  OBVIOUS
<1>1. ASSUME NEW c \in Conns, Advance(c) PROVE IInv'
  <2>1. CASE PeekCurrent(c)  BY <2>1, PeekKeepsIInv
  <2>2. CASE Lock(c)  BY <2>2, LockKeepsIInv
  <2>3. CASE CheckSession(c)  BY <2>3, CheckKeepsIInv
  <2>4. CASE ReplayReceipt(c)  BY <2>4, ReplayKeepsIInv
  <2>5. CASE StartAttempt(c)  BY <2>5, StartKeepsIInv
  <2>6. CASE ExecuteCommand(c)  BY <2>6, ExecuteKeepsIInv
  <2>7. CASE ReadAttempt(c)  BY <2>7, ReadKeepsIInv
  <2>8. CASE ReadProfile(c)  BY <2>8, ProfileKeepsIInv
  <2>9. CASE ExpireNext(c)  BY <2>9, ExpireNextKeepsIInv
  <2>10. CASE InsertReceipt(c)  BY <2>10, InsertKeepsIInv
  <2>11. CASE Commit(c)  BY <2>11, CommitKeepsIInv
  <2> QED
    BY <1>1, <2>1, <2>2, <2>3, <2>4, <2>5, <2>6, <2>7, <2>8, <2>9, <2>10, <2>11
    DEF Advance
<1>2. ASSUME NEW c \in Conns, Abort(c) PROVE IInv'
  BY <1>2, AbortKeepsIInv
<1>3. ASSUME NEW c \in Conns, NEW g \in Guests, Begin(c, g) PROVE IInv'
  BY <1>3, BeginKeepsIInv
<1>4. CASE Tick \/ UNCHANGED vars
  BY <1>4, TickKeepsIInv
<1> QED  BY <1>1, <1>2, <1>3, <1>4 DEF Next

\* Types, locks, drafts and sessions hold together through every interleaving.
THEOREM GameplayInvariant == Spec => []IInv
  BY InitIInv, NextIInv, PTL DEF Spec

\* Rows, locks and transactions keep their types.
THEOREM GameplayTypeOK == Spec => []TypeOK
  BY GameplayInvariant, PTL DEF IInv

\* Whoever looks at rows of a guest holds that guest's lock, and nobody else.
THEOREM GameplayLockIsHeld == Spec => []LockIsHeld
  BY GameplayInvariant, PTL DEF IInv

\* Nothing but COMMIT changes the committed rows.
LEMMA OnlyCommitsWrite ==
  ASSUME [Next]_vars
  PROVE  ledger' = ledger \/ \E c \in Conns : Commit(c)
  BY ZenonT(90) DEF Next, Advance, vars, Begin, PeekCurrent, Lock, CheckSession,
         ReplayReceipt, StartAttempt, ExecuteCommand, ReadAttempt, ReadProfile,
         ExpireNext, InsertReceipt, Abort, Tick, Reject, Answer, AwaitReceipt,
         Draft, Keep

\* Every step leaves the committed rows of each guest as they were or grown.
LEMMA StepsGrow ==
  ASSUME IInv, [Next]_vars, NEW g \in Guests
  PROVE  Grows(ledger[g], ledger'[g]) /\ KeepsFinished(ledger[g], ledger'[g])
<1>1. Sound(ledger[g])
  BY DEF IInv, BooksSound
<1>2. CASE ledger' = ledger
  BY <1>1, <1>2, GrowthReflexive
<1>3. ASSUME NEW c \in Conns, Commit(c)
      PROVE  Grows(ledger[g], ledger'[g]) /\ KeepsFinished(ledger[g], ledger'[g])
  <2>1. /\ tx[c].pc = "answered"
        /\ ledger' = [ledger EXCEPT ![tx[c].guest] = tx[c].draft]
    BY <1>3 DEF Commit, At
  <2>2. ledger \in [Guests -> Ledgers] /\ tx[c].guest \in Guests
    BY <2>1 DEF IInv, TypeOK, TxSound
  <2>3. CASE tx[c].guest = g
    <3>1. ledger'[g] = tx[c].draft /\ Committed(c) = ledger[g]
      BY <2>1, <2>2, <2>3 DEF Committed
    <3>2. Extends(c)
      BY <2>1 DEF IInv, TxSound, Drafting
    <3> QED  BY <3>1, <3>2 DEF Extends
  <2>4. CASE tx[c].guest # g
    <3>1. ledger'[g] = ledger[g]
      BY <2>1, <2>2, <2>4
    <3> QED  BY <1>1, <3>1, GrowthReflexive
  <2> QED  BY <2>3, <2>4
<1> QED  BY <1>2, <1>3, OnlyCommitsWrite

\* A finished attempt never changes again, whatever runs concurrently.
THEOREM GameplayFinishedForever == Spec => FinishedForever
<1> DEFINE A == \A g \in Guests : KeepsFinished(ledger[g], ledger'[g])
<1>1. IInv /\ [Next]_vars => [A]_vars
  BY StepsGrow
<1> QED  BY GameplayInvariant, <1>1, PTL DEF Spec, FinishedForever

\* No commit loses what another has committed.
THEOREM GameplayNothingIsLost == Spec => NothingIsLost
<1> DEFINE A == \A g \in Guests : Grows(ledger[g], ledger'[g])
<1>1. IInv /\ [Next]_vars => [A]_vars
  BY StepsGrow
<1> QED  BY GameplayInvariant, <1>1, PTL DEF Spec, NothingIsLost

(***************************************************************************)
(* The books of every guest, committed and drafted, add up at any time.    *)
(***************************************************************************)
CountsAll(L) == \A a \in AttemptIds : Counts(L, a)

BooksKept == \A g \in Guests : Kept(ledger[g], now) /\ CountsAll(ledger[g])

\* The attempt that connection c answers about is not one that was over when
\* it read the clock.
ShowsNoElapsed(c) ==
  tx[c].answer.attempt \notin ElapsedAttempts(tx[c].draft, tx[c].sampledAt)

\* A mutation that has been played or found, and waits for its receipt.
Promised(c) ==
  LET command == tx[c].request.command
      id == tx[c].answer.attempt
      L == tx[c].draft
  IN /\ tx[c].answer.ok /\ tx[c].answer.code = committedOutcome(command)
     /\ Exists(L, id) /\ ShowsNoElapsed(c)
     /\ \A a \in AttemptIds \ {id} : Counts(L, a)
     /\ IF command.kind = "START" THEN Counts(L, id) ELSE Owed(L, id, command)
     /\ L.receipts = Committed(c).receipts
     /\ Acted(Committed(c), L, id, committedOutcome(command))

\* The answer of connection c is that of the receipt under its key.
ToldByReceipt(c) ==
  LET t == tx[c]
      r == t.draft.receipts[t.request.key]
  IN t.request.key # None /\ t.answer.ok =>
       /\ r # NoReceipt
       /\ r.command = t.request.command
       /\ r.outcome = t.answer.code /\ r.attempt = t.answer.attempt

\* An answer about to be committed.
Told(c) ==
  /\ CountsAll(tx[c].draft) /\ ShowsNoElapsed(c) /\ ToldByReceipt(c)
  /\ tx[c].answer.code = "PROFILE" =>
       ElapsedAttempts(tx[c].draft, tx[c].sampledAt) = {}
  /\ IF tx[c].draft.receipts = Committed(c).receipts
     THEN Quiet(Committed(c), tx[c].draft)
     ELSE Settled(Committed(c), tx[c].draft)

TxKept(c) ==
  /\ tx[c].sampledAt <= now /\ Kept(tx[c].draft, now)
  /\ tx[c].pc \notin {"writing", "answered"} => tx[c].request.key = None
  /\ tx[c].pc \in Drafting => InOrder(Committed(c), tx[c].draft)
  /\ tx[c].pc = "expiring" =>
       CountsAll(tx[c].draft) /\ Quiet(Committed(c), tx[c].draft)
  /\ tx[c].pc = "writing" => Promised(c)
  /\ tx[c].pc = "answered" => Told(c)

BooksInv == IInv /\ BooksKept /\ \A c \in Conns : TxKept(c)

LEMMA InitBooks == Init => BooksInv
<1> SUFFICES ASSUME Init PROVE BooksInv
  OBVIOUS
<1>1. /\ \A g \in Guests : ledger[g] = EmptyLedger
      /\ \A c \in Conns : tx[c] = Idle
      /\ now = 0
  BY DEF Init
<1>2. Kept(EmptyLedger, now)
  BY <1>1, EmptyKept
<1>3. CountsAll(EmptyLedger)
  <2> DEFINE E == EmptyLedger
  <2>1. /\ \A k \in Keys : E.receipts[k] = NoReceipt
        /\ \A a \in AttemptIds : E.attempts[a] = NoRow
    BY DEF EmptyLedger
  <2>2. NoRow.version = 0 /\ NoRow.state = "NONE"
    BY DEF NoRow
  <2> HIDE DEF E
  <2>3. \A a \in AttemptIds : MovesOn(E, a) = {}
    BY <2>1 DEF MovesOn, ReceiptsOn
  <2>4. ASSUME NEW a \in AttemptIds PROVE Counts(E, a)
    BY <2>1, <2>2, <2>3, NoMovesCount
  <2> QED  BY <2>4 DEF CountsAll, E
<1>4. BooksKept
  BY <1>1, <1>2, <1>3 DEF BooksKept
<1>5. /\ Idle.sampledAt = 0 /\ Idle.draft = EmptyLedger /\ Idle.pc = "idle"
      /\ Idle.request.key = None
  BY DEF Idle, NoRequest
<1>6. \A c \in Conns : TxKept(c)
  BY <1>1, <1>2, <1>5 DEF TxKept, Drafting
<1> QED  BY <1>4, <1>6, InitIInv DEF BooksInv

\* A transaction is not disturbed by what happens beside it: the lock keeps its
\* guest's rows, and the clock only moves on.
LEMMA TxUndisturbed ==
  ASSUME BooksInv, NEW d \in Conns, tx'[d] = tx[d], now' \in Nat, now <= now',
         tx[d].pc \in Drafting => Committed(d)' = Committed(d)
  PROVE  TxKept(d)'
<1>1. /\ now \in Nat /\ tx[d].sampledAt \in Nat /\ TxKept(d)
  BY DEF BooksInv, IInv, TypeOK, Transactions
<1>2. Kept(tx[d].draft, now')
  BY <1>1, KeptLater DEF TxKept
<1>3. tx[d].sampledAt <= now'
  BY <1>1 DEF TxKept
<1>4. ASSUME tx[d].pc = "writing" PROVE Promised(d)'
  <2>1. Promised(d) /\ Committed(d)' = Committed(d)
    BY <1>1, <1>4 DEF TxKept, Drafting
  <2> QED  BY <2>1 DEF Promised, ShowsNoElapsed
<1>5. ASSUME tx[d].pc = "answered" PROVE Told(d)'
  <2>1. Told(d) /\ Committed(d)' = Committed(d)
    BY <1>1, <1>5 DEF TxKept, Drafting
  <2> QED  BY <2>1 DEF Told, ShowsNoElapsed, ToldByReceipt
<1>6. tx[d].pc = "expiring" => Quiet(Committed(d), tx[d].draft)'
  BY <1>1 DEF TxKept, Drafting
<1>7. tx[d].pc \in Drafting => InOrder(Committed(d), tx[d].draft)'
  BY <1>1 DEF TxKept
<1> QED  BY <1>1, <1>2, <1>3, <1>4, <1>5, <1>6, <1>7 DEF TxKept

\* A step of one connection that commits nothing.
LEMMA StepKeepsBooks ==
  ASSUME BooksInv, IInv', NEW c \in Conns, NEW t, tx' = [tx EXCEPT ![c] = t],
         Keep, TxKept(c)'
  PROVE  BooksInv'
<1>1. ledger' = ledger /\ now' = now /\ now \in Nat /\ tx \in [Conns -> Transactions]
  BY DEF Keep, BooksInv, IInv, TypeOK
<1>2. \A d \in Conns \ {c} : tx'[d] = tx[d]
  BY <1>1
<1>3. \A d \in Conns \ {c} : Committed(d)' = Committed(d)
  BY <1>1, <1>2 DEF Committed
<1>4. \A d \in Conns \ {c} : TxKept(d)'
  BY <1>1, <1>2, <1>3, TxUndisturbed
<1>5. BooksKept'
  BY <1>1 DEF BooksInv, BooksKept
<1> QED  BY <1>4, <1>5 DEF BooksInv

\* What Draft leaves in the transaction.
LEMMA DraftShape ==
  ASSUME IInv, NEW c \in Conns, NEW pc, NEW rq, NEW L, NEW answer,
         Draft(c, pc, rq, L, answer)
  PROVE  /\ tx'[c].pc = pc /\ tx'[c].request = rq /\ tx'[c].draft = L
         /\ tx'[c].sampledAt = now /\ tx'[c].answer = answer
         /\ Committed(c)' = Committed(c) /\ now' = now
         /\ \E t : tx' = [tx EXCEPT ![c] = t]
         /\ Keep
<1> DEFINE t == [tx[c] EXCEPT !.pc = pc, !.request = rq, !.draft = L,
                   !.sampledAt = databaseNow(c), !.answer = answer]
<1>1. tx' = [tx EXCEPT ![c] = t] /\ Keep
  BY DEF Draft
<1>2. tx[c] \in Transactions /\ tx \in [Conns -> Transactions]
  BY DEF IInv, TypeOK
<1>3. /\ t.pc = pc /\ t.request = rq /\ t.draft = L /\ t.sampledAt = now
      /\ t.answer = answer /\ t.guest = tx[c].guest
  BY <1>2 DEF Transactions, databaseNow
<1>4. tx'[c] = t
  BY <1>1, <1>2
<1> HIDE DEF t
<1>5. now' = now /\ ledger' = ledger
  BY <1>1 DEF Keep
<1> QED  BY <1>1, <1>3, <1>4, <1>5 DEF Committed

\* What the invariant says to a transaction that has the lock.
LEMMA BooksUnderTheLock ==
  ASSUME BooksInv, NEW c \in Conns, tx[c].pc \notin Unlocked
  PROVE  /\ now \in Nat /\ Sound(Committed(c)) /\ Kept(Committed(c), now)
         /\ CountsAll(Committed(c))
         /\ Quiet(Committed(c), Committed(c)) /\ InOrder(Committed(c), Committed(c))
<1>1. tx[c].guest \in Guests /\ now \in Nat /\ Sound(Committed(c))
  BY UnderTheLock DEF BooksInv, IInv, TypeOK
<1>2. Kept(Committed(c), now) /\ CountsAll(Committed(c))
  BY <1>1 DEF BooksInv, BooksKept, Committed
<1> QED  BY <1>1, <1>2, OrderReflexive, QuietReflexive DEF Kept

\* An answer that drafts at most expiries.
LEMMA AnswerTells ==
  ASSUME BooksInv, NEW c \in Conns, NEW L, Kept(L, now),
         Quiet(Committed(c), L), InOrder(Committed(c), L), CountsAll(L),
         NEW rq, NEW ok, NEW code, code # "PROFILE",
         NEW id, id \notin ElapsedAttempts(L, now),
         rq.key # None /\ ok =>
           /\ L.receipts[rq.key] # NoReceipt
           /\ L.receipts[rq.key].command = rq.command
           /\ L.receipts[rq.key].outcome = code
           /\ L.receipts[rq.key].attempt = id,
         Answer(c, rq, L, ok, code, id)
  PROVE  TxKept(c)'
<1> DEFINE answer == [ok |-> ok, code |-> code, attempt |-> id]
<1>1. /\ tx'[c].pc = "answered" /\ tx'[c].request = rq /\ tx'[c].draft = L
      /\ tx'[c].sampledAt = now /\ tx'[c].answer = answer
      /\ Committed(c)' = Committed(c) /\ now' = now
  BY DraftShape DEF Answer, BooksInv
<1>2. answer.ok = ok /\ answer.code = code /\ answer.attempt = id
  OBVIOUS
<1> HIDE DEF answer
<1>3. now <= now /\ now \in Nat
  BY DEF BooksInv, IInv, TypeOK
<1>4. ShowsNoElapsed(c)' /\ ToldByReceipt(c)'
  BY <1>1, <1>2 DEF ShowsNoElapsed, ToldByReceipt
<1>5. L.receipts = Committed(c).receipts
  BY DEF Quiet
<1>6. Told(c)'
  BY <1>1, <1>2, <1>4, <1>5 DEF Told
<1> QED  BY <1>1, <1>3, <1>6 DEF TxKept, Drafting

LEMMA RejectTells ==
  ASSUME BooksInv, NEW c \in Conns, tx[c].pc \notin Unlocked, NEW rq,
         NEW code, code # "PROFILE", Reject(c, rq, Committed(c), code, NoAttempt)
  PROVE  TxKept(c)'
<1>1. NoAttempt \notin ElapsedAttempts(Committed(c), now)
  BY LedgerAssumption DEF ElapsedAttempts
<1>2. Answer(c, rq, Committed(c), FALSE, code, NoAttempt)
  BY DEF Reject
<1> QED  BY <1>1, <1>2, BooksUnderTheLock, AnswerTells

\* What passing an attempt through expireIfClosed gives an answer about it.
LEMMA ExpiredBooks ==
  ASSUME BooksInv, NEW c \in Conns, tx[c].pc \notin Unlocked,
         NEW id \in AttemptIds
  PROVE  LET X == expireIfClosed(Committed(c), id, now)
         IN /\ Sound(X) /\ Kept(X, now) /\ CountsAll(X)
            /\ Quiet(Committed(c), X) /\ InOrder(Committed(c), X)
            /\ Grows(Committed(c), X)
            /\ X.receipts = Committed(c).receipts
            /\ id \notin ElapsedAttempts(X, now)
            /\ X.attempts[id].state = "ACTIVE" =>
                 X = Committed(c) /\ now < ClosesAt(X.attempts[id].slot)
<1> DEFINE L == Committed(c)
           X == expireIfClosed(L, id, now)
<1>1. /\ now \in Nat /\ Sound(L) /\ Kept(L, now) /\ CountsAll(L)
  BY BooksUnderTheLock
<1> HIDE DEF L
<1>2. Sound(X) /\ X.receipts = L.receipts /\ Grows(L, X)
  BY <1>1, ExpireSound
<1>3. now <= now
  BY <1>1
<1>4. /\ Kept(X, now)
      /\ X.attempts[id].state = "ACTIVE" =>
           X = L /\ now < ClosesAt(X.attempts[id].slot)
  BY <1>1, <1>3, ExpireKept
<1>5. Quiet(L, X) /\ InOrder(L, X)
  BY <1>1, ExpireQuiet
<1>6. CountsAll(X)
  <2>1. \A a \in AttemptIds : Counts(L, a)
    BY <1>1 DEF CountsAll
  <2>2. \A a \in AttemptIds : Counts(X, a)
    BY <1>1, <2>1, ExpireQuiet
  <2> QED  BY <2>2 DEF CountsAll
<1> HIDE DEF X
<1>7. id \notin ElapsedAttempts(X, now)
  <2> SUFFICES ASSUME id \in ElapsedAttempts(X, now) PROVE FALSE
    OBVIOUS
  <2>1. X.attempts[id].state = "ACTIVE" /\ now >= ClosesAt(X.attempts[id].slot)
    BY DEF ElapsedAttempts
  <2>2. X.attempts[id].slot \in Slots
    BY <1>2, <2>1 DEF Sound
  <2> QED  BY <1>1, <1>4, <2>1, <2>2, Basics
<1> QED  BY <1>2, <1>4, <1>5, <1>6, <1>7 DEF X, L

\* A transaction that has not drafted anything goes on, or ends.
LEMMA MoveTells ==
  ASSUME BooksInv, NEW c \in Conns, now' = now,
         tx'[c].sampledAt = tx[c].sampledAt, tx'[c].draft = tx[c].draft,
         tx'[c].pc \notin Drafting, tx'[c].request.key = None
  PROVE  TxKept(c)'
  BY DEF BooksInv, TxKept, Drafting

LEMMA IdleTells ==
  ASSUME BooksInv, NEW c \in Conns, now' \in Nat, tx'[c] = Idle
  PROVE  TxKept(c)'
<1>1. /\ Idle.sampledAt = 0 /\ Idle.draft = EmptyLedger /\ Idle.pc = "idle"
      /\ Idle.request.key = None
  BY DEF Idle, NoRequest
<1> QED  BY <1>1, EmptyKept DEF TxKept, Drafting

LEMMA BeginBooks ==
  ASSUME BooksInv, NEW c \in Conns, NEW g \in Guests, Begin(c, g)
  PROVE  BooksInv'
<1> DEFINE t == [tx[c] EXCEPT !.pc = "begun", !.guest = g, !.begunAt = now]
<1>1. tx' = [tx EXCEPT ![c] = t] /\ Keep /\ tx[c].pc = "idle"
  BY DEF Begin, At
<1>2. tx[c] \in Transactions /\ tx \in [Conns -> Transactions]
  BY DEF BooksInv, IInv, TypeOK
<1>3. tx[c].request.key = None
  BY <1>1 DEF BooksInv, TxKept
<1>4. /\ t.draft = tx[c].draft /\ t.pc = "begun" /\ t.request = tx[c].request
      /\ t.sampledAt = tx[c].sampledAt
  BY <1>2 DEF Transactions
<1> HIDE DEF t
<1>5. tx'[c] = t /\ now' = now
  BY <1>1, <1>2 DEF Keep
<1>6. TxKept(c)'
  BY <1>3, <1>4, <1>5, MoveTells DEF Drafting
<1>7. IInv'
  BY BeginKeepsIInv DEF BooksInv
<1> QED  BY <1>1, <1>6, <1>7, StepKeepsBooks

\* What GoTo leaves in the transaction.
LEMMA GoToTells ==
  ASSUME BooksInv, NEW c \in Conns, NEW pc, pc \notin Drafting, GoTo(c, pc), Keep,
         tx[c].pc \notin {"writing", "answered"}
  PROVE  TxKept(c)' /\ \E t : tx' = [tx EXCEPT ![c] = t]
<1> DEFINE t == [tx[c] EXCEPT !.pc = pc]
<1>1. tx' = [tx EXCEPT ![c] = t] /\ now' = now
  BY DEF GoTo, Keep
<1>2. tx[c] \in Transactions /\ tx \in [Conns -> Transactions]
  BY DEF BooksInv, IInv, TypeOK
<1>3. tx[c].request.key = None
  BY DEF BooksInv, TxKept
<1>4. /\ t.draft = tx[c].draft /\ t.pc = pc /\ t.request = tx[c].request
      /\ t.sampledAt = tx[c].sampledAt
  BY <1>2 DEF Transactions
<1> HIDE DEF t
<1>5. tx'[c] = t
  BY <1>1, <1>2
<1> QED  BY <1>1, <1>3, <1>4, <1>5, MoveTells

LEMMA LockBooks ==
  ASSUME BooksInv, NEW c \in Conns, Lock(c)
  PROVE  BooksInv'
<1>1. PICK pc \in {"locked", "reading"} : GoTo(c, pc)
  BY DEF Lock
<1>2. tx[c].pc \in {"begun", "peeked"} /\ Keep
  BY DEF Lock, At
<1>3. pc \notin Drafting /\ tx[c].pc \notin {"writing", "answered"}
  BY <1>2 DEF Drafting
<1>4. IInv'
  BY LockKeepsIInv DEF BooksInv
<1> QED  BY <1>1, <1>2, <1>3, <1>4, GoToTells, StepKeepsBooks

LEMMA PeekBooks ==
  ASSUME BooksInv, NEW c \in Conns, PeekCurrent(c)
  PROVE  BooksInv'
<1>1. tx[c].pc = "begun" /\ Keep /\ IInv'
  BY PeekKeepsIInv DEF PeekCurrent, At, BooksInv
<1>2. /\ tx[c] \in Transactions /\ tx \in [Conns -> Transactions]
      /\ now' = now /\ now \in Nat
  BY <1>1 DEF BooksInv, IInv, TypeOK, Keep
<1>3. \/ tx' = [tx EXCEPT ![c] = Idle]
      \/ \E rq \in ReadsOf("READ_CURRENT"), id \in AttemptIds :
           tx' = [tx EXCEPT ![c].pc = "peeked",
                            ![c].request = [rq EXCEPT !.command.attempt = id]]
  BY DEF PeekCurrent, AttemptsOf
<1>4. CASE tx' = [tx EXCEPT ![c] = Idle]
  <2>1. tx'[c] = Idle
    BY <1>2, <1>4
  <2> QED  BY <1>1, <1>2, <1>4, <2>1, IdleTells, StepKeepsBooks
<1>5. ASSUME NEW rq \in ReadsOf("READ_CURRENT"), NEW id \in AttemptIds,
             tx' = [tx EXCEPT ![c].pc = "peeked",
                              ![c].request = [rq EXCEPT !.command.attempt = id]]
      PROVE  BooksInv'
  <2> DEFINE asked == [rq EXCEPT !.command.attempt = id]
             t == [tx[c] EXCEPT !.pc = "peeked", !.request = asked]
  <2>1. tx' = [tx EXCEPT ![c] = t]
    BY <1>5
  <2>2. rq \in [key : {None}, command : Reads]
    BY RequestsTyped
  <2>3. asked.key = None
    BY <2>2
  <2> HIDE DEF asked
  <2>4. /\ t.pc = "peeked" /\ t.draft = tx[c].draft /\ t.request = asked
        /\ t.sampledAt = tx[c].sampledAt
    BY <1>2 DEF Transactions
  <2> HIDE DEF t
  <2>5. tx'[c] = t
    BY <1>2, <2>1
  <2>6. TxKept(c)'
    BY <1>2, <2>3, <2>4, <2>5, MoveTells DEF Drafting
  <2> QED  BY <1>1, <2>1, <2>6, StepKeepsBooks
<1> QED  BY <1>3, <1>4, <1>5

\* A step that drafts keeps the books if its transaction does.
LEMMA DraftBooks ==
  ASSUME BooksInv, IInv', NEW c \in Conns, NEW pc, NEW rq, NEW L, NEW answer,
         Draft(c, pc, rq, L, answer), TxKept(c)'
  PROVE  BooksInv'
  BY DraftShape, StepKeepsBooks DEF BooksInv

LEMMA CheckBooks ==
  ASSUME BooksInv, NEW c \in Conns, CheckSession(c)
  PROVE  BooksInv'
<1>1. tx[c].pc = "locked" /\ tx[c].pc \notin Unlocked /\ IInv'
  BY CheckKeepsIInv DEF CheckSession, At, Unlocked, BooksInv
<1>2. CASE GoTo(c, "admitted") /\ Keep
  <2>1. "admitted" \notin Drafting /\ tx[c].pc \notin {"writing", "answered"}
    BY <1>1 DEF Drafting
  <2> QED  BY <1>1, <1>2, <2>1, GoToTells, StepKeepsBooks
<1>3. CASE Reject(c, NoRequest, Committed(c), "SESSION_EXPIRED", NoAttempt)
  <2>1. TxKept(c)'
    BY <1>1, <1>3, RejectTells
  <2> QED  BY <1>1, <1>3, <2>1, DraftBooks DEF Reject, Answer
<1> QED  BY <1>2, <1>3 DEF CheckSession

LEMMA ReplayBooks ==
  ASSUME BooksInv, NEW c \in Conns, ReplayReceipt(c)
  PROVE  BooksInv'
<1>1. tx[c].pc \notin Unlocked /\ IInv'
  BY ReplayKeepsIInv DEF ReplayReceipt, At, Unlocked, BooksInv
<1>2. PICK rq \in Mutations :
        /\ Prior(c, rq) # NoReceipt
        /\ \/ /\ Prior(c, rq).command = rq.command
              /\ Answer(c, rq, expireIfClosed(Committed(c), Prior(c, rq).attempt,
                                              now),
                        TRUE, Prior(c, rq).outcome, Prior(c, rq).attempt)
           \/ Reject(c, rq, Committed(c), "IDEMPOTENCY_CONFLICT", NoAttempt)
  BY DEF ReplayReceipt, databaseNow
<1> DEFINE prior == Prior(c, rq)
           X == expireIfClosed(Committed(c), prior.attempt, now)
<1>3. rq.key \in Keys
  BY RequestsTyped
<1>4. /\ prior \in Receipts /\ prior = Committed(c).receipts[rq.key]
      /\ prior # NoReceipt
  BY <1>1, <1>2, <1>3, BooksUnderTheLock DEF Prior, Sound, Ledgers
<1> HIDE DEF prior
<1>5. prior.attempt \in AttemptIds /\ prior.outcome \in Outcomes
  BY <1>4 DEF Receipts
<1>6. prior.outcome # "PROFILE"
  BY <1>5 DEF Outcomes
<1>7. CASE /\ prior.command = rq.command
           /\ Answer(c, rq, X, TRUE, prior.outcome, prior.attempt)
  <2>1. /\ Kept(X, now) /\ CountsAll(X) /\ Quiet(Committed(c), X)
        /\ InOrder(Committed(c), X) /\ X.receipts = Committed(c).receipts
        /\ prior.attempt \notin ElapsedAttempts(X, now)
    BY <1>1, <1>5, ExpiredBooks
  <2> HIDE DEF X
  <2>2. TxKept(c)'
    BY <1>4, <1>6, <1>7, <2>1, AnswerTells
  <2> QED  BY <1>1, <1>7, <2>2, DraftBooks DEF Answer
<1>8. CASE Reject(c, rq, Committed(c), "IDEMPOTENCY_CONFLICT", NoAttempt)
  <2>1. TxKept(c)'
    BY <1>1, <1>8, RejectTells
  <2> QED  BY <1>1, <1>8, <2>1, DraftBooks DEF Reject, Answer
<1> QED  BY <1>2, <1>7, <1>8 DEF prior

\* A mutation played or started, whose receipt comes next.
LEMMA AwaitTells ==
  ASSUME BooksInv, NEW c \in Conns, NEW L, Kept(L, now), InOrder(Committed(c), L),
         NEW rq, NEW id, Exists(L, id), id \notin ElapsedAttempts(L, now),
         \A a \in AttemptIds \ {id} : Counts(L, a),
         IF rq.command.kind = "START" THEN Counts(L, id)
                                      ELSE Owed(L, id, rq.command),
         L.receipts = Committed(c).receipts,
         Acted(Committed(c), L, id, committedOutcome(rq.command)),
         AwaitReceipt(c, rq, L, id)
  PROVE  TxKept(c)'
<1> DEFINE answer == [ok |-> TRUE, attempt |-> id,
                      code |-> committedOutcome(rq.command)]
<1>1. /\ tx'[c].pc = "writing" /\ tx'[c].request = rq /\ tx'[c].draft = L
      /\ tx'[c].sampledAt = now /\ tx'[c].answer = answer
      /\ Committed(c)' = Committed(c) /\ now' = now
  BY DraftShape DEF AwaitReceipt, BooksInv
<1>2. /\ answer.ok /\ answer.code = committedOutcome(rq.command)
      /\ answer.attempt = id
  OBVIOUS
<1> HIDE DEF answer
<1>3. now <= now
  BY DEF BooksInv, IInv, TypeOK
<1>4. Promised(c)'
  BY <1>1, <1>2 DEF Promised, ShowsNoElapsed
<1> QED  BY <1>1, <1>3, <1>4 DEF TxKept, Drafting

LEMMA StartBooks ==
  ASSUME BooksInv, NEW c \in Conns, StartAttempt(c)
  PROVE  BooksInv'
<1> DEFINE L == Committed(c)
<1>1. tx[c].pc \notin Unlocked /\ IInv'
  BY StartKeepsIInv DEF StartAttempt, At, Unlocked, BooksInv
<1>2. PICK rq \in Mutations :
        /\ rq.command.kind = "START"
        /\ \/ Reject(c, rq, L, "NO_CASE", NoAttempt)
           \/ \E slot \in currentRevision(now) :
              \E id \in startedIds(L, slot, UnusedIds) :
                AwaitReceipt(c, rq, openAttempt(L, id, slot, now), id)
  BY DEF StartAttempt, databaseNow
<1>3. /\ now \in Nat /\ Sound(L) /\ Kept(L, now) /\ CountsAll(L)
  BY <1>1, BooksUnderTheLock
<1>4. CASE Reject(c, rq, L, "NO_CASE", NoAttempt)
  <2>1. TxKept(c)'
    BY <1>1, <1>4, RejectTells
  <2> QED  BY <1>1, <1>4, <2>1, DraftBooks DEF Reject, Answer
<1>5. ASSUME NEW slot \in currentRevision(now),
             NEW id \in startedIds(L, slot, UnusedIds),
             AwaitReceipt(c, rq, openAttempt(L, id, slot, now), id)
      PROVE  BooksInv'
  <2> DEFINE O == openAttempt(L, id, slot, now)
  <2>1. slot \in Slots /\ OpensAt(slot) <= now /\ now < ClosesAt(slot)
    BY LedgerAssumption DEF currentRevision
  <2>2. \A a \in UnusedIds : a \in AttemptIds /\ ~Exists(L, a)
    <3>1. tx[c].guest \in Guests
      BY <1>1, UnderTheLock DEF BooksInv
    <3> QED  BY <3>1 DEF UnusedIds, Committed
  <2>3. /\ id \in AttemptIds /\ Kept(O, now) /\ Exists(O, id)
        /\ O.attempts[id].slot = slot
        /\ \A a \in AttemptIds \ {id} : O.attempts[a] = L.attempts[a]
        /\ Exists(L, id) => O = L
        /\ ~Exists(L, id) =>
             /\ AttemptsOf(L, slot) = {} /\ L.attempts[id].state = "NONE"
             /\ O.attempts[id].state = "ACTIVE" /\ O.attempts[id].version = 0
        /\ O.guesses = L.guesses /\ O.receipts = L.receipts
        /\ O.finals = L.finals /\ O.board = L.board
    BY <1>3, <2>1, <2>2, OpenKept
  <2>4. \A a \in AttemptIds : Counts(O, a)
    <3>1. \A a \in AttemptIds : Counts(L, a)
      BY <1>3 DEF CountsAll
    <3> QED  BY <1>3, <2>1, <2>2, <3>1, OpenCounts
  <2>5. AwaitReceipt(c, rq, O, id)
    BY <1>5
  <2> HIDE DEF O
  <2>6. id \notin ElapsedAttempts(O, now)
    <3>1. ~(now >= ClosesAt(slot))
      BY <1>3, <2>1, Basics
    <3> QED  BY <2>3, <3>1 DEF ElapsedAttempts
  <2>7. InOrder(L, O)
    <3>1. \A a \in AttemptIds : Exists(L, a) => O.attempts[a] = L.attempts[a]
      BY <2>3
    <3>2. \A a \in AttemptIds : GuessesOf(O, a) = GuessesOf(L, a)
      BY <2>3 DEF GuessesOf
    <3> QED  BY <1>3, <3>1, <3>2, Times DEF InOrder
  <2>8. Acted(L, O, id, committedOutcome(rq.command))
    <3>1. committedOutcome(rq.command) = "STARTED"
      BY <1>2 DEF committedOutcome
    <3>2. Begun(L, O, id)
      BY <2>3 DEF Begun, OthersUntouched, GuessesOf, EntriesOf
    <3> QED  BY <3>1, <3>2 DEF Acted
  <2>9. TxKept(c)'
    BY <1>2, <2>3, <2>4, <2>5, <2>6, <2>7, <2>8, AwaitTells
  <2> QED  BY <1>1, <2>5, <2>9, DraftBooks DEF AwaitReceipt
<1> QED  BY <1>2, <1>4, <1>5

\* A command that is played keeps the books but for its receipt.
LEMMA PlayBooks ==
  ASSUME NEW X, now \in Nat, Kept(X, now), CountsAll(X), NEW command \in Commands,
         command.kind # "START",
         command.attempt \in AttemptIds, rejection(X, command) = "NONE",
         X.attempts[command.attempt].state = "ACTIVE",
         now < ClosesAt(X.attempts[command.attempt].slot)
  PROVE  LET id == command.attempt
             P == playCommand(X, command, now)
         IN /\ Sound(P) /\ Kept(P, now) /\ InOrder(X, P)
            /\ Exists(P, id) /\ id \notin ElapsedAttempts(P, now)
            /\ \A a \in AttemptIds \ {id} : Counts(P, a)
            /\ Owed(P, id, command)
            /\ P.receipts = X.receipts
            /\ Acted(X, P, id, committedOutcome(command))
<1> DEFINE id == command.attempt
           row == X.attempts[id]
           next == transition(snapshot(row), command).attempt
           P == playCommand(X, command, now)
<1>1. Sound(X) /\ Sound(P)
  BY PlaySound DEF Kept
<1>2. Kept(P, now)
  BY PlayKept
<1>3. /\ Moved(X, P, id, next, now)
      /\ Follows(next.state, committedOutcome(command))
  BY PlayMoves
<1>4. committedOutcome(command) \in {"CORRECT", "WRONG", "REVEALED", "GIVEN_UP"}
  BY DEF committedOutcome
<1>5. next.state # "EXPIRED"
  BY <1>3, <1>4 DEF Follows
<1>6. command.version = row.version
  BY DEF rejection
<1> HIDE DEF P, next
<1>7. InOrder(X, P)
  BY <1>1, <1>3, MovedInOrder
<1>8. Exists(P, id) /\ P.attempts[id].slot = row.slot
  <2>1. Exists(X, id)
    BY DEF Exists
  <2> QED  BY <1>1, <1>3, <2>1, MovedStaysPut
<1>9. id \notin ElapsedAttempts(P, now)
  <2>1. row.slot \in Slots
    BY <1>1 DEF Sound
  <2> QED  BY <1>8, <2>1, Basics DEF ElapsedAttempts
<1>10. \A a \in AttemptIds : Counts(X, a)
  BY DEF CountsAll
<1>11. \A a \in AttemptIds \ {id} : Counts(P, a)
  BY <1>1, <1>3, <1>10, MovedOwes
<1>12. Owed(P, id, command)
  <2>1. \A other : next.state # "EXPIRED" /\ other.version = row.version
                     => Owed(P, id, other)
    BY <1>1, <1>3, <1>10, MovedOwes
  <2> QED  BY <1>6, <1>5, <2>1
<1>13. P.receipts = X.receipts
  BY <1>3 DEF Moved
<1>14. Acted(X, P, id, committedOutcome(command))
  <2>1. Played(X, P, id, committedOutcome(command))
    BY <1>3, MovedPlays
  <2> QED  BY <1>4, <2>1 DEF Acted
<1> QED
  BY <1>1, <1>2, <1>7, <1>8, <1>9, <1>11, <1>12, <1>13, <1>14 DEF P

LEMMA ExecuteBooks ==
  ASSUME BooksInv, NEW c \in Conns, ExecuteCommand(c)
  PROVE  BooksInv'
<1>1. tx[c].pc \notin Unlocked /\ IInv'
  BY ExecuteKeepsIInv DEF ExecuteCommand, At, Unlocked, BooksInv
<1>2. PICK rq \in Mutations :
        LET id == rq.command.attempt
            X == expireIfClosed(Committed(c), id, now)
            code == rejection(X, rq.command)
        IN /\ rq.command.kind # "START"
           /\ \/ Reject(c, rq, Committed(c), "UNKNOWN_ATTEMPT", NoAttempt)
              \/ Exists(Committed(c), id) /\ Reject(c, rq, X, code, id)
              \/ /\ Exists(Committed(c), id) /\ code = "NONE"
                 /\ AwaitReceipt(c, rq, playCommand(X, rq.command, now), id)
  BY DEF ExecuteCommand, databaseNow
<1> DEFINE id == rq.command.attempt
           L == Committed(c)
           X == expireIfClosed(L, id, now)
           code == rejection(X, rq.command)
<1>3. rq.command \in Commands
  BY RequestsTyped
<1>4. /\ now \in Nat /\ Sound(L) /\ Kept(L, now) /\ CountsAll(L)
  BY <1>1, BooksUnderTheLock
<1>5. CASE Reject(c, rq, L, "UNKNOWN_ATTEMPT", NoAttempt)
  <2>1. TxKept(c)'
    BY <1>1, <1>5, RejectTells
  <2> QED  BY <1>1, <1>5, <2>1, DraftBooks DEF Reject, Answer
<1>6. ASSUME Exists(L, id)
      PROVE  /\ id \in AttemptIds /\ Sound(X) /\ Kept(X, now) /\ CountsAll(X)
             /\ Quiet(L, X) /\ InOrder(L, X) /\ Grows(L, X)
             /\ id \notin ElapsedAttempts(X, now)
             /\ X.attempts[id].state = "ACTIVE" =>
                  X = L /\ now < ClosesAt(X.attempts[id].slot)
  <2>1. id \in AttemptIds
    BY <1>6 DEF Exists
  <2> QED  BY <1>1, <2>1, ExpiredBooks
<1>7. CASE Exists(L, id) /\ Reject(c, rq, X, code, id)
  <2>1. code # "PROFILE"
    <3>1. \A a : transition(a, rq.command).reason
                   \in {"NONE", "TERMINAL_ATTEMPT", "EVIDENCE_LIMIT"}
      BY DEF transition, applyGuess, revealEvidence, giveUp, Close, Accepted,
             Rejected
    <3> QED  BY <3>1 DEF rejection
  <2>2. Answer(c, rq, X, FALSE, code, id)
    BY <1>7 DEF Reject
  <2> HIDE DEF X, code
  <2>3. TxKept(c)'
    BY <1>6, <1>7, <2>1, <2>2, AnswerTells
  <2> QED  BY <1>1, <2>2, <2>3, DraftBooks DEF Answer
<1>8. CASE /\ Exists(L, id) /\ code = "NONE"
           /\ AwaitReceipt(c, rq, playCommand(X, rq.command, now), id)
  <2> DEFINE P == playCommand(X, rq.command, now)
  <2>1. X.attempts[id].state = "ACTIVE"
    BY <1>8, RejectionCodes
  <2>2. AwaitReceipt(c, rq, P, id) /\ rejection(X, rq.command) = "NONE"
    BY <1>8
  <2> HIDE DEF X, code
  <2>3. now < ClosesAt(X.attempts[id].slot) /\ X = L
    BY <1>6, <1>8, <2>1
  <2>4. /\ Sound(P) /\ Kept(P, now) /\ InOrder(X, P)
        /\ Exists(P, id) /\ id \notin ElapsedAttempts(P, now)
        /\ \A a \in AttemptIds \ {id} : Counts(P, a)
        /\ Owed(P, id, rq.command) /\ P.receipts = X.receipts
        /\ Acted(X, P, id, committedOutcome(rq.command))
    BY <1>2, <1>3, <1>4, <1>6, <1>8, <2>1, <2>2, <2>3, PlayBooks
  <2> HIDE DEF P
  <2>5. InOrder(L, P)
    BY <1>4, <1>6, <1>8, <2>4, OrderTransitive
  <2>6. TxKept(c)'
    BY <1>2, <2>2, <2>3, <2>4, <2>5, AwaitTells
  <2> QED  BY <1>1, <2>2, <2>6, DraftBooks DEF AwaitReceipt
<1> QED  BY <1>2, <1>5, <1>7, <1>8

LEMMA ReadBooks ==
  ASSUME BooksInv, NEW c \in Conns, ReadAttempt(c)
  PROVE  BooksInv'
<1>1. /\ tx[c].pc \notin Unlocked /\ IInv' /\ tx[c].pc \notin {"writing", "answered"}
  BY ReadKeepsIInv DEF ReadAttempt, At, Unlocked, BooksInv
<1>2. PICK rq \in ReadsOf("READ_ATTEMPT") \cup {tx[c].request} :
        \/ /\ Exists(Committed(c), rq.command.attempt)
           /\ Answer(c, rq, expireIfClosed(Committed(c), rq.command.attempt, now),
                     TRUE, "VIEW", rq.command.attempt)
        \/ Reject(c, rq, Committed(c), "UNKNOWN_ATTEMPT", NoAttempt)
  BY DEF ReadAttempt, databaseNow
<1>3. rq.key = None
  <2>1. tx[c].request.key = None
    BY <1>1 DEF BooksInv, TxKept
  <2>2. \A read \in ReadsOf("READ_ATTEMPT") : read.key = None
    BY RequestsTyped
  <2> QED  BY <2>1, <2>2
<1> DEFINE id == rq.command.attempt
           X == expireIfClosed(Committed(c), id, now)
<1>4. CASE Exists(Committed(c), id) /\ Answer(c, rq, X, TRUE, "VIEW", id)
  <2>1. id \in AttemptIds
    BY <1>4 DEF Exists
  <2>2. /\ Kept(X, now) /\ CountsAll(X) /\ Quiet(Committed(c), X)
        /\ InOrder(Committed(c), X) /\ id \notin ElapsedAttempts(X, now)
    BY <1>1, <2>1, ExpiredBooks
  <2> HIDE DEF X
  <2>3. TxKept(c)'
    BY <1>3, <1>4, <2>2, AnswerTells
  <2> QED  BY <1>1, <1>4, <2>3, DraftBooks DEF Answer
<1>5. CASE Reject(c, rq, Committed(c), "UNKNOWN_ATTEMPT", NoAttempt)
  <2>1. TxKept(c)'
    BY <1>1, <1>5, RejectTells
  <2> QED  BY <1>1, <1>5, <2>1, DraftBooks DEF Reject, Answer
<1> QED  BY <1>2, <1>4, <1>5

LEMMA ProfileBooks ==
  ASSUME BooksInv, NEW c \in Conns, ReadProfile(c)
  PROVE  BooksInv'
<1>1. tx[c].pc \notin Unlocked /\ IInv'
  BY ProfileKeepsIInv DEF ReadProfile, At, Unlocked, BooksInv
<1>2. PICK rq \in ReadsOf("READ_PROFILE") :
        Draft(c, "expiring", rq, Committed(c), NoAnswer)
  BY DEF ReadProfile
<1>3. rq.key = None
  BY RequestsTyped
<1>4. /\ tx'[c].pc = "expiring" /\ tx'[c].request = rq
      /\ tx'[c].draft = Committed(c) /\ tx'[c].sampledAt = now
      /\ Committed(c)' = Committed(c) /\ now' = now
  BY <1>2, DraftShape DEF BooksInv
<1>5. /\ now <= now /\ Kept(Committed(c), now) /\ CountsAll(Committed(c))
      /\ Quiet(Committed(c), Committed(c)) /\ InOrder(Committed(c), Committed(c))
  BY <1>1, BooksUnderTheLock
<1>6. TxKept(c)'
  BY <1>3, <1>4, <1>5 DEF TxKept, Drafting
<1> QED  BY <1>1, <1>2, <1>6, DraftBooks

LEMMA ExpireNextBooks ==
  ASSUME BooksInv, NEW c \in Conns, ExpireNext(c)
  PROVE  BooksInv'
<1> DEFINE L == tx[c].draft
           u == tx[c].sampledAt
<1>1. tx[c].pc = "expiring" /\ Keep /\ IInv'
  BY ExpireNextKeepsIInv DEF ExpireNext, At, BooksInv
<1>2. /\ tx[c] \in Transactions /\ tx \in [Conns -> Transactions]
      /\ now' = now /\ now \in Nat /\ Committed(c) = ledger[tx[c].guest]
      /\ ledger' = ledger
  BY <1>1 DEF BooksInv, IInv, TypeOK, Keep, Committed
<1>3. /\ u <= now /\ u \in Nat /\ Kept(L, now) /\ CountsAll(L) /\ Sound(L)
      /\ Quiet(Committed(c), L) /\ InOrder(Committed(c), L)
      /\ Grows(Committed(c), L) /\ tx[c].request.key = None
  BY <1>1, <1>2 DEF BooksInv, TxKept, Kept, Transactions, Drafting, IInv, TxSound,
                    Extends
<1>4. Sound(Committed(c))
  BY <1>1, BooksUnderTheLock DEF Unlocked
<1>5. ASSUME NEW id \in AttemptIds,
             tx' = [tx EXCEPT ![c].draft = expireIfClosed(L, id, u)]
      PROVE  BooksInv'
  <2> DEFINE X == expireIfClosed(L, id, u)
             t == [tx[c] EXCEPT !.draft = X]
  <2>1. Kept(X, now)
    BY <1>2, <1>3, ExpireKept
  <2>2. Quiet(L, X) /\ InOrder(L, X)
    BY <1>2, <1>3, ExpireQuiet
  <2>3. CountsAll(X)
    <3>1. \A a \in AttemptIds : Counts(L, a)
      BY <1>3 DEF CountsAll
    <3>2. \A a \in AttemptIds : Counts(X, a)
      BY <1>2, <1>3, <3>1, ExpireQuiet
    <3> QED  BY <3>2 DEF CountsAll
  <2>4. Sound(X)
    BY <2>1 DEF Kept
  <2>5. tx' = [tx EXCEPT ![c] = t]
    BY <1>5
  <2> HIDE DEF X
  <2>6. Quiet(Committed(c), X) /\ InOrder(Committed(c), X)
    <3>1. Countable(Committed(c))
      BY <1>1, BooksUnderTheLock DEF Unlocked, Kept
    <3> QED  BY <1>3, <1>4, <2>2, <2>4, <3>1, QuietTransitive, OrderTransitive
  <2>7. /\ t.pc = "expiring" /\ t.draft = X /\ t.sampledAt = u
        /\ t.request = tx[c].request /\ t.guest = tx[c].guest
    BY <1>1, <1>2 DEF Transactions
  <2> HIDE DEF t
  <2>8. tx'[c] = t
    BY <1>2, <2>5
  <2>9. Committed(c)' = Committed(c)
    BY <1>2, <2>7, <2>8 DEF Committed
  <2>10. TxKept(c)'
    BY <1>2, <1>3, <2>1, <2>3, <2>6, <2>7, <2>8, <2>9 DEF TxKept, Drafting
  <2> QED  BY <1>1, <2>5, <2>10, StepKeepsBooks
<1>6. ASSUME ElapsedAttempts(L, u) = {},
             tx' = [tx EXCEPT ![c].pc = "answered",
                              ![c].answer = [ok |-> TRUE, code |-> "PROFILE",
                                             attempt |-> NoAttempt]]
      PROVE  BooksInv'
  <2> DEFINE answer == [ok |-> TRUE, code |-> "PROFILE", attempt |-> NoAttempt]
             t == [tx[c] EXCEPT !.pc = "answered", !.answer = answer]
  <2>1. tx' = [tx EXCEPT ![c] = t]
    BY <1>6
  <2>2. answer.code = "PROFILE" /\ answer.attempt = NoAttempt
    OBVIOUS
  <2> HIDE DEF answer
  <2>3. /\ t.pc = "answered" /\ t.draft = L /\ t.sampledAt = u
        /\ t.request = tx[c].request /\ t.guest = tx[c].guest /\ t.answer = answer
    BY <1>1, <1>2 DEF Transactions
  <2> HIDE DEF t
  <2>4. tx'[c] = t
    BY <1>2, <2>1
  <2>5. Committed(c)' = Committed(c)
    BY <1>2, <2>3, <2>4 DEF Committed
  <2>6. ShowsNoElapsed(c)' /\ ToldByReceipt(c)'
    BY <1>3, <1>6, <2>3, <2>4 DEF ShowsNoElapsed, ToldByReceipt
  <2>7. L.receipts = Committed(c).receipts
    BY <1>3 DEF Quiet
  <2>8. Told(c)'
    BY <1>3, <1>6, <2>3, <2>4, <2>5, <2>6, <2>7 DEF Told
  <2>9. TxKept(c)'
    BY <1>2, <1>3, <2>3, <2>4, <2>5, <2>8 DEF TxKept, Drafting
  <2> QED  BY <1>1, <2>1, <2>9, StepKeepsBooks
<1>7. \/ \E id \in ElapsedAttempts(L, u) :
           tx' = [tx EXCEPT ![c].draft = expireIfClosed(L, id, u)]
      \/ /\ ElapsedAttempts(L, u) = {}
         /\ tx' = [tx EXCEPT ![c].pc = "answered",
                             ![c].answer = [ok |-> TRUE, code |-> "PROFILE",
                                            attempt |-> NoAttempt]]
  BY DEF ExpireNext
<1>8. ElapsedAttempts(L, u) \subseteq AttemptIds
  BY DEF ElapsedAttempts
<1> QED  BY <1>5, <1>6, <1>7, <1>8

\* The receipt settles what its move owed, and answers for it.
LEMMA InsertBooks ==
  ASSUME BooksInv, NEW c \in Conns, InsertReceipt(c)
  PROVE  BooksInv'
<1> DEFINE L == tx[c].draft
           key == tx[c].request.key
           command == tx[c].request.command
           id == tx[c].answer.attempt
           I == insertReceipt(L, key, command, id, now)
           t == [tx[c] EXCEPT !.pc = "answered", !.draft = I]
<1>1. tx[c].pc = "writing" /\ Keep /\ IInv' /\ tx' = [tx EXCEPT ![c] = t]
  BY InsertKeepsIInv DEF InsertReceipt, At, BooksInv
<1>2. /\ tx[c] \in Transactions /\ tx \in [Conns -> Transactions]
      /\ now' = now /\ now \in Nat /\ ledger' = ledger
  BY <1>1 DEF BooksInv, IInv, TypeOK, Keep
<1>3. /\ tx[c].sampledAt <= now /\ Kept(L, now) /\ InOrder(Committed(c), L)
      /\ Promised(c)
  BY <1>1 DEF BooksInv, TxKept, Drafting
<1>4. /\ Grows(Committed(c), L) /\ KeyIsFree(c)
  BY <1>1 DEF BooksInv, IInv, TxSound, Extends, Drafting
<1>5. /\ key \in Keys /\ command \in Commands /\ id \in AttemptIds
      /\ L.receipts[key] = NoReceipt
  BY <1>4 DEF KeyIsFree
<1>6. /\ tx[c].answer.ok /\ tx[c].answer.code = committedOutcome(command)
      /\ Exists(L, id) /\ ShowsNoElapsed(c)
      /\ \A a \in AttemptIds \ {id} : Counts(L, a)
      /\ IF command.kind = "START" THEN Counts(L, id) ELSE Owed(L, id, command)
      /\ L.receipts = Committed(c).receipts
      /\ Acted(Committed(c), L, id, committedOutcome(command))
  BY <1>3 DEF Promised
<1>7. /\ Kept(I, now) /\ I.attempts = L.attempts /\ I.guesses = L.guesses
      /\ I.finals = L.finals /\ I.board = L.board
      /\ \A k \in Keys \ {key} : I.receipts[k] = L.receipts[k]
      /\ I.receipts[key] = [command |-> command,
                            outcome |-> committedOutcome(command), attempt |-> id,
                            version |-> L.attempts[id].version, at |-> now]
  BY <1>2, <1>3, <1>5, <1>6, ReceiptKept
<1>8. /\ I.receipts[key].command = command
      /\ I.receipts[key].outcome = committedOutcome(command)
      /\ I.receipts[key].attempt = id
  BY <1>7
<1>9. I.receipts[key] # NoReceipt
  <2>1. committedOutcome(command) # "NONE" /\ NoReceipt.outcome = "NONE"
    BY DEF committedOutcome, NoReceipt
  <2> QED  BY <1>8, <2>1
<1>10. Settled(Committed(c), I)
  <2> HIDE DEF I, L, key, command, id
  <2>1. Acted(Committed(c), I, id, committedOutcome(command))
    BY <1>6, <1>7, ActedBeside
  <2>2. Exists(I, id)
    BY <1>6, <1>7 DEF Exists
  <2>3. committedOutcome(command) \in Outcomes
    BY DEF committedOutcome, Outcomes
  <2>4. /\ Committed(c).receipts[key] = NoReceipt
        /\ \A k \in Keys \ {key} : I.receipts[k] = Committed(c).receipts[k]
    BY <1>5, <1>6, <1>7
  <2>5. Vouched(I, id, key)
    <3>1. I.receipts[key].at = now /\ Sound(I) /\ DatedBy(I, id, now)
      BY <1>5, <1>7 DEF Kept
    <3>2. I.attempts[id].updatedAt \in Nat /\ \A x \in GuessesOf(I, id) : x.at \in Nat
      BY <1>5, <3>1, Times
    <3> QED  BY <1>2, <2>2, <3>1, <3>2 DEF DatedBy, Vouched
  <2> QED
    BY <1>5, <1>8, <1>9, <2>1, <2>2, <2>3, <2>4, <2>5 DEF Settled
<1>11. CountsAll(I)
  <2>1. \A a \in AttemptIds : Counts(I, a)
    BY <1>2, <1>3, <1>5, <1>6, ReceiptCounts
  <2> QED  BY <2>1 DEF CountsAll
<1>12. Committed(c).receipts[key] = NoReceipt
  BY <1>4, <1>5 DEF Grows
<1>13. InOrder(Committed(c), I)
  BY <1>3, <1>7 DEF InOrder, GuessesOf
<1> HIDE DEF I, L, key, command, id
<1>14. /\ t.pc = "answered" /\ t.draft = I /\ t.request = tx[c].request
       /\ t.sampledAt = tx[c].sampledAt /\ t.answer = tx[c].answer
       /\ t.guest = tx[c].guest
  BY <1>2 DEF Transactions
<1> HIDE DEF t
<1>15. tx'[c] = t
  BY <1>1, <1>2
<1>16. Committed(c)' = Committed(c)
  BY <1>2, <1>14, <1>15 DEF Committed
<1>17. ShowsNoElapsed(c)'
  BY <1>6, <1>7, <1>14, <1>15 DEF ShowsNoElapsed, ElapsedAttempts, L
<1>18. ToldByReceipt(c)'
  BY <1>6, <1>8, <1>9, <1>14, <1>15 DEF ToldByReceipt, key, command, id
<1>19. tx[c].answer.code # "PROFILE"
  <2>1. committedOutcome(command) # "PROFILE"
    BY DEF committedOutcome
  <2> QED  BY <1>6, <2>1
<1>20. Told(c)'
  BY <1>9, <1>11, <1>12, <1>14, <1>15, <1>16, <1>17, <1>18, <1>19, <1>10 DEF Told
<1>21. TxKept(c)'
  BY <1>2, <1>3, <1>7, <1>13, <1>14, <1>15, <1>16, <1>20 DEF TxKept, Drafting
<1> QED  BY <1>1, <1>21, StepKeepsBooks

\* Commit makes a draft's books the guest's; no other draft is of this guest.
LEMMA CommitBooks ==
  ASSUME BooksInv, NEW c \in Conns, Commit(c)
  PROVE  BooksInv'
<1> DEFINE g == tx[c].guest
<1>1. /\ tx[c].pc = "answered" /\ ledger' = [ledger EXCEPT ![g] = tx[c].draft]
      /\ tx' = [tx EXCEPT ![c] = Idle] /\ now' = now /\ IInv'
  BY CommitKeepsIInv DEF Commit, At, BooksInv
<1>2. /\ tx \in [Conns -> Transactions] /\ ledger \in [Guests -> Ledgers]
      /\ g \in Guests /\ now \in Nat
  BY <1>1 DEF BooksInv, IInv, TypeOK, TxSound
<1>3. tx'[c] = Idle /\ \A d \in Conns \ {c} : tx'[d] = tx[d]
  BY <1>1, <1>2
<1>4. /\ ledger'[g] = tx[c].draft
      /\ \A h \in Guests \ {g} : ledger'[h] = ledger[h]
  BY <1>1, <1>2
<1>5. Kept(tx[c].draft, now) /\ CountsAll(tx[c].draft)
  BY <1>1 DEF BooksInv, TxKept, Told
<1>6. BooksKept'
  BY <1>1, <1>2, <1>4, <1>5 DEF BooksInv, BooksKept
<1>7. TxKept(c)'
  BY <1>1, <1>2, <1>3, IdleTells
<1>8. ASSUME NEW d \in Conns \ {c} PROVE TxKept(d)'
  <2>1. ASSUME tx[d].pc \in Drafting PROVE Committed(d)' = Committed(d)
    <3>1. tx[d].guest \in Guests /\ tx[d].pc \notin Unlocked
      BY <2>1 DEF BooksInv, IInv, TxSound, Drafting, Unlocked
    <3>2. tx[c].pc \notin Unlocked
      BY <1>1 DEF Unlocked
    <3>3. tx[d].guest # g
      BY <1>2, <3>1, <3>2, OneDraftPerGuest DEF BooksInv, IInv
    <3> QED  BY <1>3, <1>4, <3>1, <3>3 DEF Committed
  <2> QED  BY <1>1, <1>2, <1>3, <2>1, TxUndisturbed
<1> QED  BY <1>1, <1>6, <1>7, <1>8 DEF BooksInv

LEMMA AbortBooks ==
  ASSUME BooksInv, NEW c \in Conns, Abort(c)
  PROVE  BooksInv'
<1>1. tx' = [tx EXCEPT ![c] = Idle] /\ Keep /\ IInv'
  BY AbortKeepsIInv DEF Abort, BooksInv
<1>2. tx \in [Conns -> Transactions] /\ now' = now /\ now \in Nat
  BY <1>1 DEF BooksInv, IInv, TypeOK, Keep
<1>3. tx'[c] = Idle
  BY <1>1, <1>2
<1>4. TxKept(c)'
  BY <1>2, <1>3, IdleTells
<1> QED  BY <1>1, <1>4, StepKeepsBooks

LEMMA TickBooks ==
  ASSUME BooksInv, Tick \/ UNCHANGED vars
  PROVE  BooksInv'
<1>1. UNCHANGED <<ledger, tx>> /\ IInv'
  BY TickKeepsIInv DEF Tick, vars, BooksInv
<1>2. now \in Nat /\ now' \in Nat /\ now <= now'
  BY DEF Tick, vars, BooksInv, IInv, TypeOK
<1>3. \A c \in Conns : tx'[c] = tx[c] /\ Committed(c)' = Committed(c)
  BY <1>1 DEF Committed
<1>4. \A c \in Conns : TxKept(c)'
  BY <1>2, <1>3, TxUndisturbed
<1>5. ASSUME NEW g \in Guests PROVE Kept(ledger'[g], now') /\ CountsAll(ledger'[g])
  <2>1. Kept(ledger[g], now) /\ CountsAll(ledger[g])
    BY DEF BooksInv, BooksKept
  <2> QED  BY <1>1, <1>2, <2>1, KeptLater
<1>6. BooksKept'
  BY <1>5 DEF BooksKept
<1> QED  BY <1>1, <1>4, <1>6 DEF BooksInv

LEMMA NextBooks == BooksInv /\ [Next]_vars => BooksInv'
<1> SUFFICES ASSUME BooksInv, [Next]_vars PROVE BooksInv'
  OBVIOUS
<1>1. ASSUME NEW c \in Conns, Advance(c) PROVE BooksInv'
  <2>1. CASE PeekCurrent(c)  BY <2>1, PeekBooks
  <2>2. CASE Lock(c)  BY <2>2, LockBooks
  <2>3. CASE CheckSession(c)  BY <2>3, CheckBooks
  <2>4. CASE ReplayReceipt(c)  BY <2>4, ReplayBooks
  <2>5. CASE StartAttempt(c)  BY <2>5, StartBooks
  <2>6. CASE ExecuteCommand(c)  BY <2>6, ExecuteBooks
  <2>7. CASE ReadAttempt(c)  BY <2>7, ReadBooks
  <2>8. CASE ReadProfile(c)  BY <2>8, ProfileBooks
  <2>9. CASE ExpireNext(c)  BY <2>9, ExpireNextBooks
  <2>10. CASE InsertReceipt(c)  BY <2>10, InsertBooks
  <2>11. CASE Commit(c)  BY <2>11, CommitBooks
  <2> QED
    BY <1>1, <2>1, <2>2, <2>3, <2>4, <2>5, <2>6, <2>7, <2>8, <2>9, <2>10, <2>11
    DEF Advance
<1>2. ASSUME NEW c \in Conns, Abort(c) PROVE BooksInv'
  BY <1>2, AbortBooks
<1>3. ASSUME NEW c \in Conns, NEW g \in Guests, Begin(c, g) PROVE BooksInv'
  BY <1>3, BeginBooks
<1>4. CASE Tick \/ UNCHANGED vars
  BY <1>4, TickBooks
<1> QED  BY <1>1, <1>2, <1>3, <1>4 DEF Next

\* The books of every guest add up, in the tables and in every draft, at every
\* moment, and every answer is what its receipt says.
THEOREM GameplayBooksInvariant == Spec => []BooksInv
  BY InitBooks, NextBooks, PTL DEF Spec

\* Every ledger, committed or drafted, is kept.
LEMMA AllBooksKept ==
  ASSUME BooksInv, NEW L \in Books
  PROVE  Kept(L, now) /\ now \in Nat
  BY DEF BooksInv, BooksKept, TxKept, Books, Drafts, IInv, TypeOK

\* No statement runs into a CHECK or UNIQUE constraint of the schema, for any
\* numbers of guests, connections, keys, slots and evidence levels.
THEOREM GameplayNoConstraintFails == Spec => []NoConstraintFails
<1>1. BooksInv => NoConstraintFails
  BY AllBooksKept, KeptFits DEF NoConstraintFails
<1> QED  BY <1>1, GameplayBooksInvariant, PTL

\* What finalize accumulates by increments in regional_knowledge is the prior
\* plus the contributions, each counted once, whatever the number of attempts
\* and of regions.
THEOREM GameplayKnowledgeIsTheSum == Spec => []KnowledgeIsTheSum
<1>1. ASSUME BooksInv, NEW L \in Books PROVE Known(L)
  BY <1>1, AllBooksKept DEF Kept
<1>2. BooksInv => KnowledgeIsTheSum
  BY <1>1 DEF KnowledgeIsTheSum, Known, InRegion, AlphaSum, BetaSum
<1> QED  BY <1>2, GameplayBooksInvariant, PTL

\* However often and concurrently a slot is started, a guest has one attempt
\* in it, and every receipt names an attempt that exists.
THEOREM GameplayOneAttemptPerSlot == Spec => []OneAttemptPerSlot
<1>1. ASSUME BooksInv, NEW L \in Books, NEW s \in Slots
      PROVE  Cardinality(AttemptsOf(L, s)) <= 1
  <2>1. \A a, b \in AttemptsOf(L, s) : a = b
    BY <1>1, AllBooksKept DEF Kept, OnePerSlot, AttemptsOf, Exists
  <2>2. CASE AttemptsOf(L, s) = {}
    BY <2>2, FS_EmptySet
  <2>3. CASE AttemptsOf(L, s) # {}
    <3>1. PICK a : AttemptsOf(L, s) = {a}
      BY <2>1, <2>3
    <3> QED  BY <3>1, FS_Singleton
  <2> QED  BY <2>2, <2>3
<1>2. ASSUME BooksInv, NEW L \in Books
      PROVE  \A k \in Keys :
               L.receipts[k] # NoReceipt => Exists(L, L.receipts[k].attempt)
  BY <1>2, AllBooksKept DEF Kept, NamesExist
<1>3. BooksInv => OneAttemptPerSlot
  BY <1>1, <1>2 DEF OneAttemptPerSlot
<1> QED  BY <1>3, GameplayBooksInvariant, PTL

\* An attempt is finalized once, with its contributions and its leaderboard
\* entry, by whichever transaction finds it over.
THEOREM GameplayFinalizedOnce == Spec => []FinalizedOnce
<1>1. BooksInv => FinalizedOnce
  BY AllBooksKept DEF FinalizedOnce, Kept
<1> QED  BY <1>1, GameplayBooksInvariant, PTL

\* Nothing happens to an attempt outside its window, and the days a guest
\* played are the slots guessed at.
THEOREM GameplayEffectsInsideWindow == Spec => []EffectsInsideWindow
<1>1. BooksInv => EffectsInsideWindow
  BY AllBooksKept DEF EffectsInsideWindow, Kept, DaysPlayed
<1> QED  BY <1>1, GameplayBooksInvariant, PTL

\* Attempts, guesses, receipts and answers tell one story.
THEOREM GameplayBookMatchesReceipts == Spec => []BookMatchesReceipts
<1>1. BooksInv => GuessesMatchAttempts
  BY AllBooksKept DEF GuessesMatchAttempts, Kept
<1>2. BooksInv => VersionsMatchReceipts
  BY DEF VersionsMatchReceipts, BooksInv, BooksKept, CountsAll, Counts
<1>3. BooksInv => AnswersMatchReceipts
  BY DEF AnswersMatchReceipts, BooksInv, TxKept, Told, ToldByReceipt, At
<1>4. BooksInv => BookMatchesReceipts
  BY <1>1, <1>2, <1>3 DEF BookMatchesReceipts
<1> QED  BY <1>4, GameplayBooksInvariant, PTL

\* Nobody is shown an attempt as open that was over when the clock was read.
THEOREM GameplayNoElapsedAttemptShownOpen == Spec => []NoElapsedAttemptShownOpen
<1>1. BooksInv => NoElapsedAttemptShownOpen
  BY DEF NoElapsedAttemptShownOpen, BooksInv, TxKept, Told, ShowsNoElapsed, At
<1> QED  BY <1>1, GameplayBooksInvariant, PTL

\* Rejections, replays and reads change nothing but what time has closed.
THEOREM GameplayOnlyNewReceiptsPlay == Spec => []OnlyNewReceiptsPlay
<1>1. BooksInv => OnlyNewReceiptsPlay
  <2>1. ASSUME BooksInv, NEW c \in Conns, tx[c].pc = "answered",
               tx[c].draft.receipts = Committed(c).receipts
        PROVE  Quiet(Committed(c), tx[c].draft)
    BY <2>1 DEF BooksInv, TxKept, Told
  <2> QED  BY <2>1, QuietExpires DEF OnlyNewReceiptsPlay, Quiet, At
<1> QED  BY <1>1, GameplayBooksInvariant, PTL

\* Every step leaves the rows of each guest in the order of their dates.
LEMMA StepsInOrder ==
  ASSUME BooksInv, [Next]_vars, NEW g \in Guests
  PROVE  InOrder(ledger[g], ledger'[g])
<1>1. Sound(ledger[g])
  BY DEF BooksInv, IInv, BooksSound
<1>2. CASE ledger' = ledger
  BY <1>1, <1>2, OrderReflexive
<1>3. ASSUME NEW c \in Conns, Commit(c) PROVE InOrder(ledger[g], ledger'[g])
  <2>1. /\ tx[c].pc = "answered"
        /\ ledger' = [ledger EXCEPT ![tx[c].guest] = tx[c].draft]
    BY <1>3 DEF Commit, At
  <2>2. ledger \in [Guests -> Ledgers] /\ tx[c].guest \in Guests
    BY <2>1 DEF BooksInv, IInv, TypeOK, TxSound
  <2>3. CASE tx[c].guest = g
    <3>1. ledger'[g] = tx[c].draft /\ Committed(c) = ledger[g]
      BY <2>1, <2>2, <2>3 DEF Committed
    <3> QED  BY <2>1, <3>1 DEF BooksInv, TxKept, Drafting
  <2>4. CASE tx[c].guest # g
    <3>1. ledger'[g] = ledger[g]
      BY <2>1, <2>2, <2>4
    <3> QED  BY <1>1, <3>1, OrderReflexive
  <2> QED  BY <2>3, <2>4
<1> QED  BY <1>2, <1>3, OnlyCommitsWrite

\* A transaction that waited for its guest's lock does not write the past.
THEOREM GameplayCommitsInTimeOrder == Spec => CommitsInTimeOrder
<1> DEFINE A == \A g \in Guests, a \in AttemptIds :
                  Exists(ledger[g], a) =>
                    /\ ledger[g].attempts[a].updatedAt
                         <= ledger'[g].attempts[a].updatedAt
                    /\ \A x \in GuessesOf(ledger'[g], a)
                                \ GuessesOf(ledger[g], a) :
                         x.at >= ledger[g].attempts[a].updatedAt
<1>1. BooksInv /\ [Next]_vars => A
  BY StepsInOrder DEF InOrder
<1>2. BooksInv /\ [Next]_vars => [A]_vars
  BY <1>1
<1> QED  BY GameplayBooksInvariant, <1>2, PTL DEF Spec, CommitsInTimeOrder

\* Expiries are no play.
LEMMA QuietPlaysNothing ==
  ASSUME NEW L, NEW D, Quiet(L, D)
  PROVE  PlayedBetween(L, D) = {}
  BY QuietExpires DEF Quiet, PlayedBetween, GuessesOf, EntriesOf

\* A command plays on no attempt but its own.
LEMMA SettledPlaysOne ==
  ASSUME NEW L, NEW D, Settled(L, D), NEW a \in PlayedBetween(L, D)
  PROVE  \E k \in Keys :
           /\ L.receipts[k] = NoReceipt /\ D.receipts[k] # NoReceipt
           /\ D.receipts[k].attempt = a /\ Vouched(D, a, k)
<1>1. PICK key \in Keys, id \in AttemptIds, outcome \in Outcomes :
        /\ L.receipts[key] = NoReceipt /\ D.receipts[key] # NoReceipt
        /\ D.receipts[key].attempt = id
        /\ Acted(L, D, id, outcome) /\ Vouched(D, id, key)
  BY DEF Settled
<1>2. \A b \in AttemptIds \ {id} :
        /\ D.attempts[b] = L.attempts[b]
        /\ GuessesOf(D, b) = GuessesOf(L, b) /\ EntriesOf(D, b) = EntriesOf(L, b)
  <2>1. CASE outcome = "STARTED"
    BY <1>1, <2>1 DEF Acted, Begun, OthersUntouched
  <2>2. CASE outcome # "STARTED"
    BY <1>1, <2>2 DEF Acted, Played, OthersUntouched
  <2> QED  BY <2>1, <2>2
<1>3. a = id
  BY <1>2 DEF PlayedBetween
<1> QED  BY <1>1, <1>3

\* Whatever is played in a step was vouched for, in that step, by a receipt
\* that the trigger admitted.
LEMMA PlayedUnderReceipt ==
  ASSUME BooksInv, [Next]_vars, NEW g \in Guests,
         NEW a \in PlayedBetween(ledger[g], ledger'[g])
  PROVE  \E k \in Keys :
           LET r == ledger'[g].receipts[k]
           IN /\ ledger[g].receipts[k] = NoReceipt /\ r # NoReceipt
              /\ r.attempt = a /\ r.at < expiresAt[g]
              /\ ledger'[g].attempts[a].updatedAt <= r.at
              /\ \A x \in GuessesOf(ledger'[g], a) : x.at <= r.at
<1>1. ledger'[g] # ledger[g]
  BY DEF PlayedBetween
<1>2. PICK c \in Conns : Commit(c)
  BY <1>1, OnlyCommitsWrite
<1>3. /\ tx[c].pc = "answered"
      /\ ledger' = [ledger EXCEPT ![tx[c].guest] = tx[c].draft]
  BY <1>2 DEF Commit, At
<1>4. ledger \in [Guests -> Ledgers] /\ tx[c].guest \in Guests
  BY <1>3 DEF BooksInv, IInv, TypeOK, TxSound
<1>5. tx[c].guest = g /\ ledger'[g] = tx[c].draft /\ Committed(c) = ledger[g]
  BY <1>1, <1>3, <1>4 DEF Committed
<1>6. Told(c) /\ Timely(ledger'[g], expiresAt[g])
  BY <1>3, <1>5 DEF BooksInv, TxKept, IInv, TxSound, Extends, Drafting
<1>7. Settled(ledger[g], ledger'[g])
  BY <1>5, <1>6, QuietPlaysNothing DEF Told
<1>8. PICK k \in Keys :
        /\ ledger[g].receipts[k] = NoReceipt /\ ledger'[g].receipts[k] # NoReceipt
        /\ ledger'[g].receipts[k].attempt = a /\ Vouched(ledger'[g], a, k)
  BY <1>7, SettledPlaysOne
<1> QED  BY <1>6, <1>8 DEF Timely, Vouched

\* A command that outlives its session leaves no rows, and no effect of play
\* is ever dated at or after the end of the session it was played in.
THEOREM GameplayRefusedLeavesNoRows == Spec => RefusedLeavesNoRows
<1> DEFINE A == \A g \in Guests : \A a \in PlayedBetween(ledger[g], ledger'[g]) :
                  \E k \in Keys :
                    LET r == ledger'[g].receipts[k]
                    IN /\ ledger[g].receipts[k] = NoReceipt /\ r # NoReceipt
                       /\ r.attempt = a /\ r.at < expiresAt[g]
                       /\ ledger'[g].attempts[a].updatedAt <= r.at
                       /\ \A x \in GuessesOf(ledger'[g], a) : x.at <= r.at
<1>1. BooksInv /\ [Next]_vars => A
  BY PlayedUnderReceipt
<1>2. BooksInv /\ [Next]_vars => [A]_vars
  BY <1>1
<1> QED  BY GameplayBooksInvariant, <1>2, PTL DEF Spec, RefusedLeavesNoRows

(***************************************************************************)
(* Gameplay implements GameBook.  A commit is a step of the book of its    *)
(* guest, or none; nothing else touches the committed rows it is read off. *)
(***************************************************************************)
BookGame == [g \in Guests |-> [s \in Slots |-> RowOf(g, s).state]]
BookMoves ==
  [g \in Guests |-> [s \in Slots |->
     RowOf(g, s).version - (IF RowOf(g, s).state = "EXPIRED" THEN 1 ELSE 0)]]
BookSpent == [g \in Guests |-> [k \in Keys |-> bookSpent(g, k)]]
BookTally ==
  [g \in Guests |-> [finished |-> Cardinality(ledger[g].finals),
                     solved |-> Cardinality(ledger[g].board)]]

\* The book in terms of the ledgers, before and after a step.
LEMMA BookRead ==
  /\ BookGame = [g \in Guests |-> [s \in Slots |-> RowIn(ledger[g], s).state]]
  /\ BookMoves = [g \in Guests |-> [s \in Slots |-> MovesOf(RowIn(ledger[g], s))]]
  /\ BookSpent = [g \in Guests |-> [k \in Keys |-> SpentIn(ledger[g], k)]]
  BY DEF BookGame, BookMoves, BookSpent, RowOf, RowIn, MovesOf, bookSpent, SpentIn

LEMMA BookReadNext ==
  /\ BookGame' = [g \in Guests |-> [s \in Slots |-> RowIn(ledger'[g], s).state]]
  /\ BookMoves' = [g \in Guests |-> [s \in Slots |-> MovesOf(RowIn(ledger'[g], s))]]
  /\ BookSpent' = [g \in Guests |-> [k \in Keys |-> SpentIn(ledger'[g], k)]]
  BY DEF BookGame, BookMoves, BookSpent, RowOf, RowIn, MovesOf, bookSpent, SpentIn

LEMMA BookStutter ==
  ASSUME UNCHANGED <<BookGame, BookMoves, BookSpent, BookTally>>
  PROVE  UNCHANGED Book!vars
  BY DEF Book!vars, BookGame, BookMoves, BookSpent, BookTally

\* The steps of the book in these terms.
LEMMA BookCloseDays ==
  ASSUME NEW g \in Guests, NEW days \in SUBSET Slots, days # {},
         \A s \in days : BookGame[g][s] = "ACTIVE",
         BookGame' = [BookGame EXCEPT ![g] =
                        [s \in Slots |-> IF s \in days THEN "EXPIRED" ELSE @[s]]],
         BookTally' = [BookTally EXCEPT ![g].finished = @ + Cardinality(days)],
         UNCHANGED <<BookMoves, BookSpent>>
  PROVE  Book!Next
<1>1. Book!Cardinality(days) = Cardinality(days)
  BY DEF Book!Cardinality, Cardinality
<1>2. Book!CloseDays(g, days)
  BY <1>1 DEF Book!CloseDays, BookGame, BookMoves, BookSpent, BookTally
<1> QED  BY <1>2 DEF Book!Next

LEMMA BookStart ==
  ASSUME NEW g \in Guests, NEW k \in Keys, NEW s \in Slots,
         BookSpent[g][k] = [slot |-> -1, outcome |-> "NONE"],
         BookSpent' = [BookSpent EXCEPT ![g][k] = [slot |-> s, outcome |-> "STARTED"]],
         BookGame' = [BookGame EXCEPT ![g][s] = IF @ = "NONE" THEN "ACTIVE" ELSE @],
         UNCHANGED <<BookMoves, BookTally>>
  PROVE  Book!Next
<1>1. Book!Start(g, k, s)
  BY DEF Book!Start, Book!Spend, Book!Unspent, BookGame, BookMoves, BookSpent,
         BookTally
<1> QED  BY <1>1 DEF Book!Next

LEMMA BookMove ==
  ASSUME NEW g \in Guests, NEW k \in Keys, NEW s \in Slots,
         NEW outcome \in {"CORRECT", "WRONG", "REVEALED", "GIVEN_UP"},
         NEW next \in Book!After(outcome),
         BookGame[g][s] = "ACTIVE", BookMoves[g][s] < AllWrong,
         BookSpent[g][k] = [slot |-> -1, outcome |-> "NONE"],
         BookSpent' = [BookSpent EXCEPT ![g][k] = [slot |-> s, outcome |-> outcome]],
         BookMoves' = [BookMoves EXCEPT ![g][s] = @ + 1],
         BookGame' = [BookGame EXCEPT ![g][s] = next],
         BookTally' = [BookTally EXCEPT
                         ![g].finished = IF next \in Book!Over THEN @ + 1 ELSE @,
                         ![g].solved = IF next = "SOLVED" THEN @ + 1 ELSE @]
  PROVE  Book!Next
<1>1. Book!Move(g, k, s, outcome)
  BY DEF Book!Move, Book!Spend, Book!Unspent, BookGame, BookMoves, BookSpent,
         BookTally
<1> QED  BY <1>1 DEF Book!Next

(* Counting in one guest's record is replacing that record by the counted one. *)
LEMMA OneTally ==
  ASSUME NEW G, NEW T, T = [h \in G |-> T[h]], NEW g \in G, NEW next, NEW Over
  PROVE  [T EXCEPT
            ![g].finished = IF next \in Over THEN @ + 1 ELSE @,
            ![g].solved = IF next = "SOLVED" THEN @ + 1 ELSE @] =
         [T EXCEPT
            ![g] = [T[g] EXCEPT
                      !.finished = IF next \in Over THEN @ + 1 ELSE @,
                      !.solved = IF next = "SOLVED" THEN @ + 1 ELSE @]]
<1> DEFINE up(t) == IF next \in Over THEN t + 1 ELSE t
           won(t) == IF next = "SOLVED" THEN t + 1 ELSE t
           T1 == [T EXCEPT ![g] = [T[g] EXCEPT !.finished = up(@)]]
<1>1. DOMAIN T = G /\ T1 = [h \in G |-> T1[h]] /\ T1[g] = [T[g] EXCEPT !.finished = up(@)]
  OBVIOUS
<1>2. [T1 EXCEPT ![g] = [T1[g] EXCEPT !.solved = won(@)]] =
      [T EXCEPT ![g] = [T1[g] EXCEPT !.solved = won(@)]]
  <2> DEFINE b == [T[g] EXCEPT !.finished = up(@)]
             c == [T1[g] EXCEPT !.solved = won(@)]
  <2>1. T1 = [T EXCEPT ![g] = b]
    OBVIOUS
  <2> HIDE DEF b, c, T1
  <2>2. [T1 EXCEPT ![g] = c] = [h \in G |-> IF h = g THEN c ELSE T1[h]]
    BY <1>1
  <2>3. [T EXCEPT ![g] = c] = [h \in G |-> IF h = g THEN c ELSE T[h]]
    BY <1>1
  <2>4. \A h \in G \ {g} : T1[h] = T[h]
    BY <1>1, <2>1
  <2>5. [T1 EXCEPT ![g] = c] = [T EXCEPT ![g] = c]
    BY <2>2, <2>3, <2>4
  <2> QED  BY <2>5 DEF c
<1> QED  BY <1>1, <1>2

\* A write of one guest's rows changes that guest's book only.
LEMMA BookOfOne ==
  ASSUME NEW g \in Guests, \A h \in Guests \ {g} : ledger'[h] = ledger[h]
  PROVE  LET L == ledger[g]
             D == ledger'[g]
         IN /\ BookGame[g] = [s \in Slots |-> RowIn(L, s).state]
            /\ BookMoves[g] = [s \in Slots |-> MovesOf(RowIn(L, s))]
            /\ BookSpent[g] = [k \in Keys |-> SpentIn(L, k)]
            /\ BookTally[g] = [finished |-> Cardinality(L.finals),
                               solved |-> Cardinality(L.board)]
            /\ BookGame' = [BookGame EXCEPT
                              ![g] = [s \in Slots |-> RowIn(D, s).state]]
            /\ BookMoves' = [BookMoves EXCEPT
                               ![g] = [s \in Slots |-> MovesOf(RowIn(D, s))]]
            /\ BookSpent' = [BookSpent EXCEPT
                               ![g] = [k \in Keys |-> SpentIn(D, k)]]
            /\ BookTally' = [BookTally EXCEPT
                               ![g] = [finished |-> Cardinality(D.finals),
                                       solved |-> Cardinality(D.board)]]
<1>1. /\ BookGame[g] = [s \in Slots |-> RowIn(ledger[g], s).state]
      /\ BookMoves[g] = [s \in Slots |-> MovesOf(RowIn(ledger[g], s))]
      /\ BookSpent[g] = [k \in Keys |-> SpentIn(ledger[g], k)]
      /\ BookTally[g] = [finished |-> Cardinality(ledger[g].finals),
                         solved |-> Cardinality(ledger[g].board)]
  BY BookRead DEF BookTally
<1>2. BookGame' = [BookGame EXCEPT
                     ![g] = [s \in Slots |-> RowIn(ledger'[g], s).state]]
  BY BookRead, BookReadNext
<1>3. BookMoves' = [BookMoves EXCEPT
                      ![g] = [s \in Slots |-> MovesOf(RowIn(ledger'[g], s))]]
  BY BookRead, BookReadNext
<1>4. BookSpent' = [BookSpent EXCEPT
                      ![g] = [k \in Keys |-> SpentIn(ledger'[g], k)]]
  BY BookRead, BookReadNext
<1>5. BookTally' = [BookTally EXCEPT
                      ![g] = [finished |-> Cardinality(ledger'[g].finals),
                              solved |-> Cardinality(ledger'[g].board)]]
  BY DEF BookTally
<1> QED  BY <1>1, <1>2, <1>3, <1>4, <1>5

\* Expiries close some days of the book, or leave it alone.
LEMMA QuietInBook ==
  ASSUME NEW g \in Guests, \A h \in Guests \ {g} : ledger'[h] = ledger[h],
         NEW t, Kept(ledger[g], t), Kept(ledger'[g], t),
         Quiet(ledger[g], ledger'[g])
  PROVE  \/ UNCHANGED <<BookGame, BookMoves, BookSpent, BookTally>>
         \/ Book!Next
<1> DEFINE L == ledger[g]
           D == ledger'[g]
           game == [s \in Slots |-> RowIn(L, s).state]
           moves == [s \in Slots |-> MovesOf(RowIn(L, s))]
           spent == [k \in Keys |-> SpentIn(L, k)]
           tally == [finished |-> Cardinality(L.finals),
                     solved |-> Cardinality(L.board)]
<1>1. PICK days \in SUBSET Slots :
        /\ \A s \in days : RowIn(L, s).state = "ACTIVE"
        /\ \A s \in Slots : RowIn(D, s).state =
             IF s \in days THEN "EXPIRED" ELSE RowIn(L, s).state
        /\ \A s \in Slots : MovesOf(RowIn(D, s)) = MovesOf(RowIn(L, s))
        /\ Cardinality(D.finals) = Cardinality(L.finals) + Cardinality(days)
        /\ Cardinality(L.finals) \in Nat /\ Cardinality({}) = 0
        /\ \A k \in Keys : SpentIn(D, k) = SpentIn(L, k)
        /\ Cardinality(D.board) = Cardinality(L.board)
  BY QuietCloses
<1>2. /\ [s \in Slots |-> RowIn(D, s).state] =
           [s \in Slots |-> IF s \in days THEN "EXPIRED" ELSE game[s]]
      /\ [s \in Slots |-> MovesOf(RowIn(D, s))] = moves
      /\ [k \in Keys |-> SpentIn(D, k)] = spent
  BY <1>1
<1>3. [finished |-> Cardinality(D.finals), solved |-> Cardinality(D.board)]
        = [tally EXCEPT !.finished = @ + Cardinality(days)]
  BY <1>1
<1>4. /\ BookGame[g] = game /\ BookMoves[g] = moves /\ BookSpent[g] = spent
      /\ BookTally[g] = tally
      /\ BookGame' = [BookGame EXCEPT ![g] =
                        [s \in Slots |-> IF s \in days THEN "EXPIRED" ELSE game[s]]]
      /\ BookMoves' = [BookMoves EXCEPT ![g] = moves]
      /\ BookSpent' = [BookSpent EXCEPT ![g] = spent]
      /\ BookTally' = [BookTally EXCEPT ![g] =
                         [tally EXCEPT !.finished = @ + Cardinality(days)]]
  BY <1>2, <1>3, BookOfOne
<1>5. \A s \in days : game[s] = "ACTIVE"
  BY <1>1
<1>6. /\ game = [s \in Slots |-> IF s \in {} THEN "EXPIRED" ELSE game[s]]
      /\ tally = [tally EXCEPT !.finished = @ + Cardinality({})]
  BY <1>1
<1> HIDE DEF game, moves, spent, tally
<1>7. UNCHANGED <<BookMoves, BookSpent>>
  <2>1. BookMoves = [BookMoves EXCEPT ![g] = BookMoves[g]]
    BY DEF BookMoves
  <2>2. BookSpent = [BookSpent EXCEPT ![g] = BookSpent[g]]
    BY DEF BookSpent
  <2> QED  BY <1>4, <2>1, <2>2
<1>8. CASE days = {}
  <2>1. /\ BookGame' = [BookGame EXCEPT ![g] = BookGame[g]]
        /\ BookTally' = [BookTally EXCEPT ![g] = BookTally[g]]
    BY <1>4, <1>6, <1>8
  <2>2. BookGame = [BookGame EXCEPT ![g] = BookGame[g]]
    BY DEF BookGame
  <2>3. BookTally = [BookTally EXCEPT ![g] = BookTally[g]]
    BY DEF BookTally
  <2> QED  BY <1>7, <2>1, <2>2, <2>3
<1>9. CASE days # {}
  <2>1. BookTally' = [BookTally EXCEPT ![g].finished = @ + Cardinality(days)]
    BY <1>4
  <2>2. BookGame' = [BookGame EXCEPT ![g] =
                       [s \in Slots |-> IF s \in days THEN "EXPIRED" ELSE @[s]]]
    BY <1>4
  <2>3. \A s \in days : BookGame[g][s] = "ACTIVE"
    BY <1>4, <1>5
  <2> QED  BY <1>7, <1>9, <2>1, <2>2, <2>3, BookCloseDays
<1> QED  BY <1>8, <1>9

\* A command under a new key is a step of the book.
LEMMA SettledInBook ==
  ASSUME NEW g \in Guests, \A h \in Guests \ {g} : ledger'[h] = ledger[h],
         NEW t, Kept(ledger[g], t), Kept(ledger'[g], t),
         Settled(ledger[g], ledger'[g])
  PROVE  Book!Next
<1> DEFINE L == ledger[g]
           D == ledger'[g]
           game == [s \in Slots |-> RowIn(L, s).state]
           moves == [s \in Slots |-> MovesOf(RowIn(L, s))]
           spent == [k \in Keys |-> SpentIn(L, k)]
           tally == [finished |-> Cardinality(L.finals),
                     solved |-> Cardinality(L.board)]
<1>1. PICK key \in Keys, id \in AttemptIds, outcome \in Outcomes :
        /\ L.receipts[key] = NoReceipt /\ Exists(D, id)
        /\ D.receipts[key] # NoReceipt
        /\ D.receipts[key].attempt = id /\ D.receipts[key].outcome = outcome
        /\ \A k \in Keys \ {key} : D.receipts[k] = L.receipts[k]
        /\ Acted(L, D, id, outcome)
  BY DEF Settled
<1> DEFINE s == D.attempts[id].slot
           entry == [slot |-> s, outcome |-> outcome]
           next == D.attempts[id].state
<1>2. /\ BookGame[g] = game /\ BookMoves[g] = moves /\ BookSpent[g] = spent
      /\ BookTally[g] = tally
      /\ BookGame' = [BookGame EXCEPT ![g] = [r \in Slots |-> RowIn(D, r).state]]
      /\ BookMoves' = [BookMoves EXCEPT
                         ![g] = [r \in Slots |-> MovesOf(RowIn(D, r))]]
      /\ BookSpent' = [BookSpent EXCEPT ![g] = [k \in Keys |-> SpentIn(D, k)]]
      /\ BookTally' = [BookTally EXCEPT
                         ![g] = [finished |-> Cardinality(D.finals),
                                 solved |-> Cardinality(D.board)]]
  BY BookOfOne
<1>3. NamesExist(L)
  BY DEF Kept
<1>4. BookSpent[g][key] = [slot |-> -1, outcome |-> "NONE"]
  BY <1>1, <1>2 DEF SpentIn
<1>5. ASSUME \A a \in AttemptIds :
               Exists(L, a) => D.attempts[a].slot = L.attempts[a].slot
      PROVE  BookSpent' = [BookSpent EXCEPT ![g][key] = entry]
  <2>1. \A k \in Keys \ {key} : SpentIn(D, k) = SpentIn(L, k)
    BY <1>1, <1>3, <1>5, SpentStays
  <2>2. SpentIn(D, key) = entry
    BY <1>1 DEF SpentIn
  <2> HIDE DEF entry
  <2>3. [k \in Keys |-> SpentIn(D, k)] = [spent EXCEPT ![key] = entry]
    BY <2>1, <2>2
  <2> HIDE DEF spent
  <2> QED  BY <1>2, <2>3
<1>6. CASE outcome = "STARTED"
  <2>1. Begun(L, D, id)
    BY <1>1, <1>6 DEF Acted
  <2>2. /\ s \in Slots
        /\ \A r \in Slots : RowIn(D, r).state =
             IF r = s /\ RowIn(L, r).state = "NONE" THEN "ACTIVE"
                                                    ELSE RowIn(L, r).state
        /\ \A r \in Slots : MovesOf(RowIn(D, r)) = MovesOf(RowIn(L, r))
        /\ \A a \in AttemptIds :
             Exists(L, a) => D.attempts[a].slot = L.attempts[a].slot
    BY <1>1, <2>1, BegunStarts
  <2>3. D.finals = L.finals /\ D.board = L.board
    BY <2>1 DEF Begun
  <2>4. BookSpent' = [BookSpent EXCEPT ![g][key] = entry]
    BY <1>5, <2>2
  <2>5. /\ [r \in Slots |-> RowIn(D, r).state] =
             [game EXCEPT ![s] = IF @ = "NONE" THEN "ACTIVE" ELSE @]
        /\ [r \in Slots |-> MovesOf(RowIn(D, r))] = moves
    BY <2>2
  <2> HIDE DEF game, moves, s
  <2>6. BookGame' = [BookGame EXCEPT ![g][s] =
                       IF @ = "NONE" THEN "ACTIVE" ELSE @]
    BY <1>2, <2>5
  <2>7. UNCHANGED <<BookMoves, BookTally>>
    <3>1. BookMoves = [BookMoves EXCEPT ![g] = BookMoves[g]]
      BY DEF BookMoves
    <3>2. BookTally = [BookTally EXCEPT ![g] = BookTally[g]]
      BY DEF BookTally
    <3> QED  BY <1>2, <2>3, <2>5, <3>1, <3>2
  <2> QED  BY <1>4, <1>6, <2>2, <2>4, <2>6, <2>7, BookStart
<1>7. CASE outcome # "STARTED"
  <2>1. Played(L, D, id, outcome)
    BY <1>1, <1>7 DEF Acted
  <2>2. /\ s \in Slots /\ RowIn(L, s).state = "ACTIVE"
        /\ MovesOf(RowIn(L, s)) \in Nat /\ MovesOf(RowIn(L, s)) < AllWrong
        /\ RowIn(D, s).state = next
        /\ MovesOf(RowIn(D, s)) = MovesOf(RowIn(L, s)) + 1
        /\ \A r \in Slots \ {s} : RowIn(D, r) = RowIn(L, r)
        /\ \A a \in AttemptIds :
             Exists(L, a) => D.attempts[a].slot = L.attempts[a].slot
    BY <1>1, <1>7, <2>1, PlayedMoves
  <2>3. outcome \in {"CORRECT", "WRONG", "REVEALED", "GIVEN_UP"}
    BY <1>7 DEF Outcomes
  <2>4. next \in Book!After(outcome)
    BY <2>1, <2>3 DEF Played, Follows, Book!After
  <2>5. next \in Book!Over <=> next # "ACTIVE"
    BY <2>3, <2>4 DEF Book!After, Book!Over
  <2>6. /\ Cardinality(L.finals) \in Nat /\ Cardinality(L.board) \in Nat
        /\ Cardinality(D.finals) = Cardinality(L.finals)
                                    + (IF next = "ACTIVE" THEN 0 ELSE 1)
        /\ Cardinality(D.board) = Cardinality(L.board)
                                   + (IF next = "SOLVED" THEN 1 ELSE 0)
    BY <2>1, FS_CardinalityType DEF Played, Kept, Countable
  <2>7. BookSpent' = [BookSpent EXCEPT ![g][key] = entry]
    BY <1>5, <2>2
  <2>8. game[s] = "ACTIVE" /\ moves[s] < AllWrong
    BY <2>2
  <2>9. [r \in Slots |-> RowIn(D, r).state] = [game EXCEPT ![s] = next]
    BY <2>2
  <2>10. [r \in Slots |-> MovesOf(RowIn(D, r))] = [moves EXCEPT ![s] = @ + 1]
    BY <2>2
  <2> HIDE DEF next
  <2>11. /\ Cardinality(D.finals) = IF next \in Book!Over
                                     THEN tally.finished + 1 ELSE tally.finished
         /\ Cardinality(D.board) = IF next = "SOLVED"
                                    THEN tally.solved + 1 ELSE tally.solved
    BY <2>5, <2>6
  <2>12. [finished |-> Cardinality(D.finals), solved |-> Cardinality(D.board)] =
           [tally EXCEPT
              !.finished = IF next \in Book!Over THEN @ + 1 ELSE @,
              !.solved = IF next = "SOLVED" THEN @ + 1 ELSE @]
    <3> DEFINE grown == [tally EXCEPT
                           !.finished = IF next \in Book!Over THEN @ + 1 ELSE @,
                           !.solved = IF next = "SOLVED" THEN @ + 1 ELSE @]
    <3>1. /\ DOMAIN grown = {"finished", "solved"}
          /\ grown.finished = Cardinality(D.finals)
          /\ grown.solved = Cardinality(D.board)
      BY <2>11
    <3>2. grown = [i \in DOMAIN grown |-> grown[i]]
      OBVIOUS
    <3> HIDE DEF grown
    <3>3. grown = [finished |-> Cardinality(D.finals),
                   solved |-> Cardinality(D.board)]
      BY <3>1, <3>2
    <3> QED  BY <3>3 DEF grown
  <2> HIDE DEF game, moves, tally, s
  <2>13. BookGame' = [BookGame EXCEPT ![g][s] = next]
    BY <1>2, <2>9
  <2>14. BookMoves' = [BookMoves EXCEPT ![g][s] = @ + 1]
    BY <1>2, <2>10
  <2>15. BookTally' =
           [BookTally EXCEPT
              ![g].finished = IF next \in Book!Over THEN @ + 1 ELSE @,
              ![g].solved = IF next = "SOLVED" THEN @ + 1 ELSE @]
    <3>1. BookTally = [h \in Guests |-> BookTally[h]]
      BY DEF BookTally
    <3>2. BookTally' =
            [BookTally EXCEPT
               ![g] = [BookTally[g] EXCEPT
                         !.finished = IF next \in Book!Over THEN @ + 1 ELSE @,
                         !.solved = IF next = "SOLVED" THEN @ + 1 ELSE @]]
      BY <1>2, <2>12
    <3> QED  BY <3>1, <3>2, OneTally
  <2>16. BookGame[g][s] = "ACTIVE" /\ BookMoves[g][s] < AllWrong
    BY <1>2, <2>8
  <2> QED
    BY <1>4, <2>2, <2>3, <2>4, <2>7, <2>13, <2>14, <2>15, <2>16, BookMove
<1> QED  BY <1>6, <1>7

\* The committed rows only change by commits, each of them one guest's.
LEMMA StepsInBook ==
  ASSUME BooksInv, [Next]_vars
  PROVE  [Book!Next]_(Book!vars)
<1>1. ASSUME ledger' = ledger PROVE UNCHANGED Book!vars
  <2>1. UNCHANGED <<BookGame, BookMoves, BookSpent>>
    BY <1>1, BookRead, BookReadNext
  <2>2. UNCHANGED BookTally
    BY <1>1 DEF BookTally
  <2> QED  BY <2>1, <2>2, BookStutter
<1>2. ASSUME NEW c \in Conns, Commit(c)
      PROVE  Book!Next \/ UNCHANGED Book!vars
  <2> DEFINE g == tx[c].guest
  <2>1. /\ tx[c].pc = "answered" /\ ledger' = [ledger EXCEPT ![g] = tx[c].draft]
    BY <1>2 DEF Commit, At
  <2>2. ledger \in [Guests -> Ledgers] /\ g \in Guests
    BY <2>1 DEF BooksInv, IInv, TypeOK, TxSound
  <2>3. /\ ledger'[g] = tx[c].draft /\ Committed(c) = ledger[g]
        /\ \A h \in Guests \ {g} : ledger'[h] = ledger[h]
    BY <2>1, <2>2 DEF Committed
  <2>4. Kept(ledger[g], now) /\ Kept(tx[c].draft, now) /\ Told(c)
    BY <2>1, <2>2 DEF BooksInv, BooksKept, TxKept
  <2>5. Quiet(ledger[g], ledger'[g]) \/ Settled(ledger[g], ledger'[g])
    BY <2>3, <2>4 DEF Told
  <2> HIDE DEF g
  <2> QED
    BY <2>2, <2>3, <2>4, <2>5, QuietInBook, SettledInBook, BookStutter
<1> QED  BY <1>1, <1>2, OnlyCommitsWrite

LEMMA InitInBook == Init => Book!Init
<1> SUFFICES ASSUME Init PROVE Book!Init
  OBVIOUS
<1> DEFINE E == EmptyLedger
<1>1. \A g \in Guests : ledger[g] = E
  BY DEF Init
<1>2. /\ \A a \in AttemptIds : E.attempts[a] = NoRow
      /\ \A k \in Keys : E.receipts[k] = NoReceipt
      /\ E.finals = {} /\ E.board = {}
  BY DEF EmptyLedger
<1>3. Cardinality({}) = 0
  BY FS_EmptySet
<1>4. NoRow.state = "NONE" /\ NoRow.version = 0
  BY DEF NoRow
<1> HIDE DEF E
<1>5. \A s \in Slots : AttemptsOf(E, s) = {}
  BY <1>2, <1>4 DEF AttemptsOf
<1>6. \A g \in Guests, s \in Slots : RowOf(g, s) = NoRow
  BY <1>1, <1>5 DEF RowOf
<1>7. \A g \in Guests, k \in Keys : bookSpent(g, k) = [slot |-> -1, outcome |-> "NONE"]
  BY <1>1, <1>2 DEF bookSpent
<1>8. \A g \in Guests : Cardinality(ledger[g].finals) = 0
                        /\ Cardinality(ledger[g].board) = 0
  BY <1>1, <1>2, <1>3
<1> QED  BY <1>4, <1>6, <1>7, <1>8 DEF Book!Init, Book!Unspent

\* Concurrent, retried, cut-off and late transactions add up to a game played
\* one command at a time, at most once per key, in at most AllWrong moves, and
\* counted once: every commit is one step of GameBook, or none.
THEOREM GameplayKeepsTheBook == Spec => KeepsTheBook
<1>1. BooksInv /\ [Next]_vars => [Book!Next]_(Book!vars)
  BY StepsInBook
<1> QED
  BY InitInBook, <1>1, GameplayBooksInvariant, PTL DEF Spec, KeepsTheBook, Book!Spec
=============================================================================
