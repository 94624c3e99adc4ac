-------------------------- MODULE ReportingProofs --------------------------
(***************************************************************************)
(* The profile is what the guest's games amount to, the leaderboard's      *)
(* pages fit together, and what a browser shows is its guest's.            *)
(***************************************************************************)
EXTENDS Reporting, FiniteSetTheorems, SequenceTheorems, WellFoundedInduction, TLAPS

(***************************************************************************)
(* Least elements                                                          *)
(***************************************************************************)
LEMMA LeastNumber ==
  ASSUME NEW Bad, Bad \subseteq Nat, Bad # {}
  PROVE  \E n \in Bad : \A m \in Nat : m < n => m \notin Bad
<1>1. PICK n \in Bad : \A m \in Bad : ~ (<<m, n>> \in OpToRel(<, Nat))
  BY NatLessThanWellFounded, WFMin
<1> QED  BY <1>1 DEF OpToRel

LEMMA MaxIs ==
  ASSUME NEW S, S \subseteq Int, NEW m \in S, \A x \in S : x <= m
  PROVE  Max(S) = m
<1>1. \A x \in S : m >= x
  OBVIOUS
<1>2. Max(S) \in S /\ \A y \in S : Max(S) >= y
  BY <1>1 DEF Max
<1>3. Max(S) \in Int /\ m \in Int /\ Max(S) >= m /\ Max(S) <= m
  BY <1>2
<1> QED  BY <1>3

LEMMA MaxOfPair ==
  ASSUME NEW a \in Int, NEW b \in Int
  PROVE  Max({a, b}) = IF a <= b THEN b ELSE a
<1>1. CASE a <= b
  BY <1>1, MaxIs
<1>2. CASE b < a
  BY <1>2, MaxIs
<1> QED  BY <1>1, <1>2

LEMMA MaxOfPositions ==
  ASSUME NEW n \in Nat, NEW s, s \subseteq 1..n, s # {}
  PROVE  Max(s) \in s /\ \A x \in s : x <= Max(s)
<1> DEFINE Above == {m \in Nat : \A x \in s : x <= m}
<1>1. n \in Above
  OBVIOUS
<1>2. PICK m \in Above : \A k \in Nat : k < m => k \notin Above
  <2>1. Above \subseteq Nat /\ Above # {}
    BY <1>1
  <2> HIDE DEF Above
  <2> QED  BY <2>1, LeastNumber
<1>3. m \in s
  <2>1. SUFFICES ASSUME m \notin s PROVE FALSE
    OBVIOUS
  <2>2. \A x \in s : x <= m - 1 /\ m - 1 \in Nat
    BY <1>2, <2>1
  <2>3. m - 1 \in Above
    BY <2>2
  <2> QED  BY <1>2, <2>2, <2>3
<1>4. \A x \in s : m >= x
  BY <1>2
<1>5. s \subseteq Int
  OBVIOUS
<1> QED  BY <1>3, <1>4, <1>5, MaxIs

(***************************************************************************)
(* Sorting.  Where R orders S totally, the place of an element, which is   *)
(* how many come before it, is one to one.                                 *)
(***************************************************************************)
Orders(R, S) ==
  /\ \A a, b \in S : <<a, b>> \in R \/ <<b, a>> \in R \/ a = b
  /\ \A a \in S : <<a, a>> \notin R
  /\ \A a, b, c \in S : <<a, b>> \in R /\ <<b, c>> \in R => <<a, c>> \in R

Place(a, S, R) == Cardinality({b \in S : <<b, a>> \in R})

\* s is S in the order R.
InOrder(s, S, R) ==
  /\ s \in [1..Cardinality(S) -> S] /\ s \in Seq(S) /\ Len(s) = Cardinality(S)
  /\ \A i, j \in 1..Cardinality(S) : i < j => <<s[i], s[j]>> \in R
  /\ \A a \in S : \E i \in 1..Cardinality(S) : s[i] = a
  /\ \A i \in 1..Cardinality(S) : Place(s[i], S, R) = i - 1

LEMMA PlaceFacts ==
  ASSUME NEW S, IsFiniteSet(S), NEW R, Orders(R, S), NEW a \in S
  PROVE  /\ Place(a, S, R) \in 0..(Cardinality(S) - 1)
         /\ \A b \in S : <<a, b>> \in R => Place(a, S, R) < Place(b, S, R)
<1> DEFINE B(x) == {b \in S : <<b, x>> \in R}
<1>0. Cardinality(S) \in Nat
  BY FS_CardinalityType
<1>1. B(a) \in SUBSET S /\ B(a) # S
  BY DEF Orders
<1>2. IsFiniteSet(B(a)) /\ Cardinality(B(a)) \in Nat /\ Cardinality(B(a)) < Cardinality(S)
  <2> HIDE DEF B
  <2>1. IsFiniteSet(B(a)) /\ Cardinality(B(a)) <= Cardinality(S)
        /\ (Cardinality(S) = Cardinality(B(a)) => S = B(a))
    BY <1>1, FS_Subset
  <2>2. Cardinality(B(a)) \in Nat
    BY <2>1, FS_CardinalityType
  <2> QED  BY <1>0, <1>1, <2>1, <2>2
<1>3. ASSUME NEW b \in S, <<a, b>> \in R
      PROVE  Cardinality(B(a)) < Cardinality(B(b))
  <2>1. B(a) \in SUBSET B(b) /\ B(a) # B(b) /\ B(b) \in SUBSET S
    BY <1>3 DEF Orders
  <2> HIDE DEF B
  <2>2. IsFiniteSet(B(b)) /\ Cardinality(B(b)) \in Nat
    BY <2>1, FS_Subset, FS_CardinalityType
  <2>3. Cardinality(B(a)) <= Cardinality(B(b))
        /\ (Cardinality(B(b)) = Cardinality(B(a)) => B(b) = B(a))
    BY <2>1, <2>2, FS_Subset
  <2> QED  BY <1>2, <2>1, <2>2, <2>3
<1> QED  BY <1>0, <1>2, <1>3 DEF Place

LEMMA PlacesAreTaken ==
  ASSUME NEW S, IsFiniteSet(S), NEW R, Orders(R, S)
  PROVE  /\ \A a, b \in S : Place(a, S, R) = Place(b, S, R) => a = b
         /\ \A n \in 0..(Cardinality(S) - 1) : \E a \in S : Place(a, S, R) = n
<1> DEFINE N == Cardinality(S)
           place == [a \in S |-> Place(a, S, R)]
<1>0. N \in Nat
  BY FS_CardinalityType
<1>1. place \in [S -> 0..(N - 1)]
  BY PlaceFacts
<1>2. \A a, b \in S : Place(a, S, R) = Place(b, S, R) => a = b
  <2>1. \A a, b \in S : <<a, b>> \in R => Place(a, S, R) < Place(b, S, R)
    BY PlaceFacts
  <2>2. \A a \in S : Place(a, S, R) \in Int
    BY PlaceFacts, <1>0
  <2>3. ASSUME NEW a \in S, NEW b \in S, Place(a, S, R) = Place(b, S, R)
        PROVE  a = b
    <3>1. <<a, b>> \notin R /\ <<b, a>> \notin R
      BY <2>1, <2>2, <2>3
    <3> QED  BY <3>1 DEF Orders
  <2> QED  BY <2>3
<1>3. place \in Injection(S, 0..(N - 1))
  BY <1>1, <1>2 DEF Injection, IsInjective
<1>4. IsFiniteSet(0..(N - 1)) /\ Cardinality(0..(N - 1)) = N
  BY <1>0, FS_Interval
<1>5. place \in Surjection(S, 0..(N - 1))
  BY <1>3, <1>4, FS_Injection
<1>6. \A n \in 0..(N - 1) : \E a \in S : Place(a, S, R) = n
  BY <1>5 DEF Surjection
<1> QED  BY <1>2, <1>6

LEMMA SomebodyTakesPlace ==
  ASSUME NEW S, IsFiniteSet(S), NEW R, Orders(R, S), NEW n \in 1..Cardinality(S)
  PROVE  \E a \in S : Place(a, S, R) = n - 1
<1>1. Cardinality(S) \in Nat
  BY FS_CardinalityType
<1>2. n - 1 \in 0..(Cardinality(S) - 1)
  BY <1>1
<1>3. \A m \in 0..(Cardinality(S) - 1) : \E a \in S : Place(a, S, R) = m
  BY PlacesAreTaken
<1> QED  BY <1>2, <1>3

\* What holds the element of each place at each position is sorted.
LEMMA Sorting ==
  ASSUME NEW S, IsFiniteSet(S), NEW R, Orders(R, S),
         NEW s \in [1..Cardinality(S) -> S],
         \A n \in 1..Cardinality(S) : Place(s[n], S, R) = n - 1
  PROVE  InOrder(s, S, R)
<1> DEFINE N == Cardinality(S)
<1>0. N \in Nat
  BY FS_CardinalityType
<1>2. \A a, b \in S : Place(a, S, R) = Place(b, S, R) => a = b
  BY PlacesAreTaken
<1>6. \A n \in 1..N : s[n] \in S /\ Place(s[n], S, R) = n - 1
  OBVIOUS
<1>7. \A i, j \in 1..N : i < j => <<s[i], s[j]>> \in R
  <2>1. ASSUME NEW i \in 1..N, NEW j \in 1..N, i < j PROVE <<s[i], s[j]>> \in R
    <3>1. <<s[i], s[j]>> \in R \/ <<s[j], s[i]>> \in R \/ s[i] = s[j]
      BY <1>6 DEF Orders
    <3>2. <<s[j], s[i]>> \in R => Place(s[j], S, R) < Place(s[i], S, R)
      BY <1>6, PlaceFacts
    <3>3. Place(s[i], S, R) = i - 1 /\ Place(s[j], S, R) = j - 1
      BY <1>6
    <3> QED  BY <1>0, <2>1, <3>1, <3>2, <3>3
  <2> QED  BY <2>1
<1>8. \A a \in S : \E i \in 1..N : s[i] = a
  <2>1. ASSUME NEW a \in S PROVE \E i \in 1..N : s[i] = a
    <3>1. Place(a, S, R) + 1 \in 1..N
      BY <1>0, PlaceFacts
    <3>2. Place(s[Place(a, S, R) + 1], S, R) = Place(a, S, R)
      <4>1. Place(a, S, R) \in Int
        BY <1>0, PlaceFacts
      <4>2. Place(s[Place(a, S, R) + 1], S, R) = (Place(a, S, R) + 1) - 1
        BY <1>6, <3>1
      <4> QED  BY <4>1, <4>2
    <3>3. s[Place(a, S, R) + 1] \in S
      BY <1>6, <3>1
    <3> QED  BY <1>2, <3>1, <3>2, <3>3
  <2> QED  BY <2>1
<1>9. s \in Seq(S) /\ Len(s) = N /\ DOMAIN s = 1..N
  BY <1>0
<1> QED  BY <1>6, <1>7, <1>8, <1>9 DEF InOrder

(***************************************************************************)
(* Folds.  FoldLeft is a function on the sets of positions that takes the  *)
(* last of them and recurs.                                                *)
(***************************************************************************)
SolvesFold(f, F, base, n) ==
  f = [s \in SUBSET (1..n) |-> IF s = {} THEN base ELSE F[<<Max(s), f[s \ {Max(s)}]>>]]

\* A solution over the first positions is extended by the next one.
LEMMA FoldExists ==
  ASSUME NEW n \in Nat, NEW Acc, NEW base \in Acc, NEW F \in [(1..n) \X Acc -> Acc]
  PROVE  \E f \in [SUBSET (1..n) -> Acc] : SolvesFold(f, F, base, n)
<1> DEFINE Bad == {k \in 0..n : ~ \E f \in [SUBSET (1..k) -> Acc] : SolvesFold(f, F, base, k)}
<1>1. SUFFICES ASSUME Bad # {} PROVE FALSE
  <2>1. n \in 0..n
    OBVIOUS
  <2> QED  BY <2>1
<1>2. PICK k \in Bad : \A m \in Nat : m < k => m \notin Bad
  <2>1. Bad \subseteq Nat
    OBVIOUS
  <2> HIDE DEF Bad
  <2> QED  BY <1>1, <2>1, LeastNumber
<1>3. k \in 0..n /\ ~ \E f \in [SUBSET (1..k) -> Acc] : SolvesFold(f, F, base, k)
  BY <1>2
<1>4. CASE k = 0
  <2> DEFINE f == [s \in SUBSET (1..0) |-> base]
  <2>1. \A s \in SUBSET (1..0) : s = {}
    OBVIOUS
  <2>2. f \in [SUBSET (1..0) -> Acc]
    OBVIOUS
  <2>3. f = [s \in SUBSET (1..0) |-> IF s = {} THEN base ELSE F[<<Max(s), f[s \ {Max(s)}]>>]]
    BY <2>1
  <2> HIDE DEF f
  <2>4. SolvesFold(f, F, base, 0)
    BY <2>3 DEF SolvesFold
  <2> QED  BY <1>3, <1>4, <2>2, <2>4
<1>5. CASE k # 0
  <2>1. k - 1 \in Nat /\ k - 1 < k /\ k - 1 \in 0..n /\ k \in 1..n
    BY <1>3, <1>5
  <2>2. PICK g \in [SUBSET (1..(k - 1)) -> Acc] : SolvesFold(g, F, base, k - 1)
    BY <1>2, <2>1
  <2> DEFINE body(h, s) == IF s = {} THEN base ELSE F[<<Max(s), h[s \ {Max(s)}]>>]
             f == [s \in SUBSET (1..k) |-> IF k \in s THEN F[<<k, g[s \ {k}]>>] ELSE g[s]]
  <2>3. \A s \in SUBSET (1..(k - 1)) : g[s] = body(g, s)
    <3>1. g = [s \in SUBSET (1..(k - 1)) |-> body(g, s)]
      BY <2>2 DEF SolvesFold
    <3> HIDE DEF body
    <3> QED  BY <3>1
  <2>4. ASSUME NEW s \in SUBSET (1..k), k \in s
        PROVE  s \ {k} \in SUBSET (1..(k - 1))
    BY <2>1, <2>4
  <2>5. ASSUME NEW s \in SUBSET (1..k), k \notin s
        PROVE  s \in SUBSET (1..(k - 1))
    BY <2>1, <2>5
  <2>6. f \in [SUBSET (1..k) -> Acc]
    <3>1. ASSUME NEW s \in SUBSET (1..k) PROVE f[s] \in Acc
      <4>1. CASE k \in s
        <5>1. <<k, g[s \ {k}]>> \in (1..n) \X Acc
          BY <2>1, <2>2, <2>4, <4>1
        <5> QED  BY <4>1, <5>1
      <4>2. CASE k \notin s
        BY <2>2, <2>5, <4>2
      <4> QED  BY <4>1, <4>2
    <3> QED  BY <3>1
  <2>7. \A s \in SUBSET (1..(k - 1)) : f[s] = g[s]
    <3>1. \A s \in SUBSET (1..(k - 1)) : s \in SUBSET (1..k) /\ k \notin s
      BY <2>1
    <3> QED  BY <3>1
  <2>8. ASSUME NEW s \in SUBSET (1..k) PROVE f[s] = body(f, s)
    <3>1. CASE k \in s
      <4>1. Max(s) = k
        <5>1. s \subseteq Int /\ \A x \in s : x <= k
          BY <2>1
        <5> QED  BY <3>1, <5>1, MaxIs
      <4>2. f[s \ {k}] = g[s \ {k}]
        BY <2>4, <2>7, <3>1
      <4>3. f[s] = F[<<k, g[s \ {k}]>>]
        BY <3>1
      <4> HIDE DEF f
      <4> QED  BY <3>1, <4>1, <4>2, <4>3
    <3>2. CASE k \notin s
      <4>1. s \in SUBSET (1..(k - 1)) /\ s \ {Max(s)} \in SUBSET (1..(k - 1))
        BY <2>5, <3>2
      <4>2. f[s] = body(g, s)
        BY <2>3, <2>7, <4>1
      <4>3. f[s \ {Max(s)}] = g[s \ {Max(s)}]
        BY <2>7, <4>1
      <4> HIDE DEF f
      <4> QED  BY <4>2, <4>3
    <3> QED  BY <3>1, <3>2
  <2>9. SolvesFold(f, F, base, k)
    <3>1. f = [s \in SUBSET (1..k) |-> f[s]]
      OBVIOUS
    <3> HIDE DEF f, body
    <3>2. f = [s \in SUBSET (1..k) |-> body(f, s)]
      BY <2>8, <3>1
    <3> QED  BY <3>2 DEF body, SolvesFold
  <2> HIDE DEF f
  <2> QED  BY <1>3, <2>6, <2>9
<1> QED  BY <1>4, <1>5

(***************************************************************************)
(* Streaks                                                                 *)
(***************************************************************************)
\* The days of D that lie together up to and including day are n.
Ends(D, day, n) ==
  /\ \A d \in Int : day - n < d /\ d <= day => d \in D
  /\ day - n \notin D

\* The longest days of D that lie together are n.
Longest(D, n) ==
  /\ n = 0 \/ \E from, to \in D : from <= to /\ Run(D, from, to) /\ n = to - from + 1
  /\ \A from, to \in D : from <= to /\ Run(D, from, to) => to - from + 1 <= n

Runs == [len : Nat, last : Int, best : Nat]
NoRun == [len |-> 0, last |-> -2, best |-> 0]

\* What Extend has found once it has seen D.
Seen(D, run) ==
  /\ run \in Runs
  /\ IF D = {} THEN run.len = 0
     ELSE run.len > 0 /\ run.last \in D /\ (\A d \in D : d <= run.last) /\ Ends(D, run.last, run.len)
  /\ Longest(D, run.best)

LEMMA ExtendStep ==
  ASSUME NEW D, D \subseteq Int, NEW run, Seen(D, run), NEW day \in Int, \A d \in D : d < day
  PROVE  Seen(D \cup {day}, Extend(run, day))
<1> DEFINE E == D \cup {day}
           len == IF day = run.last + 1 THEN run.len + 1 ELSE 1
           best == IF run.best <= len THEN len ELSE run.best
<1>1. run.len \in Nat /\ run.last \in Int /\ run.best \in Nat
  BY DEF Seen, Runs
<1>2. len \in Nat \ {0}
  BY <1>1
<1>3. Extend(run, day) = [len |-> len, last |-> day, best |-> best]
  <2>1. Max({run.best, len}) = best
    BY <1>1, <1>2, MaxOfPair
  <2> QED  BY <2>1 DEF Extend
<1>4. Ends(E, day, len)
  <2>1. CASE D = {}
    <3>1. len = 1
      BY <2>1 DEF Seen
    <3> QED  BY <2>1, <3>1 DEF Ends
  <2>2. CASE D # {} /\ day = run.last + 1
    <3>1. Ends(D, run.last, run.len)
      BY <2>2 DEF Seen
    <3>2. len = run.len + 1 /\ day - len = run.last - run.len
      BY <1>1, <2>2
    <3> HIDE DEF len
    <3>3. \A d \in Int : day - len < d /\ d <= day => d \in E
      BY <1>1, <2>2, <3>1, <3>2 DEF Ends
    <3>4. day - len \notin E
      BY <1>1, <2>2, <3>1, <3>2 DEF Ends
    <3> QED  BY <3>3, <3>4 DEF Ends
  <2>3. CASE D # {} /\ day # run.last + 1
    <3>1. run.last \in D /\ \A d \in D : d <= run.last
      BY <2>3 DEF Seen
    <3>2. day - 1 \notin D
      BY <1>1, <2>3, <3>1
    <3>3. len = 1
      BY <2>3
    <3> HIDE DEF len
    <3> QED  BY <3>2, <3>3 DEF Ends
  <2> QED  BY <2>1, <2>2, <2>3
<1> HIDE DEF len
<1>5. \A from, to \in E : from <= to /\ Run(E, from, to) => to - from + 1 <= best
  <2>1. ASSUME NEW from \in E, NEW to \in E, from <= to, Run(E, from, to)
        PROVE  to - from + 1 <= best
    <3>0. from \in Int /\ to \in Int
      OBVIOUS
    <3>1. CASE to = day
      <4>1. day - len \notin from..to
        BY <1>4, <2>1 DEF Ends, Run
      <4> QED  BY <1>1, <1>2, <3>0, <3>1, <4>1
    <3>2. CASE to # day
      <4>1. to < day /\ from # day
        BY <2>1, <3>0, <3>2
      <4>2. day \notin from..to
        BY <3>0, <4>1
      <4>3. from \in D /\ to \in D /\ Run(D, from, to)
        BY <2>1, <3>2, <4>1, <4>2 DEF Run
      <4>4. to - from + 1 <= run.best
        BY <2>1, <4>3 DEF Seen, Longest
      <4> QED  BY <1>1, <1>2, <3>0, <4>4
    <3> QED  BY <3>1, <3>2
  <2> QED  BY <2>1
<1>6. best = 0 \/ \E from, to \in E : from <= to /\ Run(E, from, to) /\ best = to - from + 1
  <2>1. CASE best = len
    <3>1. Run(E, day - len + 1, day) /\ day - len + 1 \in E /\ day \in E
      BY <1>2, <1>4 DEF Ends, Run
    <3>2. day - len + 1 <= day /\ len = day - (day - len + 1) + 1
      BY <1>2
    <3> QED  BY <2>1, <3>1, <3>2
  <2>2. CASE best = run.best
    <3>1. run.best = 0 \/ \E from, to \in D : from <= to /\ Run(D, from, to) /\ run.best = to - from + 1
      BY DEF Seen, Longest
    <3>2. \A from, to : Run(D, from, to) => Run(E, from, to)
      BY DEF Run
    <3> QED  BY <2>2, <3>1, <3>2
  <2> QED  BY <2>1, <2>2
<1>7. [len |-> len, last |-> day, best |-> best] \in Runs
  BY <1>1, <1>2 DEF Runs
<1>8. \A d \in E : d <= day
  OBVIOUS
<1> HIDE DEF best
<1> QED  BY <1>2, <1>3, <1>4, <1>5, <1>6, <1>7, <1>8 DEF Seen, Longest

\* A loop over the days in order has seen them all.
LEMMA StreakFold ==
  ASSUME NEW n \in Nat, NEW days \in Seq(Int), DOMAIN days = 1..n,
         \A i, j \in 1..n : i < j => days[i] < days[j]
  PROVE  Seen({days[i] : i \in 1..n}, FoldLeft(Extend, NoRun, days))
<1> DEFINE F == [p \in (1..n) \X Runs |-> Extend(p[2], days[p[1]])]
           body(h, s) == IF s = {} THEN NoRun ELSE Extend(h[s \ {Max(s)}], days[Max(s)])
           f == CHOOSE iter : iter = [s \in SUBSET (1..n) |-> body(iter, s)]
           At(s) == {days[i] : i \in s}
<1>0. \A i \in 1..n : days[i] \in Int
  OBVIOUS
<1>1. NoRun \in Runs
  BY DEF NoRun, Runs
<1>2. F \in [(1..n) \X Runs -> Runs]
  <2>1. ASSUME NEW run \in Runs, NEW day \in Int PROVE Extend(run, day) \in Runs
    <3> DEFINE len == IF day = run.last + 1 THEN run.len + 1 ELSE 1
    <3>1. run.len \in Nat /\ run.last \in Int /\ run.best \in Nat /\ len \in Nat
      BY <2>1 DEF Runs
    <3> HIDE DEF len
    <3>2. Max({run.best, len}) \in Nat
      BY <3>1, MaxOfPair
    <3>3. [len |-> len, last |-> day, best |-> Max({run.best, len})] \in Runs
      BY <3>1, <3>2 DEF Runs
    <3> QED  BY <3>3 DEF Extend, len
  <2> QED  BY <1>0, <2>1
<1>3. PICK g \in [SUBSET (1..n) -> Runs] : SolvesFold(g, F, NoRun, n)
  BY <1>1, <1>2, FoldExists
<1>4. g = [s \in SUBSET (1..n) |-> body(g, s)]
  <2>1. ASSUME NEW s \in SUBSET (1..n), s # {}
        PROVE  F[<<Max(s), g[s \ {Max(s)}]>>] = Extend(g[s \ {Max(s)}], days[Max(s)])
    <3>1. Max(s) \in 1..n /\ s \ {Max(s)} \in SUBSET (1..n)
      BY <2>1, MaxOfPositions
    <3>2. <<Max(s), g[s \ {Max(s)}]>> \in (1..n) \X Runs
      BY <1>3, <3>1
    <3> QED  BY <3>2
  <2> HIDE DEF F
  <2>2. g = [s \in SUBSET (1..n) |-> IF s = {} THEN NoRun ELSE F[<<Max(s), g[s \ {Max(s)}]>>]]
    BY <1>3 DEF SolvesFold
  <2> QED  BY <2>1, <2>2
<1>5. f = [s \in SUBSET (1..n) |-> body(f, s)]
  <2> HIDE DEF body
  <2> QED  BY <1>4
<1>6. FoldLeft(Extend, NoRun, days) = f[1..n]
  BY DEF FoldLeft, MapThenFoldSet
<1> HIDE DEF f
<1> DEFINE Bad == {k \in 0..n : \E s \in SUBSET (1..k) : ~ Seen(At(s), f[s])}
<1>7. ASSUME Bad # {} PROVE FALSE
  <2>1. PICK k \in Bad : \A m \in Nat : m < k => m \notin Bad
    <3>1. Bad \subseteq Nat
      OBVIOUS
    <3> HIDE DEF Bad
    <3> QED  BY <1>7, <3>1, LeastNumber
  <2>2. PICK s \in SUBSET (1..k) : ~ Seen(At(s), f[s])
    BY <2>1
  <2>3. k \in 0..n /\ s \in SUBSET (1..n)
    BY <2>1
  <2>4. f[s] = body(f, s)
    <3> HIDE DEF body
    <3> QED  BY <1>5, <2>3
  <2>5. CASE s = {}
    <3>1. f[s] = NoRun /\ At(s) = {}
      BY <2>4, <2>5
    <3>2. Seen({}, NoRun)
      BY <1>1 DEF Seen, NoRun, Longest
    <3> QED  BY <2>2, <3>1, <3>2
  <2>6. CASE s # {}
    <3>1. PICK x \in s : x = Max(s) /\ \A y \in s : y <= x
      BY <2>3, <2>6, MaxOfPositions
    <3> DEFINE t == s \ {x}
    <3>a. k \in Nat /\ k # 0 /\ \A i \in s : i \in 1..k /\ i \in 1..n
      BY <2>2, <2>3, <2>6
    <3>2. t \in SUBSET (1..(k - 1)) /\ k - 1 \in 0..n /\ k - 1 < k
      <4>1. \A i \in t : i \in 1..(k - 1)
        BY <3>1, <3>a
      <4> QED  BY <2>3, <3>a, <4>1
    <3>3. Seen(At(t), f[t])
      <4>1. k - 1 \notin Bad
        <5>1. k - 1 \in Nat
          BY <3>a
        <5> HIDE DEF Bad
        <5> QED  BY <2>1, <3>2, <5>1
      <4> HIDE DEF At, t
      <4> QED  BY <3>2, <4>1
    <3>4. At(t) \subseteq Int /\ days[x] \in Int /\ At(s) = At(t) \cup {days[x]}
      BY <1>0, <3>a, <3>1
    <3>5. \A d \in At(t) : d < days[x]
      <4>1. ASSUME NEW i \in t PROVE days[i] < days[x]
        <5>1. i \in 1..n /\ x \in 1..n /\ i <= x /\ i # x
          BY <3>1, <3>a, <4>1
        <5>2. i < x
          BY <5>1
        <5> QED  BY <5>1, <5>2
      <4> QED  BY <4>1
    <3>6. f[s] = Extend(f[t], days[x])
      BY <2>4, <2>6, <3>1
    <3> HIDE DEF At, t
    <3> QED  BY <2>2, <3>3, <3>4, <3>5, <3>6, ExtendStep
  <2> QED  BY <2>5, <2>6
<1>8. Seen(At(1..n), f[1..n])
  <2>1. n \in 0..n /\ 1..n \in SUBSET (1..n)
    OBVIOUS
  <2> QED  BY <1>7, <2>1
<1> QED  BY <1>6, <1>8

\* What is longest is the maximum of the lengths.
LEMMA LongestIsMax ==
  ASSUME NEW D, D \subseteq Int, NEW n \in Nat, Longest(D, n)
  PROVE  n = Max({0} \cup {run[2] - run[1] + 1 :
                             run \in {r \in D \X D : r[1] <= r[2] /\ Run(D, r[1], r[2])}})
<1> DEFINE runs == {r \in D \X D : r[1] <= r[2] /\ Run(D, r[1], r[2])}
           lengths == {0} \cup {run[2] - run[1] + 1 : run \in runs}
<1>1. \A run \in runs : run[1] \in D /\ run[2] \in D /\ run[1] <= run[2] /\ Run(D, run[1], run[2])
  OBVIOUS
<1>2. lengths \subseteq Int
  <2>1. ASSUME NEW run \in runs PROVE run[2] - run[1] + 1 \in Int
    <3>1. run[1] \in Int /\ run[2] \in Int
      BY <1>1
    <3> HIDE DEF runs
    <3> QED  BY <3>1
  <2> HIDE DEF runs
  <2> QED  BY <2>1
<1>3. n \in lengths
  <2>1. CASE n = 0
    BY <2>1
  <2>2. ASSUME NEW from \in D, NEW to \in D, from <= to, Run(D, from, to), n = to - from + 1
        PROVE  n \in lengths
    <3>1. <<from, to>> \in runs /\ n = <<from, to>>[2] - <<from, to>>[1] + 1
      BY <2>2
    <3> HIDE DEF runs
    <3> QED  BY <3>1
  <2> QED  BY <2>1, <2>2 DEF Longest
<1>4. \A l \in lengths : l <= n
  <2>1. ASSUME NEW run \in runs PROVE run[2] - run[1] + 1 <= n
    <3> HIDE DEF runs
    <3> QED  BY <1>1 DEF Longest
  <2> HIDE DEF runs
  <2> QED  BY <2>1
<1> HIDE DEF lengths
<1>5. Max(lengths) = n
  BY <1>2, <1>3, <1>4, MaxIs
<1> QED  BY <1>5 DEF lengths


\* A finite set of days has a day before them all.
LEMMA BoundedBelow ==
  ASSUME NEW D, D \subseteq Int, IsFiniteSet(D), NEW day \in Int
  PROVE  \E k \in Nat : day - k \notin D
<1>1. SUFFICES ASSUME \A k \in Nat : day - k \in D PROVE FALSE
  OBVIOUS
<1> DEFINE N == Cardinality(D)
           f == [k \in 0..N |-> day - k]
<1>2. N \in Nat
  BY FS_CardinalityType
<1>3. IsFiniteSet(0..N) /\ Cardinality(0..N) = N + 1
  BY <1>2, FS_Interval
<1>4. f \in [0..N -> D]
  BY <1>1, <1>2
<1>5. \E x, y \in 0..N : x # y /\ f[x] = f[y]
  <2> HIDE DEF f
  <2>1. N < Cardinality(0..N)
    BY <1>2, <1>3
  <2> HIDE DEF N
  <2> QED  BY <1>3, <1>4, <2>1, FS_PigeonHole DEF N
<1> QED  BY <1>2, <1>5

\* Every day ends just one streak, if one of no days.
LEMMA EndsOnce ==
  ASSUME NEW D, D \subseteq Int, IsFiniteSet(D), NEW day \in Int
  PROVE  /\ \E n \in Nat : Ends(D, day, n)
         /\ \A m, n \in Nat : Ends(D, day, m) /\ Ends(D, day, n) => m = n
<1> DEFINE Out == {k \in Nat : day - k \notin D}
<1>1. Out \subseteq Nat /\ Out # {}
  BY BoundedBelow
<1>2. PICK n \in Out : \A m \in Nat : m < n => m \notin Out
  <2> HIDE DEF Out
  <2> QED  BY <1>1, LeastNumber
<1>3. Ends(D, day, n)
  <2>1. ASSUME NEW d \in Int, day - n < d, d <= day PROVE d \in D
    <3>1. day - d \in Nat /\ day - d < n /\ day - (day - d) = d
      BY <1>2, <2>1
    <3>2. day - d \notin Out
      BY <1>2, <3>1
    <3> QED  BY <3>1, <3>2
  <2> QED  BY <1>2, <2>1 DEF Ends
<1>4. ASSUME NEW k \in Nat, NEW m \in Nat, Ends(D, day, k), Ends(D, day, m) PROVE ~ (k < m)
  <2>1. day - k \notin D
    BY <1>4 DEF Ends
  <2>2. k < m => day - k \in D
    <3>1. k < m => day - m < day - k /\ day - k <= day /\ day - k \in Int
      OBVIOUS
    <3> QED  BY <1>4, <3>1 DEF Ends
  <2> QED  BY <2>1, <2>2
<1>5. ASSUME NEW k \in Nat, NEW m \in Nat, Ends(D, day, k), Ends(D, day, m) PROVE k = m
  BY <1>4, <1>5
<1> QED  BY <1>2, <1>3, <1>5

LEMMA EndsStep ==
  ASSUME NEW D, D \subseteq Int, NEW day \in Int, NEW n \in Nat
  PROVE  /\ Ends(D, day, 0) <=> day \notin D
         /\ Ends(D, day, n) /\ n # 0 => day \in D /\ Ends(D, day - 1, n - 1)
         /\ day \in D /\ Ends(D, day - 1, n) => Ends(D, day, n + 1)
<1>1. Ends(D, day, 0) <=> day \notin D
  BY DEF Ends
<1>2. ASSUME Ends(D, day, n), n # 0 PROVE day \in D /\ Ends(D, day - 1, n - 1)
  BY <1>2 DEF Ends
<1>3. ASSUME day \in D, Ends(D, day - 1, n) PROVE Ends(D, day, n + 1)
  BY <1>3 DEF Ends
<1> QED  BY <1>1, <1>2, <1>3

\* Counting back from a day finds the streak it ends.
LEMMA CountingBack ==
  ASSUME NEW D, D \subseteq Int, IsFiniteSet(D), NEW day \in Int
  PROVE  LET back[d \in Int] == IF d \in D THEN 1 + back[d - 1] ELSE 0
         IN back[day] \in Nat /\ Ends(D, day, back[day])
<1> DEFINE body(h, d) == IF d \in D THEN 1 + h[d - 1] ELSE 0
           g == [d \in Int |-> CHOOSE n \in Nat : Ends(D, d, n)]
           back == CHOOSE h : h = [d \in Int |-> body(h, d)]
<1>1. \A d \in Int : g[d] \in Nat /\ Ends(D, d, g[d])
  BY EndsOnce
<1>2. ASSUME NEW d \in Int PROVE g[d] = body(g, d)
  <2>1. g[d] \in Nat /\ Ends(D, d, g[d]) /\ d - 1 \in Int
        /\ g[d - 1] \in Nat /\ Ends(D, d - 1, g[d - 1])
    BY <1>1
  <2> HIDE DEF g
  <2>2. CASE d \in D
    <3>1. Ends(D, d, g[d - 1] + 1)
      BY <2>1, <2>2, EndsStep
    <3>2. g[d - 1] + 1 \in Nat
      BY <2>1
    <3>3. g[d] = g[d - 1] + 1
      BY <2>1, <3>1, <3>2, EndsOnce
    <3> QED  BY <2>1, <2>2, <3>3
  <2>3. CASE d \notin D
    <3>1. Ends(D, d, 0)
      BY <2>3, EndsStep
    <3>2. g[d] = 0
      BY <2>1, <3>1, EndsOnce
    <3> QED  BY <2>3, <3>2
  <2> QED  BY <2>2, <2>3
<1>3. back = [d \in Int |-> body(back, d)]
  <2>1. g = [d \in Int |-> g[d]]
    OBVIOUS
  <2> HIDE DEF g, body
  <2>2. g = [d \in Int |-> body(g, d)]
    BY <1>2, <2>1
  <2> QED  BY <2>2
<1>4. \A d \in Int : back[d] = body(back, d)
  <2> HIDE DEF back, body
  <2> QED  BY <1>3
<1> HIDE DEF back
<1> DEFINE Bad == {n \in Nat : \E d \in Int : Ends(D, d, n) /\ back[d] # n}
<1>5. ASSUME Bad # {} PROVE FALSE
  <2>1. PICK n \in Bad : \A m \in Nat : m < n => m \notin Bad
    <3>1. Bad \subseteq Nat
      OBVIOUS
    <3> HIDE DEF Bad
    <3> QED  BY <1>5, <3>1, LeastNumber
  <2>2. n \in Nat
    BY <2>1
  <2>3. PICK d \in Int : Ends(D, d, n) /\ back[d] # n
    BY <2>1
  <2>4. CASE n = 0
    <3>1. d \notin D
      BY <2>3, <2>4, EndsStep
    <3> QED  BY <1>4, <2>3, <2>4, <3>1
  <2>5. CASE n # 0
    <3>1. d \in D /\ Ends(D, d - 1, n - 1)
      BY <2>2, <2>3, <2>5, EndsStep
    <3>2. n - 1 \in Nat /\ n - 1 < n /\ d - 1 \in Int
      BY <2>2, <2>5
    <3>3. n - 1 \notin Bad
      <4> HIDE DEF Bad
      <4> QED  BY <2>1, <3>2
    <3>4. back[d - 1] = n - 1
      BY <3>1, <3>2, <3>3
    <3>5. back[d] = 1 + back[d - 1]
      BY <1>4, <3>1
    <3> QED  BY <2>2, <2>3, <3>4, <3>5
  <2> QED  BY <2>4, <2>5
<1>6. back[day] \in Nat /\ Ends(D, day, back[day])
  <2>1. PICK n \in Nat : Ends(D, day, n)
    BY EndsOnce
  <2>2. back[day] = n
    BY <1>5, <2>1
  <2> QED  BY <2>1, <2>2
<1> QED  BY <1>6 DEF back


(***************************************************************************)
(* Sums and rounding                                                       *)
(***************************************************************************)
LEMMA UpTo ==
  ASSUME NEW n \in Nat
  PROVE  IsFiniteSet(1..n) /\ Cardinality(1..n) = n
BY FS_Interval

\* What a point is.
LEMMA PointsOf ==
  ASSUME NEW S, NEW worth, NEW p
  PROVE  p \in Points(S, worth) <=> \E i \in S : \E k \in 1..worth[i] : p = <<i, k>>
BY DEF Points

(* A column of n cells has n members. *)
LEMMA OneColumn ==
  ASSUME NEW x, NEW n \in Nat
  PROVE  IsFiniteSet({x} \X (1..n)) /\ Cardinality({x} \X (1..n)) = n
<1> DEFINE one == {x}
           many == 1..n
<1>1. IsFiniteSet(many) /\ Cardinality(many) = n
  BY UpTo
<1>2. IsFiniteSet(one) /\ Cardinality(one) = 1
  BY FS_Singleton
<1> HIDE DEF one, many
<1>3. IsFiniteSet(one \X many)
  BY <1>1, <1>2, FS_Product
<1>4. Cardinality(one \X many) = Cardinality(one) * Cardinality(many)
  BY <1>1, <1>2, FS_Product
<1>5. Cardinality(one \X many) = n
  BY <1>1, <1>2, <1>4
<1> QED  BY <1>3, <1>5 DEF one, many

\* The points of a set are those of an element and those of the rest.
LEMMA PointsAddUp ==
  ASSUME NEW S, IsFiniteSet(S), NEW worth, \A i \in S : worth[i] \in 0..100
  PROVE  /\ IsFiniteSet(Points(S, worth)) /\ Cardinality(Points(S, worth)) \in Nat
         /\ Cardinality(Points(S, worth)) <= 100 * Cardinality(S)
         /\ S = {} => Cardinality(Points(S, worth)) = 0
         /\ \A x \in S : Cardinality(Points(S \ {x}, worth)) = Cardinality(Points(S, worth)) - worth[x]
<1>1. /\ IsFiniteSet(1..100) /\ Cardinality(1..100) = 100
      /\ IsFiniteSet(S \X (1..100)) /\ Cardinality(S \X (1..100)) = Cardinality(S) * 100
      /\ Cardinality(S) \in Nat
  <2> DEFINE c == 100
  <2>1. c \in Nat
    OBVIOUS
  <2> HIDE DEF c
  <2>2. IsFiniteSet(1..c) /\ Cardinality(1..c) = c
    BY <2>1, UpTo
  <2>3. IsFiniteSet(S \X (1..c)) /\ Cardinality(S \X (1..c)) = Cardinality(S) * Cardinality(1..c)
    BY <2>2, FS_Product
  <2>4. Cardinality(S) \in Nat
    BY FS_CardinalityType
  <2> QED  BY <2>2, <2>3, <2>4 DEF c
<1>2. \A T \in SUBSET S : Points(T, worth) \in SUBSET (S \X (1..100))
  <2>1. \A i \in S : 1..worth[i] \subseteq 1..100
    OBVIOUS
  <2> QED  BY <2>1 DEF Points
<1>3. \A T \in SUBSET S : /\ IsFiniteSet(Points(T, worth)) /\ Cardinality(Points(T, worth)) \in Nat
                          /\ Cardinality(Points(T, worth)) <= Cardinality(S \X (1..100))
  BY <1>1, <1>2, FS_Subset, FS_CardinalityType
<1>4. ASSUME S = {} PROVE Cardinality(Points(S, worth)) = 0
  <2>1. Points(S, worth) = {}
    BY <1>4 DEF Points
  <2> QED  BY <2>1, FS_EmptySet
<1>5. ASSUME NEW x \in S
      PROVE  Cardinality(Points(S \ {x}, worth)) = Cardinality(Points(S, worth)) - worth[x]
  <2> DEFINE rest == Points(S \ {x}, worth)
             own == {x} \X (1..worth[x])
  <2>1. IsFiniteSet(own) /\ Cardinality(own) = worth[x]
    <3>1. worth[x] \in Nat
      OBVIOUS
    <3> QED  BY <3>1, OneColumn
  <2>2. rest \cap own = {}
    BY DEF Points
  <2>3. Points(S, worth) = rest \cup own
    <3>1. \A p : p \in own <=> \E k \in 1..worth[x] : p = <<x, k>>
      OBVIOUS
    <3> HIDE DEF own
    <3>2. ASSUME NEW p PROVE p \in Points(S, worth) <=> p \in rest \cup own
      <4> DEFINE at(i) == \E k \in 1..worth[i] : p = <<i, k>>
      <4>1. p \in Points(S, worth) <=> \E i \in S : at(i)
        BY PointsOf
      <4>2. p \in rest <=> \E i \in S \ {x} : at(i)
        BY PointsOf
      <4>3. p \in own <=> at(x)
        BY <3>1
      <4> HIDE DEF rest, at
      <4> QED  BY <4>1, <4>2, <4>3
    <3> HIDE DEF rest
    <3> QED  BY <3>2
  <2>4. IsFiniteSet(rest) /\ Cardinality(rest) \in Nat
    BY <1>3
  <2> HIDE DEF rest, own
  <2>5. Cardinality(rest \cup own) = Cardinality(rest) + Cardinality(own) - Cardinality({})
    BY <2>1, <2>2, <2>4, FS_Union
  <2>6. Cardinality({}) = 0
    BY FS_EmptySet
  <2>7. Cardinality(Points(S, worth)) = Cardinality(rest) + worth[x] /\ worth[x] \in Int
    BY <2>1, <2>3, <2>4, <2>5, <2>6
  <2> QED  BY <2>4, <2>7 DEF rest
<1>6. /\ IsFiniteSet(Points(S, worth)) /\ Cardinality(Points(S, worth)) \in Nat
      /\ Cardinality(Points(S, worth)) <= Cardinality(S) * 100
  BY <1>1, <1>3
<1>7. Cardinality(Points(S, worth)) <= 100 * Cardinality(S)
  BY <1>1, <1>6
<1> QED  BY <1>4, <1>5, <1>6, <1>7

\* The sums over a list are those of its points and of what they fall short.
LEMMA SumFold ==
  ASSUME NEW n \in Nat,
         NEW worth \in Seq(Int), DOMAIN worth = 1..n, \A i \in 1..n : worth[i] \in 0..100
  PROVE  /\ FoldLeft(+, 200, worth) = 200 + Cardinality(Points(1..n, worth))
         /\ FoldLeft(LAMBDA sum, p : sum + 100 - p, 200, worth)
              = 200 + 100 * n - Cardinality(Points(1..n, worth))
<1> DEFINE won(s) == Cardinality(Points(s, worth))
           lost(s) == 100 * Cardinality(s) - Cardinality(Points(s, worth))
           up(h, s) == IF s = {} THEN 200 ELSE h[s \ {Max(s)}] + worth[Max(s)]
           down(h, s) == IF s = {} THEN 200 ELSE h[s \ {Max(s)}] + 100 - worth[Max(s)]
           f == CHOOSE h : h = [s \in SUBSET (1..n) |-> up(h, s)]
           g == CHOOSE h : h = [s \in SUBSET (1..n) |-> down(h, s)]
           rise == [s \in SUBSET (1..n) |-> 200 + won(s)]
           fall == [s \in SUBSET (1..n) |-> 200 + lost(s)]
<1>1. FoldLeft(+, 200, worth) = f[1..n]
  BY DEF FoldLeft, MapThenFoldSet
<1>2. FoldLeft(LAMBDA sum, p : sum + 100 - p, 200, worth) = g[1..n]
  BY DEF FoldLeft, MapThenFoldSet
<1>3. ASSUME NEW s \in SUBSET (1..n)
      PROVE  /\ won(s) \in Int /\ lost(s) \in Int
             /\ s = {} => won(s) = 0 /\ lost(s) = 0
             /\ s # {} =>
                  /\ Max(s) \in 1..n /\ s \ {Max(s)} \in SUBSET (1..n)
                  /\ won(s \ {Max(s)}) = won(s) - worth[Max(s)]
                  /\ lost(s \ {Max(s)}) = lost(s) - 100 + worth[Max(s)]
  <2>1. IsFiniteSet(s) /\ \A i \in s : worth[i] \in 0..100
    <3>1. IsFiniteSet(1..n)
      BY FS_Interval
    <3> QED  BY <3>1, FS_Subset
  <2>2. Cardinality(s) \in Nat /\ (s = {} => Cardinality(s) = 0)
    BY <2>1, FS_CardinalityType, FS_EmptySet
  <2>3. /\ Cardinality(Points(s, worth)) \in Nat
        /\ s = {} => Cardinality(Points(s, worth)) = 0
        /\ \A x \in s : Cardinality(Points(s \ {x}, worth)) = Cardinality(Points(s, worth)) - worth[x]
    BY <2>1, PointsAddUp
  <2>4. ASSUME s # {}
        PROVE  /\ Max(s) \in 1..n /\ s \ {Max(s)} \in SUBSET (1..n)
               /\ won(s \ {Max(s)}) = won(s) - worth[Max(s)]
               /\ lost(s \ {Max(s)}) = lost(s) - 100 + worth[Max(s)]
    <3>1. PICK x \in s : x = Max(s)
      BY <2>4, MaxOfPositions
    <3>2. Cardinality(s \ {x}) = Cardinality(s) - 1
      BY <2>1, FS_RemoveElement
    <3>3. Cardinality(Points(s \ {x}, worth)) = Cardinality(Points(s, worth)) - worth[x] /\ worth[x] \in Int
      BY <2>1, <2>3
    <3>4. x \in 1..n /\ s \ {x} \in SUBSET (1..n)
      OBVIOUS
    <3>5. won(s \ {x}) = won(s) - worth[x] /\ lost(s \ {x}) = lost(s) - 100 + worth[x]
      BY <2>2, <2>3, <3>2, <3>3
    <3> HIDE DEF won, lost
    <3> QED  BY <3>1, <3>4, <3>5
  <2>5. won(s) \in Int /\ lost(s) \in Int /\ (s = {} => won(s) = 0 /\ lost(s) = 0)
    BY <2>2, <2>3
  <2> HIDE DEF won, lost
  <2> QED  BY <2>4, <2>5
<1> HIDE DEF won, lost
<1>4. ASSUME NEW h, h = [s \in SUBSET (1..n) |-> up(h, s)], NEW s \in SUBSET (1..n)
      PROVE  h[s] = up(h, s)
  <2> HIDE DEF up
  <2> QED  BY <1>4
<1>5. ASSUME NEW h, h = [s \in SUBSET (1..n) |-> down(h, s)], NEW s \in SUBSET (1..n)
      PROVE  h[s] = down(h, s)
  <2> HIDE DEF down
  <2> QED  BY <1>5


<1>6. \A i \in 1..n : worth[i] \in Int
  OBVIOUS
<1>7. ASSUME NEW s \in SUBSET (1..n) PROVE rise[s] = up(rise, s) /\ fall[s] = down(fall, s)
  <2>1. CASE s = {}
    <3>1. won(s) = 0 /\ lost(s) = 0
      BY <1>3, <2>1
    <3>2. rise[s] = 200 + won(s) /\ fall[s] = 200 + lost(s)
      OBVIOUS
    <3> HIDE DEF rise, fall
    <3> QED  BY <2>1, <3>1, <3>2
  <2>2. CASE s # {}
    <3>1. PICK x \in 1..n : x = Max(s) /\ s \ {x} \in SUBSET (1..n)
      BY <1>3, <2>2
    <3>2. won(s \ {x}) = won(s) - worth[x] /\ lost(s \ {x}) = lost(s) - 100 + worth[x]
          /\ won(s) \in Int /\ lost(s) \in Int
      BY <1>3, <2>2, <3>1
    <3>3. worth[x] \in Int
      OBVIOUS
    <3>4. rise[s] = rise[s \ {x}] + worth[x]
      BY <3>1, <3>2, <3>3
    <3>5. fall[s] = fall[s \ {x}] + 100 - worth[x]
      BY <3>1, <3>2, <3>3
    <3> HIDE DEF rise, fall
    <3> QED  BY <2>2, <3>1, <3>4, <3>5
  <2> QED  BY <2>1, <2>2
<1>8. rise = [s \in SUBSET (1..n) |-> up(rise, s)]
  <2>1. rise = [s \in SUBSET (1..n) |-> rise[s]]
    OBVIOUS
  <2> HIDE DEF rise, up
  <2> QED  BY <1>7, <2>1
<1>9. fall = [s \in SUBSET (1..n) |-> down(fall, s)]
  <2>1. fall = [s \in SUBSET (1..n) |-> fall[s]]
    OBVIOUS
  <2> HIDE DEF fall, down
  <2> QED  BY <1>7, <2>1
<1>10. f = [s \in SUBSET (1..n) |-> up(f, s)]
  <2> HIDE DEF rise, up
  <2> QED  BY <1>8
<1>11. g = [s \in SUBSET (1..n) |-> down(g, s)]
  <2> HIDE DEF fall, down
  <2> QED  BY <1>9
<1> HIDE DEF f, g
<1>12. \A s \in SUBSET (1..n) : f[s] = up(f, s)
  <2> HIDE DEF up
  <2> QED  BY <1>4, <1>10
<1>13. \A s \in SUBSET (1..n) : g[s] = down(g, s)
  <2> HIDE DEF down
  <2> QED  BY <1>5, <1>11
<1> DEFINE Bad == {k \in 0..n : \E s \in SUBSET (1..k) : ~ (f[s] = rise[s] /\ g[s] = fall[s])}
<1>14. ASSUME Bad # {} PROVE FALSE
  <2>1. PICK k \in Bad : \A m \in Nat : m < k => m \notin Bad
    <3>1. Bad \subseteq Nat
      OBVIOUS
    <3> HIDE DEF Bad
    <3> QED  BY <1>14, <3>1, LeastNumber
  <2>2. PICK s \in SUBSET (1..k) : ~ (f[s] = rise[s] /\ g[s] = fall[s])
    <3> HIDE DEF rise, fall
    <3> QED  BY <2>1
  <2>3. k \in 0..n /\ s \in SUBSET (1..n)
    BY <2>1
  <2> HIDE DEF rise, fall
  <2>4. f[s] = up(f, s) /\ rise[s] = up(rise, s) /\ g[s] = down(g, s) /\ fall[s] = down(fall, s)
    <3> HIDE DEF up, down
    <3> QED  BY <1>7, <1>12, <1>13, <2>3
  <2>5. CASE s = {}
    BY <2>2, <2>4, <2>5
  <2>6. CASE s # {}
    <3>1. PICK x \in s : x = Max(s) /\ \A y \in s : y <= x
      BY <2>3, <2>6, MaxOfPositions
    <3> DEFINE t == s \ {x}
    <3>2. k \in Nat /\ k # 0 /\ \A i \in s : i \in 1..k /\ i \in 1..n
      BY <2>2, <2>3, <2>6
    <3>3. t \in SUBSET (1..(k - 1)) /\ k - 1 \in 0..n /\ k - 1 < k /\ k - 1 \in Nat
      <4>1. \A i \in t : i \in 1..(k - 1)
        BY <3>1, <3>2
      <4> QED  BY <2>3, <3>2, <4>1
    <3>4. f[t] = rise[t] /\ g[t] = fall[t]
      <4>1. k - 1 \notin Bad
        <5> HIDE DEF Bad
        <5> QED  BY <2>1, <3>3
      <4> HIDE DEF t
      <4> QED  BY <3>3, <4>1
    <3> QED  BY <2>2, <2>4, <2>6, <3>1, <3>4
  <2> QED  BY <2>5, <2>6
<1>15. f[1..n] = 200 + won(1..n) /\ g[1..n] = 200 + lost(1..n)
  <2>1. n \in 0..n /\ 1..n \in SUBSET (1..n)
    OBVIOUS
  <2>2. f[1..n] = rise[1..n] /\ g[1..n] = fall[1..n]
    <3> HIDE DEF rise, fall
    <3> QED  BY <1>14, <2>1
  <2> QED  BY <2>1, <2>2
<1>16. won(1..n) = Cardinality(Points(1..n, worth)) /\ lost(1..n) = 100 * n - Cardinality(Points(1..n, worth))
  <2>1. Cardinality(1..n) = n
    BY FS_Interval
  <2> QED  BY <2>1 DEF won, lost
<1>17. won(1..n) \in Int /\ lost(1..n) \in Int
  <2>1. 1..n \in SUBSET (1..n)
    OBVIOUS
  <2> QED  BY <1>3, <2>1
<1>18. Cardinality(Points(1..n, worth)) \in Int
  BY <1>16, <1>17
<1> QED  BY <1>1, <1>2, <1>15, <1>16, <1>18

\* Rounding is right to half a unit, upward.
LEMMA Rounding ==
  ASSUME NEW n \in Nat, NEW d \in Nat \ {0}
  PROVE  /\ roundHalfUp(n, d) \in Int
         /\ 2 * d * roundHalfUp(n, d) <= 2 * n + d
         /\ 2 * n + d < 2 * d * roundHalfUp(n, d) + 2 * d
<1> DEFINE m == 2 * n + d
           e == 2 * d
<1>1. m \in Nat /\ e \in Nat \ {0}
  OBVIOUS
<1>2. m \div e \in Int /\ e * (m \div e) <= m /\ m < e * (m \div e) + e
  <2> HIDE DEF m, e
  <2> QED  BY <1>1
<1> QED  BY <1>2 DEF roundHalfUp


(***************************************************************************)
(* The profile                                                             *)
(***************************************************************************)
Earlier(D) == {p \in D \X D : p[1] < p[2]}

LEMMA DaysInOrder ==
  ASSUME NEW D, D \subseteq Int, IsFiniteSet(D)
  PROVE  /\ InOrder(inOrder(D, <), D, Earlier(D))
         /\ Cardinality(D) \in Nat
         /\ inOrder(D, <) \in Seq(Int) /\ DOMAIN inOrder(D, <) = 1..Cardinality(D)
         /\ \A i, j \in 1..Cardinality(D) : i < j => inOrder(D, <)[i] < inOrder(D, <)[j]
         /\ D = {inOrder(D, <)[i] : i \in 1..Cardinality(D)}
<1> DEFINE s == inOrder(D, <)
           N == Cardinality(D)
<1>1. Orders(Earlier(D), D)
  <2>1. \A a, b \in D : <<a, b>> \in Earlier(D) <=> a < b
    BY DEF Earlier
  <2>2. \A a \in D : a \in Int
    OBVIOUS
  <2> QED  BY <2>1, <2>2 DEF Orders
<1> HIDE DEF s
<1>2. \A a \in D : Place(a, D, Earlier(D)) = Cardinality({b \in D : b < a})
  <2>1. \A a \in D : {b \in D : <<b, a>> \in Earlier(D)} = {b \in D : b < a}
    BY DEF Earlier
  <2> QED  BY <2>1 DEF Place
<1>3. InOrder(s, D, Earlier(D))
  <2>1. s = [n \in 1..N |-> CHOOSE a \in D : Cardinality({b \in D : b < a}) = n - 1]
    BY DEF inOrder, s
  <2> HIDE DEF s
  <2>2. ASSUME NEW n \in 1..N
        PROVE  s[n] \in D /\ Place(s[n], D, Earlier(D)) = n - 1
    <3>1. \E a \in D : Cardinality({b \in D : b < a}) = n - 1
      <4>1. PICK a \in D : Place(a, D, Earlier(D)) = n - 1
        BY <1>1, SomebodyTakesPlace
      <4> QED  BY <1>2, <4>1
    <3>2. s[n] = CHOOSE a \in D : Cardinality({b \in D : b < a}) = n - 1
      BY <2>1
    <3>3. s[n] \in D /\ Cardinality({b \in D : b < s[n]}) = n - 1
      BY <3>1, <3>2
    <3> QED  BY <1>2, <3>3
  <2>3. s \in [1..N -> D]
    BY <2>1, <2>2
  <2> QED  BY <1>1, <2>2, <2>3, Sorting
<1>4. N \in Nat
  BY FS_CardinalityType
<1> HIDE DEF s
<1>5. s \in Seq(Int) /\ DOMAIN s = 1..N /\ \A i \in 1..N : s[i] \in D
  <2>1. s \in [1..N -> D]
    BY <1>3 DEF InOrder
  <2>2. s \in [1..N -> Int]
    BY <2>1
  <2> QED  BY <1>4, <2>1, <2>2
<1>6. \A i, j \in 1..N : i < j => s[i] < s[j]
  BY <1>3 DEF InOrder, Earlier
<1>7. D = {s[i] : i \in 1..N}
  BY <1>3, <1>5 DEF InOrder
<1> QED  BY <1>3, <1>4, <1>5, <1>6, <1>7 DEF s


\* A case is worth 0 to 100.
LEMMA WorthOfCase ==
  ASSUME NEW a \in Snapshots
  PROVE  regionalPerformance(a) \in 0..100
<1>1. a.e \in 0..4 /\ a.W \in Nat
  <2>1. a.e \in 0..MaxEvidence /\ a.W \in 0..AllWrong
    BY DEF Snapshots
  <2>2. AllWrong \in Int
    BY EngineAssumption DEF AllWrong
  <2> HIDE DEF AllWrong
  <2> QED  BY <2>1, <2>2, EngineAssumption
<1>2. KnowledgeBase[a.e] \in 0..100
  BY <1>1 DEF KnowledgeBase
<1> DEFINE base == KnowledgeBase[a.e]
           W == a.W
<1>3. AtLeastZero(base - 5 * W) \in 0..100
  <2>1. base \in 0..100 /\ W \in Nat
    BY <1>1, <1>2
  <2> HIDE DEF base, W
  <2> QED  BY <2>1 DEF AtLeastZero
<1> QED  BY <1>3 DEF regionalPerformance

\* The first n of cases are the days of final in order, each of which is worth
\* as much in the list as it is by day.
ListsDays(cases, n, worth, final, value) ==
  /\ n \in Nat /\ final \subseteq Int /\ IsFiniteSet(final)
  /\ \A i, j \in 1..n : i < j => cases[i] < cases[j]
  /\ \A i \in 1..n : cases[i] \in final /\ worth[i] = value[cases[i]]
  /\ \A day \in final : (\E i \in 1..n : day = cases[i]) /\ value[day] \in 0..100

\* The points of a list of cases are those of the cases.
LEMMA SamePoints ==
  ASSUME NEW cases, NEW n, NEW worth, NEW final, NEW value, ListsDays(cases, n, worth, final, value)
  PROVE  Cardinality(Points(1..n, worth)) = Cardinality(Points(final, value))
<1> DEFINE A == Points(1..n, worth)
           B == Points(final, value)
           f == [p \in A |-> <<cases[p[1]], p[2]>>]
<1>1. /\ \A i \in 1..n : cases[i] \in final /\ cases[i] \in Int
      /\ \A i, j \in 1..n : i < j => cases[i] < cases[j]
      /\ \A day \in final : (\E i \in 1..n : day = cases[i]) /\ value[day] \in 0..100
      /\ \A i \in 1..n : worth[i] = value[cases[i]]
      /\ n \in Nat /\ final \subseteq Int /\ IsFiniteSet(final)
  BY DEF ListsDays
<1>2. \A i, j \in 1..n : cases[i] = cases[j] => i = j
  <2> SUFFICES ASSUME NEW i \in 1..n, NEW j \in 1..n, cases[i] = cases[j] PROVE i = j
    OBVIOUS
  <2>1. ~ (i < j) /\ ~ (j < i)
    BY <1>1
  <2> QED  BY <2>1
<1>3. /\ \A p : p \in A <=> \E i \in 1..n : \E k \in 1..worth[i] : p = <<i, k>>
      /\ \A p : p \in B <=> \E day \in final : \E k \in 1..value[day] : p = <<day, k>>
  <2> SUFFICES ASSUME NEW p
               PROVE  /\ p \in A <=> \E i \in 1..n : \E k \in 1..worth[i] : p = <<i, k>>
                      /\ p \in B <=> \E day \in final : \E k \in 1..value[day] : p = <<day, k>>
    OBVIOUS
  <2> HIDE DEF f
  <2>1. p \in Points(1..n, worth) <=> \E i \in 1..n : \E k \in 1..worth[i] : p = <<i, k>>
    <3> DEFINE S == 1..n
    <3> HIDE DEF S
    <3>1. p \in Points(S, worth) <=> \E i \in S : \E k \in 1..worth[i] : p = <<i, k>>
      BY PointsOf
    <3> QED  BY <3>1 DEF S
  <2>2. p \in Points(final, value) <=> \E day \in final : \E k \in 1..value[day] : p = <<day, k>>
    BY PointsOf
  <2> QED  BY <2>1, <2>2
<1>4. IsFiniteSet(A)
  <2>1. IsFiniteSet(1..n) /\ \A i \in 1..n : worth[i] \in 0..100
    BY <1>1, UpTo
  <2> QED  BY <2>1, PointsAddUp
<1> HIDE DEF A, B
<1>5. \A p \in A : f[p] \in B
  <2> SUFFICES ASSUME NEW p \in A PROVE <<cases[p[1]], p[2]>> \in B
    OBVIOUS
  <2>1. PICK i \in 1..n : \E k \in 1..worth[i] : p = <<i, k>>
    BY <1>3
  <2>2. PICK k \in 1..worth[i] : p = <<i, k>>
    BY <2>1
  <2> QED  BY <1>1, <1>3, <2>2
<1>6. \A q \in B : \E p \in A : f[p] = q
  <2> SUFFICES ASSUME NEW q \in B PROVE \E p \in A : f[p] = q
    OBVIOUS
  <2>1. PICK day \in final : \E k \in 1..value[day] : q = <<day, k>>
    BY <1>3
  <2>2. PICK k \in 1..value[day] : q = <<day, k>>
    BY <2>1
  <2>3. PICK i \in 1..n : day = cases[i]
    BY <1>1
  <2>4. <<i, k>> \in A
    BY <1>1, <1>3, <2>2, <2>3
  <2> QED  BY <2>2, <2>3, <2>4
<1>7. \A p, q \in A : f[p] = f[q] => p = q
  <2> SUFFICES ASSUME NEW p \in A, NEW q \in A, <<cases[p[1]], p[2]>> = <<cases[q[1]], q[2]>> PROVE p = q
    OBVIOUS
  <2>1. PICK i \in 1..n : \E k \in 1..worth[i] : p = <<i, k>>
    BY <1>3
  <2>2. PICK j \in 1..n : \E l \in 1..worth[j] : q = <<j, l>>
    BY <1>3
  <2>3. PICK k \in 1..worth[i] : p = <<i, k>>
    BY <2>1
  <2>4. PICK l \in 1..worth[j] : q = <<j, l>>
    BY <2>2
  <2> QED  BY <1>2, <2>3, <2>4
<1>8. f \in Bijection(A, B)
  <2>1. DOMAIN f = A
    OBVIOUS
  <2>2. f = [p \in A |-> f[p]]
    BY <2>1
  <2> HIDE DEF f
  <2> QED  BY <1>5, <1>6, <1>7, <2>1, <2>2 DEF Bijection, Injection, Surjection, IsInjective
<1> QED  BY <1>4, <1>8, FS_Bijection DEF ExistsBijection, A, B

\* The guest's profile is the history summed up: both streaks as the
\* maxima of the runs of days there are, the games counted, the accuracy
\* and the region's knowledge right to half a point
\* (aggregates.ts:39, 68, 135, 151 and 198).
THEOREM ProfileIsRight ==
  ASSUME NEW history, IsHistory(history), NEW today \in Int
  PROVE  IsProfileOf(calculateProfileStatistics(history, today), history, today)
<1> DEFINE played == Participated(history)
           N == Cardinality(played)
           days == inOrder(played, <)
           final == Finalized(history)
           M == Cardinality(final)
           cases == inOrder(final, <)
           won == {day \in final : history[day].attempt.state = "SOLVED"}
           value == [day \in final |-> regionalPerformance(history[day].attempt)]
           worth == [i \in DOMAIN cases |-> regionalPerformance(history[cases[i]].attempt)]
           report == calculateProfileStatistics(history, today)
           runs == {run \in played \X played : run[1] <= run[2] /\ Run(played, run[1], run[2])}
<1>1. /\ played \subseteq Int /\ IsFiniteSet(played) /\ N \in Nat
      /\ final \subseteq Int /\ IsFiniteSet(final) /\ M \in Nat
      /\ \A day \in final : history[day].attempt \in Snapshots
  <2>1. /\ played \in SUBSET DOMAIN history /\ final \in SUBSET DOMAIN history
        /\ IsFiniteSet(DOMAIN history) /\ DOMAIN history \subseteq Int
        /\ \A day \in DOMAIN history : history[day].attempt \in Snapshots
    BY DEF Participated, Finalized, IsHistory
  <2> HIDE DEF played, final
  <2>2. /\ IsFiniteSet(played) /\ N \in Nat /\ IsFiniteSet(final) /\ M \in Nat
    BY <2>1, FS_Subset, FS_CardinalityType
  <2> QED  BY <2>1, <2>2
<1>2. /\ days \in Seq(Int) /\ DOMAIN days = 1..N
      /\ \A i, j \in 1..N : i < j => days[i] < days[j]
      /\ played = {days[i] : i \in 1..N}
  <2> HIDE DEF played
  <2> QED  BY <1>1, DaysInOrder
<1>3. /\ cases \in Seq(Int) /\ DOMAIN cases = 1..M
      /\ \A i, j \in 1..M : i < j => cases[i] < cases[j]
      /\ final = {cases[i] : i \in 1..M}
  <2> HIDE DEF final
  <2> QED  BY <1>1, DaysInOrder
<1> HIDE DEF days, cases
<1>4. /\ report.longestStreak = FoldLeft(Extend, NoRun, days).best
      /\ report.currentStreak = calculateCurrentStreak(played, today)
      /\ report.solved = Cardinality(won) /\ report.failed = M - Cardinality(won)
      /\ report.accuracy = IF final = {} THEN 0 ELSE roundHalfUp(Cardinality(won) * 100, M)
      /\ report.region = calculateRegionalKnowledge(worth)
  BY DEF calculateProfileStatistics, calculateLongestStreak, days, cases, NoRun
<1> HIDE DEF report
<1>5. report.longestStreak = Max({0} \cup {run[2] - run[1] + 1 : run \in runs})
  <2> HIDE DEF played
  <2>1. Seen(played, FoldLeft(Extend, NoRun, days))
    <3>1. Seen({days[i] : i \in 1..N}, FoldLeft(Extend, NoRun, days))
      BY <1>1, <1>2, StreakFold
    <3> QED  BY <1>2, <3>1
  <2>2. FoldLeft(Extend, NoRun, days).best \in Nat /\ Longest(played, FoldLeft(Extend, NoRun, days).best)
    BY <2>1 DEF Seen, Runs
  <2> QED  BY <1>1, <1>4, <2>2, LongestIsMax


<1>6. report.currentStreak =
        Max({0} \cup {run[2] - run[1] + 1 : run \in {r \in runs : r[2] = today}}
            \cup {run[2] - run[1] + 1 : run \in {r \in runs : r[2] = today - 1 /\ today \notin played}})
  <2> DEFINE e == IF today \in played THEN today ELSE today - 1
             n == report.currentStreak
             Counted == {r \in runs : r[2] = today} \cup {r \in runs : r[2] = today - 1 /\ today \notin played}
             lengths == {0} \cup {run[2] - run[1] + 1 : run \in Counted}
  <2> HIDE DEF played
  <2>1. n \in Nat /\ Ends(played, e, n)
    <3>1. e \in Int
      OBVIOUS
    <3> HIDE DEF e
    <3>2. LET back[d \in Int] == IF d \in played THEN 1 + back[d - 1] ELSE 0
          IN back[e] \in Nat /\ Ends(played, e, back[e])
      BY <1>1, <3>1, CountingBack
    <3> QED  BY <1>4, <3>2 DEF calculateCurrentStreak, e
  <2>2. \A run \in runs : run[1] \in Int /\ run[2] \in Int /\ run[1] \in played /\ run[2] \in played
                          /\ run[1] <= run[2] /\ Run(played, run[1], run[2])
    BY <1>1
  <2>3. \A run \in Counted : run \in runs /\ run[2] = e
    <3>1. \A run \in runs : run[2] = today => today \in played
      BY <2>2
    <3> HIDE DEF runs
    <3> QED  BY <3>1
  <2>4. lengths \subseteq Int
    <3>1. ASSUME NEW run \in Counted PROVE run[2] - run[1] + 1 \in Int
      <4> HIDE DEF Counted, runs
      <4> QED  BY <2>2, <2>3
    <3> HIDE DEF Counted, runs
    <3> QED  BY <3>1
  <2>5. n \in lengths
    <3>1. CASE n = 0
      BY <3>1
    <3>2. CASE n # 0
      <4>1. e \in Int /\ e - n < e - n + 1 /\ e - n + 1 <= e /\ e - n + 1 \in Int
        BY <2>1, <3>2
      <4> HIDE DEF e, n
      <4>2. e \in played /\ e - n + 1 \in played /\ Run(played, e - n + 1, e)
        BY <2>1, <4>1 DEF Ends, Run
      <4>3. <<e - n + 1, e>> \in runs
        BY <4>1, <4>2
      <4>4. <<e - n + 1, e>> \in Counted
        <5>1. <<e - n + 1, e>>[2] = e
          OBVIOUS
        <5> HIDE DEF runs
        <5> QED  BY <4>3, <5>1 DEF e
      <4>5. n = <<e - n + 1, e>>[2] - <<e - n + 1, e>>[1] + 1
        BY <2>1, <4>1
      <4> HIDE DEF Counted, runs
      <4> QED  BY <4>4, <4>5
    <3> QED  BY <3>1, <3>2
  <2>6. \A l \in lengths : l <= n
    <3>1. ASSUME NEW run \in Counted PROVE run[2] - run[1] + 1 <= n
      <4>1. run[1] \in Int /\ run[1] <= e /\ run[2] = e /\ Run(played, run[1], e) /\ e \in Int
        <5> HIDE DEF Counted, runs
        <5> QED  BY <2>2, <2>3
      <4> HIDE DEF e, n
      <4>2. e - n \notin run[1]..e
        BY <2>1, <4>1 DEF Ends, Run
      <4> QED  BY <2>1, <4>1, <4>2
    <3> HIDE DEF Counted, runs, n
    <3> QED  BY <2>1, <3>1
  <2> HIDE DEF lengths
  <2>7. Max(lengths) = n
    BY <2>4, <2>5, <2>6, MaxIs
  <2>8. lengths = {0} \cup {run[2] - run[1] + 1 : run \in {r \in runs : r[2] = today}}
            \cup {run[2] - run[1] + 1 : run \in {r \in runs : r[2] = today - 1 /\ today \notin played}}
    <3> HIDE DEF runs
    <3> QED  BY DEF lengths
  <2> QED  BY <2>7, <2>8
<1> DEFINE W == Cardinality(won)
           P == Cardinality(Points(final, value))
<1>7. W \in Nat /\ W <= M /\ M \in Nat
  <2>1. won \in SUBSET final
    OBVIOUS
  <2> HIDE DEF won, final
  <2>2. W <= M /\ W \in Nat
    BY <1>1, <2>1, FS_Subset, FS_CardinalityType
  <2> QED  BY <1>1, <2>2
<1>8. M > 0 => 2 * M * report.accuracy - 200 * report.solved \in (1 - M)..M
  <2> HIDE DEF W
  <2>1. ASSUME M > 0
        PROVE  2 * M * report.accuracy - 200 * W \in (1 - M)..M
    <3>1. final # {}
      <4> HIDE DEF final
      <4> QED  BY <2>1, FS_EmptySet
    <3>2. report.accuracy = roundHalfUp(W * 100, M)
      BY <1>4, <3>1 DEF W
    <3> HIDE DEF M
    <3>3. W * 100 \in Nat /\ M \in Nat \ {0}
      BY <1>7, <2>1
    <3> DEFINE a == roundHalfUp(W * 100, M)
    <3>4. a \in Int /\ 2 * M * a <= 2 * (W * 100) + M /\ 2 * (W * 100) + M < 2 * M * a + 2 * M
      BY <3>3, Rounding
    <3> HIDE DEF a
    <3>5. 2 * M * a \in Int
      BY <3>3, <3>4
    <3>6. 2 * M * a - 200 * W \in (1 - M)..M
      BY <1>7, <3>4, <3>5
    <3> QED  BY <3>2, <3>6 DEF a
  <2> QED  BY <1>4, <2>1 DEF W
<1>9. P \in Nat /\ 2 * (M + 4) * report.region - 2 * (200 + P) \in (-3 - M)..(M + 4)
  <2>1. \A day \in final : value[day] = regionalPerformance(history[day].attempt) /\ value[day] \in 0..100
    <3>1. \A day \in final : regionalPerformance(history[day].attempt) \in 0..100
      BY <1>1, WorthOfCase
    <3> HIDE DEF final
    <3> QED  BY <3>1
  <2>2. /\ worth \in Seq(Int) /\ DOMAIN worth = 1..M
        /\ \A i \in 1..M : cases[i] \in final /\ worth[i] = value[cases[i]] /\ worth[i] \in 0..100
    <3>1. /\ worth = [i \in 1..M |-> regionalPerformance(history[cases[i]].attempt)]
          /\ \A i \in 1..M : cases[i] \in final
      BY <1>3
    <3> HIDE DEF worth, value, final, M
    <3>2. \A i \in 1..M : worth[i] = value[cases[i]] /\ worth[i] \in 0..100
      BY <2>1, <3>1
    <3>3. DOMAIN worth = 1..M /\ worth \in [1..M -> Int]
      BY <3>1, <3>2
    <3>4. M \in Nat
      BY <1>1 DEF M
    <3> QED  BY <3>1, <3>2, <3>3, <3>4
  <2>3. Cardinality(Points(1..M, worth)) = P
    <3> HIDE DEF worth, value, final, M
    <3>1. ListsDays(cases, M, worth, final, value)
      BY <1>1, <1>3, <2>1, <2>2 DEF ListsDays
    <3> QED  BY <3>1, SamePoints
  <2>4. P \in Nat /\ P <= 100 * M
    <3> HIDE DEF value, final
    <3>1. IsFiniteSet(final) /\ \A day \in final : value[day] \in 0..100
      BY <1>1, <2>1
    <3>2. /\ Cardinality(Points(final, value)) \in Nat
          /\ Cardinality(Points(final, value)) <= 100 * Cardinality(final)
      BY <3>1, PointsAddUp
    <3> QED  BY <3>2 DEF P, M
  <2> DEFINE alpha == FoldLeft(+, 200, worth)
             beta == FoldLeft(LAMBDA sum, p : sum + 100 - p, 200, worth)
  <2>5. alpha = 200 + P /\ beta = 200 + 100 * M - P
    <3> HIDE DEF worth, M, P, final, won, value, runs, W
    <3>1. /\ M \in Nat /\ worth \in Seq(Int) /\ DOMAIN worth = 1..M
          /\ \A i \in 1..M : worth[i] \in 0..100
      BY <2>2, <1>7
    <3>2. alpha = 200 + Cardinality(Points(1..M, worth))
      BY <3>1, SumFold
    <3>3. beta = 200 + 100 * M - Cardinality(Points(1..M, worth))
      BY <3>1, SumFold
    <3> QED  BY <2>3, <3>2, <3>3
  <2>6. report.region = roundHalfUp(alpha * 100, alpha + beta)
    BY <1>4 DEF calculateRegionalKnowledge
  <2> HIDE DEF alpha, beta, P, M
  <2> DEFINE a == roundHalfUp(alpha * 100, alpha + beta)
  <2>7. alpha * 100 \in Nat /\ alpha + beta \in Nat \ {0} /\ alpha + beta = 100 * (M + 4)
    BY <1>7, <2>4, <2>5
  <2>8. a \in Int /\ 2 * (alpha + beta) * a <= 2 * (alpha * 100) + (alpha + beta)
        /\ 2 * (alpha * 100) + (alpha + beta) < 2 * (alpha + beta) * a + 2 * (alpha + beta)
    BY <2>7, Rounding
  <2> HIDE DEF a
  <2> DEFINE b == (M + 4) * a
  <2>9. b \in Int /\ 2 * (alpha + beta) * a = 200 * b /\ 2 * (M + 4) * a = 2 * b
    BY <1>7, <2>7, <2>8
  <2> HIDE DEF b
  <2>10. 2 * b - 2 * (200 + P) \in (-3 - M)..(M + 4)
    BY <1>7, <2>4, <2>5, <2>7, <2>8, <2>9
  <2> QED  BY <2>4, <2>6, <2>9, <2>10 DEF a
<1>10. report.solved + report.failed = M
  <2> HIDE DEF W, M
  <2> QED  BY <1>4, <1>7 DEF W
<1>11. IsProfileOf(report, history, today)
  BY <1>5, <1>6, <1>8, <1>9, <1>10, Zenon DEF IsProfileOf
<1> QED  BY <1>11 DEF report


(***************************************************************************)
(* The leaderboard                                                         *)
(***************************************************************************)
Before(a, b) == comparePaginationOrder(a, b) < 0
PageOrder(S) == {p \in S \X S : Before(p[1], p[2])}
Better(S, a) == {b \in S : comparePerformance(b, a) < 0}

\* What the two comparisons have in common.
LEMMA Comparisons ==
  ASSUME NEW S, AreEntries(S), NEW a \in S, NEW b \in S, NEW c \in S
  PROVE  /\ comparePerformance(a, b) \in Int
         /\ ~ Before(a, a)
         /\ Before(a, b) \/ Before(b, a) \/ a = b
         /\ Before(a, b) /\ Before(b, c) => Before(a, c)
         /\ comparePerformance(a, b) < 0 => Before(a, b)
         /\ Before(a, b) /\ comparePerformance(a, b) # 0 => comparePerformance(a, b) < 0
         /\ comparePerformance(a, b) = 0 =>
              (comparePerformance(c, a) < 0 <=> comparePerformance(c, b) < 0)
         /\ Before(a, b) /\ comparePerformance(b, c) < 0 => comparePerformance(a, c) < 0
<1>1. /\ a.id \in Int /\ a.e \in Int /\ a.w \in Int /\ a.ms \in Int
      /\ b.id \in Int /\ b.e \in Int /\ b.w \in Int /\ b.ms \in Int
      /\ c.id \in Int /\ c.e \in Int /\ c.w \in Int /\ c.ms \in Int
  BY DEF AreEntries
<1>2. a.id = b.id => a = b
  BY DEF AreEntries
<1> QED  BY <1>1, <1>2 DEF Before, comparePaginationOrder, comparePerformance

LEMMA PageOrderOrders ==
  ASSUME NEW S, AreEntries(S)
  PROVE  Orders(PageOrder(S), S)
<1>1. \A a, b \in S : <<a, b>> \in PageOrder(S) <=> Before(a, b)
  BY DEF PageOrder
<1>2. \A a, b \in S : Before(a, b) \/ Before(b, a) \/ a = b
  BY Comparisons
<1>3. \A a \in S : ~ Before(a, a)
  BY Comparisons
<1>4. \A a, b, c \in S : Before(a, b) /\ Before(b, c) => Before(a, c)
  BY Comparisons
<1> QED  BY <1>1, <1>2, <1>3, <1>4 DEF Orders

ByPage(S) == inOrder(S, LAMBDA a, b : comparePaginationOrder(a, b) < 0)

LEMMA EntriesInOrder ==
  ASSUME NEW S, AreEntries(S)
  PROVE  /\ Cardinality(S) \in Nat
         /\ ByPage(S) \in [1..Cardinality(S) -> S]
         /\ Len(ByPage(S)) = Cardinality(S)
         /\ \A i, j \in 1..Cardinality(S) : i < j => Before(ByPage(S)[i], ByPage(S)[j])
         /\ \A a \in S : \E i \in 1..Cardinality(S) : ByPage(S)[i] = a
         /\ \A i \in 1..Cardinality(S) : Cardinality({b \in S : Before(b, ByPage(S)[i])}) = i - 1
<1> DEFINE s == ByPage(S)
           N == Cardinality(S)
<1>1. IsFiniteSet(S) /\ N \in Nat
  BY FS_CardinalityType DEF AreEntries
<1>2. Orders(PageOrder(S), S)
  BY PageOrderOrders
<1>3. \A a \in S : Place(a, S, PageOrder(S)) = Cardinality({b \in S : Before(b, a)})
  <2>1. \A a \in S : {b \in S : <<b, a>> \in PageOrder(S)} = {b \in S : Before(b, a)}
    BY DEF PageOrder
  <2> QED  BY <2>1 DEF Place
<1>4. s = [n \in 1..N |-> CHOOSE a \in S : Cardinality({b \in S : Before(b, a)}) = n - 1]
  BY DEF inOrder, ByPage, Before
<1> HIDE DEF s
<1>5. ASSUME NEW n \in 1..N
      PROVE  s[n] \in S /\ Place(s[n], S, PageOrder(S)) = n - 1
  <2>1. \E a \in S : Cardinality({b \in S : Before(b, a)}) = n - 1
    <3>1. PICK a \in S : Place(a, S, PageOrder(S)) = n - 1
      BY <1>1, <1>2, SomebodyTakesPlace
    <3> QED  BY <1>3, <3>1
  <2>2. s[n] = CHOOSE a \in S : Cardinality({b \in S : Before(b, a)}) = n - 1
    BY <1>4
  <2>3. s[n] \in S /\ Cardinality({b \in S : Before(b, s[n])}) = n - 1
    BY <2>1, <2>2
  <2> QED  BY <1>3, <2>3
<1>6. s \in [1..N -> S]
  BY <1>4, <1>5
<1>7. InOrder(s, S, PageOrder(S))
  BY <1>1, <1>2, <1>5, <1>6, Sorting
<1>8. \A i, j \in 1..N : i < j => Before(s[i], s[j])
  BY <1>7 DEF InOrder, PageOrder
<1>9. \A i \in 1..N : Cardinality({b \in S : Before(b, s[i])}) = i - 1
  BY <1>3, <1>5
<1> QED  BY <1>1, <1>6, <1>7, <1>8, <1>9 DEF InOrder, s


RankIn(a, S) == 1 + Cardinality(Better(S, a))

LEMMA RankType ==
  ASSUME NEW S, AreEntries(S), NEW a
  PROVE  IsFiniteSet(Better(S, a)) /\ RankIn(a, S) \in Nat /\ RankIn(a, S) >= 1
<1>1. Better(S, a) \in SUBSET S /\ IsFiniteSet(S)
  BY DEF Better, AreEntries
<1>2. IsFiniteSet(Better(S, a)) /\ Cardinality(Better(S, a)) \in Nat
  BY <1>1, FS_Subset, FS_CardinalityType
<1> QED  BY <1>2 DEF RankIn

\* More entries never improve a rank.
LEMMA RankGrows ==
  ASSUME NEW S, NEW T, S \subseteq T, AreEntries(T), NEW a
  PROVE  RankIn(a, S) <= RankIn(a, T) /\ RankIn(a, S) \in Nat /\ RankIn(a, T) \in Nat
<1>1. Better(S, a) \in SUBSET Better(T, a)
  BY DEF Better
<1>2. IsFiniteSet(Better(T, a)) /\ RankIn(a, T) \in Nat
  BY RankType
<1>3. IsFiniteSet(Better(S, a)) /\ Cardinality(Better(S, a)) <= Cardinality(Better(T, a))
  BY <1>1, <1>2, FS_Subset
<1>4. Cardinality(Better(S, a)) \in Nat /\ Cardinality(Better(T, a)) \in Nat
  BY <1>2, <1>3, FS_CardinalityType
<1> QED  BY <1>3, <1>4 DEF RankIn

\* The loop that shares the first one's place among equals counts who did better.
LEMMA RanksInOrder ==
  ASSUME NEW S, AreEntries(S), NEW i \in 1..Cardinality(S)
  PROVE  RankIn(ByPage(S)[i], S) =
           IF i > 1 /\ comparePerformance(ByPage(S)[i - 1], ByPage(S)[i]) = 0
           THEN RankIn(ByPage(S)[i - 1], S) ELSE i
<1> DEFINE s == ByPage(S)
           N == Cardinality(S)
<1>1. /\ N \in Nat /\ s \in [1..N -> S]
      /\ \A j, k \in 1..N : j < k => Before(s[j], s[k])
      /\ \A a \in S : \E j \in 1..N : s[j] = a
      /\ \A j \in 1..N : Cardinality({b \in S : Before(b, s[j])}) = j - 1
  BY EntriesInOrder
<1> HIDE DEF s
<1>2. i \in Nat /\ s[i] \in S /\ \A j \in 1..N : s[j] \in S
  BY <1>1
<1>3. CASE i > 1 /\ comparePerformance(s[i - 1], s[i]) = 0
  <2>1. i - 1 \in 1..N
    BY <1>1, <1>2, <1>3
  <2>2. \A b \in S : comparePerformance(b, s[i - 1]) < 0 <=> comparePerformance(b, s[i]) < 0
    BY <1>2, <1>3, <2>1, Comparisons
  <2>3. Better(S, s[i - 1]) = Better(S, s[i])
    BY <2>2 DEF Better
  <2> QED  BY <1>3, <2>3 DEF RankIn, s
<1>4. CASE ~ (i > 1 /\ comparePerformance(s[i - 1], s[i]) = 0)
  <2>1. ASSUME NEW b \in S, Before(b, s[i]) PROVE comparePerformance(b, s[i]) < 0
    <3>1. PICK j \in 1..N : s[j] = b
      BY <1>1
    <3>2. j < i
      <4>1. i < j => Before(s[i], b)
        BY <1>1, <3>1
      <4>2. ~ (Before(s[i], b) /\ Before(b, s[i])) /\ ~ Before(s[i], s[i])
        BY <1>2, Comparisons
      <4> QED  BY <1>1, <1>2, <2>1, <3>1, <4>1, <4>2
    <3>3. i > 1 /\ i - 1 \in 1..N /\ i - 1 \in Nat /\ i - 1 < i
      BY <1>1, <1>2, <3>2
    <3>4. Before(s[i - 1], s[i])
      BY <1>1, <3>3
    <3>5. comparePerformance(s[i - 1], s[i]) < 0
      BY <1>2, <1>4, <3>3, <3>4, Comparisons
    <3>6. CASE j = i - 1
      BY <3>1, <3>5, <3>6
    <3>7. CASE j # i - 1
      <4>1. j < i - 1
        BY <1>2, <3>2, <3>7
      <4>2. Before(b, s[i - 1])
        BY <1>1, <3>1, <3>3, <4>1
      <4> QED  BY <1>2, <3>3, <3>5, <4>2, Comparisons
    <3> QED  BY <3>6, <3>7
  <2>2. \A b \in S : comparePerformance(b, s[i]) < 0 => Before(b, s[i])
    BY <1>2, Comparisons
  <2>3. Better(S, s[i]) = {b \in S : Before(b, s[i])}
    BY <2>1, <2>2 DEF Better
  <2>4. RankIn(s[i], S) = i
    BY <1>1, <1>2, <2>3 DEF RankIn
  <2> QED  BY <1>4, <2>4 DEF s
<1> QED  BY <1>3, <1>4

\* rankLeaderboard gives every entry its competition rank.
LEMMA TrueRanks ==
  ASSUME NEW S, AreEntries(S), NEW a \in S
  PROVE  TrueRank(a, S) = RankIn(a, S)
<1> DEFINE s == ByPage(S)
           N == Cardinality(S)
           body(h, i) == IF i > 1 /\ comparePerformance(s[i - 1], s[i]) = 0 THEN h[i - 1] ELSE i
           rank == CHOOSE h : h = [i \in DOMAIN s |-> body(h, i)]
           g == [i \in 1..N |-> RankIn(s[i], S)]
<1>1. rankLeaderboard(S) = [i \in DOMAIN s |-> [entry |-> s[i], rank |-> rank[i]]]
  BY DEF rankLeaderboard, ByPage
<1>2. /\ N \in Nat /\ s \in [1..N -> S] /\ DOMAIN s = 1..N
      /\ \A b \in S : \E i \in 1..N : s[i] = b
  BY EntriesInOrder
<1>3. \A i \in 1..N : RankIn(s[i], S) =
          IF i > 1 /\ comparePerformance(s[i - 1], s[i]) = 0 THEN RankIn(s[i - 1], S) ELSE i
  BY RanksInOrder
<1> HIDE DEF s
<1>4. ASSUME NEW i \in 1..N PROVE g[i] = body(g, i)
  <2>1. i > 1 => i - 1 \in 1..N
    BY <1>2
  <2> QED  BY <1>3, <2>1
<1>5. g = [i \in DOMAIN s |-> body(g, i)]
  <2>1. g = [i \in 1..N |-> g[i]]
    OBVIOUS
  <2> HIDE DEF g, body
  <2> QED  BY <1>2, <1>4, <2>1
<1>6. rank = [i \in DOMAIN s |-> body(rank, i)]
  <2> HIDE DEF g, body
  <2> QED  BY <1>5
<1> HIDE DEF rank
<1>7. \A i \in 1..N : rank[i] = body(rank, i)
  <2> HIDE DEF body
  <2> QED  BY <1>2, <1>6
<1> DEFINE Bad == {i \in 1..N : rank[i] # g[i]}
<1>8. ASSUME Bad # {} PROVE FALSE
  <2>1. PICK i \in Bad : \A m \in Nat : m < i => m \notin Bad
    <3>1. Bad \subseteq Nat
      OBVIOUS
    <3> HIDE DEF Bad
    <3> QED  BY <1>8, <3>1, LeastNumber
  <2>2. i \in 1..N /\ rank[i] # g[i] /\ i \in Nat
    BY <2>1
  <2>3. rank[i] = body(rank, i) /\ g[i] = body(g, i)
    <3> HIDE DEF body, g
    <3> QED  BY <1>4, <1>7, <2>2
  <2>4. i > 1
    <3> HIDE DEF g, Bad
    <3> QED  BY <2>2, <2>3
  <2>5. i - 1 \in 1..N /\ i - 1 \in Nat /\ i - 1 < i
    BY <1>2, <2>2, <2>4
  <2>6. i - 1 \notin Bad
    <3> HIDE DEF Bad
    <3> QED  BY <2>1, <2>5
  <2>7. rank[i - 1] = g[i - 1]
    BY <2>5, <2>6
  <2> HIDE DEF g, Bad
  <2> QED  BY <2>2, <2>3, <2>7
<1>9. \A i \in 1..N : rank[i] = RankIn(s[i], S)
  BY <1>8
<1> DEFINE rows == Range(rankLeaderboard(S))
<1>10. rows = {[entry |-> s[i], rank |-> rank[i]] : i \in 1..N}
  BY <1>1, <1>2 DEF Range
<1> HIDE DEF rows
<1>11. \A r \in rows : r.entry = a => r.rank = RankIn(a, S)
  BY <1>9, <1>10
<1>12. \E r \in rows : r.entry = a
  <2>1. PICK i \in 1..N : s[i] = a
    BY <1>2
  <2>2. [entry |-> s[i], rank |-> rank[i]] \in rows
    BY <1>10
  <2> QED  BY <2>1, <2>2
<1> QED  BY <1>11, <1>12 DEF TrueRank, rows


Rows(S) == [entry : S, rank : Nat]

\* The page of rest, a part of S: in order, ranked among all of S, and
\* without a gap up to where more begins.
IsPage(items, more, S, rest) ==
  /\ \A i \in 1..Len(items) :
       items[i].entry \in rest /\ items[i].rank = RankIn(items[i].entry, S)
  /\ \A i, j \in 1..Len(items) : i < j => Before(items[i].entry, items[j].entry)
  /\ \A a \in rest :
       \/ \E i \in 1..Len(items) : items[i].entry = a
       \/ more /\ Before(items[Len(items)].entry, a)
  /\ more => Len(items) > 0

LEMMA PageFacts ==
  ASSUME NEW S, AreEntries(S), NEW T, S \subseteq T, NEW cursor,
         cursor = <<>> \/ (cursor # <<>> /\ cursor[1] \in S)
  PROVE  LET page == readDailyLeaderboardPage(S, cursor, Limit)
         IN /\ page.items \in Seq(Rows(T))
            /\ IsPage(page.items, page.next # <<>>, S, {a \in S : cursor # <<>> => Before(cursor[1], a)})
            /\ page.next # <<>> => page.next[1] = page.items[Len(page.items)].entry
<1> DEFINE rest == {a \in S : cursor = <<>> \/ (cursor # <<>> /\ After(a, cursor[1]))}
           rows == ByPage(rest)
           N == Cardinality(rest)
           k == IF N < Limit THEN N ELSE Limit
           page == readDailyLeaderboardPage(S, cursor, Limit)
<1>1. rest \subseteq S /\ \A a \in S : a \in rest <=> (cursor # <<>> => Before(cursor[1], a))
  BY DEF After, Before
<1> HIDE DEF rest
<1>2. AreEntries(rest)
  <2>1. rest \in SUBSET S /\ IsFiniteSet(S)
    BY <1>1 DEF AreEntries
  <2>2. IsFiniteSet(rest)
    BY <2>1, FS_Subset
  <2> QED  BY <1>1, <2>2 DEF AreEntries
<1>3. /\ N \in Nat /\ rows \in [1..N -> rest] /\ Len(rows) = N
      /\ \A i, j \in 1..N : i < j => Before(rows[i], rows[j])
      /\ \A a \in rest : \E i \in 1..N : rows[i] = a
  BY <1>2, EntriesInOrder
<1> HIDE DEF rows
<1>4. Limit \in Nat \ {0} /\ k \in Nat /\ k <= N /\ k <= Limit
  BY <1>3, ReportingAssumption
<1>5. SubSeq(rows, 1, k) = [i \in 1..k |-> rows[i]]
  <2>1. rows \in Seq(rest) /\ k <= Len(rows)
    BY <1>3, <1>4
  <2> HIDE DEF k
  <2> QED  BY <1>4, <2>1
<1>6. page.items = [i \in 1..k |-> Ranked(S, rows[i])] /\ page.next = IF N > Limit THEN <<rows[Limit]>> ELSE <<>>
  <2> DEFINE items == SubSeq(rows, 1, k)
  <2>1. page = [items |-> [i \in DOMAIN items |-> Ranked(S, items[i])],
                next |-> IF N > Limit THEN <<items[Limit]>> ELSE <<>>]
    <3>1. k = IF Len(rows) < Limit THEN Len(rows) ELSE Limit
      BY <1>3
    <3>2. Len(rows) = N
      BY <1>3
    <3> HIDE DEF k, N
    <3> QED  BY <3>1, <3>2 DEF readDailyLeaderboardPage, rows, ByPage, rest
  <2>2. items = [i \in 1..k |-> rows[i]]
    BY <1>5
  <2> HIDE DEF items, page
  <2>3. N > Limit => items[Limit] = rows[Limit]
    BY <1>3, <1>4, <2>2
  <2>4. page.items = [i \in 1..k |-> Ranked(S, rows[i])]
    <3> HIDE DEF k
    <3> QED  BY <2>1, <2>2
  <2>5. page.next = IF N > Limit THEN <<rows[Limit]>> ELSE <<>>
    <3> HIDE DEF k, N
    <3> QED  BY <2>1, <2>3
  <2> QED  BY <2>4, <2>5
<1> HIDE DEF page
<1>7. \A i \in 1..k : rows[i] \in S /\ rows[i] \in rest
  BY <1>1, <1>3, <1>4
<1>8. \A i \in 1..k : Ranked(S, rows[i]) = [entry |-> rows[i], rank |-> RankIn(rows[i], S)]
  BY DEF Ranked, RankIn, Better
<1>9. page.items = [i \in 1..k |-> [entry |-> rows[i], rank |-> RankIn(rows[i], S)]]
  <2> HIDE DEF k
  <2> QED  BY <1>6, <1>8
<1>10. \A i \in 1..k : [entry |-> rows[i], rank |-> RankIn(rows[i], S)] \in Rows(T)
  BY <1>7, RankType DEF Rows
<1> HIDE DEF k
<1>11. page.items \in [1..k -> Rows(T)]
  BY <1>9, <1>10
<1>12. page.items \in Seq(Rows(T)) /\ Len(page.items) = k
  BY <1>4, <1>11
<1>13. \A i \in 1..k : page.items[i].entry = rows[i] /\ page.items[i].rank = RankIn(rows[i], S)
  BY <1>9
<1> USE DEF k
<1>14. \A i, j \in 1..k : i < j => Before(page.items[i].entry, page.items[j].entry)
  BY <1>3, <1>4, <1>13
<1>15. page.next # <<>> => k > 0 /\ page.next[1] = rows[k] /\ page.next[1] = page.items[k].entry
  <2>1. N > Limit => k = Limit /\ Limit \in 1..k
    BY <1>3, <1>4
  <2> HIDE DEF k, N
  <2> QED  BY <1>4, <1>6, <1>13, <2>1
<1>16. ASSUME NEW a \in rest
       PROVE  \/ \E i \in 1..k : page.items[i].entry = a
              \/ page.next # <<>> /\ Before(page.items[k].entry, a)
  <2>1. PICK j \in 1..N : rows[j] = a
    BY <1>3, <1>16
  <2>2. CASE j <= k
    BY <1>3, <1>4, <1>13, <2>1, <2>2
  <2>3. CASE k < j
    <3>1. N > Limit /\ Limit \in 1..N /\ Limit < j
      BY <1>3, <1>4, <2>1, <2>3
    <3>2. page.next = <<rows[Limit]>> /\ Before(rows[Limit], a)
      BY <1>3, <1>6, <2>1, <3>1
    <3>3. page.next # <<>> /\ page.next[1] = rows[Limit]
      BY <3>2
    <3> QED  BY <1>15, <3>2, <3>3
  <2> QED  BY <1>3, <1>4, <2>1, <2>2, <2>3
<1>17. rest = {a \in S : cursor # <<>> => Before(cursor[1], a)}
  BY <1>1
<1>18. \A i \in 1..k : page.items[i].entry \in rest /\ page.items[i].rank = RankIn(page.items[i].entry, S)
  BY <1>7, <1>13
<1> HIDE DEF k
<1>19. IsPage(page.items, page.next # <<>>, S, rest)
  BY <1>12, <1>14, <1>15, <1>16, <1>18 DEF IsPage
<1> QED  BY <1>12, <1>15, <1>17, <1>19 DEF page


(***************************************************************************)
(* The inductive invariant.  Its parts are about a sequence of reads, so   *)
(* that they can be stated of the reads between two calls of one step.     *)
(***************************************************************************)
Known(s) == Entries[s] \cup {Me[0], Me[1]}
Anyone == {Me[0], Me[1]} \cup UNION {Entries[s] : s \in Slots}

IsList(s) == Len(s) \in Nat /\ s = [i \in 1..Len(s) |-> s[i]]

\* A read, or what is left of one.
Shape(r) ==
  \/ r.of = "none" /\ r.st = "over" /\ r = [st |-> r.st, of |-> r.of, aborted |-> r.aborted]
  \/ /\ r.of \in {"board", "profile"}
     /\ r = [of |-> r.of, slot |-> r.slot, cursor |-> r.cursor, generation |-> r.generation,
             session |-> r.session, aborted |-> r.aborted, st |-> r.st, answer |-> r.answer]

Behind(S, cursor) == {a \in S : cursor # <<>> => Before(cursor[1].at, a)}

\* The answer to a read of the leaderboard is a page of what it was then.
BoardAnswer(r, ents) ==
  LET answer == r.answer
  IN /\ answer.first \subseteq ents[r.slot]
     /\ r.cursor # <<>> => r.cursor[1].at \in answer.first
     /\ answer.items \in Seq(Rows(Anyone))
     /\ IsPage(answer.items, answer.next # <<>>, answer.first, Behind(answer.first, r.cursor))
     /\ answer.next # <<>> => answer.next[1].at = answer.items[Len(answer.items)].entry

BoardRead(r, lb, ents) ==
  /\ r.slot \in Slots /\ r.generation \in Nat /\ r.generation <= lb.generation
  /\ r.aborted \in BOOLEAN /\ r.st \in {"sent", "answered"}
  /\ r.st = "answered" => r.answer.ok \in BOOLEAN /\ (r.answer.ok => BoardAnswer(r, ents))

\* A profile is what its games amount to.
Amounts(value, history) ==
  IsHistory(history) /\ value = calculateProfileStatistics(history, Today)

ProfileRead(r, pr) ==
  /\ r.session \in {0, 1} /\ r.generation \in Nat /\ r.generation <= pr.generation
  /\ r.aborted \in BOOLEAN /\ r.st \in {"sent", "answered"}
  /\ r.st = "answered" =>
       r.answer.ok \in BOOLEAN /\ (r.answer.ok => Amounts(r.answer.value, r.answer.games))

ReadsOK(reads, ents, lb, pr) ==
  /\ IsList(reads)
  /\ \A i \in 1..Len(reads) :
       /\ Shape(reads[i])
       /\ reads[i].of = "board" => BoardRead(reads[i], lb, ents)
       /\ reads[i].of = "profile" => ProfileRead(reads[i], pr)

\* The request under way is for the page the board waits for.
Requested(r, lb, brd, ses) ==
  /\ r.of = "board" /\ ~ r.aborted /\ r.generation = lb.generation
  /\ r.session = ses /\ r.slot = brd.slot /\ r.cursor = brd.cursor
  /\ brd.status = IF brd.cursor = <<>> THEN "LOADING" ELSE "APPENDING"
  /\ brd.cursor # <<>> /\ r.st = "answered" /\ r.answer.ok => brd.first \subseteq r.answer.first

\* Every other read of the leaderboard is of an earlier generation or aborted.
RequestOK(reads, lb, brd, ses) ==
  /\ lb = [generation |-> lb.generation, abort |-> lb.abort, key |-> lb.key, request |-> lb.request]
  /\ lb.generation \in Nat
  /\ lb.abort # None => lb.abort \in 1..Len(reads) /\ reads[lb.abort].of # "profile"
  /\ lb.request # None =>
       lb.request \in 1..Len(reads) /\ Requested(reads[lb.request], lb, brd, ses)
  /\ \A i \in 1..Len(reads) :
       reads[i].of = "board" /\ ~ reads[i].aborted /\ reads[i].generation = lb.generation
         => lb.request = i
  /\ brd.status \in {"LOADING", "APPENDING"} => lb.request # None

LatestOK(reads, pr, ses) ==
  /\ pr = [generation |-> pr.generation, inFlight |-> pr.inFlight] /\ pr.generation \in Nat
  /\ pr.inFlight # None =>
       /\ pr.inFlight \in 1..Len(reads)
       /\ LET r == reads[pr.inFlight]
          IN r.of = "profile" /\ ~ r.aborted /\ r.generation = pr.generation /\ r.session = ses
  /\ \A i \in 1..Len(reads) :
       reads[i].of = "profile" /\ reads[i].generation = pr.generation => pr.inFlight = i

\* The pages shown are one leaderboard: first is what it was for the first
\* page and all what it is now.
Together(shown, cursor, first, all) ==
  /\ \A i, j \in 1..Len(shown) : i < j => Before(shown[i].entry, shown[j].entry)
  /\ \A a \in first :
       \/ \E i \in 1..Len(shown) : shown[i].entry = a
       \/ cursor # <<>> /\ Before(shown[Len(shown)].entry, a)
  /\ cursor # <<>> => Len(shown) > 0 /\ cursor[1].at = shown[Len(shown)].entry
  /\ \A i \in 1..Len(shown) :
       /\ shown[i].rank <= RankIn(shown[i].entry, all)
       /\ shown[i].entry \in first => shown[i].rank >= RankIn(shown[i].entry, first)

BoardOK(brd, ents, ses) ==
  /\ brd = [slot |-> brd.slot, status |-> brd.status, shown |-> brd.shown, cursor |-> brd.cursor,
            session |-> brd.session, first |-> brd.first]
  /\ brd.slot \in Slots \cup {None}
  /\ brd.status \in {"IDLE", "LOADING", "APPENDING", "READY", "ERROR"}
  /\ brd.shown \in Seq(Rows(Anyone))
  /\ \A i \in 1..Len(brd.shown) : brd.slot \in Slots /\ brd.shown[i].entry \in ents[brd.slot]
  /\ brd.status \in {"READY", "APPENDING"} \/ brd.cursor # <<>> =>
       /\ brd.session = ses /\ brd.slot \in Slots /\ brd.first \subseteq ents[brd.slot]
       /\ Together(brd.shown, brd.cursor, brd.first, ents[brd.slot])

ProfileOK(prf, pr, ses) ==
  /\ prf = [status |-> prf.status, value |-> prf.value, games |-> prf.games, session |-> prf.session]
  /\ prf.status \in {"IDLE", "LOADING", "READY", "ERROR"}
  /\ prf.status = "READY" => prf.session = ses /\ Amounts(prf.value, prf.games)
  /\ prf.status = "LOADING" => pr.inFlight # None

ServerOK(ents) ==
  /\ ents = [s \in Slots |-> ents[s]]
  /\ \A s \in Slots : ents[s] \subseteq Known(s)

GamesOK(played) ==
  /\ played = [guest \in {0, 1} |-> played[guest]]
  /\ \A guest \in {0, 1} : IsHistory(played[guest])

ReportingIInv ==
  /\ ServerOK(entries) /\ GamesOK(games) /\ session \in {0, 1}
  /\ ReadsOK(read, entries, leaderboard, profileRead)
  /\ RequestOK(read, leaderboard, board, session)
  /\ LatestOK(read, profileRead, session)
  /\ BoardOK(board, entries, session)
  /\ ProfileOK(profile, profileRead, session)


(***************************************************************************)
(* Sequences of reads                                                      *)
(***************************************************************************)
LEMMA ListFacts ==
  ASSUME NEW s, IsList(s)
  PROVE  Len(s) \in Nat /\ DOMAIN s = 1..Len(s) /\ s \in Seq(Range(s))
<1>1. Len(s) \in Nat /\ DOMAIN s = 1..Len(s) /\ s = [i \in 1..Len(s) |-> s[i]]
  BY DEF IsList
<1> DEFINE n == Len(s)
<1>2. n \in Nat /\ DOMAIN s = 1..n /\ s = [i \in 1..n |-> s[i]]
  BY <1>1
<1> HIDE DEF n
<1>3. s \in [1..n -> Range(s)]
  BY <1>2 DEF Range
<1> QED  BY <1>1, <1>2, <1>3

LEMMA AppendFacts ==
  ASSUME NEW s, IsList(s), NEW x
  PROVE  /\ IsList(Append(s, x)) /\ Len(Append(s, x)) = Len(s) + 1
         /\ \A i \in 1..Len(s) : Append(s, x)[i] = s[i]
         /\ Append(s, x)[Len(s) + 1] = x
<1> DEFINE n == Len(s)
           X == Range(s) \cup {x}
<1>1. n \in Nat /\ DOMAIN s = 1..n /\ s = [i \in 1..n |-> s[i]] /\ Len(s) = n
  BY DEF IsList
<1>2. s \in [1..n -> X]
  BY <1>1 DEF Range
<1>3. s \in Seq(X) /\ x \in X
  BY <1>1, <1>2
<1> HIDE DEF X, n
<1>4. Append(s, x) \in Seq(X) /\ Len(Append(s, x)) = n + 1
      /\ (\A i \in 1..n : Append(s, x)[i] = s[i]) /\ Append(s, x)[n + 1] = x
  BY <1>1, <1>3
<1>5. Append(s, x) \in [1..Len(Append(s, x)) -> X]
  <2> DEFINE t == Append(s, x)
  <2>1. t \in Seq(X)
    BY <1>4
  <2> HIDE DEF t
  <2>2. t \in [1..Len(t) -> X]
    BY <2>1
  <2> QED  BY <2>2 DEF t
<1>6. Append(s, x) = [i \in 1..(n + 1) |-> Append(s, x)[i]]
  <2> DEFINE t == Append(s, x)
  <2>1. t \in [1..(n + 1) -> X]
    BY <1>4, <1>5
  <2> HIDE DEF t
  <2>2. t = [i \in 1..(n + 1) |-> t[i]]
    BY <2>1
  <2> QED  BY <2>2 DEF t
<1> QED  BY <1>1, <1>4, <1>6 DEF IsList

LEMMA ListFromFunction ==
  ASSUME NEW n \in Nat, NEW s, s = [i \in 1..n |-> s[i]]
  PROVE  IsList(s) /\ Len(s) = n
<1>1. s \in [1..n -> Range(s)]
  BY DEF Range
<1>2. Len(s) = n
  BY <1>1
<1> QED  BY <1>2 DEF IsList

\* A read that replaces another.
LEMMA ExceptFacts ==
  ASSUME NEW s, IsList(s), NEW i \in 1..Len(s), NEW x
  PROVE  LET t == [s EXCEPT ![i] = x]
         IN /\ IsList(t) /\ Len(t) = Len(s) /\ t[i] = x
            /\ \A j \in 1..Len(s) : j # i => t[j] = s[j]
<1> DEFINE t == [s EXCEPT ![i] = x]
           n == Len(s)
<1>1. n \in Nat /\ DOMAIN s = 1..n /\ s = [j \in 1..n |-> s[j]]
  BY DEF IsList
<1>2. t = [j \in 1..n |-> t[j]]
  BY <1>1
<1>3. IsList(t) /\ Len(t) = n
  <2> HIDE DEF t, n
  <2> QED  BY <1>1, <1>2, ListFromFunction
<1>4. t[i] = x /\ \A j \in 1..n : j # i => t[j] = s[j]
  BY <1>1
<1> QED  BY <1>3, <1>4

LEMMA AbortedShape ==
  ASSUME NEW r, Shape(r), NEW v
  PROVE  LET a == [r EXCEPT !.aborted = v]
         IN /\ Shape(a) /\ a.of = r.of /\ a.aborted = v
            /\ r.of # "none" =>
                 /\ a.slot = r.slot /\ a.cursor = r.cursor /\ a.generation = r.generation
                 /\ a.session = r.session /\ a.st = r.st /\ a.answer = r.answer
<1> DEFINE a == [r EXCEPT !.aborted = v]
<1>1. CASE r.of = "none"
  <2>1. r = [st |-> r.st, of |-> r.of, aborted |-> r.aborted]
    BY <1>1 DEF Shape
  <2>2. a = [st |-> r.st, of |-> r.of, aborted |-> v]
    BY <2>1
  <2> HIDE DEF a
  <2> QED  BY <1>1, <2>2 DEF Shape, a
<1>2. CASE r.of # "none"
  <2>1. r.of \in {"board", "profile"}
        /\ r = [of |-> r.of, slot |-> r.slot, cursor |-> r.cursor, generation |-> r.generation,
                session |-> r.session, aborted |-> r.aborted, st |-> r.st, answer |-> r.answer]
    BY <1>2 DEF Shape
  <2>2. a = [of |-> r.of, slot |-> r.slot, cursor |-> r.cursor, generation |-> r.generation,
             session |-> r.session, aborted |-> v, st |-> r.st, answer |-> r.answer]
    BY <2>1
  <2> HIDE DEF a
  <2> QED  BY <2>1, <2>2 DEF Shape, a
<1> QED  BY <1>1, <1>2

LEMMA AnsweredShape ==
  ASSUME NEW r, Shape(r), r.of # "none", NEW answer
  PROVE  LET a == [[r EXCEPT !.st = "answered"] EXCEPT !.answer = answer]
         IN /\ Shape(a) /\ a.of = r.of /\ a.aborted = r.aborted
            /\ a.slot = r.slot /\ a.cursor = r.cursor /\ a.generation = r.generation
            /\ a.session = r.session /\ a.st = "answered" /\ a.answer = answer
<1> DEFINE b == [r EXCEPT !.st = "answered"]
           a == [b EXCEPT !.answer = answer]
<1>1. r.of \in {"board", "profile"}
      /\ r = [of |-> r.of, slot |-> r.slot, cursor |-> r.cursor, generation |-> r.generation,
              session |-> r.session, aborted |-> r.aborted, st |-> r.st, answer |-> r.answer]
  BY DEF Shape
<1>2. b = [of |-> r.of, slot |-> r.slot, cursor |-> r.cursor, generation |-> r.generation,
           session |-> r.session, aborted |-> r.aborted, st |-> "answered", answer |-> r.answer]
  BY <1>1
<1> HIDE DEF b
<1>3. a = [of |-> r.of, slot |-> r.slot, cursor |-> r.cursor, generation |-> r.generation,
           session |-> r.session, aborted |-> r.aborted, st |-> "answered", answer |-> answer]
  BY <1>2
<1> HIDE DEF a
<1>4. Shape(a) /\ a.of = r.of /\ a.aborted = r.aborted
      /\ a.slot = r.slot /\ a.cursor = r.cursor /\ a.generation = r.generation
      /\ a.session = r.session /\ a.st = "answered" /\ a.answer = answer
  BY <1>1, <1>3 DEF Shape
<1> QED  BY <1>4 DEF a, b

\* What aborting a read, or none, changes.
LEMMA AbortFacts ==
  ASSUME NEW reads, IsList(reads), \A i \in 1..Len(reads) : Shape(reads[i]),
         NEW k, k = None \/ k \in 1..Len(reads)
  PROVE  /\ IsList(Abort(reads, k)) /\ Len(Abort(reads, k)) = Len(reads)
         /\ \A i \in 1..Len(reads) :
              Abort(reads, k)[i] = IF i = k THEN [reads[i] EXCEPT !.aborted = TRUE] ELSE reads[i]
<1>0. None \notin Nat /\ Len(reads) \in Nat
  BY ReportingAssumption DEF IsList
<1>1. CASE k = None
  <2>1. \A i \in 1..Len(reads) : i # k
    BY <1>0, <1>1
  <2> QED  BY <1>1, <2>1 DEF Abort
<1>2. CASE k # None
  <2>1. k \in 1..Len(reads) /\ DOMAIN reads = 1..Len(reads)
    BY <1>2, ListFacts
  <2>2. Abort(reads, k) = [reads EXCEPT ![k] = [reads[k] EXCEPT !.aborted = TRUE]]
    BY <1>2, <2>1 DEF Abort
  <2> DEFINE x == [reads[k] EXCEPT !.aborted = TRUE]
  <2> HIDE DEF x
  <2>3. Abort(reads, k) = [reads EXCEPT ![k] = x]
    BY <2>2 DEF x
  <2>4. /\ IsList(Abort(reads, k)) /\ Len(Abort(reads, k)) = Len(reads)
        /\ Abort(reads, k)[k] = x
        /\ \A j \in 1..Len(reads) : j # k => Abort(reads, k)[j] = reads[j]
    <3> DEFINE t == [reads EXCEPT ![k] = x]
    <3>1. /\ IsList(t) /\ Len(t) = Len(reads) /\ t[k] = x
          /\ \A j \in 1..Len(reads) : j # k => t[j] = reads[j]
      BY <2>1, ExceptFacts
    <3> HIDE DEF t
    <3>2. Abort(reads, k) = t
      BY <2>3 DEF t
    <3> QED  BY <3>1, <3>2
  <2> QED  BY <2>1, <2>4 DEF x
<1> QED  BY <1>1, <1>2


LEMMA AbortedRead ==
  ASSUME NEW reads, IsList(reads), \A i \in 1..Len(reads) : Shape(reads[i]),
         NEW k, k = None \/ k \in 1..Len(reads)
  PROVE  \A i \in 1..Len(reads) :
           LET a == Abort(reads, k)[i]
           IN /\ Shape(a) /\ a.of = reads[i].of
              /\ i # k => a = reads[i]
              /\ i = k => a.aborted \in BOOLEAN /\ a.aborted
              /\ reads[i].of # "none" =>
                   /\ a.slot = reads[i].slot /\ a.cursor = reads[i].cursor
                   /\ a.generation = reads[i].generation /\ a.session = reads[i].session
                   /\ a.st = reads[i].st /\ a.answer = reads[i].answer
<1> DEFINE next == Abort(reads, k)
<1> SUFFICES ASSUME NEW i \in 1..Len(reads)
             PROVE  /\ Shape(next[i]) /\ next[i].of = reads[i].of
                    /\ i # k => next[i] = reads[i]
                    /\ i = k => next[i].aborted \in BOOLEAN /\ next[i].aborted
                    /\ reads[i].of # "none" =>
                         /\ next[i].slot = reads[i].slot /\ next[i].cursor = reads[i].cursor
                         /\ next[i].generation = reads[i].generation /\ next[i].session = reads[i].session
                         /\ next[i].st = reads[i].st /\ next[i].answer = reads[i].answer
  OBVIOUS
<1>1. next[i] = IF i = k THEN [reads[i] EXCEPT !.aborted = TRUE] ELSE reads[i]
  BY AbortFacts
<1> HIDE DEF next
<1>2. CASE i # k
  BY <1>1, <1>2
<1>3. CASE i = k
  <2> DEFINE r == reads[i]
             a == [r EXCEPT !.aborted = TRUE]
  <2>1. next[i] = a
    BY <1>1, <1>3
  <2>2. /\ Shape(a) /\ a.of = r.of /\ a.aborted \in BOOLEAN /\ a.aborted
        /\ r.of # "none" =>
             /\ a.slot = r.slot /\ a.cursor = r.cursor /\ a.generation = r.generation
             /\ a.session = r.session /\ a.st = r.st /\ a.answer = r.answer
    BY AbortedShape
  <2> HIDE DEF a
  <2> QED  BY <1>3, <2>1, <2>2
<1> QED  BY <1>2, <1>3

FreshRead(of, s, cursor, generation) ==
  [of |-> of, slot |-> s, cursor |-> cursor, generation |-> generation,
   session |-> session, aborted |-> FALSE, st |-> "sent", answer |-> None]

LEMMA FreshFacts ==
  ASSUME NEW of \in {"board", "profile"}, NEW s, NEW cursor, NEW generation
  PROVE  LET r == FreshRead(of, s, cursor, generation)
         IN /\ Shape(r) /\ r.of = of /\ r.slot = s /\ r.cursor = cursor /\ r.generation = generation
            /\ r.session = session /\ r.aborted \in BOOLEAN /\ ~ r.aborted /\ r.st = "sent"
BY DEF FreshRead, Shape

LEMMA NewReadFacts ==
  ASSUME NEW reads, IsList(reads), NEW of, NEW s, NEW cursor, NEW generation,
         NEW t, t = NewRead(reads, of, s, cursor, generation)
  PROVE  /\ IsList(t) /\ Len(t) = Len(reads) + 1
         /\ \A i \in 1..Len(reads) : t[i] = reads[i]
         /\ t[Len(reads) + 1] = FreshRead(of, s, cursor, generation)
<1> DEFINE x == FreshRead(of, s, cursor, generation)
<1>1. t = Append(reads, x)
  BY DEF NewRead, FreshRead
<1> HIDE DEF x
<1>2. t[Len(reads) + 1] = x
  BY <1>1, AppendFacts
<1> QED  BY <1>1, <1>2, AppendFacts DEF x

\* The leaderboard's requests do not know of profile reads.
LEMMA RequestFrame ==
  ASSUME NEW reads, NEW next, NEW lb, NEW brd, NEW ses, RequestOK(reads, lb, brd, ses),
         Len(reads) \in Nat, Len(next) \in Nat, Len(reads) <= Len(next),
         \A i \in 1..Len(next) : next[i].of = "board" => i <= Len(reads) /\ next[i] = reads[i],
         \A i \in 1..Len(reads) :
           /\ reads[i].of = "board" => next[i] = reads[i]
           /\ reads[i].of # "profile" => next[i].of # "profile"
  PROVE  RequestOK(next, lb, brd, ses)
<1>1. lb.request # None =>
        lb.request \in 1..Len(next) /\ Requested(next[lb.request], lb, brd, ses)
  BY DEF RequestOK, Requested
<1>2. lb.abort # None => lb.abort \in 1..Len(next) /\ next[lb.abort].of # "profile"
  BY DEF RequestOK
<1>3. \A i \in 1..Len(next) :
        next[i].of = "board" /\ ~ next[i].aborted /\ next[i].generation = lb.generation
          => lb.request = i
  BY DEF RequestOK
<1> QED  BY <1>1, <1>2, <1>3 DEF RequestOK

\* Nor does the profile's latest read know of the leaderboard's.
LEMMA LatestFrame ==
  ASSUME NEW reads, NEW next, NEW pr, NEW ses, LatestOK(reads, pr, ses),
         Len(reads) \in Nat, Len(next) \in Nat, Len(reads) <= Len(next),
         \A i \in 1..Len(next) : next[i].of = "profile" => i <= Len(reads) /\ next[i] = reads[i],
         \A i \in 1..Len(reads) : reads[i].of = "profile" => next[i] = reads[i]
  PROVE  LatestOK(next, pr, ses)
BY DEF LatestOK

LEMMA AnswerGrows ==
  ASSUME NEW r, NEW ents, NEW more, BoardAnswer(r, ents), ents[r.slot] \subseteq more[r.slot]
  PROVE  BoardAnswer(r, more)
BY DEF BoardAnswer

LEMMA ReadsGrow ==
  ASSUME NEW reads, NEW ents, NEW lb, NEW pr, ReadsOK(reads, ents, lb, pr),
         NEW more, \A s \in Slots : ents[s] \subseteq more[s],
         NEW lb2, lb.generation \in Nat, lb2.generation \in Nat, lb.generation <= lb2.generation,
         NEW pr2, pr.generation \in Nat, pr2.generation \in Nat, pr.generation <= pr2.generation
  PROVE  ReadsOK(reads, more, lb2, pr2)
<1>1. ASSUME NEW i \in 1..Len(reads), reads[i].of = "board"
      PROVE  BoardRead(reads[i], lb2, more)
  <2>1. BoardRead(reads[i], lb, ents)
    BY <1>1 DEF ReadsOK
  <2>2. reads[i].slot \in Slots /\ reads[i].generation \in Nat /\ reads[i].generation <= lb2.generation
    BY <2>1 DEF BoardRead
  <2>3. BoardAnswer(reads[i], ents) => BoardAnswer(reads[i], more)
    BY <2>2, AnswerGrows
  <2> QED  BY <2>1, <2>2, <2>3 DEF BoardRead
<1>2. ASSUME NEW i \in 1..Len(reads), reads[i].of = "profile"
      PROVE  ProfileRead(reads[i], pr2)
  BY <1>2 DEF ReadsOK, ProfileRead
<1> QED  BY <1>1, <1>2 DEF ReadsOK

LEMMA ReadsAbort ==
  ASSUME NEW reads, NEW ents, NEW lb, NEW pr, ReadsOK(reads, ents, lb, pr),
         NEW k, k = None \/ k \in 1..Len(reads)
  PROVE  ReadsOK(Abort(reads, k), ents, lb, pr)
<1> DEFINE next == Abort(reads, k)
<1>1. IsList(reads) /\ \A i \in 1..Len(reads) : Shape(reads[i])
  BY DEF ReadsOK
<1>2. /\ IsList(next) /\ Len(next) = Len(reads)
      /\ \A i \in 1..Len(reads) :
           next[i] = IF i = k THEN [reads[i] EXCEPT !.aborted = TRUE] ELSE reads[i]
  BY <1>1, AbortFacts
<1> HIDE DEF next
<1>3. ASSUME NEW i \in 1..Len(reads)
      PROVE  /\ Shape(next[i])
             /\ next[i].of = "board" => BoardRead(next[i], lb, ents)
             /\ next[i].of = "profile" => ProfileRead(next[i], pr)
  <2>1. /\ reads[i].of = "board" => BoardRead(reads[i], lb, ents)
        /\ reads[i].of = "profile" => ProfileRead(reads[i], pr)
    BY DEF ReadsOK
  <2>2. CASE i # k
    <3>1. next[i] = reads[i]
      BY <1>2, <2>2
    <3> QED  BY <1>1, <2>1, <3>1
  <2>3. CASE i = k
    <3> DEFINE r == reads[i]
               a == [r EXCEPT !.aborted = TRUE]
    <3>1. next[i] = a
      BY <1>2, <2>3
    <3>2. /\ Shape(a) /\ a.of = r.of /\ a.aborted \in BOOLEAN /\ a.aborted
          /\ r.of # "none" =>
               /\ a.slot = r.slot /\ a.cursor = r.cursor /\ a.generation = r.generation
               /\ a.session = r.session /\ a.st = r.st /\ a.answer = r.answer
      BY <1>1, AbortedShape
    <3> HIDE DEF a, r
    <3>3. a.of = "board" => BoardRead(a, lb, ents)
      BY <2>1, <3>2 DEF BoardRead, BoardAnswer, r
    <3>4. a.of = "profile" => ProfileRead(a, pr)
      BY <2>1, <3>2 DEF ProfileRead, r
    <3> QED  BY <3>1, <3>2, <3>3, <3>4
  <2> QED  BY <2>2, <2>3
<1> QED  BY <1>2, <1>3 DEF ReadsOK, next

LEMMA ReadsNew ==
  ASSUME NEW reads, NEW ents, NEW lb, NEW pr, ReadsOK(reads, ents, lb, pr),
         NEW of, NEW s, NEW cursor, NEW generation \in Nat,
         \/ of = "board" /\ s \in Slots /\ generation <= lb.generation
         \/ of = "profile" /\ generation <= pr.generation /\ session \in {0, 1}
  PROVE  ReadsOK(NewRead(reads, of, s, cursor, generation), ents, lb, pr)
<1> DEFINE t == NewRead(reads, of, s, cursor, generation)
           r == t[Len(reads) + 1]
<1>1. IsList(reads) /\ of \in {"board", "profile"} /\ Len(reads) \in Nat
  BY DEF ReadsOK, IsList
<1>0. /\ IsList(t) /\ Len(t) = Len(reads) + 1
      /\ \A i \in 1..Len(reads) : t[i] = reads[i]
      /\ r = FreshRead(of, s, cursor, generation)
  BY <1>1, NewReadFacts
<1> HIDE DEF t
<1> DEFINE fresh == FreshRead(of, s, cursor, generation)
<1>7. /\ Shape(fresh) /\ fresh.of = of /\ fresh.slot = s /\ fresh.cursor = cursor
      /\ fresh.generation = generation
      /\ fresh.session = session /\ fresh.aborted \in BOOLEAN /\ ~ fresh.aborted /\ fresh.st = "sent"
  BY <1>1, FreshFacts
<1> HIDE DEF r
<1>8. r = fresh
  BY <1>0 DEF r
<1> HIDE DEF fresh
<1>2. /\ IsList(t) /\ Len(t) = Len(reads) + 1
      /\ \A i \in 1..Len(reads) : t[i] = reads[i]
      /\ Shape(r) /\ r.of = of /\ r.slot = s /\ r.cursor = cursor /\ r.generation = generation
      /\ r.session = session /\ r.aborted \in BOOLEAN /\ ~ r.aborted /\ r.st = "sent"
  BY <1>0, <1>7, <1>8
<1>3. r.of = "board" => BoardRead(r, lb, ents)
  BY <1>2 DEF BoardRead
<1>4. r.of = "profile" => ProfileRead(r, pr)
  BY <1>2 DEF ProfileRead
<1>5. \A i \in 1..Len(t) : i \in 1..Len(reads) \/ i = Len(reads) + 1
  BY <1>1, <1>2
<1> HIDE DEF r
<1>6. ASSUME NEW i \in 1..Len(t)
      PROVE  /\ Shape(t[i])
             /\ t[i].of = "board" => BoardRead(t[i], lb, ents)
             /\ t[i].of = "profile" => ProfileRead(t[i], pr)
  <2>1. CASE i \in 1..Len(reads)
    BY <1>2, <2>1 DEF ReadsOK
  <2>2. CASE i = Len(reads) + 1
    BY <1>2, <1>3, <1>4, <2>2 DEF r
  <2> QED  BY <1>5, <2>1, <2>2
<1> QED  BY <1>2, <1>6 DEF ReadsOK, t

LEMMA ReadsReplaced ==
  ASSUME NEW reads, NEW ents, NEW lb, NEW pr, ReadsOK(reads, ents, lb, pr),
         NEW i \in 1..Len(reads), NEW x, Shape(x),
         x.of = "board" => BoardRead(x, lb, ents),
         x.of = "profile" => ProfileRead(x, pr)
  PROVE  ReadsOK([reads EXCEPT ![i] = x], ents, lb, pr)
<1> DEFINE t == [reads EXCEPT ![i] = x]
<1>1. IsList(reads)
  BY DEF ReadsOK
<1>2. IsList(t) /\ Len(t) = Len(reads) /\ t[i] = x
      /\ \A j \in 1..Len(reads) : j # i => t[j] = reads[j]
  BY <1>1, ExceptFacts
<1> HIDE DEF t
<1> QED  BY <1>2 DEF ReadsOK, t


(***************************************************************************)
(* The two kinds of new reads                                              *)
(***************************************************************************)
LEMMA OverFacts == Shape(Over) /\ Over.of = "none"
BY DEF Over, Shape

\* LatestRead: the read in flight is aborted and a new one takes its place.
LEMMA NewProfileRead ==
  ASSUME NEW reads, NEW ents, NEW lb, NEW pr, NEW brd, session \in {0, 1},
         ReadsOK(reads, ents, lb, pr), RequestOK(reads, lb, brd, session), LatestOK(reads, pr, session),
         NEW k, k = None \/ (k \in 1..Len(reads) /\ reads[k].of = "profile"),
         NEW next, next = NewRead(Abort(reads, k), "profile", None, <<>>, pr.generation + 1),
         NEW pr2, pr2 = [generation |-> pr.generation + 1, inFlight |-> Len(reads) + 1]
  PROVE  /\ ReadsOK(next, ents, lb, pr2) /\ RequestOK(next, lb, brd, session)
         /\ LatestOK(next, pr2, session) /\ Len(next) = Len(reads) + 1
<1> DEFINE mid == Abort(reads, k)
           n == Len(reads)
<1>1. /\ IsList(reads) /\ n \in Nat /\ pr.generation \in Nat /\ lb.generation \in Nat
      /\ \A i \in 1..n : Shape(reads[i])
  BY DEF ReadsOK, IsList, LatestOK, RequestOK
<1>2. /\ IsList(mid) /\ Len(mid) = n
      /\ \A i \in 1..n : mid[i] = IF i = k THEN [reads[i] EXCEPT !.aborted = TRUE] ELSE reads[i]
  BY <1>1, AbortFacts
<1> HIDE DEF mid
<1>3. \A i \in 1..n : mid[i].of = reads[i].of /\ (reads[i].of # "profile" => mid[i] = reads[i])
  <2>1. ASSUME NEW i \in 1..n
        PROVE mid[i].of = reads[i].of /\ (reads[i].of # "profile" => mid[i] = reads[i])
    <3>1. /\ mid[i].of = reads[i].of
          /\ i # k => mid[i] = reads[i]
      <4>1. i \in 1..Len(reads)
        OBVIOUS
      <4> HIDE DEF n
      <4> QED  BY <1>1, <4>1, AbortedRead DEF mid, n
    <3>2. i = k => reads[i].of = "profile"
      BY <1>1, ReportingAssumption
    <3> QED  BY <3>1, <3>2
  <2> QED  BY <2>1
<1>4. pr2.generation = pr.generation + 1 /\ pr2.inFlight = n + 1 /\ pr2.generation \in Nat
      /\ pr2 = [generation |-> pr2.generation, inFlight |-> pr2.inFlight]
  BY <1>1
<1>5. ReadsOK(mid, ents, lb, pr2)
  <2>1. ReadsOK(mid, ents, lb, pr)
    BY <1>1, ReadsAbort DEF mid
  <2> QED  BY <1>1, <1>4, <2>1, ReadsGrow
<1>6. ReadsOK(next, ents, lb, pr2)
  <2>1. next = NewRead(mid, "profile", None, <<>>, pr2.generation)
    BY <1>4 DEF mid
  <2> QED  BY <1>4, <1>5, <2>1, ReadsNew
<1> DEFINE r == next[n + 1]
<1>7. /\ IsList(next) /\ Len(next) = n + 1
      /\ \A i \in 1..n : next[i] = mid[i]
      /\ Shape(r) /\ r.of = "profile" /\ r.generation = pr.generation + 1
      /\ r.session = session /\ r.aborted \in BOOLEAN /\ ~ r.aborted
  <2>1. next = NewRead(mid, "profile", None, <<>>, pr.generation + 1)
    BY DEF mid
  <2>2. /\ IsList(next) /\ Len(next) = Len(mid) + 1
        /\ \A i \in 1..Len(mid) : next[i] = mid[i]
        /\ next[Len(mid) + 1] = FreshRead("profile", None, <<>>, pr.generation + 1)
    BY <1>2, <2>1, NewReadFacts
  <2>3. /\ IsList(next) /\ Len(next) = n + 1
        /\ \A i \in 1..n : next[i] = mid[i]
        /\ r = FreshRead("profile", None, <<>>, pr.generation + 1)
    BY <1>2, <2>2
  <2> HIDE DEF r
  <2> DEFINE fresh == FreshRead("profile", None, <<>>, pr.generation + 1)
  <2>4. Shape(fresh) /\ fresh.of = "profile" /\ fresh.generation = pr.generation + 1
        /\ fresh.session = session /\ fresh.aborted \in BOOLEAN /\ ~ fresh.aborted
    BY FreshFacts
  <2>5. r = fresh
    BY <2>3
  <2> HIDE DEF fresh
  <2> QED  BY <2>3, <2>4, <2>5
<1>8. \A i \in 1..(n + 1) : i \in 1..n \/ i = n + 1
  BY <1>1
<1> HIDE DEF n
<1>9. RequestOK(next, lb, brd, session)
  <2>1. \A i \in 1..Len(next) : next[i].of = "board" => i <= Len(reads) /\ next[i] = reads[i]
    BY <1>1, <1>3, <1>7, <1>8 DEF n
  <2>2. \A i \in 1..Len(reads) :
           /\ reads[i].of = "board" => next[i] = reads[i]
           /\ reads[i].of # "profile" => next[i].of # "profile"
    BY <1>3, <1>7 DEF n
  <2>3. Len(reads) \in Nat /\ Len(next) \in Nat /\ Len(reads) <= Len(next)
    BY <1>1, <1>7 DEF n
  <2> QED  BY <2>1, <2>2, <2>3, RequestFrame
<1>10. LatestOK(next, pr2, session)
  <2>1. n + 1 \in 1..Len(next)
    BY <1>1, <1>7
  <2>2. ASSUME NEW i \in 1..Len(next), next[i].of = "profile", next[i].generation = pr2.generation
        PROVE  i = n + 1
    <3>1. SUFFICES ASSUME i \in 1..n PROVE FALSE
      BY <1>7, <1>8
    <3>2. mid[i].of = "profile" /\ mid[i].generation = pr.generation + 1
      BY <1>4, <1>7, <2>2, <3>1
    <3>3. ProfileRead(reads[i], pr) /\ Shape(reads[i]) /\ reads[i].of = "profile"
      BY <1>1, <1>3, <3>1, <3>2 DEF ReadsOK, n
    <3>4. mid[i].generation = reads[i].generation
      <4>1. i \in 1..Len(reads) /\ (k = None \/ k \in 1..Len(reads))
        BY <3>1 DEF n
      <4>2. \A j \in 1..Len(reads) :
               reads[j].of # "none" => Abort(reads, k)[j].generation = reads[j].generation
        BY <1>1, <4>1, AbortedRead DEF n
      <4>3. reads[i].of # "none" => mid[i].generation = reads[i].generation
        BY <4>1, <4>2 DEF mid
      <4> QED  BY <3>3, <4>3
    <3> QED  BY <1>1, <3>2, <3>3, <3>4 DEF ProfileRead
  <2> QED  BY <1>4, <1>7, <2>1, <2>2 DEF LatestOK
<1> QED  BY <1>6, <1>7, <1>9, <1>10 DEF n

\* A new read of the leaderboard, where no other is of its generation.
LEMMA NewBoardRead ==
  ASSUME NEW reads, NEW ents, NEW lb, NEW pr,
         ReadsOK(reads, ents, lb, pr), LatestOK(reads, pr, session), lb.generation \in Nat,
         NEW generation \in Nat, lb.generation <= generation,
         \A i \in 1..Len(reads) :
           ~ (reads[i].of = "board" /\ ~ reads[i].aborted /\ reads[i].generation = generation),
         NEW s \in Slots, NEW cursor, NEW key,
         NEW brd, brd.slot = s, brd.cursor = cursor,
         brd.status = (IF cursor = <<>> THEN "LOADING" ELSE "APPENDING")
  PROVE  LET next == NewRead(reads, "board", s, cursor, generation)
             i == Len(reads) + 1
             lb2 == [generation |-> generation, abort |-> i, key |-> key, request |-> i]
         IN /\ ReadsOK(next, ents, lb2, pr) /\ RequestOK(next, lb2, brd, session)
            /\ LatestOK(next, pr, session) /\ Len(next) = i
<1> DEFINE next == NewRead(reads, "board", s, cursor, generation)
           n == Len(reads)
           lb2 == [generation |-> generation, abort |-> n + 1, key |-> key, request |-> n + 1]
           r == next[n + 1]
<1>1. IsList(reads) /\ n \in Nat /\ pr.generation \in Nat
  BY DEF ReadsOK, IsList, LatestOK
<1>2. lb2.generation = generation /\ lb2.abort = n + 1 /\ lb2.request = n + 1
      /\ lb2 = [generation |-> lb2.generation, abort |-> lb2.abort, key |-> lb2.key, request |-> lb2.request]
  OBVIOUS
<1> HIDE DEF lb2
<1>3. ReadsOK(reads, ents, lb2, pr)
  BY <1>1, <1>2, ReadsGrow
<1>4. ReadsOK(next, ents, lb2, pr)
  BY <1>2, <1>3, ReadsNew
<1>5. /\ IsList(next) /\ Len(next) = n + 1 /\ \A i \in 1..n : next[i] = reads[i]
      /\ r.of = "board" /\ r.slot = s /\ r.cursor = cursor /\ r.generation = generation
      /\ r.session = session /\ ~ r.aborted /\ r.st = "sent"
  <2> DEFINE fresh == FreshRead("board", s, cursor, generation)
  <2>1. fresh.of = "board" /\ fresh.slot = s /\ fresh.cursor = cursor /\ fresh.generation = generation
        /\ fresh.session = session /\ ~ fresh.aborted /\ fresh.st = "sent"
    BY FreshFacts
  <2> HIDE DEF fresh
  <2>2. /\ IsList(next) /\ Len(next) = n + 1 /\ \A i \in 1..n : next[i] = reads[i]
        /\ r = fresh
    BY <1>1, NewReadFacts DEF fresh
  <2> HIDE DEF r, next
  <2> QED  BY <2>1, <2>2
<1> HIDE DEF next, r, n
<1>6. \A i \in 1..(n + 1) : i \in 1..n \/ i = n + 1
  BY <1>1
<1>7. n + 1 \in 1..Len(next) /\ Requested(next[n + 1], lb2, brd, session)
  BY <1>1, <1>2, <1>5 DEF Requested, r
<1>8. RequestOK(next, lb2, brd, session)
  <2>1. next[n + 1].of # "profile"
    BY <1>5 DEF r
  <2>2. ASSUME NEW i \in 1..Len(next), next[i].of = "board", ~ next[i].aborted, next[i].generation = generation
        PROVE  i = n + 1
    BY <1>5, <1>6, <2>2 DEF n
  <2>3. n + 1 # None
    BY <1>1, ReportingAssumption
  <2> QED  BY <1>2, <1>7, <2>1, <2>2, <2>3 DEF RequestOK
<1>9. LatestOK(next, pr, session)
  <2>1. \A i \in 1..Len(next) : next[i].of = "profile" => i <= Len(reads) /\ next[i] = reads[i]
    BY <1>1, <1>5, <1>6 DEF n, r
  <2>2. \A i \in 1..Len(reads) : reads[i].of = "profile" => next[i] = reads[i]
    BY <1>5 DEF n
  <2>3. Len(reads) \in Nat /\ Len(next) \in Nat /\ Len(reads) <= Len(next)
    BY <1>1, <1>5 DEF n
  <2> QED  BY <2>1, <2>2, <2>3, LatestFrame
<1> QED  BY <1>4, <1>5, <1>8, <1>9 DEF n, next, lb2

\* What aborting the request of the leaderboard leaves as it was.
LEMMA BoardAborted ==
  ASSUME NEW reads, NEW ents, NEW lb, NEW pr, NEW brd,
         ReadsOK(reads, ents, lb, pr), RequestOK(reads, lb, brd, session), LatestOK(reads, pr, session)
  PROVE  LET mid == Abort(reads, lb.abort)
         IN /\ ReadsOK(mid, ents, lb, pr) /\ LatestOK(mid, pr, session) /\ Len(mid) = Len(reads)
            /\ \A i \in 1..Len(mid) : mid[i].of = "board" => mid[i].generation <= lb.generation
<1> DEFINE mid == Abort(reads, lb.abort)
<1>1. /\ IsList(reads) /\ Len(reads) \in Nat /\ \A i \in 1..Len(reads) : Shape(reads[i])
      /\ lb.abort = None \/ lb.abort \in 1..Len(reads)
  BY DEF ReadsOK, IsList, RequestOK
<1>2. ReadsOK(mid, ents, lb, pr)
  BY <1>1, ReadsAbort
<1>3. Len(mid) = Len(reads)
  BY <1>1, AbortFacts
<1>4. \A i \in 1..Len(reads) : mid[i].of = reads[i].of /\ (i # lb.abort => mid[i] = reads[i])
  BY <1>1, AbortedRead
<1> HIDE DEF mid
<1>5. \A i \in 1..Len(reads) : i = lb.abort => reads[i].of # "profile"
  BY <1>1, ReportingAssumption DEF RequestOK
<1>6. LatestOK(mid, pr, session)
  <2>1. \A i \in 1..Len(mid) : mid[i].of = "profile" => i <= Len(reads) /\ mid[i] = reads[i]
    BY <1>1, <1>3, <1>4, <1>5
  <2>2. \A i \in 1..Len(reads) : reads[i].of = "profile" => mid[i] = reads[i]
    BY <1>4, <1>5
  <2> QED  BY <1>1, <1>3, <2>1, <2>2, LatestFrame
<1>7. \A i \in 1..Len(mid) : mid[i].of = "board" => mid[i].generation <= lb.generation
  BY <1>2 DEF ReadsOK, BoardRead
<1> QED  BY <1>2, <1>3, <1>6, <1>7 DEF mid

(***************************************************************************)
(* Pages one after the other                                               *)
(***************************************************************************)
LEMMA FewerEntries ==
  ASSUME NEW S, NEW T, AreEntries(T), S \subseteq T
  PROVE  AreEntries(S)
<1>1. IsFiniteSet(S)
  BY FS_Subset DEF AreEntries
<1> QED  BY <1>1 DEF AreEntries

\* Later entries leave the pages shown what they were.
LEMMA TogetherGrows ==
  ASSUME NEW shown \in Seq(Rows(Anyone)), NEW cursor, NEW first, NEW all, Together(shown, cursor, first, all),
         NEW more, AreEntries(more), all \subseteq more
  PROVE  Together(shown, cursor, first, more)
<1>1. \A i \in 1..Len(shown) : shown[i].rank \in Nat
  <2>1. \A i \in 1..Len(shown) : shown[i] \in Rows(Anyone)
    OBVIOUS
  <2> QED  BY <2>1 DEF Rows
<1>2. ASSUME NEW i \in 1..Len(shown)
      PROVE  shown[i].rank <= RankIn(shown[i].entry, more)
  <2>1. shown[i].rank <= RankIn(shown[i].entry, all)
    BY DEF Together
  <2>2. /\ RankIn(shown[i].entry, all) <= RankIn(shown[i].entry, more)
        /\ RankIn(shown[i].entry, all) \in Nat /\ RankIn(shown[i].entry, more) \in Nat
    BY RankGrows
  <2> QED  BY <1>1, <2>1, <2>2
<1> QED  BY <1>2 DEF Together

LEMMA FirstPage ==
  ASSUME NEW all, AreEntries(all), NEW S, S \subseteq all, NEW items, NEW next,
         IsPage(items, next # <<>>, S, Behind(S, <<>>)),
         next # <<>> => next[1].at = items[Len(items)].entry
  PROVE  /\ Together(items, next, S, all)
         /\ \A i \in 1..Len(items) : items[i].entry \in all
<1>1. Behind(S, <<>>) = S
  BY DEF Behind
<1>2. ASSUME NEW i \in 1..Len(items)
      PROVE  /\ items[i].rank <= RankIn(items[i].entry, all)
             /\ items[i].rank >= RankIn(items[i].entry, S)
  <2>1. items[i].rank = RankIn(items[i].entry, S)
    BY DEF IsPage
  <2>2. /\ RankIn(items[i].entry, S) <= RankIn(items[i].entry, all)
        /\ RankIn(items[i].entry, S) \in Nat
    BY RankGrows
  <2> QED  BY <2>1, <2>2
<1>3. \A i \in 1..Len(items) : items[i].entry \in all
  BY <1>1 DEF IsPage
<1> QED  BY <1>1, <1>2, <1>3 DEF IsPage, Together

LEMMA NextPage ==
  ASSUME NEW all, AreEntries(all), NEW S, S \subseteq all,
         NEW shown \in Seq(Rows(Anyone)), NEW items \in Seq(Rows(Anyone)),
         NEW first, first \subseteq S, NEW cursor, cursor # <<>>, Together(shown, cursor, first, all),
         \A i \in 1..Len(shown) : shown[i].entry \in all,
         NEW next, IsPage(items, next # <<>>, S, Behind(S, cursor)),
         next # <<>> => next[1].at = items[Len(items)].entry
  PROVE  /\ Together(shown \o items, next, first, all)
         /\ shown \o items \in Seq(Rows(Anyone))
         /\ \A i \in 1..Len(shown \o items) : (shown \o items)[i].entry \in all
<1> DEFINE both == shown \o items
           n == Len(shown)
           m == Len(items)
           c == cursor[1].at
<1>1. n \in Nat /\ m \in Nat /\ n > 0 /\ c = shown[n].entry /\ c \in all
  BY DEF Together
<1>2. /\ both \in Seq(Rows(Anyone)) /\ Len(both) = n + m
      /\ \A i \in 1..n : both[i] = shown[i]
      /\ \A i \in 1..m : both[n + i] = items[i]
  OBVIOUS
<1>3. \A i \in 1..(n + m) : i \in 1..n \/ (i - n \in 1..m /\ both[i] = items[i - n] /\ i > n)
  BY <1>1, <1>2
<1>4. \A i \in 1..m : items[i].entry \in S /\ items[i].entry \in all /\ Before(c, items[i].entry)
  BY DEF IsPage, Behind
<1>5. \A i \in 1..m : items[i].rank = RankIn(items[i].entry, S)
  BY DEF IsPage
<1>6. \A i, j \in 1..m : i < j => Before(items[i].entry, items[j].entry)
  BY DEF IsPage
<1>7. /\ \A i, j \in 1..n : i < j => Before(shown[i].entry, shown[j].entry)
      /\ \A a \in first : (\E i \in 1..n : shown[i].entry = a) \/ Before(c, a)
      /\ \A i \in 1..n :
           /\ shown[i].rank <= RankIn(shown[i].entry, all)
           /\ shown[i].entry \in first => shown[i].rank >= RankIn(shown[i].entry, first)
  BY <1>1 DEF Together
<1>8. next # <<>> => m > 0 /\ next[1].at = both[n + m].entry
  <2>1. next # <<>> => m > 0
    BY DEF IsPage
  <2> QED  BY <1>1, <1>2, <2>1
<1>9. \A a \in S : Before(c, a) =>
        (\E i \in 1..m : items[i].entry = a) \/ (next # <<>> /\ Before(items[m].entry, a))
  BY DEF IsPage, Behind
<1> HIDE DEF both, n, m, c
<1>10. \A i \in 1..n, j \in 1..m : Before(shown[i].entry, items[j].entry)
  <2> SUFFICES ASSUME NEW i \in 1..n, NEW j \in 1..m
               PROVE  Before(shown[i].entry, items[j].entry)
    OBVIOUS
  <2>1. CASE i = n
    BY <1>1, <1>4, <2>1
  <2>2. CASE i # n
    <3>1. Before(shown[i].entry, c)
      BY <1>1, <1>7, <2>2
    <3>2. Before(c, items[j].entry) /\ items[j].entry \in all /\ shown[i].entry \in all
      BY <1>4 DEF n
    <3> QED  BY <1>1, <3>1, <3>2, Comparisons
  <2> QED  BY <2>1, <2>2
<1>11. ASSUME NEW i \in 1..(n + m), NEW j \in 1..(n + m), i < j
       PROVE  Before(both[i].entry, both[j].entry)
  <2>1. CASE j \in 1..n
    BY <1>1, <1>2, <1>7, <1>11, <2>1
  <2>2. CASE j - n \in 1..m /\ both[j] = items[j - n]
    <3>1. CASE i \in 1..n
      BY <1>2, <1>10, <2>2, <3>1
    <3>2. CASE i - n \in 1..m /\ both[i] = items[i - n]
      <4>1. i - n < j - n
        BY <1>1, <1>11
      <4> QED  BY <1>6, <2>2, <3>2, <4>1
    <3> QED  BY <1>3, <3>1, <3>2
  <2> QED  BY <1>3, <2>1, <2>2
<1>12. ASSUME NEW a \in first
       PROVE  \/ \E i \in 1..(n + m) : both[i].entry = a
              \/ next # <<>> /\ Before(both[n + m].entry, a)
  <2>1. CASE \E i \in 1..n : shown[i].entry = a
    BY <1>1, <1>2, <2>1
  <2>2. CASE \E i \in 1..m : items[i].entry = a
    <3>1. PICK i \in 1..m : items[i].entry = a
      BY <2>2
    <3>2. n + i \in 1..(n + m) /\ both[n + i].entry = a
      BY <1>1, <1>2, <3>1
    <3> QED  BY <3>2
  <2>3. CASE next # <<>> /\ Before(items[m].entry, a)
    BY <1>1, <1>2, <1>8, <2>3
  <2> QED  BY <1>7, <1>9, <2>1, <2>2, <2>3
<1>13. ASSUME NEW i \in 1..m
       PROVE  /\ items[i].rank <= RankIn(items[i].entry, all)
              /\ items[i].rank >= RankIn(items[i].entry, first)
  <2>1. AreEntries(S)
    BY FewerEntries
  <2>2. /\ RankIn(items[i].entry, first) <= RankIn(items[i].entry, S)
        /\ RankIn(items[i].entry, first) \in Nat /\ RankIn(items[i].entry, S) \in Nat
    BY <2>1, RankGrows
  <2>3. RankIn(items[i].entry, S) <= RankIn(items[i].entry, all)
    BY RankGrows
  <2> QED  BY <1>5, <2>2, <2>3
<1>14. ASSUME NEW i \in 1..(n + m)
       PROVE  /\ both[i].rank <= RankIn(both[i].entry, all)
              /\ both[i].entry \in first => both[i].rank >= RankIn(both[i].entry, first)
              /\ both[i].entry \in all
  <2>1. CASE i \in 1..n
    BY <1>2, <1>7, <2>1 DEF n
  <2>2. CASE i - n \in 1..m /\ both[i] = items[i - n]
    BY <1>4, <1>13, <2>2
  <2> QED  BY <1>3, <2>1, <2>2
<1>15. Together(both, next, first, all)
  <2>1. next # <<>> => Len(both) > 0 /\ next[1].at = both[Len(both)].entry
    BY <1>1, <1>2, <1>8
  <2> QED  BY <1>2, <1>11, <1>12, <1>14, <2>1 DEF Together
<1> QED  BY <1>2, <1>14, <1>15 DEF both

LEMMA KnownEntries ==
  ASSUME NEW ents, ServerOK(ents), NEW s \in Slots
  PROVE  AreEntries(ents[s]) /\ ents[s] \subseteq Anyone
<1>1. AreEntries(Known(s)) /\ ents[s] \subseteq Known(s)
  BY ReportingAssumption DEF ServerOK, Known
<1>2. Known(s) \subseteq Anyone
  BY DEF Known, Anyone
<1> QED  BY <1>1, <1>2, FewerEntries

LEMMA ServerGrows ==
  ASSUME ServerOK(entries), NEW s \in Slots, NEW a \in Known(s),
         entries' = [entries EXCEPT ![s] = @ \cup {a}]
  PROVE  ServerOK(entries') /\ \A t \in Slots : entries[t] \subseteq entries'[t]
<1>1. DOMAIN entries = Slots
  BY DEF ServerOK
<1>2. entries' = [t \in Slots |-> entries'[t]]
  BY <1>1
<1>3. \A t \in Slots : entries'[t] = IF t = s THEN entries[t] \cup {a} ELSE entries[t]
  BY <1>1
<1> QED  BY <1>2, <1>3 DEF ServerOK

LEMMA BoardGrows ==
  ASSUME NEW brd, NEW ents, NEW ses, BoardOK(brd, ents, ses),
         NEW more, ServerOK(more), \A s \in Slots : ents[s] \subseteq more[s]
  PROVE  BoardOK(brd, more, ses)
<1>1. ASSUME brd.slot \in Slots, Together(brd.shown, brd.cursor, brd.first, ents[brd.slot])
      PROVE  Together(brd.shown, brd.cursor, brd.first, more[brd.slot])
  <2>1. AreEntries(more[brd.slot]) /\ ents[brd.slot] \subseteq more[brd.slot]
    BY <1>1, KnownEntries
  <2>2. brd.shown \in Seq(Rows(Anyone))
    BY DEF BoardOK
  <2> QED  BY <1>1, <2>1, <2>2, TogetherGrows
<1>2. brd.slot \in Slots => ents[brd.slot] \subseteq more[brd.slot]
  OBVIOUS
<1> QED  BY <1>1, <1>2 DEF BoardOK


(***************************************************************************)
(* #loadLeaderboard                                                        *)
(***************************************************************************)
LEMMA BoardExcept ==
  ASSUME NEW b, b = [slot |-> b.slot, status |-> b.status, shown |-> b.shown, cursor |-> b.cursor,
                     session |-> b.session, first |-> b.first],
         NEW s, NEW st, NEW sh, NEW c
  PROVE  [b EXCEPT !.slot = s, !.status = st, !.shown = sh, !.cursor = c] =
           [slot |-> s, status |-> st, shown |-> sh, cursor |-> c, session |-> b.session, first |-> b.first]
<1> DEFINE b1 == [b EXCEPT !.slot = s]
           b2 == [b1 EXCEPT !.status = st]
           b3 == [b2 EXCEPT !.shown = sh]
           b4 == [b3 EXCEPT !.cursor = c]
<1>1. b1 = [slot |-> s, status |-> b.status, shown |-> b.shown, cursor |-> b.cursor,
            session |-> b.session, first |-> b.first]
  BY DEF b1
<1> HIDE DEF b1
<1>2. b2 = [slot |-> s, status |-> st, shown |-> b.shown, cursor |-> b.cursor,
            session |-> b.session, first |-> b.first]
  BY <1>1 DEF b2
<1> HIDE DEF b2
<1>3. b3 = [slot |-> s, status |-> st, shown |-> sh, cursor |-> b.cursor,
            session |-> b.session, first |-> b.first]
  BY <1>2 DEF b3
<1> HIDE DEF b3
<1>4. b4 = [slot |-> s, status |-> st, shown |-> sh, cursor |-> c,
            session |-> b.session, first |-> b.first]
  BY <1>3 DEF b4
<1> HIDE DEF b4
<1>5. [b EXCEPT !.slot = s, !.status = st, !.shown = sh, !.cursor = c] = b4
  BY DEF b1, b2, b3, b4
<1> QED  BY <1>4, <1>5

\* A load that replaces, whether it joins one or begins one.
LEMMA LoadReplaces ==
  ASSUME NEW reads, NEW ents, NEW pr, NEW s \in Slots,
         ReadsOK(reads, ents, leaderboard, pr), RequestOK(reads, leaderboard, board, session),
         LatestOK(reads, pr, session), BoardOK(board, ents, session),
         loadLeaderboard(reads, s, <<>>, TRUE)
  PROVE  /\ ReadsOK(read', ents, leaderboard', pr) /\ RequestOK(read', leaderboard', board', session)
         /\ LatestOK(read', pr, session) /\ BoardOK(board', ents, session)
<1>1. CASE leaderboard.key = <<s, <<>>>> /\ leaderboard.request # None
  <2>1. read' = reads /\ leaderboard' = leaderboard /\ board' = board
    BY <1>1 DEF loadLeaderboard
  <2> QED  BY <2>1
<1>2. CASE ~ (leaderboard.key = <<s, <<>>>> /\ leaderboard.request # None)
  <2> DEFINE mid == Abort(reads, leaderboard.abort)
             g == leaderboard.generation + 1
             i == Len(mid) + 1
             key == <<s, <<>>>>
  <2>1. /\ ReadsOK(mid, ents, leaderboard, pr) /\ LatestOK(mid, pr, session) /\ Len(mid) = Len(reads)
        /\ \A j \in 1..Len(mid) : mid[j].of = "board" => mid[j].generation <= leaderboard.generation
    BY BoardAborted
  <2>2. Load(reads, s, <<>>, TRUE)
        /\ board' = [board EXCEPT !.slot = s, !.status = "LOADING", !.shown = <<>>, !.cursor = <<>>]
    BY <1>2 DEF loadLeaderboard
  <2>3. read' = NewRead(mid, "board", s, <<>>, g)
        /\ leaderboard' = [generation |-> g, abort |-> i, key |-> key, request |-> i]
    BY <2>1, <2>2 DEF Load
  <2>4. board' = [slot |-> s, status |-> "LOADING", shown |-> <<>>, cursor |-> <<>>,
                  session |-> board.session, first |-> board.first]
    BY <2>2, BoardExcept DEF BoardOK
  <2>5. leaderboard.generation \in Nat /\ g \in Nat /\ leaderboard.generation <= g
    BY DEF RequestOK
  <2>6. \A j \in 1..Len(mid) : ~ (mid[j].of = "board" /\ ~ mid[j].aborted /\ mid[j].generation = g)
    BY <2>1, <2>5
  <2> HIDE DEF mid, g, i, key
  <2>7. board'.slot = s /\ board'.cursor = <<>> /\ board'.status = IF <<>> = <<>> THEN "LOADING" ELSE "APPENDING"
    BY <2>4
  <2>8. /\ ReadsOK(read', ents, leaderboard', pr) /\ RequestOK(read', leaderboard', board', session)
        /\ LatestOK(read', pr, session)
    BY <2>1, <2>3, <2>5, <2>6, <2>7, NewBoardRead DEF i
  <2>9. BoardOK(board', ents, session)
    BY <2>4 DEF BoardOK
  <2> QED  BY <2>8, <2>9
<1> QED  BY <1>1, <1>2

\* loadMore begins a load, for none is under way when there is a next page.
LEMMA LoadAppends ==
  ASSUME NEW reads, NEW ents, NEW pr,
         ReadsOK(reads, ents, leaderboard, pr), RequestOK(reads, leaderboard, board, session),
         LatestOK(reads, pr, session), BoardOK(board, ents, session),
         board.slot # None, board.cursor # <<>>, board.status # "APPENDING",
         loadLeaderboard(reads, board.slot, board.cursor, FALSE)
  PROVE  /\ ReadsOK(read', ents, leaderboard', pr) /\ RequestOK(read', leaderboard', board', session)
         /\ LatestOK(read', pr, session) /\ BoardOK(board', ents, session)
<1> DEFINE s == board.slot
           c == board.cursor
           g == leaderboard.generation
           i == Len(reads) + 1
           key == <<s, c>>
<1>1. leaderboard.request = None
  BY DEF RequestOK, Requested
<1>2. Load(reads, s, c, FALSE)
      /\ board' = [board EXCEPT !.slot = s, !.status = "APPENDING", !.shown = board.shown, !.cursor = c]
  BY <1>1 DEF loadLeaderboard
<1>3. g \in Nat /\ g <= g /\ s \in Slots
  BY DEF RequestOK, BoardOK
<1>4. read' = NewRead(reads, "board", s, c, g)
      /\ leaderboard' = [generation |-> g, abort |-> i, key |-> key, request |-> i]
  BY <1>2, <1>3 DEF Load
<1>5. board' = [slot |-> s, status |-> "APPENDING", shown |-> board.shown, cursor |-> c,
                session |-> board.session, first |-> board.first]
  BY <1>2, BoardExcept DEF BoardOK
<1>6. Len(reads) \in Nat
  BY DEF ReadsOK, IsList
<1>7. \A j \in 1..Len(reads) : ~ (reads[j].of = "board" /\ ~ reads[j].aborted /\ reads[j].generation = g)
  BY <1>1, <1>6, ReportingAssumption DEF RequestOK
<1>8. board'.slot = s /\ board'.cursor = c /\ board'.status = IF c = <<>> THEN "LOADING" ELSE "APPENDING"
  BY <1>5
<1>9. BoardOK(board', ents, session)
  BY <1>5 DEF BoardOK
<1> HIDE DEF s, c, g, i, key
<1>10. /\ ReadsOK(read', ents, leaderboard', pr) /\ RequestOK(read', leaderboard', board', session)
       /\ LatestOK(read', pr, session)
  BY <1>3, <1>4, <1>7, <1>8, NewBoardRead DEF i, g
<1> QED  BY <1>9, <1>10

(***************************************************************************)
(* The answers of the API processes                                        *)
(***************************************************************************)
\* A read that is answered stays the read that was asked for.
LEMMA SameRequests ==
  ASSUME NEW reads, NEW next, NEW lb, NEW pr, NEW brd, NEW ses,
         RequestOK(reads, lb, brd, ses), LatestOK(reads, pr, ses), Len(next) = Len(reads),
         \A i \in 1..Len(reads) :
           /\ next[i].of = reads[i].of /\ next[i].aborted = reads[i].aborted
           /\ reads[i].of # "none" =>
                /\ next[i].generation = reads[i].generation /\ next[i].session = reads[i].session
                /\ next[i].slot = reads[i].slot /\ next[i].cursor = reads[i].cursor,
         lb.request # None =>
           LET r == next[lb.request]
           IN brd.cursor # <<>> /\ r.st = "answered" /\ r.answer.ok => brd.first \subseteq r.answer.first
  PROVE  RequestOK(next, lb, brd, ses) /\ LatestOK(next, pr, ses)
<1>1. lb.request # None =>
        lb.request \in 1..Len(next) /\ Requested(next[lb.request], lb, brd, ses)
  BY DEF RequestOK, Requested
<1>2. lb.abort # None => lb.abort \in 1..Len(next) /\ next[lb.abort].of # "profile"
  BY DEF RequestOK
<1>3. \A i \in 1..Len(next) :
        next[i].of = "board" /\ ~ next[i].aborted /\ next[i].generation = lb.generation
          => lb.request = i
  BY DEF RequestOK
<1>4. RequestOK(next, lb, brd, ses)
  BY <1>1, <1>2, <1>3 DEF RequestOK
<1>5. LatestOK(next, pr, ses)
  BY DEF LatestOK
<1> QED  BY <1>4, <1>5

LEMMA ProfileAnswered ==
  ASSUME NEW i, GamesOK(games), read[i].session \in {0, 1}
  PROVE  getProfile(i).ok \in BOOLEAN /\ Amounts(getProfile(i).value, getProfile(i).games)
<1> DEFINE mine == games[read[i].session]
<1>1. IsHistory(mine)
  BY DEF GamesOK
<1> HIDE DEF mine
<1>2. getProfile(i).ok = TRUE /\ getProfile(i).games = mine
      /\ getProfile(i).value = calculateProfileStatistics(mine, Today)
  BY Zenon DEF getProfile, mine
<1> QED  BY <1>1, <1>2 DEF Amounts

\* A page that an answer carries was read behind its cursor, from what the
\* slot's leaderboard was then.
LEMMA BoardAnswered ==
  ASSUME NEW i, NEW ring, ServerOK(entries), read[i].slot \in Slots,
         NEW answer, answer = getLeaderboard(i, ring)
  PROVE  /\ answer.ok \in BOOLEAN
         /\ answer.ok =>
              /\ answer.first = entries[read[i].slot]
              /\ read[i].cursor # <<>> => read[i].cursor[1].at \in answer.first
              /\ answer.items \in Seq(Rows(Anyone))
              /\ IsPage(answer.items, answer.next # <<>>, answer.first, Behind(answer.first, read[i].cursor))
              /\ answer.next # <<>> => answer.next[1].at = answer.items[Len(answer.items)].entry
<1> DEFINE r == read[i]
           S == entries[r.slot]
           position == IF r.cursor = <<>> THEN <<>> ELSE <<r.cursor[1].at>>
           page == readDailyLeaderboardPage(S, position, Limit)
           next == encodeCursor(ring, r.slot, page.next)
           good == CursorIsGood(ring, r.slot, r.cursor)
<1>1. AreEntries(S) /\ S \subseteq Anyone
  BY KnownEntries
<1>2. good => (r.cursor # <<>> => r.cursor[1].at \in S)
  BY DEF CursorIsGood
<1>3. /\ ~ good => answer = [ok |-> FALSE]
      /\ good => answer = [ok |-> TRUE, items |-> page.items, first |-> S, next |-> next]
  BY Zenon DEF getLeaderboard
<1>4. CASE ~ good
  <2>1. answer = [ok |-> FALSE]
    BY <1>3, <1>4
  <2> DEFINE no == FALSE
  <2>2. answer = [ok |-> no]
    BY <2>1
  <2> HIDE DEF no
  <2>3. answer.ok = no
    BY <2>2
  <2> QED  BY <1>4, <2>3 DEF no
<1>5. CASE good
  <2>1. position = <<>> \/ (position # <<>> /\ position[1] \in S)
    BY <1>2, <1>5
  <2>2. (position # <<>> <=> r.cursor # <<>>) /\ (r.cursor # <<>> => position[1] = r.cursor[1].at)
    OBVIOUS
  <2> HIDE DEF position
  <2>3. /\ page.items \in Seq(Rows(Anyone))
        /\ IsPage(page.items, page.next # <<>>, S, {a \in S : position # <<>> => Before(position[1], a)})
        /\ page.next # <<>> => page.next[1] = page.items[Len(page.items)].entry
    BY <1>1, <2>1, PageFacts
  <2>4. {a \in S : position # <<>> => Before(position[1], a)} = Behind(S, r.cursor)
    BY <2>2 DEF Behind
  <2> HIDE DEF page
  <2>5. (next # <<>> <=> page.next # <<>>) /\ (next # <<>> => next[1].at = page.next[1])
    BY DEF encodeCursor
  <2> HIDE DEF next, S, good, r
  <2>6. answer.ok = TRUE /\ answer.items = page.items /\ answer.first = S /\ answer.next = next
    <3>1. answer = [ok |-> TRUE, items |-> page.items, first |-> S, next |-> next]
      BY <1>3, <1>5, Zenon
    <3> DEFINE yes == TRUE
    <3>2. answer = [ok |-> yes, items |-> page.items, first |-> S, next |-> next]
      BY <3>1
    <3> HIDE DEF yes
    <3>3. answer.ok = yes /\ answer.items = page.items /\ answer.first = S /\ answer.next = next
      BY <3>2
    <3> QED  BY <3>3 DEF yes
  <2>7. IsPage(page.items, next # <<>>, S, Behind(S, r.cursor))
    BY <2>3, <2>4, <2>5 DEF IsPage
  <2> QED  BY <1>2, <1>5, <2>3, <2>5, <2>6, <2>7 DEF r, S
<1> QED  BY <1>4, <1>5

LEMMA TwoFields ==
  ASSUME NEW s, IsList(s), NEW i \in 1..Len(s), NEW a, NEW b
  PROVE  [s EXCEPT ![i].st = a, ![i].answer = b] =
           [s EXCEPT ![i] = [[s[i] EXCEPT !.st = a] EXCEPT !.answer = b]]
<1> DEFINE x == [s[i] EXCEPT !.st = a]
           s1 == [s EXCEPT ![i] = x]
           y == [x EXCEPT !.answer = b]
<1>1. i \in DOMAIN s
  BY ListFacts
<1>2. s1[i] = x
  BY <1>1
<1>3. [s EXCEPT ![i].st = a, ![i].answer = b] = [s1 EXCEPT ![i] = [s1[i] EXCEPT !.answer = b]]
  OBVIOUS
<1>4. [s1 EXCEPT ![i] = [s1[i] EXCEPT !.answer = b]] = [s1 EXCEPT ![i] = y]
  BY <1>2
<1> HIDE DEF y, x
<1>5. [s1 EXCEPT ![i] = y] = [s EXCEPT ![i] = y]
  BY <1>1
<1> HIDE DEF s1
<1> QED  BY <1>3, <1>4, <1>5 DEF y, x

LEMMA AnswersFit ==
  ASSUME ReportingIInv, NEW i \in 1..Len(read), read[i].st = "sent", NEW ring,
         NEW answer,
         \/ answer = IF read[i].of = "profile" THEN getProfile(i) ELSE getLeaderboard(i, ring)
         \/ answer = [ok |-> FALSE]
  PROVE  /\ answer.ok \in BOOLEAN
         /\ read[i].of = "profile" /\ answer.ok => Amounts(answer.value, answer.games)
         /\ read[i].of = "board" /\ answer.ok =>
              /\ answer.first = entries[read[i].slot]
              /\ read[i].cursor # <<>> => read[i].cursor[1].at \in answer.first
              /\ answer.items \in Seq(Rows(Anyone))
              /\ IsPage(answer.items, answer.next # <<>>, answer.first, Behind(answer.first, read[i].cursor))
              /\ answer.next # <<>> => answer.next[1].at = answer.items[Len(answer.items)].entry
<1>1. /\ ServerOK(entries) /\ GamesOK(games)
      /\ read[i].of \in {"board", "profile"}
      /\ read[i].of = "board" => read[i].slot \in Slots
      /\ read[i].of = "profile" => read[i].session \in {0, 1}
  BY DEF ReportingIInv, ReadsOK, Shape, BoardRead, ProfileRead
<1>2. CASE answer = [ok |-> FALSE]
  <2> DEFINE no == FALSE
  <2>1. answer = [ok |-> no]
    BY <1>2
  <2> HIDE DEF no
  <2>2. answer.ok = no
    BY <2>1
  <2> QED  BY <2>2 DEF no
<1>3. CASE answer # [ok |-> FALSE] /\ read[i].of = "profile"
  <2>1. answer = getProfile(i)
    BY <1>3
  <2>2. getProfile(i).ok \in BOOLEAN /\ Amounts(getProfile(i).value, getProfile(i).games)
    BY <1>1, <1>3, ProfileAnswered
  <2> QED  BY <1>3, <2>1, <2>2
<1>4. CASE answer # [ok |-> FALSE] /\ read[i].of = "board"
  <2>1. answer = getLeaderboard(i, ring)
    BY <1>4
  <2> QED  BY <1>1, <1>4, <2>1, BoardAnswered
<1> QED  BY <1>1, <1>2, <1>3, <1>4

LEMMA ServeStep ==
  ASSUME ReportingIInv, NEW i \in Ids, NEW ring \in rings, Serve(i, ring)
  PROVE  ReportingIInv'
<1> DEFINE r == read[i]
<1>1. /\ IsList(read) /\ i \in 1..Len(read) /\ Shape(r) /\ r.st = "sent" /\ r.of \in {"board", "profile"}
  <2>1. IsList(read) /\ \A j \in 1..Len(read) : Shape(read[j])
    BY DEF ReportingIInv, ReadsOK
  <2>2. i \in 1..Len(read)
    BY <2>1, ListFacts DEF Ids
  <2> QED  BY <2>1, <2>2 DEF Serve, Shape
<1>2. PICK answer :
        /\ \/ answer = IF read[i].of = "profile" THEN getProfile(i) ELSE getLeaderboard(i, ring)
           \/ answer = [ok |-> FALSE]
        /\ read' = [read EXCEPT ![i].st = "answered", ![i].answer = answer]
  <2> DEFINE a1 == IF read[i].of = "profile" THEN getProfile(i) ELSE getLeaderboard(i, ring)
             a2 == [ok |-> FALSE]
  <2> HIDE DEF a1, a2
  <2>1. \E answer \in {a1, a2} : read' = [read EXCEPT ![i].st = "answered", ![i].answer = answer]
    BY Zenon DEF Serve, a1, a2
  <2>2. PICK answer \in {a1, a2} : read' = [read EXCEPT ![i].st = "answered", ![i].answer = answer]
    BY <2>1
  <2>3. answer = a1 \/ answer = a2
    OBVIOUS
  <2> QED  BY <2>2, <2>3, Zenon DEF a1, a2
<1>3. /\ answer.ok \in BOOLEAN
      /\ r.of = "profile" /\ answer.ok => Amounts(answer.value, answer.games)
      /\ r.of = "board" /\ answer.ok =>
           /\ answer.first = entries[r.slot]
           /\ r.cursor # <<>> => r.cursor[1].at \in answer.first
           /\ answer.items \in Seq(Rows(Anyone))
           /\ IsPage(answer.items, answer.next # <<>>, answer.first, Behind(answer.first, r.cursor))
           /\ answer.next # <<>> => answer.next[1].at = answer.items[Len(answer.items)].entry
  BY <1>1, <1>2, AnswersFit, Zenon
<1> DEFINE x == [[r EXCEPT !.st = "answered"] EXCEPT !.answer = answer]
<1>4. read' = [read EXCEPT ![i] = x]
  BY <1>1, <1>2, TwoFields
<1>5. /\ Shape(x) /\ x.of = r.of /\ x.aborted = r.aborted
      /\ x.slot = r.slot /\ x.cursor = r.cursor /\ x.generation = r.generation
      /\ x.session = r.session /\ x.st = "answered" /\ x.answer = answer
  <2>1. Shape(r) /\ r.of # "none"
    BY <1>1
  <2> HIDE DEF r
  <2> QED  BY <2>1, AnsweredShape
<1> HIDE DEF x
<1>6. x.of = "board" => BoardRead(x, leaderboard, entries)
  <2>1. r.of = "board" => BoardRead(r, leaderboard, entries)
    BY <1>1 DEF ReportingIInv, ReadsOK
  <2>2. ASSUME x.of = "board", answer.ok PROVE BoardAnswer(x, entries)
    BY <1>3, <1>5, <2>2 DEF BoardAnswer
  <2> QED  BY <1>3, <1>5, <2>1, <2>2 DEF BoardRead
<1>7. x.of = "profile" => ProfileRead(x, profileRead)
  <2>1. r.of = "profile" => ProfileRead(r, profileRead)
    BY <1>1 DEF ReportingIInv, ReadsOK
  <2> QED  BY <1>3, <1>5, <2>1 DEF ProfileRead
<1>8. ReadsOK(read', entries, leaderboard, profileRead)
  BY <1>1, <1>4, <1>5, <1>6, <1>7, ReadsReplaced DEF ReportingIInv
<1>9. /\ Len(read') = Len(read) /\ read'[i] = x
      /\ \A j \in 1..Len(read) : j # i => read'[j] = read[j]
  BY <1>1, <1>4, ExceptFacts
<1>10. ASSUME leaderboard.request # None, board.cursor # <<>>,
              read'[leaderboard.request].st = "answered", read'[leaderboard.request].answer.ok
       PROVE  board.first \subseteq read'[leaderboard.request].answer.first
  <2> DEFINE k == leaderboard.request
  <2>1. k \in 1..Len(read) /\ Requested(read[k], leaderboard, board, session)
    BY <1>10 DEF ReportingIInv, RequestOK
  <2>2. board.first \subseteq entries[board.slot]
    BY <1>10 DEF ReportingIInv, BoardOK
  <2>3. CASE k = i
    BY <1>3, <1>5, <1>9, <1>10, <2>1, <2>2, <2>3 DEF Requested
  <2>4. CASE k # i
    BY <1>9, <1>10, <2>1, <2>4 DEF Requested
  <2> QED  BY <2>3, <2>4
<1>11. RequestOK(read', leaderboard, board, session) /\ LatestOK(read', profileRead, session)
  <2>1. \A j \in 1..Len(read) :
           /\ read'[j].of = read[j].of /\ read'[j].aborted = read[j].aborted
           /\ read[j].of # "none" =>
                /\ read'[j].generation = read[j].generation /\ read'[j].session = read[j].session
                /\ read'[j].slot = read[j].slot /\ read'[j].cursor = read[j].cursor
    BY <1>5, <1>9
  <2> QED  BY <1>9, <1>10, <2>1, SameRequests DEF ReportingIInv
<1>12. UNCHANGED <<Server, Browser>>
  BY DEF Serve
<1> QED  BY <1>8, <1>11, <1>12 DEF ReportingIInv, Server, Browser

(***************************************************************************)
(* Reads that return                                                       *)
(***************************************************************************)
\* A read that has returned asks for nothing.
LEMMA ReturnedRead ==
  ASSUME ReportingIInv, NEW i \in Ids, read' = [read EXCEPT ![i] = Over]
  PROVE  /\ i \in 1..Len(read) /\ Len(read) \in Nat /\ Len(read') = Len(read) /\ read'[i] = Over
         /\ \A j \in 1..Len(read) : j # i => read'[j] = read[j]
         /\ ReadsOK(read', entries, leaderboard, profileRead)
<1>1. IsList(read)
  BY DEF ReportingIInv, ReadsOK
<1>2. i \in 1..Len(read) /\ Len(read) \in Nat
  BY <1>1, ListFacts DEF Ids
<1>3. /\ Len(read') = Len(read) /\ read'[i] = Over
      /\ \A j \in 1..Len(read) : j # i => read'[j] = read[j]
  BY <1>1, <1>2, ExceptFacts
<1>4. Over.of # "board" /\ Over.of # "profile" /\ Shape(Over)
  BY OverFacts
<1>5. ReadsOK(read', entries, leaderboard, profileRead)
  BY <1>2, <1>4, ReadsReplaced DEF ReportingIInv
<1> QED  BY <1>2, <1>3, <1>5

LEMMA PageExcept ==
  ASSUME NEW b, b = [slot |-> b.slot, status |-> b.status, shown |-> b.shown, cursor |-> b.cursor,
                     session |-> b.session, first |-> b.first],
         NEW st, NEW sh, NEW c, NEW ses, NEW fst
  PROVE  [b EXCEPT !.shown = sh, !.cursor = c, !.status = st, !.session = ses, !.first = fst] =
           [slot |-> b.slot, status |-> st, shown |-> sh, cursor |-> c, session |-> ses, first |-> fst]
<1> DEFINE b1 == [b EXCEPT !.shown = sh]
           b2 == [b1 EXCEPT !.cursor = c]
           b3 == [b2 EXCEPT !.status = st]
           b4 == [b3 EXCEPT !.session = ses]
           b5 == [b4 EXCEPT !.first = fst]
<1>1. b1 = [slot |-> b.slot, status |-> b.status, shown |-> sh, cursor |-> b.cursor,
            session |-> b.session, first |-> b.first]
  BY DEF b1
<1> HIDE DEF b1
<1>2. b2 = [slot |-> b.slot, status |-> b.status, shown |-> sh, cursor |-> c,
            session |-> b.session, first |-> b.first]
  BY <1>1 DEF b2
<1> HIDE DEF b2
<1>3. b3 = [slot |-> b.slot, status |-> st, shown |-> sh, cursor |-> c,
            session |-> b.session, first |-> b.first]
  BY <1>2 DEF b3
<1> HIDE DEF b3
<1>4. b4 = [slot |-> b.slot, status |-> st, shown |-> sh, cursor |-> c,
            session |-> ses, first |-> b.first]
  BY <1>3 DEF b4
<1> HIDE DEF b4
<1>5. b5 = [slot |-> b.slot, status |-> st, shown |-> sh, cursor |-> c,
            session |-> ses, first |-> fst]
  BY <1>4 DEF b5
<1> HIDE DEF b5
<1>6. [b EXCEPT !.shown = sh, !.cursor = c, !.status = st, !.session = ses, !.first = fst] = b5
  BY DEF b1, b2, b3, b4, b5
<1> QED  BY <1>5, <1>6

\* What the current read leaves on the board.
LEMMA BoardWithPage ==
  ASSUME ServerOK(entries), BoardOK(board, entries, session),
         NEW r, BoardRead(r, leaderboard, entries), Requested(r, leaderboard, board, session),
         r.st = "answered", r.answer.ok,
         NEW shown, shown = IF r.cursor = <<>> THEN r.answer.items ELSE board.shown \o r.answer.items,
         NEW first, first = IF r.cursor = <<>> THEN r.answer.first ELSE board.first,
         NEW brd, brd = [slot |-> board.slot, status |-> "READY", shown |-> shown, cursor |-> r.answer.next,
                         session |-> r.session, first |-> first]
  PROVE  BoardOK(brd, entries, session)
<1> DEFINE all == entries[board.slot]
           answer == r.answer
<1>3. r.slot \in Slots /\ r.slot = board.slot /\ r.session = session /\ BoardAnswer(r, entries)
      /\ r.cursor = board.cursor
  BY DEF BoardRead, Requested
<1>4. AreEntries(all) /\ answer.first \subseteq all
  BY <1>3, KnownEntries DEF BoardAnswer
<1>5. /\ answer.items \in Seq(Rows(Anyone))
      /\ IsPage(answer.items, answer.next # <<>>, answer.first, Behind(answer.first, r.cursor))
      /\ answer.next # <<>> => answer.next[1].at = answer.items[Len(answer.items)].entry
  BY <1>3 DEF BoardAnswer
<1> HIDE DEF all, answer
<1>6. CASE r.cursor = <<>>
  <2>1. shown = answer.items /\ first = answer.first
    BY <1>6 DEF answer
  <2>2. Together(answer.items, answer.next, answer.first, all)
        /\ \A i \in 1..Len(answer.items) : answer.items[i].entry \in all
    BY <1>4, <1>5, <1>6, FirstPage
  <2>3. /\ brd.slot = board.slot /\ brd.status = "READY" /\ brd.shown = answer.items
        /\ brd.cursor = answer.next /\ brd.session = session /\ brd.first = answer.first
        /\ brd = [slot |-> brd.slot, status |-> brd.status, shown |-> brd.shown,
                     cursor |-> brd.cursor, session |-> brd.session, first |-> brd.first]
    BY <1>3, <2>1 DEF answer
  <2> QED  BY <1>3, <1>4, <1>5, <2>2, <2>3 DEF BoardOK, all
<1>7. CASE r.cursor # <<>>
  <2>1. shown = board.shown \o answer.items /\ first = board.first
    BY <1>7 DEF answer
  <2>2. /\ board.first \subseteq answer.first /\ board.first \subseteq all
        /\ Together(board.shown, board.cursor, board.first, all)
        /\ board.shown \in Seq(Rows(Anyone))
        /\ \A i \in 1..Len(board.shown) : board.shown[i].entry \in all
    BY <1>3, <1>7 DEF BoardOK, Requested, answer, all
  <2>3. /\ Together(board.shown \o answer.items, answer.next, board.first, all)
        /\ board.shown \o answer.items \in Seq(Rows(Anyone))
        /\ \A i \in 1..Len(board.shown \o answer.items) : (board.shown \o answer.items)[i].entry \in all
    BY <1>3, <1>4, <1>5, <1>7, <2>2, NextPage
  <2> DEFINE both == board.shown \o answer.items
  <2> HIDE DEF both
  <2>4. /\ Together(both, answer.next, board.first, all) /\ both \in Seq(Rows(Anyone))
        /\ \A i \in 1..Len(both) : both[i].entry \in all
    BY <2>3 DEF both
  <2>5. /\ brd.slot = board.slot /\ brd.status = "READY" /\ brd.shown = both
        /\ brd.cursor = answer.next /\ brd.session = session /\ brd.first = board.first
        /\ brd = [slot |-> brd.slot, status |-> brd.status, shown |-> brd.shown,
                     cursor |-> brd.cursor, session |-> brd.session, first |-> brd.first]
    BY <1>3, <2>1 DEF answer, both
  <2> QED  BY <1>3, <2>2, <2>4, <2>5 DEF BoardOK, all
<1> QED  BY <1>6, <1>7

LEMMA BoardReturnsStep ==
  ASSUME ReportingIInv, NEW i \in Ids, BoardReturns(i)
  PROVE  ReportingIInv'
<1> DEFINE r == read[i]
           current == ~ r.aborted /\ r.generation = leaderboard.generation
<1>1. read' = [read EXCEPT ![i] = Over] /\ r.of = "board" /\ UNCHANGED <<Server, session, profile, profileRead>>
      /\ (r.st = "answered" \/ (r.st = "sent" /\ r.aborted))
  BY DEF BoardReturns
<1>2. /\ i \in 1..Len(read) /\ Len(read) \in Nat /\ Len(read') = Len(read) /\ read'[i] = Over
      /\ \A j \in 1..Len(read) : j # i => read'[j] = read[j]
      /\ ReadsOK(read', entries, leaderboard, profileRead)
  BY <1>1, ReturnedRead
<1>3. Over.of = "none"
  BY OverFacts
<1>4. /\ ServerOK(entries) /\ GamesOK(games) /\ session \in {0, 1}
      /\ BoardRead(r, leaderboard, entries) /\ RequestOK(read, leaderboard, board, session)
      /\ LatestOK(read, profileRead, session) /\ BoardOK(board, entries, session)
      /\ ProfileOK(profile, profileRead, session) /\ leaderboard.generation \in Nat
      /\ profileRead.generation \in Nat
  BY <1>1, <1>2 DEF ReportingIInv, ReadsOK, RequestOK, LatestOK
<1>5. LatestOK(read', profileRead, session)
  <2>1. \A j \in 1..Len(read') : read'[j].of = "profile" => j <= Len(read) /\ read'[j] = read[j]
    BY <1>2, <1>3
  <2>2. \A j \in 1..Len(read) : read[j].of = "profile" => read'[j] = read[j]
    BY <1>1, <1>2
  <2>3. Len(read') \in Nat /\ Len(read) <= Len(read')
    BY <1>2
  <2> QED  BY <1>2, <1>4, <2>1, <2>2, <2>3, LatestFrame
<1>6. leaderboard.abort # None =>
        leaderboard.abort \in 1..Len(read') /\ read'[leaderboard.abort].of # "profile"
  BY <1>2, <1>3, <1>4 DEF RequestOK
<1>7. CASE current
  <2>1. leaderboard.request = i /\ r.st = "answered" /\ i # None
    BY <1>1, <1>2, <1>4, <1>7, ReportingAssumption DEF RequestOK
  <2>2. Requested(r, leaderboard, board, session)
    BY <1>4, <2>1 DEF RequestOK
  <2>3. leaderboard' = [leaderboard EXCEPT !.request = None, !.key = None]
    BY <2>1 DEF BoardReturns
  <2>4. leaderboard'.generation = leaderboard.generation /\ leaderboard'.abort = leaderboard.abort
        /\ leaderboard'.request = None
        /\ leaderboard' = [generation |-> leaderboard'.generation, abort |-> leaderboard'.abort,
                           key |-> leaderboard'.key, request |-> leaderboard'.request]
    <3> DEFINE l1 == [leaderboard EXCEPT !.request = None]
               l2 == [l1 EXCEPT !.key = None]
    <3>1. l1 = [generation |-> leaderboard.generation, abort |-> leaderboard.abort,
                key |-> leaderboard.key, request |-> None]
      BY <1>4 DEF RequestOK
    <3> HIDE DEF l1
    <3>2. l2 = [generation |-> leaderboard.generation, abort |-> leaderboard.abort,
                key |-> None, request |-> None]
      BY <3>1
    <3> HIDE DEF l2
    <3>3. leaderboard' = l2
      BY <2>3 DEF l1, l2
    <3> QED  BY <3>2, <3>3
  <2>5. ASSUME board'.status \notin {"LOADING", "APPENDING"}
        PROVE  RequestOK(read', leaderboard', board', session)
    <3>1. \A j \in 1..Len(read') :
            ~ (read'[j].of = "board" /\ ~ read'[j].aborted /\ read'[j].generation = leaderboard.generation)
      BY <1>2, <1>3, <1>4, <2>1 DEF RequestOK
    <3> QED  BY <1>4, <1>6, <2>4, <2>5, <3>1 DEF RequestOK
  <2>6. ReadsOK(read', entries, leaderboard', profileRead)
    BY <1>2, <1>4, <2>4, ReadsGrow
  <2>7. CASE ~ r.answer.ok
    <3>1. board' = [board EXCEPT !.status = "ERROR"]
      BY <1>7, <2>7 DEF BoardReturns
    <3>2. board' = [slot |-> board.slot, status |-> "ERROR", shown |-> board.shown, cursor |-> board.cursor,
                    session |-> board.session, first |-> board.first]
      BY <1>4, <3>1 DEF BoardOK
    <3>3. BoardOK(board', entries, session)
      BY <1>4, <3>2 DEF BoardOK
    <3>4. RequestOK(read', leaderboard', board', session)
      BY <2>5, <3>2
    <3> QED  BY <1>1, <1>4, <1>5, <2>6, <3>3, <3>4 DEF ReportingIInv, Server
  <2>8. CASE r.answer.ok
    <3> DEFINE shown == IF r.cursor = <<>> THEN r.answer.items ELSE board.shown \o r.answer.items
               first == IF r.cursor = <<>> THEN r.answer.first ELSE board.first
    <3>1. board' = [slot |-> board.slot, status |-> "READY", shown |-> shown, cursor |-> r.answer.next,
                    session |-> r.session, first |-> first]
      <4>1. board' = [board EXCEPT !.shown = shown, !.cursor = r.answer.next, !.status = "READY",
                                   !.session = r.session, !.first = first]
        BY <1>7, <2>8 DEF BoardReturns
      <4>2. board = [slot |-> board.slot, status |-> board.status, shown |-> board.shown, cursor |-> board.cursor,
                     session |-> board.session, first |-> board.first]
        BY <1>4 DEF BoardOK
      <4> HIDE DEF shown, first
      <4> QED  BY <4>1, <4>2, PageExcept
    <3>2. BoardOK(board', entries, session)
      BY <1>4, <2>1, <2>2, <2>8, <3>1, BoardWithPage
    <3> HIDE DEF shown, first
    <3>3. board'.status = "READY"
      BY <3>1
    <3>4. RequestOK(read', leaderboard', board', session)
      BY <2>5, <3>3
    <3> QED  BY <1>1, <1>4, <1>5, <2>6, <3>2, <3>4 DEF ReportingIInv, Server
  <2> QED  BY <2>7, <2>8
<1>8. CASE ~ current
  <2>1. board' = board
    BY <1>8 DEF BoardReturns
  <2>2. leaderboard.request # i
    BY <1>2, <1>4, <1>8, ReportingAssumption DEF RequestOK, Requested
  <2>3. leaderboard' = leaderboard
    BY <2>2 DEF BoardReturns
  <2>4. leaderboard.request # None =>
          leaderboard.request \in 1..Len(read') /\ Requested(read'[leaderboard.request], leaderboard, board, session)
    BY <1>2, <1>4, <2>2 DEF RequestOK
  <2>5. \A j \in 1..Len(read') :
          read'[j].of = "board" /\ ~ read'[j].aborted /\ read'[j].generation = leaderboard.generation
            => leaderboard.request = j
    BY <1>2, <1>3, <1>4 DEF RequestOK
  <2>6. RequestOK(read', leaderboard, board, session)
    BY <1>4, <1>6, <2>4, <2>5 DEF RequestOK
  <2> QED  BY <1>1, <1>2, <1>4, <1>5, <2>1, <2>3, <2>6 DEF ReportingIInv, Server
<1> QED  BY <1>7, <1>8

LEMMA NotFailed ==
  ASSUME NEW r, r.st \in {"sent", "answered"}, r.answer.ok \in BOOLEAN \/ r.st = "sent",
         NEW failed \in Failures(r), ~ failed
  PROVE  r.st = "answered" /\ r.answer.ok
BY DEF Failures

LEMMA ProfileReturnsStep ==
  ASSUME ReportingIInv, NEW i \in Ids, ProfileReturns(i)
  PROVE  ReportingIInv'
<1> DEFINE r == read[i]
<1>1. read' = [read EXCEPT ![i] = Over] /\ r.of = "profile" /\ UNCHANGED <<Server, session, board, leaderboard>>
      /\ (r.st = "answered" \/ (r.st = "sent" /\ r.aborted))
  BY DEF ProfileReturns
<1>2. /\ i \in 1..Len(read) /\ Len(read) \in Nat /\ Len(read') = Len(read) /\ read'[i] = Over
      /\ \A j \in 1..Len(read) : j # i => read'[j] = read[j]
      /\ ReadsOK(read', entries, leaderboard, profileRead)
  BY <1>1, ReturnedRead
<1>3. Over.of = "none"
  BY OverFacts
<1>4. /\ ServerOK(entries) /\ GamesOK(games) /\ session \in {0, 1}
      /\ ProfileRead(r, profileRead) /\ RequestOK(read, leaderboard, board, session)
      /\ LatestOK(read, profileRead, session) /\ BoardOK(board, entries, session)
      /\ ProfileOK(profile, profileRead, session) /\ leaderboard.generation \in Nat
      /\ profileRead.generation \in Nat
  BY <1>1, <1>2 DEF ReportingIInv, ReadsOK, RequestOK, LatestOK
<1>5. RequestOK(read', leaderboard, board, session)
  <2>1. \A j \in 1..Len(read') : read'[j].of = "board" => j <= Len(read) /\ read'[j] = read[j]
    BY <1>2, <1>3
  <2>2. \A j \in 1..Len(read) :
           /\ read[j].of = "board" => read'[j] = read[j]
           /\ read[j].of # "profile" => read'[j].of # "profile"
    BY <1>1, <1>2
  <2>3. Len(read') \in Nat /\ Len(read) <= Len(read')
    BY <1>2
  <2> QED  BY <1>2, <1>4, <2>1, <2>2, <2>3, RequestFrame
<1>6. /\ profileRead' = (IF r.generation = profileRead.generation
                         THEN [profileRead EXCEPT !.inFlight = None] ELSE profileRead)
      /\ \E failed \in Failures(r) :
          profile' = IF failed THEN [profile EXCEPT !.status = "ERROR"]
                     ELSE IF r.aborted \/ r.generation # profileRead.generation THEN profile
                     ELSE [status |-> "READY", value |-> r.answer.value,
                           games |-> r.answer.games, session |-> r.session]
  BY DEF ProfileReturns
<1>7. profileRead = [generation |-> profileRead.generation, inFlight |-> profileRead.inFlight]
  BY <1>4 DEF LatestOK
<1>8. profileRead'.generation = profileRead.generation
      /\ profileRead' = [generation |-> profileRead'.generation, inFlight |-> profileRead'.inFlight]
      /\ (r.generation = profileRead.generation => profileRead'.inFlight = None)
      /\ (r.generation # profileRead.generation => profileRead' = profileRead)
  <2>1. CASE r.generation # profileRead.generation
    BY <1>6, <1>7, <2>1
  <2>2. CASE r.generation = profileRead.generation
    <3>1. profileRead' = [profileRead EXCEPT !.inFlight = None]
      BY <1>6, <2>2
    <3>2. profileRead' = [generation |-> profileRead.generation, inFlight |-> None]
      BY <1>7, <3>1
    <3> QED  BY <2>2, <3>2
  <2> QED  BY <2>1, <2>2
<1>9. r.generation = profileRead.generation =>
        profileRead.inFlight = i /\ ~ r.aborted /\ r.session = session
  BY <1>1, <1>2, <1>4, ReportingAssumption DEF LatestOK
<1>10. LatestOK(read', profileRead', session)
  <2>1. CASE r.generation # profileRead.generation
    <3>1. profileRead' = profileRead /\ profileRead.inFlight # i
      BY <1>2, <1>4, <1>8, <2>1, ReportingAssumption DEF LatestOK
    <3>2. profileRead.inFlight # None =>
            /\ profileRead.inFlight \in 1..Len(read')
            /\ read'[profileRead.inFlight] = read[profileRead.inFlight]
      BY <1>2, <1>4, <3>1 DEF LatestOK
    <3>3. \A j \in 1..Len(read') :
            read'[j].of = "profile" /\ read'[j].generation = profileRead.generation => profileRead.inFlight = j
      BY <1>2, <1>3, <1>4 DEF LatestOK
    <3> QED  BY <1>4, <3>1, <3>2, <3>3 DEF LatestOK
  <2>2. CASE r.generation = profileRead.generation
    <3>1. \A j \in 1..Len(read') :
            ~ (read'[j].of = "profile" /\ read'[j].generation = profileRead.generation)
      BY <1>2, <1>3, <1>4, <1>9, <2>2 DEF LatestOK
    <3> QED  BY <1>4, <1>8, <2>2, <3>1 DEF LatestOK
  <2> QED  BY <2>1, <2>2
<1>11. ProfileOK(profile', profileRead', session)
  <2>1. PICK failed \in Failures(r) :
          profile' = IF failed THEN [profile EXCEPT !.status = "ERROR"]
                     ELSE IF r.aborted \/ r.generation # profileRead.generation THEN profile
                     ELSE [status |-> "READY", value |-> r.answer.value,
                           games |-> r.answer.games, session |-> r.session]
    BY <1>6
  <2>2. CASE failed
    <3>1. profile' = [profile EXCEPT !.status = "ERROR"]
      BY <2>1, <2>2
    <3>2. profile' = [status |-> "ERROR", value |-> profile.value, games |-> profile.games,
                      session |-> profile.session]
      BY <1>4, <3>1 DEF ProfileOK
    <3> QED  BY <3>2 DEF ProfileOK
  <2>3. CASE ~ failed /\ (r.aborted \/ r.generation # profileRead.generation)
    <3>1. profile' = profile
      BY <2>1, <2>3
    <3>2. profileRead' = profileRead
      BY <1>8, <1>9, <2>3
    <3> QED  BY <1>4, <3>1, <3>2
  <2>4. CASE ~ failed /\ ~ (r.aborted \/ r.generation # profileRead.generation)
    <3>1. profile' = [status |-> "READY", value |-> r.answer.value, games |-> r.answer.games, session |-> r.session]
      BY <2>1, <2>4
    <3>2. r.st = "answered" /\ r.answer.ok
      BY <1>4, <2>4, NotFailed DEF ProfileRead
    <3>3. Amounts(r.answer.value, r.answer.games) /\ r.session = session
      BY <1>4, <1>9, <2>4, <3>2 DEF ProfileRead
    <3> QED  BY <3>1, <3>3 DEF ProfileOK
  <2> QED  BY <2>2, <2>3, <2>4
<1>12. ReadsOK(read', entries, leaderboard, profileRead')
  BY <1>2, <1>4, <1>8, ReadsGrow
<1> QED  BY <1>1, <1>4, <1>5, <1>10, <1>11, <1>12 DEF ReportingIInv, Server


(***************************************************************************)
(* Reads that begin, and the end of a session                              *)
(***************************************************************************)
LEMMA RefreshProfileStep ==
  ASSUME ReportingIInv, NEW replace \in BOOLEAN, refreshProfile(replace)
  PROVE  ReportingIInv'
<1>1. /\ profile' = [profile EXCEPT !.status = "LOADING"] /\ runProfile(read, replace)
      /\ UNCHANGED <<Server, session, board, leaderboard>>
  BY DEF refreshProfile
<1>2. profile' = [status |-> "LOADING", value |-> profile.value, games |-> profile.games,
                  session |-> profile.session]
  BY <1>1 DEF ReportingIInv, ProfileOK
<1>3. CASE ~ replace /\ profileRead.inFlight # None
  <2>1. read' = read /\ profileRead' = profileRead
    BY <1>1, <1>3 DEF runProfile
  <2>2. ProfileOK(profile', profileRead', session)
    BY <1>2, <1>3, <2>1 DEF ProfileOK
  <2> QED  BY <1>1, <2>1, <2>2 DEF ReportingIInv, Server
<1>4. CASE ~ (~ replace /\ profileRead.inFlight # None)
  <2> DEFINE k == IF replace THEN profileRead.inFlight ELSE None
             next == NewRead(Abort(read, k), "profile", None, <<>>, profileRead.generation + 1)
  <2>1. profileRead' = [generation |-> profileRead.generation + 1, inFlight |-> Len(read) + 1]
        /\ read' = next
    BY <1>1, <1>4 DEF runProfile, Abort
  <2>2. k = None \/ (k \in 1..Len(read) /\ read[k].of = "profile")
    BY DEF ReportingIInv, LatestOK
  <2> HIDE DEF k
  <2>3. /\ ReadsOK(read', entries, leaderboard, profileRead') /\ RequestOK(read', leaderboard, board, session)
        /\ LatestOK(read', profileRead', session)
    BY <2>1, <2>2, NewProfileRead DEF ReportingIInv
  <2>4. profileRead'.inFlight # None
    <3>1. Len(read) \in Nat
      BY DEF ReportingIInv, ReadsOK, IsList
    <3> QED  BY <2>1, <3>1, ReportingAssumption
  <2>5. ProfileOK(profile', profileRead', session)
    BY <1>2, <2>4 DEF ProfileOK
  <2> QED  BY <1>1, <2>3, <2>5 DEF ReportingIInv, Server
<1> QED  BY <1>3, <1>4

LEMMA TodayIsShown == Today \in Slots /\ Today \in Int
<1>1. PICK last \in Slots : \A s \in Slots : s <= last
  BY ReportingAssumption
<1>2. Max(Slots) = last
  BY <1>1, MaxIs, ReportingAssumption
<1> QED  BY <1>1, <1>2, ReportingAssumption DEF Today

LEMMA LoadsStep ==
  ASSUME ReportingIInv,
         \/ \E s \in Slots : selectLeaderboardSlot(s)
         \/ refreshLeaderboard
         \/ loadMoreLeaderboard
  PROVE  ReportingIInv'
<1>1. UNCHANGED <<Server, session, profile, profileRead>>
  BY DEF selectLeaderboardSlot, refreshLeaderboard, loadMoreLeaderboard
<1>2. /\ ReadsOK(read, entries, leaderboard, profileRead) /\ RequestOK(read, leaderboard, board, session)
      /\ LatestOK(read, profileRead, session) /\ BoardOK(board, entries, session)
  BY DEF ReportingIInv
<1>3. ASSUME NEW s \in Slots, loadLeaderboard(read, s, <<>>, TRUE)
      PROVE  ReportingIInv'
  <2>1. /\ ReadsOK(read', entries, leaderboard', profileRead) /\ RequestOK(read', leaderboard', board', session)
        /\ LatestOK(read', profileRead, session) /\ BoardOK(board', entries, session)
    BY <1>2, <1>3, LoadReplaces
  <2> QED  BY <1>1, <2>1 DEF ReportingIInv, Server
<1>4. CASE \E s \in Slots : selectLeaderboardSlot(s)
  BY <1>3, <1>4 DEF selectLeaderboardSlot
<1>5. CASE refreshLeaderboard
  <2>1. board.slot \in Slots /\ loadLeaderboard(read, board.slot, <<>>, TRUE)
    BY <1>2, <1>5 DEF refreshLeaderboard, BoardOK
  <2> QED  BY <1>3, <2>1
<1>6. CASE loadMoreLeaderboard
  <2>1. /\ ReadsOK(read', entries, leaderboard', profileRead) /\ RequestOK(read', leaderboard', board', session)
        /\ LatestOK(read', profileRead, session) /\ BoardOK(board', entries, session)
    BY <1>2, <1>6, LoadAppends DEF loadMoreLeaderboard
  <2> QED  BY <1>1, <2>1 DEF ReportingIInv, Server
<1> QED  BY <1>4, <1>5, <1>6

\* The games may change too when entries are added: no read knows of them.
LEMMA EntriesAdded ==
  ASSUME ReportingIInv, ServerOK(entries'), \A t \in Slots : entries[t] \subseteq entries'[t],
         GamesOK(games'), UNCHANGED <<rings, Browser, read>>
  PROVE  ReportingIInv'
<1>1. ReadsOK(read, entries', leaderboard, profileRead)
  <2>1. leaderboard.generation \in Nat /\ profileRead.generation \in Nat
    BY DEF ReportingIInv, RequestOK, LatestOK
  <2>2. leaderboard.generation <= leaderboard.generation /\ profileRead.generation <= profileRead.generation
    BY <2>1
  <2> QED  BY <2>1, <2>2, ReadsGrow DEF ReportingIInv
<1>2. BoardOK(board, entries', session)
  BY BoardGrows DEF ReportingIInv
<1> QED  BY <1>1, <1>2 DEF ReportingIInv, Browser

LEMMA SolveStep ==
  ASSUME ReportingIInv, NEW s \in Slots, NEW a \in Entries[s], Solve(s, a)
  PROVE  ReportingIInv'
<1>1. ServerOK(entries') /\ \A t \in Slots : entries[t] \subseteq entries'[t]
  <2>1. entries' = [entries EXCEPT ![s] = @ \cup {a}] /\ a \in Known(s) /\ ServerOK(entries)
    BY DEF Solve, Known, ReportingIInv
  <2> QED  BY <2>1, ServerGrows
<1>2. UNCHANGED <<games, rings, Browser, read>>
  BY DEF Solve
<1>3. GamesOK(games')
  BY <1>2 DEF ReportingIInv
<1> QED  BY <1>1, <1>2, <1>3, EntriesAdded

LEMMA HistoryGrows ==
  ASSUME NEW mine, IsHistory(mine),
         NEW game, game.attempt \in Snapshots, game.guessed \in BOOLEAN
  PROVE  IsHistory([day \in DOMAIN mine \cup {Today} |-> IF day = Today THEN game ELSE mine[day]])
<1> DEFINE more == [day \in DOMAIN mine \cup {Today} |-> IF day = Today THEN game ELSE mine[day]]
<1>1. IsFiniteSet(DOMAIN mine \cup {Today})
  BY FS_AddElement DEF IsHistory
<1>2. DOMAIN more = DOMAIN mine \cup {Today} /\ DOMAIN more \subseteq Int
  BY TodayIsShown DEF IsHistory
<1>3. more = [day \in DOMAIN more |-> more[day]]
  BY <1>2
<1>4. \A day \in DOMAIN more : more[day].attempt \in Snapshots /\ more[day].guessed \in BOOLEAN
  BY <1>2 DEF IsHistory
<1> HIDE DEF more
<1>5. IsHistory(more)
  BY <1>1, <1>2, <1>3, <1>4 DEF IsHistory
<1> QED  BY <1>5 DEF more

LEMMA PlayStep ==
  ASSUME ReportingIInv, NEW game \in Outcomes, Play(game)
  PROVE  ReportingIInv'
<1> DEFINE mine == games[session]
           more == [day \in DOMAIN mine \cup {Today} |-> IF day = Today THEN game ELSE mine[day]]
<1>1. games' = [games EXCEPT ![session] = more]
      /\ entries' = (IF game.attempt.state = "SOLVED"
                     THEN [entries EXCEPT ![Today] = @ \cup {Me[session]}] ELSE entries)
      /\ UNCHANGED <<rings, Browser, read>>
  BY Zenon DEF Play
<1>2. IsHistory(more)
  <2>1. IsHistory(mine) /\ game.attempt \in Snapshots /\ game.guessed \in BOOLEAN
    BY ReportingAssumption DEF ReportingIInv, GamesOK
  <2> HIDE DEF mine
  <2> QED  BY <2>1, HistoryGrows
<1> HIDE DEF more
<1>3. GamesOK(games')
  <2>1. GamesOK(games) /\ session \in {0, 1}
    BY DEF ReportingIInv
  <2> QED  BY <1>1, <1>2, <2>1 DEF GamesOK
<1>4. ServerOK(entries') /\ \A t \in Slots : entries[t] \subseteq entries'[t]
  <2>1. Me[session] \in Known(Today) /\ ServerOK(entries) /\ Today \in Slots
    BY TodayIsShown DEF Known, ReportingIInv
  <2>2. CASE game.attempt.state = "SOLVED"
    BY <1>1, <2>1, <2>2, ServerGrows
  <2>3. CASE game.attempt.state # "SOLVED"
    BY <1>1, <2>1, <2>3
  <2> QED  BY <2>2, <2>3
<1> QED  BY <1>1, <1>3, <1>4, EntriesAdded

LEMMA TerminalStep ==
  ASSUME ReportingIInv, NEW s \in Slots, refreshAfterTerminal(s)
  PROVE  ReportingIInv'
<1> DEFINE pr == [generation |-> profileRead.generation + 1, inFlight |-> Len(read) + 1]
           reads == NewRead(Abort(read, profileRead.inFlight), "profile", None, <<>>, profileRead.generation + 1)
<1>1. /\ profile' = [profile EXCEPT !.status = "LOADING"] /\ profileRead' = pr
      /\ loadLeaderboard(reads, s, <<>>, TRUE) /\ UNCHANGED <<Server, session>>
  BY DEF refreshAfterTerminal
<1>2. /\ ReadsOK(reads, entries, leaderboard, pr) /\ RequestOK(reads, leaderboard, board, session)
      /\ LatestOK(reads, pr, session)
  <2> DEFINE k == profileRead.inFlight
  <2>1. k = None \/ (k \in 1..Len(read) /\ read[k].of = "profile")
    BY DEF ReportingIInv, LatestOK
  <2> HIDE DEF k, pr
  <2>2. pr = [generation |-> profileRead.generation + 1, inFlight |-> Len(read) + 1]
        /\ reads = NewRead(Abort(read, k), "profile", None, <<>>, profileRead.generation + 1)
    BY DEF pr, k
  <2> HIDE DEF reads
  <2> QED  BY <2>1, <2>2, NewProfileRead DEF ReportingIInv
<1>3. Len(read) \in Nat
  BY DEF ReportingIInv, ReadsOK, IsList
<1>4. pr.inFlight # None
  BY <1>3, ReportingAssumption
<1> HIDE DEF reads, pr
<1>5. /\ ReadsOK(read', entries, leaderboard', pr) /\ RequestOK(read', leaderboard', board', session)
      /\ LatestOK(read', pr, session) /\ BoardOK(board', entries, session)
  BY <1>1, <1>2, LoadReplaces DEF ReportingIInv
<1>6. ProfileOK(profile', pr, session)
  <2>1. profile' = [status |-> "LOADING", value |-> profile.value, games |-> profile.games,
                    session |-> profile.session]
    BY <1>1 DEF ReportingIInv, ProfileOK
  <2> QED  BY <1>4, <2>1 DEF ProfileOK
<1> QED  BY <1>1, <1>5, <1>6 DEF ReportingIInv, Server

LEMMA ResetStep ==
  ASSUME ReportingIInv, reset
  PROVE  ReportingIInv'
<1>1. /\ session' = 1 /\ read' = Cancelled(read) /\ board' = NoBoard /\ profile' = NoProfile
      /\ leaderboard' = [NoRequest EXCEPT !.generation = leaderboard.generation + 1]
      /\ profileRead' = [generation |-> profileRead.generation + 1, inFlight |-> None]
      /\ entries' = entries /\ games' = games
  BY DEF reset, Server
<1>2. /\ IsList(read) /\ Len(read) \in Nat /\ DOMAIN read = 1..Len(read)
      /\ \A i \in 1..Len(read) : Shape(read[i])
  BY ListFacts DEF ReportingIInv, ReadsOK
<1>3. leaderboard.generation \in Nat /\ profileRead.generation \in Nat
  BY DEF ReportingIInv, RequestOK, LatestOK
<1> DEFINE ended == {leaderboard.abort, profileRead.inFlight}
<1>4. read' = [i \in 1..Len(read) |-> IF i \in ended THEN [read[i] EXCEPT !.aborted = TRUE] ELSE read[i]]
  BY <1>1, <1>2 DEF Cancelled
<1> HIDE DEF ended
<1>5. IsList(read') /\ Len(read') = Len(read)
  <2> DEFINE n == Len(read)
  <2>1. n \in Nat /\ read' = [i \in 1..n |-> read'[i]]
    BY <1>2, <1>4
  <2> HIDE DEF n
  <2>2. IsList(read') /\ Len(read') = n
    BY <2>1, ListFromFunction
  <2> QED  BY <2>2 DEF n
<1>6. ASSUME NEW i \in 1..Len(read)
      PROVE  /\ Shape(read'[i]) /\ read'[i].of = read[i].of
             /\ read[i].of # "none" => read'[i].generation = read[i].generation
             /\ read[i].of = "board" => BoardRead(read'[i], leaderboard, entries)
             /\ read[i].of = "profile" => ProfileRead(read'[i], profileRead)
  <2>1. /\ read[i].of = "board" => BoardRead(read[i], leaderboard, entries)
        /\ read[i].of = "profile" => ProfileRead(read[i], profileRead)
    BY DEF ReportingIInv, ReadsOK
  <2>2. CASE i \notin ended
    <3>1. read'[i] = read[i]
      BY <1>4, <2>2
    <3> QED  BY <1>2, <2>1, <3>1
  <2>3. CASE i \in ended
    <3> DEFINE r == read[i]
               yes == TRUE
               a == [r EXCEPT !.aborted = yes]
    <3>1. read'[i] = a
      BY <1>4, <2>3
    <3>2. yes \in BOOLEAN
      OBVIOUS
    <3> HIDE DEF yes
    <3>3. /\ Shape(a) /\ a.of = r.of /\ a.aborted = yes
          /\ r.of # "none" =>
               /\ a.slot = r.slot /\ a.cursor = r.cursor /\ a.generation = r.generation
               /\ a.session = r.session /\ a.st = r.st /\ a.answer = r.answer
      BY <1>2, AbortedShape
    <3> HIDE DEF a, r
    <3>4. r.of = "board" => BoardRead(a, leaderboard, entries)
      BY <2>1, <3>2, <3>3 DEF BoardRead, BoardAnswer, r
    <3>5. r.of = "profile" => ProfileRead(a, profileRead)
      BY <2>1, <3>2, <3>3 DEF ProfileRead, r
    <3> QED  BY <3>1, <3>3, <3>4, <3>5 DEF r
  <2> QED  BY <2>2, <2>3
<1>7. leaderboard' = [generation |-> leaderboard.generation + 1, abort |-> None, key |-> None, request |-> None]
  BY <1>1 DEF NoRequest
<1>8. leaderboard'.generation = leaderboard.generation + 1 /\ leaderboard'.abort = None
      /\ leaderboard'.request = None
      /\ leaderboard' = [generation |-> leaderboard'.generation, abort |-> leaderboard'.abort,
                         key |-> leaderboard'.key, request |-> leaderboard'.request]
  BY <1>7
<1>9. profileRead'.generation = profileRead.generation + 1 /\ profileRead'.inFlight = None
      /\ profileRead' = [generation |-> profileRead'.generation, inFlight |-> profileRead'.inFlight]
  BY <1>1
<1>10. ReadsOK(read', entries, leaderboard', profileRead')
  <2>1. ReadsOK(read', entries, leaderboard, profileRead)
    BY <1>5, <1>6 DEF ReadsOK
  <2> QED  BY <1>3, <1>8, <1>9, <2>1, ReadsGrow
<1>11. board'.status = "IDLE" /\ board'.slot = None /\ board'.shown = <<>> /\ board'.cursor = <<>>
       /\ board' = [slot |-> board'.slot, status |-> board'.status, shown |-> board'.shown,
                    cursor |-> board'.cursor, session |-> board'.session, first |-> board'.first]
  BY <1>1 DEF NoBoard
<1>12. RequestOK(read', leaderboard', board', 1)
  <2>1. \A i \in 1..Len(read') :
          ~ (read'[i].of = "board" /\ ~ read'[i].aborted /\ read'[i].generation = leaderboard'.generation)
    BY <1>3, <1>5, <1>6, <1>8 DEF BoardRead
  <2> QED  BY <1>3, <1>8, <1>11, <2>1 DEF RequestOK
<1>13. LatestOK(read', profileRead', 1)
  <2>1. \A i \in 1..Len(read') :
          ~ (read'[i].of = "profile" /\ read'[i].generation = profileRead'.generation)
    BY <1>3, <1>5, <1>6, <1>9 DEF ProfileRead
  <2> QED  BY <1>3, <1>9, <2>1 DEF LatestOK
<1>14. BoardOK(board', entries, 1)
  BY <1>11 DEF BoardOK
<1>15. ProfileOK(profile', profileRead', 1)
  BY <1>1 DEF ProfileOK, NoProfile
<1> QED  BY <1>1, <1>10, <1>12, <1>13, <1>14, <1>15 DEF ReportingIInv

(***************************************************************************)
(* The theorems                                                            *)
(***************************************************************************)
LEMMA ReportingInit == Init => ReportingIInv
<1> SUFFICES ASSUME Init PROVE ReportingIInv
  OBVIOUS
<1>1. ServerOK(entries) /\ GamesOK(games) /\ session \in {0, 1}
  <2>1. PICK history \in Histories : games = [guest \in {0, 1} |-> IF guest = 0 THEN history ELSE <<>>]
    BY DEF Init
  <2>2. IsHistory(history)
    BY ReportingAssumption
  <2>3. IsHistory(<<>>)
    <3>1. DOMAIN <<>> = {} /\ <<>> = [day \in {} |-> <<>>[day]]
      OBVIOUS
    <3> QED  BY <3>1, FS_EmptySet DEF IsHistory
  <2>4. GamesOK(games)
    BY <2>1, <2>2, <2>3 DEF GamesOK
  <2> QED  BY <2>4 DEF Init, ServerOK
<1>2. IsList(read) /\ Len(read) = 0
  BY DEF Init, IsList
<1>3. ReadsOK(read, entries, leaderboard, profileRead)
  BY <1>2 DEF ReadsOK
<1>4. RequestOK(read, leaderboard, board, session)
  BY <1>2 DEF Init, RequestOK, NoRequest, NoBoard
<1>5. LatestOK(read, profileRead, session)
  BY <1>2 DEF Init, LatestOK
<1>6. BoardOK(board, entries, session)
  BY DEF Init, BoardOK, NoBoard
<1>7. ProfileOK(profile, profileRead, session)
  BY DEF Init, ProfileOK, NoProfile
<1> QED  BY <1>1, <1>3, <1>4, <1>5, <1>6, <1>7 DEF ReportingIInv

LEMMA ReportingStep == ReportingIInv /\ [Next]_vars => ReportingIInv'
<1> SUFFICES ASSUME ReportingIInv, [Next]_vars PROVE ReportingIInv'
  OBVIOUS
<1>1. CASE UNCHANGED vars
  BY <1>1 DEF ReportingIInv, vars
<1>2. CASE Next
  <2>1. CASE \E s \in Slots : \E a \in Entries[s] : Solve(s, a)
    BY <2>1, SolveStep
  <2>2. CASE \/ \E s \in Slots : selectLeaderboardSlot(s)
             \/ refreshLeaderboard
             \/ loadMoreLeaderboard
    BY <2>2, LoadsStep
  <2>3. CASE \E i \in Ids : BoardReturns(i)
    BY <2>3, BoardReturnsStep
  <2>4. CASE \E i \in Ids : ProfileReturns(i)
    BY <2>4, ProfileReturnsStep
  <2>5. CASE \E i \in Ids : \E ring \in rings : Serve(i, ring)
    BY <2>5, ServeStep
  <2>6. CASE \E replace \in BOOLEAN : refreshProfile(replace)
    BY <2>6, RefreshProfileStep
  <2>7. CASE \E s \in Slots : refreshAfterTerminal(s)
    BY <2>7, TerminalStep
  <2>8. CASE reset
    BY <2>8, ResetStep
  <2>9. CASE Deploy \/ Retire
    BY <2>9 DEF Deploy, Retire, Browser, ReportingIInv
  <2>10. CASE \E game \in Outcomes : Play(game)
    BY <2>10, PlayStep
  <2> QED  BY <1>2, <2>1, <2>2, <2>3, <2>4, <2>5, <2>6, <2>7, <2>8, <2>9, <2>10 DEF Next
<1> QED  BY <1>1, <1>2

\* Every reachable state satisfies the inductive invariant: what is shown,
\* what is under way and what was answered belong together, through every
\* load, return, refresh and reset of ReportingController (controller.ts:68-202).
THEOREM ReportingInvariant == Spec => []ReportingIInv
BY ReportingInit, ReportingStep, PTL DEF Spec

LEMMA PagesFollow == ReportingIInv => PagesAreOneLeaderboard
<1> SUFFICES ASSUME ReportingIInv, board.status \in {"READY", "APPENDING"}
             PROVE  LET shown == board.shown
                        complete == board.cursor = <<>> /\ board.status = "READY"
                    IN /\ \A i, j \in DOMAIN shown : i < j => comparePaginationOrder(shown[i].entry, shown[j].entry) < 0
                       /\ \A a \in board.first :
                            \/ a \in Shown
                            \/ ~complete /\ shown # <<>> /\ comparePaginationOrder(Last(shown).entry, a) < 0
                       /\ \A i \in DOMAIN shown :
                            /\ shown[i].rank <= TrueRank(shown[i].entry, entries[board.slot])
                            /\ shown[i].entry \in board.first => shown[i].rank >= TrueRank(shown[i].entry, board.first)
  BY DEF PagesAreOneLeaderboard
<1> DEFINE shown == board.shown
           all == entries[board.slot]
<1>1. /\ board.slot \in Slots /\ board.first \subseteq all
      /\ Together(shown, board.cursor, board.first, all)
      /\ shown \in Seq(Rows(Anyone))
      /\ \A i \in 1..Len(shown) : shown[i].entry \in all
      /\ ServerOK(entries)
  BY DEF ReportingIInv, BoardOK
<1>2. AreEntries(all) /\ AreEntries(board.first)
  BY <1>1, KnownEntries, FewerEntries
<1> HIDE DEF shown, all
<1>3. DOMAIN shown = 1..Len(shown) /\ Len(shown) \in Nat
  BY <1>1
<1>4. \A i, j \in DOMAIN shown : i < j => comparePaginationOrder(shown[i].entry, shown[j].entry) < 0
  BY <1>1, <1>3 DEF Together, Before
<1>5. ASSUME NEW a \in board.first, a \notin {shown[i].entry : i \in DOMAIN shown}
      PROVE  board.cursor # <<>> /\ shown # <<>> /\ comparePaginationOrder(Last(shown).entry, a) < 0
  <2>1. board.cursor # <<>> /\ Before(shown[Len(shown)].entry, a) /\ Len(shown) > 0
    BY <1>1, <1>3, <1>5 DEF Together
  <2>2. shown # <<>>
    BY <2>1
  <2> QED  BY <2>1, <2>2 DEF Last, Before
<1>6. ASSUME NEW i \in DOMAIN shown
      PROVE  /\ shown[i].rank <= TrueRank(shown[i].entry, all)
             /\ shown[i].entry \in board.first => shown[i].rank >= TrueRank(shown[i].entry, board.first)
  <2>1. /\ shown[i].entry \in all
        /\ shown[i].rank <= RankIn(shown[i].entry, all)
        /\ shown[i].entry \in board.first => shown[i].rank >= RankIn(shown[i].entry, board.first)
    BY <1>1, <1>3 DEF Together
  <2>2. TrueRank(shown[i].entry, all) = RankIn(shown[i].entry, all)
    BY <1>2, <2>1, TrueRanks
  <2>3. shown[i].entry \in board.first =>
          TrueRank(shown[i].entry, board.first) = RankIn(shown[i].entry, board.first)
    BY <1>2, TrueRanks
  <2> QED  BY <2>1, <2>2, <2>3
<1> QED  BY <1>4, <1>5, <1>6 DEF Shown, shown, all

\* However many games end and however many reads pass each other, the pages
\* a browser shows are one leaderboard: the keyset of leaderboard.ts:112
\* leaves nobody out and shows nobody twice.
THEOREM ReportingPages == Spec => []PagesAreOneLeaderboard
BY ReportingInvariant, PagesFollow, PTL

LEMMA ReportsFollow == ReportingIInv => ReportsAreTheGuests
<1> SUFFICES ASSUME ReportingIInv PROVE ReportsAreTheGuests
  OBVIOUS
<1>1. board.status \in {"READY", "APPENDING"} => board.session = session
  BY DEF ReportingIInv, BoardOK
<1>2. \A a \in Shown : a \in entries[board.slot]
  <2>1. board.shown \in Seq(Rows(Anyone)) /\ \A i \in 1..Len(board.shown) : board.shown[i].entry \in entries[board.slot]
    BY DEF ReportingIInv, BoardOK
  <2>2. DOMAIN board.shown = 1..Len(board.shown)
    BY <2>1
  <2> QED  BY <2>1, <2>2 DEF Shown
<1>3. board.status \in {"LOADING", "APPENDING"} =>
       leaderboard.request # None /\ ~ read[leaderboard.request].aborted
  BY DEF ReportingIInv, RequestOK, Requested
<1>4. profile.status = "READY" =>
       profile.session = session /\ IsProfileOf(profile.value, profile.games, Today)
  BY ProfileIsRight, TodayIsShown DEF ReportingIInv, ProfileOK, Amounts
<1>5. profile.status = "LOADING" => profileRead.inFlight # None
  BY DEF ReportingIInv, ProfileOK
<1> QED  BY <1>1, <1>2, <1>3, <1>4, <1>5 DEF ReportsAreTheGuests

\* Nothing of an earlier guest, slot or day's games is shown as a report of
\* this one, and a report that loads has a read under way: the generations
\* and aborts of controller.ts:143-194 and of LatestRead keep late answers out.
THEOREM ReportingReports == Spec => []ReportsAreTheGuests
BY ReportingInvariant, ReportsFollow, PTL
=============================================================================
