----------------------------- MODULE PublicViews -----------------------------
(***************************************************************************)
(* The two reports as functions of the rows they are read from: a guest's  *)
(* profile and a slot's leaderboard, each with the reference it must agree *)
(* with.  A leaderboard entry is [id, e, w, ms], where the order of the    *)
(* ids stands for that of the attempts' UUIDs.                             *)
(***************************************************************************)
EXTENDS AttemptEngine, Sequences, FiniteSets, SequencesExt

\* Array.sort: the elements of S from the first to the last in the order
\* before.  The place of each is how many come before it, which can be reasoned
\* about where SetToSortSeq, whose sort is recursive, cannot.
inOrder(S, before(_, _)) ==
  [n \in 1..Cardinality(S) |->
     CHOOSE a \in S : Cardinality({b \in S : before(b, a)}) = n - 1]

(***************************************************************************)
(* aggregates.ts                                                           *)
(***************************************************************************)
\* Days that lie together up to and including day, back to the first one.
calculateCurrentStreak(days, today) ==
  LET back[day \in Int] == IF day \in days THEN 1 + back[day - 1] ELSE 0
  IN back[IF today \in days THEN today ELSE today - 1]

Extend(run, day) ==
  LET len == IF day = run.last + 1 THEN run.len + 1 ELSE 1
  IN [len |-> len, last |-> day, best |-> Max({run.best, len})]

calculateLongestStreak(days) ==
  FoldLeft(Extend, [len |-> 0, last |-> -2, best |-> 0],
           inOrder(days, <)).best

roundHalfUp(numerator, denominator) == (2 * numerator + denominator) \div (2 * denominator)

\* What a region shows of cases worth 0 to 100 each (regionalPerformance): sums
\* that begin with the prior of two and two.
calculateRegionalKnowledge(performances) ==
  LET alpha == FoldLeft(+, 200, performances)
      beta == FoldLeft(LAMBDA sum, p : sum + 100 - p, 200, performances)
  IN roundHalfUp(alpha * 100, alpha + beta)

\* A guest's games, [day -> [attempt, guessed]]: each with the snapshot of its
\* attempt and whether it was guessed at, which makes it a day of participation.
IsHistory(games) ==
  /\ IsFiniteSet(DOMAIN games) /\ DOMAIN games \subseteq Int
  /\ games = [day \in DOMAIN games |-> games[day]]
  /\ \A day \in DOMAIN games : games[day].attempt \in Snapshots /\ games[day].guessed \in BOOLEAN
Finalized(games) == {day \in DOMAIN games : games[day].attempt.state \in TerminalStates}
Participated(games) == {day \in DOMAIN games : games[day].guessed}

\* The statistics, and what a region shows that all the cases name.
calculateProfileStatistics(games, today) ==
  LET played == Participated(games)
      final == Finalized(games)
      cases == inOrder(final, <)
      solved == Cardinality({day \in final : games[day].attempt.state = "SOLVED"})
  IN [currentStreak |-> calculateCurrentStreak(played, today),
      longestStreak |-> calculateLongestStreak(played),
      solved |-> solved, failed |-> Cardinality(final) - solved,
      accuracy |-> IF final = {} THEN 0 ELSE roundHalfUp(solved * 100, Cardinality(final)),
      region |-> calculateRegionalKnowledge(
                   [i \in DOMAIN cases |-> regionalPerformance(games[cases[i]].attempt)])]

(***************************************************************************)
(* leaderboard.ts of the domain                                            *)
(***************************************************************************)
\* assertUniqueCandidates
AreEntries(S) ==
  /\ IsFiniteSet(S)
  /\ \A a \in S : a.id \in Int /\ a.e \in Int /\ a.w \in Int /\ a.ms \in Int
  /\ \A a, b \in S : a.id = b.id => a = b

comparePerformance(a, b) ==
  IF a.e # b.e THEN a.e - b.e ELSE IF a.w # b.w THEN a.w - b.w ELSE a.ms - b.ms

comparePaginationOrder(a, b) ==
  IF comparePerformance(a, b) # 0 THEN comparePerformance(a, b) ELSE a.id - b.id

\* The ranks in page order: equal performances share the first one's place.
rankLeaderboard(entries) ==
  LET ordered == inOrder(entries, LAMBDA a, b : comparePaginationOrder(a, b) < 0)
      rank[i \in DOMAIN ordered] ==
        IF i > 1 /\ comparePerformance(ordered[i - 1], ordered[i]) = 0 THEN rank[i - 1] ELSE i
  IN [i \in DOMAIN ordered |-> [entry |-> ordered[i], rank |-> rank[i]]]

(***************************************************************************)
(* readDailyLeaderboardPage: rank() over the slot, the rows after the      *)
(* cursor, one more than the page to know whether there is another         *)
(***************************************************************************)
Ranked(entries, a) ==
  [entry |-> a, rank |-> 1 + Cardinality({b \in entries : comparePerformance(b, a) < 0})]

\* A slip: the keyset leaves out the entries that tie with the cursor.
afterTheTie(a, cursor) == comparePerformance(cursor, a) < 0

After(a, cursor) == comparePaginationOrder(cursor, a) < 0

readDailyLeaderboardPage(entries, cursor, limit) ==
  LET rest == {a \in entries : cursor = <<>> \/ (cursor # <<>> /\ After(a, cursor[1]))}
      rows == inOrder(rest, LAMBDA a, b : comparePaginationOrder(a, b) < 0)
      items == SubSeq(rows, 1, IF Len(rows) < limit THEN Len(rows) ELSE limit)
  IN [items |-> [i \in DOMAIN items |-> Ranked(entries, items[i])],
      next |-> IF Len(rows) > limit THEN <<items[limit]>> ELSE <<>>]

(***************************************************************************)
(* References                                                              *)
(***************************************************************************)
Run(days, from, to) == from..to \subseteq days

\* Points of performance, as pairs of a case and a number up to its worth.
Points(S, worth) == UNION {{i} \X (1..worth[i]) : i \in S}

IsProfileOf(profile, games, today) ==
  LET played == Participated(games)
      final == Finalized(games)
      runs == {run \in played \X played : run[1] <= run[2] /\ Run(played, run[1], run[2])}
      total == Cardinality(final)
      alpha == 200 + Cardinality(Points(final,
                 [day \in final |-> regionalPerformance(games[day].attempt)]))
  IN /\ profile.longestStreak = Max({0} \cup {run[2] - run[1] + 1 : run \in runs})
     /\ profile.currentStreak =
          Max({0} \cup {run[2] - run[1] + 1 : run \in {r \in runs : r[2] = today}}
              \cup {run[2] - run[1] + 1 : run \in {r \in runs : r[2] = today - 1 /\ today \notin played}})
     /\ profile.solved + profile.failed = total
     /\ total > 0 =>
          2 * total * profile.accuracy - 200 * profile.solved \in (1 - total)..total
     /\ 2 * (total + 4) * profile.region - 2 * alpha \in (-3 - total)..(total + 4)
=============================================================================
