----------------------------- MODULE MCReporting -----------------------------
(***************************************************************************)
(* Reporting for TLC: three games behind the first guest, four entries of  *)
(* today, three of them equal, pages of two rows, and two key rotations.   *)
(***************************************************************************)
EXTENDS Reporting

E(id, ms) == [id |-> id, e |-> 1, w |-> 1, ms |-> ms]
Ours == [guest \in {0, 1} |-> IF guest = 0 THEN E(3, 5) ELSE E(4, 3)]
SmallSlots == {4, 5}
SmallEntries == [s \in SmallSlots |-> IF s = 5 THEN {E(1, 5), E(2, 5)} ELSE {}]

Game(state, e, w, W, guessed) ==
  [attempt |-> [state |-> state, e |-> e, w |-> w, W |-> W], guessed |-> guessed]
Open == Game("ACTIVE", 0, 1, 1, TRUE)
Solved == Game("SOLVED", 1, 0, 1, TRUE)
SmallOutcomes == {Open, Solved}
SmallHistories ==
  {(1 :> Game("EXPIRED", 1, 0, 0, FALSE)) @@ (2 :> Game("SOLVED", 4, 2, 14, TRUE))
     @@ (4 :> Game("EXHAUSTED", 4, 2, 15, TRUE))}
SmallRings == <<[active |-> "k1", previous |-> "none"], [active |-> "k2", previous |-> "k1"],
                [active |-> "k3", previous |-> "k2"]>>
=============================================================================
