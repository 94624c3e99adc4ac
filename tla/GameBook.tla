------------------------------ MODULE GameBook ------------------------------
(***************************************************************************)
(* What the gameplay backend promises a guest, without transactions, locks *)
(* or clocks: one game per daily slot, played by commands that each take   *)
(* effect at once and at most once per idempotency key, over after at most *)
(* Budget moves, counted once when it is over.  Requests that are          *)
(* rejected, replayed or cut off change nothing here.  Gameplay.tla is     *)
(* shown to implement it (docs/architecture/game-rules.md, adr/0003).      *)
(***************************************************************************)
EXTENDS Integers, FiniteSets

CONSTANTS Guests, Slots, Keys,
          Budget      \* moves a game can take

VARIABLES
  game,     \* how each guest's game of each slot stands
  moves,    \* moves made in it
  spent,    \* what each key was spent on
  tally     \* games the guest's standing counts, and those it counts solved

vars == <<game, moves, spent, tally>>

Over == {"SOLVED", "GIVEN_UP", "EXHAUSTED", "EXPIRED"}
Unspent == [slot |-> -1, outcome |-> "NONE"]

\* How a game may stand after a move with this outcome.
After(outcome) ==
  CASE outcome = "CORRECT" -> {"SOLVED"}
    [] outcome = "WRONG" -> {"ACTIVE", "EXHAUSTED"}
    [] outcome = "REVEALED" -> {"ACTIVE"}
    [] OTHER -> {"GIVEN_UP"}

Init ==
  /\ game = [g \in Guests |-> [s \in Slots |-> "NONE"]]
  /\ moves = [g \in Guests |-> [s \in Slots |-> 0]]
  /\ spent = [g \in Guests |-> [k \in Keys |-> Unspent]]
  /\ tally = [g \in Guests |-> [finished |-> 0, solved |-> 0]]

Spend(g, k, s, outcome) ==
  /\ spent[g][k] = Unspent
  /\ spent' = [spent EXCEPT ![g][k] = [slot |-> s, outcome |-> outcome]]

\* Starting a game that is on, or over, only spends the key.
Start(g, k, s) ==
  /\ Spend(g, k, s, "STARTED")
  /\ game' = [game EXCEPT ![g][s] = IF @ = "NONE" THEN "ACTIVE" ELSE @]
  /\ UNCHANGED <<moves, tally>>

Move(g, k, s, outcome) ==
  /\ game[g][s] = "ACTIVE" /\ moves[g][s] < Budget
  /\ Spend(g, k, s, outcome)
  /\ moves' = [moves EXCEPT ![g][s] = @ + 1]
  /\ \E next \in After(outcome) :
       /\ game' = [game EXCEPT ![g][s] = next]
       /\ tally' = [tally EXCEPT
                      ![g].finished = IF next \in Over THEN @ + 1 ELSE @,
                      ![g].solved = IF next = "SOLVED" THEN @ + 1 ELSE @]

\* The end of one or several days leaves no game open.
CloseDays(g, days) ==
  /\ days # {} /\ \A s \in days : game[g][s] = "ACTIVE"
  /\ game' = [game EXCEPT ![g] =
                [s \in Slots |-> IF s \in days THEN "EXPIRED" ELSE @[s]]]
  /\ tally' = [tally EXCEPT ![g].finished = @ + Cardinality(days)]
  /\ UNCHANGED <<moves, spent>>

Next ==
  \E g \in Guests :
    \/ \E days \in SUBSET Slots : CloseDays(g, days)
    \/ \E k \in Keys, s \in Slots :
         \/ Start(g, k, s)
         \/ \E outcome \in {"CORRECT", "WRONG", "REVEALED", "GIVEN_UP"} :
              Move(g, k, s, outcome)

Spec == Init /\ [][Next]_vars
=============================================================================
