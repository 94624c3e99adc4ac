----------------------------- MODULE MCGameplay -----------------------------
(* Bounded instances of Gameplay for TLC. *)
EXTENDS Gameplay, TLC

CONSTANTS MaxVersion

\* Every command on every attempt id at every version up to MaxVersion.
MCCommands ==
  {[kind |-> "START", attempt |-> NoAttempt, version |-> 0, entity |-> "none"]}
  \cup [kind : {"REVEAL", "GIVE_UP"}, attempt : AttemptIds,
        version : 0..MaxVersion, entity : {"none"}]
  \cup [kind : {"GUESS"}, attempt : AttemptIds, version : 0..MaxVersion,
        entity : {"answer", "other", "unknown"}]

MCReads ==
  {[kind |-> k, attempt |-> NoAttempt, version |-> 0, entity |-> "none"] :
     k \in {"READ_CURRENT", "READ_PROFILE"}}
  \cup [kind : {"READ_ATTEMPT"}, attempt : AttemptIds, version : {0},
        entity : {"none"}]

MCRequests == [key : Keys, command : MCCommands]
              \cup [key : {None}, command : MCReads]

MCRegionsOf == [s \in Slots |-> IF s = 0 THEN Regions ELSE {CHOOSE r \in Regions : TRUE}]
MCSlots == {0}
MCTwoSlots == 0..1
MCSymmetry == Permutations(Keys) \cup Permutations(AttemptIds)
              \cup Permutations(Conns)
=============================================================================
