-------------------------- MODULE MCLocalPlatform --------------------------
(* A bounded instance of LocalPlatform for TLC. *)
EXTENDS LocalPlatform, TLC

MCGroups == <<"postgres", "api">>
MCNames == <<"api", "migration">>
MCRuntime == {"api"}
MCSymmetry == Permutations(Versions)
=============================================================================
