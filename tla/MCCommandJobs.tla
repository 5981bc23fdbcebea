---------------------------- MODULE MCCommandJobs ----------------------------
(* Two owners that compete for one slot of a store that keeps two records. *)
EXTENDS CommandJobs, TLC

CONSTANTS p1, p2

MCOwners == {p1, p2}
MCOwnerOf == 1 :> p1 @@ 2 :> p2 @@ 3 :> p1
==============================================================================
