-------------------------- MODULE MCInterprocessLock --------------------------
(***************************************************************************)
(* Two concurrent calls on one lock path, c1 of process p1 and c2 of p2.   *)
(* p0 is the process whose abandoned owner.json an older version left      *)
(* behind; no call is its own.  Every process has three marker names,      *)
(* enough for its own attempts and for the markers its dead predecessors   *)
(* left.                                                                   *)
(***************************************************************************)
EXTENDS InterprocessLock, TLC

CONSTANTS c1, c2, p0, p1, p2, a1, a2, a3, b1, b2, b3, ownerJson, unknownFile

MCPidOf == (c1 :> p1) @@ (c2 :> p2)
MCNames == {a1, a2, a3, b1, b2, b3, ownerJson, unknownFile}
MCNamePid ==
  [n \in Names |-> CASE n \in {a1, a2, a3} -> p1
                       [] n \in {b1, b2, b3} -> p2
                       [] n = ownerJson -> p0
                       [] n = unknownFile -> NoPid]
===============================================================================
