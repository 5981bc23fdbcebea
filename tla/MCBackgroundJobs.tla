--------------------------- MODULE MCBackgroundJobs ---------------------------
(***************************************************************************)
(* Process p1 owns the interactive job 1 and the one-shot job 2, process   *)
(* p2 owns the one-shot job 3.  Where jobs 2 and 3 compete, each process   *)
(* has one mutation in flight; elsewhere two.                              *)
(***************************************************************************)
EXTENDS BackgroundJobs, TLC

CONSTANTS p1, p2

MCPast == {{2, 3}, {1}}   \* job 1 alone, or jobs 2 and 3 for one slot
MCMaxOps == [j \in Jobs |-> IF j = 1 \/ Cardinality(Jobs) = 1 THEN 2 ELSE 1]
MCOwnerOf == [j \in Jobs |-> IF j = 3 THEN p2 ELSE p1]
===============================================================================
