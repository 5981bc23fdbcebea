------------------------- MODULE MCSubagentScheduler -------------------------
(***************************************************************************)
(* Three runs of two processes that want different limits.  b1 is a        *)
(* background run; f1 and b1 draw on the same resource pool.               *)
(***************************************************************************)
EXTENDS SubagentScheduler, TLC

CONSTANTS f1, f2, b1, p1, p2, pool

MCProcOf == [r \in Runs |-> IF r = f1 THEN p1 ELSE p2]
MCResourceOf == [r \in Runs |-> IF r = f2 THEN NoResource ELSE pool]
\* p1 allows two runs and knows no pool limit, p2 allows one run of the pool and
\* two altogether.
MCMaxConcurrency == (p1 :> 2) @@ (p2 :> 1)
MCResourceLimits == [p \in Procs |-> [k \in Pools |-> IF p = p2 THEN 1 ELSE 0]]
MCOne == [p \in Procs |-> 1]
===============================================================================
