--------------------------- MODULE MCPeerMessages ---------------------------
(***************************************************************************)
(* Sessions a and b: a sends the request q to b, which may try to answer   *)
(* it twice, also after a restart.                                         *)
(***************************************************************************)
EXTENDS PeerMessages

CONSTANTS a, b, q, r1, r2

MCFrom == [m \in Messages |-> IF m \in {r1, r2} THEN b ELSE a]
MCTo == [m \in Messages |-> IF m \in {r1, r2} THEN a ELSE b]
MCKind == [m \in Messages |-> IF m = q THEN "request" ELSE "reply"]
MCParent == [m \in Replies |-> q]
MCMaxInc == [s \in Sessions |-> IF s = a THEN 1 ELSE 2]
MCOneRuntime == [s \in Sessions |-> 1]
=============================================================================
