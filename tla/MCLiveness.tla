---------------------------- MODULE MCLiveness ----------------------------
(***************************************************************************)
(* What the scheduler and the handoff between sessions bring to an end,    *)
(* checked by one run.  They do not interact: a behaviour is one of one    *)
(* part, under its fairness, and the other stays as it began.              *)
(***************************************************************************)
EXTENDS MCSubagentScheduler

VARIABLES part,
  open, durable, mem, branch, request, step, audit, known, moved, child, retry, lock, turn, crashes, failures

handoffVars == <<open, durable, mem, branch, request, step, audit, known, moved, child, retry, lock, turn,
                 crashes, failures>>

Handoff == INSTANCE SelfHandoff WITH
  MaxAttempts <- 1, MaxCrashes <- 2, MaxFailures <- 1, ClearsTransferred <- TRUE, file <- branch

PartsInit == part \in {"scheduler", "handoff"} /\ Init /\ Handoff!Init

PartsNext ==
  \/ part = "scheduler" /\ Next /\ UNCHANGED <<part, handoffVars>>
  \/ part = "handoff" /\ Handoff!Next /\ UNCHANGED <<part, vars>>

PartsSpec ==
  /\ PartsInit /\ [][PartsNext]_<<part, vars, handoffVars>>
  /\ part = "scheduler" => Fairness
  /\ part = "handoff" => Handoff!Fairness

\* self-handoff and handoff-state.ts: see TransferEnds in SelfHandoff.
TransferEnds == Handoff!TransferEnds
===========================================================================
