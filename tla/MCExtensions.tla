---------------------------- MODULE MCExtensions ----------------------------
(***************************************************************************)
(* What a session does by itself, checked by one run with its fairness:    *)
(* the sources of its turns, its work plan, a child agent, a query to a    *)
(* language server, and a call to the broker.  These parts do not          *)
(* interact: a behaviour is one of one part, the others stay as they began.*)
(***************************************************************************)
EXTENDS Session, Sequences

CONSTANTS j1, MaxItems, MaxGiven, MaxExchanges, MaxLines, MaxUnread, Notes,
          Files, MaxEdits, MaxEndpoints

ASSUME PartsAssumption == MaxItems \in Nat /\ MaxGiven \in Nat /\ MaxEndpoints \in Nat

VARIABLES part,
  items, activeId, clock, streaming, stale,
  mode, call, exchange, asked, claimed, note, proc, reason, teardown, semantic, pipes, exit,
  alive, child, inp, eof, out, lines, settled, watch, broken, text, final, cleanup,
  disk, op, before, after, read, pending, unanswered, server, failed, aborted, timedOut, verdict,
  result, shut,
  phase, valid, at, canceled, expired, outcome

planVars == <<items, activeId, clock, streaming, stale>>
agentVars == <<mode, call, exchange, asked, claimed, note, proc, reason, teardown, semantic, pipes, exit,
               alive, child, inp, eof, out, lines, settled, watch, broken, text, final, cleanup>>
intelVars == <<disk, op, before, after, read, pending, unanswered, server, failed, aborted, timedOut,
               verdict, result, shut>>
mcpVars == <<phase, valid, at, canceled, expired, outcome>>

Plan == INSTANCE WorkPlan
Agent == INSTANCE AgentRun WITH held <- pipes
Intel == INSTANCE CodeIntel WITH seen <- read, asked <- unanswered
Mcp == INSTANCE McpCall WITH aborted <- canceled, timedOut <- expired, result <- outcome

PartsInit ==
  /\ part \in {"session", "plan", "agent", "intel", "mcp"}
  /\ Init /\ Plan!Init /\ Agent!Init /\ Intel!Init /\ Mcp!Init
  /\ part # "agent" => mode = "rpc"

PartsNext ==
  \/ part = "session" /\ Next /\ UNCHANGED <<part, planVars, agentVars, intelVars, mcpVars>>
  \/ part = "plan" /\ Plan!Next /\ UNCHANGED <<part, vars, agentVars, intelVars, mcpVars>>
  \/ part = "agent" /\ Agent!Next /\ UNCHANGED <<part, vars, planVars, intelVars, mcpVars>>
  \/ part = "intel" /\ Intel!Next /\ UNCHANGED <<part, vars, planVars, agentVars, mcpVars>>
  \/ part = "mcp" /\ Mcp!Next /\ UNCHANGED <<part, vars, planVars, agentVars, intelVars>>

PartsSpec ==
  /\ PartsInit /\ [][PartsNext]_<<part, vars, planVars, agentVars, intelVars, mcpVars>>
  /\ Fairness /\ Agent!Fairness /\ Intel!Fairness /\ Mcp!Fairness

\* work-plan/index.ts and handoff-state.ts: see HandsOver in WorkPlan.
PlanHandsOver == Plan!HandsOver

\* pi-agent-runner.ts and managed-process.ts: see RunTruthful in AgentRun.
RunTruthful == Agent!RunTruthful

\* code-intel/service.ts and mcp-client.ts: see Sound in CodeIntel and AbortWins in McpCall.
QueriesSound == Intel!Sound /\ Mcp!AbortWins

\* pi-agent-runner.ts, code-intel/service.ts and mcp-client.ts: see CallsReturn in AgentRun,
\* QueryReturns in CodeIntel and CallReturns in McpCall.
CallsReturn == Agent!CallsReturn /\ Intel!QueryReturns /\ Mcp!CallReturns
=============================================================================
