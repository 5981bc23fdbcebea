------------------------------- MODULE McpCall -------------------------------
(***************************************************************************)
(* One tool call to the configured MCP endpoints, mcpToolCall in           *)
(* _shared/mcp-client.ts: the endpoints are asked in order, under one      *)
(* deadline for all of them.  An endpoint answers late, badly or never,    *)
(* and may not let its response be canceled.                               *)
(***************************************************************************)
EXTENDS Integers

CONSTANTS MaxEndpoints

VARIABLES
  phase,      \* "idle", or what the call waits for: "fetch", "cancel", "body"
  valid,      \* the endpoints that validateEndpoint accepts
  at,         \* the endpoint that is asked
  aborted, timedOut,
  result      \* "none", "aborted", "timeout", "error", or "ok", from endpoint at

vars == <<phase, valid, at, aborted, timedOut, result>>

Indices == 1 .. MaxEndpoints

Init ==
  /\ phase = "idle" /\ valid = {} /\ at = 0
  /\ aborted = FALSE /\ timedOut = FALSE /\ result = "none"

\* The call ends, its timer and its listener with it.
Ends(r) == phase' = "idle" /\ result' = r /\ UNCHANGED at

\* The loop goes on behind endpoint i, past those that are not valid.
Proceed(i) ==
  LET left == {j \in valid' : j > i} IN
  IF left = {} THEN Ends("error")
  ELSE phase' = "fetch" /\ result' = "none" /\ at' = CHOOSE j \in left : \A k \in left : j <= k

\* createDeadline throws when the caller has aborted already; without the configured
\* token no endpoint is asked.
Call ==
  /\ phase = "idle"
  /\ valid' \in SUBSET Indices
  /\ aborted' \in BOOLEAN /\ timedOut' = FALSE
  /\ IF aborted' THEN Ends("aborted") ELSE Ends("error") \/ Proceed(0)

\* What follows every await: the caller's abort first, then the deadline.
Resumed(next) ==
  IF aborted THEN Ends("aborted") ELSE IF timedOut THEN Ends("timeout") ELSE next

\* The fetch settles: with an error, a bad status, or a good one.
Fetched ==
  /\ UNCHANGED <<valid, aborted, timedOut>>
  /\ phase = "fetch"
  /\ \/ Resumed(Proceed(at))
     \/ Resumed(phase' = "cancel" /\ UNCHANGED <<at, result>>)
     \/ Resumed(phase' = "body" /\ UNCHANGED <<at, result>>)

\* cancelResponseBody settles, as the body or the signal decides.
Canceled ==
  /\ UNCHANGED <<valid, aborted, timedOut>>
  /\ phase = "cancel" /\ Resumed(Proceed(at))

\* The body is read: an error, a malformed answer, or the result.
BodyRead ==
  /\ UNCHANGED <<valid, aborted, timedOut>>
  /\ phase = "body"
  /\ Resumed(Proceed(at) \/ Ends("ok"))

\* The signal of the deadline: what the call waits for is rejected.
Rejected ==
  /\ phase # "idle" /\ (aborted \/ timedOut)
  /\ UNCHANGED <<valid, aborted, timedOut>> /\ Resumed(FALSE)

CallerAborts ==
  /\ phase # "idle" /\ aborted' = TRUE
  /\ UNCHANGED <<phase, valid, at, timedOut, result>>

Deadline ==
  /\ phase # "idle" /\ ~timedOut /\ timedOut' = TRUE
  /\ UNCHANGED <<phase, valid, at, aborted, result>>

Next == Call \/ Fetched \/ Canceled \/ BodyRead \/ Rejected \/ CallerAborts \/ Deadline

Fairness == WF_vars(Deadline) /\ WF_vars(Rejected)
Spec == Init /\ [][Next]_vars /\ Fairness

-----------------------------------------------------------------------------
\* The values the variables take.
TypeOK ==
  /\ phase \in {"idle", "fetch", "cancel", "body"}
  /\ valid \subseteq Indices /\ at \in 0 .. MaxEndpoints
  /\ {aborted, timedOut} \subseteq BOOLEAN
  /\ result \in {"none", "aborted", "timeout", "error", "ok"}

\* mcpToolCall: the caller's abort wins over a late answer and over the deadline, and the
\* deadline wins over a late answer.
AbortWins ==
  phase = "idle" /\ result # "none" =>
    /\ aborted <=> result = "aborted"
    /\ result = "ok" => ~timedOut /\ at \in valid

\* createDeadline: every call returns, even when no endpoint ever settles.
CallReturns == phase # "idle" ~> phase = "idle"
==============================================================================
