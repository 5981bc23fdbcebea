------------------------------- MODULE AppTest -------------------------------
(***************************************************************************)
(* The app_test tool, AppTestRuntime in src/app-test-runtime.ts of         *)
(* pi-browser-capture: fresh browser contexts, each with a directory for   *)
(* artifacts, a trace and a lifetime.  Tool calls take turns; the abort of *)
(* a call, the timers and the end of the session do not.                   *)
(***************************************************************************)
EXTENDS Integers, FiniteSets

CONSTANTS Contexts,     \* contexts that are ever created
          Limit         \* LIMITS.contexts

VARIABLES
  life,       \* of each context: "none", "creating", "open", "closing", "stopped" or "gone"
  states,     \* contexts in the map
  browsers,   \* those whose browser runs
  dirs,       \* those whose directory exists
  trace,      \* "none", "starting", "recording", "stopping"
  op,         \* the call under way
  disposed    \* "no", "waiting" for the call under way, "closing", "done"

vars == <<life, states, browsers, dirs, trace, op, disposed>>

Idle == [kind |-> "none", ctx |-> "none"]
Free == op = Idle /\ disposed = "no"

Init ==
  /\ life = [c \in Contexts |-> "none"] /\ states = {} /\ browsers = {} /\ dirs = {}
  /\ trace = [c \in Contexts |-> "none"] /\ op = Idle /\ disposed = "no"

Closed(c) == life[c] \in {"closing", "stopped", "gone"}

-----------------------------------------------------------------------------
\* create: the directory, then the browser, then the entry in the map.
Create(c) ==
  /\ Free /\ life[c] = "none" /\ Cardinality(states) < Limit
  /\ op' = [kind |-> "create", ctx |-> c] /\ life' = [life EXCEPT ![c] = "creating"]
  /\ dirs' \in {dirs, dirs \union {c}} /\ UNCHANGED <<states, browsers, trace, disposed>>

BrowserStarts(c) ==
  /\ op = [kind |-> "create", ctx |-> c] /\ c \in dirs \ browsers /\ browsers' = browsers \union {c}
  /\ UNCHANGED <<life, states, dirs, trace, op, disposed>>

\* An aborted call closes the context at once and waits for that.
Created(c) ==
  /\ op = [kind |-> "create", ctx |-> c] /\ c \in browsers /\ states' = states \union {c}
  /\ \/ life' = [life EXCEPT ![c] = "open"] /\ op' = Idle
     \/ life' = [life EXCEPT ![c] = "closing"] /\ op' = [kind |-> "close", ctx |-> c]
  /\ UNCHANGED <<browsers, dirs, trace, disposed>>

CreateFails(c) ==
  /\ op = [kind |-> "create", ctx |-> c] /\ op' = Idle /\ life' = [life EXCEPT ![c] = "gone"]
  /\ browsers' = browsers \ {c} /\ dirs' = dirs \ {c} /\ UNCHANGED <<states, trace, disposed>>

\* A call for a context that is open and its own: configure, snapshot, run, the traces.
Use(c) ==
  /\ Free /\ c \in states /\ ~Closed(c)
  /\ \E kind \in {"use", "close", "trace_start", "trace_stop"} :
       /\ kind = "trace_start" => trace[c] = "none"
       /\ op' = [kind |-> kind, ctx |-> c]
       /\ life' = IF kind = "close" THEN [life EXCEPT ![c] = "closing"] ELSE life
       /\ trace' = CASE kind = "trace_start" -> [trace EXCEPT ![c] = "starting"]
                     [] kind = "trace_stop" /\ trace[c] = "recording" -> [trace EXCEPT ![c] = "stopping"]
                     [] OTHER -> trace
  /\ UNCHANGED <<states, browsers, dirs, disposed>>

\* The call is over, once a context that was closed meanwhile is.
Returns(c) ==
  /\ op.ctx = c /\ op.kind \in {"use", "close", "trace_stop"}
  /\ op.kind = "trace_stop" => trace[c] # "stopping"
  /\ (op.kind = "close" \/ Closed(c)) => life[c] = "gone"
  /\ op' = Idle /\ UNCHANGED <<life, states, browsers, dirs, trace, disposed>>

\* trace_start resumes, whatever became of the context.
TraceStarted(c) ==
  /\ op = [kind |-> "trace_start", ctx |-> c] /\ trace[c] = "starting"
  /\ trace' = [trace EXCEPT ![c] = IF c \in browsers THEN "recording" ELSE "none"]
  /\ op' = [op EXCEPT !.kind = "use"] /\ UNCHANGED <<life, states, browsers, dirs, disposed>>

\* The signal of the call, and the lifetime of the context.
Abort(c) ==
  /\ c \in states /\ ~Closed(c) /\ life' = [life EXCEPT ![c] = "closing"]
  /\ UNCHANGED <<states, browsers, dirs, trace, op, disposed>>

\* The trace's own timer, which close may come too early to clear.
TraceTimer(c) ==
  /\ trace[c] = "recording"
  /\ trace' = [trace EXCEPT ![c] = IF c \in browsers THEN "stopping" ELSE "none"]
  /\ UNCHANGED <<life, states, browsers, dirs, op, disposed>>

\* stopTrace: the export creates the directory if need be; when the context is closed or
\* the file too large only the file is removed.
TraceStopped(c) ==
  /\ trace[c] = "stopping" /\ trace' = [trace EXCEPT ![c] = "none"]
  /\ dirs' \in {dirs, dirs \union {c}}
  /\ UNCHANGED <<life, states, browsers, op, disposed>>

-----------------------------------------------------------------------------
\* close: the browser, then a trace that is being exported, then the rest.
BrowserCloses(c) ==
  /\ life[c] = "closing" /\ life' = [life EXCEPT ![c] = "stopped"] /\ browsers' = browsers \ {c}
  /\ UNCHANGED <<states, dirs, trace, op, disposed>>

CloseEnds(c) ==
  /\ life[c] = "stopped" /\ trace[c] # "stopping"
  /\ life' = [life EXCEPT ![c] = "gone"] /\ dirs' = dirs \ {c} /\ states' = states \ {c}
  /\ UNCHANGED <<browsers, trace, op, disposed>>

\* dispose: the call under way ends first, then every context is closed.
Dispose ==
  /\ \/ disposed = "no" /\ disposed' = "waiting" /\ life' = life
     \/ /\ disposed = "waiting" /\ op = Idle /\ disposed' = "closing"
        /\ life' = [c \in Contexts |-> IF c \in states /\ ~Closed(c) THEN "closing" ELSE life[c]]
     \/ disposed = "closing" /\ states = {} /\ disposed' = "done" /\ life' = life
  /\ UNCHANGED <<states, browsers, dirs, trace, op>>

Next ==
  \/ Dispose
  \/ \E c \in Contexts :
       \/ Create(c) \/ BrowserStarts(c) \/ Created(c) \/ CreateFails(c)
       \/ Use(c) \/ Returns(c) \/ TraceStarted(c) \/ Abort(c) \/ TraceTimer(c) \/ TraceStopped(c)
       \/ BrowserCloses(c) \/ CloseEnds(c)

Spec == Init /\ [][Next]_vars

-----------------------------------------------------------------------------
\* The values the variables take.
TypeOK ==
  /\ life \in [Contexts -> {"none", "creating", "open", "closing", "stopped", "gone"}]
  /\ {states, browsers, dirs} \subseteq SUBSET Contexts
  /\ trace \in [Contexts -> {"none", "starting", "recording", "stopping"}]
  /\ disposed \in {"no", "waiting", "closing", "done"}

\* create, close and dispose: no more browsers than contexts are allowed, each in the map
\* or in the call that creates it; and nothing is left of a context that is closed, on
\* disk neither, nor of any after dispose.
NothingLeft ==
  /\ Cardinality(browsers) <= Limit
  /\ browsers \subseteq states \union {op.ctx}
  /\ \A c \in Contexts : life[c] = "gone" => c \notin browsers \union dirs
  /\ disposed = "done" => browsers = {} /\ dirs = {} /\ op = Idle
==============================================================================
