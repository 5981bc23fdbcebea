----------------------------- MODULE Delegation ------------------------------
(***************************************************************************)
(* One call of the spawn_subagent tool that is run in the foreground       *)
(* (extensions/spawn-subagent/index.ts, execute and runRequest): the       *)
(* dialogs before any child starts, then one task, several at once, or a   *)
(* chain, under one SubagentExecutionGroup.  The repository's own agents   *)
(* are prompts that it controls, a foreign profile loads its own           *)
(* extensions: both need the user's word.  While a dialog is open the      *)
(* repository's agent files may change.                                    *)
(*                                                                         *)
(* The worktree of an isolated run is in Worktree, the child in AgentRun,  *)
(* its slot in SubagentScheduler.                                          *)
(***************************************************************************)
EXTENDS Naturals, FiniteSets

CONSTANTS MaxTasks,  \* tasks or steps of a call
          MaxFanout

Tasks == 1 .. MaxTasks
Failures == {"failed", "canceled"}
Over == {"completed"} \union Failures

\* A call, with what the host says of trust and of a user interface.  An isolated one is
\* validateWorktreeRequest's single, foreground worker.
Requests ==
  {r \in [mode : {"single", "parallel", "chain"}, count : Tasks, isolated : BOOLEAN, schema : BOOLEAN,
          scope : {"shared", "project", "all"},
          confirm : BOOLEAN, foreign : BOOLEAN, trusted : BOOLEAN, ui : BOOLEAN] :
     r.mode = "single" => r.count = 1}
Nothing == [mode |-> "none"]

VARIABLES
  request,  \* the call; once the children start, what they need of it
  local,    \* the repository defines an agent of the requested name
  found,    \* whose agent the call resolved: "none", "shared" or "project"
  agreed,   \* the dialogs the user agreed to: "project", "profile"
  gate,     \* how far the call is; "ok", "error" or "refused" once it returned
  turn,     \* what became of each task
  stopped   \* who asked for an end: "caller", "session"

vars == <<request, local, found, agreed, gate, turn, stopped>>

Init ==
  /\ request = Nothing /\ local = FALSE /\ found = "none" /\ agreed = {} /\ gate = "idle"
  /\ turn = [i \in Tasks |-> "none"] /\ stopped = {}

\* A checkout, an edit or a tool call of another session changes .pi/agents, which no
\* call reads after its dialogs.
EditAgents == gate \in {"idle", "trust", "agents", "profile"} /\ local' = ~local
              /\ UNCHANGED <<request, found, agreed, gate, turn, stopped>>

\* discoverAgents and mergeAgents: the repository's agent hides the shared one of its name.
Found(scope, allowed) ==
  CASE allowed /\ scope # "shared" /\ local -> "project"
    [] scope = "project" /\ ~(allowed /\ local) -> "none"
    [] OTHER -> "shared"

Answer(how) == gate' = how /\ request' = Nothing /\ agreed' = {} /\ found' = "none"

Submit(r) ==
  /\ gate = "idle" /\ "session" \notin stopped
  /\ IF r.isolated /\ r.mode # "single" THEN Answer("error")
     ELSE gate' = "trust" /\ request' = r /\ found' = Found(r.scope, r.trusted) /\ UNCHANGED agreed
  /\ UNCHANGED <<local, turn, stopped>>

\* "Read and run project-local subagents?": the files are read only afterwards.
Trust ==
  LET needed == request.scope # "shared" /\ ~request.trusted
  IN  /\ gate = "trust"
      /\ \/ ~needed /\ gate' = "agents" /\ UNCHANGED <<request, found, agreed>>
         \/ needed /\ Answer(IF request.ui THEN "refused" ELSE "error")
         \/ /\ needed /\ request.ui /\ gate' = "agents"
            /\ agreed' = agreed \union {"project"} /\ found' = Found(request.scope, TRUE)
            /\ UNCHANGED request
      /\ UNCHANGED <<local, turn, stopped>>

\* "Run project-local subagents?": asked of a trusted repository, unless the call waives it.
Agents ==
  LET needed == /\ request.scope # "shared" /\ request.confirm /\ request.ui
                /\ "project" \notin agreed /\ found = "project"
  IN  /\ gate = "agents"
      /\ \/ ~needed /\ gate' = "profile" /\ UNCHANGED <<request, agreed, found>>
         \/ needed /\ Answer("refused")
         \/ /\ needed /\ gate' = "profile" /\ agreed' = agreed \union {"project"}
            /\ UNCHANGED <<request, found>>
      /\ UNCHANGED <<local, turn, stopped>>

\* untrustedSubagentProfileDirs: a profile outside the allowlist.
Profile ==
  /\ gate = "profile"
  /\ \/ ~request.foreign /\ gate' = "limits" /\ UNCHANGED <<request, agreed, found>>
     \/ request.foreign /\ Answer(IF request.ui THEN "refused" ELSE "error")
     \/ /\ request.foreign /\ request.ui /\ gate' = "limits" /\ agreed' = agreed \union {"profile"}
        /\ UNCHANGED <<request, found>>
  /\ UNCHANGED <<local, turn, stopped>>

Limits ==
  /\ gate = "limits"
  /\ IF request.count > MaxFanout THEN Answer("error")
     ELSE gate' = "ready" /\ UNCHANGED <<request, agreed, found>>
  /\ UNCHANGED <<local, turn, stopped>>

\* createSubagentExecutionGroup, for the caller's signal and the session's.
Start ==
  /\ gate = "ready" /\ gate' = "run"
  /\ request' = [mode |-> request.mode, count |-> request.count, isolated |-> request.isolated,
                 schema |-> request.schema, known |-> found # "none"]
  /\ agreed' = {} /\ found' = "none"
  /\ UNCHANGED <<local, turn, stopped>>

Held == {i \in Tasks : turn[i] \in {"queued", "running"}}

\* SubagentExecutionGroup.run, after runPiAgent looked for the agent and measured the task,
\* which holds what the step before it returned.
Joins == IF ~request.known THEN {"failed"}
         ELSE {"failed", IF Cardinality(Held) >= MaxFanout THEN "crowded" ELSE "queued"}

Becomes(i, s) == turn' = [turn EXCEPT ![i] = s] /\ UNCHANGED <<request, local, found, agreed, gate, stopped>>

\* runSingleAgent: a schema it does not support, or a worktree it cannot make, fails the
\* task before it asks for a slot.
Begin(i) ==
  /\ gate = "run" /\ i <= request.count /\ turn[i] = "none"
  /\ request.mode = "chain" => \A j \in 1 .. (i - 1) : turn[j] = "completed"
  /\ \/ request.schema /\ Becomes(i, "failed")
     \/ \E s \in IF request.isolated THEN {"setup"} ELSE Joins : Becomes(i, s)

SetUp(i) == turn[i] = "setup" /\ \E s \in {"failed"} \union Joins : Becomes(i, s)

\* combineSignals: a task that waits for its slot ends with either signal.
Dequeue(i) ==
  /\ turn[i] = "queued"
  /\ \E s \in IF stopped = {} THEN {"running", "failed"} ELSE Failures : Becomes(i, s)

\* A completed child fails its task when its output does not match the schema.
Finish(i) ==
  /\ turn[i] = "running"
  /\ \/ \E valid \in BOOLEAN : Becomes(i, IF request.schema /\ ~valid THEN "failed" ELSE "completed")
     \/ \E s \in IF stopped = {} THEN {"failed"} ELSE Failures : Becomes(i, s)

\* Mutant of Return: the first failure ends tasks that run at once as well.
ReturnAtFailure ==
  /\ gate = "run"
  /\ \/ \A i \in 1 .. request.count : turn[i] \in Over
     \/ \E i \in 1 .. request.count : turn[i] \in Failures
  /\ Answer(IF \A i \in 1 .. request.count : turn[i] = "completed" THEN "ok" ELSE "error")
  /\ UNCHANGED <<local, turn, stopped>>

\* A chain ends with its first failure, tasks at once with the last of them.
Return ==
  /\ gate = "run"
  /\ \A i \in 1 .. request.count :
       turn[i] \in Over \/ (request.mode = "chain" /\ \E j \in 1 .. (i - 1) : turn[j] \in Failures)
  /\ Answer(IF \A i \in 1 .. request.count : turn[i] = "completed" THEN "ok" ELSE "error")
  /\ UNCHANGED <<local, turn, stopped>>

\* The user stops the tool call, or leaves the session.
Abort(who) ==
  /\ gate # "idle" /\ stopped' = stopped \union {who}
  /\ UNCHANGED <<request, local, found, agreed, gate, turn>>

\* The agent goes on; its next call is a new one.
Rest ==
  /\ gate \in {"ok", "error", "refused"} /\ gate' = "idle"
  /\ turn' = [i \in Tasks |-> "none"] /\ stopped' = stopped \ {"caller"}
  /\ UNCHANGED <<request, local, found, agreed>>

Next ==
  \/ EditAgents \/ Trust \/ Agents \/ Profile \/ Limits \/ Start \/ Return \/ Rest
  \/ \E r \in Requests : Submit(r)
  \/ \E who \in {"caller", "session"} : Abort(who)
  \/ \E i \in Tasks : Begin(i) \/ SetUp(i) \/ Dequeue(i) \/ Finish(i)

Spec == Init /\ [][Next]_vars

-----------------------------------------------------------------------------
\* The values the variables take.
TypeOK ==
  /\ request \in Requests \/ DOMAIN request = {"mode"} \/ DOMAIN request = {"mode", "count", "isolated", "schema", "known"}
  /\ local \in BOOLEAN /\ found \in {"none", "shared", "project"} /\ agreed \subseteq {"project", "profile"}
  /\ gate \in {"idle", "trust", "agents", "profile", "limits", "ready", "run", "ok", "error", "refused"}
  /\ turn \in [Tasks -> {"none", "setup", "queued", "running", "crowded"} \union Over]
  /\ stopped \subseteq {"caller", "session"}

\* execute ("Continue only for a repository you trust"): however the repository changes
\* under an open dialog, what is about to run is an agent the user answered for, and a
\* profile that is not allowlisted never runs unasked.
AskedFirst ==
  gate = "ready" =>
    /\ found = "project" => request.trusted \/ "project" \in agreed
    /\ found = "project" /\ request.ui /\ request.confirm => "project" \in agreed
    /\ request.foreign => "profile" \in agreed

\* SubagentExecutionGroup.run and runRequest: the limits tested before the run keep every
\* task that starts within the group's own, so that none is turned away halfway.
NeverCrowded == \A i \in Tasks : turn[i] # "crowded"

\* runRequest: a call that returned has left no child waiting or running, and it is a
\* success only if every task and step of it ended well.
ReturnsWhole ==
  gate \in {"ok", "error", "refused"} =>
    /\ Held = {}
    /\ gate = "ok" => \A i \in Tasks : turn[i] \in {"none", "completed"}
    /\ gate = "error" => (\E i \in Tasks : turn[i] \in Failures) \/ turn = [i \in Tasks |-> "none"]

\* runRequest: no step of a chain works on what an earlier one failed to deliver.
ChainInOrder ==
  gate = "run" /\ request.mode = "chain" =>
    \A i, j \in Tasks : i < j /\ turn[j] # "none" => turn[i] = "completed"

Sound == AskedFirst /\ NeverCrowded /\ ReturnsWhole /\ ChainInOrder
==============================================================================
