------------------------------ MODULE Workflow ------------------------------
(***************************************************************************)
(* Runs of workflow scripts, extensions/workflow: the agent calls of a     *)
(* script, the tracker of their promises (promise-tracker.ts), the end of  *)
(* the tool call (index.ts), and the journal from which cache() replays    *)
(* the steps of an earlier run (journal.ts).                               *)
(*                                                                         *)
(* The script is the user's program: it calls agents, directly or as the   *)
(* producer of a cached step, in any order and in parallel, awaits them or *)
(* not, and returns or throws whenever it wants.  All runs use one journal *)
(* with the same execution contract; a run in another process may overlap, *)
(* and a process may die.                                                  *)
(***************************************************************************)
EXTENDS Naturals, FiniteSets

CONSTANTS Runs,       \* executions of the tool
          Calls,      \* agent calls a script makes at most
          MaxFanout,  \* config.maxFanout
          Keys,       \* keys of cached steps
          NoKey       \* the key of a call outside cache()

VARIABLES
  run,        \* run -> "off", "script", "sealed", "returned" or "dead" (its process died)
  outcome,    \* run -> details.status
  call,       \* run -> call -> "none", "queued", "running", "completed", "failed", "refused"
  key,        \* run -> call -> the step that a pending call produces
  hasError,   \* runs whose tracker saw a rejection
  aborted,    \* runs whose group is cancelled, or whose signal fired
  journal,    \* keys in the journal's file
  entries,    \* run -> keys the run would replay
  producing,  \* run -> steps whose value waits for the lock of the journal
  computed    \* run -> details.computedKeys

vars == <<run, outcome, call, key, hasError, aborted, journal, entries, producing, computed>>

Recorded(r) == {c \in Calls : call[r][c] \notin {"none", "refused"}}
Pending(r) == {c \in Calls : call[r][c] \in {"queued", "running"}}

Init ==
  /\ run = [r \in Runs |-> "off"] /\ outcome = [r \in Runs |-> "running"]
  /\ call = [r \in Runs |-> [c \in Calls |-> "none"]]
  /\ key = [r \in Runs |-> [c \in Calls |-> NoKey]]
  /\ hasError = {} /\ aborted = {}
  /\ journal = {} /\ entries = [r \in Runs |-> {}]
  /\ producing = [r \in Runs |-> {}] /\ computed = [r \in Runs |-> {}]

\* What onStatus notes of a call.
Becomes(r, c, status) == call' = [call EXCEPT ![r][c] = status]

\* openWorkflowJournal reads without the lock; cache() replays what it found.
OpenJournal(r) == entries' = [entries EXCEPT ![r] = journal]
Replays(r, k) == k \in entries[r]

\* execute up to the call of the script.
Open(r) ==
  /\ run[r] = "off" /\ run' = [run EXCEPT ![r] = "script"]
  /\ OpenJournal(r)
  /\ UNCHANGED <<outcome, call, key, hasError, aborted, journal, producing, computed>>

\* agent, alone or as the producer of cache(k) whose step is not replayed.  A call past
\* the fanout is refused, and tracked like one that fails.
RunAgentCall(r, c, k) ==
  /\ call[r][c] = "none" /\ ~Replays(r, k)
  /\ IF Cardinality(Recorded(r)) >= MaxFanout
     THEN /\ Becomes(r, c, "refused") /\ hasError' = hasError \union {r}
          /\ UNCHANGED key
     ELSE /\ Becomes(r, c, "queued") /\ key' = [key EXCEPT ![r][c] = k]
          /\ UNCHANGED hasError
  /\ UNCHANGED <<run, outcome, aborted, journal, entries, producing, computed>>

\* A script that is over has been sealed: what it left behind is turned down.
AgentCall(r, c, k) == run[r] = "script" /\ RunAgentCall(r, c, k)

CallStarts(r, c) ==
  /\ run[r] # "dead" /\ call[r][c] = "queued" /\ r \notin aborted
  /\ Becomes(r, c, "running")
  /\ UNCHANGED <<run, outcome, key, hasError, aborted, journal, entries, producing, computed>>

\* The value of a producer goes to the journal, by its lane.
CallSucceeds(r, c) ==
  /\ run[r] # "dead" /\ call[r][c] = "running"
  /\ Becomes(r, c, "completed")
  /\ producing' = [producing EXCEPT ![r] = @ \union ({key[r][c]} \ {NoKey})]
  /\ key' = [key EXCEPT ![r][c] = NoKey]
  /\ UNCHANGED <<run, outcome, hasError, aborted, journal, entries, computed>>

\* The child failed, was canceled, or waited too long for a slot.
CallFails(r, c) ==
  /\ run[r] # "dead" /\ call[r][c] \in {"queued", "running"}
  /\ Becomes(r, c, "failed") /\ hasError' = hasError \union {r}
  /\ key' = [key EXCEPT ![r][c] = NoKey]
  /\ UNCHANGED <<run, outcome, aborted, journal, entries, producing, computed>>

\* persistWorkflowJournalEntry: under the interprocess lock the file is read again,
\* the entry added, and the file replaced.  It may come when the tool has returned.
Persist(r, k) ==
  /\ run[r] # "dead" /\ k \in producing[r]
  /\ journal' = journal \union {k} /\ entries' = [entries EXCEPT ![r] = journal']
  /\ producing' = [producing EXCEPT ![r] = @ \ {k}]
  /\ computed' = [computed EXCEPT ![r] = @ \union {k}]
  /\ UNCHANGED <<run, outcome, call, key, hasError, aborted>>

\* The value is no exact JSON, or the lock is not had in time: cache() throws.
PersistFails(r, k) ==
  /\ run[r] # "dead" /\ k \in producing[r]
  /\ producing' = [producing EXCEPT ![r] = @ \ {k}]
  /\ UNCHANGED <<run, outcome, call, key, hasError, aborted, journal, entries, computed>>

\* The user aborts the tool call, or the session shuts down; the script goes on.
Abort(r) ==
  /\ run[r] \in {"script", "sealed"} /\ r \notin aborted
  /\ aborted' = aborted \union {r}
  /\ UNCHANGED <<run, outcome, call, key, hasError, journal, entries, producing, computed>>

\* The script returns or throws; agents are sealed, and cancelled when it threw.
ScriptEnds(r) ==
  /\ run[r] = "script" /\ run' = [run EXCEPT ![r] = "sealed"]
  /\ \/ outcome' = [outcome EXCEPT ![r] = "completed"] /\ UNCHANGED aborted
     \/ outcome' = [outcome EXCEPT ![r] = "failed"] /\ aborted' = aborted \union {r}
  /\ UNCHANGED <<call, key, hasError, journal, entries, producing, computed>>

\* drainAgents and group.drain; an agent that failed fails the run.
Return(r) ==
  /\ run[r] = "sealed" /\ Pending(r) = {}
  /\ run' = [run EXCEPT ![r] = "returned"]
  /\ outcome' = IF r \in hasError THEN [outcome EXCEPT ![r] = "failed"] ELSE outcome
  /\ UNCHANGED <<call, key, hasError, aborted, journal, entries, producing, computed>>

\* The process dies, and with it its agents; what is in the journal stays.
Crash(r) ==
  /\ run[r] \in {"script", "sealed"} /\ run' = [run EXCEPT ![r] = "dead"]
  /\ outcome' = [outcome EXCEPT ![r] = "running"]
  /\ call' = [call EXCEPT ![r] = [c \in Calls |-> "none"]]
  /\ key' = [key EXCEPT ![r] = [c \in Calls |-> NoKey]]
  /\ hasError' = hasError \ {r} /\ aborted' = aborted \ {r}
  /\ entries' = [entries EXCEPT ![r] = {}] /\ producing' = [producing EXCEPT ![r] = {}]
  /\ UNCHANGED <<journal, computed>>

Next ==
  \E r \in Runs :
    \/ Open(r) \/ Abort(r) \/ ScriptEnds(r) \/ Return(r) \/ Crash(r)
    \/ \E c \in Calls : CallStarts(r, c) \/ CallSucceeds(r, c) \/ CallFails(r, c)
    \/ \E c \in Calls, k \in Keys \union {NoKey} : AgentCall(r, c, k)
    \/ \E k \in Keys : Persist(r, k) \/ PersistFails(r, k)

Spec == Init /\ [][Next]_vars

-----------------------------------------------------------------------------
\* The values the variables take.
TypeOK ==
  /\ run \in [Runs -> {"off", "script", "sealed", "returned", "dead"}]
  /\ outcome \in [Runs -> {"running", "completed", "failed"}]
  /\ call \in [Runs -> [Calls -> {"none", "queued", "running", "completed", "failed", "refused"}]]
  /\ key \in [Runs -> [Calls -> Keys \union {NoKey}]]
  /\ hasError \subseteq Runs /\ aborted \subseteq Runs /\ journal \subseteq Keys
  /\ {entries, producing, computed} \subseteq [Runs -> SUBSET Keys]

\* sealAgents, drainAgents and the group's drain in workflow/index.ts: when the tool has
\* returned no agent of the run works, and none that the script left behind starts later.
NoneOutlives == \A r \in Runs : run[r] = "returned" => Pending(r) = {}

\* PromiseTracker: a run that is reported as completed had no agent call that failed or
\* was refused, also not one that the script never awaited.
CompletedTruthful ==
  \A r \in Runs, c \in Calls :
    run[r] = "returned" /\ outcome[r] = "completed" => call[r][c] \notin {"failed", "refused"}

\* journal.ts: a step that a run reports as computed stays in the journal, whatever runs
\* overlap and whichever process dies: a later run replays it.
JournalKeepsSteps == \A r \in Runs : computed[r] \subseteq journal

Sound == NoneOutlives /\ CompletedTruthful /\ JournalKeepsSteps
=============================================================================
