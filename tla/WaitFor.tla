------------------------------- MODULE WaitFor -------------------------------
(***************************************************************************)
(* The blocking wait tools, wait-for/index.ts: a wait for jobs polls the   *)
(* job stores, a wait for a condition runs a shell command, until the      *)
(* mode is satisfied, the deadline comes, or the caller aborts.  What a    *)
(* wait shows of a job needs no wake-up any more: job-wake.ts drops the    *)
(* updates that are not newer than what was observed.                      *)
(*                                                                         *)
(* The clock ticks between any two steps.  It is assumed that a job does   *)
(* not end in the very tick, a millisecond, in which its question is read: *)
(* that end would be dropped as observed (wasObserved compares with >=).   *)
(***************************************************************************)
EXTENDS Integers, FiniteSets

CONSTANTS Jobs,
          Probed,  \* the jobs that are commands and may have a readiness probe
          MaxClock

VARIABLES
  clock,
  status, ready,   \* the records of the jobs; a command without a probe counts as one whose probe failed
  told, at,        \* outcomes of each job so far, and when the last became visible
  pending,         \* the hub's updates, by job the outcome's number, 0 for none
  phase,           \* of the wait: "idle", "waiting" or "evaluating" a condition
  ids, mode,
  outcomes, readAt,  \* of the latest check: by job the outcome's number, 0 for none
  observed,        \* markJobObserved: when the outcome of each job was read, -1 if never
  seen             \* the last outcome of each job that the model was shown

jobVars == <<status, ready, told, at, pending>>
waitVars == <<ids, mode, outcomes, readAt>>
shownVars == <<observed, seen>>
vars == <<clock, jobVars, phase, waitVars, shownVars>>

Terminal == {"completed", "failed"}
Modes == {"all", "any", "any_success", "any_failure", "ready"}
NoOutcomes == [j \in Jobs |-> 0]

Init ==
  /\ clock = 0 /\ status = [j \in Jobs |-> "running"]
  /\ ready = [j \in Probed |-> "starting"]
  /\ told = NoOutcomes /\ at = NoOutcomes /\ pending = NoOutcomes
  /\ phase = "idle" /\ ids = {} /\ mode = "all"
  /\ outcomes = NoOutcomes /\ readAt = 0
  /\ observed = [j \in Jobs |-> -1] /\ seen = NoOutcomes

Tick ==
  /\ clock < MaxClock /\ clock' = clock + 1
  /\ UNCHANGED <<jobVars, phase, waitVars, shownVars>>

-----------------------------------------------------------------------------
\* A job asks its parent (a subagent), or ends; the hub is notified of both.
Outcome(j, s) ==
  /\ status' = [status EXCEPT ![j] = s] /\ told' = [told EXCEPT ![j] = @ + 1]
  /\ at' = [at EXCEPT ![j] = clock] /\ pending' = [pending EXCEPT ![j] = told'[j]]

JobAsks(j) ==
  /\ j \notin Probed /\ status[j] = "running" /\ told[j] = 0 /\ Outcome(j, "awaiting_answer")
  /\ UNCHANGED <<clock, ready, phase, waitVars, shownVars>>

JobAnswered(j) ==
  /\ phase = "idle" /\ status[j] = "awaiting_answer" /\ observed[j] < clock
  /\ status' = [status EXCEPT ![j] = "running"]
  /\ UNCHANGED <<clock, ready, told, at, pending, phase, waitVars, shownVars>>

JobEnds(j) ==
  /\ status[j] \notin Terminal /\ observed[j] < clock /\ \E s \in Terminal : Outcome(j, s)
  /\ UNCHANGED <<clock, ready, phase, waitVars, shownVars>>

JobReady(j) ==
  /\ status[j] = "running" /\ ready[j] = "starting"
  /\ \E r \in {"ready", "failed"} : ready' = [ready EXCEPT ![j] = r]
  /\ UNCHANGED <<clock, status, told, at, pending, phase, waitVars, shownVars>>

\* wasObserved in job-wake.ts.
WasObserved(j) == observed[j] >= at[j]

\* take in job-wake.ts: the update is sent, or dropped when wasObserved.
Wake(j) ==
  /\ pending[j] > 0 /\ pending' = [pending EXCEPT ![j] = 0] /\ at' = [at EXCEPT ![j] = 0]
  /\ seen' = IF WasObserved(j) THEN seen ELSE [seen EXCEPT ![j] = pending[j]]
  /\ UNCHANGED <<clock, status, ready, told, phase, waitVars, observed>>

-----------------------------------------------------------------------------
\* evaluateJobMode, and the readiness of command jobs.
Ended(s) == {j \in ids : s[j] \in Terminal}
Awaiting(s) == {j \in ids : s[j] = "awaiting_answer"}

Matched(s) ==
  \/ Awaiting(s) # {}
  \/ mode = "any" /\ Ended(s) # {}
  \/ mode = "any_success" /\ \E j \in ids : s[j] = "completed"
  \/ mode = "any_failure" /\ \E j \in ids : s[j] = "failed"
  \/ mode = "all" /\ Ended(s) = ids

Impossible(s) == Ended(s) = ids /\ ~Matched(s)

Evaluation ==
  IF mode = "ready"
  THEN CASE \E j \in ids : ready[j] = "failed" \/ status[j] # "running" -> "error"
         [] \A j \in ids : ready[j] = "ready" /\ status[j] = "running" -> "met"
         [] OTHER -> "wait"
  ELSE CASE Impossible(status) -> "error" [] Matched(status) -> "met" [] OTHER -> "wait"

Reported == {j \in ids : status[j] \in Terminal \union {"awaiting_answer"}}

\* observeOutcomes: outcomes of the check that was made at time t, as far as they are shown.
ObserveOutcomes(shown, o, t) ==
  /\ observed' = [j \in Jobs |-> IF j \in shown THEN t ELSE observed[j]]
  /\ seen' = [j \in Jobs |-> IF j \in shown /\ o[j] > seen[j] THEN o[j] ELSE seen[j]]

\* The wait returns, with what it says of the outcomes.
Returns ==
  /\ phase' = "idle" /\ ids' = {} /\ mode' = "all"
  /\ outcomes' = NoOutcomes /\ readAt' = 0

Call ==
  /\ phase = "idle" /\ phase' = "waiting"
  /\ \/ ids' \in SUBSET Jobs \ {{}} /\ mode' \in Modes /\ (mode' = "ready" => ids' \subseteq Probed)
     \/ ids' = {} /\ mode' = "all"
  /\ UNCHANGED <<clock, jobVars, outcomes, readAt, shownVars>>

\* What a check of the jobs finds.
Found == [j \in Jobs |-> IF j \in Reported THEN told[j] ELSE 0]

\* A check of the jobs, now and after every interval: their records are read at once.
CheckJobs ==
  /\ phase = "waiting" /\ ids # {}
  /\ CASE Evaluation = "error" -> Returns /\ UNCHANGED shownVars
       [] Evaluation = "met" -> Returns /\ ObserveOutcomes(Reported, Found, clock)
       [] OTHER -> /\ outcomes' = Found /\ readAt' = clock
                   /\ UNCHANGED <<phase, ids, mode, shownVars>>
  /\ UNCHANGED <<clock, jobVars>>

\* A check of the condition: runShellProcess, within what is left of the time.
Evaluate ==
  /\ phase = "waiting" /\ ids = {} /\ phase' = "evaluating"
  /\ UNCHANGED <<clock, jobVars, waitVars, shownVars>>

Evaluated ==
  /\ phase = "evaluating"
  /\ \/ Returns
     \/ phase' = "waiting" /\ UNCHANGED waitVars
  /\ UNCHANGED <<clock, jobVars, shownVars>>

\* The deadline, which a call may set anywhere: timeoutResult shows of the latest outcomes what the bounded text has room for.
TimesOut ==
  /\ phase = "waiting" /\ Returns
  /\ \E shown \in SUBSET {j \in Jobs : outcomes[j] > 0} : ObserveOutcomes(shown, outcomes, readAt)
  /\ UNCHANGED <<clock, jobVars>>

Aborts ==
  /\ phase # "idle" /\ Returns
  /\ UNCHANGED <<clock, jobVars, shownVars>>

Next ==
  \/ Tick \/ Call \/ CheckJobs \/ Evaluate \/ Evaluated \/ TimesOut \/ Aborts
  \/ \E j \in Jobs : JobAsks(j) \/ JobAnswered(j) \/ JobEnds(j) \/ Wake(j)
  \/ \E j \in Probed : JobReady(j)

Spec == Init /\ [][Next]_vars

-----------------------------------------------------------------------------
\* The values the variables take.
TypeOK ==
  /\ clock \in 0 .. MaxClock /\ mode \in Modes
  /\ status \in [Jobs -> {"running", "awaiting_answer"} \union Terminal]
  /\ phase \in {"idle", "waiting", "evaluating"} /\ ids \subseteq Jobs
  /\ observed \in [Jobs -> -1 .. MaxClock]

\* wait-for and job-wake: an update that is to be dropped as observed was shown to the model,
\* or a later one of the same job was.
DroppedWereShown == \A j \in Jobs : pending[j] > 0 /\ WasObserved(j) => seen[j] >= pending[j]

\* evaluateJobMode: a wait goes on after a check only when a later outcome could still end it.
WaitsForWhatCanCome ==
  phase = "waiting" /\ ids # {} => \E j \in ids : outcomes[j] = 0

Sound == DroppedWereShown /\ WaitsForWhatCanCome
==============================================================================
