------------------------------ MODULE Session ------------------------------
(***************************************************************************)
(* What starts turns in one session besides its user: the wake-ups for     *)
(* background jobs (extensions/_shared/job-wake.ts), the autopilot of the  *)
(* goal (extensions/goal/index.ts), the reminder of the work plan          *)
(* (extensions/work-plan/index.ts), and the gate of /self-handoff that     *)
(* holds the first two.                                                    *)
(*                                                                         *)
(* Pi itself is modelled from how these extensions use it: a run lasts     *)
(* from agent_start to agent_end, may be retried or continued with the     *)
(* messages queued meanwhile, and is over at agent_settled; a message that *)
(* triggers a turn starts a run when the session is idle and is queued     *)
(* otherwise; queued messages are consumed before the run ends; an Escape  *)
(* clears them.  Timers of 0 ms fire before a model answers.               *)
(***************************************************************************)
EXTENDS Naturals, FiniteSets

CONSTANTS Jobs,        \* background jobs that report their end to this session
          MaxTurns,    \* the turn budget of every goal
          MaxStalls,   \* MAX_EMPTY_STOP_RETRIES
          MaxEvents    \* prompts, goals started or reactivated, provider errors and
                       \* gates, taken together

ASSUME SessionAssumption ==
  /\ MaxTurns \in Nat \ {0} /\ MaxStalls \in Nat
  /\ MaxEvents \in Nat

VARIABLES
  run,          \* "off", "idle", "running", "ended" (agent_end, not settled), "over"
  lastStop,     \* stop reason of the last run, "none" while a run goes on
  queue,        \* kinds of the follow-ups that wait in Pi
  job,          \* job -> "running", "ended", "pending" in the hub, "attached" to the
                \* next prompt, "told" to the model
  seen,         \* jobs whose outcome a tool showed to the model
  timer,        \* the hub's batch timer is set
  errorHeld,    \* the hub waits for the end of a provider error
  gate,         \* a self-handoff holds wake-ups and continuations
  goal,         \* status, turns, streak of stalls, notice; and kept: never reactivated
  goalTimer,    \* a continuation waits for its macrotask
  held,         \* the gate holds a continuation
  live,         \* this runtime has kicked the goal, and no interrupt cut it off
  plan,         \* "none" open, "new" to the model, or "shown"
  planTimer,    \* the reminder waits for its macrotask
  reconcile,    \* the run of a reminder is pending
  interrupted,  \* the user interrupted, and no run or user's request came since
  fresh,        \* jobs reported since that interrupt
  used          \* how many of the MaxEvents events happened

pi    == <<run, lastStop, queue>>
hub   == <<job, seen, timer, errorHeld>>
auto  == <<goal, goalTimer, held, live>>
plans == <<plan, planTimer, reconcile>>
user  == <<interrupted, fresh>>
vars  == <<pi, hub, gate, auto, plans, user, used>>

Up == run \in {"idle", "running", "ended"}
Pending == {j \in Jobs : job[j] = "pending"}
NoGoal == [status |-> "none", turns |-> 0, streak |-> 0, notice |-> FALSE, kept |-> TRUE]
NewGoal == [NoGoal EXCEPT !.status = "active"]

\* One of the events that are bounded.
Happens == used < MaxEvents /\ used' = used + 1

Init ==
  /\ run = "off" /\ lastStop = "none" /\ queue = {}
  /\ job = [j \in Jobs |-> "running"] /\ seen = {} /\ timer = FALSE /\ errorHeld = FALSE
  /\ gate = FALSE
  /\ goal = NoGoal /\ goalTimer = FALSE /\ held = FALSE /\ live = FALSE
  /\ plan = "none" /\ planTimer = FALSE /\ reconcile = FALSE
  /\ interrupted = FALSE /\ fresh = {}
  /\ used = 0

\* session_start of all three: the goal and the plan are those of the session file.
SessionStart ==
  /\ run = "off" /\ run' = "idle"
  /\ goal' \in {NoGoal, NewGoal}
  /\ plan' \in {"none", "new"}
  /\ UNCHANGED <<lastStop, queue, hub, gate, goalTimer, held, live, planTimer, reconcile, user, used>>

\* session_shutdown, also the replacement of the session by a handoff: timers are
\* cleared and the hub is deleted; the records of the jobs stay.
SessionShutdown ==
  /\ Up /\ run' = "over" /\ queue' = {}
  /\ timer' = FALSE /\ goalTimer' = FALSE /\ planTimer' = FALSE
  /\ gate' = FALSE /\ held' = FALSE
  /\ UNCHANGED <<lastStop, job, seen, errorHeld, goal, live, plan, reconcile, user, used>>

-----------------------------------------------------------------------------
\* Runs start and are fed.

\* agent_start: the reason why the last run stopped is forgotten.
Starts == run' = "running" /\ lastStop' = "none" /\ queue' = {}

\* sendMessage with triggerTurn and deliverAs followUp.
Triggers(kind) ==
  \/ run = "idle" /\ Starts
  \/ run # "idle" /\ queue' = queue \union {kind} /\ UNCHANGED <<run, lastStop>>

\* before_agent_start: outcomes attached to the prompt go to the model with it, and so
\* do the open items it has not seen.
Prompt ==
  /\ run = "idle" /\ Happens /\ Starts
  /\ job' = [j \in Jobs |-> IF job[j] = "attached" THEN "told" ELSE job[j]]
  /\ plan' = IF plan = "new" THEN "shown" ELSE plan
  /\ interrupted' = FALSE /\ fresh' = {}
  /\ UNCHANGED <<seen, timer, errorHeld, gate, auto, planTimer, reconcile>>

\* Pi feeds queued messages to the run, retries after a provider error, and continues
\* an ended run with what was queued.
TakeFollowUps ==
  /\ run = "running" /\ queue # {} /\ queue' = {}
  /\ UNCHANGED <<run, lastStop, hub, gate, auto, plans, user, used>>

Retry ==
  /\ run = "ended" /\ lastStop = "error"
  /\ run' = "running" /\ lastStop' = "none"
  /\ UNCHANGED <<queue, hub, gate, auto, plans, user, used>>

Continue ==
  /\ run = "ended" /\ queue # {} /\ Starts
  /\ UNCHANGED <<hub, gate, auto, plans, user, used>>

-----------------------------------------------------------------------------
\* Background jobs.

\* The outcome is in the job's store, and later reported to the hub.
JobEnds(j) ==
  /\ Up /\ job[j] = "running" /\ job' = [job EXCEPT ![j] = "ended"]
  /\ UNCHANGED <<pi, seen, timer, errorHeld, gate, auto, plans, user, used>>

Scheduled(pending) == timer \/ (~gate /\ ~errorHeld /\ pending # {})

\* notify, schedule.
Notify(j) ==
  /\ Up /\ job[j] = "ended" /\ job' = [job EXCEPT ![j] = "pending"]
  /\ timer' = Scheduled(Pending \union {j})
  /\ fresh' = IF interrupted THEN fresh \union {j} ELSE fresh
  /\ UNCHANGED <<pi, seen, errorHeld, gate, auto, plans, interrupted, used>>

\* markJobObserved: wait_for_jobs or a status tool shows the outcome.
Observe(j) ==
  /\ run = "running" /\ job[j] # "running" /\ seen' = seen \union {j}
  /\ UNCHANGED <<pi, job, timer, errorHeld, gate, auto, plans, user, used>>

\* take: what is pending leaves the hub, and what the model saw is dropped.
Take(how) == job' = [j \in Jobs |-> IF j \in Pending \ seen THEN how
                                    ELSE IF j \in Pending THEN "told" ELSE job[j]]

\* flushIdle.  While a run goes on it only sets the timer again.
FlushIdle ==
  /\ timer /\ timer' = FALSE
  /\ \/ /\ gate \/ errorHeld \/ Pending = {}
        /\ UNCHANGED <<pi, job>>
     \/ /\ ~gate /\ ~errorHeld /\ Pending # {} /\ run = "idle"
        /\ Take("told")
        /\ IF Pending \subseteq seen THEN UNCHANGED pi ELSE Triggers("wake")
  /\ UNCHANGED <<seen, errorHeld, gate, auto, plans, user, used>>

-----------------------------------------------------------------------------
\* The end of a run: agent_end of the hub, the goal and the plan.

\* agent_end of job-wake.ts: a provider error is waited for, an interrupt is never
\* overridden, and otherwise the pending outcomes follow the run.
HubEnds(stop, left) ==
  /\ errorHeld' = (stop = "error")
  /\ \/ /\ stop = "error" \/ Pending = {}
        /\ queue' = left /\ UNCHANGED <<job, timer>>
     \/ /\ stop = "aborted" /\ Pending # {}
        /\ timer' = FALSE /\ Take("attached") /\ queue' = left
     \/ /\ stop \notin {"error", "aborted"} /\ Pending # {}
        /\ timer' = FALSE
        /\ IF gate THEN queue' = left /\ UNCHANGED job
           ELSE /\ Take("told")
                /\ queue' = IF Pending \subseteq seen THEN left ELSE left \union {"wake"}

\* Turns far beyond the budget, and stalls beyond MaxStalls, are not told apart.
Counted(n) == IF n > MaxTurns + MaxStalls THEN n ELSE n + 1
Stalled(n) == IF n > MaxStalls THEN n ELSE n + 1

GoalUntouched == goal.status # "active" /\ UNCHANGED auto

GoalInterrupted(stop) ==
  /\ goal.status = "active" /\ stop = "aborted"
  /\ goal' = [goal EXCEPT !.status = "paused"]
  /\ UNCHANGED <<goalTimer, held, live>>

\* An empty or summary-only turn: a nudge, and after MaxStalls of them the goal is blocked.
GoalStalls(stop) ==
  /\ goal.status = "active" /\ stop # "aborted"
  /\ LET streak == Stalled(goal.streak)
         stuck == streak > MaxStalls
     IN /\ goal' = [goal EXCEPT !.turns = Counted(@), !.streak = streak,
                                !.status = IF stuck THEN "blocked" ELSE "active"]
        /\ goalTimer' = ~stuck /\ live' = ~stuck
  /\ UNCHANGED held

\* A turn that did something: the next one, or the notice that the budget is spent.
GoalWorks(stop) ==
  /\ goal.status = "active" /\ stop # "aborted"
  /\ LET turns == Counted(goal.turns)
         spent == turns >= MaxTurns
     IN /\ goal' = [goal EXCEPT !.turns = turns, !.streak = 0,
                                !.status = IF spent /\ ~goal.notice THEN "budget_limited" ELSE @,
                                !.notice = @ \/ spent]
        /\ goalTimer' = ~(spent /\ goal.notice)
        /\ live' = (live \/ goalTimer')
  /\ UNCHANGED held

RunEnds(stop) ==
  /\ run = "running" /\ run' = "ended" /\ lastStop' = stop
  /\ ~goalTimer /\ ~planTimer
  /\ stop \in {"stop", "toolUse"} => queue = {}
  /\ IF stop = "error" THEN Happens ELSE UNCHANGED used
  /\ HubEnds(stop, IF stop = "aborted" THEN {} ELSE queue)
  /\ GoalUntouched \/ GoalInterrupted(stop) \/ GoalStalls(stop) \/ GoalWorks(stop)
  /\ interrupted' = (stop = "aborted")
  /\ fresh' = IF stop = "aborted" THEN {} ELSE fresh
  /\ UNCHANGED <<seen, gate, plans>>

-----------------------------------------------------------------------------
\* agent_settled of the hub and the plan.

\* Mutant of HubSettles: the outcomes held during an error start a turn.
HubSettlesAwake ==
  /\ errorHeld' = FALSE
  /\ timer' = (timer \/ (~gate /\ Pending # {}))
  /\ UNCHANGED job

\* After an error for good, or an interrupted retry, outcomes wait for the next prompt.
HubSettles ==
  /\ errorHeld' = FALSE
  /\ IF errorHeld THEN Take("attached") /\ UNCHANGED timer
                  ELSE timer' = Scheduled(Pending) /\ UNCHANGED job

\* Mutant of PlanSettles: a reminder may follow the run of a reminder.
PlanSettlesAgain ==
  /\ reconcile' = FALSE /\ UNCHANGED plan
  /\ planTimer' = (planTimer \/ lastStop = "stop")

PlanSettles ==
  /\ reconcile' = FALSE
  /\ plan' = IF reconcile /\ plan = "new" THEN "shown" ELSE plan
  /\ planTimer' = (planTimer \/ (~reconcile /\ lastStop = "stop"))

RunSettles ==
  /\ run = "ended" /\ queue = {} /\ run' = "idle"
  /\ HubSettles /\ PlanSettles
  /\ UNCHANGED <<lastStop, queue, seen, gate, auto, user, used>>

\* The user interrupts Pi while it waits to retry: no agent_end tells of it.
InterruptRetry ==
  /\ run = "ended" /\ lastStop = "error" /\ ~goalTimer
  /\ run' = "idle" /\ queue' = {}
  /\ HubSettles /\ PlanSettles
  /\ live' = FALSE /\ interrupted' = TRUE /\ fresh' = {}
  /\ UNCHANGED <<lastStop, seen, gate, goal, goalTimer, held, used>>

\* The timers of queueGoalPrompt and of agent_settled in work-plan/index.ts.
GoalTimer ==
  /\ goalTimer /\ goalTimer' = FALSE
  /\ IF gate THEN held' = TRUE /\ UNCHANGED pi ELSE Triggers("goal") /\ UNCHANGED held
  /\ UNCHANGED <<hub, gate, goal, live, plans, user, used>>

PlanTimer ==
  /\ planTimer /\ planTimer' = FALSE
  /\ IF run = "idle" /\ goal.status # "active" /\ plan = "new"
     THEN plan' = "shown" /\ reconcile' = TRUE /\ Starts
     ELSE UNCHANGED <<pi, plan, reconcile>>
  /\ UNCHANGED <<hub, gate, auto, user, used>>

-----------------------------------------------------------------------------
\* The gate of /self-handoff, the commands of the user, the tools of the model.

GateOpens ==
  /\ Up /\ ~gate /\ Happens
  /\ gate' = TRUE /\ timer' = FALSE
  /\ UNCHANGED <<pi, job, seen, errorHeld, auto, plans, user>>

\* Mutants of GateCloses: the outcomes, or the continuation, that were held are forgotten.
GateClosesQuietly ==
  /\ Up /\ gate /\ gate' = FALSE /\ held' = FALSE
  /\ IF held THEN Triggers("goal") ELSE UNCHANGED pi
  /\ UNCHANGED <<job, seen, timer, errorHeld, goal, goalTimer, live, plans, user, used>>

GateClosesDropping ==
  /\ Up /\ gate /\ gate' = FALSE /\ held' = FALSE
  /\ timer' = (timer \/ (~errorHeld /\ Pending # {}))
  /\ UNCHANGED <<pi, job, seen, errorHeld, goal, goalTimer, live, plans, user, used>>

\* SELF_HANDOFF_ROLLBACK_EVENT: the held continuation is sent, the timer set again.
GateCloses ==
  /\ Up /\ gate /\ gate' = FALSE /\ held' = FALSE
  /\ timer' = (timer \/ (~errorHeld /\ Pending # {}))
  /\ IF held THEN Triggers("goal") ELSE UNCHANGED pi
  /\ UNCHANGED <<job, seen, errorHeld, goal, goalTimer, live, plans, user, used>>

\* /goal <objective> and /goal resume.
Kick(g) ==
  /\ Up /\ Happens /\ goal' = g
  /\ goalTimer' = TRUE /\ live' = TRUE
  /\ interrupted' = FALSE /\ fresh' = {}
  /\ UNCHANGED <<pi, hub, gate, held, plans>>

GoalCommand ==
  \/ Kick(NewGoal)
  \/ goal.status # "none" /\ Kick([goal EXCEPT !.status = "active", !.notice = FALSE, !.kept = FALSE])

\* /goal pause and /goal clear.
GoalStops ==
  /\ Up /\ goal.status # "none"
  /\ goal' \in {NoGoal, [goal EXCEPT !.status = "paused"]}
  /\ UNCHANGED <<pi, hub, gate, goalTimer, held, live, plans, user, used>>

\* start_goal and update_goal.
StartGoal ==
  /\ run = "running" /\ goal.status \notin {"active", "paused"} /\ Happens
  /\ goal' = NewGoal
  /\ UNCHANGED <<pi, hub, gate, goalTimer, held, live, plans, user>>

UpdateGoal(status) ==
  /\ run = "running" /\ goal.status \notin {"none", status}
  /\ IF status = "active" THEN Happens ELSE UNCHANGED used
  /\ goal' = [goal EXCEPT !.status = status, !.kept = @ /\ status # "active"]
  /\ UNCHANGED <<pi, hub, gate, goalTimer, held, live, plans, user>>

\* work_plan and /plan clear.
PlanTool ==
  /\ run = "running" /\ plan' \in {"none", "new"} \ {plan}
  /\ UNCHANGED <<pi, hub, gate, auto, planTimer, reconcile, user, used>>

PlanClear ==
  /\ Up /\ plan # "none" /\ plan' = "none"
  /\ UNCHANGED <<pi, hub, gate, auto, planTimer, reconcile, user, used>>

Next ==
  \/ SessionStart \/ SessionShutdown \/ Prompt
  \/ TakeFollowUps \/ Retry \/ Continue
  \/ \E j \in Jobs : JobEnds(j) \/ Notify(j) \/ Observe(j)
  \/ FlushIdle \/ GoalTimer \/ PlanTimer
  \/ \E stop \in {"stop", "toolUse", "aborted", "error"} : RunEnds(stop)
  \/ RunSettles \/ InterruptRetry
  \/ GateOpens \/ GateCloses
  \/ GoalCommand \/ GoalStops \/ StartGoal
  \/ \E status \in {"active", "complete", "blocked", "paused"} : UpdateGoal(status)
  \/ PlanTool \/ PlanClear

Spec == Init /\ [][Next]_vars

\* Timers fire, runs end and settle, Pi consumes what is queued, jobs report, and the
\* user ends the dialog of a handoff.
Fairness ==
  /\ WF_vars(FlushIdle) /\ WF_vars(GoalTimer) /\ WF_vars(PlanTimer)
  /\ WF_vars(TakeFollowUps) /\ WF_vars(RunEnds("stop")) /\ WF_vars(RunSettles)
  /\ WF_vars(Continue \/ Retry) /\ WF_vars(GateCloses)
  /\ \A j \in Jobs : WF_vars(Notify(j))

FairSpec == Spec /\ Fairness

-----------------------------------------------------------------------------
\* The values the variables take.
TypeOK ==
  /\ run \in {"off", "idle", "running", "ended", "over"}
  /\ lastStop \in {"none", "stop", "toolUse", "aborted", "error"}
  /\ queue \subseteq {"goal", "wake"} /\ (run = "idle" => queue = {})
  /\ job \in [Jobs -> {"running", "ended", "pending", "attached", "told"}] /\ seen \subseteq Jobs
  /\ {timer, errorHeld, gate, goalTimer, held, live, planTimer, reconcile, interrupted} \subseteq BOOLEAN
  /\ goal.status \in {"none", "active", "paused", "blocked", "complete", "budget_limited"}
  /\ goal.turns \in 0 .. MaxTurns + MaxStalls + 1 /\ goal.streak \in 0 .. MaxStalls + 1
  /\ plan \in {"none", "new", "shown"} /\ fresh \subseteq Jobs

\* agent_end, queueGoalPrompt and the gate in goal/index.ts: while the autopilot is on and
\* the session idles, one continuation is on its way; none is lost to a gate or a wake-up.
AutopilotAlive ==
  run = "idle" /\ goal.status = "active" /\ live /\ ~goal.notice => goalTimer \/ held

\* agent_end in goal/index.ts: nudges for stalled turns come before the test of the
\* budget, but carry a goal that nobody reactivates at most MaxStalls turns past it.
OverrunBounded == goal.kept => goal.turns <= MaxTurns + MaxStalls

\* goal/index.ts: an active goal goes on, and not for ever: see the two parts above.
GoalCarriedOn == AutopilotAlive /\ OverrunBounded

\* agent_end and agent_settled of job-wake, goal and work-plan: after an interrupt the
\* session starts no run by itself, but for an outcome that was reported later and for
\* the continuation that a gate held and now releases.
InterruptHolds ==
  [][run = "idle" /\ run' = "running" /\ interrupted /\ interrupted'
       => \/ held /\ ~held'
          \/ \E j \in fresh : job[j] = "pending" /\ job'[j] = "told"]_vars

\* job-wake.ts: an outcome reported to the hub reaches the model, or waits for the next
\* prompt, or the session ends.
OutcomesTold ==
  \A j \in Jobs : (Up /\ job[j] = "pending") ~> (job[j] \in {"attached", "told"} \/ run = "over")

\* goal, work-plan and job-wake: nudges, continuations, reminders and wake-ups do not feed
\* one another for ever: without the user the session comes to rest.
ComesToRest == <>[](run \in {"off", "idle", "over"})
=============================================================================
