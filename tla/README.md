# TLA+ models of pi-shared

pi-shared is a collection of extensions for the Pi coding agent. A host runs
many Pi processes at once (interactive sessions, delegated children, background
jobs); what they share lives in JSON files under `~/.pi/agent`, and what a
single session does is driven by events (`agent_start`, `message_end`,
`agent_settled`, timers, aborts). This directory holds TLA+ models of the parts
where order, failure and concurrency decide whether the code is right, the TLC
configurations that check them, and proofs that TLAPS checks.

Paths below are relative to the repository root, or to `extensions/` where they
begin with an extension's name. `PROJECT.json` maps every definition to the lines
it models and lists the runs, mutants, hazards and theorems.

## The system

| Component | State it keeps | What is hard | What makes it correct |
|---|---|---|---|
| **Interprocess lock** `_shared/file-lock.ts` | a lock directory with owner markers | every file system call interleaves with other processes; crashes; late reclaimers | exclusion, a live marker is never removed, an abandoned lock is reclaimed |
| **Subagent scheduler** `_shared/subagent-scheduler.ts`, `subagent-config.ts` | `scheduler.json`: waiters, leases, limits | leases that expire under a live run, clocks sampled before the lock, starvation | host-wide cap, admission within limits, no starvation |
| **Background jobs** `_shared/job-store.ts`, `spawn-subagent/index.ts` | `jobs.json`, the owner's memory, questions | stale writers, cancel racing completion, owner death, double answers | ends are final, cancellations stick, capacity |
| **Command jobs** `_shared/command-job-store.ts`, `command-job-runner.ts`, `managed-process.ts` | store of records, process groups | heartbeat racing completion and cancellation, owner death, capacity with lost owners | ends are final and true, capacity, cancellations end |
| **Peer messages** `_shared/coordinator-state.ts`, `session-coordinator/` | inboxes, receipts, statuses, reply and wake ledgers | at-least-once delivery, crash between receipt and transcript, statuses out of order | one reply, one wake, monotone and true statuses, nothing lost |
| **Turns of a session** `_shared/job-wake.ts`, `goal/`, `work-plan/` | pending outcomes, goal with turns and stalls, reminder, gate | four sources start turns; aborts, errors, retries and handoffs fall between them | nothing resumes after an interrupt, outcomes are told once, the autopilot goes on and comes to rest |
| **Work plan** `work-plan/index.ts` | items, active item, clock | long sequences of legal calls | what a session leaves, a handoff accepts |
| **Self-handoff** `self-handoff/`, `_shared/handoff-state.ts`, `goal/` | entries in two session files, a lock file | two files written by two processes, crash between them, stale readers, navigation | one session holds and works for a goal; a transfer ends |
| **Child agents** `_shared/pi-agent-runner.ts`, `managed-process.ts`, `process-group-ledger.ts` | one process, its groups, its protocol | exit racing kill, settlement racing output, answers waiting for slots | a result tells the truth about the child; calls return |
| **Delegated calls** `spawn-subagent/index.ts`, `_shared/agents.ts` | dialogs, tasks, one execution group | files that change under an open dialog, cancellation in every phase | nothing runs that was not asked for; nothing outlives the call |
| **Worktrees** `_shared/subagent-worktree.ts` | a git worktree, an inventory | one git command after another over a tree that was changed in any way | nothing is overlooked or lost |
| **Workflow** `workflow/` | script run, journal, promise tracker | promises left behind, overlapping runs, crash | no step is lost from the journal, a completed run failed nowhere |
| **Tools with their own protocol**: `wait-for/`, `tool-summary/`, `code-intel/`, `_shared/mcp-client.ts`, `deep-research/`, `pi-browser-capture/`, `safe-edit/`, `integration-bundles/`, `_shared/structured-output.ts` | see below | timeouts racing answers, files and tabs that change by themselves, caches that go stale | see below |
| **Live variants** `skills/impeccable/scripts/live-*` | page storage, server queue, markup | reloads, lost and overtaking posts, late replies | a session becomes what the user chose for it |

They interact as follows. Every shared file is changed only inside
`withInterprocessLock`; the scheduler, both job stores, the coordinator's
ledgers and the workflow journal rest on it. `spawn-subagent` and `workflow` run children through the
scheduler, persist background jobs in the job store and announce their end
through the wake hub. The wake hub, the goal and the work plan compete for
starting the session's next turn, and self-handoff holds the first two back through a
gate while it moves a session's goal to a child session.

## Modules

| Module | Models |
|---|---|
| `ExclusiveLock`, `InterprocessLock` | what callers of the lock rely on; the protocol, file system call by file system call |
| `SubagentScheduler` | `subagent-scheduler.ts` with the merge of configurations of `subagent-config.ts` |
| `BackgroundJobs` | `job-store.ts` and the jobs of `spawn-subagent/index.ts` |
| `PeerMessages` | `coordinator-state.ts` and `session-coordinator/index.ts` |
| `CommandJobs` | `command-job-runner.ts`, `command-job-store.ts`, the teardown of `managed-process.ts` |
| `GoalOwnership`, `SelfHandoff` | what `/self-handoff` promises of a goal; the command, both session files and the handoff lock |
| `Session` | `job-wake.ts`, the autopilot of `goal/index.ts`, the reminder of `work-plan/index.ts`, the gate |
| `WorkPlan` | the `work_plan` tool and what `handoff-state.ts` accepts of a plan |
| `AgentRun` | `pi-agent-runner.ts` with `managed-process.ts` and the ledger of process groups |
| `Delegation`, `ChildProfile`, `Worktree`, `StructuredOutput` | a foreground `spawn_subagent` call; the model and profile of its child; an isolated child's worktree; the validation of what it returns |
| `Workflow` | scripts, their agent calls, the journal |
| `ToolSummary`, `WaitFor`, `CodeIntel`, `McpCall`, `Research`, `SafeEdit` | one tool each |
| `Reduction` | `policy.ts` and `recall.ts` of `tool-summary`: the text of a summary, and what recall returns |
| `Browser`, `AppTest` | the persistent browsers and the test contexts of `pi-browser-capture` |
| `Bundles` | the router of `integration-bundles` |
| `LiveVariants` | page, server and agent of the live variant mode |
| `InterprocessLockProofs`, `SubagentSchedulerProofs`, `PeerMessagesProofs`, `CommandJobsProofs`, `BackgroundJobsProofs` | the proofs about the module they are named after |
| `SelfHandoffProofs` | the invariant of the handoff, and the refinement of `GoalOwnership` |
| `ExtensionsProofs` | `Session`, `WorkPlan`, `AgentRun`, `CodeIntel` and `McpCall`, each alone, and from them the invariants of `MCExtensions` |
| `ToolsProofs` | the tools and delegated calls, one section for each module |
| `MC...` | instances for TLC; `MCExtensions`, `MCTools` and `MCLiveness` put several modules into one run |

`InterprocessLock` is the foundation. The other modules take a locked
read-modify-write as one atomic step, which is what `ImplementsExclusiveLock`
licenses, and put the interleavings where the code has them: between the
request of a mutation, the moment it takes effect and the moment its caller
hears of it, and between two mutations of one procedure.

### Interprocess lock

State: `dir` (the inode the lock path names, or none), `files` (the names in
it), `old` (its mtime is older than `staleMs`); for every call of
`withInterprocessLock` where it stands (`pc`), the marker name it drew, the inode
it holds open, the names it has read as a reclaimer and the one it is about to
unlink; the processes (`up`, `crashes`). One action per file system call:

* `Mkdir`, `MkdirExists`, `Open`, `Publish`, `Verify`, `List`, `Close`:
  `tryAcquireLock`;
* `Enter`, `Leave`: the critical section; `UnlinkOwn`, `RmdirOwn`: the release,
  and the cleanup of an attempt that lost;
* `Inspect`, `ReadDir`, `Examine`, `Reap`, `RmdirStale`: `breakStaleLock`;
  `TimedOut`, `Retry`: the loop around it;
* `Call`, `Abort`, `Age`, `Crash`, `Restart`: callers, signals, the clock, deaths
  and pids that are used again.

A directory that appears between two calls of a client may be the old one or a
new one with the same path; that is why inodes are values of their own.

### Subagent scheduler

State: the file (`limit`, `poolLimit`, `waiters`, `leases`, the age `beat` of each
waiter's heartbeat and the remaining life `ttl` of each lease), and for every run
its place in `run` and `acquire` (`pc`) and the age `lag` of the clock it sampled
before it waited for the lock. `Sample` reads the clock, `TryAdmit` is the mutation
that prunes, reconciles the limits, sorts the waiters and hands out slots;
`RemoveWaiter` and `Release` are its other ends, `Heartbeat` refreshes,
`Tick` is time, `Abort` the caller's signal, `Crash` the death of a process with
all its runs. The selection (`HandedOut`) is defined by what the loop computes: a
set of waiters in rank order that fits the free slots and pools; the run checks it
against a step by step definition of the loop (`LoopHandsOut`). What an unreadable or
hand-edited file may hold is named by `LoadedConfig`.

### Background jobs

State: `stored` (the records of `jobs.json`), `mem` (the owners' entries), `ops`
(mutations that were requested and wait for the lock), `reply` (the result that has
landed and was not delivered), `saving` (the save queue), the children with
their questions, and the leases. `Create`, `CancelCall`, `AnswerCall`, `Status`, `Beat`,
`SaveNext` are tool calls, timers and the save queue; `Land` is the mutation under
the lock (merge by revision, terminal states kept, pruning, capacity, claims of
answers); `Deliver` hands its result to the process. `Ask`, `Exit`, `End` are the
child's, `Expire` and `Crash` make an owner look or be dead. Which of the mutations waiting
for the lock lands next is open: the lock is not fair. `Past` is a set of job sets that
are over before the behaviour begins, so that one run checks several mixes.

### Peer messages

State: per message where it is (`box` for the inbox of a given runtime,
`receipt`, `disk` for a card in the session file, `expired`), its `status` at the
sender, the reply claims (`attempted`, `answered`), the wakes (`woken`), the
number of cards; per session its runtime (`run`, `inc`), whether a turn is
running, what is steered but not yet read, and the procedures `peer_send`
(`send`) and `processInbox` (`work`) that may be suspended at any of their awaits.
`Compose` ... `Confirm` are `peer_send`; `Poll`, `Take`, `Mark`, `Unbox`, `Show` or
`Steer`, `Surface`, `ClaimWake`, `SendWake`, `Clean` are one pass over the inbox;
`Consume`, `ClaimSeen`, `Settle`, `Start`, `Close`, `Crash` are the event handlers.

### Command jobs

State: the owner's record and the stored record of each job, its chain of
publications, the process group (leader, child, timers, teardown) and the
owners. `Reserve`, `Spawn`, `Undo` are `start`; `Publish` is the chain
(wait for the lock, land, return); `Command` is the command (fork, exit, time
out); `Finish` the teardown and the final record; `Cancel` any session's
cancellation; `Expire` an owner that looks dead; `Close`, `Shutdown`, `Crash` the
ends of an owner.

### Self-handoff

`GoalOwnership` is the promise: one `holder`, an `offer` to one session or none, and the
sessions `working` for the goal, of which only the holder may be one and only while
nothing is on offer. `SelfHandoff` is how it is kept. A session is a file of
entries (`file` is what its last branch says) and a runtime that read it when it was opened
(`mem`); of a branch only the goal's status and the latest attempt matter. The
audit of an attempt is spread over the origin's file (`audit`, and `known` as the origin's
runtime has it) and the child's (`child`). `CommandStep` is the command:
`Begin`, `Idle`, `Cancel`, `Prepare`, `Move`, `Switch`, `Bind`, `Kickoff`, each with its failure
(`MoveFails`, `VerifyFails`, ...), and the rollback (`UndoGoal`, `UndoAudit`);
`ChildStep` the child's orientation (`Oriented`, `Release`, `Retry`) and the end of the
transfer under the lock (`FinLock`, `FinGoal`, `FinAudit`); `SessionStep` opening, crashing,
turns, `/goal` and its reclaim (`ReclaimLock`, `ReclaimAudit`, `ReclaimGoal`), `/tree`
(`Navigate`) and the removal of a stale lock file by the user. The refinement maps `holder`,
`offer` and `working` to what the audits, the branches and the open runtimes say.

### Session

State: Pi (`run`, `lastStop`, `queue`), the hub (`job`, `seen`, `timer`,
`errorHeld`), the `gate`, the goal (`goal`, `goalTimer`, `held`, `live`) and the plan
(`plan`, `planTimer`, `reconcile`). `SessionStart`, `Prompt`, `RunEnds`, `RunSettles`,
`SessionShutdown` are the event handlers of all extensions in the order of their
registration; `FlushIdle`, `GoalTimer`, `PlanTimer` their timers; `GoalCommand`, `StartGoal`,
`UpdateGoal`, `PlanTool` commands and tools; `JobEnds`, `Notify`, `Observe` the jobs.
What is assumed of Pi: Escape clears its queue; a message that triggers a turn is queued
while a run goes on and consumed before it ends; timers of 0 ms fire before a model
answers; `before_agent_start` comes with a user's prompt only. A queue is a set of kinds.

### Work plan, workflow, child agents, delegated calls

* `WorkPlan`: one disjunct of `Tool` per operation (`Set`, `Add`, `Update`, ...), `Restore`
  reads the plan back, `AgentStart` and `AgentEnd` run the clock. `stale` records that the
  pointer was left at an item that is to do, which the code allows (see *Findings*).
* `Workflow`: `run`, the calls of each, the `journal` and what each run would replay
  (`entries`). `AgentCall`, `CallStarts`, `CallSucceeds`, `CallFails` with `Persist` under the
  journal's lock, `ScriptEnds`, `Return`, `Abort`, `Crash`.
* `AgentRun`: the caller (`call`, `exchange`, `asked`, `note`), the managed process (`proc`,
  `reason`, `teardown`, `semantic`, `held`), the operating system (`exit`, `alive`), the child
  (`child`, `inp`, `out`) and the parser (`settled`, `watch`, `broken`, `text`). `Read...` are the
  lines the parent reads, `Timeout`, `GraceElapses`, `Escalate`, `Force`, `Finalize` the
  timers and the settlement. The child is any program.
* `Delegation`: `Trust`, `Agents`, `Profile`, `Limits` are the checks and dialogs, during which
  `EditAgents` may change the repository's agents; `Begin`, `SetUp`, `Dequeue`, `Finish` a
  task; `Return` the answer. `ChildProfile`: `ResolveDir` and `ResolveModel` read the logins
  one after the other. `Worktree`: `Read` is one git command of the inventory after another,
  `Edit` any use of files and git by the child. `StructuredOutput`: the validator's algorithm
  against the meaning of the keywords, over bounded schemas and values.

### Tools

* `ToolSummary`: what each provider call is given for an oversized result (`sent`), against the
  branch's entries from which a reload restores it. `Context`, `MessageEnd`, `JobEnds`,
  `Navigate`, `Reset`.
* `Reduction`: one result from the policy to the stored text and its recall, in the code's own
  numbers of characters. A text is a sequence of lines with their lengths, of which some are required
  evidence and some have spots that `PRIORITY_MATCH` finds; `CanPreserve`, `Fragments`, `Shown`
  and `Reduce` are the functions of `policy.ts`, `Slice` and `Search` those of `recall.ts`. What
  a text looks like (JSON, a log) is given; one number stands for the characters around a
  summary's body and around a recalled text.
* `WaitFor`: `CheckJobs` per poll, `Evaluated` for conditions, `TimesOut`, `Aborts`; `observed`
  is what `markJobObserved` tells the wake hub.
* `CodeIntel`: snapshots file by file (`before`, `after`), one server per query, one pending
  request. `McpCall`: endpoints in order under one deadline. `Research`: rounds of searches
  and fetches on bounded lanes.
* `Browser`: tabs, the active index, a queue of operations split at their awaits; `AppTest`:
  contexts with directory, browser and trace, closed by calls, timers, aborts and the end.
* `Bundles`: `Refreshed`, `Applied`, `Evict`, `LoadBundles` are the router's functions; users,
  extensions and Pi change the active set between handlers. `loadedAt` is kept as the order `older` of the
  loaded bundles; a prompt matches the triggers of any bundles.
* `SafeEdit`: the previews are a set, which their ids order as the code's map does; `AskPreview` ...
  `Rename` are the awaits of a preview and an application; `OutsideWrite` and `OutsideTurn` are
  other programs.
* `LiveVariants`: the page's state, its storage and its `timers`, `posts` and the server's queue,
  the agent and the source; `TogglePick` and `ExitButton` are the bar's own buttons, `Deserted` is
  the server's grace for a page that does not come back, `Mutation` is what the page sees of the source,
  `Reload` may come at any time.

## Runs

Every run is checked exhaustively. Parts that do not interact share a run: a behaviour of
`extensions`, `tools` or `liveness` is one of one part, and a variable `part` says of which; the
properties of such a run are those of its parts, the invariants named `Sound` in
`ToolsSound` among them.

| Run | Instance | Shows |
|---|---|---|
| `lock` | two calls of two processes, two inodes, three marker names per process, a leftover `owner.json` and an unknown file, two deaths | exclusion; a live marker and its directory stay; nothing is left behind; every step is a step of `ExclusiveLock`; an abandoned directory is reclaimed |
| `scheduler` | two foreground runs and one background run on two processes with different limits, one pool, failures and aborts anywhere | the host-wide cap; the selection equals the loop; every admission fits both the stored and the admitter's limits |
| `liveness` | either one run of each priority, one of them abortable, aging after two ticks; or one handoff, two crashes, one failed append | nothing is held after the end and every request is served or given up; a transfer whose child exists ends, and the goal gets to work in the child (`TransferEnds`) |
| `background_jobs` | a one-shot job, two processes, two concurrent mutations per process, one failed write, leases that expire under a live owner | an end is final, a cancellation is never forgotten, every job ends |
| `background_jobs_mixed` | either an interactive job with a question and two processes, or two jobs of two processes for one slot (`BackgroundJobsMixes.cfg`) | the recorded end is the child's end; the capacity holds |
| `background_jobs_owner` | a one-shot job, no failure at all | a counterexample, see *Findings* |
| `peer_messages` | a request and two attempts to answer it, the answering session restarts once, one crash or failed write anywhere, one turn of the user | nothing lost, one reply, nothing starts two turns or is shown twice, true and monotone statuses, no wake for a reply that was read in a run |
| `peer_messages_live` | a request and a reply that may expire | a published message is shown; a request that was seen gets its turn or an answer |
| `command_jobs` | a forking command with a timeout and a cancellation under an owner that may close or crash, a plain command of another owner, an earlier record, capacity one, two records kept | capacity, truthful ends, final ends, cancelled commands end |
| `handoff` | two handoffs, one crash, one failed append | one session holds the goal and works for it (`ImplementsGoalOwnership`: `SelfHandoff` refines `GoalOwnership`); a parent whose goal already reads transferred has a durable child that can still finish (`StillFinishable`) |
| `extensions` | `Session`, `WorkPlan`, `AgentRun`, `CodeIntel`, `McpCall` | see below |
| `tools` | the parts without fairness | see below |

The properties of `extensions`: `GoalCarriedOn` (while the autopilot is on and the session
idles, one continuation is on its way, and a goal's turns pass the budget by no more than the stalls allow),
`InterruptHolds` (after an interrupt the session starts no run by itself, but for an outcome that
was reported since and the continuation that a gate releases), `OutcomesTold` and `ComesToRest` (liveness:
a reported outcome reaches the model or the next prompt; what starts turns does not feed on itself
for ever), `PlanHandsOver` (whatever calls made the
plan, a handoff accepts it, except for the states named in *Findings*), `RunTruthful` (a completed
run has left no process and, if interactive, has settled; any other end tells of a process that may be left),
`QueriesSound` (an answer was made from the files of the first snapshot, servers are
stopped, an abort wins over a late answer) and `CallsReturn` (every start, answer, note, query and
broker call returns, though the other side may be silent).

The property of `tools` is `ToolsSound`, one conjunct per part, where the module's `Sound` states:
no agent call outlives its run, a completed run had no failed or refused call, and a step reported as
computed stays in the journal (`Workflow`); a model has seen a result exactly before it is given
a summary of it, and a reload restores what the memory had (`ToolSummary`); a summary without a model
has all required evidence and the most important lines, is refused only for its frame, and
recall keeps to its limit and leaves out nothing that fits (`Reduction`); a wait waits for
something that can come, and an update that is dropped was shown (`WaitFor`); the bundle's
status is true and the budget of fetches kept (`Research`); operations act on the tab that was reported active, and one
browser runs, none after the session unless an operation was under way (`Browser`); nothing is left of a closed context (`AppTest`); deselected tools stay out, loads
tell the truth, the cap holds (`Bundles`); decisions become the source, offers are real and
not repeated (`LiveVariants`); a GPT child never has an API key, and both names of the
subscription share one pool (`ChildProfile`); consent before anything runs, no task
crowded out, no child outlives its call, chains in order (`Delegation`); worktrees are never
lost and inventories overlook nothing (`Worktree`); validator and keywords agree
(`StructuredOutput`); a rename replaces what the preview showed, once (`SafeEdit`).

Each module's `TypeOK` was checked with the module alone; in the shared runs it is not
listed again.

### Bounds and why they are enough

* Two calls are enough for the lock: a reclaimer and an acquirer exercise every
  pair of file system calls, and one call alternates between both roles. Three
  marker names suffice because a name is drawn again only when nothing refers
  to it. `MaxCrashes = 2` lets both calls die, or one of them twice; with it a call
  can meet the marker of a process whose pid is in use again.
* The scheduler's ticks are relative and saturate, so that no behaviour is cut
  off. `LeaseTicks = 3` with a heartbeat every tick leaves room for one late
  heartbeat and one late mutation; `LockTicks = 1` is the wait for the lock.
  Three runs are needed for a background run to be overtaken, for a pool
  to block one run and not the other, and for two processes to disagree on the limit.
* `MaxOps` (two for the one-shot job) lets two mutations of one process wait for the lock in either
  order and a reply be outstanding behind both; most races of the job store need two.
  One failed write is enough to make a save be retried.
* `MaxTurns = 1` and `MaxFailures = 1` in `peer_messages` bound the user's own
  turns and the crashes and failed writes; turns started by messages are not bounded.
  `MaxTurns = 2` was checked once as well (8.6 million states) and shows nothing new.
* `CommandJobs` needs one command that can do everything and one competitor; the
  earlier record makes pruning happen.
* `SelfHandoff`: two attempts give a handoff after a handoff and one after a reclaim or a
  rollback. `MaxCrashes` counts ends of sessions too. `Navigate` starts from a session whose
  goal was handed off, which is where it matters. `ClearsTransferred = FALSE` keeps users from
  clearing a goal that reads transferred while another attempt can be made; see *Findings*.
* `Session`: `MaxTurns = 1` and `MaxStalls = 1` reach both limits; they saturate.
  `MaxEvents = 2` bounds prompts, new goals, errors and gates together; one job.
* `WorkPlan`: three items, of which `set` gives two (`MaxGiven`) and `add` the third.
* `AgentRun`: one question, three lines of the child, one unread, one note. `CodeIntel`: two
  files, one edit each. `McpCall`: two endpoints.
* `LiveVariants`: two sessions of two variants. Reloads, lost connections, failures and the rare steps
  (the toggle, the exit button, a wrapper that arrives in parts) count against `MaxFaults = 1`; that the
  bound hides nothing is proved. `Bundles`: three bundles that share and defer tools, two models,
  two changes by others. `Delegation`: three tasks with a fanout of two. `Worktree`: two files, one tracked and one not,
  four edits. `StructuredOutput`: two errors, depth two, five nodes instead of 20, 24 and 2048. `SafeEdit`: one preview kept
  instead of eight, three calls, two outside changes, three inodes for two files. `Browser`: three tabs ever,
  one waiting call. `AppTest`: three contexts, two at once. `ToolSummary`: one result, five entries,
  one reset. `Reduction`: 943 results of up to four lines, among them lines whose lengths are
  next to the budget of evidence (2890 and 2891 characters), to that of a recalled
  range (5480 to 5482) and to a fragment's; thresholds and the limit of recall are smaller than
  the code's, the budget of a summary is its own. `WaitFor`: two jobs, a clock of one tick. `Research`: one planned query, three sources, two lanes.
  `Workflow`: two runs, two calls each, two keys, fanout one.

### Fairness

* A call of the lock keeps taking its next step and processes keep calling (weak
  fairness); time passes (`Age`).
* `Progress` and `Heartbeat` of the scheduler are the poll loop and its interval
  timer, which run as long as their process lives; `Tick` is strongly fair since the
  instance forbids it only while somebody must act first (`Timely`).
* `Land` and `Deliver` of the job store are the lock, which is obtained in the end
  (`StaleLockReclaimed`, and the retry loop of `acquireLock`), and the promise that
  resolves. Since the lock is not fair, a particular write needs strong fairness;
  so do the save queue and the end of a child, which are disabled again and again by
  work in progress. A child exits in the end: it has a timeout.
* `Poll` is the coordinator's interval timer, `WorkStep` and `SendStep` procedures
  whose awaits return, `Settle` a run that ends, `Flush` the session file that is
  written, `ClaimSeen` a handler.
* Commands need not end by themselves. Only the runner's own steps are fair.
* `SelfHandoff`: processes go on with what they began, and a run ends. The rest is up to
  people: sessions are opened again, an orientation is answered or submitted again, a
  stale lock file is removed. Without them the code promises no end.
* `Session`: timers fire, runs end and settle, Pi consumes its queue, jobs that ended report,
  a gate closes. `AgentRun`: timers, and slots that come or are refused; nothing of the child. `CodeIntel`:
  the code's own steps and timers. `McpCall`: the deadline, and that a fetch whose signal fired rejects.

## Proofs

| Theorem | States |
|---|---|
| `TypeCorrect`, `LockExcludes`, `MarkersStay` | type correctness, `MutualExclusion`, `MarkerStays` of the lock |
| `NothingIsLeft` | `NothingLeftBehind`: calls that have all ended, without a death, leave no lock |
| `LockRefinement` | `InterprocessLock` implements `ExclusiveLock` |
| `HostWideCapHolds` | `HostWideCap`, with leases that are refreshed in time |
| `AdmissionRespectsLimits` | `AdmissionWithinLimits`, without that assumption |
| `EndsHoldNothing` | `NothingHeldAfterEnd` of the scheduler |
| `NothingIsLost`, `OneReply` | `NothingLost`, `AtMostOneReply` of peer messages |
| `NothingTwice`, `NoTurnForSteered` | `NeverTwice`, `SteeredReplyNotWoken` |
| `StatusIsTrue`, `StatusNeverFalls` | `StatusTruthful`, `StatusMonotone` |
| `HandoffTypes`, `TransferFinishable` | type correctness and `StillFinishable` of the handoff |
| `GoalHasOneOwner` | `SelfHandoff` implements `GoalOwnership`, while nobody clears a goal that reads transferred |
| `CommandCapacity`, `CommandTruth`, `CommandEndIsFinal` | `CapacityHolds`, `EndTruthful`, `EndIsFinal` of command jobs |
| `JobsBelongToOwners` | type correctness of background jobs, and that what is under way belongs to its process |
| `JobCapacity`, `JobEndsAreFinal`, `CancellationIsKept` | `CapacityHolds`, `TerminalIsFinal`, `CancellationSticks`, while pruning evicts nothing |
| `FewJobsAreKept` | the same three without a condition, for at most `MaxJobs` jobs |
| `OneShotEndFollowsChild`, `RecordedEndIsTrue` | `EndFollowsChild` for one-shot jobs, with leases that are refreshed in time |
| `GoalIsCarriedOn`, `InterruptIsKept` | `GoalCarriedOn`, `InterruptHolds` of the session |
| `PlanIsHandedOver` | `PlanHandsOver` |
| `RunIsTruthful`, `QueriesAreSound` | `RunTruthful`, `QueriesSound` of child agents and code intelligence |
| `WorkflowIsSound` | `Sound` of `Workflow` |
| `CallsAreWhole`, `SubscriptionHolds`, `WorktreeIsTold` | `Sound` of `Delegation`, `ChildProfile`, `Worktree` |
| `WaitsAreSound`, `SummariesHold`, `BundleIsTruthful`, `EditsAreSafe` | `Sound` of `WaitFor`, `ToolSummary`, `Research`, `SafeEdit` |
| `TabsAreRight`, `ContextsLeaveNothing`, `DecisionsHold` | `Sound` of `Browser`, `NothingLeft` of `AppTest`, `Sound` of `LiveVariants` |
| `ToolsStayChosen` | `Sound` of `Bundles` |

They hold for every value of the constants that satisfies the module's
assumption (`LockAssumption`, `SchedulerAssumption`, `PeerAssumption`, `CommandAssumption`,
`HandoffAssumption`, `JobsAssumption`, `SessionAssumption`, `PartsAssumption`), so for any number of processes, runs,
sessions, messages, jobs, tasks, tabs, attempts, deaths and failures. The theorems of `ToolsProofs` name what they
need of a part's constants themselves: limits are natural numbers, the sites of a research and the results
of a summary are finite sets, bundles are a list, and a value that stands for "none" or "the exact text" is none of the others. Where a theorem has a further hypothesis, it is
named above and explained below; each of them is necessary, since TLC or an entry under
*Findings* shows what happens without it.

**Lock.** `MutualExclusion` is not inductive. `LockInv` adds that a directory with
a marker exists (`FilesInv`), that a marker in use carries the pid of its user, who
is alive (`NameInv`), that marker names are not shared and that nobody is about
to remove the marker of a live call (`FreshInv`), and that a published
marker stays where it is (`PublishedInv`). The last part carries the argument: other calls
delete markers of dead processes only, by name, and a directory with a file in it
cannot be removed; hence a second call that publishes sees the first one's
marker and withdraws. The comparison of inodes in `verifyOwnership` is not needed for it.
`CleanInv` is for `NothingLeftBehind`: as long as nobody has died, every marker in the
directory is that of a call that has yet to end, and an empty directory is about to be
removed by somebody.

**Scheduler.** `SchedulerInv` has the types, that living runs are runs of living
processes, that the leases fit in the largest limit (`CountInv`), and that a run
between grant and release has a lease with time left (`HoldInv`). `HoldInv` needs
`TimelyLeases`: live processes refresh in time, and no mutation waits for the
lock as long as a lease lives. The assumption is necessary: with `Timely = FALSE` TLC finds a
stalled process whose lease is given to another while its child still runs.
`SlotFits` and `PoolFits` say that what the loop hands out fits the free slots.
`HeldInv` says where a run is that has a waiter (between its request and its grant or withdrawal) or a
lease (between grant and release), while no write fails.

**Peer messages.** `LostInv` follows a message: a pass that has written a receipt
still has it, or a card, behind it until it removes the inbox file
(`ReceiptFirst`), and a message is written only to a runtime that was found
(`Targeted`). `ClaimInv` says that a reply that is published, or about to be,
has claimed its request and that nobody else has. `Shape` is the part of the type
invariant all need. For the statuses, `SeenInv` says that whatever a session has
seen was published, and `SenderInv` that what a sender is about to record is true, so
that every write that is still to be made is true already; that no status falls is
then the rank test of the code. `TurnsInv` says that what has started a turn, or is about to,
has been claimed, and that what is about to has not started one yet; `PassInv` that a pass shows every
receipt of its session before it claims turns, which is why a steered reply is not claimed later.

**Handoff.** `HandInv` relates how far a command is, its audit and its child
(`RequestInv`, `ChildInv`, `StepInv`) to what the branches of the two sessions may read (`BranchInv`),
to what else a session may be doing (`CommandInv`) and to who may hold a lock (`LockInv`). None of them is
inductive alone. `StillFinishable` is the last part of `BranchInv`: a branch reads transferred while the
audit is open only if its child waits for the end of the transfer. The refinement needs
more. `OwedInv`: a branch whose last attempt has a child that may get the goal does not
offer it; `EndingInv`: a child with the lock ends a transfer that is still open; `KnownInv`: what an
open origin remembers of an audit is behind the file only by what the child wrote. From these `ChainInv`
says that the audits name one owner and that everybody who offers the goal, asks for it or
works for it is that owner. Each action of `SelfHandoff` is then one of `GoalOwnership` or leaves its
variables alone. The hypothesis is `ClearsTransferred = FALSE`; with `TRUE` TLC
finds two sessions that work for one goal (*Findings*).

**Command jobs.** `CapacityHolds` counts process groups, the code counts records, so `RunnerInv` relates the
two: where the runner is, what the group can be, and that the record of a command that may be running is
active (`RunOf`, `RecordOf`), hence has one of the slots that `Room` counts. An
ended record is the one its runner holds, so that what is published later says the
same: this is `EndIsFinal`. `TruthOf` says of both what `EndTruthful` says of the stored one.

**Background jobs.** `OwnerInv` (types, and that mutations and replies are about jobs of their
own process) is proved first; everything else uses it. `StoreInv` is what the merge rests on: whoever
knows of a cancellation, in memory, in a queued write or in a reply, knows it from a store that has
not forgotten it, so that no late write can carry an older status past `mergeJob`. It is
inductive only while a record that was stored stays stored. `pruneJobs` can evict the record
of an ended job while a write for it waits for the lock; with `MaxJobs = 1` TLC then finds the record
added again (*Findings*). Hence the hypothesis `[]NothingPruned`, and `FewJobsAreKept`, which proves
that it holds where there are at most `MaxJobs` jobs. `EndInv` says that nobody holds an end
of a one-shot job whose child runs. It needs `Timely`, since a job whose lease has
run out is failed by others while its child lives on, and it leaves interactive
jobs out, since a refresh between the landing and the delivery of a creation fails a running
one (*Findings*); `OneShotEndFollowsChild` allows such jobs beside the ones it is about.

**Session.** `GoalCarriedOn` looks at an idle session only; `GoalInv` says where the continuation
is at the end of a run, too: in the timer, held by the gate, or in Pi's queue (`OnItsWay`). `OverrunBounded` needs
what the turns of a goal that goes on are made of: the budget, less one, and the stalls in a row (`OnBudget`), which
every way to resume or replace a goal keeps. `RestInv` is for `InterruptHolds`: after an interrupt
what the hub still has to report was reported since, no timer of the goal or the plan runs, and the
end of the run that was interrupted sets none.

**Work plan, child agents, code intelligence.** `PlanInv`: the pointer is at the one active item unless
`unblock` made that item to-do. `AgentInv` adds to `RunTruthful` that a one-shot run is never
asked (`OneShot`), that a run waiting for its first slot has no process (`NotStarted`), and that a teardown
which finishes has waited for whoever holds the pipes or says that it did not (`TornDown`).
`IntelInv`: the snapshots and the server's reading follow each other and no version is newer than the disk's
(`ReadInOrder`), the server runs from the question to the end of its query
(`ServerFollows`), and a verdict "ok" keeps what it was made from until it is returned (`AnswerHolds`). Every step of `MCExtensions` is a
step of one part that leaves the others alone, so its invariants follow.

**Tools.** Each section adds to `Sound` where the procedure is and what it has in hand there.
* `Workflow`: the tracker knows of every call that failed, and a run that returned has told
  (`FailuresTold`).
* `Delegation`: a repository's agent was found only with trust or the user's word, and each dialog that was needed is
  behind the call (`Answered`); what runs is within the limits that were tested (`WithinLimits`).
  `Worktree`: nothing is on disk before `git worktree add` and nothing read before the child ended
  (`BeforeReading`); what a command listed of a child that ended well stays listed (`Inventory`).
  `ChildProfile`: a GPT model leaves the second reading of the logins with a subscription (`ProfileInv`).
* `WaitFor`: the counts of a job's outcomes, updates and readings agree (`OutcomesCounted`); a wait that
  goes on has seen, of its jobs, only ends (`OnlyEnds`).
* `ToolSummary`: epochs on a branch follow its configurations, and a response precedes every exposure and
  summary (`Grounded`); what is pending is in the call with its exact result (`PendingRaw`), a job is about an
  exposed result (`JobsExposed`). That the memory is what a reload would restore is preserved by
  every list of entries that a handler appends (`AgreesGrown`).
* `Research`: what is fetched or waits to be is ranked (`Pinned`), and those under way count
  against the budget (`Budget`).
* `SafeEdit`: ids are not used twice (`IdsFresh`), what the second check found is so until another
  program changes it (`SecondCheck`), and a copy lives only from there to the rename (`CopyIsShort`).
* `Browser`: one browser runs exactly when a context is open, and a launch begins with none
  (`BrowserKnown`); while a report holds, the index is at the tab it named (`ReportHolds`).
  `AppTest`: the life of a context says whether it is in the map and has a directory, a browser and a
  trace (`LivesAgree`); open contexts and those being made take the places that the limit counts (`PlacesBounded`).
* `LiveVariants`: the page's variables, its storage and the ids to come fit each other (`Fits`), an event on
  its way tells of a decision that was made for its session (`AllTruthful`), and only ids that were given out
  are worked on (`GivenOut`).
* `Bundles`: between two handlers what was excluded may still be taken for eligible, but only if the
  router saw it active, so that the next refresh notices (`Clean`); from there no function of the router
  brings it back (`Fresh`), and each that applies leaves the cap kept or nothing to evict (`Within`). The loop
  over the triggers is a recursive function, argued about by the first index that would break it.

Only model-checked: everything liveness (`StaleLockReclaimed`, `EveryRequestServed`, `JobsEnd`,
`Delivered`, `RequestsGetTurn`, `CancelEnds`, `TransferEnds`, `OutcomesTold`, `ComesToRest`,
`CallsReturn`), which needs fairness and `ENABLED`; `EndFollowsChild` with interactive jobs, which
holds within the run's bounds only (*Findings*); `LoopHandsOut` and `StructuredOutput`, which are about recursive
definitions, and `Reduction`, whose functions fold over sequences, so that what they
compute needs an induction over data. `ToolsSound` is a conjunction of one formula per part: its
conjuncts are proved part by part, except those of these two modules.

## Findings

`background_jobs_owner`. The persisted end of a job is announced by
`index.ts` as the state its owner sees. A status call that is made between
the end in memory and the save of that end reads the running record from the
file and copies it over the ended entry; the save then lands, and the owner's
memory says `running` for good while the file says it is over. `PROJECT.json`
quotes the lines.

What follows was met while modelling or by changing instances, and no run states it.

*Background jobs and scheduler*
* `Jobs = {1}`, `MaxOps = 2`, `AnswerReachesAsker`: a refresh
  copies the claimed revision (`spawn-subagent/index.ts:619`) into an entry that
  still shows the question; a save at that revision reopens the question in the
  file, a second answer is accepted, finds no parked question and kills the child.
* `Jobs = {1, 2}`, `EndFollowsChild`: a refresh between the landing and the delivery of
  the creation hydrates the interactive job as one whose runtime was lost
  (`:602`), and another job's save publishes that.
* `Jobs = {1}`, `MaxOps = 1`, `JobsEnd`: an answer's claim lands, the child dies and
  another session cancels before the claim is delivered; the final write has the
  lower revision and is ignored, the delivery sets the entry to running again
  (`:1503`), and the heartbeat keeps the job canceling for ever.
* `MaxJobs = 1`, `TerminalIsFinal`: a late save adds a record again that pruning had
  evicted. In the code this needs a hundred records.
* `SubagentScheduler`, `Timely = FALSE`, `HostWideCap`: see above.
* `_shared/file-lock.ts`: an unreadable JSON store counts as an empty one and is overwritten.

*Session*
* Stalled and empty turns return before the budget test (`goal/index.ts:973`): a goal's turns pass
  `maxTurns` by up to `MaxStalls`; `latestGoalState` then rejects the goal and a handoff
  refuses. Every resume after `budget_limited` grants more turns.
* `update_goal(active)` after the notice of the budget leaves an active goal that nothing carries on.
* Escape during a provider's backoff ends no run, so it does not pause the goal, though
  `goal/README.md:15` says that Escape pauses.
* An errored turn counts as a turn and queues a continuation. A held or queued continuation
  is sent without a look at the goal's status (`goal/index.ts:536-544`, `557-563`).
* The reminder of the plan ignores the gate, and can come again after a run that a wake-up started.

*Work plan*
* `unblock` of the active item leaves `activeId` at an item that is to do; a handoff calls such a
  plan malformed, and completing another item then activates nothing.
* Unknown and own ids are stored as blockers, and make the handoff refuse. `update` to done
  releases no dependents. `/plan` during a run drops the running clock.

*Self-handoff*
* A crash after the record "prepared" and before the goal is set to transferring strands the
  goal: resume, reclaim and a new goal are refused. `self-handoff/README.md` promises reclaim; only `/goal clear`
  with a new `/self-handoff` helps.
* A rollback whose goal entry fails while its audit entry succeeds leaves a transferring goal
  with a cancelled audit, which reclaim, resume and clear all refuse.
* A runtime that opened the parent before the transfer ended can clear the goal it
  remembers and prepare a second handoff without the lock: with `ClearsTransferred = TRUE`
  and two attempts, two sessions work for the goal. Without a goal, the same order makes the
  audit conflicting and the child stays gated for ever.

*Child agents, delegated calls, worktrees, profiles, structured output*
* An answer whose slot is refused cancels the child. A child that starts again after it settled
  and then exits with 0 is reported completed. A follow-up may be acknowledged and dropped by a child that just settled. A
  protocol failure after the teardown began leaves "completed" with an error message.
* A failed task of a parallel call makes the whole tool call an error. A step of a chain that
  quotes the one before may exceed `maxTaskBytes`. A structured `null` is handed on as text. The end of the session does not stop the
  making of a worktree, and an abort there is reported as failed, not canceled.
* A run without any model keeps the API key in its environment; provider "none" with a GPT
  name goes to the subscription.
* Names of `Object.prototype` are never missing for `required` and never additional
  (`key in properties`), so `additionalProperties: false` accepts "toString".

*Tool summary*
* A result whose images have aged is never summarized. The comment at `tool-summary/index.ts:528-529` and
  rule 8 of its README say it becomes eligible; but the handler looks up the hash of the
  aged copy (`findSourceEntryId`, `:266`) among contents that still have their images.
* "Bound every priority fragment" (`policy.ts:491`) does not bound one that has a single long match, such
  as a URL: it can take the budget of all. `ImportantShown` is about results without one.
* "Every `---`, and `+++` file header" (its README) is required only where both follow each
  other (`policy.ts:447`).
* JSON within the budget whose formatted text is not would be reduced without the check of its
  evidence (`policy.ts:473` measures the text, `reduceByAllocation` the formatted one); results
  that short are no candidates.

*Workflow, waits, browsers, bundles, live variants*
* A script that catches the failure of an agent still fails its run. Overlapping runs with one id
  mix their values in one journal, and a lane left behind persists after the tool returned.
* An outcome in the same millisecond as an earlier read of its job counts as observed
  (`>=`, `job-wake.ts:58-60`; assumed away). The text of a timeout is cut at 1000 characters and may
  show an id without its status, which is marked observed all the same.
* `session_shutdown` does not wait for the browser's queue: an operation under way launches a new
  browser that nobody closes. `app_inspect` does not recover from a dead browser. Closing a
  tab makes its neighbour active even when another one was; a page that closes itself shifts
  the index silently.
* A bundle that a prompt's trigger matches and that an earlier trigger of the same prompt evicts
  is not loaded again. A deferred tool that the user deselected may come back.
* The id of a server's reply is ignored by the page; the accept timer resets whatever session
  is current; only one decided id is remembered, so a decided session can be offered again (the comment at
  `live-browser.js:3019-3021` says otherwise). A reload before the wrapper is in the page loses
  the session, and the scout may later take the page over from a newer one. Dots change the visible
  variant without saving it. `injectVariantsFromSource` is never called.

## What is not modelled

In modelled parts: the session shutdown of background jobs
(`spawn-subagent/index.ts:1213`), the thirty-day age limit and steering of jobs; presence leases,
rooms, rate and size limits, sessions without a file and the
pruning of old coordinator files; readiness probes and log contents;
the crash between the temporary file and the rename of an atomic
replacement, which leaves the old value in place; the text of prompts, summaries, redaction and reports;
the work plan's copy and the peer warning of a handoff, and the identity checks that only a file
changed by hand fails; a child that runs tools beside an open question (`ask_parent` is sequential); processes that left every
known group and closed their pipes; navigation is one step with its `session_tree` handler; progress callbacks do
not throw; survivors of a child are found only after a failed one; in the live mode prefetching (which is switched off), the annotation
layer, the knobs of a variant, the design panel and the shader.

Whole parts: panel, memory and knowledge base, verification, setup and doctor, presentations,
search, Apple app tests, questions, schema conversions, the Python catalog and gateway, and the prompts, scripts and
assets of skills and workflows. They are I/O, text and rendering without shared state, or programs that run
once; `PROJECT.json` has the reason for each.

## Plan

The modules came in the order of the table above: the lock, what is built on it (scheduler, jobs,
messages, commands), the session and the handoff of its goal, the children, the tools. The proofs followed in the
same order. What is left is out of the provers' reach or waits for a change of the code:

1. Liveness, and the functions that need induction over data, stay with TLC (see *Proofs*).
2. `EndFollowsChild` for interactive jobs, and a hypothesis-free `CapacityHolds`, once a refresh no longer
   overwrites an entry that is being created and pruning spares jobs with a pending write.
3. `GoalOwnership` without `ClearsTransferred = FALSE`, once a second handoff is prepared under the lock.
