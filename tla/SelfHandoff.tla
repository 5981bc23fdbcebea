----------------------------- MODULE SelfHandoff -----------------------------
(***************************************************************************)
(* /self-handoff: the goal of one session moves to a fresh one             *)
(* (extensions/self-handoff, _shared/handoff-state.ts, the ownership part  *)
(* of extensions/goal).                                                    *)
(*                                                                         *)
(* Session 0 starts the goal; attempt a creates session a.  A session is a *)
(* file of entries and, while it is open, a runtime that read the file     *)
(* when it opened it: another process that appends to the file is not      *)
(* seen.  The audit of an attempt goes through the file of its origin      *)
(* ("prepared", "child_created", "transferred") and through the child's    *)
(* own ("received", "awaiting_user", "transferred").  Of a branch of       *)
(* entries only the goal and the latest attempt recorded on it matter.     *)
(*                                                                         *)
(* The lock file of an origin orders its reclaim against the end of the    *)
(* transfer, which the child's process writes.  It has no stale recovery.  *)
(*                                                                         *)
(* One goal; one runtime per session.  Prompts, work plans, redaction and  *)
(* the identity checks that only a tampered file fails are left out.       *)
(***************************************************************************)
EXTENDS Naturals, FiniteSets

CONSTANTS MaxAttempts, MaxCrashes, MaxFailures,
          ClearsTransferred   \* whether users clear a goal that reads transferred

ASSUME HandoffAssumption ==
  /\ MaxAttempts \in Nat /\ MaxCrashes \in Nat /\ MaxFailures \in Nat
  /\ ClearsTransferred \in BOOLEAN

Attempts == 1..MaxAttempts
Sessions == 0..MaxAttempts
Nobody == MaxAttempts + 1

VARIABLES
  open, durable,   \* sessions: has a runtime; has a file (a child's comes late)
  mem, file,       \* the runtime's branch, and the branch of the file's last entry
  request,         \* of an attempt: its origin and the goal it found there
  step,            \* how far its command is
  audit, known,    \* its audit in the origin's file, and as the origin's runtime has it
  moved,           \* the goal entries the attempt left in the origin's file
  child, retry,    \* the child's audit, and whether it may submit the kickoff again
  lock,            \* the lock file of a session: who holds it, and what it does next
  turn,            \* "idle", "orient" or "work" (a turn for the goal)
  crashes, failures

command == <<request, step>>
records == <<audit, known, moved>>
orientation == <<child, retry>>
vars == <<open, durable, mem, file, command, records, orientation, lock, turn, crashes, failures>>

GoalStatus == {"none", "active", "paused", "transferring", "transferred"}
Unresolved == {"prepared", "child_created"}
Pending == {"received", "awaiting_user"}

\* The audit record that the reduction of a file yields after one more.
Reduced(old, new) ==
  LET allowed == CASE old = "none" -> {"prepared"}
                   [] old = "prepared" -> {"child_created", "cancelled", "failed", "reclaimed"}
                   [] old = "child_created" -> {"transferred", "failed", "reclaimed"}
                   [] OTHER -> {}
  IN  IF new \in allowed THEN new ELSE "conflict"

Branches == [goal: GoalStatus, last: Sessions]
Requests == [origin: Sessions, goal: GoalStatus]
NoRequest == [origin |-> 0, goal |-> "none"]
NoBranch == [goal |-> "none", last |-> 0]

Free == [by |-> Nobody, next |-> "none"]
Stale == [by |-> Nobody, next |-> "left"]

Origin(a) == request[a].origin
CarriesGoal(a) == request[a].goal = "active"
Made(s) == {a \in Attempts : step[a] # "none" /\ Origin(a) = s}

TypeOK ==
  /\ open \in [Sessions -> BOOLEAN] /\ durable \in [Sessions -> BOOLEAN]
  /\ mem \in [Sessions -> Branches] /\ file \in [Sessions -> Branches]
  /\ request \in [Attempts -> Requests]
  /\ step \in [Attempts -> {"none", "review", "prepared", "moved", "verified", "undo", "undone",
                            "switched", "bound", "over"}]
  /\ audit \in [Attempts -> {"none", "conflict", "prepared", "child_created", "transferred",
                             "cancelled", "failed", "reclaimed"}]
  /\ known \in [Attempts -> {"none", "conflict", "prepared", "child_created", "transferred",
                             "cancelled", "failed", "reclaimed"}]
  /\ moved \in [Attempts -> {"no", "transferring", "transferred"}]
  /\ child \in [Attempts -> {"none", "received", "awaiting_user", "transferred", "failed"}]
  /\ retry \in [Attempts -> BOOLEAN]
  /\ lock \in [Sessions -> [by: Sessions, next: {"audit", "goal"}] \union {Free, Stale}]
  /\ turn \in [Sessions -> {"idle", "orient", "work"}]
  /\ crashes \in 0..MaxCrashes /\ failures \in 0..MaxFailures

Init ==
  /\ open = [s \in Sessions |-> s = 0] /\ durable = [s \in Sessions |-> s = 0]
  /\ mem = [s \in Sessions |-> [goal |-> IF s = 0 THEN "active" ELSE "none", last |-> 0]]
  /\ file = mem
  /\ request = [a \in Attempts |-> NoRequest]
  /\ step = [a \in Attempts |-> "none"]
  /\ audit = [a \in Attempts |-> "none"] /\ known = audit
  /\ moved = [a \in Attempts |-> "no"]
  /\ child = [a \in Attempts |-> "none"] /\ retry = [a \in Attempts |-> FALSE]
  /\ lock = [s \in Sessions |-> Free]
  /\ turn = [s \in Sessions |-> "idle"]
  /\ crashes = 0 /\ failures = 0

-------------------------------------------------------------------------------
(* Guards *)

\* The attempts whose command runs in the runtime of s: the origin's until the
\* session is replaced, the child's after it.
Commands(s) ==
  {a \in Made(s) : step[a] \in {"review", "prepared", "moved", "verified", "undo", "undone"}}
    \union {a \in Attempts : a = s /\ step[a] \in {"switched", "bound"}}

\* The runtime can take a command or an input.
Idle(s) ==
  /\ open[s] /\ turn[s] = "idle" /\ Commands(s) = {}
  /\ \A o \in Sessions : lock[o].by # s

\* Mutant: only the current branch is searched for attempts that left.
OutboundOnBranch(s) ==
  \E a \in Made(s) : a = mem[s].last /\ CarriesGoal(a) /\ known[a] \in Unresolved \union {"transferred", "conflict"}

Outbound(s) ==
  \E a \in Made(s) : CarriesGoal(a) /\ known[a] \in Unresolved \union {"transferred", "conflict"}

ChildAudit(s) == IF s \in Attempts THEN child[s] ELSE "none"

\* reactivationBlockReason: why the goal may not become, or stay, active.
Blocked(s) == Outbound(s) \/ (ChildAudit(s) = "failed" /\ CarriesGoal(s))

CanFail == failures < MaxFailures
Fail == CanFail /\ failures' = failures + 1

\* The runtime of s appends entries that leave its branch with goal g, latest attempt a.
AppendTo(s, g, a) ==
  /\ mem' = [mem EXCEPT ![s] = [goal |-> g, last |-> a]]
  /\ file' = [file EXCEPT ![s] = [goal |-> g, last |-> a]]

\* What the runtime of s had read goes with it.
Forget(s) == known' = [a \in Attempts |-> IF a \in Made(s) THEN "none" ELSE known[a]]

AppendGoal(s, g) == AppendTo(s, g, mem[s].last)

AppendAudit(a, status) ==
  /\ known' = [known EXCEPT ![a] = Reduced(known[a], status)]
  /\ audit' = [audit EXCEPT ![a] = Reduced(audit[a], status)]

\* The child's process appends to the file of the origin, at the attempt's own branch.
AppendAtOrigin(a, g) == file' = [file EXCEPT ![Origin(a)] = [goal |-> g, last |-> a]]

Step(a, from, to) == step[a] = from /\ step' = [step EXCEPT ![a] = to]

-------------------------------------------------------------------------------
(* The command in the origin's runtime *)

\* Checks, the goal gate, and the end of an interrupted attempt on this branch.
Begin(a, s) ==
  LET prior == mem[s].last
      supersedes == prior \in Attempts /\ known[prior] \in Unresolved
  IN  /\ Idle(s)
      /\ mem[s].goal \notin {"transferring", "transferred"}
      /\ mem[s].goal # "none" => ~Outbound(s)
      /\ ChildAudit(s) \notin Pending \union {"failed"}
      /\ prior \in Attempts => known[prior] # "conflict"
      /\ Step(a, "none", "review")
      /\ \A b \in Attempts : b < a => step[b] # "none"
      /\ request' = [request EXCEPT ![a] = [origin |-> s, goal |-> mem[s].goal]]
      /\ IF supersedes
         THEN AppendAudit(prior, "failed") /\ AppendGoal(s, mem[s].goal)
         ELSE UNCHANGED <<audit, known, mem, file>>
      /\ UNCHANGED <<open, durable, moved, orientation, lock, turn, crashes, failures>>

\* Generation or review is cancelled or fails, or the session or its peer requests
\* changed meanwhile.
Cancel(a) ==
  /\ Step(a, "review", "none")
  /\ request' = [request EXCEPT ![a] = NoRequest]
  /\ UNCHANGED <<open, durable, mem, file, records, orientation, lock, turn, crashes, failures>>

Prepare(a) ==
  /\ Step(a, "review", IF CarriesGoal(a) THEN "prepared" ELSE "moved")
  /\ AppendAudit(a, "prepared")
  /\ AppendTo(Origin(a), mem[Origin(a)].goal, a)
  /\ UNCHANGED <<open, durable, request, moved, orientation, lock, turn, crashes, failures>>

Move(a) ==
  /\ Step(a, "prepared", "moved")
  /\ AppendGoal(Origin(a), "transferring")
  /\ moved' = [moved EXCEPT ![a] = "transferring"]
  /\ UNCHANGED <<open, durable, request, audit, known, orientation, lock, turn, crashes, failures>>

\* The append throws before the command notes that there is something to roll back.
MoveFails(a) ==
  /\ Step(a, "prepared", "over")
  /\ Fail
  /\ UNCHANGED <<open, durable, mem, file, request, records, orientation, lock, turn, crashes>>

\* The prepared attempt is read back from the file, under the lock.
Verify(a) ==
  /\ Step(a, "moved", "verified")
  /\ lock[Origin(a)] = Free /\ audit[a] = "prepared"
  /\ UNCHANGED <<open, durable, mem, file, request, records, orientation, lock, turn, crashes, failures>>

VerifyFails(a) ==
  /\ Step(a, "moved", "undo")
  /\ \/ lock[Origin(a)] # Free /\ UNCHANGED failures
     \/ Fail
  /\ UNCHANGED <<open, durable, mem, file, request, records, orientation, lock, turn, crashes>>

\* Session replacement is cancelled, or fails before the parent is torn down.
SwitchCancelled(a) ==
  /\ Step(a, "verified", "undo")
  /\ UNCHANGED <<open, durable, mem, file, request, records, orientation, lock, turn, crashes, failures>>

\* Rollback: the goal, then the audit; one may fail without the other.
UndoGoal(a) ==
  /\ Step(a, "undo", "undone")
  /\ \/ CarriesGoal(a) /\ AppendGoal(Origin(a), "active") /\ UNCHANGED failures
     \/ CarriesGoal(a) /\ Fail /\ UNCHANGED <<mem, file>>
     \/ ~CarriesGoal(a) /\ UNCHANGED <<mem, file, failures>>
  /\ UNCHANGED <<open, durable, request, records, orientation, lock, turn, crashes>>

UndoAudit(a) ==
  /\ Step(a, "undone", "over")
  /\ \/ AppendAudit(a, "cancelled") /\ AppendGoal(Origin(a), mem[Origin(a)].goal) /\ UNCHANGED failures
     \/ Fail /\ UNCHANGED <<audit, known, mem, file>>
  /\ UNCHANGED <<open, durable, request, moved, orientation, lock, turn, crashes>>

\* newSession tears the parent down and opens the child, with the goal in memory only.
Switch(a) ==
  /\ Step(a, "verified", "switched")
  /\ open' = [open EXCEPT ![Origin(a)] = FALSE, ![a] = TRUE]
  /\ mem' = [mem EXCEPT ![Origin(a)] = NoBranch, ![a].goal = IF CarriesGoal(a) THEN "active" ELSE "none"]
  /\ child' = [child EXCEPT ![a] = "received"]
  /\ Forget(Origin(a))
  /\ UNCHANGED <<durable, file, request, audit, moved, retry, lock, turn, crashes, failures>>

\* The child's identity enters the parent's audit, on the branch of the moved goal.
Bind(a) ==
  /\ Step(a, "switched", "bound")
  /\ lock[Origin(a)] = Free /\ audit[a] = "prepared"
  /\ audit' = [audit EXCEPT ![a] = Reduced(audit[a], "child_created")]
  /\ AppendAtOrigin(a, IF CarriesGoal(a) THEN "transferring" ELSE request[a].goal)
  /\ UNCHANGED <<open, durable, mem, request, known, moved, orientation, lock, turn, crashes, failures>>

\* The parent cannot be secured: the child's goal is paused and its audit failed.
BindFails(a) ==
  /\ Step(a, "switched", "over")
  /\ \/ (lock[Origin(a)] # Free \/ audit[a] # "prepared") /\ UNCHANGED failures
     \/ Fail
  /\ mem' = [mem EXCEPT ![a].goal = IF CarriesGoal(a) THEN "paused" ELSE "none"]
  /\ child' = [child EXCEPT ![a] = "failed"]
  /\ UNCHANGED <<open, durable, file, request, records, retry, lock, turn, crashes>>

Kickoff(a) ==
  /\ Step(a, "bound", "over")
  /\ turn' = [turn EXCEPT ![a] = "orient"]
  /\ UNCHANGED <<open, durable, mem, file, request, records, orientation, lock, crashes, failures>>

KickoffFails(a) ==
  /\ Step(a, "bound", "over")
  /\ retry' = [retry EXCEPT ![a] = TRUE]
  /\ UNCHANGED <<open, durable, mem, file, request, records, child, lock, turn, crashes, failures>>

-------------------------------------------------------------------------------
(* The child *)

\* The user submits the exact kickoff again.
Retry(a) ==
  /\ Idle(a) /\ child[a] = "received" /\ retry[a]
  /\ turn' = [turn EXCEPT ![a] = "orient"]
  /\ UNCHANGED <<open, durable, mem, file, command, records, orientation, lock, crashes, failures>>

\* The orientation settles; its first response makes the child's file durable.
Settles(a, answered) ==
  /\ turn[a] = "orient"
  /\ turn' = [turn EXCEPT ![a] = "idle"]
  /\ IF answered
     THEN durable' = [durable EXCEPT ![a] = TRUE] /\ file' = [file EXCEPT ![a] = mem[a]]
     ELSE UNCHANGED <<durable, file>>
  /\ UNCHANGED <<open, mem, command, records, lock, crashes>>

Oriented(a) ==
  /\ Settles(a, TRUE)
  /\ \/ child' = [child EXCEPT ![a] = "awaiting_user"] /\ UNCHANGED failures
     \/ Fail /\ UNCHANGED child
  /\ UNCHANGED retry

\* The response is missing, aborted, empty, or lacks a required part.
NotOriented(a) ==
  /\ \E answered \in BOOLEAN : Settles(a, answered)
  /\ retry' = [retry EXCEPT ![a] = TRUE]
  /\ UNCHANGED <<child, failures>>

\* Mutant: a goal entry that an interrupted end left behind is not accepted.
FinalizableOnce(a) ==
  /\ audit[a] = "child_created"
  /\ CarriesGoal(a) => moved[a] = "transferring"

\* The end of the transfer, when the child settles and again with each reply: under the
\* lock, the parent's goal and then its audit become transferred.
Finalizable(a) ==
  /\ audit[a] = "child_created"
  /\ CarriesGoal(a) => moved[a] # "no"

\* Mutant: the transfer ends before the child has noted that it oriented.
FinLockEarly(a) ==
  /\ Idle(a) /\ child[a] \in Pending
  /\ lock[Origin(a)] = Free /\ Finalizable(a)
  /\ lock' = [lock EXCEPT ![Origin(a)] =
                [by |-> a, next |-> IF moved[a] = "transferring" THEN "goal" ELSE "audit"]]
  /\ UNCHANGED <<open, durable, mem, file, command, records, orientation, turn, crashes, failures>>

FinLock(a) ==
  /\ Idle(a) /\ child[a] = "awaiting_user"
  /\ lock[Origin(a)] = Free /\ Finalizable(a)
  /\ lock' = [lock EXCEPT ![Origin(a)] =
                [by |-> a, next |-> IF moved[a] = "transferring" THEN "goal" ELSE "audit"]]
  /\ UNCHANGED <<open, durable, mem, file, command, records, orientation, turn, crashes, failures>>

FinGoal(a) ==
  /\ lock[Origin(a)] = [by |-> a, next |-> "goal"]
  /\ \/ /\ AppendAtOrigin(a, "transferred")
        /\ moved' = [moved EXCEPT ![a] = "transferred"]
        /\ lock' = [lock EXCEPT ![Origin(a)].next = "audit"]
        /\ UNCHANGED failures
     \/ /\ Fail
        /\ lock' = [lock EXCEPT ![Origin(a)] = Free]
        /\ UNCHANGED <<file, moved>>
  /\ UNCHANGED <<open, durable, mem, command, audit, known, orientation, turn, crashes>>

\* When the audit cannot be written the goal is put back, if that can be.
FinAudit(a) ==
  /\ lock[Origin(a)] = [by |-> a, next |-> "audit"]
  /\ lock' = [lock EXCEPT ![Origin(a)] = Free]
  /\ \/ /\ audit' = [audit EXCEPT ![a] = Reduced(audit[a], "transferred")]
        /\ AppendAtOrigin(a, IF CarriesGoal(a) THEN "transferred" ELSE request[a].goal)
        /\ UNCHANGED failures
     \/ /\ Fail
        /\ \/ CarriesGoal(a) /\ AppendAtOrigin(a, "transferring")
           \/ UNCHANGED file
        /\ UNCHANGED audit
  /\ UNCHANGED <<open, durable, mem, command, known, moved, orientation, turn, crashes>>

\* The user's reply, once the parent confirms: the child's own audit, and the first
\* turn of the goal.
Release(a) ==
  /\ Idle(a) /\ child[a] = "awaiting_user"
  /\ lock[Origin(a)] = Free /\ audit[a] = "transferred"
  /\ CarriesGoal(a) => mem[a].goal = "active"
  /\ child' = [child EXCEPT ![a] = "transferred"]
  /\ turn' = [turn EXCEPT ![a] = IF CarriesGoal(a) THEN "work" ELSE "idle"]
  /\ UNCHANGED <<open, durable, mem, file, command, records, retry, lock, crashes, failures>>

-------------------------------------------------------------------------------
(* Any session *)

\* before_agent_start: an active goal that another session may own is paused.
TurnStart(s) ==
  /\ Idle(s) /\ ChildAudit(s) \notin Pending /\ mem[s].goal = "active"
  /\ IF Blocked(s)
     THEN AppendGoal(s, "paused") /\ UNCHANGED turn
     ELSE turn' = [turn EXCEPT ![s] = "work"] /\ UNCHANGED <<mem, file>>
  /\ UNCHANGED <<open, durable, command, records, orientation, lock, crashes, failures>>

TurnEnd(s) ==
  /\ turn[s] = "work"
  /\ turn' = [turn EXCEPT ![s] = "idle"]
  /\ UNCHANGED <<open, durable, mem, file, command, records, orientation, lock, crashes, failures>>

\* /goal pause, resume and clear.
GoalCommand(s) ==
  /\ Idle(s) /\ ChildAudit(s) \notin Pending
  /\ \/ mem[s].goal = "active" /\ AppendGoal(s, "paused")
     \/ mem[s].goal = "paused" /\ ~Blocked(s) /\ AppendGoal(s, "active")
     \/ mem[s].goal \in {"active", "paused"} /\ AppendGoal(s, "none")
     \/ ClearsTransferred /\ mem[s].goal = "transferred" /\ AppendGoal(s, "none")
  /\ UNCHANGED <<open, durable, command, records, orientation, lock, turn, crashes, failures>>

\* /goal reclaim: under the lock the file's audit becomes failed with the note that
\* makes a second try possible, then the goal active.
ReclaimLock(s) ==
  LET a == mem[s].last
  IN  /\ Idle(s) /\ ChildAudit(s) \notin Pending
      /\ mem[s].goal = "transferring" /\ a \in Attempts
      /\ lock[s] = Free /\ audit[a] \in Unresolved \union {"reclaimed"}
      /\ lock' = [lock EXCEPT ![s] = [by |-> s, next |-> IF audit[a] = "reclaimed" THEN "goal" ELSE "audit"]]
      /\ UNCHANGED <<open, durable, mem, file, command, records, orientation, turn, crashes, failures>>

ReclaimAudit(s) ==
  /\ lock[s] = [by |-> s, next |-> "audit"]
  /\ \/ /\ AppendAudit(mem[s].last, "reclaimed")
        /\ AppendGoal(s, mem[s].goal)
        /\ lock' = [lock EXCEPT ![s].next = "goal"]
        /\ UNCHANGED failures
     \/ /\ Fail
        /\ lock' = [lock EXCEPT ![s] = Free]
        /\ UNCHANGED <<audit, known, mem, file>>
  /\ UNCHANGED <<open, durable, command, moved, orientation, turn, crashes>>

ReclaimGoal(s) ==
  /\ lock[s] = [by |-> s, next |-> "goal"]
  /\ lock' = [lock EXCEPT ![s] = Free]
  /\ \/ AppendGoal(s, "active") /\ UNCHANGED failures
     \/ Fail /\ UNCHANGED <<mem, file>>
  /\ UNCHANGED <<open, durable, command, records, orientation, turn, crashes>>

\* /tree: back from a goal that was handed off to the branch before the first attempt,
\* where it was active.
Navigate(s) ==
  /\ Idle(s) /\ mem[s].goal \in {"transferring", "transferred"}
  /\ mem' = [mem EXCEPT ![s] = [goal |-> IF s = 0 \/ CarriesGoal(s) THEN "active" ELSE "none", last |-> 0]]
  /\ UNCHANGED <<open, durable, file, command, records, orientation, lock, turn, crashes, failures>>

\* A process opens the session: its last branch, and, in a child, the kickoff again.
Open(s) ==
  /\ ~open[s] /\ durable[s]
  /\ open' = [open EXCEPT ![s] = TRUE]
  /\ mem' = [mem EXCEPT ![s] = file[s]]
  /\ known' = [a \in Attempts |-> IF a \in Made(s) THEN audit[a] ELSE known[a]]
  /\ retry' = [a \in Attempts |-> retry[a] \/ (a = s /\ child[a] = "received")]
  /\ UNCHANGED <<durable, file, command, audit, moved, child, lock, turn, crashes, failures>>

\* The user leaves a child that oriented but could not note it, and takes no input.
Leave(s) ==
  /\ Idle(s) /\ ChildAudit(s) = "received" /\ ~retry[s]
  /\ open' = [open EXCEPT ![s] = FALSE]
  /\ mem' = [mem EXCEPT ![s] = NoBranch]
  /\ UNCHANGED <<durable, file, command, records, orientation, lock, turn, crashes, failures>>

\* The process ends or dies: its command stops where it is, and its lock file stays.
Crash(s) ==
  /\ open[s] /\ crashes < MaxCrashes
  /\ crashes' = crashes + 1
  /\ open' = [open EXCEPT ![s] = FALSE]
  /\ step' = [a \in Attempts |-> IF a \in Commands(s) /\ step[a] = "review" THEN "none"
                                 ELSE IF a \in Commands(s) THEN "over" ELSE step[a]]
  /\ request' = [a \in Attempts |-> IF a \in Commands(s) /\ step[a] = "review" THEN NoRequest ELSE request[a]]
  /\ lock' = [o \in Sessions |-> IF lock[o].by = s THEN Stale ELSE lock[o]]
  /\ turn' = [turn EXCEPT ![s] = "idle"]
  /\ mem' = [mem EXCEPT ![s] = NoBranch]
  /\ Forget(s)
  /\ UNCHANGED <<durable, file, audit, moved, orientation, failures>>

\* Documented recovery: the user removes a lock file no process holds.
ClearLock(s) ==
  /\ lock[s] = Stale
  /\ lock' = [lock EXCEPT ![s] = Free]
  /\ UNCHANGED <<open, durable, mem, file, command, records, orientation, turn, crashes, failures>>

-------------------------------------------------------------------------------

CommandStep(a) ==
  \/ \E s \in Sessions : s < a /\ Begin(a, s)
  \/ Cancel(a) \/ Prepare(a) \/ Move(a) \/ MoveFails(a) \/ Verify(a) \/ VerifyFails(a)
  \/ SwitchCancelled(a) \/ UndoGoal(a) \/ UndoAudit(a)
  \/ Switch(a) \/ Bind(a) \/ BindFails(a) \/ Kickoff(a) \/ KickoffFails(a)

Finalize(a) == FinLock(a) \/ FinGoal(a) \/ FinAudit(a)

ChildStep(a) == Retry(a) \/ Oriented(a) \/ NotOriented(a) \/ Finalize(a) \/ Release(a)

SessionStep(s) ==
  \/ TurnStart(s) \/ TurnEnd(s) \/ GoalCommand(s) \/ Navigate(s)
  \/ ReclaimLock(s) \/ ReclaimAudit(s) \/ ReclaimGoal(s)
  \/ Open(s) \/ Leave(s) \/ Crash(s) \/ ClearLock(s)

Next == (\E a \in Attempts : CommandStep(a) \/ ChildStep(a)) \/ \E s \in Sessions : SessionStep(s)

Spec == Init /\ [][Next]_vars

\* Users reopen, reply, submit the kickoff again and remove stale lock files, and the
\* model answers as asked some time; processes go on with what they began.
Fairness ==
  /\ \A s \in Sessions : WF_vars(Open(s)) /\ WF_vars(ClearLock(s)) /\ WF_vars(Leave(s)) /\ WF_vars(TurnEnd(s))
                           /\ WF_vars(ReclaimAudit(s) \/ ReclaimGoal(s))
  /\ \A a \in Attempts : /\ WF_vars(FinGoal(a) \/ FinAudit(a))
                           /\ WF_vars(Kickoff(a) \/ KickoffFails(a)) /\ WF_vars(Bind(a) \/ BindFails(a))
                           /\ SF_vars(Retry(a)) /\ SF_vars(Oriented(a))
                           /\ SF_vars(FinLock(a)) /\ SF_vars(Release(a))

FairSpec == Spec /\ Fairness

-------------------------------------------------------------------------------
(* Properties *)

\* finalizeParentTransferUnlocked: a parent whose goal already reads transferred, which
\* no reclaim accepts, always has a durable child that can still finish the transfer.
StillFinishable ==
  \A a \in Attempts :
    audit[a] \in Unresolved /\ CarriesGoal(a) /\ file[Origin(a)] = [goal |-> "transferred", last |-> a]
      => child[a] = "awaiting_user" /\ durable[a]

\* handoff-state.ts, goal and self-handoff: the audits give the goal one holder at a time,
\* only the holder runs turns for it, none while it is on offer, however processes
\* crash, reopen stale files, fail to append, reclaim and navigate.
holder ==
  LET passed == {a \in Attempts : CarriesGoal(a) /\ audit[a] = "transferred"}
  IN  IF passed = {} THEN 0 ELSE CHOOSE a \in passed : \A b \in passed : b <= a
offer ==
  LET offered == {a \in Attempts : CarriesGoal(a) /\ audit[a] \in Unresolved}
  IN  IF offered = {} THEN Nobody ELSE CHOOSE a \in offered : TRUE

Ownership == INSTANCE GoalOwnership
               WITH Sessions <- Sessions, Root <- 0, Nobody <- Nobody, holder <- holder,
                    offer <- offer, working <- {s \in Sessions : turn[s] = "work"}

ImplementsGoalOwnership == Ownership!Spec

\* agent_settled, input: once the child's file exists its transfer ends, unless the
\* parent reclaims the goal, and a transferred goal gets to work in the child.
TransferEnds ==
  \A a \in Attempts :
    /\ (CarriesGoal(a) /\ audit[a] = "child_created" /\ durable[a]) ~> (audit[a] # "child_created")
    /\ (CarriesGoal(a) /\ audit[a] = "transferred") ~> (child[a] = "transferred")
===============================================================================
