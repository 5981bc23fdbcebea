-------------------------- MODULE SelfHandoffProofs --------------------------
(***************************************************************************)
(* Proofs about the handoff of a goal, for any number of attempts, crashes *)
(* and failed appends.  HandInv is inductive: it relates how far a command *)
(* is, its audit and its child to each other, to what the branches of the  *)
(* two sessions may read, and to who may hold a lock.  A transfer that     *)
(* reads transferred can be finished.  That one session owns the goal is   *)
(* the subject of the second part.                                         *)
(***************************************************************************)
EXTENDS SelfHandoff, TLAPS

\* TypeOK with names for its sets.
AuditStatus == {"none", "conflict", "prepared", "child_created", "transferred", "cancelled", "failed", "reclaimed"}

Steps == {"none", "review", "prepared", "moved", "verified", "undo", "undone", "switched", "bound", "over"}

LockStates == [by: Sessions, next: {"audit", "goal"}] \union {Free, Stale}

Types ==
  /\ open \in [Sessions -> BOOLEAN] /\ durable \in [Sessions -> BOOLEAN]
  /\ mem \in [Sessions -> Branches] /\ file \in [Sessions -> Branches]
  /\ request \in [Attempts -> Requests]
  /\ step \in [Attempts -> Steps]
  /\ audit \in [Attempts -> AuditStatus] /\ known \in [Attempts -> AuditStatus]
  /\ moved \in [Attempts -> {"no", "transferring", "transferred"}]
  /\ child \in [Attempts -> {"none", "received", "awaiting_user", "transferred", "failed"}]
  /\ retry \in [Attempts -> BOOLEAN]
  /\ lock \in [Sessions -> LockStates]
  /\ turn \in [Sessions -> {"idle", "orient", "work"}]
  /\ crashes \in 0..MaxCrashes /\ failures \in 0..MaxFailures

\* Before its end is recorded the command of an attempt runs in its origin.
Outgoing == {"review", "prepared", "moved", "verified", "undo", "undone"}

\* An attempt is made by an older session, from a goal the session may hold, and its audit
\* begins when its command leaves the review.
RequestInv ==
  \A a \in Attempts :
    /\ Origin(a) < a
    /\ step[a] = "none" => request[a] = NoRequest
    /\ step[a] \in {"none", "review"} <=> audit[a] = "none"
    /\ request[a].goal \notin {"transferring", "transferred"}
    /\ request[a].goal # "none" => Origin(a) = 0 \/ CarriesGoal(Origin(a))

\* Nothing happens in a session that was not created; how far the child is and how far
\* the command and the audit are go together.
ChildInv ==
  \A a \in Attempts :
    /\ open[a] \/ durable[a] \/ turn[a] # "idle" \/ Made(a) # {} \/ (\E o \in Sessions : lock[o].by = a)
         => child[a] # "none"
    /\ child[a] # "none" => step[a] \in {"switched", "bound", "over"}
    /\ step[a] \in {"switched", "bound"} => child[a] = "received"
    /\ child[a] \in {"received", "awaiting_user", "failed"} => Made(a) = {}
    /\ child[a] \in {"awaiting_user", "transferred"} => step[a] = "over" /\ durable[a]
    /\ turn[a] = "orient" => step[a] = "over" /\ child[a] = "received"
    /\ audit[a] \in {"child_created", "transferred"} => step[a] \in {"bound", "over"} /\ child[a] # "none"

\* A session with a turn is open, and one with a command does nothing else.
CommandInv ==
  \A s \in Sessions :
    /\ turn[s] # "idle" => open[s]
    /\ \A a \in Commands(s) :
         /\ open[s] /\ turn[s] = "idle" /\ \A o \in Sessions : lock[o].by # s
         /\ \A b \in Commands(s) : a = b

\* What a branch of session s may say.
RightBranch(s, B) ==
  /\ s # 0 /\ B.goal # "none" => CarriesGoal(s) /\ child[s] # "none"
  /\ B.last # 0 => B.last \in Made(s) /\ audit[B.last] # "none"
  /\ B.goal \in {"transferring", "transferred"} => B.last # 0 /\ CarriesGoal(B.last)
  /\ B.goal = "transferred" /\ audit[B.last] \in Unresolved => child[B.last] = "awaiting_user"

\* What is in memory and what is in the file.  The last conjunct of RightBranch is the one
\* that matters: a branch reads transferred only when the child can finish the transfer.
BranchInv == \A s \in Sessions : RightBranch(s, mem[s]) /\ RightBranch(s, file[s])

\* While its command runs in the origin an attempt is the last on the branch, its audit
\* is prepared, and the goal that it moved reads transferring in the file.
StepInv ==
  \A a \in Attempts :
    /\ step[a] = "prepared" \/ moved[a] # "no" => CarriesGoal(a) /\ step[a] \notin {"none", "review"}
    /\ step[a] \in Outgoing => mem[Origin(a)].goal # "transferred"
    /\ step[a] \in {"review", "prepared"} => mem[Origin(a)].goal = request[a].goal
    /\ step[a] \in {"prepared", "moved", "verified", "undo", "undone"} =>
         mem[Origin(a)].last = a /\ (CarriesGoal(a) => audit[a] = "prepared")
    /\ step[a] \in {"moved", "verified"} /\ CarriesGoal(a) /\ file[Origin(a)].last = a
         => file[Origin(a)].goal = "transferring"

\* A lock is the origin's, which reclaims what it reads as transferring, or the child's,
\* which oriented.
LockInv ==
  \A o \in Sessions :
    LET b == lock[o].by IN
    /\ b \in Sessions => open[b] /\ turn[b] = "idle"
    /\ b \in Sessions /\ b # o => b \in Attempts /\ Origin(b) = o /\ child[b] = "awaiting_user"
    /\ b \in Sessions /\ b # o /\ lock[o].next = "goal" => moved[b] # "no"
    /\ b = o => /\ mem[o].goal = "transferring"
                /\ audit[mem[o].last] \in IF lock[o].next = "audit" THEN Unresolved ELSE {"reclaimed"}

\* The inductive invariant.
HandInv == Types /\ RequestInv /\ ChildInv /\ CommandInv /\ BranchInv /\ StepInv /\ LockInv

-------------------------------------------------------------------------------
(* Types *)

\* The reduction of an audit stays an audit.
LEMMA ReducedType ==
  ASSUME NEW old \in AuditStatus, NEW new \in AuditStatus
  PROVE  Reduced(old, new) \in AuditStatus
  BY DEF Reduced, AuditStatus

LEMMA Names ==
  /\ {"none", "conflict", "prepared", "child_created", "transferred", "cancelled", "failed", "reclaimed"} \subseteq AuditStatus
  /\ {"none", "active", "paused", "transferring", "transferred"} \subseteq GoalStatus
  BY DEF AuditStatus, GoalStatus

LEMMA TypedBranches ==
  /\ \A g \in GoalStatus, l \in Sessions : [goal |-> g, last |-> l] \in Branches
  /\ \A B \in Branches : B.goal \in GoalStatus /\ B.last \in Sessions
  /\ \A B \in Branches, g \in GoalStatus : [B EXCEPT !.goal = g] \in Branches
  /\ NoBranch \in Branches
  /\ NoRequest \in Requests
  /\ \A R \in Requests : R.goal \in GoalStatus /\ R.origin \in Sessions
  /\ \A g \in GoalStatus, l \in Sessions : [origin |-> l, goal |-> g] \in Requests
  BY HandoffAssumption DEF Branches, NoBranch, NoRequest, Requests, Sessions, GoalStatus

LEMMA TypedLocks ==
  /\ Free \in LockStates /\ Stale \in LockStates
  /\ \A s \in Sessions : \A n \in {"audit", "goal"} : [by |-> s, next |-> n] \in LockStates
  /\ \A L \in LockStates : \A n \in {"audit", "goal"} : L.by \in Sessions => [L EXCEPT !.next = n] \in LockStates
  /\ \A L \in LockStates : L.by \in Sessions \union {Nobody} /\ (L.by \notin Sessions => L \in {Free, Stale})
  /\ \A L \in LockStates : L.by \in Sessions => L.next \in {"audit", "goal"} /\ L = [by |-> L.by, next |-> L.next]
  /\ Nobody \notin Sessions /\ Attempts \subseteq Sessions /\ 0 \in Sessions /\ 0 \notin Attempts
  /\ Free # Stale
  BY HandoffAssumption DEF LockStates, Free, Stale, Nobody, Sessions, Attempts

LEMMA AppendToType ==
  ASSUME Types, NEW s \in Sessions, NEW g \in GoalStatus, NEW l \in Sessions, AppendTo(s, g, l)
  PROVE  mem' \in [Sessions -> Branches] /\ file' \in [Sessions -> Branches]
  BY TypedBranches DEF Types, AppendTo

LEMMA AppendAuditType ==
  ASSUME Types, NEW a, NEW new \in AuditStatus, AppendAudit(a, new)
  PROVE  audit' \in [Attempts -> AuditStatus] /\ known' \in [Attempts -> AuditStatus]
  <1>1. audit \in [Attempts -> AuditStatus] /\ known \in [Attempts -> AuditStatus]
    BY DEF Types
  <1>2. CASE a \in Attempts
    <2>1. Reduced(audit[a], new) \in AuditStatus /\ Reduced(known[a], new) \in AuditStatus
      BY <1>1, <1>2, ReducedType
    <2> QED
      BY <1>1, <2>1 DEF AppendAudit
  <1>3. CASE a \notin Attempts
    BY <1>1, <1>3 DEF AppendAudit
  <1> QED
    BY <1>2, <1>3

LEMMA AppendAtOriginType ==
  ASSUME Types, NEW a \in Attempts, NEW g \in GoalStatus, AppendAtOrigin(a, g)
  PROVE  file' \in [Sessions -> Branches]
  <1>1. a \in Sessions /\ Origin(a) \in Sessions
    BY TypedLocks, TypedBranches DEF Types, Origin
  <1> QED
    BY <1>1, TypedBranches DEF Types, AppendAtOrigin

LEMMA FailType ==
  ASSUME Types, Fail PROVE failures' \in 0..MaxFailures
  BY HandoffAssumption DEF Types, Fail, CanFail

LEMMA ForgetType ==
  ASSUME Types, NEW s \in Sessions, Forget(s) PROVE known' \in [Attempts -> AuditStatus]
  BY DEF Types, Forget, AuditStatus

LEMMA TypesOK == Types => TypeOK
  BY DEF Types, TypeOK, Steps, AuditStatus, LockStates

\* Every step keeps the types.
LEMMA TypesKept == Types /\ [Next]_vars => Types'
  <1> SUFFICES ASSUME Types, [Next]_vars
               PROVE  Types'
    OBVIOUS
  <1> USE Names, TypedBranches, TypedLocks, HandoffAssumption DEF Types, vars, command, records, orientation, Step, Steps, Origin
  <1>1. ASSUME NEW a \in Attempts, NEW s \in Sessions, s < a, Begin(a, s)
        PROVE  Types'
    <2>1. audit' \in [Attempts -> AuditStatus] /\ known' \in [Attempts -> AuditStatus]
      BY <1>1, AppendAuditType DEF Begin
    <2>2. mem' \in [Sessions -> Branches] /\ file' \in [Sessions -> Branches]
      BY <1>1, AppendToType DEF Begin, AppendGoal
    <2> QED
      BY <1>1, <2>1, <2>2 DEF Begin
  <1>2. ASSUME NEW a \in Attempts, Cancel(a)
        PROVE  Types'
    BY <1>2 DEF Cancel
  <1>3. ASSUME NEW a \in Attempts, Prepare(a)
        PROVE  Types'
    <2>1. audit' \in [Attempts -> AuditStatus] /\ known' \in [Attempts -> AuditStatus]
      BY <1>3, AppendAuditType DEF Prepare
    <2>2. mem' \in [Sessions -> Branches] /\ file' \in [Sessions -> Branches]
      BY <1>3, AppendToType DEF Prepare
    <2> QED
      BY <1>3, <2>1, <2>2 DEF Prepare
  <1>4. ASSUME NEW a \in Attempts, Move(a)
        PROVE  Types'
    BY <1>4, AppendToType DEF Move, AppendGoal
  <1>5. ASSUME NEW a \in Attempts, MoveFails(a)
        PROVE  Types'
    BY <1>5, FailType DEF MoveFails
  <1>6. ASSUME NEW a \in Attempts, Verify(a)
        PROVE  Types'
    BY <1>6 DEF Verify
  <1>7. ASSUME NEW a \in Attempts, VerifyFails(a)
        PROVE  Types'
    BY <1>7, FailType DEF VerifyFails
  <1>8. ASSUME NEW a \in Attempts, SwitchCancelled(a)
        PROVE  Types'
    BY <1>8 DEF SwitchCancelled
  <1>9. ASSUME NEW a \in Attempts, UndoGoal(a)
        PROVE  Types'
    BY <1>9, FailType, AppendToType DEF UndoGoal, AppendGoal
  <1>10. ASSUME NEW a \in Attempts, UndoAudit(a)
        PROVE  Types'
    <2>1. audit' \in [Attempts -> AuditStatus] /\ known' \in [Attempts -> AuditStatus]
      BY <1>10, AppendAuditType DEF UndoAudit
    <2>2. mem' \in [Sessions -> Branches] /\ file' \in [Sessions -> Branches]
      BY <1>10, AppendToType DEF UndoAudit, AppendGoal
    <2> QED
      BY <1>10, <2>1, <2>2, FailType DEF UndoAudit
  <1>11. ASSUME NEW a \in Attempts, Switch(a)
        PROVE  Types'
    BY <1>11, ForgetType DEF Switch, CarriesGoal
  <1>12. ASSUME NEW a \in Attempts, Bind(a)
        PROVE  Types'
    <2>1. file' \in [Sessions -> Branches]
      BY <1>12, AppendAtOriginType DEF Bind
    <2>2. audit' \in [Attempts -> AuditStatus]
      BY <1>12, ReducedType DEF Bind
    <2> QED
      BY <1>12, <2>1, <2>2 DEF Bind
  <1>13. ASSUME NEW a \in Attempts, BindFails(a)
        PROVE  Types'
    BY <1>13, FailType DEF BindFails, CarriesGoal
  <1>14. ASSUME NEW a \in Attempts, Kickoff(a)
        PROVE  Types'
    BY <1>14 DEF Kickoff
  <1>15. ASSUME NEW a \in Attempts, KickoffFails(a)
        PROVE  Types'
    BY <1>15 DEF KickoffFails
  <1>16. ASSUME NEW a \in Attempts, Retry(a)
        PROVE  Types'
    BY <1>16 DEF Retry, Idle
  <1>17. ASSUME NEW a \in Attempts, Oriented(a)
        PROVE  Types'
    <2>1. Settles(a, TRUE) /\ failures' \in 0..MaxFailures
      BY <1>17, FailType DEF Oriented
    <2>2. a \in Sessions /\ mem[a] \in Branches
      OBVIOUS
    <2>3. file' \in [Sessions -> Branches]
      BY <2>1, <2>2 DEF Settles
    <2>4. durable' \in [Sessions -> BOOLEAN]
      BY <2>1, <2>2 DEF Settles
    <2>5. child' \in [Attempts -> {"none", "received", "awaiting_user", "transferred", "failed"}]
      BY <1>17 DEF Oriented
    <2>6. retry' \in [Attempts -> BOOLEAN]
      BY <1>17 DEF Oriented
    <2> QED
      BY <1>17, <2>1, <2>3, <2>4, <2>5, <2>6 DEF Oriented, Settles
  <1>18. ASSUME NEW a \in Attempts, NotOriented(a)
        PROVE  Types'
    <2>1. PICK answered \in BOOLEAN : Settles(a, answered)
      BY <1>18 DEF NotOriented
    <2>2. a \in Sessions /\ mem[a] \in Branches
      OBVIOUS
    <2>3. file' \in [Sessions -> Branches]
      BY <2>1, <2>2 DEF Settles
    <2>4. durable' \in [Sessions -> BOOLEAN]
      BY <2>1, <2>2 DEF Settles
    <2>5. child' \in [Attempts -> {"none", "received", "awaiting_user", "transferred", "failed"}]
      BY <1>18 DEF NotOriented
    <2>6. retry' \in [Attempts -> BOOLEAN]
      BY <1>18 DEF NotOriented
    <2> QED
      BY <1>18, <2>1, <2>3, <2>4, <2>5, <2>6 DEF NotOriented, Settles
  <1>19. ASSUME NEW a \in Attempts, FinLock(a)
        PROVE  Types'
    BY <1>19 DEF FinLock, Idle, Finalizable
  <1>20. ASSUME NEW a \in Attempts, FinGoal(a)
        PROVE  Types'
    <2>1. file' \in [Sessions -> Branches]
      BY <1>20, AppendAtOriginType DEF FinGoal
    <2>2. lock' \in [Sessions -> LockStates]
      <3>1. Origin(a) \in Sessions /\ [by |-> a, next |-> "audit"] \in LockStates
        OBVIOUS
      <3>2. \/ lock' = [lock EXCEPT ![Origin(a)] = [by |-> a, next |-> "audit"]]
            \/ lock' = [lock EXCEPT ![Origin(a)] = Free]
        BY <1>20 DEF FinGoal
      <3>3. CASE lock' = [lock EXCEPT ![Origin(a)] = [by |-> a, next |-> "audit"]]
        BY <3>1, <3>3
      <3>4. CASE lock' = [lock EXCEPT ![Origin(a)] = Free]
        BY <3>4
      <3> QED
        BY <3>2, <3>3, <3>4
    <2>3. failures' \in 0..MaxFailures
      BY <1>20, FailType DEF FinGoal
    <2>4. moved' \in [Attempts -> {"no", "transferring", "transferred"}]
      BY <1>20 DEF FinGoal
    <2> QED
      BY <1>20, <2>1, <2>2, <2>3, <2>4 DEF FinGoal
  <1>21. ASSUME NEW a \in Attempts, FinAudit(a)
        PROVE  Types'
    <2>1. file' \in [Sessions -> Branches]
      BY <1>21, AppendAtOriginType DEF FinAudit
    <2>2. Reduced(audit[a], "transferred") \in AuditStatus
      BY ReducedType
    <2>3. audit' = audit \/ audit' = [audit EXCEPT ![a] = Reduced(audit[a], "transferred")]
      BY <1>21 DEF FinAudit
    <2>4. audit' \in [Attempts -> AuditStatus]
      <3>1. CASE audit' = [audit EXCEPT ![a] = Reduced(audit[a], "transferred")]
        BY <2>2, <3>1
      <3> QED
        BY <2>3, <3>1
    <2> QED
      BY <1>21, <2>1, <2>4, FailType DEF FinAudit
  <1>22. ASSUME NEW a \in Attempts, Release(a)
        PROVE  Types'
    BY <1>22 DEF Release, Idle
  <1>23. ASSUME NEW s \in Sessions, TurnStart(s)
        PROVE  Types'
    BY <1>23, AppendToType DEF TurnStart, AppendGoal, Idle
  <1>24. ASSUME NEW s \in Sessions, TurnEnd(s)
        PROVE  Types'
    BY <1>24 DEF TurnEnd
  <1>25. ASSUME NEW s \in Sessions, GoalCommand(s)
        PROVE  Types'
    BY <1>25, AppendToType DEF GoalCommand, AppendGoal, Idle
  <1>26. ASSUME NEW s \in Sessions, ReclaimLock(s)
        PROVE  Types'
    BY <1>26 DEF ReclaimLock, Idle
  <1>27. ASSUME NEW s \in Sessions, ReclaimAudit(s)
        PROVE  Types'
    <2>1. audit' \in [Attempts -> AuditStatus] /\ known' \in [Attempts -> AuditStatus]
      <3>1. CASE AppendAudit(mem[s].last, "reclaimed")
        BY <3>1, AppendAuditType
      <3> QED
        BY <1>27, <3>1 DEF ReclaimAudit
    <2>2. mem' \in [Sessions -> Branches] /\ file' \in [Sessions -> Branches]
      BY <1>27, AppendToType DEF ReclaimAudit, AppendGoal
    <2>3. lock' \in [Sessions -> LockStates]
      <3>1. [by |-> s, next |-> "goal"] \in LockStates
        OBVIOUS
      <3>2. \/ lock' = [lock EXCEPT ![s] = [by |-> s, next |-> "goal"]]
            \/ lock' = [lock EXCEPT ![s] = Free]
        BY <1>27 DEF ReclaimAudit
      <3>3. CASE lock' = [lock EXCEPT ![s] = [by |-> s, next |-> "goal"]]
        BY <3>1, <3>3
      <3>4. CASE lock' = [lock EXCEPT ![s] = Free]
        BY <3>4
      <3> QED
        BY <3>2, <3>3, <3>4
    <2> QED
      BY <1>27, <2>1, <2>2, <2>3, FailType DEF ReclaimAudit
  <1>28. ASSUME NEW s \in Sessions, ReclaimGoal(s)
        PROVE  Types'
    BY <1>28, FailType, AppendToType DEF ReclaimGoal, AppendGoal
  <1>29. ASSUME NEW s \in Sessions, Navigate(s)
        PROVE  Types'
    BY <1>29 DEF Navigate, Idle, CarriesGoal
  <1>30. ASSUME NEW s \in Sessions, Open(s)
        PROVE  Types'
    BY <1>30 DEF Open
  <1>31. ASSUME NEW s \in Sessions, Leave(s)
        PROVE  Types'
    BY <1>31 DEF Leave, Idle
  <1>32. ASSUME NEW s \in Sessions, Crash(s)
        PROVE  Types'
    <2>1. crashes' \in 0..MaxCrashes
      BY <1>32 DEF Crash
    <2>2. known' \in [Attempts -> AuditStatus]
      BY <1>32, ForgetType DEF Crash
    <2>3. lock' \in [Sessions -> LockStates]
      BY <1>32 DEF Crash
    <2>4. step' \in [Attempts -> Steps] /\ request' \in [Attempts -> Requests]
      BY <1>32 DEF Crash
    <2> QED
      BY <1>32, <2>1, <2>2, <2>3, <2>4 DEF Crash
  <1>33. ASSUME NEW s \in Sessions, ClearLock(s)
        PROVE  Types'
    BY <1>33 DEF ClearLock
  <1>34. CASE UNCHANGED vars
    BY <1>34
  <1> QED
    BY <1>1, <1>2, <1>3, <1>4, <1>5, <1>6, <1>7, <1>8, <1>9, <1>10, <1>11, <1>12, <1>13, <1>14, <1>15, <1>16, <1>17, <1>18, <1>19, <1>20, <1>21, <1>22, <1>23, <1>24, <1>25, <1>26, <1>27, <1>28, <1>29, <1>30, <1>31, <1>32, <1>33, <1>34
    DEF Next, CommandStep, ChildStep, Finalize, SessionStep

\* The reduction of an audit allows each end once and no other order.
LEMMA ReducedNames ==
  /\ \A old, new : Reduced(old, new) \in {new, "conflict"}
  /\ Reduced("none", "prepared") = "prepared"
  /\ Reduced("prepared", "child_created") = "child_created"
  /\ Reduced("child_created", "transferred") = "transferred"
  /\ \A old \in Unresolved : Reduced(old, "failed") = "failed" /\ Reduced(old, "reclaimed") = "reclaimed"
  /\ Reduced("prepared", "cancelled") = "cancelled"
  /\ \A new : \A old \in {"transferred", "reclaimed", "failed", "cancelled", "conflict"} : Reduced(old, new) = "conflict"
  BY DEF Reduced, Unresolved

-------------------------------------------------------------------------------
(* The requests *)

\* What the invariant says of one attempt.
LEMMA RequestFacts ==
  ASSUME HandInv, NEW a \in Attempts
  PROVE  /\ Origin(a) \in Sessions /\ Origin(a) < a
         /\ Origin(a) # 0 => Origin(a) \in Attempts
         /\ step[a] = "none" => ~CarriesGoal(a) /\ request[a].goal = "none"
         /\ step[a] \in {"none", "review"} <=> audit[a] = "none"
         /\ request[a].goal # "none" => Origin(a) = 0 \/ CarriesGoal(Origin(a))
         /\ request[a].goal \notin {"transferring", "transferred"}
         /\ request[a] \in Requests
  <1>1. request[a] \in Requests /\ RequestInv
    BY DEF HandInv, Types
  <1> QED
    BY <1>1, HandoffAssumption DEF RequestInv, Requests, Sessions, Attempts, CarriesGoal, Origin, NoRequest

\* A recorded end changes the audit of its attempt and begins none.
LEMMA AuditKept ==
  ASSUME HandInv, NEW p \in Attempts, audit[p] # "none", NEW new \in AuditStatus \ {"none"}, AppendAudit(p, new)
  PROVE  \A b \in Attempts : /\ audit'[b] = "none" <=> audit[b] = "none"
                             /\ b # p => audit'[b] = audit[b]
  <1>1. audit' = [audit EXCEPT ![p] = Reduced(audit[p], new)] /\ audit \in [Attempts -> AuditStatus]
    BY DEF AppendAudit, HandInv, Types
  <1>2. Reduced(audit[p], new) # "none"
    BY ReducedNames
  <1> QED
    BY <1>1, <1>2

\* What the invariant says of the branches of one session.
LEMMA BranchFacts ==
  ASSUME HandInv, NEW s \in Sessions
  PROVE  /\ mem[s].last \in Attempts => mem[s].last \in Made(s) /\ audit[mem[s].last] # "none"
         /\ file[s].last \in Attempts => file[s].last \in Made(s) /\ audit[file[s].last] # "none"
         /\ mem[s].last \in Sessions /\ file[s].last \in Sessions
         /\ mem[s].goal \in GoalStatus /\ file[s].goal \in GoalStatus
         /\ mem[s].goal # "none" \/ file[s].goal # "none" => s = 0 \/ (s \in Attempts /\ CarriesGoal(s) /\ child[s] # "none")
         /\ mem[s].goal \in {"transferring", "transferred"} => mem[s].last \in Attempts /\ CarriesGoal(mem[s].last)
         /\ file[s].goal \in {"transferring", "transferred"} => file[s].last \in Attempts /\ CarriesGoal(file[s].last)
  <1>1. mem[s] \in Branches /\ file[s] \in Branches
    BY DEF HandInv, Types
  <1>2. /\ mem[s].last \in Sessions /\ file[s].last \in Sessions
        /\ mem[s].goal \in GoalStatus /\ file[s].goal \in GoalStatus
    BY <1>1, TypedBranches
  <1>3. \A p \in Sessions : p # 0 <=> p \in Attempts
    BY HandoffAssumption DEF Sessions, Attempts
  <1> QED
    BY <1>2, <1>3 DEF HandInv, BranchInv, RightBranch

LEMMA RequestBegin ==
  ASSUME HandInv, NEW a \in Attempts, NEW s \in Sessions, s < a, Begin(a, s)
  PROVE  RequestInv'
  <1>1. audit[a] = "none" /\ step[a] = "none" /\ ~CarriesGoal(a)
    BY RequestFacts DEF Begin, Step
  <1>2. \A b \in Attempts : audit'[b] = "none" <=> audit[b] = "none"
    <2>1. CASE mem[s].last \in Attempts /\ AppendAudit(mem[s].last, "failed")
      BY <2>1, AuditKept, BranchFacts, Names
    <2> QED
      BY <2>1 DEF Begin
  <1>3. request \in [Attempts -> Requests] /\ step \in [Attempts -> Steps]
    BY DEF HandInv, Types
  <1>4. /\ request'[a] = [origin |-> s, goal |-> mem[s].goal] /\ step'[a] = "review"
        /\ \A b \in Attempts : b # a => request'[b] = request[b] /\ step'[b] = step[b]
    BY <1>3 DEF Begin, Step
  <1>5. mem[s].goal \notin {"transferring", "transferred"} /\ (mem[s].goal # "none" => s = 0 \/ (s \in Attempts /\ CarriesGoal(s)))
    BY BranchFacts DEF Begin
  <1>6. s # a
    BY HandoffAssumption DEF Sessions, Attempts
  <1>7. ASSUME NEW b \in Attempts
        PROVE  /\ Origin(b)' < b
               /\ step'[b] = "none" => request'[b] = NoRequest
               /\ step'[b] \in {"none", "review"} <=> audit'[b] = "none"
               /\ request'[b].goal \notin {"transferring", "transferred"}
               /\ request'[b].goal # "none" => Origin(b)' = 0 \/ CarriesGoal(Origin(b))'
    <2>1. CASE b = a
      BY <1>1, <1>2, <1>4, <1>5, <1>6, <2>1 DEF Origin, CarriesGoal
    <2>2. CASE b # a
      <3>1. request'[b] = request[b] /\ step'[b] = step[b]
        BY <1>4, <2>2
      <3>2. RequestInv
        BY DEF HandInv
      <3>3. request[b].goal # "none" /\ Origin(b) # 0 => Origin(b) \in Attempts /\ Origin(b) # a
        BY <1>1, RequestFacts
      <3> QED
        BY <1>2, <1>4, <3>1, <3>2, <3>3, RequestFacts DEF RequestInv, Origin, CarriesGoal
    <2> QED
      BY <2>1, <2>2
  <1> QED
    BY <1>7 DEF RequestInv

\* A command that ends in review leaves nothing behind.
LEMMA RequestDropped ==
  ASSUME HandInv, NEW D \in SUBSET Attempts, UNCHANGED audit,
         \A b \in D : step[b] = "review" /\ step'[b] = "none" /\ request'[b] = NoRequest,
         \A b \in Attempts \ D : /\ request'[b] = request[b]
                                 /\ step'[b] = step[b] \/ (step'[b] = "over" /\ audit[b] # "none")
  PROVE  RequestInv'
  <1>1. ASSUME NEW b \in Attempts
        PROVE  /\ Origin(b)' < b
               /\ step'[b] = "none" => request'[b] = NoRequest
               /\ step'[b] \in {"none", "review"} <=> audit'[b] = "none"
               /\ request'[b].goal \notin {"transferring", "transferred"}
               /\ request'[b].goal # "none" => Origin(b)' = 0 \/ CarriesGoal(Origin(b))'
    <2>1. CASE b \in D
      <3>1. 0 < b
        BY HandoffAssumption DEF Attempts
      <3> QED
        BY <2>1, <3>1, RequestFacts DEF Origin, CarriesGoal, NoRequest
    <2>2. CASE b \notin D
      <3>1. RequestInv
        BY DEF HandInv
      <3>2. request[b].goal # "none" /\ Origin(b) # 0 => Origin(b) \in Attempts \ D
        <4>1. ASSUME request[b].goal # "none", Origin(b) \in D
              PROVE  FALSE
          <5>1. step[b] # "none" /\ Origin(b) \in Attempts /\ step[Origin(b)] = "review"
            BY <4>1, RequestFacts
          <5>2. b \in Made(Origin(b)) /\ child[Origin(b)] = "none"
            BY <5>1 DEF Made, HandInv, ChildInv
          <5> QED
            BY <5>1, <5>2 DEF HandInv, ChildInv
        <4> QED
          BY <4>1, RequestFacts
      <3> QED
        BY <2>2, <3>1, <3>2, RequestFacts DEF RequestInv, Origin, CarriesGoal
    <2> QED
      BY <2>1, <2>2
  <1> QED
    BY <1>1 DEF RequestInv

LEMMA RequestCrash ==
  ASSUME HandInv, NEW s \in Sessions, Crash(s)
  PROVE  RequestInv'
  <1> DEFINE D == {b \in Commands(s) : step[b] = "review"}
  <1>1. D \subseteq Attempts /\ Commands(s) \subseteq Attempts
    BY DEF Commands, Made
  <1>2. \A b \in Commands(s) : step[b] # "none"
    BY DEF Commands, Made
  <1>3. \A b \in D : step[b] = "review" /\ step'[b] = "none" /\ request'[b] = NoRequest
    BY <1>1 DEF Crash
  <1>4. \A b \in Attempts \ D : /\ request'[b] = request[b]
                                /\ step'[b] = step[b] \/ (step'[b] = "over" /\ audit[b] # "none")
    BY <1>1, <1>2, RequestFacts DEF Crash
  <1>5. UNCHANGED audit
    BY DEF Crash
  <1> QED
    BY <1>1, <1>3, <1>4, <1>5, RequestDropped

LEMMA RequestCancel ==
  ASSUME HandInv, NEW a \in Attempts, Cancel(a)
  PROVE  RequestInv'
  <1>1. /\ \A b \in {a} : step[b] = "review" /\ step'[b] = "none" /\ request'[b] = NoRequest
        /\ \A b \in Attempts \ {a} : request'[b] = request[b] /\ step'[b] = step[b]
        /\ UNCHANGED audit
    BY DEF Cancel, records, Step, HandInv, Types
  <1> QED
    BY <1>1, RequestDropped

LEMMA RequestQuiet ==
  ASSUME HandInv, UNCHANGED command, \A b \in Attempts : audit'[b] = "none" <=> audit[b] = "none"
  PROVE  RequestInv'
  BY DEF HandInv, RequestInv, Origin, CarriesGoal, command

LEMMA RequestFinAudit ==
  ASSUME HandInv, NEW a \in Attempts, FinAudit(a)
  PROVE  RequestInv'
  <1>1. Origin(a) \in Sessions /\ a \in Sessions /\ Origin(a) # a /\ lock[Origin(a)].by = a
    BY RequestFacts, TypedLocks, HandoffAssumption DEF FinAudit, Attempts, Sessions
  <1>2. audit[a] # "none" /\ Reduced(audit[a], "transferred") # "none"
    BY <1>1, RequestFacts, ReducedNames DEF HandInv, LockInv, ChildInv
  <1>3. \A b \in Attempts : audit'[b] = "none" <=> audit[b] = "none"
    BY <1>2 DEF FinAudit, HandInv, Types
  <1>4. UNCHANGED command
    BY DEF FinAudit
  <1> QED
    BY <1>3, <1>4, RequestQuiet

LEMMA RequestReclaimAudit ==
  ASSUME HandInv, NEW s \in Sessions, ReclaimAudit(s)
  PROVE  RequestInv'
  <1>1. mem[s].last \in Attempts
    BY BranchFacts DEF ReclaimAudit, HandInv, LockInv
  <1>2. \A b \in Attempts : audit'[b] = "none" <=> audit[b] = "none"
    BY <1>1, AuditKept, BranchFacts, Names DEF ReclaimAudit
  <1>3. UNCHANGED command
    BY DEF ReclaimAudit
  <1> QED
    BY <1>2, <1>3, RequestQuiet

\* Every step keeps the requests right.
LEMMA RequestKept == HandInv /\ Types' /\ [Next]_vars => RequestInv'
  <1> SUFFICES ASSUME HandInv, Types', [Next]_vars
               PROVE  RequestInv'
    OBVIOUS
  <1> USE Names, TypedBranches, TypedLocks, ReducedNames DEF HandInv, Types, RequestInv, ChildInv, BranchInv, LockInv, Made, vars, command, records, orientation, Step, Steps, Origin, CarriesGoal
  <1>1. ASSUME NEW a \in Attempts, NEW s \in Sessions, s < a, Begin(a, s)
        PROVE  RequestInv'
    BY <1>1, RequestBegin
  <1>2. ASSUME NEW a \in Attempts, Cancel(a)
        PROVE  RequestInv'
    BY <1>2, RequestCancel
  <1>3. ASSUME NEW a \in Attempts, Prepare(a)
        PROVE  RequestInv'
    BY <1>3 DEF Prepare, AppendAudit, AppendTo
  <1>4. ASSUME NEW a \in Attempts, Move(a)
        PROVE  RequestInv'
    BY <1>4 DEF Move, AppendGoal, AppendTo
  <1>5. ASSUME NEW a \in Attempts, MoveFails(a)
        PROVE  RequestInv'
    BY <1>5 DEF MoveFails
  <1>6. ASSUME NEW a \in Attempts, Verify(a)
        PROVE  RequestInv'
    BY <1>6 DEF Verify
  <1>7. ASSUME NEW a \in Attempts, VerifyFails(a)
        PROVE  RequestInv'
    BY <1>7 DEF VerifyFails
  <1>8. ASSUME NEW a \in Attempts, SwitchCancelled(a)
        PROVE  RequestInv'
    BY <1>8 DEF SwitchCancelled
  <1>9. ASSUME NEW a \in Attempts, UndoGoal(a)
        PROVE  RequestInv'
    BY <1>9 DEF UndoGoal, AppendGoal, AppendTo
  <1>10. ASSUME NEW a \in Attempts, UndoAudit(a)
        PROVE  RequestInv'
    <2>1. audit[a] # "none" /\ step[a] = "undone"
      BY <1>10 DEF UndoAudit
    <2>2. request' = request /\ step' = [step EXCEPT ![a] = "over"]
      BY <1>10 DEF UndoAudit
    <2>3. CASE AppendAudit(a, "cancelled")
      <3>1. \A b \in Attempts : audit'[b] = "none" <=> audit[b] = "none"
        BY <2>1, <2>3, AuditKept
      <3> QED
        BY <2>1, <2>2, <3>1
    <2>4. CASE audit' = audit
      BY <2>1, <2>2, <2>4
    <2> QED
      BY <1>10, <2>3, <2>4 DEF UndoAudit
  <1>11. ASSUME NEW a \in Attempts, Switch(a)
        PROVE  RequestInv'
    BY <1>11 DEF Switch, Forget
  <1>12. ASSUME NEW a \in Attempts, Bind(a)
        PROVE  RequestInv'
    BY <1>12 DEF Bind, AppendAtOrigin
  <1>13. ASSUME NEW a \in Attempts, BindFails(a)
        PROVE  RequestInv'
    BY <1>13 DEF BindFails
  <1>14. ASSUME NEW a \in Attempts, Kickoff(a)
        PROVE  RequestInv'
    BY <1>14 DEF Kickoff
  <1>15. ASSUME NEW a \in Attempts, KickoffFails(a)
        PROVE  RequestInv'
    BY <1>15 DEF KickoffFails
  <1>16. ASSUME NEW a \in Attempts, Retry(a)
        PROVE  RequestInv'
    BY <1>16 DEF Retry, Idle
  <1>17. ASSUME NEW a \in Attempts, Oriented(a)
        PROVE  RequestInv'
    BY <1>17 DEF Oriented, Settles
  <1>18. ASSUME NEW a \in Attempts, NotOriented(a)
        PROVE  RequestInv'
    BY <1>18 DEF NotOriented, Settles
  <1>19. ASSUME NEW a \in Attempts, FinLock(a)
        PROVE  RequestInv'
    BY <1>19 DEF FinLock, Idle, Finalizable
  <1>20. ASSUME NEW a \in Attempts, FinGoal(a)
        PROVE  RequestInv'
    BY <1>20 DEF FinGoal, AppendAtOrigin
  <1>21. ASSUME NEW a \in Attempts, FinAudit(a)
        PROVE  RequestInv'
    BY <1>21, RequestFinAudit
  <1>22. ASSUME NEW a \in Attempts, Release(a)
        PROVE  RequestInv'
    BY <1>22 DEF Release, Idle
  <1>23. ASSUME NEW s \in Sessions, TurnStart(s)
        PROVE  RequestInv'
    BY <1>23 DEF TurnStart, AppendGoal, AppendTo, Idle
  <1>24. ASSUME NEW s \in Sessions, TurnEnd(s)
        PROVE  RequestInv'
    BY <1>24 DEF TurnEnd
  <1>25. ASSUME NEW s \in Sessions, GoalCommand(s)
        PROVE  RequestInv'
    BY <1>25 DEF GoalCommand, AppendGoal, AppendTo, Idle
  <1>26. ASSUME NEW s \in Sessions, ReclaimLock(s)
        PROVE  RequestInv'
    BY <1>26 DEF ReclaimLock, Idle
  <1>27. ASSUME NEW s \in Sessions, ReclaimAudit(s)
        PROVE  RequestInv'
    BY <1>27, RequestReclaimAudit
  <1>28. ASSUME NEW s \in Sessions, ReclaimGoal(s)
        PROVE  RequestInv'
    BY <1>28 DEF ReclaimGoal, AppendGoal, AppendTo
  <1>29. ASSUME NEW s \in Sessions, Navigate(s)
        PROVE  RequestInv'
    BY <1>29 DEF Navigate, Idle
  <1>30. ASSUME NEW s \in Sessions, Open(s)
        PROVE  RequestInv'
    BY <1>30 DEF Open
  <1>31. ASSUME NEW s \in Sessions, Leave(s)
        PROVE  RequestInv'
    BY <1>31 DEF Leave, Idle
  <1>32. ASSUME NEW s \in Sessions, Crash(s)
        PROVE  RequestInv'
    BY <1>32, RequestCrash
  <1>33. ASSUME NEW s \in Sessions, ClearLock(s)
        PROVE  RequestInv'
    BY <1>33 DEF ClearLock
  <1>34. CASE UNCHANGED vars
    BY <1>34
  <1> QED
    BY <1>1, <1>2, <1>3, <1>4, <1>5, <1>6, <1>7, <1>8, <1>9, <1>10, <1>11, <1>12, <1>13, <1>14, <1>15, <1>16, <1>17, <1>18, <1>19, <1>20, <1>21, <1>22, <1>23, <1>24, <1>25, <1>26, <1>27, <1>28, <1>29, <1>30, <1>31, <1>32, <1>33, <1>34
    DEF Next, CommandStep, ChildStep, Finalize, SessionStep

-------------------------------------------------------------------------------
(* Facts about the locks *)

\* Writing one field of a lock is writing the lock.
LEMMA ByField ==
  ASSUME Types, NEW o \in Sessions, NEW s \in Sessions, NEW n, NEW m, lock[o] = [by |-> s, next |-> n]
  PROVE  /\ [lock EXCEPT ![o].next = m] = [lock EXCEPT ![o] = [by |-> s, next |-> m]]
         /\ lock[o].by = s /\ lock[o].next = n
  <1>1. [lock[o] EXCEPT !.next = m] = [by |-> s, next |-> m]
    OBVIOUS
  <1>2. [lock EXCEPT ![o].next = m] = [lock EXCEPT ![o] = [lock[o] EXCEPT !.next = m]]
    OBVIOUS
  <1>3. lock[o].by = s /\ lock[o].next = n
    OBVIOUS
  <1>4. [lock EXCEPT ![o].next = m] = [lock EXCEPT ![o] = [by |-> s, next |-> m]]
    BY <1>1, <1>2, Zenon
  <1> QED
    BY <1>3, <1>4

LEMMA FinGoalLock ==
  ASSUME HandInv, NEW a \in Attempts, FinGoal(a)
  PROVE  /\ Origin(a) \in Sessions /\ lock[Origin(a)].by = a /\ lock[Origin(a)].next = "goal"
         /\ \/ lock' = [lock EXCEPT ![Origin(a)] = [by |-> a, next |-> "audit"]]
            \/ lock' = [lock EXCEPT ![Origin(a)] = Free]
  <1>1. a \in Sessions /\ Origin(a) \in Sessions /\ Types
    BY TypedLocks, RequestFacts DEF HandInv
  <1> QED
    BY <1>1, ByField DEF FinGoal

LEMMA ReclaimAuditLock ==
  ASSUME HandInv, NEW s \in Sessions, ReclaimAudit(s)
  PROVE  /\ lock[s].by = s /\ lock[s].next = "audit"
         /\ \/ /\ lock' = [lock EXCEPT ![s] = [by |-> s, next |-> "goal"]]
               /\ AppendAudit(mem[s].last, "reclaimed")
               /\ AppendGoal(s, mem[s].goal)
            \/ lock' = [lock EXCEPT ![s] = Free] /\ UNCHANGED <<audit, known, mem, file>>
  <1>1. Types
    BY DEF HandInv
  <1> QED
    BY <1>1, ByField DEF ReclaimAudit

\* These steps only give locks back.
GivesBack == \A o \in Sessions : lock'[o].by \in {lock[o].by, Nobody}

LEMMA LocksGivenBack ==
  ASSUME HandInv
  PROVE  /\ \A a \in Attempts : FinGoal(a) \/ FinAudit(a) => GivesBack
         /\ \A s \in Sessions : ReclaimAudit(s) \/ ReclaimGoal(s) \/ Crash(s) \/ ClearLock(s) => GivesBack
  <1>1. lock \in [Sessions -> LockStates] /\ Free.by = Nobody /\ Stale.by = Nobody
    BY DEF HandInv, Types, Free, Stale
  <1>2. ASSUME NEW a \in Attempts, FinGoal(a) PROVE GivesBack
    BY <1>1, <1>2, FinGoalLock DEF GivesBack
  <1>3. ASSUME NEW a \in Attempts, FinAudit(a) PROVE GivesBack
    BY <1>1, <1>3 DEF GivesBack, FinAudit
  <1>4. ASSUME NEW s \in Sessions, ReclaimAudit(s) PROVE GivesBack
    BY <1>1, <1>4, ReclaimAuditLock DEF GivesBack
  <1>5. ASSUME NEW s \in Sessions, ReclaimGoal(s) PROVE GivesBack
    BY <1>1, <1>5 DEF GivesBack, ReclaimGoal
  <1>6. ASSUME NEW s \in Sessions, Crash(s) PROVE GivesBack
    <2>1. lock' = [o \in Sessions |-> IF lock[o].by = s THEN Stale ELSE lock[o]]
      BY <1>6 DEF Crash
    <2> QED
      BY <1>1, <2>1 DEF GivesBack
  <1>7. ASSUME NEW s \in Sessions, ClearLock(s) PROVE GivesBack
    BY <1>1, <1>7 DEF GivesBack, ClearLock
  <1> QED
    BY <1>2, <1>3, <1>4, <1>5, <1>6, <1>7

\* The child that ends a transfer oriented, and is open and idle.
LEMMA EndingFacts ==
  ASSUME HandInv, NEW a \in Attempts, FinGoal(a) \/ FinAudit(a)
  PROVE  /\ Origin(a) \in Sessions /\ Origin(a) # a /\ lock[Origin(a)].by = a
         /\ child[a] = "awaiting_user" /\ step[a] = "over" /\ durable[a] /\ open[a] /\ turn[a] = "idle"
  <1>1. Origin(a) \in Sessions /\ Origin(a) # a /\ a \in Sessions
    BY RequestFacts, TypedLocks, HandoffAssumption DEF Attempts, Sessions
  <1>2. lock[Origin(a)].by = a
    BY FinGoalLock DEF FinAudit
  <1>3. child[a] = "awaiting_user" /\ open[a] /\ turn[a] = "idle"
    BY <1>1, <1>2 DEF HandInv, LockInv
  <1> QED
    BY <1>1, <1>2, <1>3 DEF HandInv, ChildInv

-------------------------------------------------------------------------------
(* The children *)

\* A step that starts nothing in a session and ends no audit keeps the children right.
LEMMA ChildQuiet ==
  ASSUME HandInv, GivesBack, UNCHANGED <<durable, child>>,
         \A a \in Sessions : open'[a] => open[a],
         \A a \in Sessions : turn'[a] \in {turn[a], "idle"},
         \A a \in Attempts :
           /\ \/ step'[a] = step[a]
              \/ step'[a] = "none" /\ step[a] = "review"
              \/ step'[a] = "over" /\ step[a] \notin {"none", "review"}
           /\ request'[a] = request[a] \/ step'[a] = "none"
           /\ audit'[a] \in {"child_created", "transferred"} => audit[a] \in {"child_created", "transferred"}
  PROVE  ChildInv'
  <1>1. ASSUME NEW a \in Attempts PROVE Made(a)' \subseteq Made(a)
    BY DEF Made, Origin
  <1>2. ASSUME NEW a \in Attempts, \E o \in Sessions : lock'[o].by = a
        PROVE  \E o \in Sessions : lock[o].by = a
    BY <1>2, TypedLocks DEF GivesBack
  <1>4. \A a \in Attempts : a \in Sessions
    BY TypedLocks
  <1> QED
    BY <1>1, <1>2, <1>4 DEF HandInv, ChildInv

LEMMA ChildBegin ==
  ASSUME HandInv, NEW a \in Attempts, NEW s \in Sessions, s < a, Begin(a, s)
  PROVE  ChildInv'
  <1>1. UNCHANGED <<open, durable, child, lock, turn>>
    BY DEF Begin, orientation
  <1>2. \A b \in Attempts : audit'[b] \in {"child_created", "transferred"} => audit'[b] = audit[b]
    <2>1. CASE mem[s].last \in Attempts /\ AppendAudit(mem[s].last, "failed")
      BY <2>1, ReducedNames DEF AppendAudit, HandInv, Types
    <2> QED
      BY <2>1 DEF Begin
  <1>3. step[a] = "none" /\ step' = [step EXCEPT ![a] = "review"] /\ request' = [request EXCEPT ![a] = [origin |-> s, goal |-> mem[s].goal]]
    BY DEF Begin, Step
  <1>4. \A b \in Attempts : Made(b)' \subseteq Made(b) \union (IF b = s THEN {a} ELSE {})
    BY <1>3 DEF Made, Origin, HandInv, Types
  <1>5. s \in Attempts => child[s] = "transferred"
    BY DEF Begin, Idle, ChildAudit, HandInv, ChildInv, Types, Pending
  <1>6. ASSUME NEW b \in Attempts
        PROVE  /\ step'[b] \in {"switched", "bound", "over"} <=> step[b] \in {"switched", "bound", "over"}
               /\ step[b] \in {"switched", "bound", "over"} => step'[b] = step[b]
    BY <1>3 DEF HandInv, Types
  <1> QED
    BY <1>1, <1>2, <1>4, <1>5, <1>6 DEF HandInv, ChildInv, Types

LEMMA AuditNotRaised ==
  ASSUME HandInv, NEW p, NEW new \in {"failed", "cancelled", "reclaimed"}, AppendAudit(p, new)
  PROVE  \A b \in Attempts : audit'[b] \in {"none", "child_created", "transferred"} => audit'[b] = audit[b]
  BY ReducedNames DEF AppendAudit, HandInv, Types

LEMMA ChildUndoAudit ==
  ASSUME HandInv, NEW a \in Attempts, UndoAudit(a)
  PROVE  ChildInv'
  <1>1. \A b \in Attempts : audit'[b] \in {"child_created", "transferred"} => audit'[b] = audit[b]
    BY AuditNotRaised DEF UndoAudit
  <1>2. GivesBack
    BY TypedLocks DEF GivesBack, UndoAudit
  <1>3. UNCHANGED <<durable, child>>
    BY DEF UndoAudit, orientation
  <1>4. \A b \in Attempts :
          /\ \/ step'[b] = step[b]
             \/ step'[b] = "none" /\ step[b] = "review"
             \/ step'[b] = "over" /\ step[b] \notin {"none", "review"}
          /\ request'[b] = request[b] \/ step'[b] = "none"
    BY DEF UndoAudit, command, Step, HandInv, Types
  <1>5. \A b \in Sessions : (open'[b] => open[b]) /\ turn'[b] \in {turn[b], "idle"}
    BY DEF UndoAudit, HandInv, Types
  <1> QED
    BY <1>1, <1>2, <1>3, <1>4, <1>5, ChildQuiet

LEMMA ChildFinGoal ==
  ASSUME HandInv, NEW a \in Attempts, FinGoal(a)
  PROVE  ChildInv'
  <1>1. UNCHANGED audit
    BY DEF FinGoal, records
  <1>2. GivesBack
    BY LocksGivenBack DEF GivesBack, FinGoal
  <1>3. UNCHANGED <<durable, child>>
    BY DEF FinGoal, orientation
  <1>4. \A b \in Attempts :
          /\ \/ step'[b] = step[b]
             \/ step'[b] = "none" /\ step[b] = "review"
             \/ step'[b] = "over" /\ step[b] \notin {"none", "review"}
          /\ request'[b] = request[b] \/ step'[b] = "none"
    BY DEF FinGoal, command, Step, HandInv, Types
  <1>5. \A b \in Sessions : (open'[b] => open[b]) /\ turn'[b] \in {turn[b], "idle"}
    BY DEF FinGoal, HandInv, Types
  <1> QED
    BY <1>1, <1>2, <1>3, <1>4, <1>5, ChildQuiet

LEMMA ChildFinAudit ==
  ASSUME HandInv, NEW a \in Attempts, FinAudit(a)
  PROVE  ChildInv'
  <1>1. \A b \in Attempts : audit'[b] \in {"child_created", "transferred"} => audit[b] \in {"child_created", "transferred"}
    BY DEF FinAudit, HandInv, LockInv, ChildInv, Types, Reduced, Unresolved
  <1>2. GivesBack
    BY LocksGivenBack DEF GivesBack, FinAudit
  <1>3. UNCHANGED <<durable, child>>
    BY DEF FinAudit, orientation
  <1>4. \A b \in Attempts :
          /\ \/ step'[b] = step[b]
             \/ step'[b] = "none" /\ step[b] = "review"
             \/ step'[b] = "over" /\ step[b] \notin {"none", "review"}
          /\ request'[b] = request[b] \/ step'[b] = "none"
    BY DEF FinAudit, command, Step, HandInv, Types
  <1>5. \A b \in Sessions : (open'[b] => open[b]) /\ turn'[b] \in {turn[b], "idle"}
    BY DEF FinAudit, HandInv, Types
  <1> QED
    BY <1>1, <1>2, <1>3, <1>4, <1>5, ChildQuiet

LEMMA ChildReclaimAudit ==
  ASSUME HandInv, NEW s \in Sessions, ReclaimAudit(s)
  PROVE  ChildInv'
  <1>1. \A b \in Attempts : audit'[b] \in {"child_created", "transferred"} => audit'[b] = audit[b]
    BY AuditNotRaised DEF ReclaimAudit
  <1>2. GivesBack
    BY LocksGivenBack DEF GivesBack, ReclaimAudit
  <1>3. UNCHANGED <<durable, child>>
    BY DEF ReclaimAudit, orientation
  <1>4. \A b \in Attempts :
          /\ \/ step'[b] = step[b]
             \/ step'[b] = "none" /\ step[b] = "review"
             \/ step'[b] = "over" /\ step[b] \notin {"none", "review"}
          /\ request'[b] = request[b] \/ step'[b] = "none"
    BY DEF ReclaimAudit, command, Step, HandInv, Types
  <1>5. \A b \in Sessions : (open'[b] => open[b]) /\ turn'[b] \in {turn[b], "idle"}
    BY DEF ReclaimAudit, HandInv, Types
  <1> QED
    BY <1>1, <1>2, <1>3, <1>4, <1>5, ChildQuiet

LEMMA ChildReclaimGoal ==
  ASSUME HandInv, NEW s \in Sessions, ReclaimGoal(s)
  PROVE  ChildInv'
  <1>1. UNCHANGED audit
    BY DEF ReclaimGoal, records
  <1>2. GivesBack
    BY LocksGivenBack DEF GivesBack, ReclaimGoal
  <1>3. UNCHANGED <<durable, child>>
    BY DEF ReclaimGoal, orientation
  <1>4. \A b \in Attempts :
          /\ \/ step'[b] = step[b]
             \/ step'[b] = "none" /\ step[b] = "review"
             \/ step'[b] = "over" /\ step[b] \notin {"none", "review"}
          /\ request'[b] = request[b] \/ step'[b] = "none"
    BY DEF ReclaimGoal, command, Step, HandInv, Types
  <1>5. \A b \in Sessions : (open'[b] => open[b]) /\ turn'[b] \in {turn[b], "idle"}
    BY DEF ReclaimGoal, HandInv, Types
  <1> QED
    BY <1>1, <1>2, <1>3, <1>4, <1>5, ChildQuiet

LEMMA ChildCrash ==
  ASSUME HandInv, NEW s \in Sessions, Crash(s)
  PROVE  ChildInv'
  <1>1. UNCHANGED audit
    BY DEF Crash, records
  <1>2. GivesBack
    BY LocksGivenBack DEF GivesBack, Crash
  <1>3. UNCHANGED <<durable, child>>
    BY DEF Crash, orientation
  <1>4. \A b \in Attempts :
          /\ \/ step'[b] = step[b]
             \/ step'[b] = "none" /\ step[b] = "review"
             \/ step'[b] = "over" /\ step[b] \notin {"none", "review"}
          /\ request'[b] = request[b] \/ step'[b] = "none"
    BY DEF Crash, command, Step, HandInv, Types, Commands, Made
  <1>5. \A b \in Sessions : (open'[b] => open[b]) /\ turn'[b] \in {turn[b], "idle"}
    BY DEF Crash, HandInv, Types
  <1> QED
    BY <1>1, <1>2, <1>3, <1>4, <1>5, ChildQuiet

LEMMA ChildClearLock ==
  ASSUME HandInv, NEW s \in Sessions, ClearLock(s)
  PROVE  ChildInv'
  <1>1. UNCHANGED audit
    BY DEF ClearLock, records
  <1>2. GivesBack
    BY LocksGivenBack DEF GivesBack, ClearLock
  <1>3. UNCHANGED <<durable, child>>
    BY DEF ClearLock, orientation
  <1>4. \A b \in Attempts :
          /\ \/ step'[b] = step[b]
             \/ step'[b] = "none" /\ step[b] = "review"
             \/ step'[b] = "over" /\ step[b] \notin {"none", "review"}
          /\ request'[b] = request[b] \/ step'[b] = "none"
    BY DEF ClearLock, command, Step, HandInv, Types
  <1>5. \A b \in Sessions : (open'[b] => open[b]) /\ turn'[b] \in {turn[b], "idle"}
    BY DEF ClearLock, HandInv, Types
  <1> QED
    BY <1>1, <1>2, <1>3, <1>4, <1>5, ChildQuiet

\* Every step keeps the children right.
LEMMA ChildKept == HandInv /\ Types' /\ [Next]_vars => ChildInv'
  <1> SUFFICES ASSUME HandInv, Types', [Next]_vars
               PROVE  ChildInv'
    OBVIOUS
  <1> USE Names, TypedBranches, TypedLocks, ReducedNames DEF HandInv, Types, RequestInv, ChildInv, BranchInv, LockInv, CommandInv, Commands, Made, vars, command, records, orientation, Step, Steps, Origin, CarriesGoal
  <1>1. ASSUME NEW a \in Attempts, NEW s \in Sessions, s < a, Begin(a, s)
        PROVE  ChildInv'
    BY <1>1, ChildBegin
  <1>2. ASSUME NEW a \in Attempts, Cancel(a)
        PROVE  ChildInv'
    BY <1>2 DEF Cancel
  <1>3. ASSUME NEW a \in Attempts, Prepare(a)
        PROVE  ChildInv'
    BY <1>3 DEF Prepare, AppendAudit, AppendTo
  <1>4. ASSUME NEW a \in Attempts, Move(a)
        PROVE  ChildInv'
    BY <1>4 DEF Move, AppendGoal, AppendTo
  <1>5. ASSUME NEW a \in Attempts, MoveFails(a)
        PROVE  ChildInv'
    BY <1>5 DEF MoveFails
  <1>6. ASSUME NEW a \in Attempts, Verify(a)
        PROVE  ChildInv'
    BY <1>6 DEF Verify
  <1>7. ASSUME NEW a \in Attempts, VerifyFails(a)
        PROVE  ChildInv'
    BY <1>7 DEF VerifyFails
  <1>8. ASSUME NEW a \in Attempts, SwitchCancelled(a)
        PROVE  ChildInv'
    BY <1>8 DEF SwitchCancelled
  <1>9. ASSUME NEW a \in Attempts, UndoGoal(a)
        PROVE  ChildInv'
    BY <1>9 DEF UndoGoal, AppendGoal, AppendTo
  <1>10. ASSUME NEW a \in Attempts, UndoAudit(a)
        PROVE  ChildInv'
    BY <1>10, ChildUndoAudit
  <1>11. ASSUME NEW a \in Attempts, Switch(a)
        PROVE  ChildInv'
    BY <1>11 DEF Switch, Forget
  <1>12. ASSUME NEW a \in Attempts, Bind(a)
        PROVE  ChildInv'
    BY <1>12 DEF Bind, AppendAtOrigin
  <1>13. ASSUME NEW a \in Attempts, BindFails(a)
        PROVE  ChildInv'
    BY <1>13 DEF BindFails
  <1>14. ASSUME NEW a \in Attempts, Kickoff(a)
        PROVE  ChildInv'
    BY <1>14 DEF Kickoff
  <1>15. ASSUME NEW a \in Attempts, KickoffFails(a)
        PROVE  ChildInv'
    BY <1>15 DEF KickoffFails
  <1>16. ASSUME NEW a \in Attempts, Retry(a)
        PROVE  ChildInv'
    BY <1>16 DEF Retry, Idle
  <1>17. ASSUME NEW a \in Attempts, Oriented(a)
        PROVE  ChildInv'
    BY <1>17 DEF Oriented, Settles
  <1>18. ASSUME NEW a \in Attempts, NotOriented(a)
        PROVE  ChildInv'
    BY <1>18 DEF NotOriented, Settles
  <1>19. ASSUME NEW a \in Attempts, FinLock(a)
        PROVE  ChildInv'
    BY <1>19 DEF FinLock, Idle, Finalizable
  <1>20. ASSUME NEW a \in Attempts, FinGoal(a)
        PROVE  ChildInv'
    BY <1>20, ChildFinGoal
  <1>21. ASSUME NEW a \in Attempts, FinAudit(a)
        PROVE  ChildInv'
    BY <1>21, ChildFinAudit
  <1>22. ASSUME NEW a \in Attempts, Release(a)
        PROVE  ChildInv'
    BY <1>22 DEF Release, Idle
  <1>23. ASSUME NEW s \in Sessions, TurnStart(s)
        PROVE  ChildInv'
    BY <1>23 DEF TurnStart, AppendGoal, AppendTo, Idle
  <1>24. ASSUME NEW s \in Sessions, TurnEnd(s)
        PROVE  ChildInv'
    BY <1>24 DEF TurnEnd
  <1>25. ASSUME NEW s \in Sessions, GoalCommand(s)
        PROVE  ChildInv'
    BY <1>25 DEF GoalCommand, AppendGoal, AppendTo, Idle
  <1>26. ASSUME NEW s \in Sessions, ReclaimLock(s)
        PROVE  ChildInv'
    BY <1>26 DEF ReclaimLock, Idle
  <1>27. ASSUME NEW s \in Sessions, ReclaimAudit(s)
        PROVE  ChildInv'
    BY <1>27, ChildReclaimAudit
  <1>28. ASSUME NEW s \in Sessions, ReclaimGoal(s)
        PROVE  ChildInv'
    BY <1>28, ChildReclaimGoal
  <1>29. ASSUME NEW s \in Sessions, Navigate(s)
        PROVE  ChildInv'
    BY <1>29 DEF Navigate, Idle
  <1>30. ASSUME NEW s \in Sessions, Open(s)
        PROVE  ChildInv'
    BY <1>30 DEF Open
  <1>31. ASSUME NEW s \in Sessions, Leave(s)
        PROVE  ChildInv'
    BY <1>31 DEF Leave, Idle
  <1>32. ASSUME NEW s \in Sessions, Crash(s)
        PROVE  ChildInv'
    BY <1>32, ChildCrash
  <1>33. ASSUME NEW s \in Sessions, ClearLock(s)
        PROVE  ChildInv'
    BY <1>33, ChildClearLock
  <1>34. CASE UNCHANGED vars
    BY <1>34
  <1> QED
    BY <1>1, <1>2, <1>3, <1>4, <1>5, <1>6, <1>7, <1>8, <1>9, <1>10, <1>11, <1>12, <1>13, <1>14, <1>15, <1>16, <1>17, <1>18, <1>19, <1>20, <1>21, <1>22, <1>23, <1>24, <1>25, <1>26, <1>27, <1>28, <1>29, <1>30, <1>31, <1>32, <1>33, <1>34
    DEF Next, CommandStep, ChildStep, Finalize, SessionStep

-------------------------------------------------------------------------------
(* The commands *)

\* A step after which no session does more keeps the commands alone.
LEMMA CommandQuiet ==
  ASSUME HandInv, GivesBack, UNCHANGED <<open, command, turn>>
  PROVE  CommandInv'
  <1>1. \A s \in Sessions : Commands(s)' = Commands(s)
    BY DEF Commands, Made, Origin, command
  <1>2. ASSUME NEW s \in Sessions, \A o \in Sessions : lock[o].by # s
        PROVE  \A o \in Sessions : lock'[o].by # s
    BY <1>2, TypedLocks DEF GivesBack
  <1> QED
    BY <1>1, <1>2 DEF HandInv, CommandInv

LEMMA CommandCrash ==
  ASSUME HandInv, NEW s \in Sessions, Crash(s)
  PROVE  CommandInv'
  <1>1. \A b \in Attempts : (step'[b] = step[b] /\ request'[b] = request[b] /\ b \notin Commands(s)) \/ step'[b] \in {"none", "over"}
    BY DEF Crash
  <1>2. \A t \in Sessions : Commands(t)' \subseteq Commands(t) \ Commands(s)
    BY <1>1 DEF Commands, Made, Origin
  <1>3. ASSUME NEW t \in Sessions, \A o \in Sessions : lock[o].by # t
        PROVE  \A o \in Sessions : lock'[o].by # t
    BY <1>3, TypedLocks, LocksGivenBack DEF GivesBack
  <1>4. \A t \in Sessions : t # s => open'[t] = open[t] /\ turn'[t] = turn[t]
    BY DEF Crash, HandInv, Types
  <1>5. turn'[s] = "idle"
    BY DEF Crash, HandInv, Types
  <1> QED
    BY <1>2, <1>3, <1>4, <1>5 DEF HandInv, CommandInv

\* Every step keeps the commands alone.
LEMMA CommandKept == HandInv /\ Types' /\ [Next]_vars => CommandInv'
  <1> SUFFICES ASSUME HandInv, Types', [Next]_vars
               PROVE  CommandInv'
    OBVIOUS
  <1> USE Names, TypedBranches, TypedLocks, ReducedNames DEF HandInv, Types, RequestInv, ChildInv, LockInv, CommandInv, Commands, Made, vars, command, records, orientation, Step, Steps, Origin, CarriesGoal
  <1>1. ASSUME NEW a \in Attempts, NEW s \in Sessions, s < a, Begin(a, s)
        PROVE  CommandInv'
    BY <1>1 DEF Begin, AppendAudit, AppendGoal, AppendTo, Idle
  <1>2. ASSUME NEW a \in Attempts, Cancel(a)
        PROVE  CommandInv'
    BY <1>2 DEF Cancel
  <1>3. ASSUME NEW a \in Attempts, Prepare(a)
        PROVE  CommandInv'
    BY <1>3 DEF Prepare, AppendAudit, AppendTo
  <1>4. ASSUME NEW a \in Attempts, Move(a)
        PROVE  CommandInv'
    BY <1>4 DEF Move, AppendGoal, AppendTo
  <1>5. ASSUME NEW a \in Attempts, MoveFails(a)
        PROVE  CommandInv'
    BY <1>5 DEF MoveFails
  <1>6. ASSUME NEW a \in Attempts, Verify(a)
        PROVE  CommandInv'
    BY <1>6 DEF Verify
  <1>7. ASSUME NEW a \in Attempts, VerifyFails(a)
        PROVE  CommandInv'
    BY <1>7 DEF VerifyFails
  <1>8. ASSUME NEW a \in Attempts, SwitchCancelled(a)
        PROVE  CommandInv'
    BY <1>8 DEF SwitchCancelled
  <1>9. ASSUME NEW a \in Attempts, UndoGoal(a)
        PROVE  CommandInv'
    BY <1>9 DEF UndoGoal, AppendGoal, AppendTo
  <1>10. ASSUME NEW a \in Attempts, UndoAudit(a)
        PROVE  CommandInv'
    BY <1>10 DEF UndoAudit, AppendAudit, AppendGoal, AppendTo
  <1>11. ASSUME NEW a \in Attempts, Switch(a)
        PROVE  CommandInv'
    BY <1>11 DEF Switch, Forget
  <1>12. ASSUME NEW a \in Attempts, Bind(a)
        PROVE  CommandInv'
    BY <1>12 DEF Bind, AppendAtOrigin
  <1>13. ASSUME NEW a \in Attempts, BindFails(a)
        PROVE  CommandInv'
    BY <1>13 DEF BindFails
  <1>14. ASSUME NEW a \in Attempts, Kickoff(a)
        PROVE  CommandInv'
    BY <1>14 DEF Kickoff
  <1>15. ASSUME NEW a \in Attempts, KickoffFails(a)
        PROVE  CommandInv'
    BY <1>15 DEF KickoffFails
  <1>16. ASSUME NEW a \in Attempts, Retry(a)
        PROVE  CommandInv'
    BY <1>16 DEF Retry, Idle
  <1>17. ASSUME NEW a \in Attempts, Oriented(a)
        PROVE  CommandInv'
    BY <1>17 DEF Oriented, Settles
  <1>18. ASSUME NEW a \in Attempts, NotOriented(a)
        PROVE  CommandInv'
    BY <1>18 DEF NotOriented, Settles
  <1>19. ASSUME NEW a \in Attempts, FinLock(a)
        PROVE  CommandInv'
    BY <1>19 DEF FinLock, Idle, Finalizable
  <1>20. ASSUME NEW a \in Attempts, FinGoal(a)
        PROVE  CommandInv'
    <2>1. GivesBack /\ UNCHANGED <<open, command, turn>>
      BY <1>20, LocksGivenBack DEF FinGoal
    <2> QED
      BY <2>1, CommandQuiet
  <1>21. ASSUME NEW a \in Attempts, FinAudit(a)
        PROVE  CommandInv'
    <2>1. GivesBack /\ UNCHANGED <<open, command, turn>>
      BY <1>21, LocksGivenBack DEF FinAudit
    <2> QED
      BY <2>1, CommandQuiet
  <1>22. ASSUME NEW a \in Attempts, Release(a)
        PROVE  CommandInv'
    BY <1>22 DEF Release, Idle
  <1>23. ASSUME NEW s \in Sessions, TurnStart(s)
        PROVE  CommandInv'
    BY <1>23 DEF TurnStart, AppendGoal, AppendTo, Idle
  <1>24. ASSUME NEW s \in Sessions, TurnEnd(s)
        PROVE  CommandInv'
    BY <1>24 DEF TurnEnd
  <1>25. ASSUME NEW s \in Sessions, GoalCommand(s)
        PROVE  CommandInv'
    BY <1>25 DEF GoalCommand, AppendGoal, AppendTo, Idle
  <1>26. ASSUME NEW s \in Sessions, ReclaimLock(s)
        PROVE  CommandInv'
    BY <1>26 DEF ReclaimLock, Idle
  <1>27. ASSUME NEW s \in Sessions, ReclaimAudit(s)
        PROVE  CommandInv'
    <2>1. GivesBack /\ UNCHANGED <<open, command, turn>>
      BY <1>27, LocksGivenBack DEF ReclaimAudit
    <2> QED
      BY <2>1, CommandQuiet
  <1>28. ASSUME NEW s \in Sessions, ReclaimGoal(s)
        PROVE  CommandInv'
    <2>1. GivesBack /\ UNCHANGED <<open, command, turn>>
      BY <1>28, LocksGivenBack DEF ReclaimGoal
    <2> QED
      BY <2>1, CommandQuiet
  <1>29. ASSUME NEW s \in Sessions, Navigate(s)
        PROVE  CommandInv'
    BY <1>29 DEF Navigate, Idle
  <1>30. ASSUME NEW s \in Sessions, Open(s)
        PROVE  CommandInv'
    BY <1>30 DEF Open
  <1>31. ASSUME NEW s \in Sessions, Leave(s)
        PROVE  CommandInv'
    BY <1>31 DEF Leave, Idle
  <1>32. ASSUME NEW s \in Sessions, Crash(s)
        PROVE  CommandInv'
    BY <1>32, CommandCrash
  <1>33. ASSUME NEW s \in Sessions, ClearLock(s)
        PROVE  CommandInv'
    <2>1. GivesBack /\ UNCHANGED <<open, command, turn>>
      BY <1>33, LocksGivenBack DEF ClearLock
    <2> QED
      BY <2>1, CommandQuiet
  <1>34. CASE UNCHANGED vars
    BY <1>34
  <1> QED
    BY <1>1, <1>2, <1>3, <1>4, <1>5, <1>6, <1>7, <1>8, <1>9, <1>10, <1>11, <1>12, <1>13, <1>14, <1>15, <1>16, <1>17, <1>18, <1>19, <1>20, <1>21, <1>22, <1>23, <1>24, <1>25, <1>26, <1>27, <1>28, <1>29, <1>30, <1>31, <1>32, <1>33, <1>34
    DEF Next, CommandStep, ChildStep, Finalize, SessionStep

-------------------------------------------------------------------------------
(* The steps of a command *)

\* The command of an attempt has its origin to itself.
LEMMA Alone ==
  ASSUME HandInv, NEW a \in Attempts, step[a] \in Outgoing
  PROVE  /\ Origin(a) \in Sessions /\ open[Origin(a)] /\ ~Idle(Origin(a))
         /\ \A b \in Attempts : step[b] \in Outgoing /\ Origin(b) = Origin(a) => a = b
         /\ Origin(a) \in Attempts => child[Origin(a)] = "transferred"
  <1>1. \A b \in Attempts : step[b] \in Outgoing => b \in Commands(Origin(b)) /\ b \in Made(Origin(b))
    BY DEF Commands, Made, Outgoing
  <1>2. Origin(a) \in Sessions
    BY RequestFacts
  <1>3. Origin(a) \in Attempts => child[Origin(a)] = "transferred"
    BY <1>1 DEF HandInv, ChildInv, Types
  <1> QED
    BY <1>1, <1>2, <1>3 DEF HandInv, CommandInv, Idle

\* A step that leaves a running command and the branch it works on alone keeps it
\* right.
LEMMA StepQuiet ==
  ASSUME HandInv,
         \A b \in Attempts :
           /\ moved'[b] # "no" => moved[b] # "no"
           /\ moved[b] # "no" => step'[b] \notin {"none", "review"} /\ request'[b] = request[b]
           /\ step'[b] \in Outgoing =>
                \/ /\ step'[b] = step[b] /\ request'[b] = request[b] /\ audit'[b] = audit[b]
                   /\ mem'[Origin(b)] = mem[Origin(b)]
                   /\ file'[Origin(b)] = file[Origin(b)] \/ file'[Origin(b)].last # b
                \/ /\ step'[b] = "review"
                   /\ mem'[request'[b].origin].goal = request'[b].goal /\ request'[b].goal # "transferred"
  PROVE  StepInv'
  <1>1. ASSUME NEW b \in Attempts, step'[b] \in Outgoing
        PROVE  /\ mem'[Origin(b)'].goal # "transferred"
               /\ step'[b] = "prepared" => CarriesGoal(b)'
               /\ step'[b] \in {"review", "prepared"} => mem'[Origin(b)'].goal = request'[b].goal
               /\ step'[b] \in {"prepared", "moved", "verified", "undo", "undone"} =>
                    mem'[Origin(b)'].last = b /\ (CarriesGoal(b)' => audit'[b] = "prepared")
               /\ step'[b] \in {"moved", "verified"} /\ CarriesGoal(b)' /\ file'[Origin(b)'].last = b
                    => file'[Origin(b)'].goal = "transferring"
    <2>1. CASE step'[b] = step[b] /\ request'[b] = request[b]
      <3>1. Origin(b)' = Origin(b) /\ CarriesGoal(b)' = CarriesGoal(b)
        BY <2>1 DEF Origin, CarriesGoal
      <3>2. CASE step'[b] = "review" /\ mem'[request'[b].origin].goal = request'[b].goal /\ request'[b].goal # "transferred"
        BY <3>2 DEF Origin
      <3> QED
        BY <1>1, <2>1, <3>1, <3>2 DEF HandInv, StepInv
    <2>2. CASE step'[b] = "review"
      BY <1>1, <2>1, <2>2 DEF Origin
    <2> QED
      BY <1>1, <2>1, <2>2
  <1>2. {"review", "prepared", "moved", "verified", "undo", "undone"} \subseteq Outgoing
    BY DEF Outgoing
  <1>3. \A b \in Attempts : moved'[b] # "no" => CarriesGoal(b)' /\ step'[b] \notin {"none", "review"}
    BY DEF HandInv, StepInv, CarriesGoal
  <1> QED
    BY <1>1, <1>2, <1>3 DEF StepInv

LEMMA MovedSteady ==
  ASSUME HandInv, NEW b \in Attempts, moved[b] # "no"
  PROVE  step[b] \notin {"none", "review"} /\ CarriesGoal(b)
  BY DEF HandInv, StepInv

LEMMA StepUndoAudit ==
  ASSUME HandInv, NEW a \in Attempts, UndoAudit(a)
  PROVE  StepInv'
  <1>1. step[a] = "undone" /\ step' = [step EXCEPT ![a] = "over"] /\ request' = request
    BY DEF UndoAudit, Step
  <1>2. ASSUME NEW b \in Attempts, step'[b] \in Outgoing
        PROVE  b # a /\ step'[b] = step[b] /\ Origin(b) # Origin(a)
    <2>1. b # a /\ step'[b] = step[b]
      BY <1>1, <1>2 DEF Outgoing, HandInv, Types
    <2>2. step[a] \in Outgoing
      BY <1>1 DEF Outgoing
    <2> QED
      BY <1>2, <2>1, <2>2, Alone
  <1>5. \A b \in Attempts : /\ moved'[b] # "no" => moved[b] # "no"
                            /\ moved[b] # "no" => step'[b] \notin {"none", "review"} /\ request'[b] = request[b]
    BY MovedSteady DEF UndoAudit, Step, command, records, HandInv, Types
  <1>3. CASE AppendAudit(a, "cancelled") /\ AppendGoal(Origin(a), mem[Origin(a)].goal)
    <2>1. \A b \in Attempts : b # a => audit'[b] = audit[b]
      BY <1>3 DEF AppendAudit, HandInv, Types
    <2>2. \A o \in Sessions : o # Origin(a) => mem'[o] = mem[o] /\ file'[o] = file[o]
      BY <1>3 DEF AppendGoal, AppendTo, HandInv, Types
    <2> QED
      BY <1>1, <1>2, <1>5, <2>1, <2>2, RequestFacts, StepQuiet
  <1>4. CASE UNCHANGED <<audit, mem, file>>
    BY <1>1, <1>2, <1>4, <1>5, StepQuiet
  <1> QED
    BY <1>3, <1>4 DEF UndoAudit

LEMMA StepSwitch ==
  ASSUME HandInv, NEW a \in Attempts, Switch(a)
  PROVE  StepInv'
  <1>1. step[a] = "verified" /\ step' = [step EXCEPT ![a] = "switched"] /\ UNCHANGED <<request, audit, file>>
    BY DEF Switch, Step
  <1>2. child[a] = "none"
    BY <1>1 DEF HandInv, ChildInv
  <1>3. ASSUME NEW b \in Attempts, step'[b] \in Outgoing
        PROVE  b # a /\ step'[b] = step[b] /\ Origin(b) # Origin(a) /\ Origin(b) # a /\ Origin(b) \in Sessions
    <2>1. b # a /\ step'[b] = step[b]
      BY <1>1, <1>3 DEF Outgoing, HandInv, Types
    <2>2. step[a] \in Outgoing
      BY <1>1 DEF Outgoing
    <2> QED
      BY <1>2, <1>3, <2>1, <2>2, Alone
  <1>4. \A o \in Sessions : o # Origin(a) /\ o # a => mem'[o] = mem[o]
    BY DEF Switch, HandInv, Types
  <1>5. \A b \in Attempts : /\ moved'[b] # "no" => moved[b] # "no"
                            /\ moved[b] # "no" => step'[b] \notin {"none", "review"} /\ request'[b] = request[b]
    BY MovedSteady DEF Switch, Step, command, records, HandInv, Types
  <1> QED
    BY <1>1, <1>3, <1>4, <1>5, StepQuiet

LEMMA StepOriented ==
  ASSUME HandInv, NEW a \in Attempts, Oriented(a)
  PROVE  StepInv'
  <1>1. child[a] = "received"
    BY DEF Oriented, Settles, HandInv, ChildInv
  <1>2. UNCHANGED <<step, request, audit, mem>> /\ file' = [file EXCEPT ![a] = mem[a]]
    BY DEF Oriented, Settles, command, records
  <1>3. \A b \in Attempts : step[b] \in Outgoing => Origin(b) # a /\ Origin(b) \in Sessions
    BY <1>1, Alone
  <1>4. \A o \in Sessions : o # a => file'[o] = file[o]
    BY <1>2 DEF HandInv, Types
  <1>5. \A b \in Attempts : /\ moved'[b] # "no" => moved[b] # "no"
                            /\ moved[b] # "no" => step'[b] \notin {"none", "review"} /\ request'[b] = request[b]
    BY MovedSteady DEF Oriented, Settles, Step, command, records, HandInv, Types
  <1> QED
    BY <1>2, <1>3, <1>4, <1>5, StepQuiet

LEMMA EndingMoved ==
  ASSUME HandInv, NEW a \in Attempts, FinGoal(a)
  PROVE  moved[a] # "no"
  BY EndingFacts, FinGoalLock, TypedLocks DEF HandInv, LockInv

\* The end of a transfer writes to the file of an origin where another attempt may run.
LEMMA StepEnd ==
  ASSUME HandInv, NEW a \in Attempts, FinGoal(a) \/ FinAudit(a)
  PROVE  StepInv'
  <1>1. step[a] = "over"
    BY EndingFacts
  <1>2. UNCHANGED <<step, request, mem>>
    BY DEF FinGoal, FinAudit, command
  <1>3. \A b \in Attempts : b # a => audit'[b] = audit[b]
    BY DEF FinGoal, FinAudit, HandInv, Types
  <1>4. \/ file' = file
        \/ \E g \in GoalStatus : file' = [file EXCEPT ![Origin(a)] = [goal |-> g, last |-> a]]
    BY Names, RequestFacts, TypedBranches DEF FinGoal, FinAudit, AppendAtOrigin
  <1>5. \A o \in Sessions : file'[o] = file[o] \/ file'[o].last = a
    BY <1>4 DEF HandInv, Types
  <1>6. \A b \in Attempts : step[b] \in Outgoing => b # a /\ Origin(b) \in Sessions
    BY <1>1, RequestFacts DEF Outgoing
  <1>7. \A b \in Attempts : /\ moved'[b] # "no" => moved[b] # "no"
                            /\ moved[b] # "no" => step'[b] \notin {"none", "review"} /\ request'[b] = request[b]
    BY MovedSteady, EndingMoved DEF FinGoal, FinAudit, Step, command, records, HandInv, Types
  <1> QED
    BY <1>2, <1>3, <1>5, <1>6, <1>7, StepQuiet

LEMMA StepGoalCommand ==
  ASSUME HandInv, NEW s \in Sessions, GoalCommand(s)
  PROVE  StepInv'
  <1>1. Idle(s) /\ UNCHANGED <<step, request, audit>>
    BY DEF GoalCommand, command, records
  <1>2. \A b \in Attempts : step[b] \in Outgoing => Origin(b) # s /\ Origin(b) \in Sessions
    BY <1>1, Alone
  <1>3. \A o \in Sessions : o # s => mem'[o] = mem[o] /\ file'[o] = file[o]
    BY DEF GoalCommand, AppendGoal, AppendTo, HandInv, Types
  <1>4. \A b \in Attempts : /\ moved'[b] # "no" => moved[b] # "no"
                            /\ moved[b] # "no" => step'[b] \notin {"none", "review"} /\ request'[b] = request[b]
    BY MovedSteady DEF GoalCommand, Step, command, records, HandInv, Types
  <1> QED
    BY <1>1, <1>2, <1>3, <1>4, StepQuiet

LEMMA StepReclaimAudit ==
  ASSUME HandInv, NEW s \in Sessions, ReclaimAudit(s)
  PROVE  StepInv'
  <1>1. lock[s].by = s /\ UNCHANGED <<step, request>>
    BY ReclaimAuditLock DEF ReclaimAudit, command
  <1>2. \A b \in Attempts : step[b] \in Outgoing => Origin(b) # s /\ Origin(b) \in Sessions
    <2>1. \A b \in Attempts : step[b] \in Outgoing => b \in Commands(Origin(b))
      BY DEF Commands, Made, Outgoing
    <2> QED
      BY <1>1, <2>1, RequestFacts DEF HandInv, CommandInv
  <1>3. mem[s].last \in Attempts /\ Origin(mem[s].last) = s
    BY <1>1, BranchFacts DEF HandInv, LockInv, Made
  <1>4. \A b \in Attempts : b # mem[s].last => audit'[b] = audit[b]
    BY DEF ReclaimAudit, AppendAudit, HandInv, Types
  <1>5. \A o \in Sessions : o # s => mem'[o] = mem[o] /\ file'[o] = file[o]
    BY DEF ReclaimAudit, AppendGoal, AppendTo, HandInv, Types
  <1>6. \A b \in Attempts : /\ moved'[b] # "no" => moved[b] # "no"
                            /\ moved[b] # "no" => step'[b] \notin {"none", "review"} /\ request'[b] = request[b]
    BY MovedSteady DEF ReclaimAudit, Step, command, records, HandInv, Types
  <1> QED
    BY <1>1, <1>2, <1>3, <1>4, <1>5, <1>6, StepQuiet

LEMMA StepBegin ==
  ASSUME HandInv, NEW a \in Attempts, NEW s \in Sessions, s < a, Begin(a, s)
  PROVE  StepInv'
  <1>1. /\ Idle(s) /\ mem[s].goal \notin {"transferring", "transferred"} /\ step[a] = "none"
        /\ step'[a] = "review" /\ request'[a] = [origin |-> s, goal |-> mem[s].goal]
        /\ \A b \in Attempts : b # a => step'[b] = step[b] /\ request'[b] = request[b]
    BY DEF Begin, Step, HandInv, Types
  <1>2. \A b \in Attempts : step[b] \in Outgoing => Origin(b) # s /\ Origin(b) \in Sessions
    BY <1>1, Alone
  <1>3. mem'[s].goal = mem[s].goal /\ \A o \in Sessions : o # s => mem'[o] = mem[o] /\ file'[o] = file[o]
    BY DEF Begin, AppendGoal, AppendTo, HandInv, Types
  <1>5. \A b \in Attempts : /\ moved'[b] # "no" => moved[b] # "no"
                            /\ moved[b] # "no" => step'[b] \notin {"none", "review"} /\ request'[b] = request[b]
    BY MovedSteady DEF Begin, Step, command, records, HandInv, Types
  <1>6. \A b \in Attempts : b # a /\ step'[b] \in Outgoing =>
          /\ step'[b] = step[b] /\ request'[b] = request[b]
          /\ mem'[Origin(b)] = mem[Origin(b)] /\ file'[Origin(b)] = file[Origin(b)]
    BY <1>1, <1>2, <1>3
  <1>7. \A b \in Attempts : b # a /\ step'[b] \in Outgoing => audit'[b] = audit[b]
    <2>1. CASE mem[s].last \in Attempts /\ AppendAudit(mem[s].last, "failed")
      BY <1>1, <1>2, <2>1, BranchFacts DEF AppendAudit, HandInv, Types, Made
    <2> QED
      BY <2>1 DEF Begin
  <1> QED
    BY <1>1, <1>3, <1>5, <1>6, <1>7, StepQuiet

\* Every step keeps the running commands right.
LEMMA StepKept == HandInv /\ Types' /\ [Next]_vars => StepInv'
  <1> SUFFICES ASSUME HandInv, Types', [Next]_vars
               PROVE  StepInv'
    OBVIOUS
  <1> USE Names, TypedBranches, TypedLocks, ReducedNames DEF HandInv, Types, RequestInv, ChildInv, BranchInv, StepInv, LockInv, CommandInv, Commands, Outgoing, Made, vars, command, records, orientation, Step, Steps, Origin, CarriesGoal
  <1>1. ASSUME NEW a \in Attempts, NEW s \in Sessions, s < a, Begin(a, s)
        PROVE  StepInv'
    BY <1>1, StepBegin
  <1>2. ASSUME NEW a \in Attempts, Cancel(a)
        PROVE  StepInv'
    BY <1>2 DEF Cancel
  <1>3. ASSUME NEW a \in Attempts, Prepare(a)
        PROVE  StepInv'
    BY <1>3 DEF Prepare, AppendAudit, AppendTo
  <1>4. ASSUME NEW a \in Attempts, Move(a)
        PROVE  StepInv'
    BY <1>4 DEF Move, AppendGoal, AppendTo
  <1>5. ASSUME NEW a \in Attempts, MoveFails(a)
        PROVE  StepInv'
    BY <1>5 DEF MoveFails
  <1>6. ASSUME NEW a \in Attempts, Verify(a)
        PROVE  StepInv'
    BY <1>6 DEF Verify
  <1>7. ASSUME NEW a \in Attempts, VerifyFails(a)
        PROVE  StepInv'
    BY <1>7 DEF VerifyFails
  <1>8. ASSUME NEW a \in Attempts, SwitchCancelled(a)
        PROVE  StepInv'
    BY <1>8 DEF SwitchCancelled
  <1>9. ASSUME NEW a \in Attempts, UndoGoal(a)
        PROVE  StepInv'
    BY <1>9 DEF UndoGoal, AppendGoal, AppendTo
  <1>10. ASSUME NEW a \in Attempts, UndoAudit(a)
        PROVE  StepInv'
    BY <1>10, StepUndoAudit
  <1>11. ASSUME NEW a \in Attempts, Switch(a)
        PROVE  StepInv'
    BY <1>11, StepSwitch
  <1>12. ASSUME NEW a \in Attempts, Bind(a)
        PROVE  StepInv'
    BY <1>12 DEF Bind, AppendAtOrigin
  <1>13. ASSUME NEW a \in Attempts, BindFails(a)
        PROVE  StepInv'
    BY <1>13 DEF BindFails
  <1>14. ASSUME NEW a \in Attempts, Kickoff(a)
        PROVE  StepInv'
    BY <1>14 DEF Kickoff
  <1>15. ASSUME NEW a \in Attempts, KickoffFails(a)
        PROVE  StepInv'
    BY <1>15 DEF KickoffFails
  <1>16. ASSUME NEW a \in Attempts, Retry(a)
        PROVE  StepInv'
    BY <1>16 DEF Retry, Idle
  <1>17. ASSUME NEW a \in Attempts, Oriented(a)
        PROVE  StepInv'
    BY <1>17, StepOriented
  <1>18. ASSUME NEW a \in Attempts, NotOriented(a)
        PROVE  StepInv'
    BY <1>18 DEF NotOriented, Settles
  <1>19. ASSUME NEW a \in Attempts, FinLock(a)
        PROVE  StepInv'
    BY <1>19 DEF FinLock, Idle, Finalizable
  <1>20. ASSUME NEW a \in Attempts, FinGoal(a)
        PROVE  StepInv'
    BY <1>20, StepEnd
  <1>21. ASSUME NEW a \in Attempts, FinAudit(a)
        PROVE  StepInv'
    BY <1>21, StepEnd
  <1>22. ASSUME NEW a \in Attempts, Release(a)
        PROVE  StepInv'
    BY <1>22 DEF Release, Idle
  <1>23. ASSUME NEW s \in Sessions, TurnStart(s)
        PROVE  StepInv'
    BY <1>23 DEF TurnStart, AppendGoal, AppendTo, Idle
  <1>24. ASSUME NEW s \in Sessions, TurnEnd(s)
        PROVE  StepInv'
    BY <1>24 DEF TurnEnd
  <1>25. ASSUME NEW s \in Sessions, GoalCommand(s)
        PROVE  StepInv'
    BY <1>25, StepGoalCommand
  <1>26. ASSUME NEW s \in Sessions, ReclaimLock(s)
        PROVE  StepInv'
    BY <1>26 DEF ReclaimLock, Idle
  <1>27. ASSUME NEW s \in Sessions, ReclaimAudit(s)
        PROVE  StepInv'
    BY <1>27, StepReclaimAudit
  <1>28. ASSUME NEW s \in Sessions, ReclaimGoal(s)
        PROVE  StepInv'
    BY <1>28 DEF ReclaimGoal, AppendGoal, AppendTo
  <1>29. ASSUME NEW s \in Sessions, Navigate(s)
        PROVE  StepInv'
    BY <1>29 DEF Navigate, Idle
  <1>30. ASSUME NEW s \in Sessions, Open(s)
        PROVE  StepInv'
    BY <1>30 DEF Open
  <1>31. ASSUME NEW s \in Sessions, Leave(s)
        PROVE  StepInv'
    BY <1>31 DEF Leave, Idle
  <1>32. ASSUME NEW s \in Sessions, Crash(s)
        PROVE  StepInv'
    BY <1>32 DEF Crash, Forget
  <1>33. ASSUME NEW s \in Sessions, ClearLock(s)
        PROVE  StepInv'
    BY <1>33 DEF ClearLock
  <1>34. CASE UNCHANGED vars
    BY <1>34
  <1> QED
    BY <1>1, <1>2, <1>3, <1>4, <1>5, <1>6, <1>7, <1>8, <1>9, <1>10, <1>11, <1>12, <1>13, <1>14, <1>15, <1>16, <1>17, <1>18, <1>19, <1>20, <1>21, <1>22, <1>23, <1>24, <1>25, <1>26, <1>27, <1>28, <1>29, <1>30, <1>31, <1>32, <1>33, <1>34
    DEF Next, CommandStep, ChildStep, Finalize, SessionStep

-------------------------------------------------------------------------------
(* The branches *)

\* What a branch of session s may say after a step.
RightNext(s, B) ==
  /\ s # 0 /\ B.goal # "none" => request'[s].goal = "active" /\ child'[s] # "none"
  /\ B.last # 0 => /\ B.last \in Attempts /\ step'[B.last] # "none"
                   /\ request'[B.last].origin = s /\ audit'[B.last] # "none"
  /\ B.goal \in {"transferring", "transferred"} => B.last # 0 /\ request'[B.last].goal = "active"
  /\ B.goal = "transferred" /\ audit'[B.last] \in Unresolved => child'[B.last] = "awaiting_user"

\* No attempt that a branch may name is taken back, and none becomes open again.
Steady ==
  \A a \in Attempts :
    /\ child'[a] = "none" => child[a] = "none"
    /\ child[a] # "none" \/ audit[a] # "none" => request'[a] = request[a] /\ (step[a] # "none" => step'[a] # "none")
    /\ audit'[a] = "none" => audit[a] = "none"
    /\ audit[a] # "none" /\ audit'[a] \in Unresolved =>
         /\ audit[a] \in Unresolved
         /\ child[a] = "awaiting_user" => child'[a] = "awaiting_user"

\* Branches stay right when only what they may read is written.
LEMMA BranchSteady ==
  ASSUME HandInv, Steady,
         \A s \in Sessions :
           /\ mem'[s] \in {mem[s], file[s], NoBranch} \/ RightNext(s, mem'[s])
           /\ file'[s] \in {mem[s], file[s], NoBranch} \/ RightNext(s, file'[s])
  PROVE  BranchInv'
  <1>1. RightNext(0, NoBranch) /\ \A s \in Sessions : RightNext(s, NoBranch)
    BY DEF RightNext, NoBranch
  <1>2. ASSUME NEW s \in Sessions, NEW B \in {mem[s], file[s]}
        PROVE  RightNext(s, B)
    <2>1. RightBranch(s, B) /\ B.last \in Sessions
      BY <1>2, BranchFacts DEF HandInv, BranchInv
    <2>2. /\ s # 0 => s \in Attempts
          /\ B.last # 0 => B.last \in Attempts
      BY <2>1, HandoffAssumption DEF Sessions, Attempts
    <2>3. s # 0 /\ B.goal # "none" => request'[s].goal = "active" /\ child'[s] # "none"
      BY <2>1, <2>2 DEF RightBranch, Steady, CarriesGoal
    <2>4. B.last # 0 => /\ B.last \in Attempts /\ step'[B.last] # "none" /\ audit'[B.last] # "none"
                        /\ request'[B.last] = request[B.last] /\ request[B.last].origin = s
      BY <2>1, <2>2 DEF RightBranch, Steady, Made, Origin
    <2> QED
      BY <2>1, <2>2, <2>3, <2>4 DEF RightBranch, RightNext, Steady, CarriesGoal
  <1>3. \A s \in Sessions : RightNext(s, mem'[s]) /\ RightNext(s, file'[s])
    BY <1>1, <1>2
  <1> QED
    BY <1>3 DEF BranchInv, RightBranch, RightNext, Made, Origin, CarriesGoal

LEMMA SteadyQuiet ==
  ASSUME HandInv, UNCHANGED <<command, audit, child>>
  PROVE  Steady
  BY DEF Steady, command

\* The attempt a command or a child works on, and its origin.
LEMMA OriginHasChild ==
  ASSUME HandInv, NEW a \in Attempts, step[a] # "none"
  PROVE  /\ Origin(a) \in Sessions
         /\ Origin(a) # 0 /\ request[a].goal # "none" => request[Origin(a)].goal = "active" /\ child[Origin(a)] # "none"
  <1>1. Origin(a) # 0 => a \in Made(Origin(a)) /\ Origin(a) \in Attempts
    BY RequestFacts DEF Made
  <1>2. Origin(a) # 0 => child[Origin(a)] # "none"
    BY <1>1 DEF HandInv, ChildInv
  <1> QED
    BY <1>1, <1>2, RequestFacts DEF CarriesGoal

\* What the child's process appends to the file of its origin is right there.
LEMMA AtOrigin ==
  ASSUME HandInv, Steady, NEW a \in Attempts, NEW g \in GoalStatus, AppendAtOrigin(a, g),
         audit[a] # "none", step[a] # "none",
         g # "none" => request[a].goal # "none",
         g \in {"transferring", "transferred"} => CarriesGoal(a),
         g = "transferred" /\ audit'[a] \in Unresolved => child'[a] = "awaiting_user"
  PROVE  \A s \in Sessions : file'[s] = file[s] \/ RightNext(s, file'[s])
  <1>1. /\ file'[Origin(a)] = [goal |-> g, last |-> a]
        /\ \A s \in Sessions : s # Origin(a) => file'[s] = file[s]
    BY OriginHasChild DEF AppendAtOrigin, HandInv, Types
  <1>2. request'[a] = request[a] /\ step'[a] # "none" /\ audit'[a] # "none"
    BY DEF Steady
  <1>3. /\ Origin(a) \in Sessions
        /\ Origin(a) # 0 => Origin(a) \in Attempts
        /\ Origin(a) # 0 /\ g # "none" => request'[Origin(a)].goal = "active" /\ child'[Origin(a)] # "none"
    BY OriginHasChild, RequestFacts DEF Steady
  <1>4. RightNext(Origin(a), [goal |-> g, last |-> a])
    <2>1. a # 0 /\ request[a].origin = Origin(a) /\ (CarriesGoal(a) => request[a].goal = "active")
      BY HandoffAssumption DEF Attempts, Origin, CarriesGoal
    <2> QED
      BY <1>2, <1>3, <2>1 DEF RightNext
  <1> QED
    BY <1>1, <1>4

\* What a session appends to its own branch is right there.
LEMMA OnBranch ==
  ASSUME HandInv, Steady, NEW s \in Sessions, NEW g \in GoalStatus, AppendGoal(s, g),
         g # "none" => mem[s].goal # "none",
         g \in {"transferring", "transferred"} => mem[s].goal = g
  PROVE  \A t \in Sessions : /\ mem'[t] = mem[t] \/ RightNext(t, mem'[t])
                             /\ file'[t] = file[t] \/ RightNext(t, file'[t])
  <1> DEFINE B == [goal |-> g, last |-> mem[s].last]
  <1>1. /\ mem'[s] = B /\ file'[s] = B
        /\ \A t \in Sessions : t # s => mem'[t] = mem[t] /\ file'[t] = file[t]
    BY DEF AppendGoal, AppendTo, HandInv, Types
  <1>2. RightNext(s, mem[s])
    <2>1. RightBranch(s, mem[s]) /\ mem[s].last \in Sessions
      BY BranchFacts DEF HandInv, BranchInv
    <2>2. /\ s # 0 => s \in Attempts
          /\ mem[s].last # 0 => mem[s].last \in Attempts
      BY <2>1, HandoffAssumption DEF Sessions, Attempts
    <2>3. s # 0 /\ mem[s].goal # "none" => request'[s].goal = "active" /\ child'[s] # "none"
      BY <2>1, <2>2 DEF RightBranch, Steady, CarriesGoal
    <2>4. mem[s].last # 0 => /\ mem[s].last \in Attempts /\ step'[mem[s].last] # "none" /\ audit'[mem[s].last] # "none"
                             /\ request'[mem[s].last] = request[mem[s].last] /\ request[mem[s].last].origin = s
      BY <2>1, <2>2 DEF RightBranch, Steady, Made, Origin
    <2> QED
      BY <2>1, <2>2, <2>3, <2>4 DEF RightBranch, RightNext, Steady, CarriesGoal
  <1>3. B.goal = g /\ B.last = mem[s].last
    OBVIOUS
  <1>4. RightNext(s, B)
    BY <1>2, <1>3 DEF RightNext
  <1> QED
    BY <1>1, <1>4

LEMMA SteadyAudit ==
  ASSUME HandInv, NEW p \in Attempts, NEW new \in {"failed", "cancelled", "reclaimed"}, audit[p] # "none",
         AppendAudit(p, new), UNCHANGED child,
         \A a \in Attempts : child[a] # "none" \/ audit[a] # "none" =>
            request'[a] = request[a] /\ (step[a] # "none" => step'[a] # "none")
  PROVE  Steady
  <1>1. \A a \in Attempts : (audit'[a] = "none" => audit[a] = "none") /\ (audit'[a] \in Unresolved => audit'[a] = audit[a])
    BY AuditKept, Names, ReducedNames DEF AppendAudit, HandInv, Types, Unresolved
  <1> QED
    BY <1>1 DEF Steady

LEMMA BranchBegin ==
  ASSUME HandInv, NEW a \in Attempts, NEW s \in Sessions, s < a, Begin(a, s)
  PROVE  BranchInv'
  <1>1. audit[a] = "none" /\ child[a] = "none"
    BY RequestFacts DEF Begin, Step, HandInv, ChildInv
  <1>2. \A b \in Attempts : child[b] # "none" \/ audit[b] # "none" =>
            request'[b] = request[b] /\ (step[b] # "none" => step'[b] # "none")
    BY <1>1 DEF Begin, Step, HandInv, Types
  <1>3. UNCHANGED child
    BY DEF Begin, orientation
  <1>4. CASE UNCHANGED <<audit, known, mem, file>>
    BY <1>2, <1>3, <1>4, BranchSteady DEF Steady
  <1>5. CASE mem[s].last \in Attempts /\ AppendAudit(mem[s].last, "failed") /\ AppendGoal(s, mem[s].goal)
    <2>1. Steady
      BY <1>2, <1>3, <1>5, BranchFacts, SteadyAudit
    <2>2. mem[s].goal \in GoalStatus
      BY BranchFacts
    <2> QED
      BY <1>5, <2>1, <2>2, OnBranch, BranchSteady
  <1> QED
    BY <1>4, <1>5 DEF Begin

\* A command leaves its review: nothing of it is on a branch yet.
LEMMA BranchCancel ==
  ASSUME HandInv, NEW a \in Attempts, Cancel(a)
  PROVE  BranchInv'
  <1>1. audit[a] = "none" /\ child[a] = "none"
    BY RequestFacts DEF Cancel, Step, HandInv, ChildInv
  <1>2. Steady
    BY <1>1 DEF Steady, Cancel, Step, records, orientation, HandInv, Types
  <1>3. UNCHANGED <<mem, file>>
    BY DEF Cancel
  <1> QED
    BY <1>2, <1>3, BranchSteady

LEMMA BranchCrash ==
  ASSUME HandInv, NEW s \in Sessions, Crash(s)
  PROVE  BranchInv'
  <1>1. \A b \in Attempts : child[b] # "none" \/ audit[b] # "none" =>
            request'[b] = request[b] /\ (step[b] # "none" => step'[b] # "none")
    BY RequestFacts DEF Crash, HandInv, ChildInv
  <1>2. UNCHANGED <<child, audit, file>>
    BY DEF Crash, orientation
  <1>3. Steady
    BY <1>1, <1>2 DEF Steady
  <1>4. \A t \in Sessions : mem'[t] \in {mem[t], NoBranch}
    BY DEF Crash, HandInv, Types
  <1> QED
    BY <1>2, <1>3, <1>4, BranchSteady

LEMMA BranchMove ==
  ASSUME HandInv, NEW a \in Attempts, Move(a)
  PROVE  BranchInv'
  <1>1. step[a] = "prepared" /\ CarriesGoal(a) /\ mem[Origin(a)].last = a /\ audit[a] # "none"
    BY RequestFacts DEF Move, Step, HandInv, StepInv
  <1>2. Steady
    BY DEF Steady, Move, Step, orientation, HandInv, Types
  <1>3. mem' = [mem EXCEPT ![Origin(a)] = [goal |-> "transferring", last |-> a]]
        /\ file' = [file EXCEPT ![Origin(a)] = [goal |-> "transferring", last |-> a]]
    BY <1>1 DEF Move, AppendGoal, AppendTo
  <1>4. a # 0 /\ request[a].goal = "active"
    BY <1>1, HandoffAssumption DEF Attempts, CarriesGoal
  <1>5. Origin(a) # 0 => request'[Origin(a)].goal = "active" /\ child'[Origin(a)] # "none"
    BY <1>1, <1>4, OriginHasChild, RequestFacts DEF Move, command, Step, orientation
  <1>6. RightNext(Origin(a), [goal |-> "transferring", last |-> a])
    BY <1>1, <1>2, <1>4, <1>5 DEF RightNext, Steady, Origin
  <1>7. Origin(a) \in Sessions
    BY RequestFacts
  <1>8. /\ mem'[Origin(a)] = [goal |-> "transferring", last |-> a] /\ file'[Origin(a)] = [goal |-> "transferring", last |-> a]
        /\ \A t \in Sessions : t # Origin(a) => mem'[t] = mem[t] /\ file'[t] = file[t]
    BY <1>3, <1>7 DEF HandInv, Types
  <1>9. RightNext(Origin(a), mem'[Origin(a)]) /\ RightNext(Origin(a), file'[Origin(a)])
    BY <1>6, <1>8
  <1>10. \A t \in Sessions : /\ mem'[t] \in {mem[t], file[t], NoBranch} \/ RightNext(t, mem'[t])
                             /\ file'[t] \in {mem[t], file[t], NoBranch} \/ RightNext(t, file'[t])
    BY <1>8, <1>9
  <1> QED
    BY <1>2, <1>10, BranchSteady

LEMMA BranchUndoGoal ==
  ASSUME HandInv, NEW a \in Attempts, UndoGoal(a)
  PROVE  BranchInv'
  <1>1. step[a] = "undo" /\ Origin(a) \in Sessions
    BY RequestFacts DEF UndoGoal, Step
  <1>2. Steady
    BY DEF Steady, UndoGoal, Step, orientation, records, HandInv, Types
  <1>3. CASE UNCHANGED <<mem, file>>
    BY <1>2, <1>3, BranchSteady
  <1>4. CASE CarriesGoal(a) /\ AppendGoal(Origin(a), "active")
    <2> DEFINE B == [goal |-> "active", last |-> mem[Origin(a)].last]
    <2>1. mem[Origin(a)].last = a /\ audit[a] # "none" /\ a # 0
      BY <1>1, RequestFacts, HandoffAssumption DEF HandInv, StepInv, Attempts
    <2>2. Origin(a) # 0 => request'[Origin(a)].goal = "active" /\ child'[Origin(a)] # "none"
      BY <1>1, <1>4, OriginHasChild, RequestFacts DEF UndoGoal, Step, orientation, CarriesGoal
    <2>3. B = [goal |-> "active", last |-> a]
      BY <2>1
    <2>4. RightNext(Origin(a), [goal |-> "active", last |-> a])
      BY <1>1, <1>2, <2>1, <2>2 DEF RightNext, Steady, Origin
    <2>5. \A t \in Sessions : /\ mem'[t] = mem[t] \/ (t = Origin(a) /\ mem'[t] = B)
                              /\ file'[t] = file[t] \/ (t = Origin(a) /\ file'[t] = B)
      BY <1>4 DEF AppendGoal, AppendTo, HandInv, Types
    <2>6. \A t \in Sessions : /\ mem'[t] \in {mem[t], file[t], NoBranch} \/ RightNext(t, mem'[t])
                              /\ file'[t] \in {mem[t], file[t], NoBranch} \/ RightNext(t, file'[t])
      BY <2>3, <2>4, <2>5
    <2> QED
      BY <1>2, <2>6, BranchSteady
  <1> QED
    BY <1>3, <1>4 DEF UndoGoal

LEMMA BranchUndoAudit ==
  ASSUME HandInv, NEW a \in Attempts, UndoAudit(a)
  PROVE  BranchInv'
  <1>1. /\ audit[a] # "none" /\ Origin(a) \in Sessions
        /\ UNCHANGED child
        /\ \A b \in Attempts : request'[b] = request[b] /\ (step[b] # "none" => step'[b] # "none")
    BY RequestFacts DEF UndoAudit, Step, orientation, HandInv, Types
  <1>2. CASE UNCHANGED <<audit, known, mem, file>>
    BY <1>1, <1>2, BranchSteady DEF Steady
  <1>3. CASE AppendAudit(a, "cancelled") /\ AppendGoal(Origin(a), mem[Origin(a)].goal)
    <2>1. Steady
      BY <1>1, <1>3, SteadyAudit
    <2>2. mem[Origin(a)].goal \in GoalStatus
      BY <1>1, BranchFacts
    <2> QED
      BY <1>1, <1>3, <2>1, <2>2, OnBranch, BranchSteady
  <1> QED
    BY <1>2, <1>3 DEF UndoAudit

LEMMA BranchSwitch ==
  ASSUME HandInv, NEW a \in Attempts, Switch(a)
  PROVE  BranchInv'
  <1>1. child[a] = "none" /\ a \in Sessions /\ a # 0 /\ Origin(a) # a /\ Origin(a) \in Sessions
    BY RequestFacts, TypedLocks, HandoffAssumption DEF Switch, Step, HandInv, ChildInv, Attempts, Sessions
  <1>2. Steady
    BY <1>1 DEF Steady, Switch, Step, HandInv, Types
  <1>3. mem[a].last = 0
    <2>1. Made(a) = {}
      BY <1>1 DEF HandInv, ChildInv
    <2>2. mem[a].last \notin Attempts /\ mem[a].last \in Sessions
      BY <1>1, <2>1, BranchFacts
    <2> QED
      BY <2>2, HandoffAssumption DEF Attempts, Sessions
  <1>4. child'[a] = "received" /\ request' = request /\ UNCHANGED file
    BY DEF Switch, HandInv, Types
  <1>5. /\ mem'[Origin(a)] = NoBranch
        /\ mem'[a] = [mem[a] EXCEPT !.goal = IF CarriesGoal(a) THEN "active" ELSE "none"]
        /\ \A t \in Sessions : t # a /\ t # Origin(a) => mem'[t] = mem[t]
    BY <1>1 DEF Switch, HandInv, Types
  <1>6. mem'[a].last = 0 /\ mem'[a].goal = IF CarriesGoal(a) THEN "active" ELSE "none"
    BY <1>1, <1>3, <1>5 DEF HandInv, Types, Branches
  <1>7. RightNext(a, mem'[a])
    BY <1>4, <1>6 DEF RightNext, CarriesGoal
  <1>8. \A t \in Sessions : mem'[t] \in {mem[t], NoBranch} \/ RightNext(t, mem'[t])
    BY <1>5, <1>7
  <1> QED
    BY <1>2, <1>4, <1>8, BranchSteady

LEMMA BranchBind ==
  ASSUME HandInv, NEW a \in Attempts, Bind(a)
  PROVE  BranchInv'
  <1>1. step[a] = "switched" /\ audit[a] = "prepared" /\ UNCHANGED <<request, child, mem>> /\ step' = [step EXCEPT ![a] = "bound"]
    BY DEF Bind, Step, orientation
  <1>2. audit' = [audit EXCEPT ![a] = "child_created"]
    BY <1>1, ReducedNames DEF Bind
  <1>3. Steady
    BY <1>1, <1>2 DEF Steady, HandInv, Types, Unresolved
  <1>4. CASE CarriesGoal(a)
    <2>1. AppendAtOrigin(a, "transferring") /\ request[a].goal # "none"
      BY <1>4 DEF Bind, CarriesGoal
    <2>2. \A t \in Sessions : file'[t] = file[t] \/ RightNext(t, file'[t])
      BY <1>1, <1>3, <1>4, <2>1, Names, AtOrigin
    <2> QED
      BY <1>1, <1>3, <2>2, BranchSteady
  <1>5. CASE ~CarriesGoal(a)
    <2>1. AppendAtOrigin(a, request[a].goal) /\ request[a].goal \in GoalStatus \ {"transferring", "transferred"}
      BY <1>5, RequestFacts, TypedBranches DEF Bind
    <2>2. \A t \in Sessions : file'[t] = file[t] \/ RightNext(t, file'[t])
      BY <1>1, <1>3, <2>1, AtOrigin
    <2> QED
      BY <1>1, <1>3, <2>2, BranchSteady
  <1> QED
    BY <1>4, <1>5

LEMMA BranchSettles ==
  ASSUME HandInv, NEW a \in Attempts, Oriented(a) \/ NotOriented(a)
  PROVE  BranchInv'
  <1>1. child[a] = "received" /\ UNCHANGED <<command, records, mem>>
    BY DEF Oriented, NotOriented, Settles, HandInv, ChildInv
  <1>2. Steady
    BY <1>1 DEF Oriented, NotOriented, Steady, command, records, HandInv, Types
  <1>3. \A t \in Sessions : file'[t] \in {mem[t], file[t]}
    BY DEF Oriented, NotOriented, Settles, HandInv, Types
  <1> QED
    BY <1>1, <1>2, <1>3, BranchSteady

LEMMA BranchFinGoal ==
  ASSUME HandInv, NEW a \in Attempts, FinGoal(a)
  PROVE  BranchInv'
  <1>1. Origin(a) \in Sessions /\ Origin(a) # a /\ lock[Origin(a)].by = a /\ child[a] = "awaiting_user" /\ step[a] = "over" /\ a \in Sessions
    BY EndingFacts, TypedLocks
  <1>2. moved[a] # "no"
    BY <1>1, FinGoalLock DEF HandInv, LockInv
  <1>3. CarriesGoal(a) /\ audit[a] # "none" /\ request[a].goal # "none"
    BY <1>1, <1>2, RequestFacts DEF HandInv, StepInv, CarriesGoal
  <1>4. Steady /\ UNCHANGED <<mem, audit, child>>
    BY SteadyQuiet DEF FinGoal, orientation
  <1>5. CASE UNCHANGED file
    BY <1>4, <1>5, BranchSteady
  <1>6. CASE AppendAtOrigin(a, "transferred")
    BY <1>1, <1>3, <1>4, <1>6, AtOrigin, Names, BranchSteady
  <1> QED
    BY <1>5, <1>6 DEF FinGoal

LEMMA BranchFinAudit ==
  ASSUME HandInv, NEW a \in Attempts, FinAudit(a)
  PROVE  BranchInv'
  <1>1. Origin(a) \in Sessions /\ child[a] = "awaiting_user" /\ step[a] = "over" /\ audit[a] # "none"
    BY EndingFacts, RequestFacts
  <1>2. UNCHANGED <<mem, child, command>>
    BY DEF FinAudit, orientation
  <1>3. audit' = audit \/ audit' = [audit EXCEPT ![a] = Reduced(audit[a], "transferred")]
    BY DEF FinAudit
  <1>4. Reduced(audit[a], "transferred") \in {"transferred", "conflict"}
    BY ReducedNames
  <1>5. \A b \in Attempts : audit'[b] = audit[b] \/ (audit[b] # "none" /\ audit'[b] \notin Unresolved \union {"none"})
    BY <1>1, <1>3, <1>4 DEF HandInv, Types, Unresolved
  <1>6. Steady
    BY <1>2, <1>5 DEF Steady, command
  <1>7. request[a].goal \in GoalStatus \ {"transferring", "transferred"}
    BY RequestFacts, TypedBranches
  <1>8. CASE UNCHANGED file
    BY <1>2, <1>6, <1>8, BranchSteady
  <1>9. CASE CarriesGoal(a) /\ AppendAtOrigin(a, "transferring")
    BY <1>1, <1>2, <1>6, <1>9, AtOrigin, Names, BranchSteady DEF CarriesGoal
  <1>10. CASE CarriesGoal(a) /\ AppendAtOrigin(a, "transferred")
    BY <1>1, <1>2, <1>6, <1>10, AtOrigin, Names, BranchSteady DEF CarriesGoal
  <1>11. CASE ~CarriesGoal(a) /\ AppendAtOrigin(a, request[a].goal)
    BY <1>1, <1>2, <1>6, <1>7, <1>11, AtOrigin, BranchSteady
  <1> QED
    BY <1>8, <1>9, <1>10, <1>11 DEF FinAudit

LEMMA BranchGoalCommand ==
  ASSUME HandInv, NEW s \in Sessions, TurnStart(s) \/ GoalCommand(s)
  PROVE  BranchInv'
  <1>1. Steady
    BY SteadyQuiet DEF TurnStart, GoalCommand, records, orientation
  <1>2. CASE UNCHANGED <<mem, file>>
    BY <1>1, <1>2, BranchSteady
  <1>3. CASE mem[s].goal # "none" /\ \E g \in {"none", "active", "paused"} : AppendGoal(s, g)
    BY <1>1, <1>3, OnBranch, Names, BranchSteady
  <1> QED
    BY <1>2, <1>3 DEF TurnStart, GoalCommand

LEMMA BranchReclaim ==
  ASSUME HandInv, NEW s \in Sessions, ReclaimAudit(s) \/ ReclaimGoal(s)
  PROVE  BranchInv'
  <1>1. mem[s].goal = "transferring" /\ mem[s].last \in Attempts /\ audit[mem[s].last] # "none"
    BY ReclaimAuditLock, BranchFacts DEF ReclaimGoal, HandInv, LockInv
  <1>2. UNCHANGED <<command, child>>
    BY DEF ReclaimAudit, ReclaimGoal, orientation
  <1>3. CASE UNCHANGED <<audit, mem, file>>
    BY <1>2, <1>3, SteadyQuiet, BranchSteady
  <1>4. CASE UNCHANGED audit /\ AppendGoal(s, "active")
    BY <1>1, <1>2, <1>4, SteadyQuiet, OnBranch, Names, BranchSteady
  <1>5. CASE AppendAudit(mem[s].last, "reclaimed") /\ AppendGoal(s, mem[s].goal)
    <2>1. Steady
      BY <1>1, <1>2, <1>5, SteadyAudit DEF command
    <2> QED
      BY <1>1, <1>5, <2>1, OnBranch, Names, BranchSteady
  <1> QED
    BY <1>3, <1>4, <1>5 DEF ReclaimAudit, ReclaimGoal, records

LEMMA BranchLeave ==
  ASSUME HandInv, NEW s \in Sessions, Leave(s)
  PROVE  BranchInv'
  <1>1. Steady /\ UNCHANGED file
    BY SteadyQuiet DEF Leave, records, orientation
  <1>2. \A t \in Sessions : mem'[t] \in {mem[t], NoBranch}
    BY DEF Leave, HandInv, Types
  <1> QED
    BY <1>1, <1>2, BranchSteady

\* Every step keeps the branches right.
LEMMA BranchKept == HandInv /\ Types' /\ [Next]_vars => BranchInv'
  <1> SUFFICES ASSUME HandInv, Types', [Next]_vars
               PROVE  BranchInv'
    OBVIOUS
  <1> USE Names, TypedBranches, TypedLocks, ReducedNames DEF HandInv, Types, RequestInv, ChildInv, BranchInv, RightBranch, StepInv, LockInv, Made, vars, command, records, orientation, Step, Steps, Origin, CarriesGoal
  <1>1. ASSUME NEW a \in Attempts, NEW s \in Sessions, s < a, Begin(a, s)
        PROVE  BranchInv'
    BY <1>1, BranchBegin
  <1>2. ASSUME NEW a \in Attempts, Cancel(a)
        PROVE  BranchInv'
    BY <1>2, BranchCancel
  <1>3. ASSUME NEW a \in Attempts, Prepare(a)
        PROVE  BranchInv'
    BY <1>3 DEF Prepare, AppendAudit, AppendTo
  <1>4. ASSUME NEW a \in Attempts, Move(a)
        PROVE  BranchInv'
    BY <1>4, BranchMove
  <1>5. ASSUME NEW a \in Attempts, MoveFails(a)
        PROVE  BranchInv'
    BY <1>5 DEF MoveFails
  <1>6. ASSUME NEW a \in Attempts, Verify(a)
        PROVE  BranchInv'
    BY <1>6 DEF Verify
  <1>7. ASSUME NEW a \in Attempts, VerifyFails(a)
        PROVE  BranchInv'
    BY <1>7 DEF VerifyFails
  <1>8. ASSUME NEW a \in Attempts, SwitchCancelled(a)
        PROVE  BranchInv'
    BY <1>8 DEF SwitchCancelled
  <1>9. ASSUME NEW a \in Attempts, UndoGoal(a)
        PROVE  BranchInv'
    BY <1>9, BranchUndoGoal
  <1>10. ASSUME NEW a \in Attempts, UndoAudit(a)
        PROVE  BranchInv'
    BY <1>10, BranchUndoAudit
  <1>11. ASSUME NEW a \in Attempts, Switch(a)
        PROVE  BranchInv'
    BY <1>11, BranchSwitch
  <1>12. ASSUME NEW a \in Attempts, Bind(a)
        PROVE  BranchInv'
    BY <1>12, BranchBind
  <1>13. ASSUME NEW a \in Attempts, BindFails(a)
        PROVE  BranchInv'
    BY <1>13 DEF BindFails
  <1>14. ASSUME NEW a \in Attempts, Kickoff(a)
        PROVE  BranchInv'
    BY <1>14 DEF Kickoff
  <1>15. ASSUME NEW a \in Attempts, KickoffFails(a)
        PROVE  BranchInv'
    BY <1>15 DEF KickoffFails
  <1>16. ASSUME NEW a \in Attempts, Retry(a)
        PROVE  BranchInv'
    BY <1>16 DEF Retry, Idle
  <1>17. ASSUME NEW a \in Attempts, Oriented(a)
        PROVE  BranchInv'
    BY <1>17, BranchSettles
  <1>18. ASSUME NEW a \in Attempts, NotOriented(a)
        PROVE  BranchInv'
    BY <1>18, BranchSettles
  <1>19. ASSUME NEW a \in Attempts, FinLock(a)
        PROVE  BranchInv'
    BY <1>19 DEF FinLock, Idle, Finalizable
  <1>20. ASSUME NEW a \in Attempts, FinGoal(a)
        PROVE  BranchInv'
    BY <1>20, BranchFinGoal
  <1>21. ASSUME NEW a \in Attempts, FinAudit(a)
        PROVE  BranchInv'
    BY <1>21, BranchFinAudit
  <1>22. ASSUME NEW a \in Attempts, Release(a)
        PROVE  BranchInv'
    BY <1>22 DEF Release, Idle
  <1>23. ASSUME NEW s \in Sessions, TurnStart(s)
        PROVE  BranchInv'
    BY <1>23, BranchGoalCommand
  <1>24. ASSUME NEW s \in Sessions, TurnEnd(s)
        PROVE  BranchInv'
    BY <1>24 DEF TurnEnd
  <1>25. ASSUME NEW s \in Sessions, GoalCommand(s)
        PROVE  BranchInv'
    BY <1>25, BranchGoalCommand
  <1>26. ASSUME NEW s \in Sessions, ReclaimLock(s)
        PROVE  BranchInv'
    BY <1>26 DEF ReclaimLock, Idle
  <1>27. ASSUME NEW s \in Sessions, ReclaimAudit(s)
        PROVE  BranchInv'
    BY <1>27, BranchReclaim
  <1>28. ASSUME NEW s \in Sessions, ReclaimGoal(s)
        PROVE  BranchInv'
    BY <1>28, BranchReclaim
  <1>29. ASSUME NEW s \in Sessions, Navigate(s)
        PROVE  BranchInv'
    BY <1>29 DEF Navigate, Idle
  <1>30. ASSUME NEW s \in Sessions, Open(s)
        PROVE  BranchInv'
    BY <1>30 DEF Open
  <1>31. ASSUME NEW s \in Sessions, Leave(s)
        PROVE  BranchInv'
    BY <1>31, BranchLeave
  <1>32. ASSUME NEW s \in Sessions, Crash(s)
        PROVE  BranchInv'
    BY <1>32, BranchCrash
  <1>33. ASSUME NEW s \in Sessions, ClearLock(s)
        PROVE  BranchInv'
    BY <1>33 DEF ClearLock
  <1>34. CASE UNCHANGED vars
    BY <1>34
  <1> QED
    BY <1>1, <1>2, <1>3, <1>4, <1>5, <1>6, <1>7, <1>8, <1>9, <1>10, <1>11, <1>12, <1>13, <1>14, <1>15, <1>16, <1>17, <1>18, <1>19, <1>20, <1>21, <1>22, <1>23, <1>24, <1>25, <1>26, <1>27, <1>28, <1>29, <1>30, <1>31, <1>32, <1>33, <1>34
    DEF Next, CommandStep, ChildStep, Finalize, SessionStep

-------------------------------------------------------------------------------
(* The locks *)

\* Locks stay right when nothing changes for their holders.
LEMMA LockQuiet ==
  ASSUME HandInv,
         \A o \in Sessions : LET b == lock'[o].by IN
           b \in Sessions =>
             /\ lock[o].by = b /\ open'[b] = open[b] /\ turn'[b] = turn[b]
             /\ b # o => /\ request'[b] = request[b] /\ child'[b] = child[b]
                         /\ lock'[o].next = "goal" => lock[o].next = "goal"
                         /\ moved[b] # "no" => moved'[b] # "no"
             /\ b = o => /\ lock'[o].next = lock[o].next
                         /\ mem'[o].goal = mem[o].goal /\ mem'[o].last = mem[o].last
                         /\ audit'[mem[o].last] = audit[mem[o].last]
  PROVE  LockInv'
  BY DEF HandInv, LockInv, Origin

\* What the invariant says of the holder of a lock.
LEMMA LockFacts ==
  ASSUME HandInv, NEW o \in Sessions, NEW b \in Sessions, lock[o].by = b
  PROVE  /\ open[b] /\ turn[b] = "idle" /\ ~Idle(b) /\ Commands(b) = {}
         /\ \A a \in Attempts : step[a] \in Outgoing => Origin(a) # b
         /\ b # o => b \in Attempts /\ Origin(b) = o /\ child[b] = "awaiting_user" /\ step[b] = "over"
         /\ b \in Attempts => child[b] # "none"
         /\ b = o => /\ mem[o].goal = "transferring" /\ mem[o].last \in Attempts /\ Origin(mem[o].last) = o
                     /\ audit[mem[o].last] \in Unresolved \union {"reclaimed"}
  <1>1. open[b] /\ turn[b] = "idle" /\ ~Idle(b) /\ Commands(b) = {}
    BY DEF HandInv, LockInv, CommandInv, Idle
  <1>2. \A a \in Attempts : step[a] \in Outgoing => Origin(a) # b
    BY <1>1 DEF Commands, Made, Outgoing
  <1>3. b # o => b \in Attempts /\ Origin(b) = o /\ child[b] = "awaiting_user" /\ step[b] = "over"
    BY DEF HandInv, LockInv, ChildInv
  <1>4. b \in Attempts => child[b] # "none"
    BY DEF HandInv, ChildInv
  <1>5. b = o => /\ mem[o].goal = "transferring" /\ mem[o].last \in Attempts /\ Origin(mem[o].last) = o
                 /\ audit[mem[o].last] \in Unresolved \union {"reclaimed"}
    BY BranchFacts DEF HandInv, LockInv, Made
  <1> QED
    BY <1>1, <1>2, <1>3, <1>4, <1>5

LEMMA LockBegin ==
  ASSUME HandInv, NEW a \in Attempts, NEW s \in Sessions, s < a, Begin(a, s)
  PROVE  LockInv'
  <1>1. UNCHANGED <<open, turn, lock, child, moved>> /\ Idle(s) /\ step[a] = "none" /\ child[a] = "none"
    BY DEF Begin, Step, orientation, HandInv, ChildInv
  <1>2. \A b \in Attempts : b # a => request'[b] = request[b]
    BY DEF Begin, HandInv, Types
  <1>3. \A o \in Sessions : o # s => mem'[o] = mem[o]
    BY DEF Begin, AppendGoal, AppendTo, HandInv, Types
  <1>4. \A b \in Attempts : b # mem[s].last => audit'[b] = audit[b]
    BY DEF Begin, AppendAudit, HandInv, Types
  <1>5. \A b \in Attempts : Origin(b) # s => b # mem[s].last
    BY BranchFacts DEF Made
  <1> QED
    BY <1>1, <1>2, <1>3, <1>4, <1>5, LockFacts, LockQuiet

LEMMA LockUndoAudit ==
  ASSUME HandInv, NEW a \in Attempts, UndoAudit(a)
  PROVE  LockInv'
  <1>1. UNCHANGED <<open, turn, lock, child, moved, request>> /\ step[a] \in Outgoing
    BY DEF UndoAudit, Step, orientation, Outgoing
  <1>2. \A o \in Sessions : o # Origin(a) => mem'[o] = mem[o]
    BY DEF UndoAudit, AppendGoal, AppendTo, HandInv, Types
  <1>3. \A b \in Attempts : b # a => audit'[b] = audit[b]
    BY DEF UndoAudit, AppendAudit, HandInv, Types
  <1> QED
    BY <1>1, <1>2, <1>3, LockFacts, LockQuiet

LEMMA LockSwitch ==
  ASSUME HandInv, NEW a \in Attempts, Switch(a)
  PROVE  LockInv'
  <1>1. UNCHANGED <<turn, lock, moved, request, audit>> /\ step[a] \in Outgoing /\ child[a] = "none"
    BY DEF Switch, Step, Outgoing, HandInv, ChildInv
  <1>2. \A o \in Sessions : o # Origin(a) /\ o # a => mem'[o] = mem[o] /\ open'[o] = open[o]
    BY DEF Switch, HandInv, Types
  <1>3. \A b \in Attempts : b # a => child'[b] = child[b]
    BY DEF Switch, HandInv, Types
  <1> QED
    BY <1>1, <1>2, <1>3, LockFacts, LockQuiet

LEMMA LockBind ==
  ASSUME HandInv, NEW a \in Attempts, Bind(a)
  PROVE  LockInv'
  <1>1. UNCHANGED <<open, turn, lock, child, moved, request, mem>> /\ lock[Origin(a)].by = Nobody
    BY DEF Bind, orientation, Free
  <1>2. \A b \in Attempts : b # a => audit'[b] = audit[b]
    BY DEF Bind, HandInv, Types
  <1> QED
    BY <1>1, <1>2, LockFacts, TypedLocks, LockQuiet

LEMMA LockOriented ==
  ASSUME HandInv, NEW a \in Attempts, Oriented(a)
  PROVE  LockInv'
  <1>1. UNCHANGED <<open, lock, moved, request, audit, mem>> /\ turn[a] = "orient"
    BY DEF Oriented, Settles, command, records
  <1>2. \A b \in Sessions : b # a => turn'[b] = turn[b]
    BY DEF Oriented, Settles, HandInv, Types
  <1>3. \A b \in Attempts : b # a => child'[b] = child[b]
    BY DEF Oriented, HandInv, Types
  <1> QED
    BY <1>1, <1>2, <1>3, LockFacts, LockQuiet

LEMMA LockFinGoal ==
  ASSUME HandInv, NEW a \in Attempts, FinGoal(a)
  PROVE  LockInv'
  <1>1. UNCHANGED <<open, turn, child, request, audit, mem>>
    BY DEF FinGoal, command, orientation
  <1>2. Origin(a) \in Sessions /\ Origin(a) # a /\ lock[Origin(a)].by = a
    BY EndingFacts
  <1>3. /\ \A o \in Sessions : o # Origin(a) => lock'[o] = lock[o]
        /\ lock'[Origin(a)].by = Nobody \/ (lock'[Origin(a)].by = a /\ lock'[Origin(a)].next = "audit")
    BY <1>2, FinGoalLock DEF HandInv, Types, Free
  <1>4. \A b \in Attempts : moved[b] # "no" => moved'[b] # "no"
    BY DEF FinGoal, HandInv, Types
  <1> QED
    BY <1>1, <1>2, <1>3, <1>4, LockFacts, TypedLocks, LockQuiet

LEMMA LockFinAudit ==
  ASSUME HandInv, NEW a \in Attempts, FinAudit(a)
  PROVE  LockInv'
  <1>1. UNCHANGED <<open, turn, child, request, mem, moved>>
    BY DEF FinAudit, command, orientation
  <1>2. Origin(a) \in Sessions
    BY EndingFacts
  <1>3. /\ \A o \in Sessions : o # Origin(a) => lock'[o] = lock[o]
        /\ lock'[Origin(a)].by = Nobody
    BY <1>2 DEF FinAudit, HandInv, Types, Free
  <1>4. \A b \in Attempts : b # a => audit'[b] = audit[b]
    BY DEF FinAudit, HandInv, Types
  <1> QED
    BY <1>1, <1>3, <1>4, LockFacts, TypedLocks, LockQuiet

LEMMA LockReclaimAudit ==
  ASSUME HandInv, NEW s \in Sessions, ReclaimAudit(s)
  PROVE  LockInv'
  <1>1. UNCHANGED <<open, turn, child, request, moved>>
    BY DEF ReclaimAudit, command, orientation
  <1>2. lock[s].by = s /\ lock[s].next = "audit" /\ mem[s].goal = "transferring" /\ mem[s].last \in Attempts
        /\ audit[mem[s].last] \in Unresolved /\ Origin(mem[s].last) = s
    BY ReclaimAuditLock, LockFacts DEF HandInv, LockInv
  <1>3. \A o \in Sessions : o # s => lock'[o] = lock[o]
    BY ReclaimAuditLock DEF HandInv, Types
  <1>4. mem'[s].goal = mem[s].goal /\ mem'[s].last = mem[s].last /\ \A o \in Sessions : o # s => mem'[o] = mem[o]
    BY DEF ReclaimAudit, AppendGoal, AppendTo, HandInv, Types
  <1>5. \A b \in Attempts : b # mem[s].last => audit'[b] = audit[b]
    BY DEF ReclaimAudit, AppendAudit, HandInv, Types
  <1>6. \/ lock'[s].by = Nobody
        \/ lock'[s] = [by |-> s, next |-> "goal"] /\ audit'[mem[s].last] = "reclaimed"
    BY <1>2, ReclaimAuditLock, ReducedNames DEF HandInv, Types, AppendAudit, Free
  <1>7. ASSUME NEW o \in Sessions, NEW b, b = lock'[o].by
        PROVE  /\ b \in Sessions => open'[b] /\ turn'[b] = "idle"
               /\ b \in Sessions /\ b # o => b \in Attempts /\ Origin(b)' = o /\ child'[b] = "awaiting_user"
               /\ b \in Sessions /\ b # o /\ lock'[o].next = "goal" => moved'[b] # "no"
               /\ b = o => /\ mem'[o].goal = "transferring"
                           /\ audit'[mem'[o].last] \in IF lock'[o].next = "audit" THEN Unresolved ELSE {"reclaimed"}
    <2>1. CASE o = s
      BY <1>1, <1>2, <1>4, <1>6, <1>7, <2>1, LockFacts, TypedLocks
    <2>2. CASE o # s
      <3>1. lock'[o] = lock[o] /\ mem'[o] = mem[o] /\ Origin(b)' = Origin(b)
        BY <1>1, <1>3, <1>4, <2>2 DEF Origin
      <3>2. b = o => mem[o].last \in Attempts /\ Origin(mem[o].last) = o
        BY <1>7, <3>1, LockFacts
      <3>3. b = o => audit'[mem[o].last] = audit[mem[o].last]
        BY <1>2, <1>5, <2>2, <3>2
      <3> QED
        BY <1>1, <1>7, <2>2, <3>1, <3>3 DEF HandInv, LockInv
    <2> QED
      BY <2>1, <2>2
  <1> QED
    BY <1>7 DEF LockInv

LEMMA LockReclaimGoal ==
  ASSUME HandInv, NEW s \in Sessions, ReclaimGoal(s)
  PROVE  LockInv'
  <1>1. UNCHANGED <<open, turn, child, request, moved, audit>>
    BY DEF ReclaimGoal, command, orientation, records
  <1>2. lock'[s].by = Nobody /\ \A o \in Sessions : o # s => lock'[o] = lock[o]
    BY DEF ReclaimGoal, HandInv, Types, Free
  <1>3. \A o \in Sessions : o # s => mem'[o] = mem[o]
    BY DEF ReclaimGoal, AppendGoal, AppendTo, HandInv, Types
  <1> QED
    BY <1>1, <1>2, <1>3, LockFacts, TypedLocks, LockQuiet

LEMMA LockCrash ==
  ASSUME HandInv, NEW s \in Sessions, Crash(s)
  PROVE  LockInv'
  <1>1. UNCHANGED <<child, moved, audit>>
    BY DEF Crash, orientation
  <1>2. \A o \in Sessions : o # s => mem'[o] = mem[o] /\ open'[o] = open[o] /\ turn'[o] = turn[o]
    BY DEF Crash, HandInv, Types
  <1>3. \A o \in Sessions : lock'[o].by = Nobody \/ (lock'[o] = lock[o] /\ lock[o].by # s)
    BY DEF Crash, HandInv, Types, Stale
  <1>4. \A b \in Attempts : child[b] # "none" => request'[b] = request[b]
    BY DEF Crash, HandInv, Types, ChildInv
  <1> QED
    BY <1>1, <1>2, <1>3, <1>4, LockFacts, TypedLocks, LockQuiet

LEMMA LockClearLock ==
  ASSUME HandInv, NEW s \in Sessions, ClearLock(s)
  PROVE  LockInv'
  <1>1. UNCHANGED <<open, turn, child, request, moved, audit, mem>>
    BY DEF ClearLock, command, orientation, records
  <1>2. \A o \in Sessions : lock'[o].by = Nobody \/ lock'[o] = lock[o]
    BY DEF ClearLock, HandInv, Types, Free
  <1> QED
    BY <1>1, <1>2, LockFacts, TypedLocks, LockQuiet

LEMMA LockPrepare ==
  ASSUME HandInv, NEW a \in Attempts, Prepare(a)
  PROVE  LockInv'
  <1>1. UNCHANGED <<open, turn, lock, child, moved, request>> /\ step[a] \in Outgoing
    BY DEF Prepare, Step, orientation, Outgoing
  <1>2. \A o \in Sessions : o # Origin(a) => mem'[o] = mem[o]
    BY DEF Prepare, AppendTo, HandInv, Types
  <1>3. \A b \in Attempts : b # a => audit'[b] = audit[b]
    BY DEF Prepare, AppendAudit, HandInv, Types
  <1> QED
    BY <1>1, <1>2, <1>3, LockFacts, LockQuiet

\* Every step keeps the locks right.
LEMMA LockKept == HandInv /\ Types' /\ [Next]_vars => LockInv'
  <1> SUFFICES ASSUME HandInv, Types', [Next]_vars
               PROVE  LockInv'
    OBVIOUS
  <1> USE Names, TypedBranches, TypedLocks, ReducedNames DEF HandInv, Types, RequestInv, ChildInv, BranchInv, StepInv, LockInv, CommandInv, Commands, Made, vars, command, records, orientation, Step, Steps, Origin, CarriesGoal
  <1>1. ASSUME NEW a \in Attempts, NEW s \in Sessions, s < a, Begin(a, s)
        PROVE  LockInv'
    BY <1>1, LockBegin
  <1>2. ASSUME NEW a \in Attempts, Cancel(a)
        PROVE  LockInv'
    BY <1>2 DEF Cancel
  <1>3. ASSUME NEW a \in Attempts, Prepare(a)
        PROVE  LockInv'
    BY <1>3, LockPrepare
  <1>4. ASSUME NEW a \in Attempts, Move(a)
        PROVE  LockInv'
    BY <1>4 DEF Move, AppendGoal, AppendTo
  <1>5. ASSUME NEW a \in Attempts, MoveFails(a)
        PROVE  LockInv'
    BY <1>5 DEF MoveFails
  <1>6. ASSUME NEW a \in Attempts, Verify(a)
        PROVE  LockInv'
    BY <1>6 DEF Verify
  <1>7. ASSUME NEW a \in Attempts, VerifyFails(a)
        PROVE  LockInv'
    BY <1>7 DEF VerifyFails
  <1>8. ASSUME NEW a \in Attempts, SwitchCancelled(a)
        PROVE  LockInv'
    BY <1>8 DEF SwitchCancelled
  <1>9. ASSUME NEW a \in Attempts, UndoGoal(a)
        PROVE  LockInv'
    BY <1>9 DEF UndoGoal, AppendGoal, AppendTo
  <1>10. ASSUME NEW a \in Attempts, UndoAudit(a)
        PROVE  LockInv'
    BY <1>10, LockUndoAudit
  <1>11. ASSUME NEW a \in Attempts, Switch(a)
        PROVE  LockInv'
    BY <1>11, LockSwitch
  <1>12. ASSUME NEW a \in Attempts, Bind(a)
        PROVE  LockInv'
    BY <1>12, LockBind
  <1>13. ASSUME NEW a \in Attempts, BindFails(a)
        PROVE  LockInv'
    BY <1>13 DEF BindFails
  <1>14. ASSUME NEW a \in Attempts, Kickoff(a)
        PROVE  LockInv'
    BY <1>14 DEF Kickoff
  <1>15. ASSUME NEW a \in Attempts, KickoffFails(a)
        PROVE  LockInv'
    BY <1>15 DEF KickoffFails
  <1>16. ASSUME NEW a \in Attempts, Retry(a)
        PROVE  LockInv'
    BY <1>16 DEF Retry, Idle
  <1>17. ASSUME NEW a \in Attempts, Oriented(a)
        PROVE  LockInv'
    BY <1>17, LockOriented
  <1>18. ASSUME NEW a \in Attempts, NotOriented(a)
        PROVE  LockInv'
    BY <1>18 DEF NotOriented, Settles
  <1>19. ASSUME NEW a \in Attempts, FinLock(a)
        PROVE  LockInv'
    BY <1>19 DEF FinLock, Idle, Finalizable
  <1>20. ASSUME NEW a \in Attempts, FinGoal(a)
        PROVE  LockInv'
    BY <1>20, LockFinGoal
  <1>21. ASSUME NEW a \in Attempts, FinAudit(a)
        PROVE  LockInv'
    BY <1>21, LockFinAudit
  <1>22. ASSUME NEW a \in Attempts, Release(a)
        PROVE  LockInv'
    BY <1>22 DEF Release, Idle
  <1>23. ASSUME NEW s \in Sessions, TurnStart(s)
        PROVE  LockInv'
    BY <1>23 DEF TurnStart, AppendGoal, AppendTo, Idle
  <1>24. ASSUME NEW s \in Sessions, TurnEnd(s)
        PROVE  LockInv'
    BY <1>24 DEF TurnEnd
  <1>25. ASSUME NEW s \in Sessions, GoalCommand(s)
        PROVE  LockInv'
    BY <1>25 DEF GoalCommand, AppendGoal, AppendTo, Idle
  <1>26. ASSUME NEW s \in Sessions, ReclaimLock(s)
        PROVE  LockInv'
    BY <1>26 DEF ReclaimLock, Idle
  <1>27. ASSUME NEW s \in Sessions, ReclaimAudit(s)
        PROVE  LockInv'
    BY <1>27, LockReclaimAudit
  <1>28. ASSUME NEW s \in Sessions, ReclaimGoal(s)
        PROVE  LockInv'
    BY <1>28, LockReclaimGoal
  <1>29. ASSUME NEW s \in Sessions, Navigate(s)
        PROVE  LockInv'
    BY <1>29 DEF Navigate, Idle
  <1>30. ASSUME NEW s \in Sessions, Open(s)
        PROVE  LockInv'
    BY <1>30 DEF Open
  <1>31. ASSUME NEW s \in Sessions, Leave(s)
        PROVE  LockInv'
    BY <1>31 DEF Leave, Idle
  <1>32. ASSUME NEW s \in Sessions, Crash(s)
        PROVE  LockInv'
    BY <1>32, LockCrash
  <1>33. ASSUME NEW s \in Sessions, ClearLock(s)
        PROVE  LockInv'
    BY <1>33, LockClearLock
  <1>34. CASE UNCHANGED vars
    BY <1>34
  <1> QED
    BY <1>1, <1>2, <1>3, <1>4, <1>5, <1>6, <1>7, <1>8, <1>9, <1>10, <1>11, <1>12, <1>13, <1>14, <1>15, <1>16, <1>17, <1>18, <1>19, <1>20, <1>21, <1>22, <1>23, <1>24, <1>25, <1>26, <1>27, <1>28, <1>29, <1>30, <1>31, <1>32, <1>33, <1>34
    DEF Next, CommandStep, ChildStep, Finalize, SessionStep

-------------------------------------------------------------------------------
(* Theorems *)

LEMMA HandInit == Init => HandInv
  <1> SUFFICES ASSUME Init PROVE HandInv
    OBVIOUS
  <1> USE Names, TypedBranches, TypedLocks, HandoffAssumption DEF Init
  <1>1. 0 \notin Attempts /\ Nobody \notin Sessions /\ Free.by = Nobody
    BY DEF Free
  <1>2. \A s \in Sessions : mem[s].last = 0 /\ mem[s].goal \in {"active", "none"} /\ (mem[s].goal = "active" => s = 0)
    OBVIOUS
  <1>3. \A a \in Attempts : Origin(a) = 0 /\ ~CarriesGoal(a) /\ request[a].goal = "none"
    BY DEF Origin, CarriesGoal, NoRequest
  <1>4. \A s \in Sessions : Made(s) = {} /\ Commands(s) = {}
    BY DEF Made, Commands
  <1>5. Types
    BY DEF Types, Steps, AuditStatus
  <1>6. RequestInv
    BY <1>3, HandoffAssumption DEF RequestInv, Attempts
  <1>7. ChildInv
    BY <1>1, <1>4 DEF ChildInv
  <1>8. CommandInv
    BY <1>4 DEF CommandInv
  <1>9. BranchInv
    BY <1>2 DEF BranchInv, RightBranch
  <1>10. StepInv
    BY <1>3 DEF StepInv, Outgoing
  <1>11. LockInv
    BY <1>1 DEF LockInv
  <1> QED
    BY <1>5, <1>6, <1>7, <1>8, <1>9, <1>10, <1>11 DEF HandInv

\* HandInv is inductive.
LEMMA HandKept == HandInv /\ [Next]_vars => HandInv'
  <1> SUFFICES ASSUME HandInv, [Next]_vars
               PROVE  HandInv'
    OBVIOUS
  <1>1. Types'
    BY TypesKept DEF HandInv
  <1> QED
    BY <1>1, RequestKept, ChildKept, CommandKept, BranchKept, StepKept, LockKept DEF HandInv

\* The state of every handoff stays of its type.
THEOREM HandoffTypes == Spec => []TypeOK
  <1>1. HandInv => TypeOK
    BY TypesOK DEF HandInv
  <1> QED
    BY HandInit, HandKept, <1>1, PTL DEF Spec

\* finalizeParentTransferUnlocked: however commands, ends of transfers and reclaims
\* interleave, crash and fail half way, a parent whose goal reads transferred while its
\* audit is open has a child that oriented and is on disk.
THEOREM TransferFinishable == Spec => []StillFinishable
  <1>1. HandInv => StillFinishable
    <2> SUFFICES ASSUME HandInv, NEW a \in Attempts, audit[a] \in Unresolved,
                        file[Origin(a)] = [goal |-> "transferred", last |-> a]
                 PROVE  child[a] = "awaiting_user" /\ durable[a]
      BY DEF StillFinishable
    <2>1. RightBranch(Origin(a), file[Origin(a)])
      BY RequestFacts DEF HandInv, BranchInv
    <2>2. child[a] = "awaiting_user"
      BY <2>1 DEF RightBranch
    <2> QED
      BY <2>2 DEF HandInv, ChildInv
  <1> QED
    BY HandInit, HandKept, <1>1, PTL DEF Spec

-------------------------------------------------------------------------------

(***************************************************************************)
(* The handoff keeps the promise of module GoalOwnership, for any number   *)
(* of attempts, crashes and failed appends, as long as users do not clear  *)
(* a goal that reads transferred.                                          *)
(*                                                                         *)
(* What each session can see is tied to what the audits say by three       *)
(* invariants: a branch whose last attempt has a child reads that the goal *)
(* left (OwedInv), only a created child is committed (EndingInv), and an   *)
(* open session misses at most what its child wrote after it was left      *)
(* (KnownInv).  So every step does one of a few things to the claims on    *)
(* the goal (Handover), each of which keeps the chain of holders           *)
(* (ChainInv) and is a step of GoalOwnership.                              *)
(***************************************************************************)

\* A branch whose last attempt has a child that may get the goal does not offer the goal.
OwedBranch(B) ==
  B.last # 0 /\ CarriesGoal(B.last) /\ child[B.last] # "none" /\ audit[B.last] \in Unresolved \union {"transferred"}
    => B.goal \in {"transferring", "transferred"}

OwedInv == \A s \in Sessions : OwedBranch(mem[s]) /\ OwedBranch(file[s])

\* A child that has the lock ends a transfer that is still open.
EndingInv ==
  \A o \in Sessions : \A a \in Attempts :
    lock[o].by = a /\ a # o /\ CarriesGoal(a) => audit[a] = "child_created"

\* An open origin has the audits of its attempts right, but for what the child wrote.
KnownInv ==
  \A a \in Attempts :
    /\ audit[a] = "none" => known[a] = "none"
    /\ CarriesGoal(a) =>
         /\ audit[a] # "conflict"
         /\ child[a] = "transferred" => audit[a] = "transferred"
         /\ open[Origin(a)] =>
              \/ known[a] = audit[a]
              \/ known[a] \in Unresolved /\ audit[a] \in {"child_created", "transferred"}

\* The attempts that have passed the goal on, that offer it, and that ask for it.
Passed  == {a \in Attempts : CarriesGoal(a) /\ audit[a] = "transferred"}
Offered == {a \in Attempts : CarriesGoal(a) /\ audit[a] \in Unresolved}
Asking  == {a \in Attempts : CarriesGoal(a) /\ step[a] = "review"}
\* The sessions with a turn for the goal.
Working == {s \in Sessions : turn[s] = "work"}

\* The goal is at h: the last session it passed to, and the only one it did not leave.
IsAt(h) ==
  /\ \/ h = 0 /\ Passed = {}
     \/ h \in Passed /\ \A a \in Passed : a <= h
  /\ \A s \in Passed \union {0} : s # h => \E a \in Passed : Origin(a) = s

\* Whoever offers the goal, asks for it or works on it is h, one at a time.
OneClaim(h) ==
  /\ \A a \in Offered : Origin(a) = h
  /\ \A a, b \in Offered : a = b
  /\ \A a \in Asking : Origin(a) = h /\ Offered = {}
  /\ \A s \in Working : s = h /\ Offered = {}

ChainInv == \E h \in Sessions : IsAt(h) /\ OneClaim(h)

-------------------------------------------------------------------------------
(* A goal handed off is owed to its child *)

OwedNext(B) ==
  /\ B.last # 0 /\ request'[B.last].goal = "active" /\ child'[B.last] # "none"
  /\ audit'[B.last] \in Unresolved \union {"transferred"}
  => B.goal \in {"transferring", "transferred"}

OwedQuiet ==
  \A a \in Attempts :
    /\ request'[a].goal = "active" /\ child'[a] # "none" /\ audit'[a] \in Unresolved \union {"transferred"}
    => CarriesGoal(a) /\ child[a] # "none" /\ audit[a] \in Unresolved \union {"transferred"}

\* A goal stays owed when no branch forgets it.
LEMMA OwedSteady ==
  ASSUME HandInv, OwedInv, OwedQuiet,
         \A s \in Sessions :
           /\ mem'[s] \in {mem[s], file[s], NoBranch} \/ OwedNext(mem'[s])
           /\ file'[s] \in {mem[s], file[s], NoBranch} \/ OwedNext(file'[s])
  PROVE  OwedInv'
  <1>1. OwedNext(NoBranch)
    BY DEF OwedNext, NoBranch
  <1>2. ASSUME NEW s \in Sessions, NEW B \in {mem[s], file[s]}
        PROVE  OwedNext(B)
    <2>1. OwedBranch(B) /\ (B.last # 0 => B.last \in Attempts)
      BY <1>2, BranchFacts, HandoffAssumption DEF OwedInv, Attempts, Sessions
    <2> QED
      BY <2>1 DEF OwedBranch, OwedNext, OwedQuiet
  <1>3. \A s \in Sessions : OwedNext(mem'[s]) /\ OwedNext(file'[s])
    BY <1>1, <1>2
  <1> QED
    BY <1>3 DEF OwedInv, OwedBranch, OwedNext, CarriesGoal

LEMMA OwedOnBranch ==
  ASSUME HandInv, OwedInv, OwedQuiet, NEW s \in Sessions, NEW g \in GoalStatus, AppendGoal(s, g),
         \/ g \in {"transferring", "transferred"} \/ g = mem[s].goal
         \/ mem[s].goal \notin {"transferring", "transferred"}
         \/ mem[s].last \in Attempts /\ audit'[mem[s].last] \notin Unresolved \union {"transferred"}
         \/ mem[s].last \in Attempts /\ child'[mem[s].last] = "none"
  PROVE  \A t \in Sessions : /\ mem'[t] = mem[t] \/ OwedNext(mem'[t])
                             /\ file'[t] = file[t] \/ OwedNext(file'[t])
  <1> DEFINE B == [goal |-> g, last |-> mem[s].last]
  <1>1. /\ mem'[s] = B /\ file'[s] = B
        /\ \A t \in Sessions : t # s => mem'[t] = mem[t] /\ file'[t] = file[t]
    BY DEF AppendGoal, AppendTo, HandInv, Types
  <1>2. OwedBranch(mem[s]) /\ (mem[s].last # 0 => mem[s].last \in Attempts)
    BY BranchFacts, HandoffAssumption DEF OwedInv, Attempts, Sessions
  <1>3. B.goal = g /\ B.last = mem[s].last
    OBVIOUS
  <1>4. OwedNext(B)
    BY <1>2, <1>3 DEF OwedNext, OwedBranch, OwedQuiet
  <1> QED
    BY <1>1, <1>4

LEMMA OwedAtOrigin ==
  ASSUME HandInv, OwedInv, NEW a \in Attempts, NEW g \in GoalStatus, AppendAtOrigin(a, g),
         g \in {"transferring", "transferred"} \/ request'[a].goal # "active"
  PROVE  \A s \in Sessions : file'[s] = file[s] \/ OwedNext(file'[s])
  <1>1. /\ file'[Origin(a)] = [goal |-> g, last |-> a]
        /\ \A s \in Sessions : s # Origin(a) => file'[s] = file[s]
    BY RequestFacts DEF AppendAtOrigin, HandInv, Types
  <1>2. OwedNext([goal |-> g, last |-> a])
    BY DEF OwedNext
  <1> QED
    BY <1>1, <1>2

LEMMA OwedCommand ==
  ASSUME HandInv, OwedInv, NEW a \in Attempts,
         Prepare(a) \/ Move(a) \/ UndoGoal(a) \/ UndoAudit(a)
  PROVE  OwedInv'
  <1>1. step[a] \in Outgoing /\ child[a] = "none" /\ UNCHANGED <<request, child>> /\ Origin(a) \in Sessions
    BY RequestFacts DEF Prepare, Move, UndoGoal, UndoAudit, Step, orientation, Outgoing, HandInv, ChildInv
  <1>2. \A b \in Attempts : b # a => audit'[b] = audit[b]
    <2>1. CASE AppendAudit(a, "prepared") \/ AppendAudit(a, "cancelled")
      BY <2>1 DEF AppendAudit, HandInv, Types
    <2> QED
      BY <2>1 DEF Prepare, Move, UndoGoal, UndoAudit, records
  <1>3. OwedQuiet
    BY <1>1, <1>2 DEF OwedQuiet, CarriesGoal
  <1>4. CASE UNCHANGED <<mem, file>>
    BY <1>3, <1>4, OwedSteady
  <1>5. CASE \E g \in GoalStatus : AppendTo(Origin(a), g, a)
    <2>1. PICK g \in GoalStatus : AppendTo(Origin(a), g, a)
      BY <1>5
    <2>2. OwedNext([goal |-> g, last |-> a])
      BY <1>1 DEF OwedNext
    <2>3. /\ mem'[Origin(a)] = [goal |-> g, last |-> a] /\ file'[Origin(a)] = [goal |-> g, last |-> a]
          /\ \A s \in Sessions : s # Origin(a) => mem'[s] = mem[s] /\ file'[s] = file[s]
      BY <1>1, <2>1 DEF AppendTo, HandInv, Types
    <2> QED
      BY <1>3, <2>2, <2>3, OwedSteady
  <1>6. CASE Prepare(a)
    BY <1>1, <1>5, <1>6, BranchFacts DEF Prepare
  <1>7. ~Prepare(a) => mem[Origin(a)].last = a
    BY DEF Move, UndoGoal, UndoAudit, Step, HandInv, StepInv
  <1> QED
    BY <1>1, <1>4, <1>5, <1>6, <1>7, BranchFacts, Names DEF Move, UndoGoal, UndoAudit, AppendGoal

LEMMA OwedBegin ==
  ASSUME HandInv, OwedInv, NEW a \in Attempts, NEW s \in Sessions, s < a, Begin(a, s)
  PROVE  OwedInv'
  <1>1. child[a] = "none" /\ UNCHANGED child /\ \A b \in Attempts : b # a => request'[b] = request[b]
    BY DEF Begin, Step, orientation, HandInv, Types, ChildInv
  <1>2. \A b \in Attempts : audit'[b] \in Unresolved \union {"transferred"} => audit'[b] = audit[b]
    <2>1. CASE mem[s].last \in Attempts /\ AppendAudit(mem[s].last, "failed")
      BY <2>1, ReducedNames DEF AppendAudit, HandInv, Types, Unresolved
    <2> QED
      BY <2>1 DEF Begin
  <1>3. OwedQuiet
    BY <1>1, <1>2 DEF OwedQuiet, CarriesGoal
  <1>4. CASE UNCHANGED <<mem, file>>
    BY <1>3, <1>4, OwedSteady
  <1>5. CASE AppendGoal(s, mem[s].goal)
    BY <1>3, <1>5, BranchFacts, OwedOnBranch, OwedSteady
  <1> QED
    BY <1>4, <1>5 DEF Begin

LEMMA OwedSwitch ==
  ASSUME HandInv, OwedInv, NEW a \in Attempts, Switch(a)
  PROVE  OwedInv'
  <1>1. /\ step[a] = "verified" /\ child[a] = "none" /\ a \in Sessions /\ a # 0 /\ Origin(a) # a /\ Origin(a) \in Sessions
        /\ UNCHANGED <<request, audit, file>>
    BY RequestFacts, TypedLocks, HandoffAssumption DEF Switch, Step, HandInv, ChildInv, Attempts, Sessions
  <1>2. \A b \in Attempts : b # a => child'[b] = child[b]
    BY DEF Switch, HandInv, Types
  <1>3. mem[a].last = 0
    <2>1. Made(a) = {}
      BY <1>1 DEF HandInv, ChildInv
    <2>2. mem[a].last \notin Attempts /\ mem[a].last \in Sessions
      BY <1>1, <2>1, BranchFacts
    <2> QED
      BY <2>2, HandoffAssumption DEF Attempts, Sessions
  <1>4. /\ mem'[Origin(a)] = NoBranch
        /\ mem'[a] = [mem[a] EXCEPT !.goal = IF CarriesGoal(a) THEN "active" ELSE "none"]
        /\ \A t \in Sessions : t # a /\ t # Origin(a) => mem'[t] = mem[t]
    BY <1>1 DEF Switch, HandInv, Types
  <1>5. mem'[a].last = 0 /\ mem'[Origin(a)].last = 0
    BY <1>1, <1>3, <1>4 DEF HandInv, Types, Branches, NoBranch
  <1>6. ASSUME NEW s \in Sessions, NEW B \in {mem[s], file[s]}, s # Origin(a) \/ B = file[s]
        PROVE  OwedNext(B)
    <2>1. OwedBranch(B) /\ (B.last # 0 => B.last \in Attempts /\ Origin(B.last) = s)
      BY <1>6, BranchFacts, HandoffAssumption DEF OwedInv, Attempts, Sessions, Made
    <2>2. CASE B.last = a
      BY <1>1, <1>6, <2>1, <2>2 DEF OwedNext, HandInv, StepInv, CarriesGoal
    <2>3. CASE B.last # a
      BY <1>1, <1>2, <2>1, <2>3 DEF OwedNext, OwedBranch, CarriesGoal
    <2> QED
      BY <2>2, <2>3
  <1>7. \A s \in Sessions : OwedNext(mem'[s]) /\ OwedNext(file'[s])
    <2>1. OwedNext(mem'[a]) /\ OwedNext(mem'[Origin(a)])
      BY <1>5 DEF OwedNext
    <2> QED
      BY <1>1, <1>4, <1>6, <2>1
  <1> QED
    BY <1>7 DEF OwedInv, OwedBranch, OwedNext, CarriesGoal

LEMMA OwedEnd ==
  ASSUME HandInv, OwedInv, NEW a \in Attempts, Bind(a) \/ FinGoal(a) \/ FinAudit(a)
  PROVE  OwedInv'
  <1>1. UNCHANGED <<request, child, mem>>
    BY DEF Bind, FinGoal, FinAudit, command, orientation
  <1>2. audit'[a] # audit[a] => audit[a] \in Unresolved \/ audit'[a] \notin Unresolved \union {"transferred"}
    BY DEF Bind, FinGoal, FinAudit, Reduced, Unresolved, HandInv, Types
  <1>3. \A b \in Attempts : b # a => audit'[b] = audit[b]
    BY DEF Bind, FinGoal, FinAudit, HandInv, Types
  <1>4. OwedQuiet
    BY <1>1, <1>2, <1>3 DEF OwedQuiet, CarriesGoal
  <1>5. request[a].goal \in GoalStatus
    BY RequestFacts, TypedBranches
  <1>6. \A s \in Sessions : file'[s] = file[s] \/ OwedNext(file'[s])
    <2>1. CASE UNCHANGED file
      BY <2>1
    <2>2. CASE AppendAtOrigin(a, "transferring")
      BY <2>2, Names, OwedAtOrigin
    <2>3. CASE AppendAtOrigin(a, "transferred")
      BY <2>3, Names, OwedAtOrigin
    <2>4. CASE ~CarriesGoal(a) /\ AppendAtOrigin(a, request[a].goal)
      BY <1>1, <1>5, <2>4, OwedAtOrigin DEF CarriesGoal
    <2> QED
      BY <2>1, <2>2, <2>3, <2>4 DEF Bind, FinGoal, FinAudit
  <1> QED
    BY <1>1, <1>4, <1>6, OwedSteady

LEMMA OwedGoalCommand ==
  ASSUME HandInv, OwedInv, ClearsTransferred = FALSE, NEW s \in Sessions, TurnStart(s) \/ GoalCommand(s)
  PROVE  OwedInv'
  <1>1. OwedQuiet
    BY DEF TurnStart, GoalCommand, command, records, orientation, OwedQuiet, CarriesGoal
  <1>2. CASE UNCHANGED <<mem, file>>
    BY <1>1, <1>2, OwedSteady
  <1>3. CASE mem[s].goal \in {"active", "paused"} /\ \E g \in {"none", "active", "paused"} : AppendGoal(s, g)
    BY <1>1, <1>3, OwedOnBranch, Names, OwedSteady
  <1> QED
    BY <1>2, <1>3 DEF TurnStart, GoalCommand

LEMMA OwedReclaim ==
  ASSUME HandInv, OwedInv, NEW s \in Sessions, ReclaimAudit(s) \/ ReclaimGoal(s)
  PROVE  OwedInv'
  <1>1. mem[s].goal = "transferring" /\ mem[s].last \in Attempts
    BY ReclaimAuditLock, BranchFacts DEF ReclaimGoal, HandInv, LockInv
  <1>2. UNCHANGED <<request, child>>
    BY DEF ReclaimAudit, ReclaimGoal, command, orientation
  <1>3. \A b \in Attempts : audit'[b] \in Unresolved \union {"transferred"} => audit'[b] = audit[b]
    BY ReducedNames DEF ReclaimAudit, ReclaimGoal, AppendAudit, records, HandInv, Types, Unresolved
  <1>4. OwedQuiet
    BY <1>2, <1>3 DEF OwedQuiet, CarriesGoal
  <1>5. CASE UNCHANGED <<mem, file>>
    BY <1>4, <1>5, OwedSteady
  <1>6. CASE ReclaimGoal(s) /\ AppendGoal(s, "active")
    <2>1. audit'[mem[s].last] \notin Unresolved \union {"transferred"}
      BY <1>6 DEF ReclaimGoal, records, HandInv, LockInv, Unresolved
    <2> QED
      BY <1>1, <1>4, <1>6, <2>1, OwedOnBranch, Names, OwedSteady
  <1>7. CASE AppendGoal(s, mem[s].goal)
    BY <1>4, <1>7, BranchFacts, OwedOnBranch, OwedSteady
  <1> QED
    BY <1>5, <1>6, <1>7 DEF ReclaimAudit, ReclaimGoal

\* The other steps write no goal, and what they drop had no child.
LEMMA OwedOther ==
  ASSUME HandInv, OwedInv, UNCHANGED audit,
         \A a \in Attempts : child'[a] # "none" => child[a] # "none",
         \A a \in Attempts : request'[a] \in {request[a], NoRequest},
         \A s \in Sessions :
           /\ mem'[s] \in {mem[s], file[s], NoBranch} \/ mem'[s].last = 0
           /\ file'[s] \in {mem[s], file[s], NoBranch}
  PROVE  OwedInv'
  <1>1. OwedQuiet
    BY DEF OwedQuiet, CarriesGoal, NoRequest
  <1>2. \A B : B.last = 0 => OwedNext(B)
    BY DEF OwedNext
  <1> QED
    BY <1>1, <1>2, OwedSteady

LEMMA OwedBindFails ==
  ASSUME HandInv, OwedInv, NEW a \in Attempts, BindFails(a)
  PROVE  OwedInv'
  <1>1. step[a] = "switched" /\ child[a] = "received" /\ a \in Sessions
    BY TypedLocks DEF BindFails, Step, HandInv, ChildInv
  <1>2. mem[a].last = 0
    <2>1. Made(a) = {}
      BY <1>1 DEF HandInv, ChildInv
    <2>2. mem[a].last \notin Attempts /\ mem[a].last \in Sessions
      BY <1>1, <2>1, BranchFacts
    <2> QED
      BY <2>2, HandoffAssumption DEF Attempts, Sessions
  <1>3. \A s \in Sessions : mem'[s] = mem[s] \/ mem'[s].last = 0
    BY <1>1, <1>2 DEF BindFails, HandInv, Types, Branches
  <1>4. UNCHANGED <<audit, request, file>> /\ \A b \in Attempts : child'[b] # "none" => child[b] # "none"
    BY <1>1 DEF BindFails, records, HandInv, Types
  <1> QED
    BY <1>3, <1>4, OwedOther

LEMMA OwedChild ==
  ASSUME HandInv, OwedInv, NEW a \in Attempts, Oriented(a) \/ NotOriented(a) \/ Release(a)
  PROVE  OwedInv'
  <1>1. child[a] # "none"
    BY DEF Oriented, NotOriented, Release, Settles, HandInv, ChildInv
  <1>2. UNCHANGED <<audit, request, mem>> /\ \A b \in Attempts : child'[b] # "none" => child[b] # "none"
    BY <1>1 DEF Oriented, NotOriented, Release, Settles, records, command, HandInv, Types
  <1>3. \A s \in Sessions : file'[s] \in {mem[s], file[s]}
    BY DEF Oriented, NotOriented, Release, Settles, HandInv, Types
  <1> QED
    BY <1>2, <1>3, OwedOther

LEMMA OwedSession ==
  ASSUME HandInv, OwedInv, NEW s \in Sessions, Navigate(s) \/ Open(s) \/ Leave(s) \/ Crash(s)
  PROVE  OwedInv'
  <1>1. UNCHANGED <<audit, child, file>>
    BY DEF Navigate, Open, Leave, Crash, records, orientation
  <1>2. \A a \in Attempts : request'[a] \in {request[a], NoRequest}
    BY DEF Navigate, Open, Leave, Crash, command, HandInv, Types
  <1>3. mem'[s] \in {mem[s], file[s], NoBranch} \/ mem'[s].last = 0
    BY DEF Navigate, Open, Leave, Crash, HandInv, Types
  <1>4. \A t \in Sessions : t # s => mem'[t] = mem[t]
    BY DEF Navigate, Open, Leave, Crash, HandInv, Types
  <1> QED
    BY <1>1, <1>2, <1>3, <1>4, OwedOther

LEMMA OwedQuietSteps ==
  ASSUME HandInv, OwedInv, UNCHANGED <<audit, child, mem, file>>,
         \A a \in Attempts : request'[a] \in {request[a], NoRequest}
  PROVE  OwedInv'
  BY OwedOther

\* Every step keeps a goal that was handed off owed to its child.
LEMMA OwedKept == HandInv /\ OwedInv /\ ClearsTransferred = FALSE /\ [Next]_vars => OwedInv'
  <1> SUFFICES ASSUME HandInv, OwedInv, ClearsTransferred = FALSE, [Next]_vars
               PROVE  OwedInv'
    OBVIOUS
  <1> USE OwedQuietSteps DEF vars, command, records, orientation
  <1>1. ASSUME NEW a \in Attempts, NEW s \in Sessions, s < a, Begin(a, s)
        PROVE  OwedInv'
    BY <1>1, OwedBegin
  <1>2. ASSUME NEW a \in Attempts, Cancel(a)
        PROVE  OwedInv'
    BY <1>2 DEF Cancel, HandInv, Types
  <1>3. ASSUME NEW a \in Attempts, Prepare(a)
        PROVE  OwedInv'
    BY <1>3, OwedCommand
  <1>4. ASSUME NEW a \in Attempts, Move(a)
        PROVE  OwedInv'
    BY <1>4, OwedCommand
  <1>5. ASSUME NEW a \in Attempts, MoveFails(a)
        PROVE  OwedInv'
    BY <1>5 DEF MoveFails
  <1>6. ASSUME NEW a \in Attempts, Verify(a)
        PROVE  OwedInv'
    BY <1>6 DEF Verify
  <1>7. ASSUME NEW a \in Attempts, VerifyFails(a)
        PROVE  OwedInv'
    BY <1>7 DEF VerifyFails
  <1>8. ASSUME NEW a \in Attempts, SwitchCancelled(a)
        PROVE  OwedInv'
    BY <1>8 DEF SwitchCancelled
  <1>9. ASSUME NEW a \in Attempts, UndoGoal(a)
        PROVE  OwedInv'
    BY <1>9, OwedCommand
  <1>10. ASSUME NEW a \in Attempts, UndoAudit(a)
        PROVE  OwedInv'
    BY <1>10, OwedCommand
  <1>11. ASSUME NEW a \in Attempts, Switch(a)
        PROVE  OwedInv'
    BY <1>11, OwedSwitch
  <1>12. ASSUME NEW a \in Attempts, Bind(a)
        PROVE  OwedInv'
    BY <1>12, OwedEnd
  <1>13. ASSUME NEW a \in Attempts, BindFails(a)
        PROVE  OwedInv'
    BY <1>13, OwedBindFails
  <1>14. ASSUME NEW a \in Attempts, Kickoff(a)
        PROVE  OwedInv'
    BY <1>14 DEF Kickoff
  <1>15. ASSUME NEW a \in Attempts, KickoffFails(a)
        PROVE  OwedInv'
    BY <1>15 DEF KickoffFails
  <1>16. ASSUME NEW a \in Attempts, Retry(a)
        PROVE  OwedInv'
    BY <1>16 DEF Retry, Idle
  <1>17. ASSUME NEW a \in Attempts, Oriented(a)
        PROVE  OwedInv'
    BY <1>17, OwedChild
  <1>18. ASSUME NEW a \in Attempts, NotOriented(a)
        PROVE  OwedInv'
    BY <1>18, OwedChild
  <1>19. ASSUME NEW a \in Attempts, FinLock(a)
        PROVE  OwedInv'
    BY <1>19 DEF FinLock, Idle, Finalizable
  <1>20. ASSUME NEW a \in Attempts, FinGoal(a)
        PROVE  OwedInv'
    BY <1>20, OwedEnd
  <1>21. ASSUME NEW a \in Attempts, FinAudit(a)
        PROVE  OwedInv'
    BY <1>21, OwedEnd
  <1>22. ASSUME NEW a \in Attempts, Release(a)
        PROVE  OwedInv'
    BY <1>22, OwedChild
  <1>23. ASSUME NEW s \in Sessions, TurnStart(s)
        PROVE  OwedInv'
    BY <1>23, OwedGoalCommand
  <1>24. ASSUME NEW s \in Sessions, TurnEnd(s)
        PROVE  OwedInv'
    BY <1>24 DEF TurnEnd
  <1>25. ASSUME NEW s \in Sessions, GoalCommand(s)
        PROVE  OwedInv'
    BY <1>25, OwedGoalCommand
  <1>26. ASSUME NEW s \in Sessions, ReclaimLock(s)
        PROVE  OwedInv'
    BY <1>26 DEF ReclaimLock, Idle
  <1>27. ASSUME NEW s \in Sessions, ReclaimAudit(s)
        PROVE  OwedInv'
    BY <1>27, OwedReclaim
  <1>28. ASSUME NEW s \in Sessions, ReclaimGoal(s)
        PROVE  OwedInv'
    BY <1>28, OwedReclaim
  <1>29. ASSUME NEW s \in Sessions, Navigate(s)
        PROVE  OwedInv'
    BY <1>29, OwedSession
  <1>30. ASSUME NEW s \in Sessions, Open(s)
        PROVE  OwedInv'
    BY <1>30, OwedSession
  <1>31. ASSUME NEW s \in Sessions, Leave(s)
        PROVE  OwedInv'
    BY <1>31, OwedSession
  <1>32. ASSUME NEW s \in Sessions, Crash(s)
        PROVE  OwedInv'
    BY <1>32, OwedSession
  <1>33. ASSUME NEW s \in Sessions, ClearLock(s)
        PROVE  OwedInv'
    BY <1>33 DEF ClearLock
  <1>34. CASE UNCHANGED vars
    BY <1>34
  <1> QED
    BY <1>1, <1>2, <1>3, <1>4, <1>5, <1>6, <1>7, <1>8, <1>9, <1>10, <1>11, <1>12, <1>13, <1>14, <1>15, <1>16, <1>17, <1>18, <1>19, <1>20, <1>21, <1>22, <1>23, <1>24, <1>25, <1>26, <1>27, <1>28, <1>29, <1>30, <1>31, <1>32, <1>33, <1>34
    DEF Next, CommandStep, ChildStep, Finalize, SessionStep

-------------------------------------------------------------------------------
(* The end of a transfer *)

LEMMA EndingQuiet ==
  ASSUME HandInv, EndingInv,
         \A o \in Sessions : \A a \in Attempts :
           lock'[o].by = a /\ a # o =>
             /\ request'[a] \in {request[a], NoRequest}
             /\ \/ lock[o].by = a /\ (CarriesGoal(a) => audit'[a] = audit[a])
                \/ audit'[a] = "child_created"
  PROVE  EndingInv'
  BY DEF EndingInv, CarriesGoal, NoRequest

LEMMA EndingBegin ==
  ASSUME HandInv, OwedInv, EndingInv, NEW a \in Attempts, NEW s \in Sessions, s < a, Begin(a, s)
  PROVE  EndingInv'
  <1>1. UNCHANGED lock /\ step[a] = "none"
    BY DEF Begin, Step
  <1>2. \A b \in Attempts : b # a => request'[b] = request[b]
    BY DEF Begin, HandInv, Types
  <1>3. ASSUME NEW o \in Sessions, NEW b \in Attempts, lock'[o].by = b, b # o
        PROVE  b # a /\ lock[o].by = b /\ (CarriesGoal(b) => audit'[b] = audit[b])
    <2>1. lock[o].by = b /\ step[b] = "over" /\ Origin(b) = o /\ child[b] # "none"
      BY <1>1, <1>3, LockFacts, TypedLocks
    <2>2. ASSUME CarriesGoal(b), b = mem[s].last PROVE FALSE
      <3>1. audit[b] = "child_created"
        BY <1>3, <2>1, <2>2 DEF EndingInv
      <3>2. b # 0 /\ OwedBranch(mem[s])
        BY HandoffAssumption DEF Attempts, OwedInv
      <3> QED
        BY <2>1, <2>2, <3>1, <3>2 DEF OwedBranch, Unresolved, Begin
    <2>3. b # mem[s].last => audit'[b] = audit[b]
      BY DEF Begin, AppendAudit, HandInv, Types
    <2> QED
      BY <1>1, <2>1, <2>2, <2>3
  <1> QED
    BY <1>2, <1>3, EndingQuiet

LEMMA EndingCommand ==
  ASSUME HandInv, EndingInv, NEW a \in Attempts, Prepare(a) \/ UndoAudit(a) \/ Bind(a)
  PROVE  EndingInv'
  <1>1. UNCHANGED <<lock, request>> /\ step[a] # "over"
    BY DEF Prepare, UndoAudit, Bind, Step
  <1>2. \A b \in Attempts : b # a => audit'[b] = audit[b]
    <2>1. CASE AppendAudit(a, "prepared") \/ AppendAudit(a, "cancelled")
      BY <2>1 DEF AppendAudit, HandInv, Types
    <2> QED
      BY <2>1 DEF Prepare, UndoAudit, Bind, HandInv, Types
  <1> QED
    BY <1>1, <1>2, LockFacts, TypedLocks, EndingQuiet

LEMMA EndingFinLock ==
  ASSUME HandInv, EndingInv, NEW a \in Attempts, FinLock(a)
  PROVE  EndingInv'
  <1>1. UNCHANGED <<request, audit>> /\ audit[a] = "child_created" /\ Origin(a) \in Sessions
    BY RequestFacts DEF FinLock, Finalizable, command, records
  <1>2. \A o \in Sessions : lock'[o] = lock[o] \/ lock'[o].by = a
    BY DEF FinLock, HandInv, Types
  <1> QED
    BY <1>1, <1>2, EndingQuiet

LEMMA EndingFinAudit ==
  ASSUME HandInv, EndingInv, NEW a \in Attempts, FinAudit(a)
  PROVE  EndingInv'
  <1>1. UNCHANGED request /\ Origin(a) \in Sessions /\ lock'[Origin(a)].by = Nobody
    BY RequestFacts DEF FinAudit, command, HandInv, Types, Free
  <1>2. \A o \in Sessions : o # Origin(a) => lock'[o] = lock[o]
    BY DEF FinAudit, HandInv, Types
  <1>3. \A b \in Attempts : b # a => audit'[b] = audit[b]
    BY DEF FinAudit, HandInv, Types
  <1>4. \A o \in Sessions : lock[o].by = a /\ a # o => Origin(a) = o
    BY LockFacts, TypedLocks
  <1> QED
    BY <1>1, <1>2, <1>3, <1>4, TypedLocks, EndingQuiet

LEMMA EndingReclaim ==
  ASSUME HandInv, EndingInv, NEW s \in Sessions, ReclaimLock(s) \/ ReclaimAudit(s)
  PROVE  EndingInv'
  <1>1. UNCHANGED request
    BY DEF ReclaimLock, ReclaimAudit, command
  <1>2. lock'[s].by \in {s, Nobody}
    BY ReclaimAuditLock DEF ReclaimLock, HandInv, Types, Free
  <1>3. \A o \in Sessions : o # s => lock'[o] = lock[o]
    BY ReclaimAuditLock DEF ReclaimLock, HandInv, Types
  <1>4. \A b \in Attempts : Origin(b) # s => audit'[b] = audit[b]
    <2>1. mem[s].last \in Attempts => Origin(mem[s].last) = s
      BY BranchFacts DEF Made
    <2>2. CASE AppendAudit(mem[s].last, "reclaimed")
      BY <2>1, <2>2 DEF AppendAudit, HandInv, Types
    <2> QED
      BY <2>2 DEF ReclaimLock, ReclaimAudit, records
  <1>5. \A o \in Sessions : \A b \in Attempts : lock[o].by = b /\ b # o => Origin(b) = o
    BY LockFacts, TypedLocks
  <1> QED
    BY <1>1, <1>2, <1>3, <1>4, <1>5, TypedLocks, EndingQuiet

\* The other steps write no audit and take no lock.
LEMMA EndingRest ==
  ASSUME HandInv, EndingInv, UNCHANGED audit, GivesBack,
         \A a \in Attempts : request'[a] \in {request[a], NoRequest}
  PROVE  EndingInv'
  BY TypedLocks, EndingQuiet DEF GivesBack

LEMMA GivesBackQuiet == ASSUME HandInv, UNCHANGED lock PROVE GivesBack
  BY DEF GivesBack

\* Every step keeps the ends of transfers to open ones.
LEMMA EndingKept == HandInv /\ OwedInv /\ EndingInv /\ [Next]_vars => EndingInv'
  <1> SUFFICES ASSUME HandInv, OwedInv, EndingInv, [Next]_vars
               PROVE  EndingInv'
    OBVIOUS
  <1> USE EndingRest, GivesBackQuiet DEF vars, command, records, orientation
  <1>1. ASSUME NEW a \in Attempts, NEW s \in Sessions, s < a, Begin(a, s)
        PROVE  EndingInv'
    BY <1>1, EndingBegin
  <1>2. ASSUME NEW a \in Attempts, Cancel(a)
        PROVE  EndingInv'
    BY <1>2 DEF Cancel, HandInv, Types
  <1>3. ASSUME NEW a \in Attempts, Prepare(a)
        PROVE  EndingInv'
    BY <1>3, EndingCommand
  <1>4. ASSUME NEW a \in Attempts, Move(a)
        PROVE  EndingInv'
    BY <1>4 DEF Move, AppendGoal, AppendTo
  <1>5. ASSUME NEW a \in Attempts, MoveFails(a)
        PROVE  EndingInv'
    BY <1>5 DEF MoveFails
  <1>6. ASSUME NEW a \in Attempts, Verify(a)
        PROVE  EndingInv'
    BY <1>6 DEF Verify
  <1>7. ASSUME NEW a \in Attempts, VerifyFails(a)
        PROVE  EndingInv'
    BY <1>7 DEF VerifyFails
  <1>8. ASSUME NEW a \in Attempts, SwitchCancelled(a)
        PROVE  EndingInv'
    BY <1>8 DEF SwitchCancelled
  <1>9. ASSUME NEW a \in Attempts, UndoGoal(a)
        PROVE  EndingInv'
    BY <1>9 DEF UndoGoal, AppendGoal, AppendTo
  <1>10. ASSUME NEW a \in Attempts, UndoAudit(a)
        PROVE  EndingInv'
    BY <1>10, EndingCommand
  <1>11. ASSUME NEW a \in Attempts, Switch(a)
        PROVE  EndingInv'
    BY <1>11 DEF Switch, Forget
  <1>12. ASSUME NEW a \in Attempts, Bind(a)
        PROVE  EndingInv'
    BY <1>12, EndingCommand
  <1>13. ASSUME NEW a \in Attempts, BindFails(a)
        PROVE  EndingInv'
    BY <1>13 DEF BindFails
  <1>14. ASSUME NEW a \in Attempts, Kickoff(a)
        PROVE  EndingInv'
    BY <1>14 DEF Kickoff
  <1>15. ASSUME NEW a \in Attempts, KickoffFails(a)
        PROVE  EndingInv'
    BY <1>15 DEF KickoffFails
  <1>16. ASSUME NEW a \in Attempts, Retry(a)
        PROVE  EndingInv'
    BY <1>16 DEF Retry, Idle
  <1>17. ASSUME NEW a \in Attempts, Oriented(a)
        PROVE  EndingInv'
    BY <1>17 DEF Oriented, Settles
  <1>18. ASSUME NEW a \in Attempts, NotOriented(a)
        PROVE  EndingInv'
    BY <1>18 DEF NotOriented, Settles
  <1>19. ASSUME NEW a \in Attempts, FinLock(a)
        PROVE  EndingInv'
    BY <1>19, EndingFinLock
  <1>20. ASSUME NEW a \in Attempts, FinGoal(a)
        PROVE  EndingInv'
    BY <1>20, LocksGivenBack DEF FinGoal
  <1>21. ASSUME NEW a \in Attempts, FinAudit(a)
        PROVE  EndingInv'
    BY <1>21, EndingFinAudit
  <1>22. ASSUME NEW a \in Attempts, Release(a)
        PROVE  EndingInv'
    BY <1>22 DEF Release, Idle
  <1>23. ASSUME NEW s \in Sessions, TurnStart(s)
        PROVE  EndingInv'
    BY <1>23 DEF TurnStart, AppendGoal, AppendTo, Idle
  <1>24. ASSUME NEW s \in Sessions, TurnEnd(s)
        PROVE  EndingInv'
    BY <1>24 DEF TurnEnd
  <1>25. ASSUME NEW s \in Sessions, GoalCommand(s)
        PROVE  EndingInv'
    BY <1>25 DEF GoalCommand, AppendGoal, AppendTo, Idle
  <1>26. ASSUME NEW s \in Sessions, ReclaimLock(s)
        PROVE  EndingInv'
    BY <1>26, EndingReclaim
  <1>27. ASSUME NEW s \in Sessions, ReclaimAudit(s)
        PROVE  EndingInv'
    BY <1>27, EndingReclaim
  <1>28. ASSUME NEW s \in Sessions, ReclaimGoal(s)
        PROVE  EndingInv'
    BY <1>28, LocksGivenBack DEF ReclaimGoal
  <1>29. ASSUME NEW s \in Sessions, Navigate(s)
        PROVE  EndingInv'
    BY <1>29 DEF Navigate, Idle
  <1>30. ASSUME NEW s \in Sessions, Open(s)
        PROVE  EndingInv'
    BY <1>30 DEF Open
  <1>31. ASSUME NEW s \in Sessions, Leave(s)
        PROVE  EndingInv'
    BY <1>31 DEF Leave, Idle
  <1>32. ASSUME NEW s \in Sessions, Crash(s)
        PROVE  EndingInv'
    BY <1>32, LocksGivenBack DEF Crash, HandInv, Types
  <1>33. ASSUME NEW s \in Sessions, ClearLock(s)
        PROVE  EndingInv'
    BY <1>33, LocksGivenBack DEF ClearLock
  <1>34. CASE UNCHANGED vars
    BY <1>34
  <1> QED
    BY <1>1, <1>2, <1>3, <1>4, <1>5, <1>6, <1>7, <1>8, <1>9, <1>10, <1>11, <1>12, <1>13, <1>14, <1>15, <1>16, <1>17, <1>18, <1>19, <1>20, <1>21, <1>22, <1>23, <1>24, <1>25, <1>26, <1>27, <1>28, <1>29, <1>30, <1>31, <1>32, <1>33, <1>34
    DEF Next, CommandStep, ChildStep, Finalize, SessionStep

-------------------------------------------------------------------------------
(* What the origin knows *)

\* A step that ends no audit keeps what the origins know right.
LEMMA KnownQuiet ==
  ASSUME HandInv, KnownInv, UNCHANGED audit,
         \A a \in Attempts :
           /\ request'[a] \in {request[a], NoRequest}
           /\ child'[a] = "transferred" => child[a] = "transferred" \/ audit[a] = "transferred"
           /\ \/ known'[a] = audit[a]
              \/ known'[a] = known[a] /\ (CarriesGoal(a) /\ open'[Origin(a)] => open[Origin(a)])
              \/ known'[a] = "none" /\ ~open'[Origin(a)]
  PROVE  KnownInv'
  <1>1. ASSUME NEW a \in Attempts
        PROVE  /\ audit'[a] = "none" => known'[a] = "none"
               /\ request'[a].goal = "active" =>
                    /\ audit'[a] # "conflict"
                    /\ child'[a] = "transferred" => audit'[a] = "transferred"
                    /\ open'[request'[a].origin] =>
                         \/ known'[a] = audit'[a]
                         \/ known'[a] \in Unresolved /\ audit'[a] \in {"child_created", "transferred"}
    BY DEF KnownInv, CarriesGoal, Origin, NoRequest
  <1> QED
    BY <1>1 DEF KnownInv, CarriesGoal, Origin

\* A step that records the audit of one attempt.
LEMMA KnownOne ==
  ASSUME HandInv, KnownInv, NEW p \in Attempts, UNCHANGED <<open, child>>,
         \A b \in Attempts : b # p => audit'[b] = audit[b] /\ known'[b] = known[b],
         \A b \in Attempts : request'[b] = request[b] \/ (audit[b] = "none" /\ child[b] = "none" /\ b # p),
         audit'[p] # "none",
         CarriesGoal(p) =>
           /\ audit'[p] # "conflict" /\ (child[p] = "transferred" => audit'[p] = "transferred")
           /\ open[Origin(p)] =>
                \/ known'[p] = audit'[p]
                \/ known'[p] \in Unresolved /\ audit'[p] \in {"child_created", "transferred"}
  PROVE  KnownInv'
  <1>1. ASSUME NEW a \in Attempts
        PROVE  /\ audit'[a] = "none" => known'[a] = "none"
               /\ request'[a].goal = "active" =>
                    /\ audit'[a] # "conflict"
                    /\ child'[a] = "transferred" => audit'[a] = "transferred"
                    /\ open'[request'[a].origin] =>
                         \/ known'[a] = audit'[a]
                         \/ known'[a] \in Unresolved /\ audit'[a] \in {"child_created", "transferred"}
    BY DEF KnownInv, CarriesGoal, Origin
  <1> QED
    BY <1>1 DEF KnownInv, CarriesGoal, Origin

\* Only an attempt that has no child yet is superseded, and its origin knows its audit.
LEMMA Superseded ==
  ASSUME HandInv, OwedInv, KnownInv, NEW a \in Attempts, NEW s \in Sessions, Begin(a, s),
         mem[s].last \in Attempts, known[mem[s].last] \in Unresolved, CarriesGoal(mem[s].last)
  PROVE  /\ audit[mem[s].last] = "prepared" /\ known[mem[s].last] = "prepared"
         /\ child[mem[s].last] = "none" /\ mem[s].goal = "none"
  <1> DEFINE p == mem[s].last
  <1>1. open[s] /\ mem[s].goal \notin {"transferring", "transferred"} /\ (mem[s].goal # "none" => ~Outbound(s))
    BY DEF Begin, Idle
  <1>2. p \in Made(s) /\ Origin(p) = s
    BY BranchFacts DEF Made
  <1>3. Outbound(s)
    BY <1>2 DEF Outbound
  <1>4. known[p] = audit[p] \/ audit[p] \in {"child_created", "transferred"}
    BY <1>1, <1>2 DEF KnownInv
  <1>5. audit[p] \in Unresolved \union {"transferred"}
    BY <1>4 DEF Unresolved
  <1>6. child[p] = "none"
    BY <1>1, <1>5, HandoffAssumption DEF OwedInv, OwedBranch, Attempts
  <1>7. audit[p] \notin {"child_created", "transferred"}
    BY <1>6 DEF HandInv, ChildInv
  <1> QED
    BY <1>1, <1>3, <1>4, <1>5, <1>6, <1>7 DEF Unresolved

LEMMA KnownBegin ==
  ASSUME HandInv, OwedInv, KnownInv, NEW a \in Attempts, NEW s \in Sessions, s < a, Begin(a, s)
  PROVE  KnownInv'
  <1>1. audit[a] = "none" /\ child[a] = "none" /\ step[a] = "none" /\ request[a] = NoRequest
    BY RequestFacts DEF Begin, Step, HandInv, ChildInv, RequestInv
  <1>2. UNCHANGED <<open, child>> /\ \A b \in Attempts : b # a => request'[b] = request[b]
    BY DEF Begin, orientation, HandInv, Types
  <1>3. CASE UNCHANGED <<audit, known>>
    <2>1. ASSUME NEW b \in Attempts
          PROVE  /\ audit'[b] = "none" => known'[b] = "none"
                 /\ request'[b].goal = "active" =>
                      /\ audit'[b] # "conflict"
                      /\ child'[b] = "transferred" => audit'[b] = "transferred"
                      /\ open'[request'[b].origin] =>
                           \/ known'[b] = audit'[b]
                           \/ known'[b] \in Unresolved /\ audit'[b] \in {"child_created", "transferred"}
      BY <1>1, <1>2, <1>3 DEF KnownInv, CarriesGoal, Origin
    <2> QED
      BY <2>1 DEF KnownInv, CarriesGoal, Origin
  <1>4. CASE mem[s].last \in Attempts /\ known[mem[s].last] \in Unresolved /\ AppendAudit(mem[s].last, "failed")
    <2> DEFINE p == mem[s].last
    <2>1. /\ audit'[p] = Reduced(audit[p], "failed") /\ known'[p] = Reduced(known[p], "failed")
          /\ \A b \in Attempts : b # p => audit'[b] = audit[b] /\ known'[b] = known[b]
      BY <1>4 DEF AppendAudit, HandInv, Types
    <2>2. CarriesGoal(p) => audit'[p] = "failed" /\ known'[p] = "failed" /\ child[p] = "none"
      BY <1>4, <2>1, Superseded, ReducedNames DEF Unresolved
    <2>3. p # a /\ audit'[p] # "none"
      BY <1>1, <1>4, <2>1, BranchFacts, ReducedNames
    <2> QED
      BY <1>1, <1>2, <1>4, <2>1, <2>2, <2>3, KnownOne
  <1> QED
    BY <1>3, <1>4 DEF Begin

LEMMA KnownPrepare ==
  ASSUME HandInv, KnownInv, NEW a \in Attempts, Prepare(a)
  PROVE  KnownInv'
  <1>1. audit[a] = "none" /\ child[a] = "none" /\ known[a] = "none"
    BY RequestFacts DEF Prepare, Step, HandInv, ChildInv, KnownInv
  <1>2. UNCHANGED <<open, child, request>>
    BY DEF Prepare, orientation
  <1>3. /\ audit'[a] = "prepared" /\ known'[a] = "prepared"
        /\ \A b \in Attempts : b # a => audit'[b] = audit[b] /\ known'[b] = known[b]
    BY <1>1, ReducedNames DEF Prepare, AppendAudit, HandInv, Types
  <1> QED
    BY <1>1, <1>2, <1>3, KnownOne

LEMMA KnownUndoAudit ==
  ASSUME HandInv, KnownInv, NEW a \in Attempts, UndoAudit(a)
  PROVE  KnownInv'
  <1>1. step[a] = "undone" /\ child[a] = "none" /\ step[a] \in Outgoing
    BY DEF UndoAudit, Step, HandInv, ChildInv, Outgoing
  <1>2. UNCHANGED <<open, child, request>>
    BY DEF UndoAudit, orientation
  <1>3. CarriesGoal(a) => audit[a] = "prepared" /\ known[a] = "prepared"
    BY <1>1, Alone DEF HandInv, StepInv, KnownInv
  <1>4. CASE UNCHANGED <<audit, known>>
    BY <1>2, <1>4, KnownQuiet
  <1>5. CASE AppendAudit(a, "cancelled")
    <2>1. /\ audit'[a] = Reduced(audit[a], "cancelled") /\ known'[a] = Reduced(known[a], "cancelled")
          /\ \A b \in Attempts : b # a => audit'[b] = audit[b] /\ known'[b] = known[b]
      BY <1>5 DEF AppendAudit, HandInv, Types
    <2> QED
      BY <1>1, <1>2, <1>3, <2>1, ReducedNames, KnownOne
  <1> QED
    BY <1>4, <1>5 DEF UndoAudit

LEMMA KnownBind ==
  ASSUME HandInv, KnownInv, NEW a \in Attempts, Bind(a)
  PROVE  KnownInv'
  <1>1. step[a] = "switched" /\ child[a] = "received" /\ audit[a] = "prepared"
    BY DEF Bind, Step, HandInv, ChildInv
  <1>2. UNCHANGED <<open, child, request, known>>
    BY DEF Bind, orientation
  <1>3. audit'[a] = "child_created" /\ \A b \in Attempts : b # a => audit'[b] = audit[b]
    BY <1>1, ReducedNames DEF Bind, HandInv, Types
  <1>4. CarriesGoal(a) /\ open[Origin(a)] => known[a] = "prepared"
    BY <1>1 DEF KnownInv
  <1> QED
    BY <1>1, <1>2, <1>3, <1>4, KnownOne DEF Unresolved

LEMMA KnownFinAudit ==
  ASSUME HandInv, EndingInv, KnownInv, NEW a \in Attempts, FinAudit(a)
  PROVE  KnownInv'
  <1>1. child[a] = "awaiting_user" /\ Origin(a) \in Sessions /\ Origin(a) # a /\ lock[Origin(a)].by = a /\ audit[a] # "none"
    BY EndingFacts, RequestFacts
  <1>2. UNCHANGED <<open, child, request, known>>
    BY DEF FinAudit, orientation, command
  <1>3. CASE UNCHANGED audit
    BY <1>2, <1>3, KnownQuiet
  <1>4. CASE audit' = [audit EXCEPT ![a] = Reduced(audit[a], "transferred")]
    <2>1. /\ audit'[a] = Reduced(audit[a], "transferred")
          /\ \A b \in Attempts : b # a => audit'[b] = audit[b]
      BY <1>4 DEF HandInv, Types
    <2>2. CarriesGoal(a) => audit[a] = "child_created" /\ audit'[a] = "transferred"
      BY <1>1, <2>1, ReducedNames DEF EndingInv
    <2>3. CarriesGoal(a) /\ open[Origin(a)] => known[a] \in Unresolved
      BY <2>2 DEF KnownInv, Unresolved
    <2> QED
      BY <1>1, <1>2, <2>1, <2>2, <2>3, ReducedNames, KnownOne
  <1> QED
    BY <1>3, <1>4 DEF FinAudit

LEMMA KnownReclaimAudit ==
  ASSUME HandInv, KnownInv, NEW s \in Sessions, ReclaimAudit(s)
  PROVE  KnownInv'
  <1> DEFINE p == mem[s].last
  <1>1. lock[s].by = s /\ p \in Attempts /\ Origin(p) = s /\ audit[p] \in Unresolved /\ open[s]
    BY ReclaimAuditLock, LockFacts DEF HandInv, LockInv
  <1>2. UNCHANGED <<open, child, request>>
    BY DEF ReclaimAudit, orientation, command
  <1>3. CASE UNCHANGED <<audit, known>>
    BY <1>2, <1>3, KnownQuiet
  <1>4. CASE AppendAudit(p, "reclaimed")
    <2>1. /\ audit'[p] = Reduced(audit[p], "reclaimed") /\ known'[p] = Reduced(known[p], "reclaimed")
          /\ \A b \in Attempts : b # p => audit'[b] = audit[b] /\ known'[b] = known[b]
      BY <1>1, <1>4 DEF AppendAudit, HandInv, Types
    <2>2. audit'[p] = "reclaimed"
      BY <1>1, <2>1, ReducedNames
    <2>3. CarriesGoal(p) => known[p] \in Unresolved /\ child[p] # "transferred"
      BY <1>1 DEF KnownInv, Unresolved
    <2>4. CarriesGoal(p) => known'[p] = "reclaimed"
      BY <2>1, <2>3, ReducedNames
    <2> QED
      BY <1>1, <1>2, <2>1, <2>2, <2>3, <2>4, KnownOne
  <1> QED
    BY <1>3, <1>4 DEF ReclaimAudit

LEMMA KnownSwitch ==
  ASSUME HandInv, KnownInv, NEW a \in Attempts, Switch(a)
  PROVE  KnownInv'
  <1>1. child[a] = "none" /\ a \in Sessions /\ Origin(a) \in Sessions /\ Origin(a) # a
    BY RequestFacts, TypedLocks, HandoffAssumption DEF Switch, Step, HandInv, ChildInv, Attempts, Sessions
  <1>2. UNCHANGED <<audit, request>>
    BY DEF Switch
  <1>3. \A b \in Attempts : child'[b] = "transferred" => child[b] = "transferred"
    BY DEF Switch, HandInv, Types
  <1>4. \A b \in Attempts : CarriesGoal(b) => Origin(b) # a
    BY <1>1, RequestFacts DEF HandInv, ChildInv, Made
  <1>5. ~open'[Origin(a)] /\ \A o \in Sessions : o # a => (open'[o] => open[o])
    BY <1>1 DEF Switch, HandInv, Types
  <1>6. \A b \in Attempts : known'[b] = known[b] \/ (known'[b] = "none" /\ Origin(b) = Origin(a))
    BY DEF Switch, Forget, Made
  <1> QED
    BY <1>2, <1>3, <1>4, <1>5, <1>6, RequestFacts, KnownQuiet

LEMMA KnownSession ==
  ASSUME HandInv, KnownInv, NEW s \in Sessions, Open(s) \/ Leave(s) \/ Crash(s)
  PROVE  KnownInv'
  <1>1. UNCHANGED <<audit, child>>
    BY DEF Open, Leave, Crash, records, orientation
  <1>2. \A b \in Attempts : request'[b] \in {request[b], NoRequest}
    BY DEF Open, Leave, Crash, command
  <1>3. \A b \in Attempts : CarriesGoal(b) /\ Origin(b) = s => b \in Made(s)
    BY RequestFacts DEF Made
  <1>4. CASE Open(s)
    <2>1. \A b \in Attempts : known'[b] = IF b \in Made(s) THEN audit[b] ELSE known[b]
      BY <1>4 DEF Open
    <2>2. \A o \in Sessions : o # s => open'[o] = open[o]
      BY <1>4 DEF Open, HandInv, Types
    <2> QED
      BY <1>1, <1>2, <1>3, <2>1, <2>2, RequestFacts, KnownQuiet
  <1>5. CASE Leave(s) \/ Crash(s)
    <2>1. \A b \in Attempts : known'[b] = known[b] \/ (known'[b] = "none" /\ Origin(b) = s)
      BY <1>5 DEF Leave, Crash, Forget, Made, records
    <2>2. ~open'[s] /\ \A o \in Sessions : open'[o] => open[o]
      BY <1>5 DEF Leave, Crash, HandInv, Types
    <2> QED
      BY <1>1, <1>2, <2>1, <2>2, RequestFacts, KnownQuiet
  <1> QED
    BY <1>4, <1>5

LEMMA KnownRest ==
  ASSUME HandInv, KnownInv, UNCHANGED <<audit, known, open>>,
         \A a \in Attempts : request'[a] \in {request[a], NoRequest},
         \A a \in Attempts : child'[a] = "transferred" => child[a] = "transferred" \/ audit[a] = "transferred"
  PROVE  KnownInv'
  BY KnownQuiet

\* Every step keeps an open origin from missing more than its child's entries.
LEMMA KnownKept == HandInv /\ OwedInv /\ EndingInv /\ KnownInv /\ [Next]_vars => KnownInv'
  <1> SUFFICES ASSUME HandInv, OwedInv, EndingInv, KnownInv, [Next]_vars
               PROVE  KnownInv'
    OBVIOUS
  <1> USE KnownRest DEF vars, command, records, orientation
  <1>1. ASSUME NEW a \in Attempts, NEW s \in Sessions, s < a, Begin(a, s)
        PROVE  KnownInv'
    BY <1>1, KnownBegin
  <1>2. ASSUME NEW a \in Attempts, Cancel(a)
        PROVE  KnownInv'
    BY <1>2 DEF Cancel, HandInv, Types
  <1>3. ASSUME NEW a \in Attempts, Prepare(a)
        PROVE  KnownInv'
    BY <1>3, KnownPrepare
  <1>4. ASSUME NEW a \in Attempts, Move(a)
        PROVE  KnownInv'
    BY <1>4 DEF Move, AppendGoal, AppendTo
  <1>5. ASSUME NEW a \in Attempts, MoveFails(a)
        PROVE  KnownInv'
    BY <1>5 DEF MoveFails
  <1>6. ASSUME NEW a \in Attempts, Verify(a)
        PROVE  KnownInv'
    BY <1>6 DEF Verify
  <1>7. ASSUME NEW a \in Attempts, VerifyFails(a)
        PROVE  KnownInv'
    BY <1>7 DEF VerifyFails
  <1>8. ASSUME NEW a \in Attempts, SwitchCancelled(a)
        PROVE  KnownInv'
    BY <1>8 DEF SwitchCancelled
  <1>9. ASSUME NEW a \in Attempts, UndoGoal(a)
        PROVE  KnownInv'
    BY <1>9 DEF UndoGoal, AppendGoal, AppendTo
  <1>10. ASSUME NEW a \in Attempts, UndoAudit(a)
        PROVE  KnownInv'
    BY <1>10, KnownUndoAudit
  <1>11. ASSUME NEW a \in Attempts, Switch(a)
        PROVE  KnownInv'
    BY <1>11, KnownSwitch
  <1>12. ASSUME NEW a \in Attempts, Bind(a)
        PROVE  KnownInv'
    BY <1>12, KnownBind
  <1>13. ASSUME NEW a \in Attempts, BindFails(a)
        PROVE  KnownInv'
    BY <1>13 DEF BindFails, Settles, HandInv, Types
  <1>14. ASSUME NEW a \in Attempts, Kickoff(a)
        PROVE  KnownInv'
    BY <1>14 DEF Kickoff
  <1>15. ASSUME NEW a \in Attempts, KickoffFails(a)
        PROVE  KnownInv'
    BY <1>15 DEF KickoffFails
  <1>16. ASSUME NEW a \in Attempts, Retry(a)
        PROVE  KnownInv'
    BY <1>16 DEF Retry, Idle
  <1>17. ASSUME NEW a \in Attempts, Oriented(a)
        PROVE  KnownInv'
    BY <1>17 DEF Oriented, Settles, HandInv, Types
  <1>18. ASSUME NEW a \in Attempts, NotOriented(a)
        PROVE  KnownInv'
    BY <1>18 DEF NotOriented, Settles, HandInv, Types
  <1>19. ASSUME NEW a \in Attempts, FinLock(a)
        PROVE  KnownInv'
    BY <1>19 DEF FinLock, Idle, Finalizable
  <1>20. ASSUME NEW a \in Attempts, FinGoal(a)
        PROVE  KnownInv'
    BY <1>20 DEF FinGoal, AppendAtOrigin
  <1>21. ASSUME NEW a \in Attempts, FinAudit(a)
        PROVE  KnownInv'
    BY <1>21, KnownFinAudit
  <1>22. ASSUME NEW a \in Attempts, Release(a)
        PROVE  KnownInv'
    BY <1>22 DEF Release, Settles, HandInv, Types
  <1>23. ASSUME NEW s \in Sessions, TurnStart(s)
        PROVE  KnownInv'
    BY <1>23 DEF TurnStart, AppendGoal, AppendTo, Idle
  <1>24. ASSUME NEW s \in Sessions, TurnEnd(s)
        PROVE  KnownInv'
    BY <1>24 DEF TurnEnd
  <1>25. ASSUME NEW s \in Sessions, GoalCommand(s)
        PROVE  KnownInv'
    BY <1>25 DEF GoalCommand, AppendGoal, AppendTo, Idle
  <1>26. ASSUME NEW s \in Sessions, ReclaimLock(s)
        PROVE  KnownInv'
    BY <1>26 DEF ReclaimLock, Idle
  <1>27. ASSUME NEW s \in Sessions, ReclaimAudit(s)
        PROVE  KnownInv'
    BY <1>27, KnownReclaimAudit
  <1>28. ASSUME NEW s \in Sessions, ReclaimGoal(s)
        PROVE  KnownInv'
    BY <1>28 DEF ReclaimGoal, AppendGoal, AppendTo
  <1>29. ASSUME NEW s \in Sessions, Navigate(s)
        PROVE  KnownInv'
    BY <1>29 DEF Navigate, Idle
  <1>30. ASSUME NEW s \in Sessions, Open(s)
        PROVE  KnownInv'
    BY <1>30, KnownSession
  <1>31. ASSUME NEW s \in Sessions, Leave(s)
        PROVE  KnownInv'
    BY <1>31, KnownSession
  <1>32. ASSUME NEW s \in Sessions, Crash(s)
        PROVE  KnownInv'
    BY <1>32, KnownSession
  <1>33. ASSUME NEW s \in Sessions, ClearLock(s)
        PROVE  KnownInv'
    BY <1>33 DEF ClearLock
  <1>34. CASE UNCHANGED vars
    BY <1>34
  <1> QED
    BY <1>1, <1>2, <1>3, <1>4, <1>5, <1>6, <1>7, <1>8, <1>9, <1>10, <1>11, <1>12, <1>13, <1>14, <1>15, <1>16, <1>17, <1>18, <1>19, <1>20, <1>21, <1>22, <1>23, <1>24, <1>25, <1>26, <1>27, <1>28, <1>29, <1>30, <1>31, <1>32, <1>33, <1>34
    DEF Next, CommandStep, ChildStep, Finalize, SessionStep

-------------------------------------------------------------------------------
(* What a step does to the claims *)

\* Session s may have a turn for the goal or hand it off, as far as s can see.
Entitled(s) == \A h \in Sessions : IsAt(h) /\ OneClaim(h) => s = h /\ Offered = {}

\* What a step does to the claims on the goal, to the commands that ask for it and
\* to the turns for it.
NoClaim == Passed' = Passed /\ Offered' = Offered

Waits == NoClaim /\ Working' = Working /\ Asking' \subseteq Asking

Asks ==
  \E a \in Attempts : \E s \in Sessions :
    /\ Entitled(s) /\ NoClaim /\ Working' = Working
    /\ Asking' \subseteq Asking \union {a} /\ request'[a].origin = s

Offers ==
  \E a \in Asking :
    /\ Origin(a) \notin Working /\ \A b \in Asking : Origin(b) = Origin(a) => b = a
    /\ Passed' = Passed /\ Offered' = Offered \union {a} /\ Working' = Working /\ Asking' \subseteq Asking \ {a}

Withdraws ==
  \E a \in Offered :
    Passed' = Passed /\ Offered' = Offered \ {a} /\ Working' = Working /\ Asking' \subseteq Asking

Passes ==
  \E a \in Offered :
    Passed' = Passed \union {a} /\ Offered' = Offered \ {a} /\ Working' = Working /\ Asking' \subseteq Asking

Starts ==
  \E s \in Sessions \ Working :
    Entitled(s) /\ NoClaim /\ Working' = Working \union {s} /\ Asking' \subseteq Asking

Stops == \E s \in Working : NoClaim /\ Working' = Working \ {s} /\ Asking' \subseteq Asking

SameRequests == \A a \in Passed \union Offered \union (Asking \intersect (Asking' \union Offered')) : request'[a] = request[a]

Handover == SameRequests /\ (Waits \/ Asks \/ Offers \/ Withdraws \/ Passes \/ Starts \/ Stops)

\* The invariants relate what a session can see to what the audits say: only the
\* session the goal is at sees it active and not handed off.
LEMMA SeesNoClaim ==
  ASSUME HandInv, KnownInv, NEW s \in Sessions, open[s], mem[s].goal = "active", ~Outbound(s),
         ChildAudit(s) \notin Pending, ChildAudit(s) # "failed" \/ ~CarriesGoal(s)
  PROVE  Entitled(s)
  <1> SUFFICES ASSUME NEW h \in Sessions, IsAt(h), OneClaim(h)
               PROVE  s = h /\ Offered = {}
    BY DEF Entitled
  <1>1. s = 0 \/ (s \in Attempts /\ CarriesGoal(s) /\ child[s] # "none")
    BY BranchFacts
  <1>2. s \in Attempts => child[s] = "transferred"
    BY <1>1, HandoffAssumption DEF ChildAudit, Pending, HandInv, Types, Attempts
  <1>3. s \in Passed \union {0}
    BY <1>1, <1>2 DEF Passed, KnownInv
  <1>4. \A a \in Attempts : CarriesGoal(a) /\ Origin(a) = s => audit[a] \notin Unresolved \union {"transferred"}
    <2>1. \A a \in Attempts : CarriesGoal(a) /\ Origin(a) = s => a \in Made(s)
      BY RequestFacts DEF Made
    <2>2. \A a \in Made(s) : CarriesGoal(a) => known[a] \notin Unresolved \union {"transferred"}
      BY DEF Outbound
    <2> QED
      BY <2>1, <2>2 DEF KnownInv
  <1>5. \A a \in Passed \union Offered : Origin(a) # s
    BY <1>4 DEF Passed, Offered
  <1>6. s = h
    BY <1>3, <1>5 DEF IsAt
  <1> QED
    BY <1>5, <1>6 DEF OneClaim

\* The child that the goal passed to is the session the goal is at.
LEMMA ReleasedEntitled ==
  ASSUME HandInv, NEW a \in Attempts, CarriesGoal(a), child[a] = "awaiting_user", audit[a] = "transferred"
  PROVE  Entitled(a)
  <1> SUFFICES ASSUME NEW h \in Sessions, IsAt(h), OneClaim(h)
               PROVE  a = h /\ Offered = {}
    BY DEF Entitled
  <1>1. a \in Passed /\ Made(a) = {}
    BY DEF Passed, HandInv, ChildInv
  <1>2. \A b \in Passed \union Offered : Origin(b) # a
    BY <1>1, RequestFacts DEF Passed, Offered, Made
  <1>3. a = h
    BY <1>1, <1>2 DEF IsAt
  <1> QED
    BY <1>2, <1>3 DEF OneClaim

\* A step that records no audit leaves the claims alone.
LEMMA ClaimsQuiet ==
  ASSUME HandInv, UNCHANGED audit,
         \A a \in Attempts :
           /\ request'[a] = request[a] \/ (audit[a] = "none" /\ step'[a] # "review")
           /\ step'[a] = "review" => step[a] = "review"
  PROVE  NoClaim /\ Asking' \subseteq Asking /\ SameRequests
  <1>1. "none" \notin Unresolved
    BY DEF Unresolved
  <1> QED
    BY <1>1 DEF NoClaim, Passed, Offered, Asking, SameRequests, CarriesGoal

\* A step that records the audit of one attempt.
LEMMA ClaimsOne ==
  ASSUME HandInv, NEW p \in Attempts, request' = request,
         \A b \in Attempts : b # p => audit'[b] = audit[b],
         \A b \in Attempts : step'[b] = "review" => step[b] = "review" /\ b # p
  PROVE  /\ SameRequests /\ Asking' \subseteq Asking \ {p}
         /\ \A b \in Attempts : b # p => (b \in Passed' <=> b \in Passed) /\ (b \in Offered' <=> b \in Offered)
         /\ ~CarriesGoal(p) => NoClaim
         /\ Passed \subseteq Attempts /\ Offered \subseteq Attempts /\ Passed' \subseteq Attempts /\ Offered' \subseteq Attempts
         /\ CarriesGoal(p) => /\ p \in Passed' <=> audit'[p] = "transferred"
                              /\ p \in Offered' <=> audit'[p] \in Unresolved
                              /\ p \in Passed <=> audit[p] = "transferred"
                              /\ p \in Offered <=> audit[p] \in Unresolved
  <1>1. \A b \in Attempts : CarriesGoal(b)' = CarriesGoal(b)
    BY DEF CarriesGoal
  <1>2. SameRequests /\ Asking' \subseteq Asking \ {p}
    BY <1>1 DEF SameRequests, Asking
  <1>3. \A b \in Attempts : b # p => (b \in Passed' <=> b \in Passed) /\ (b \in Offered' <=> b \in Offered)
    BY <1>1 DEF Passed, Offered
  <1>4. ~CarriesGoal(p) => p \notin Passed /\ p \notin Passed' /\ p \notin Offered /\ p \notin Offered'
    BY <1>1 DEF Passed, Offered
  <1>5. Passed \subseteq Attempts /\ Offered \subseteq Attempts /\ Passed' \subseteq Attempts /\ Offered' \subseteq Attempts
    BY DEF Passed, Offered
  <1>6. ~CarriesGoal(p) => NoClaim
    BY <1>3, <1>4, <1>5 DEF NoClaim
  <1>7. CarriesGoal(p) => /\ p \in Passed' <=> audit'[p] = "transferred"
                          /\ p \in Offered' <=> audit'[p] \in Unresolved
                          /\ p \in Passed <=> audit[p] = "transferred"
                          /\ p \in Offered <=> audit[p] \in Unresolved
    BY <1>1 DEF Passed, Offered
  <1> QED
    BY <1>2, <1>3, <1>5, <1>6, <1>7

\* An attempt that is neither passed nor offered afterwards is no longer offered.
LEMMA ClaimDropped ==
  ASSUME HandInv, NEW p \in Attempts, request' = request, Working' = Working,
         \A b \in Attempts : b # p => audit'[b] = audit[b],
         \A b \in Attempts : step'[b] = "review" => step[b] = "review" /\ b # p,
         CarriesGoal(p) => audit[p] \in Unresolved /\ audit'[p] \notin Unresolved \union {"transferred"}
  PROVE  Handover
  <1>1. CASE CarriesGoal(p)
    <2>1. audit[p] # "transferred"
      BY <1>1 DEF Unresolved
    <2>2. Passed' = Passed /\ Offered' = Offered \ {p} /\ p \in Offered
      BY <1>1, <2>1, ClaimsOne
    <2> QED
      BY <2>2, ClaimsOne DEF Handover, Withdraws
  <1>2. CASE ~CarriesGoal(p)
    BY <1>2, ClaimsOne DEF Handover, Waits
  <1> QED
    BY <1>1, <1>2

LEMMA HandQuiet ==
  ASSUME HandInv, UNCHANGED audit,
         \A s \in Sessions : turn'[s] = "work" <=> turn[s] = "work",
         \A a \in Attempts :
           /\ request'[a] = request[a] \/ (audit[a] = "none" /\ step'[a] # "review")
           /\ step'[a] = "review" => step[a] = "review"
  PROVE  Handover
  <1>1. Working' = Working
    BY DEF Working
  <1>2. NoClaim /\ Asking' \subseteq Asking /\ SameRequests
    BY ClaimsQuiet
  <1> QED
    BY <1>1, <1>2 DEF Handover, Waits

LEMMA HandBegin ==
  ASSUME HandInv, OwedInv, KnownInv, NEW a \in Attempts, NEW s \in Sessions, s < a, Begin(a, s)
  PROVE  Handover
  <1> DEFINE p == mem[s].last
  <1>1. step[a] = "none" /\ audit[a] = "none" /\ ~CarriesGoal(a) /\ Working' = Working
    BY RequestFacts DEF Begin, Step, Working
  <1>2. request'[a].origin = s /\ request'[a].goal = mem[s].goal
    BY DEF Begin, HandInv, Types
  <1>3. \A b \in Attempts : b # a => request'[b] = request[b] /\ step'[b] = step[b]
    BY DEF Begin, Step, HandInv, Types
  <1>4. SameRequests /\ Asking' \subseteq Asking \union {a} /\ (mem[s].goal # "active" => Asking' \subseteq Asking)
    BY <1>1, <1>2, <1>3 DEF SameRequests, Asking, Passed, Offered, Unresolved, CarriesGoal
  <1>5. \A b \in Attempts : b # a => CarriesGoal(b)' = CarriesGoal(b)
    BY <1>3 DEF CarriesGoal
  <1>6. CASE p \in Attempts /\ known[p] \in Unresolved /\ CarriesGoal(p) /\ AppendAudit(p, "failed")
    <2>1. audit[p] = "prepared" /\ mem[s].goal = "none"
      BY <1>6, Superseded
    <2>2. audit'[p] = "failed" /\ \A b \in Attempts : b # p => audit'[b] = audit[b]
      BY <1>6, <2>1, ReducedNames DEF AppendAudit, HandInv, Types, Unresolved
    <2>3. p # a
      BY <1>1, <2>1
    <2>4. p \in Offered /\ Passed' = Passed /\ Offered' = Offered \ {p}
      BY <1>1, <1>5, <1>6, <2>1, <2>2, <2>3 DEF Passed, Offered, Unresolved
    <2> QED
      BY <1>1, <1>4, <2>1, <2>4 DEF Handover, Withdraws
  <1>7. CASE UNCHANGED audit \/ (p \in Attempts /\ ~CarriesGoal(p) /\ AppendAudit(p, "failed"))
    <2>1. \A b \in Attempts : CarriesGoal(b) \/ b = a => audit'[b] = audit[b]
      <3>1. CASE p \in Attempts /\ ~CarriesGoal(p) /\ AppendAudit(p, "failed")
        BY <1>1, <3>1, BranchFacts DEF AppendAudit, HandInv, Types
      <3> QED
        BY <1>7, <3>1
    <2>2. NoClaim
      BY <1>1, <1>5, <2>1 DEF NoClaim, Passed, Offered, Unresolved
    <2>3. ASSUME mem[s].goal = "active" PROVE Entitled(s)
      BY <2>3, SeesNoClaim DEF Begin, Idle
    <2> QED
      BY <1>1, <1>2, <1>4, <2>2, <2>3 DEF Handover, Waits, Asks
  <1> QED
    BY <1>6, <1>7 DEF Begin

LEMMA HandPrepare ==
  ASSUME HandInv, NEW a \in Attempts, Prepare(a)
  PROVE  Handover
  <1>1. step[a] = "review" /\ audit[a] = "none" /\ request' = request /\ Working' = Working
    BY RequestFacts DEF Prepare, Step, Working
  <1>2. audit'[a] = "prepared" /\ \A b \in Attempts : b # a => audit'[b] = audit[b]
    BY <1>1, ReducedNames DEF Prepare, AppendAudit, HandInv, Types
  <1>3. \A b \in Attempts : step'[b] = "review" => step[b] = "review" /\ b # a
    BY DEF Prepare, Step, HandInv, Types
  <1>4. /\ SameRequests /\ Asking' \subseteq Asking \ {a}
        /\ ~CarriesGoal(a) => NoClaim
        /\ CarriesGoal(a) => Passed' = Passed /\ Offered' = Offered \union {a}
    BY <1>1, <1>2, <1>3, ClaimsOne DEF Unresolved
  <1>5. Origin(a) \notin Working
    <2>1. a \in Commands(Origin(a)) /\ Origin(a) \in Sessions
      BY <1>1, RequestFacts DEF Commands, Made
    <2> QED
      BY <2>1 DEF HandInv, CommandInv, Working
  <1>6. \A b \in Asking : Origin(b) = Origin(a) => b = a
    BY <1>1, Alone DEF Asking, Outgoing
  <1>7. CASE CarriesGoal(a)
    BY <1>1, <1>4, <1>5, <1>6, <1>7 DEF Handover, Offers, Asking
  <1>8. CASE ~CarriesGoal(a)
    BY <1>1, <1>4, <1>8 DEF Handover, Waits
  <1> QED
    BY <1>7, <1>8

LEMMA HandUndoAudit ==
  ASSUME HandInv, NEW a \in Attempts, UndoAudit(a)
  PROVE  Handover
  <1>1. request' = request /\ turn' = turn /\ \A b \in Attempts : step'[b] = "review" => step[b] = "review" /\ b # a
    BY DEF UndoAudit, Step, HandInv, Types
  <1>2. CASE UNCHANGED audit
    BY <1>1, <1>2, HandQuiet
  <1>3. CASE AppendAudit(a, "cancelled")
    <2>1. \A b \in Attempts : b # a => audit'[b] = audit[b]
      BY <1>3 DEF AppendAudit, HandInv, Types
    <2>2. CarriesGoal(a) => audit[a] = "prepared"
      BY DEF UndoAudit, Step, HandInv, StepInv
    <2>3. CarriesGoal(a) => audit'[a] = "cancelled"
      BY <1>3, <2>2, ReducedNames DEF AppendAudit, HandInv, Types
    <2> QED
      BY <1>1, <2>1, <2>2, <2>3, ClaimDropped DEF Working, Unresolved
  <1> QED
    BY <1>2, <1>3 DEF UndoAudit

LEMMA HandBind ==
  ASSUME HandInv, NEW a \in Attempts, Bind(a)
  PROVE  Handover
  <1>1. /\ request' = request /\ Working' = Working
        /\ \A b \in Attempts : step'[b] = "review" => step[b] = "review" /\ b # a
    BY DEF Bind, Step, HandInv, Types, Working
  <1>2. audit[a] = "prepared" /\ audit'[a] = "child_created" /\ \A b \in Attempts : b # a => audit'[b] = audit[b]
    BY ReducedNames DEF Bind, HandInv, Types
  <1>3. NoClaim /\ SameRequests /\ Asking' \subseteq Asking
    BY <1>1, <1>2, ClaimsOne DEF NoClaim, Unresolved
  <1> QED
    BY <1>1, <1>3 DEF Handover, Waits

LEMMA HandFinAudit ==
  ASSUME HandInv, EndingInv, NEW a \in Attempts, FinAudit(a)
  PROVE  Handover
  <1>1. /\ request' = request /\ turn' = turn /\ step[a] = "over"
        /\ \A b \in Attempts : step'[b] = "review" => step[b] = "review" /\ b # a
    BY EndingFacts DEF FinAudit, command
  <1>2. CASE UNCHANGED audit
    BY <1>1, <1>2, HandQuiet
  <1>3. CASE audit' = [audit EXCEPT ![a] = Reduced(audit[a], "transferred")]
    <2>1. CarriesGoal(a) => audit[a] = "child_created"
      BY EndingFacts DEF EndingInv
    <2>2. /\ CarriesGoal(a) => audit'[a] = "transferred"
          /\ \A b \in Attempts : b # a => audit'[b] = audit[b]
      BY <1>3, <2>1, ReducedNames DEF HandInv, Types
    <2>3. Working' = Working
      BY <1>1 DEF Working
    <2>4. CASE CarriesGoal(a)
      <3>1. a \in Offered /\ Passed' = Passed \union {a} /\ Offered' = Offered \ {a} /\ SameRequests /\ Asking' \subseteq Asking
        BY <1>1, <2>1, <2>2, <2>4, ClaimsOne DEF Unresolved
      <3> QED
        BY <2>3, <3>1 DEF Handover, Passes
    <2>5. CASE ~CarriesGoal(a)
      BY <1>1, <2>2, <2>3, <2>5, ClaimsOne DEF Handover, Waits
    <2> QED
      BY <2>4, <2>5
  <1> QED
    BY <1>2, <1>3 DEF FinAudit

LEMMA HandReclaimAudit ==
  ASSUME HandInv, NEW s \in Sessions, ReclaimAudit(s)
  PROVE  Handover
  <1> DEFINE p == mem[s].last
  <1>1. request' = request /\ turn' = turn /\ step' = step
    BY DEF ReclaimAudit, command
  <1>2. CASE UNCHANGED audit
    BY <1>1, <1>2, HandQuiet
  <1>3. CASE AppendAudit(p, "reclaimed")
    <2>1. p \in Attempts /\ audit[p] \in Unresolved
      BY ReclaimAuditLock, LockFacts DEF HandInv, LockInv
    <2>2. audit'[p] = "reclaimed" /\ \A b \in Attempts : b # p => audit'[b] = audit[b]
      BY <1>3, <2>1, ReducedNames DEF AppendAudit, HandInv, Types
    <2>3. step[p] # "review"
      BY <2>1, RequestFacts DEF Unresolved
    <2> QED
      BY <1>1, <2>1, <2>2, <2>3, ClaimDropped DEF Working, Unresolved
  <1> QED
    BY <1>2, <1>3 DEF ReclaimAudit

LEMMA HandStart ==
  ASSUME HandInv, NEW s \in Sessions, Entitled(s), turn[s] # "work", UNCHANGED <<audit, command>>,
         turn' = [turn EXCEPT ![s] = "work"]
  PROVE  Handover
  <1>1. NoClaim /\ Asking' \subseteq Asking /\ SameRequests
    BY ClaimsQuiet DEF command
  <1>2. s \in Sessions \ Working /\ Working' = Working \union {s}
    BY DEF Working, HandInv, Types
  <1> QED
    BY <1>1, <1>2 DEF Handover, Starts

LEMMA HandStop ==
  ASSUME HandInv, NEW s \in Sessions, TurnEnd(s) \/ Crash(s)
  PROVE  Handover
  <1>1. turn' = [turn EXCEPT ![s] = "idle"] /\ UNCHANGED audit
    BY DEF TurnEnd, Crash, records
  <1>2. \A a \in Attempts : /\ request'[a] = request[a] \/ (audit[a] = "none" /\ step'[a] # "review")
                            /\ step'[a] = "review" => step[a] = "review"
    <2>1. CASE Crash(s)
      BY <2>1, RequestFacts DEF Crash
    <2> QED
      BY <2>1 DEF TurnEnd, command
  <1>3. CASE turn[s] = "work"
    <2>1. s \in Working /\ Working' = Working \ {s}
      BY <1>1, <1>3 DEF Working, HandInv, Types
    <2> QED
      BY <1>1, <1>2, <2>1, ClaimsQuiet DEF Handover, Stops
  <1>4. CASE turn[s] # "work"
    <2>1. \A t \in Sessions : turn'[t] = "work" <=> turn[t] = "work"
      BY <1>1, <1>4 DEF HandInv, Types
    <2> QED
      BY <1>1, <1>2, <2>1, HandQuiet
  <1> QED
    BY <1>3, <1>4

LEMMA HandTurnStart ==
  ASSUME HandInv, KnownInv, NEW s \in Sessions, TurnStart(s)
  PROVE  Handover
  <1>1. CASE Blocked(s)
    BY <1>1, HandQuiet DEF TurnStart, command, records
  <1>2. CASE ~Blocked(s)
    <2>1. Entitled(s)
      BY <1>2, SeesNoClaim DEF TurnStart, Idle, Blocked
    <2> QED
      BY <1>2, <2>1, HandStart DEF TurnStart, Idle, records
  <1> QED
    BY <1>1, <1>2

LEMMA HandRelease ==
  ASSUME HandInv, NEW a \in Attempts, Release(a)
  PROVE  Handover
  <1>1. a \in Sessions /\ turn[a] = "idle" /\ UNCHANGED <<audit, command>>
    BY TypedLocks DEF Release, Idle, records
  <1>2. CASE CarriesGoal(a)
    BY <1>1, <1>2, ReleasedEntitled, HandStart DEF Release
  <1>3. CASE ~CarriesGoal(a)
    <2>1. turn' = turn
      BY <1>1, <1>3 DEF Release, HandInv, Types
    <2> QED
      BY <1>1, <2>1, HandQuiet DEF command
  <1> QED
    BY <1>2, <1>3

\* The other steps of a command, of a child and of a session.
LEMMA HandOrients ==
  ASSUME HandInv, NEW a \in Attempts, Kickoff(a) \/ Retry(a) \/ Oriented(a) \/ NotOriented(a)
  PROVE  Handover
  <1>1. request' = request /\ UNCHANGED audit /\ \A b \in Attempts : step'[b] = "review" => step[b] = "review"
    BY DEF Kickoff, Retry, Oriented, NotOriented, Settles, Step, command, records, HandInv, Types
  <1>2. turn[a] # "work"
    <2>1. CASE Kickoff(a)
      <3>1. a \in Commands(a) /\ a \in Sessions
        BY <2>1, TypedLocks DEF Kickoff, Step, Commands
      <3> QED
        BY <3>1 DEF HandInv, CommandInv
    <2> QED
      BY <2>1 DEF Retry, Oriented, NotOriented, Settles, Idle
  <1>3. \E t \in {"orient", "idle"} : turn' = [turn EXCEPT ![a] = t]
    BY DEF Kickoff, Retry, Oriented, NotOriented, Settles
  <1>4. \A s \in Sessions : turn'[s] = "work" <=> turn[s] = "work"
    BY <1>2, <1>3 DEF HandInv, Types
  <1> QED
    BY <1>1, <1>4, HandQuiet

\* Every step does one of a few things to the claims.
LEMMA HandoverSteps == HandInv /\ OwedInv /\ EndingInv /\ KnownInv /\ [Next]_vars => Handover
  <1> SUFFICES ASSUME HandInv, OwedInv, EndingInv, KnownInv, [Next]_vars
               PROVE  Handover
    OBVIOUS
  <1>1. ASSUME NEW a \in Attempts, NEW s \in Sessions, s < a, Begin(a, s)
        PROVE  Handover
    BY <1>1, HandBegin
  <1>2. ASSUME NEW a \in Attempts, Cancel(a)
        PROVE  Handover
    <2>1. UNCHANGED <<audit, turn>> /\ \A b \in Attempts : step'[b] = "review" => step[b] = "review"
      BY <1>2 DEF Cancel, Step, records, HandInv, Types
    <2>2. \A b \in Attempts : request'[b] = request[b] \/ (audit[b] = "none" /\ step'[b] # "review")
      BY <1>2, RequestFacts DEF Cancel, Step, HandInv, Types
    <2> QED
      BY <2>1, <2>2, HandQuiet
  <1>3. ASSUME NEW a \in Attempts, Prepare(a)
        PROVE  Handover
    BY <1>3, HandPrepare
  <1>4. ASSUME NEW a \in Attempts, Move(a)
        PROVE  Handover
    BY <1>4, HandQuiet DEF Move, Step, records, HandInv, Types
  <1>5. ASSUME NEW a \in Attempts, MoveFails(a)
        PROVE  Handover
    BY <1>5, HandQuiet DEF MoveFails, Step, records, HandInv, Types
  <1>6. ASSUME NEW a \in Attempts, Verify(a)
        PROVE  Handover
    BY <1>6, HandQuiet DEF Verify, Step, records, HandInv, Types
  <1>7. ASSUME NEW a \in Attempts, VerifyFails(a)
        PROVE  Handover
    BY <1>7, HandQuiet DEF VerifyFails, Step, records, HandInv, Types
  <1>8. ASSUME NEW a \in Attempts, SwitchCancelled(a)
        PROVE  Handover
    BY <1>8, HandQuiet DEF SwitchCancelled, Step, records, HandInv, Types
  <1>9. ASSUME NEW a \in Attempts, UndoGoal(a)
        PROVE  Handover
    BY <1>9, HandQuiet DEF UndoGoal, Step, records, HandInv, Types
  <1>10. ASSUME NEW a \in Attempts, UndoAudit(a)
        PROVE  Handover
    BY <1>10, HandUndoAudit
  <1>11. ASSUME NEW a \in Attempts, Switch(a)
        PROVE  Handover
    BY <1>11, HandQuiet DEF Switch, Step, records, HandInv, Types
  <1>12. ASSUME NEW a \in Attempts, Bind(a)
        PROVE  Handover
    BY <1>12, HandBind
  <1>13. ASSUME NEW a \in Attempts, BindFails(a)
        PROVE  Handover
    BY <1>13, HandQuiet DEF BindFails, Step, records, HandInv, Types
  <1>14. ASSUME NEW a \in Attempts, Kickoff(a)
        PROVE  Handover
    BY <1>14, HandOrients
  <1>15. ASSUME NEW a \in Attempts, KickoffFails(a)
        PROVE  Handover
    BY <1>15, HandQuiet DEF KickoffFails, Step, records, HandInv, Types
  <1>16. ASSUME NEW a \in Attempts, Retry(a)
        PROVE  Handover
    BY <1>16, HandOrients
  <1>17. ASSUME NEW a \in Attempts, Oriented(a)
        PROVE  Handover
    BY <1>17, HandOrients
  <1>18. ASSUME NEW a \in Attempts, NotOriented(a)
        PROVE  Handover
    BY <1>18, HandOrients
  <1>19. ASSUME NEW a \in Attempts, FinLock(a)
        PROVE  Handover
    BY <1>19, HandQuiet DEF FinLock, command, records
  <1>20. ASSUME NEW a \in Attempts, FinGoal(a)
        PROVE  Handover
    BY <1>20, HandQuiet DEF FinGoal, command, records
  <1>21. ASSUME NEW a \in Attempts, FinAudit(a)
        PROVE  Handover
    BY <1>21, HandFinAudit
  <1>22. ASSUME NEW a \in Attempts, Release(a)
        PROVE  Handover
    BY <1>22, HandRelease
  <1>23. ASSUME NEW s \in Sessions, TurnStart(s)
        PROVE  Handover
    BY <1>23, HandTurnStart
  <1>24. ASSUME NEW s \in Sessions, TurnEnd(s)
        PROVE  Handover
    BY <1>24, HandStop
  <1>25. ASSUME NEW s \in Sessions, GoalCommand(s)
        PROVE  Handover
    BY <1>25, HandQuiet DEF GoalCommand, command, records
  <1>26. ASSUME NEW s \in Sessions, ReclaimLock(s)
        PROVE  Handover
    BY <1>26, HandQuiet DEF ReclaimLock, command, records
  <1>27. ASSUME NEW s \in Sessions, ReclaimAudit(s)
        PROVE  Handover
    BY <1>27, HandReclaimAudit
  <1>28. ASSUME NEW s \in Sessions, ReclaimGoal(s)
        PROVE  Handover
    BY <1>28, HandQuiet DEF ReclaimGoal, command, records
  <1>29. ASSUME NEW s \in Sessions, Navigate(s)
        PROVE  Handover
    BY <1>29, HandQuiet DEF Navigate, command, records
  <1>30. ASSUME NEW s \in Sessions, Open(s)
        PROVE  Handover
    BY <1>30, HandQuiet DEF Open, command, records
  <1>31. ASSUME NEW s \in Sessions, Leave(s)
        PROVE  Handover
    BY <1>31, HandQuiet DEF Leave, command, records
  <1>32. ASSUME NEW s \in Sessions, Crash(s)
        PROVE  Handover
    BY <1>32, HandStop
  <1>33. ASSUME NEW s \in Sessions, ClearLock(s)
        PROVE  Handover
    BY <1>33, HandQuiet DEF ClearLock, command, records
  <1>34. CASE UNCHANGED vars
    BY <1>34, HandQuiet DEF vars, command, records
  <1> QED
    BY <1>1, <1>2, <1>3, <1>4, <1>5, <1>6, <1>7, <1>8, <1>9, <1>10, <1>11, <1>12, <1>13, <1>14, <1>15, <1>16, <1>17, <1>18, <1>19, <1>20, <1>21, <1>22, <1>23, <1>24, <1>25, <1>26, <1>27, <1>28, <1>29, <1>30, <1>31, <1>32, <1>33, <1>34
    DEF Next, CommandStep, ChildStep, Finalize, SessionStep

-------------------------------------------------------------------------------
(* The chain of holders *)

\* An accepted offer moves the goal to the attempt that was offered.
LEMMA ChainPasses ==
  ASSUME HandInv, SameRequests, NEW h \in Sessions, IsAt(h), OneClaim(h), Passes
  PROVE  \E a \in Attempts : a \in Offered /\ IsAt(a)' /\ OneClaim(a)' /\ Offered' = {}
  <1>1. PICK a \in Offered : Passed' = Passed \union {a} /\ Offered' = Offered \ {a} /\ Working' = Working /\ Asking' \subseteq Asking
    BY DEF Passes
  <1>2. a \in Attempts /\ Origin(a) = h /\ h < a /\ Offered = {a}
    BY RequestFacts DEF OneClaim, Offered
  <1>3. Offered' = {} /\ Asking' = {} /\ Working' = {}
    BY <1>1, <1>2 DEF OneClaim
  <1>4. \A b \in Passed' : Origin(b)' = Origin(b)
    BY <1>1 DEF SameRequests, Origin
  <1>5. \A b \in Passed' : b <= a
    <2>1. \A b \in Passed : b <= h /\ b \in Attempts /\ h \in Attempts
      BY DEF IsAt, Passed
    <2> QED
      BY <1>1, <1>2, <2>1, HandoffAssumption DEF Attempts
  <1>6. \A s \in Passed' \union {0} : s # a => \E b \in Passed' : Origin(b) = s
    BY <1>1, <1>2 DEF IsAt
  <1>7. IsAt(a)'
    BY <1>1, <1>4, <1>5, <1>6 DEF IsAt
  <1> QED
    BY <1>2, <1>3, <1>7 DEF OneClaim

\* Every other step leaves the goal where it is.
LEMMA ChainStays ==
  ASSUME HandInv, SameRequests, NEW h \in Sessions, IsAt(h), OneClaim(h),
         Waits \/ Asks \/ Offers \/ Withdraws \/ Starts \/ Stops
  PROVE  IsAt(h)' /\ OneClaim(h)' /\ Passed' = Passed
  <1>1. Passed' = Passed
    BY DEF Waits, Asks, Offers, Withdraws, Starts, Stops, NoClaim
  <1>2. \A b \in Passed \union Offered \union (Asking \intersect (Asking' \union Offered')) : Origin(b)' = Origin(b)
    BY DEF SameRequests, Origin
  <1>3. IsAt(h)'
    BY <1>1, <1>2 DEF IsAt
  <1> SUFFICES OneClaim(h)'
    BY <1>1, <1>3
  <1>4. CASE Waits
    BY <1>2, <1>4 DEF Waits, NoClaim, OneClaim
  <1>5. CASE Asks
    <2>1. PICK a \in Attempts, s \in Sessions :
            /\ Entitled(s) /\ NoClaim /\ Working' = Working
            /\ Asking' \subseteq Asking \union {a} /\ request'[a].origin = s
      BY <1>5 DEF Asks
    <2>2. s = h /\ Offered = {} /\ Offered' = {}
      BY <2>1 DEF Entitled, NoClaim
    <2>3. \A b \in Asking' : Origin(b)' = h
      BY <1>2, <2>1, <2>2 DEF OneClaim, Origin
    <2> QED
      BY <2>1, <2>2, <2>3 DEF OneClaim
  <1>6. CASE Offers
    <2>1. PICK a \in Asking :
            /\ Origin(a) \notin Working /\ \A b \in Asking : Origin(b) = Origin(a) => b = a
            /\ Passed' = Passed /\ Offered' = Offered \union {a} /\ Working' = Working /\ Asking' \subseteq Asking \ {a}
      BY <1>6 DEF Offers
    <2>2. Origin(a) = h /\ Offered' = {a} /\ Asking' = {} /\ Working' = {}
      BY <2>1 DEF OneClaim
    <2>3. Origin(a)' = h
      BY <1>2, <2>1, <2>2
    <2> QED
      BY <2>2, <2>3 DEF OneClaim
  <1>7. CASE Withdraws
    <2>1. PICK a \in Offered : Offered' = Offered \ {a} /\ Working' = Working /\ Asking' \subseteq Asking
      BY <1>7 DEF Withdraws
    <2>2. Offered' = {} /\ Asking' = {} /\ Working' = {}
      BY <2>1 DEF OneClaim
    <2> QED
      BY <2>2 DEF OneClaim
  <1>8. CASE Starts
    <2>1. PICK s \in Sessions \ Working :
            Entitled(s) /\ NoClaim /\ Working' = Working \union {s} /\ Asking' \subseteq Asking
      BY <1>8 DEF Starts
    <2>2. s = h /\ Offered = {} /\ Offered' = {}
      BY <2>1 DEF Entitled, NoClaim
    <2> QED
      BY <1>2, <2>1, <2>2 DEF OneClaim
  <1>9. CASE Stops
    BY <1>2, <1>9 DEF Stops, NoClaim, OneClaim
  <1> QED
    BY <1>4, <1>5, <1>6, <1>7, <1>8, <1>9

\* Every step keeps the chain of holders.
LEMMA ChainKept == HandInv /\ ChainInv /\ Handover => ChainInv'
  <1> SUFFICES ASSUME HandInv, ChainInv, Handover
               PROVE  ChainInv'
    OBVIOUS
  <1>1. PICK h \in Sessions : IsAt(h) /\ OneClaim(h)
    BY DEF ChainInv
  <1>2. CASE Passes
    BY <1>1, <1>2, ChainPasses, TypedLocks DEF Handover, ChainInv
  <1>3. CASE ~Passes
    BY <1>1, <1>3, ChainStays DEF Handover, ChainInv
  <1> QED
    BY <1>2, <1>3

LastOf(P) == IF P = {} THEN 0 ELSE CHOOSE a \in P : \A b \in P : b <= a
AnyOf(P) == IF P = {} THEN Nobody ELSE CHOOSE a \in P : TRUE

LEMMA LastIs ==
  ASSUME NEW P \in SUBSET Attempts, NEW h \in Sessions,
         (h = 0 /\ P = {}) \/ (h \in P /\ \A a \in P : a <= h)
  PROVE  LastOf(P) = h
  <1>1. CASE P = {}
    BY <1>1 DEF LastOf
  <1>2. CASE P # {}
    <2>1. h \in P /\ \A a \in P : a <= h
      BY <1>2
    <2>2. \A a \in P : (\A b \in P : b <= a) => a = h
      BY <2>1, HandoffAssumption DEF Attempts
    <2> QED
      BY <1>2, <2>1, <2>2 DEF LastOf
  <1> QED
    BY <1>1, <1>2

LEMMA AnyIs ==
  /\ \A P : P = {} => AnyOf(P) = Nobody
  /\ \A a : AnyOf({a}) = a
  BY DEF AnyOf

\* The refinement mapping, in terms of the claims.
LEMMA MappedIs ==
  /\ holder = LastOf(Passed) /\ holder' = LastOf(Passed')
  /\ offer = AnyOf(Offered) /\ offer' = AnyOf(Offered')
  BY DEF holder, offer, LastOf, AnyOf, Passed, Offered

\* Every step is a step of GoalOwnership, or changes none of its state.
LEMMA HandoverRefines ==
  ASSUME HandInv, ChainInv, Handover
  PROVE  [Ownership!Next]_(Ownership!vars)
  <1>1. PICK h \in Sessions : IsAt(h) /\ OneClaim(h)
    BY DEF ChainInv
  <1>2. holder = h
    BY <1>1, MappedIs, LastIs DEF IsAt, Passed
  <1>3. Nobody \notin Attempts /\ Attempts \subseteq Sessions /\ Offered \subseteq Attempts
    BY TypedLocks DEF Offered
  <1>4. CASE Passes
    <2>1. PICK a \in Attempts : a \in Offered /\ IsAt(a)' /\ OneClaim(a)' /\ Offered' = {}
      BY <1>1, <1>4, ChainPasses DEF Handover
    <2>2. Offered = {a} /\ offer = a /\ offer' = Nobody
      BY <1>1, <2>1, MappedIs, AnyIs DEF OneClaim
    <2>3. holder' = a
      BY <1>3, <2>1, MappedIs, LastIs DEF IsAt, Passed
    <2>4. Working' = Working
      BY <1>4 DEF Passes
    <2>5. Ownership!Accept
      BY <1>3, <2>2, <2>3, <2>4 DEF Ownership!Accept, Working
    <2> QED
      BY <2>5 DEF Ownership!Next
  <1>5. CASE ~Passes
    <2>1. IsAt(h)' /\ OneClaim(h)' /\ holder' = h
      BY <1>1, <1>2, <1>5, ChainStays, MappedIs DEF Handover
    <2>2. CASE Waits \/ Asks
      BY <1>2, <2>1, <2>2, MappedIs DEF Waits, Asks, NoClaim, Ownership!vars, Working
    <2>3. CASE Offers
      <3>1. PICK a \in Asking : Origin(a) \notin Working /\ Offered' = Offered \union {a} /\ Working' = Working
        BY <2>3 DEF Offers
      <3>2. a \in Sessions /\ Offered = {} /\ Working = {} /\ Offered' = {a} /\ a # h
        <4>1. a \in Attempts /\ Origin(a) = h /\ Origin(a) < a
          BY <1>1, <3>1, RequestFacts DEF OneClaim, Asking
        <4>2. a # h
          BY <4>1, HandoffAssumption DEF Attempts
        <4> QED
          BY <1>1, <1>3, <3>1, <4>1, <4>2 DEF OneClaim
      <3>3. offer = Nobody /\ offer' = a
        BY <3>2, MappedIs, AnyIs
      <3>4. Ownership!Offer(a)
        BY <1>2, <2>1, <3>1, <3>2, <3>3 DEF Ownership!Offer, Working
      <3> QED
        BY <3>2, <3>4 DEF Ownership!Next
    <2>4. CASE Withdraws
      <3>1. PICK a \in Offered : Offered' = Offered \ {a} /\ Working' = Working
        BY <2>4 DEF Withdraws
      <3>2. Offered = {a} /\ Offered' = {}
        BY <1>1, <3>1 DEF OneClaim
      <3>3. offer = a /\ offer' = Nobody /\ a # Nobody
        BY <1>3, <3>1, <3>2, MappedIs, AnyIs
      <3>4. Ownership!Withdraw
        BY <1>2, <2>1, <3>1, <3>3 DEF Ownership!Withdraw, Working
      <3> QED
        BY <3>4 DEF Ownership!Next
    <2>5. CASE Starts
      <3>1. PICK s \in Sessions \ Working : Entitled(s) /\ NoClaim /\ Working' = Working \union {s}
        BY <2>5 DEF Starts
      <3>2. s = h /\ Offered = {} /\ Offered' = {} /\ Working = {} /\ Working' = {h}
        BY <1>1, <3>1 DEF Entitled, NoClaim, OneClaim
      <3>3. offer = Nobody /\ offer' = Nobody
        BY <3>2, MappedIs, AnyIs
      <3>4. Ownership!Start
        BY <1>2, <2>1, <3>2, <3>3 DEF Ownership!Start, Working
      <3> QED
        BY <3>4 DEF Ownership!Next
    <2>6. CASE Stops
      <3>1. PICK s \in Working : NoClaim /\ Working' = Working \ {s}
        BY <2>6 DEF Stops
      <3>2. Working = {s} /\ Working' = {}
        BY <1>1, <3>1 DEF OneClaim
      <3>3. offer' = offer
        BY <3>1, MappedIs DEF NoClaim
      <3>4. Ownership!Stop
        BY <1>2, <2>1, <3>2, <3>3 DEF Ownership!Stop, Working
      <3> QED
        BY <3>4 DEF Ownership!Next
    <2> QED
      BY <1>5, <2>2, <2>3, <2>4, <2>5, <2>6 DEF Handover
  <1> QED
    BY <1>4, <1>5

-------------------------------------------------------------------------------
(* The theorem *)

OwnerInv == HandInv /\ OwedInv /\ EndingInv /\ KnownInv /\ ChainInv

LEMMA OwnerInit == Init => OwnerInv /\ Ownership!Init
  <1> SUFFICES ASSUME Init PROVE OwnerInv /\ Ownership!Init
    OBVIOUS
  <1>1. HandInv
    BY HandInit
  <1>2. Nobody \notin Sessions /\ 0 \in Sessions /\ Free.by = Nobody /\ Attempts \subseteq Sessions
    BY TypedLocks DEF Free
  <1>3. \A s \in Sessions : mem[s].last = 0 /\ file[s].last = 0
    BY DEF Init
  <1>4. \A a \in Attempts : ~CarriesGoal(a) /\ audit[a] = "none" /\ known[a] = "none"
    BY DEF Init, CarriesGoal, NoRequest
  <1>5. OwedInv
    BY <1>3 DEF OwedInv, OwedBranch
  <1>6. EndingInv
    BY <1>2 DEF Init, EndingInv
  <1>7. KnownInv
    BY <1>4 DEF KnownInv
  <1>8. Passed = {} /\ Offered = {} /\ Asking = {} /\ Working = {}
    BY <1>4 DEF Init, Passed, Offered, Asking, Working
  <1>9. ChainInv
    BY <1>2, <1>8 DEF ChainInv, IsAt, OneClaim
  <1>10. Ownership!Init
    BY <1>2, <1>8, MappedIs, LastIs, AnyIs DEF Ownership!Init, Working
  <1> QED
    BY <1>1, <1>5, <1>6, <1>7, <1>9, <1>10 DEF OwnerInv

\* So is OwnerInv, and every step is a step of GoalOwnership.
LEMMA OwnerKept ==
  ClearsTransferred = FALSE /\ OwnerInv /\ [Next]_vars => OwnerInv' /\ [Ownership!Next]_(Ownership!vars)
  <1> SUFFICES ASSUME ClearsTransferred = FALSE, OwnerInv, [Next]_vars
               PROVE  OwnerInv' /\ [Ownership!Next]_(Ownership!vars)
    OBVIOUS
  <1>1. HandInv /\ OwedInv /\ EndingInv /\ KnownInv /\ ChainInv
    BY DEF OwnerInv
  <1>2. Handover
    BY <1>1, HandoverSteps
  <1>3. HandInv' /\ OwedInv' /\ EndingInv' /\ KnownInv'
    BY <1>1, HandKept, OwedKept, EndingKept, KnownKept
  <1>4. ChainInv'
    BY <1>1, <1>2, ChainKept
  <1>5. [Ownership!Next]_(Ownership!vars)
    BY <1>1, <1>2, HandoverRefines
  <1> QED
    BY <1>3, <1>4, <1>5 DEF OwnerInv

\* handoff-state.ts, goal, self-handoff: one session owns the goal, only it runs turns for
\* the goal, none while the goal is on offer, and the goal passes only to the session it
\* was offered to, as long as nobody clears a goal that reads transferred.
THEOREM GoalHasOneOwner ==
  ASSUME ClearsTransferred = FALSE
  PROVE  Spec => ImplementsGoalOwnership
  <1>1. OwnerInv /\ [Next]_vars => OwnerInv' /\ [Ownership!Next]_(Ownership!vars)
    BY OwnerKept
  <1> QED
    BY OwnerInit, <1>1, PTL DEF Spec, ImplementsGoalOwnership, Ownership!Spec
===============================================================================
