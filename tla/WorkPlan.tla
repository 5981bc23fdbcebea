------------------------------ MODULE WorkPlan ------------------------------
(***************************************************************************)
(* The work plan of a session, extensions/work-plan/index.ts: the items,   *)
(* the pointer to the active one and the clock that runs for it, under     *)
(* every call of the work_plan tool, in whatever order the model calls it, *)
(* and what self-handoff accepts of it (extensions/_shared/handoff-state). *)
(* Items are never removed one by one, so that an item's id is its place   *)
(* in the list; titles and notes are left out.  The clock is a set: the    *)
(* items whose runStartedAt is set.                                        *)
(***************************************************************************)
EXTENDS Naturals, Sequences, FiniteSets

CONSTANTS MaxItems,     \* MAX_ITEMS
          MaxGiven      \* items that one set call gives; add reaches the others

VARIABLES items,       \* sequence of [status, blockedBy]
          activeId,    \* the pointer, 0 when undefined
          clock,       \* items with runStartedAt
          streaming,   \* a run of the agent goes on
          stale        \* history: unblock has made the item at the pointer one to do

vars == <<items, activeId, clock, streaming, stale>>

Statuses == {"todo", "active", "done", "blocked"}
Ids == 1 .. Len(items)
\* What callers name as blockers: nothing, or an item that may be the item itself or unknown.
Blockers == {{}} \union {{i} : i \in 1 .. MaxItems}
Item == [status : Statuses, blockedBy : Blockers]
\* The items a set call gives; update reaches the others.
GivenItem == {it \in Item : it.blockedBy # {} => it.status = "blocked"}

First(S) == IF S = {} THEN 0 ELSE CHOOSE i \in S : \A j \in S : i <= j

Init == items = <<>> /\ activeId = 0 /\ clock = {} /\ streaming = FALSE /\ stale = FALSE

\* The status of an item that waits, or is new and comes without one.
Default(blockedBy) == IF blockedBy = {} THEN "todo" ELSE "blocked"

\* Mutant of SetActive: the item that was active stays so.
SetActiveToo(list, id) ==
  /\ items' = [i \in 1 .. Len(list) |-> IF i = id THEN [list[i] EXCEPT !.status = "active"] ELSE list[i]]
  /\ activeId' = id /\ stale' = FALSE
  /\ clock' = (clock \cap {id}) \union (IF streaming THEN {id} \ {0} ELSE {})

\* setActive: the one item becomes active, another active one goes back to waiting, and
\* only the one keeps a running clock.
SetActive(list, id) ==
  /\ items' = [i \in 1 .. Len(list) |->
       IF i = id THEN [list[i] EXCEPT !.status = "active"]
       ELSE IF list[i].status = "active"
            THEN [list[i] EXCEPT !.status = Default(list[i].blockedBy)]
            ELSE list[i]]
  /\ activeId' = id /\ stale' = FALSE
  /\ clock' = (clock \cap {id}) \union (IF streaming THEN {id} \ {0} ELSE {})

Keeps(list) == items' = list /\ UNCHANGED <<activeId, clock, stale>>

\* set: a new plan, whose first active item, or else the first one to do, is activated.
Set ==
  \E n \in 0 .. MaxGiven : \E list \in [1 .. n -> GivenItem] :
    LET active == {i \in 1 .. n : list[i].status = "active"}
        open   == {i \in 1 .. n : list[i].status \notin {"done", "blocked"}}
        first  == IF active # {} THEN First(active) ELSE First(open)
    IN /\ activeId' = first /\ stale' = FALSE
       /\ clock' = IF streaming THEN {first} \ {0} ELSE {}
       /\ items' = [i \in 1 .. n |->
            IF i = first THEN [list[i] EXCEPT !.status = "active"]
            ELSE IF i \in active THEN [list[i] EXCEPT !.status = Default(list[i].blockedBy)]
            ELSE list[i]]

Add ==
  \E blockedBy \in Blockers : \E status \in Statuses \union {Default(blockedBy)} :
    LET list == Append(items, [status |-> status, blockedBy |-> blockedBy])
    IN /\ Len(items) < MaxItems
       /\ IF status = "active" THEN SetActive(list, Len(list)) ELSE Keeps(list)

\* update with any of status and blockedBy: an item that leaves the pointer stops its clock.
Updated(id, it) ==
  LET list == [items EXCEPT ![id] = it] IN
  IF it.status = "active" THEN SetActive(list, id)
  ELSE /\ items' = list
       /\ activeId' = IF activeId = id THEN 0 ELSE activeId
       /\ clock' = IF activeId = id THEN clock \ {id} ELSE clock
       /\ stale' = (stale /\ activeId # id)

Update(id) ==
  \/ \E status \in Statuses : Updated(id, [items[id] EXCEPT !.status = status])
  \/ \E blockedBy \in Blockers, status \in Statuses :
       Updated(id, [status |-> status, blockedBy |-> blockedBy])
  \/ \E blockedBy \in Blockers :
       Updated(id, [status |-> IF items[id].status \in {"done", "active"} THEN items[id].status
                               ELSE Default(blockedBy),
                    blockedBy |-> blockedBy])
  \/ Updated(id, items[id])

Activate(id) == SetActive(items, id)

\* complete: the items are done, their dependents released, and when no item is at the
\* pointer any more the first free one is activated.
Complete(done) ==
  LET rest == IF activeId \in done THEN 0 ELSE activeId
      list == [i \in Ids |->
                 LET left == items[i].blockedBy \ done
                     freed == left = {} /\ items[i].blockedBy # {}
                 IN [status |-> IF i \in done THEN "done"
                                ELSE IF freed /\ items[i].status = "blocked" THEN "todo" ELSE items[i].status,
                     blockedBy |-> left]]
      next == First({i \in Ids : list[i].status = "todo" /\ list[i].blockedBy = {}})
  IN IF rest = 0 /\ next # 0
     THEN SetActive(list, next)
     ELSE /\ items' = list /\ activeId' = rest /\ clock' = clock \ done
          /\ stale' = (stale /\ rest # 0)

Block(id) ==
  /\ \E blockedBy \in Blockers : items' = [items EXCEPT ![id] = [status |-> "blocked", blockedBy |-> blockedBy]]
  /\ clock' = clock \ {id}
  /\ activeId' = IF activeId = id THEN 0 ELSE activeId
  /\ stale' = (stale /\ activeId # id)

\* unblock leaves the pointer alone.
Unblock(id) ==
  /\ items' = [items EXCEPT ![id] = [status |-> "todo", blockedBy |-> {}]]
  /\ stale' = (stale \/ activeId = id)
  /\ UNCHANGED <<activeId, clock>>

\* clear, and /plan clear by the user.
Clear == items' = <<>> /\ activeId' = 0 /\ clock' = {} /\ stale' = FALSE

\* The tool runs inside a run of the agent.
Tool ==
  /\ streaming /\ UNCHANGED streaming
  /\ \/ Set \/ Add \/ Clear
     \/ \E id \in Ids : Update(id) \/ Activate(id) \/ Block(id) \/ Unblock(id)
     \/ \E done \in SUBSET Ids \ {{}} : Complete(done)

PlanClear == items # <<>> /\ Clear /\ UNCHANGED streaming

\* restore, by before_agent_start, session_start, session_tree and /plan: every change of
\* the items was saved, clocks are not taken over.
Restore == clock # {} /\ clock' = {} /\ UNCHANGED <<items, activeId, streaming, stale>>

\* agent_start charges the item at the pointer, agent_end stops every clock.
AgentStart ==
  /\ ~streaming /\ streaming' = TRUE
  /\ clock' = clock \union (IF activeId = 0 THEN {} ELSE {activeId})
  /\ UNCHANGED <<items, activeId, stale>>

AgentEnd ==
  /\ streaming /\ streaming' = FALSE /\ clock' = {}
  /\ UNCHANGED <<items, activeId, stale>>

Next == Tool \/ PlanClear \/ Restore \/ AgentStart \/ AgentEnd

Spec == Init /\ [][Next]_vars

-----------------------------------------------------------------------------
\* The values the variables take.
TypeOK ==
  /\ items \in Seq(Item) /\ Len(items) <= MaxItems
  /\ activeId \in {0} \union Ids /\ clock \subseteq Ids
  /\ streaming \in BOOLEAN /\ stale \in BOOLEAN

\* latestWorkPlanState of handoff-state.ts, for plans with the ids and counters that
\* work-plan/index.ts writes.
Accepted ==
  LET active == {i \in Ids : items[i].status = "active"} IN
  /\ \A i \in Ids : items[i].blockedBy \subseteq Ids \ {i}
  /\ IF activeId = 0 THEN active = {} ELSE active = {activeId}

\* work-plan/index.ts and handoff-state.ts: whatever calls come in whatever order, a
\* handoff accepts the plan, unless a call named an unknown blocker or the item itself,
\* or unblock met the active item.
HandsOver ==
  ~stale /\ (\A i \in Ids : items[i].blockedBy \subseteq Ids \ {i}) => Accepted
=============================================================================
