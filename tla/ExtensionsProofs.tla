-------------------------- MODULE ExtensionsProofs --------------------------
(***************************************************************************)
(* Proofs about the parts that MCExtensions composes, for every value of   *)
(* their constants: what starts turns in a session, the work plan, one     *)
(* child agent, one query to a language server and one call to the broker. *)
(* Each part has an inductive invariant of its own; a step of the          *)
(* composition is a step of one part and leaves the others as they are.    *)
(***************************************************************************)
EXTENDS MCExtensions, WellFoundedInduction, TLAPS

-----------------------------------------------------------------------------
(* A call to the broker *)

\* What is smaller than everything else in a set of numbers is in the set.
LEMMA LeastExists ==
  ASSUME NEW S \in SUBSET Nat, S # {}
  PROVE  LET least == CHOOSE i \in S : \A j \in S : i <= j
         IN least \in S
  <1> DEFINE R == OpToRel(<, Nat)
  <1>1. PICK x \in S : \A y \in S : <<y, x>> \notin R
    BY NatLessThanWellFounded, WFMin, Zenon
  <1>2. \A y \in S : ~(y < x)
    BY <1>1, Zenon DEF OpToRel
  <1>3. \A y \in S : x <= y
    BY <1>2
  <1> QED
    BY <1>3

\* While a call waits it has no result, and asks an endpoint that was accepted.
McpInv ==
  /\ Mcp!AbortWins
  /\ canceled \in BOOLEAN /\ expired \in BOOLEAN
  /\ valid \subseteq Nat
  /\ phase # "idle" => outcome = "none" /\ at \in valid

LEMMA McpInit == Mcp!Init => McpInv
  BY DEF Mcp!Init, McpInv, Mcp!AbortWins

\* The loop over the endpoints goes on to one that was accepted, or gives up.
LEMMA Proceeds ==
  ASSUME NEW i \in Nat, valid' \subseteq Nat, Mcp!Proceed(i)
  PROVE  Mcp!Ends("error") \/ (phase' = "fetch" /\ outcome' = "none" /\ at' \in valid')
  <1> DEFINE left == {j \in valid' : j > i}
  <1>1. left \subseteq Nat
    OBVIOUS
  <1>2. left # {} => (CHOOSE j \in left : \A k \in left : j <= k) \in left
    BY <1>1, LeastExists
  <1> QED
    BY <1>2 DEF Mcp!Proceed

LEMMA McpKept == McpInv /\ Mcp!Next => McpInv'
  <1> SUFFICES ASSUME McpInv, Mcp!Next PROVE McpInv'
    OBVIOUS
  <1> USE DEF McpInv, Mcp!AbortWins, Mcp!Ends
  <1>1. CASE Mcp!Call
    <2>1. valid' \subseteq Nat
      BY <1>1, PartsAssumption DEF Mcp!Call, Mcp!Indices, PartsAssumption
    <2> QED
      BY <1>1, <2>1, Proceeds DEF Mcp!Call
  <1>2. phase # "idle" => at \in Nat
    OBVIOUS
  <1>3. CASE Mcp!Fetched
    BY <1>2, <1>3, Proceeds DEF Mcp!Fetched, Mcp!Resumed
  <1>4. CASE Mcp!Canceled
    BY <1>2, <1>4, Proceeds DEF Mcp!Canceled, Mcp!Resumed
  <1>5. CASE Mcp!BodyRead
    BY <1>2, <1>5, Proceeds DEF Mcp!BodyRead, Mcp!Resumed
  <1>6. CASE Mcp!Rejected
    BY <1>6 DEF Mcp!Rejected, Mcp!Resumed
  <1>7. CASE Mcp!CallerAborts \/ Mcp!Deadline
    BY <1>7 DEF Mcp!CallerAborts, Mcp!Deadline
  <1> QED
    BY <1>1, <1>3, <1>4, <1>5, <1>6, <1>7 DEF Mcp!Next

LEMMA McpIdle == McpInv /\ UNCHANGED mcpVars => McpInv'
  BY DEF McpInv, Mcp!AbortWins, mcpVars

-----------------------------------------------------------------------------
(* A child agent *)

\* What a one-shot child may write: it has nobody to ask.
OneShotLines == {"text", "error", "bad", "huge", "settled", "start"}

\* A one-shot run is never asked and never answers.
OneShot ==
  /\ mode \in {"json", "rpc"}
  /\ mode = "json" =>
       ~asked /\ ~claimed /\ inp = {} /\ child # "asking" /\ out \in Seq(OneShotLines)

\* Before its process no run has anything alive, and a segment that waits for its first
\* slot has no process.
NotStarted ==
  /\ proc = "none" => alive = {}
  /\ call = "new" \/ (call = "queued" /\ ~claimed) => proc = "none"

\* A teardown that finishes has waited for whoever holds the pipes, or says that it did
\* not; and a result is final only without a process or behind its verdict.
TornDown ==
  /\ alive \subseteq {"leader", "group", "stray"}
  /\ proc \in {"closing", "done"} /\ ~pipes => "stray" \notin alive
  /\ final # "none" => proc \in {"none", "done"}

AgentInv == Agent!RunTruthful /\ OneShot /\ NotStarted /\ TornDown

LEMMA AgentInit == Agent!Init => AgentInv
  BY DEF Agent!Init, AgentInv, Agent!RunTruthful, OneShot, NotStarted, TornDown

LEMMA OneShotKept == OneShot /\ Agent!Next => OneShot'
  <1> SUFFICES ASSUME OneShot, Agent!Next PROVE OneShot'
    OBVIOUS
  <1> DEFINE Dropped == out' \in {out, <<>>} \/ (out # <<>> /\ out' = Tail(out))
  <1>1. /\ mode \in {"json", "rpc"}
        /\ mode = "json" => ~asked /\ ~claimed /\ inp = {} /\ child # "asking" /\ out \in Seq(OneShotLines)
    BY DEF OneShot
  <1>2. ASSUME UNCHANGED <<mode, inp, child, claimed>>, asked' \in {asked, FALSE}, Dropped
        PROVE  OneShot'
    <2> SUFFICES ASSUME mode = "json"
                 PROVE  ~asked' /\ ~claimed' /\ inp' = {} /\ child' # "asking" /\ out' \in Seq(OneShotLines)
      BY <1>1, <1>2 DEF OneShot
    <2>1. out \in Seq(OneShotLines) /\ <<>> \in Seq(OneShotLines)
      BY <1>1, <1>2
    <2>2. out # <<>> => Tail(out) \in Seq(OneShotLines)
      BY <2>1
    <2>3. out' \in Seq(OneShotLines)
      BY <1>2, <2>1, <2>2
    <2>4. ~asked'
      BY <1>1, <1>2, Zenon
    <2>5. ~claimed'
      BY <1>1, <1>2
    <2> QED
      BY <1>1, <1>2, <2>3, <2>4, <2>5
  <1> HIDE DEF Dropped
  <1>3. CASE Agent!Timeout \/ Agent!GraceElapses \/ Agent!Escalate \/ Agent!Finish \/ Agent!Force
    BY <1>2, <1>3 DEF Dropped, Agent!Timeout, Agent!GraceElapses, Agent!Escalate, Agent!Finish,
         Agent!Force, Agent!Terminates, Agent!peer, Agent!caller
  <1>4. CASE \E readable \in BOOLEAN : Agent!Finalize(readable)
    BY <1>2, <1>4 DEF Dropped, Agent!Finalize, Agent!peer
  <1>5. CASE Agent!RunPiAgent \/ Agent!Start \/ Agent!SlotTooLate
    BY <1>2, <1>5 DEF Dropped, Agent!RunPiAgent, Agent!Start, Agent!AskSlot, Agent!SlotTooLate, Agent!peer
  <1>6. CASE Agent!SlotRefused \/ Agent!Cancel
    BY <1>2, <1>6 DEF Dropped, Agent!SlotRefused, Agent!Cancel, Agent!Cancels, Agent!Terminates,
         Agent!peer, Agent!caller
  <1>7. CASE Agent!Answer \/ Agent!WriteAnswer
    BY <1>1, <1>7 DEF OneShot, Agent!Answer, Agent!AskSlot, Agent!WriteAnswer
  <1>8. CASE Agent!StartProcess
    BY <1>1, <1>8 DEF OneShot, Agent!StartProcess
  <1>9. CASE Agent!ReadIgnored \/ Agent!ReadTurn \/ Agent!ReadSettled \/ Agent!ReadStart
    BY <1>2, <1>9 DEF Dropped, Agent!ReadIgnored, Agent!ReadTurn, Agent!ReadSettled, Agent!ReadStart,
         Agent!Reads, Agent!peer, Agent!caller
  <1>10. CASE Agent!ReadBad \/ Agent!ReadHuge
    BY <1>2, <1>10 DEF Dropped, Agent!ReadBad, Agent!ReadHuge, Agent!Protocol, Agent!Terminates,
         Agent!Reads, Agent!peer, Agent!caller
  <1>11. CASE Agent!ReadQuestion
    <2>1. mode = "json" => Head(out) \in OneShotLines
      BY <1>1, <1>11 DEF Agent!ReadQuestion, Agent!Reads
    <2> QED
      BY <1>1, <2>1, <1>11 DEF OneShot, Agent!ReadQuestion, Agent!Reads, OneShotLines
  <1>12. CASE \E n \in Notes : Agent!SendNote(n) \/ Agent!ReadAck(n) \/ Agent!ChildTakesNote(n)
    BY <1>1, <1>2, <1>12 DEF OneShot, Dropped, Agent!SendNote, Agent!ReadAck, Agent!Reads,
         Agent!ChildTakesNote, Agent!peer
  <1>13. CASE Agent!ChildWorks \/ Agent!ChildInsists \/ Agent!ChildRestarts
    BY <1>1, <1>13 DEF OneShot, OneShotLines, Agent!ChildWorks, Agent!ChildInsists, Agent!ChildRestarts,
         Agent!Says, Agent!caller
  <1>14. CASE \E m \in {"prompt", "answer"} : Agent!ChildReads(m)
    BY <1>1, <1>14 DEF OneShot, Agent!ChildReads
  <1>15. CASE \/ Agent!Forks
              \/ \E p \in {"group", "stray"} : Agent!Dies(p)
              \/ \E how \in {"ok", "bad"} : Agent!LeaderExits(how)
    BY <1>2, <1>15 DEF Dropped, Agent!Forks, Agent!Dies, Agent!LeaderExits, Agent!peer, Agent!caller
  <1> QED
    BY <1>3, <1>4, <1>5, <1>6, <1>7, <1>8, <1>9, <1>10, <1>11, <1>12, <1>13, <1>14, <1>15
       DEF Agent!Next

\* What most steps leave alone, or only let die.
LEMMA NothingEnds ==
  ASSUME AgentInv, UNCHANGED <<mode, proc, pipes, final, cleanup>>, alive' \subseteq alive,
         settled => settled',
         call' = "new" \/ (call' = "queued" /\ ~claimed')
           => call = "new" \/ (call = "queued" /\ ~claimed) \/ proc = "none"
  PROVE  Agent!RunTruthful' /\ NotStarted' /\ TornDown'
  <1> USE DEF AgentInv
  <1>1. Agent!RunTruthful'
    BY DEF Agent!RunTruthful
  <1>2. NotStarted'
    BY DEF NotStarted
  <1>3. TornDown'
    BY DEF TornDown
  <1> QED
    BY <1>1, <1>2, <1>3

LEMMA AgentKept == AgentInv /\ Agent!Next => AgentInv'
  <1> SUFFICES ASSUME AgentInv, Agent!Next PROVE Agent!RunTruthful' /\ NotStarted' /\ TornDown'
    BY OneShotKept DEF AgentInv
  <1>1. Agent!RunTruthful /\ OneShot /\ NotStarted /\ TornDown
    BY DEF AgentInv
  <1>2. CASE Agent!Timeout \/ Agent!GraceElapses \/ Agent!Escalate
    BY <1>2, NothingEnds DEF Agent!Timeout, Agent!GraceElapses, Agent!Escalate,
         Agent!os, Agent!caller, Agent!result, Agent!parser, vars
  <1>3. CASE Agent!Finish \/ Agent!Force
    BY <1>1, <1>3 DEF Agent!RunTruthful, NotStarted, TornDown, Agent!Finish, Agent!Force,
         Agent!os, Agent!caller, Agent!result, Agent!parser
  <1>4. CASE \E readable \in BOOLEAN : Agent!Finalize(readable)
    BY <1>1, <1>4 DEF Agent!RunTruthful, NotStarted, TornDown, Agent!Finalize, Agent!Verdict,
         Agent!LiveGroups, Agent!Failed, Agent!os
  <1>5. CASE Agent!RunPiAgent \/ Agent!Start \/ Agent!Answer \/ Agent!SlotTooLate
    BY <1>1, <1>5, NothingEnds DEF NotStarted, Agent!RunPiAgent, Agent!Start, Agent!Answer,
         Agent!AskSlot, Agent!SlotTooLate, Agent!os, Agent!owner, Agent!parser, Agent!result
  <1>6. CASE Agent!StartProcess
    BY <1>1, <1>6 DEF Agent!RunTruthful, NotStarted, TornDown, Agent!StartProcess, Agent!result
  <1>7. CASE Agent!WriteAnswer
    BY <1>7, NothingEnds DEF Agent!WriteAnswer, Agent!os, Agent!result
  <1>8. CASE Agent!SlotRefused
    BY <1>1, <1>8 DEF Agent!RunTruthful, OneShot, NotStarted, TornDown, Agent!SlotRefused,
         Agent!Cancels, Agent!os, Agent!parser, Agent!result
  <1>9. CASE Agent!Cancel
    BY <1>1, <1>9 DEF Agent!RunTruthful, NotStarted, TornDown, Agent!Cancel, Agent!Cancels,
         Agent!os, Agent!caller, Agent!parser, Agent!result
  <1>10. CASE \/ Agent!ReadIgnored \/ Agent!ReadTurn \/ Agent!ReadSettled \/ Agent!ReadStart
              \/ Agent!ReadBad \/ Agent!ReadHuge
    BY <1>10, NothingEnds DEF Agent!ReadIgnored, Agent!ReadTurn, Agent!ReadSettled, Agent!ReadStart,
         Agent!ReadBad, Agent!ReadHuge, Agent!os, Agent!owner, Agent!caller, Agent!parser, Agent!result
  <1>11. CASE Agent!ReadQuestion
    BY <1>11, NothingEnds DEF Agent!ReadQuestion, Agent!os, Agent!result
  <1>12. CASE \E n \in Notes : Agent!SendNote(n) \/ Agent!ReadAck(n) \/ Agent!ChildTakesNote(n)
    BY <1>12, NothingEnds DEF Agent!SendNote, Agent!ReadAck, Agent!ChildTakesNote,
         Agent!os, Agent!owner, Agent!caller, Agent!parser, Agent!result
  <1>13. CASE \/ Agent!ChildWorks \/ Agent!ChildInsists \/ Agent!ChildRestarts
              \/ \E m \in {"prompt", "answer"} : Agent!ChildReads(m)
    BY <1>13, NothingEnds DEF Agent!ChildWorks, Agent!ChildInsists, Agent!ChildRestarts, Agent!Says,
         Agent!ChildReads, Agent!os, Agent!owner, Agent!caller, Agent!parser, Agent!result
  <1>14. CASE Agent!Forks
    BY <1>1, <1>14 DEF Agent!RunTruthful, NotStarted, TornDown, Agent!Forks,
         Agent!owner, Agent!caller, Agent!parser, Agent!result
  <1>15. CASE \/ \E p \in {"group", "stray"} : Agent!Dies(p)
              \/ \E how \in {"ok", "bad"} : Agent!LeaderExits(how)
    BY <1>15, NothingEnds DEF Agent!Dies, Agent!LeaderExits,
         Agent!owner, Agent!caller, Agent!parser, Agent!result
  <1> QED
    BY <1>2, <1>3, <1>4, <1>5, <1>6, <1>7, <1>8, <1>9, <1>10, <1>11, <1>12, <1>13, <1>14, <1>15
       DEF Agent!Next

LEMMA AgentIdle == AgentInv /\ UNCHANGED agentVars => AgentInv'
  BY DEF AgentInv, Agent!RunTruthful, OneShot, NotStarted, TornDown, agentVars

-----------------------------------------------------------------------------
(* The work plan *)

\* An item with any set of blockers, for the sequences the operations build.
PlanItem == [status : Plan!Statuses, blockedBy : SUBSET Nat]

\* The items of a list that read active.
ActiveIn(list) == {i \in 1 .. Len(list) : list[i].status = "active"}

\* The pointer is at the one item that is active, unless unblock made that one to do.
PointsAt(list, id) == id \in ActiveIn(list) /\ ActiveIn(list) \subseteq {id}

PlanInv ==
  /\ items \in Seq(PlanItem)
  /\ activeId \in Nat
  /\ ActiveIn(items) \subseteq {activeId}
  /\ ~stale /\ activeId # 0 => activeId \in ActiveIn(items)

LEMMA PlanHands == PlanInv => PlanHandsOver
  <1> SUFFICES ASSUME PlanInv, ~stale, \A i \in Plan!Ids : items[i].blockedBy \subseteq Plan!Ids \ {i}
               PROVE  Plan!Accepted
    BY DEF PlanHandsOver, Plan!HandsOver
  <1>1. {i \in Plan!Ids : items[i].status = "active"} = ActiveIn(items) /\ 0 \notin ActiveIn(items)
    BY DEF PlanInv, ActiveIn, Plan!Ids
  <1>2. IF activeId = 0 THEN ActiveIn(items) = {} ELSE ActiveIn(items) = {activeId}
    BY <1>1 DEF PlanInv
  <1> QED
    BY <1>1, <1>2 DEF Plan!Accepted

LEMMA PlanInit == Plan!Init => PlanInv
  BY DEF Plan!Init, PlanInv, ActiveIn

\* Blockers are numbers, and the status of an item that waits is one.
LEMMA PlanTypes ==
  /\ Plan!Blockers \subseteq SUBSET Nat
  /\ \A blockedBy : Plan!Default(blockedBy) \in Plan!Statuses \ {"active"}
  <1>1. Plan!Blockers \subseteq SUBSET Nat
    BY PartsAssumption DEF Plan!Blockers, PartsAssumption
  <1> QED
    BY <1>1 DEF Plan!Default, Plan!Statuses

\* setActive leaves one active item, and the pointer at it.
LEMMA SetsActive ==
  ASSUME NEW list \in Seq(PlanItem), NEW id \in 1 .. Len(list), Plan!SetActive(list, id)
  PROVE  PlanInv'
  <1>1. /\ items' = [i \in 1 .. Len(list) |->
                       IF i = id THEN [list[i] EXCEPT !.status = "active"]
                       ELSE IF list[i].status = "active"
                            THEN [list[i] EXCEPT !.status = Plan!Default(list[i].blockedBy)]
                            ELSE list[i]]
        /\ activeId' = id
    BY DEF Plan!SetActive
  <1>2. \A i \in 1 .. Len(list) : list[i] \in PlanItem
    OBVIOUS
  <1>3. \A i \in 1 .. Len(list) : items'[i] \in PlanItem /\ (items'[i].status = "active" <=> i = id)
    BY <1>1, <1>2, PlanTypes DEF PlanItem, Plan!Statuses
  <1>4. items' \in Seq(PlanItem) /\ Len(items') = Len(list)
    BY <1>1, <1>3
  <1> QED
    BY <1>1, <1>3, <1>4 DEF PlanInv, ActiveIn

LEMMA FirstOf ==
  ASSUME NEW S \in SUBSET Nat
  PROVE  IF S = {} THEN Plan!First(S) = 0 ELSE Plan!First(S) \in S
  BY LeastExists DEF Plan!First

\* set: one item of the new plan is active, or none and the pointer is nowhere.
LEMMA PlanSet == PlanInv /\ Plan!Set => PlanInv'
  <1> SUFFICES ASSUME Plan!Set PROVE PlanInv'
    OBVIOUS
  <1>0. PICK n \in 0 .. MaxGiven : \E list \in [1 .. n -> Plan!GivenItem] :
          LET active == {i \in 1 .. n : list[i].status = "active"}
              open   == {i \in 1 .. n : list[i].status \notin {"done", "blocked"}}
              first  == IF active # {} THEN Plan!First(active) ELSE Plan!First(open)
          IN /\ activeId' = first
             /\ items' = [i \in 1 .. n |->
                  IF i = first THEN [list[i] EXCEPT !.status = "active"]
                  ELSE IF i \in active THEN [list[i] EXCEPT !.status = Plan!Default(list[i].blockedBy)]
                  ELSE list[i]]
    BY DEF Plan!Set
  <1>1. PICK list \in [1 .. n -> Plan!GivenItem] :
          LET active == {i \in 1 .. n : list[i].status = "active"}
              open   == {i \in 1 .. n : list[i].status \notin {"done", "blocked"}}
              first  == IF active # {} THEN Plan!First(active) ELSE Plan!First(open)
          IN /\ activeId' = first
             /\ items' = [i \in 1 .. n |->
                  IF i = first THEN [list[i] EXCEPT !.status = "active"]
                  ELSE IF i \in active THEN [list[i] EXCEPT !.status = Plan!Default(list[i].blockedBy)]
                  ELSE list[i]]
    BY <1>0
  <1> DEFINE active == {i \in 1 .. n : list[i].status = "active"}
             open   == {i \in 1 .. n : list[i].status \notin {"done", "blocked"}}
  <1>2. n \in Nat /\ active \in SUBSET Nat /\ open \in SUBSET Nat
    BY PartsAssumption DEF PartsAssumption
  <1>3. (active = {} /\ open = {} /\ activeId' = 0) \/ activeId' \in active \union open
    BY <1>1, <1>2, FirstOf
  <1>4. \A i \in 1 .. n : list[i] \in PlanItem
    BY PlanTypes DEF Plan!GivenItem, Plan!Item, PlanItem
  <1>5. items' = [i \in 1 .. n |->
                   IF i = activeId' THEN [list[i] EXCEPT !.status = "active"]
                   ELSE IF i \in active THEN [list[i] EXCEPT !.status = Plan!Default(list[i].blockedBy)]
                   ELSE list[i]]
    BY <1>1
  <1> HIDE DEF open
  <1>6. \A i \in 1 .. n : items'[i] \in PlanItem /\ (items'[i].status = "active" <=> i = activeId')
    BY <1>4, <1>5, PlanTypes DEF PlanItem, Plan!Statuses
  <1> HIDE DEF active
  <1>7. items' \in [1 .. n -> PlanItem]
    BY <1>5, <1>6
  <1>8. items' \in Seq(PlanItem) /\ Len(items') = n
    BY <1>2, <1>7
  <1>9. activeId' = 0 \/ activeId' \in 1 .. n
    BY <1>3 DEF active, open
  <1> QED
    BY <1>2, <1>6, <1>8, <1>9 DEF PlanInv, ActiveIn

LEMMA PlanAdd == PlanInv /\ Plan!Add => PlanInv'
  <1> SUFFICES ASSUME PlanInv, NEW blockedBy \in Plan!Blockers,
                      NEW status \in Plan!Statuses \union {Plan!Default(blockedBy)},
                      NEW list, list = Append(items, [status |-> status, blockedBy |-> blockedBy]),
                      IF status = "active" THEN Plan!SetActive(list, Len(list)) ELSE Plan!Keeps(list)
               PROVE  PlanInv'
    BY DEF Plan!Add
  <1>1. [status |-> status, blockedBy |-> blockedBy] \in PlanItem
    BY PlanTypes DEF PlanItem
  <1>2. list \in Seq(PlanItem) /\ Len(list) = Len(items) + 1 /\ Len(items) \in Nat
    BY <1>1 DEF PlanInv
  <1>3. CASE status = "active"
    <2>1. Len(list) \in 1 .. Len(list)
      BY <1>2
    <2> QED
      BY <1>2, <1>3, <2>1, SetsActive
  <1>4. CASE status # "active"
    <2>1. ActiveIn(list) = ActiveIn(items)
      <3>1. \A i \in 1 .. Len(items) : list[i] = items[i]
        BY <1>2 DEF PlanInv
      <3>2. list[Len(list)].status # "active"
        BY <1>1, <1>2, <1>4 DEF PlanInv
      <3> QED
        BY <1>2, <3>1, <3>2 DEF ActiveIn
    <2> QED
      BY <1>2, <1>4, <2>1 DEF PlanInv, Plan!Keeps
  <1> QED
    BY <1>3, <1>4

LEMMA PlanUpdated ==
  ASSUME PlanInv, NEW id \in Plan!Ids, NEW it \in PlanItem, Plan!Updated(id, it)
  PROVE  PlanInv'
  <1> DEFINE list == [items EXCEPT ![id] = it]
  <1>1. list \in Seq(PlanItem) /\ Len(list) = Len(items) /\ id \in 1 .. Len(list)
    BY DEF PlanInv, Plan!Ids
  <1>2. CASE it.status = "active"
    BY <1>1, <1>2, SetsActive DEF Plan!Updated
  <1>3. CASE it.status # "active"
    <2>1. ActiveIn(list) = ActiveIn(items) \ {id}
      BY <1>1, <1>3 DEF PlanInv, ActiveIn, Plan!Ids
    <2>2. CASE activeId = id
      <3>1. items' = list /\ activeId' = 0
        BY <1>3, <2>2 DEF Plan!Updated
      <3>2. ActiveIn(list) = {}
        BY <2>1, <2>2 DEF PlanInv
      <3> HIDE DEF list
      <3> QED
        BY <1>1, <3>1, <3>2 DEF PlanInv
    <2>3. CASE activeId # id
      BY <1>1, <1>3, <2>1, <2>3 DEF PlanInv, Plan!Updated
    <2> QED
      BY <2>2, <2>3
  <1> QED
    BY <1>2, <1>3

LEMMA PlanUpdate == \A id \in Plan!Ids : PlanInv /\ Plan!Update(id) => PlanInv'
  <1> SUFFICES ASSUME PlanInv, NEW id \in Plan!Ids, Plan!Update(id) PROVE PlanInv'
    OBVIOUS
  <1>1. items[id] \in PlanItem
    BY DEF PlanInv, Plan!Ids
  <1>2. PICK it \in PlanItem : Plan!Updated(id, it)
    <2>1. CASE \E status \in Plan!Statuses : Plan!Updated(id, [items[id] EXCEPT !.status = status])
      BY <1>1, <2>1 DEF PlanItem
    <2>2. CASE \E blockedBy \in Plan!Blockers, status \in Plan!Statuses :
                 Plan!Updated(id, [status |-> status, blockedBy |-> blockedBy])
      BY <2>2, PlanTypes DEF PlanItem
    <2>3. CASE \E blockedBy \in Plan!Blockers :
                 Plan!Updated(id, [status |-> IF items[id].status \in {"done", "active"} THEN items[id].status
                                              ELSE Plan!Default(blockedBy),
                                   blockedBy |-> blockedBy])
      BY <1>1, <2>3, PlanTypes DEF PlanItem
    <2> QED
      BY <1>1, <2>1, <2>2, <2>3 DEF Plan!Update
  <1> QED
    BY <1>2, PlanUpdated

\* complete: what is done is not active, and what it frees waits.
LEMMA PlanComplete == \A done \in SUBSET Plan!Ids : PlanInv /\ Plan!Complete(done) => PlanInv'
  <1> SUFFICES ASSUME PlanInv, NEW done \in SUBSET Plan!Ids, Plan!Complete(done) PROVE PlanInv'
    OBVIOUS
  <1> DEFINE rest == IF activeId \in done THEN 0 ELSE activeId
             Freed(i) == items[i].blockedBy \ done = {} /\ items[i].blockedBy # {}
             list == [i \in Plan!Ids |->
                       [status |-> IF i \in done THEN "done"
                                   ELSE IF Freed(i) /\ items[i].status = "blocked" THEN "todo" ELSE items[i].status,
                        blockedBy |-> items[i].blockedBy \ done]]
             next == Plan!First({i \in Plan!Ids : list[i].status = "todo" /\ list[i].blockedBy = {}})
  <1>1. IF rest = 0 /\ next # 0
        THEN Plan!SetActive(list, next)
        ELSE items' = list /\ activeId' = rest /\ stale' = (stale /\ rest # 0)
    BY DEF Plan!Complete
  <1>2. Len(items) \in Nat /\ \A i \in Plan!Ids : items[i] \in PlanItem
    BY DEF PlanInv, Plan!Ids
  <1>3. \A i \in Plan!Ids : /\ list[i] \in PlanItem
                            /\ list[i].status = "active" <=> items[i].status = "active" /\ i \notin done
    BY <1>2 DEF PlanItem, Plan!Statuses
  <1>4. list \in [1 .. Len(items) -> PlanItem]
    BY <1>3 DEF Plan!Ids
  <1>5. next = 0 \/ next \in 1 .. Len(items)
    <2>1. {i \in Plan!Ids : list[i].status = "todo" /\ list[i].blockedBy = {}} \in SUBSET Nat
      BY DEF Plan!Ids
    <2> QED
      BY <2>1, FirstOf DEF Plan!Ids
  <1> HIDE DEF list, next
  <1>6. list \in Seq(PlanItem) /\ Len(list) = Len(items)
    BY <1>2, <1>4
  <1>7. ActiveIn(list) = ActiveIn(items) \ done
    BY <1>3, <1>6 DEF ActiveIn, Plan!Ids
  <1>8. CASE rest = 0 /\ next # 0
    BY <1>1, <1>5, <1>6, <1>8, SetsActive
  <1>9. CASE ~(rest = 0 /\ next # 0)
    <2>1. items' = list /\ activeId' = rest /\ stale' = (stale /\ rest # 0)
      BY <1>1, <1>9
    <2>2. CASE activeId \in done
      BY <1>6, <1>7, <2>1, <2>2 DEF PlanInv
    <2>3. CASE activeId \notin done
      BY <1>6, <1>7, <2>1, <2>3 DEF PlanInv
    <2> QED
      BY <2>2, <2>3
  <1> QED
    BY <1>8, <1>9

\* block and unblock: the item is not active any more.
LEMMA PlanBlock == \A id \in Plan!Ids : PlanInv /\ (Plan!Block(id) \/ Plan!Unblock(id)) => PlanInv'
  <1> SUFFICES ASSUME PlanInv, NEW id \in Plan!Ids, Plan!Block(id) \/ Plan!Unblock(id) PROVE PlanInv'
    OBVIOUS
  <1>1. PICK it \in PlanItem : it.status # "active" /\ items' = [items EXCEPT ![id] = it]
    BY PlanTypes DEF Plan!Block, Plan!Unblock, PlanItem, Plan!Statuses
  <1>2. items' \in Seq(PlanItem) /\ Len(items') = Len(items)
    BY <1>1 DEF PlanInv, Plan!Ids
  <1>3. ActiveIn(items') = ActiveIn(items) \ {id}
    BY <1>1, <1>2 DEF PlanInv, ActiveIn, Plan!Ids
  <1>4. CASE Plan!Block(id)
    BY <1>2, <1>3, <1>4 DEF PlanInv, Plan!Block
  <1>5. CASE Plan!Unblock(id)
    BY <1>2, <1>3, <1>5 DEF PlanInv, Plan!Unblock
  <1> QED
    BY <1>4, <1>5

LEMMA PlanIdle == PlanInv /\ UNCHANGED <<items, activeId, stale>> => PlanInv'
  BY DEF PlanInv, ActiveIn

LEMMA PlanKept == PlanInv /\ Plan!Next => PlanInv'
  <1> SUFFICES ASSUME PlanInv, Plan!Next PROVE PlanInv'
    OBVIOUS
  <1>1. CASE Plan!Clear
    BY <1>1 DEF PlanInv, ActiveIn, Plan!Clear
  <1>2. CASE \E id \in Plan!Ids : Plan!Activate(id)
    BY <1>2, SetsActive DEF PlanInv, Plan!Activate, Plan!Ids
  <1>3. CASE Plan!Tool
    BY <1>1, <1>2, <1>3, PlanSet, PlanAdd, PlanUpdate, PlanBlock, PlanComplete DEF Plan!Tool
  <1>4. CASE Plan!Restore \/ Plan!AgentStart \/ Plan!AgentEnd
    BY <1>4, PlanIdle DEF Plan!Restore, Plan!AgentStart, Plan!AgentEnd
  <1> QED
    BY <1>1, <1>3, <1>4 DEF Plan!Next, Plan!PlanClear

-----------------------------------------------------------------------------
(* A query to a language server *)

Versions == Nat \union {Intel!Unread}

IntelTypes ==
  /\ disk \in [Files -> Nat]
  /\ before \in [Files -> Versions] /\ after \in [Files -> Versions] /\ read \in [Files -> Versions]

\* The requests the client makes.
Asks == unanswered \subseteq {"initialize", "query", "shutdown"}

\* What is read is read in this order: the first snapshot, what the server answers from,
\* the second snapshot; and a version that was read is not newer than the disk's.
ReadInOrder ==
  \A f \in Files :
    /\ before[f] <= disk[f]
    /\ op \in {"config", "before", "asking"} => after[f] = Intel!Unread
    /\ op \in {"config", "before"} => read[f] = Intel!Unread
    /\ op \in {"asking", "after"} => before[f] # Intel!Unread
    /\ op = "asking" => read[f] = Intel!Unread \/ (before[f] <= read[f] /\ read[f] <= disk[f])
    /\ op = "after" => /\ before[f] <= read[f] /\ read[f] <= disk[f]
                       /\ after[f] = Intel!Unread \/ read[f] <= after[f]

\* The server runs from the question to the end of its query, and what waits for an
\* answer is what the query is at.
ServerFollows ==
  /\ op \in {"config", "before"} => server = "none"
  /\ op = "asking" => server = "running"
  /\ op = "after" => server \in {"running", "exited"}
  /\ op \in {"closed", "none"} => server # "running"
  /\ pending \in {"initialize", "query"} => op = "asking"
  /\ shut => aborted \/ op = "none"
  /\ aborted => op # "asking"

\* An answer that is to be returned was made from the first snapshot, and is returned
\* only when the server has exited.
AnswerHolds ==
  /\ verdict = "ok" => read = before /\ op \in {"closing", "closed", "none"}
  /\ verdict = "ok" /\ op \in {"closed", "none"} => server = "exited"
  /\ result = "ok" => verdict = "ok" /\ op = "none"

IntelInv == IntelTypes /\ Asks /\ ReadInOrder /\ ServerFollows /\ AnswerHolds

LEMMA IntelSound == IntelInv => Intel!Sound
  BY DEF IntelInv, ServerFollows, AnswerHolds, Intel!Sound, Intel!AnswerFresh, Intel!ServersStopped

LEMMA IntelInit == Intel!Init => IntelInv
  BY DEF Intel!Init, IntelInv, IntelTypes, Asks, ReadInOrder, ServerFollows, AnswerHolds, Versions,
         Intel!Nothing, Intel!Unread

\* A query that ends closes its connection, unless it had none.
LEMMA Ending ==
  ASSUME NEW r, Intel!EndsAs(r), ServerFollows, op # "none"
  PROVE  /\ verdict' = r /\ op' \in {"closed", "closing"}
         /\ op' = "closed" <=> server = "none"
         /\ pending' \in {"initialize", "query"} => pending' = pending /\ server = "none"
  BY DEF Intel!EndsAs, Intel!Ask, ServerFollows

LEMMA IntelTypesKept == IntelTypes /\ Intel!Next => IntelTypes'
  <1> SUFFICES ASSUME IntelTypes, Intel!Next PROVE IntelTypes'
    OBVIOUS
  <1> USE DEF IntelTypes, Versions
  <1>1. CASE Intel!Call
    BY <1>1 DEF Intel!Call, Intel!Nothing
  <1>2. CASE \E f \in Files : Intel!Edit(f)
    BY <1>2 DEF Intel!Edit
  <1>3. CASE \E f \in Files : Intel!ReadBefore(f) \/ Intel!ReadAfter(f) \/ Intel!ServerReads(f)
    BY <1>3 DEF Intel!ReadBefore, Intel!ReadAfter, Intel!ServerReads
  <1>4. CASE UNCHANGED <<disk, before, after, read>>
    BY <1>4
  <1> QED
    BY <1>1, <1>2, <1>3, <1>4 DEF Intel!Next, Intel!Own, Intel!Configured, Intel!Start, Intel!Compare,
         Intel!Kills, Intel!Closed, Intel!Returns, Intel!SnapshotFails, Intel!ShutdownUnanswered,
         Intel!Deadline, Intel!CallerAborts, Intel!Shutdown, Intel!AnsweredBadly,
         Intel!ConnectionFails, Intel!ServerExits, Intel!Answered

LEMMA AsksKept == Asks /\ Intel!Next => Asks'
  <1> SUFFICES ASSUME Asks, Intel!Next PROVE Asks'
    OBVIOUS
  <1>1. \A r : Intel!EndsAs(r) => Asks'
    BY DEF Asks, Intel!EndsAs, Intel!Ask
  <1>2. CASE UNCHANGED unanswered
    BY <1>2 DEF Asks
  <1>3. CASE \E r \in unanswered : Intel!Answered(r)
    BY <1>3 DEF Asks, Intel!Answered, Intel!Ask
  <1>4. CASE Intel!Call \/ Intel!Start
    BY <1>4 DEF Asks, Intel!Call, Intel!Start, Intel!Ask
  <1> QED
    BY <1>1, <1>2, <1>3, <1>4 DEF Intel!Next, Intel!Own, Intel!Configured, Intel!Compare, Intel!Kills,
         Intel!Closed, Intel!Returns, Intel!SnapshotFails, Intel!ShutdownUnanswered, Intel!Deadline,
         Intel!CallerAborts, Intel!Shutdown, Intel!Aborts, Intel!AnsweredBadly, Intel!ConnectionFails,
         Intel!ServerExits, Intel!Edit, Intel!ReadBefore, Intel!ReadAfter, Intel!ServerReads, Intel!connection

LEMMA ServerFollowsKept == Asks /\ ServerFollows /\ Intel!Next => ServerFollows'
  <1> SUFFICES ASSUME Asks, ServerFollows, Intel!Next PROVE ServerFollows'
    OBVIOUS
  <1>1. CASE Intel!Call \/ Intel!Configured \/ Intel!Start
    BY <1>1 DEF ServerFollows, Intel!Call, Intel!Configured, Intel!Start, Intel!Ask,
         Intel!connection, Intel!signals
  <1>2. CASE Intel!SnapshotFails \/ Intel!Compare
    BY <1>2, Ending DEF ServerFollows, Intel!SnapshotFails, Intel!Compare, Intel!signals
  <1>3. CASE Intel!Deadline \/ Intel!CallerAborts \/ Intel!Shutdown
    BY <1>3, Ending DEF ServerFollows, Intel!Deadline, Intel!CallerAborts, Intel!Shutdown, Intel!Aborts,
         Intel!connection
  <1>4. CASE Intel!AnsweredBadly \/ Intel!ConnectionFails
    BY <1>4, Ending DEF ServerFollows, Intel!AnsweredBadly, Intel!ConnectionFails, Intel!signals
  <1>5. CASE \E r \in unanswered : Intel!Answered(r)
    <2> SUFFICES ASSUME NEW r \in unanswered, Intel!Answered(r) PROVE ServerFollows'
      BY <1>5
    <2>1. server' = server /\ aborted' = aborted /\ shut' = shut
      BY DEF Intel!Answered, Intel!signals
    <2>2. \/ r # pending /\ pending' = pending /\ op' = op
          \/ r = pending /\ r = "initialize" /\ pending' = "query" /\ op' = op
          \/ r = pending /\ r = "query" /\ pending' = "none" /\ op' = "after"
          \/ r = pending /\ r = "shutdown" /\ pending' = "none" /\ op' = op
      BY DEF Asks, Intel!Answered, Intel!Ask
    <2> QED
      BY <2>1, <2>2 DEF ServerFollows, Intel!Answered
  <1>6. CASE \/ Intel!Kills \/ Intel!Closed \/ Intel!Returns
             \/ Intel!ShutdownUnanswered \/ Intel!ServerExits
    BY <1>6 DEF ServerFollows, Intel!Kills, Intel!Closed, Intel!Returns, Intel!ShutdownUnanswered,
         Intel!ServerExits, Intel!connection, Intel!signals
  <1>7. CASE \E f \in Files : \/ Intel!ReadBefore(f) \/ Intel!ReadAfter(f)
                              \/ Intel!Edit(f) \/ Intel!ServerReads(f)
    BY <1>7 DEF ServerFollows, Intel!ReadBefore, Intel!ReadAfter, Intel!Edit, Intel!ServerReads,
         Intel!connection, Intel!signals
  <1> QED
    BY <1>1, <1>2, <1>3, <1>4, <1>5, <1>6, <1>7 DEF Intel!Next, Intel!Own

\* Steps that read nothing, and do not take the query on to the server or behind it.
LEMMA NothingRead ==
  ASSUME ReadInOrder, UNCHANGED <<disk, before, after, read>>,
         op' = op \/ op' \in {"closing", "closed", "none"} \/ (op = "config" /\ op' = "before")
  PROVE  ReadInOrder'
  BY DEF ReadInOrder

LEMMA ReadInOrderKept == IntelTypes /\ Asks /\ ServerFollows /\ ReadInOrder /\ Intel!Next => ReadInOrder'
  <1> SUFFICES ASSUME IntelTypes, Asks, ServerFollows, ReadInOrder, Intel!Next PROVE ReadInOrder'
    OBVIOUS
  <1>1. CASE Intel!Call
    BY <1>1 DEF IntelTypes, ReadInOrder, Intel!Call, Intel!Nothing, Intel!Unread
  <1>2. CASE \E f \in Files : Intel!Edit(f)
    BY <1>2 DEF IntelTypes, Versions, Intel!Unread, ReadInOrder, Intel!Edit
  <1>3. CASE \E f \in Files : Intel!ReadBefore(f)
    BY <1>3 DEF IntelTypes, Versions, Intel!Unread, ReadInOrder, Intel!ReadBefore
  <1>4. CASE \E f \in Files : Intel!ReadAfter(f)
    BY <1>4 DEF IntelTypes, Versions, Intel!Unread, ReadInOrder, Intel!ReadAfter
  <1>5. CASE \E f \in Files : Intel!ServerReads(f)
    BY <1>5 DEF IntelTypes, Versions, Intel!Unread, ReadInOrder, Intel!ServerReads, ServerFollows
  <1>6. CASE Intel!Start
    BY <1>6 DEF ReadInOrder, Intel!Start, Intel!Complete
  <1>7. CASE \E r \in unanswered : Intel!Answered(r)
    <2> SUFFICES ASSUME NEW r \in unanswered, Intel!Answered(r) PROVE ReadInOrder'
      BY <1>7
    <2>1. UNCHANGED <<disk, before, after, read>>
      BY DEF Intel!Answered
    <2>2. op' = op \/ (r = pending /\ r = "query" /\ op' = "after")
      BY DEF Asks, Intel!Answered, Intel!Ask
    <2>3. r = "query" => \A f \in Files : read[f] # Intel!Unread
      BY DEF Intel!Answered, Intel!Complete
    <2> QED
      BY <2>1, <2>2, <2>3 DEF ReadInOrder, ServerFollows
  <1>8. CASE Intel!Configured \/ Intel!Closed \/ Intel!Returns
    BY <1>8, NothingRead DEF Intel!Configured, Intel!Closed, Intel!Returns
  <1>9. CASE Intel!Compare \/ Intel!SnapshotFails
    BY <1>9, Ending, NothingRead DEF Intel!Compare, Intel!SnapshotFails
  <1>10. CASE Intel!Deadline \/ Intel!CallerAborts \/ Intel!Shutdown
    BY <1>10, Ending, NothingRead DEF Intel!Deadline, Intel!CallerAborts, Intel!Shutdown, Intel!Aborts
  <1>11. CASE Intel!AnsweredBadly \/ Intel!ConnectionFails
    BY <1>11, Ending, NothingRead DEF Intel!AnsweredBadly, Intel!ConnectionFails
  <1>12. CASE Intel!Kills \/ Intel!ShutdownUnanswered \/ Intel!ServerExits
    BY <1>12, NothingRead DEF Intel!Kills, Intel!ShutdownUnanswered, Intel!ServerExits
  <1> QED
    BY <1>1, <1>2, <1>3, <1>4, <1>5, <1>6, <1>7, <1>8, <1>9, <1>10, <1>11, <1>12
       DEF Intel!Next, Intel!Own

\* Two snapshots that agree enclose what the server read.
LEMMA Enclosed ==
  IntelTypes /\ ReadInOrder /\ op = "after" /\ Intel!Complete(after) /\ before = after => read = before
  <1> SUFFICES ASSUME IntelTypes, ReadInOrder, op = "after", Intel!Complete(after), before = after
               PROVE  read = before
    OBVIOUS
  <1>1. \A f \in Files : read[f] = before[f]
    BY DEF IntelTypes, Versions, ReadInOrder, Intel!Complete, Intel!Unread
  <1> QED
    BY <1>1 DEF IntelTypes

LEMMA AnswerHoldsKept == IntelInv /\ Intel!Next => AnswerHolds'
  <1> SUFFICES ASSUME IntelInv, Intel!Next PROVE AnswerHolds'
    OBVIOUS
  <1>1. IntelTypes /\ Asks /\ ReadInOrder /\ ServerFollows /\ AnswerHolds
    BY DEF IntelInv
  <1>2. CASE Intel!Compare
    BY <1>1, <1>2, Ending, Enclosed DEF ServerFollows, AnswerHolds, Intel!Compare
  <1>3. CASE Intel!SnapshotFails
    BY <1>1, <1>3, Ending DEF AnswerHolds, Intel!SnapshotFails
  <1>4. CASE Intel!Deadline \/ Intel!CallerAborts \/ Intel!Shutdown
    BY <1>1, <1>4, Ending DEF AnswerHolds, Intel!Deadline, Intel!CallerAborts, Intel!Shutdown, Intel!Aborts,
         Intel!connection
  <1>5. CASE Intel!AnsweredBadly \/ Intel!ConnectionFails
    BY <1>1, <1>5, Ending DEF ServerFollows, AnswerHolds, Intel!AnsweredBadly, Intel!ConnectionFails
  <1>6. CASE \E r \in unanswered : Intel!Answered(r)
    <2> SUFFICES ASSUME NEW r \in unanswered, Intel!Answered(r) PROVE AnswerHolds'
      BY <1>6
    <2>1. UNCHANGED <<before, read, server, verdict, result>>
      BY DEF Intel!Answered
    <2>2. op' = op \/ (pending = "query" /\ op' = "after")
      BY <1>1 DEF Asks, Intel!Answered, Intel!Ask
    <2> QED
      BY <1>1, <2>1, <2>2 DEF ServerFollows, AnswerHolds
  <1>7. CASE Intel!Call \/ Intel!Configured \/ Intel!Start
    BY <1>1, <1>7 DEF AnswerHolds, Intel!Call, Intel!Configured, Intel!Start
  <1>8. CASE \/ Intel!Kills \/ Intel!Closed \/ Intel!Returns
             \/ Intel!ShutdownUnanswered \/ Intel!ServerExits
    BY <1>1, <1>8 DEF AnswerHolds, Intel!Kills, Intel!Closed, Intel!Returns, Intel!ShutdownUnanswered,
         Intel!ServerExits, Intel!connection
  <1>9. CASE \E f \in Files : \/ Intel!ReadBefore(f) \/ Intel!ReadAfter(f)
                              \/ Intel!Edit(f) \/ Intel!ServerReads(f)
    BY <1>1, <1>9 DEF AnswerHolds, Intel!ReadBefore, Intel!ReadAfter, Intel!Edit, Intel!ServerReads,
         Intel!connection
  <1> QED
    BY <1>2, <1>3, <1>4, <1>5, <1>6, <1>7, <1>8, <1>9 DEF Intel!Next, Intel!Own

LEMMA IntelKept == IntelInv /\ Intel!Next => IntelInv'
  BY IntelTypesKept, AsksKept, ReadInOrderKept, ServerFollowsKept, AnswerHoldsKept DEF IntelInv

LEMMA IntelIdle == IntelInv /\ UNCHANGED intelVars => IntelInv'
  BY DEF IntelInv, IntelTypes, Asks, ReadInOrder, ServerFollows, AnswerHolds, intelVars

-----------------------------------------------------------------------------
(* The goal *)

GoalStatuses == {"none", "active", "paused", "blocked", "complete", "budget_limited"}

GoalTypes ==
  /\ goal \in [status : GoalStatuses, turns : Nat, streak : Nat, notice : BOOLEAN, kept : BOOLEAN]
  /\ goalTimer \in BOOLEAN

\* A goal that nobody reactivated and that goes on has turns of the budget left, but for
\* the stalls of its streak, and no notice that the budget is spent.
OnBudget ==
  goal.kept /\ goal.status = "active" =>
    ~goal.notice /\ goal.turns <= MaxTurns - 1 + goal.streak /\ goal.streak <= MaxStalls

\* The next turn of a goal that goes on is on its way from the end of a run, too.
OnItsWay ==
  /\ run = "off" => ~live
  /\ run \in {"idle", "ended"} /\ goal.status = "active" /\ live /\ ~goal.notice
       => goalTimer \/ held \/ (run = "ended" /\ "goal" \in queue)

GoalInv == GoalTypes /\ OverrunBounded /\ OnBudget /\ OnItsWay

\* Every goal that is new, or given new turns.
LEMMA NewGoals ==
  /\ NoGoal \in [status : GoalStatuses, turns : Nat, streak : Nat, notice : BOOLEAN, kept : BOOLEAN]
  /\ NewGoal \in [status : GoalStatuses, turns : Nat, streak : Nat, notice : BOOLEAN, kept : BOOLEAN]
  /\ NewGoal.turns = 0 /\ NewGoal.streak = 0 /\ ~NewGoal.notice /\ NewGoal.status = "active"
  /\ NoGoal.turns = 0 /\ NoGoal.status = "none"
  /\ 0 <= MaxTurns + MaxStalls /\ 0 <= MaxTurns - 1 + 0 /\ 0 <= MaxStalls
  <1>1. NoGoal \in [status : GoalStatuses, turns : Nat, streak : Nat, notice : BOOLEAN, kept : BOOLEAN]
    BY DEF NoGoal, GoalStatuses
  <1>2. NewGoal \in [status : GoalStatuses, turns : Nat, streak : Nat, notice : BOOLEAN, kept : BOOLEAN]
    BY <1>1 DEF NewGoal, GoalStatuses
  <1>3. /\ NewGoal.turns = 0 /\ NewGoal.streak = 0 /\ ~NewGoal.notice /\ NewGoal.status = "active"
        /\ NoGoal.turns = 0 /\ NoGoal.status = "none"
    BY DEF NoGoal, NewGoal
  <1>4. 0 <= MaxTurns + MaxStalls /\ 0 <= MaxTurns - 1 + 0 /\ 0 <= MaxStalls
    BY SessionAssumption DEF SessionAssumption
  <1> QED
    BY <1>1, <1>2, <1>3, <1>4

LEMMA GoalInit == Init => GoalInv
  BY NewGoals DEF Init, GoalInv, GoalTypes, OverrunBounded, OnBudget, OnItsWay

\* What the goal is charged with.
GoalParts == GoalTypes /\ OverrunBounded /\ OnBudget

LEMMA GoalReplaced ==
  ASSUME GoalParts, goalTimer' \in BOOLEAN,
         \/ goal' \in {goal, NoGoal, NewGoal}
         \/ \E status \in GoalStatuses : goal' = [goal EXCEPT !.status = status, !.kept = @ /\ status # "active"]
         \/ goal' = [goal EXCEPT !.status = "paused"]
         \/ goal' = [goal EXCEPT !.status = "active", !.notice = FALSE, !.kept = FALSE]
  PROVE  GoalParts'
  <1> USE DEF GoalParts, GoalTypes, OverrunBounded, OnBudget
  <1>1. CASE goal' = goal
    BY <1>1
  <1>2. CASE goal' \in {NoGoal, NewGoal}
    BY <1>2, NewGoals
  <1>3. ASSUME NEW status \in GoalStatuses, goal' = [goal EXCEPT !.status = status, !.kept = @ /\ status # "active"]
        PROVE  GoalParts'
    BY <1>3
  <1>4. CASE goal' = [goal EXCEPT !.status = "paused"]
    BY <1>4 DEF GoalStatuses
  <1>5. CASE goal' = [goal EXCEPT !.status = "active", !.notice = FALSE, !.kept = FALSE]
    BY <1>5 DEF GoalStatuses
  <1> QED
    BY <1>1, <1>2, <1>3, <1>4, <1>5

\* A stall: the streak pays for the turn beyond the budget, until the goal is blocked.
LEMMA StallCharged ==
  ASSUME GoalParts, NEW stop, GoalStalls(stop)
  PROVE  GoalParts' /\ (goal'.status = "active" => goalTimer')
  <1> USE DEF GoalParts, GoalTypes, OverrunBounded, OnBudget
  <1> USE SessionAssumption DEF SessionAssumption
  <1> DEFINE streak == Stalled(goal.streak)
             turns == Counted(goal.turns)
  <1>1. /\ goal' = [goal EXCEPT !.turns = turns, !.streak = streak,
                                !.status = IF streak > MaxStalls THEN "blocked" ELSE "active"]
        /\ goalTimer' = ~(streak > MaxStalls)
        /\ goal.status = "active"
    BY DEF GoalStalls
  <1>2. streak \in Nat /\ turns \in Nat /\ turns <= goal.turns + 1
    BY DEF Stalled, Counted
  <1>3. goal.kept => streak = goal.streak + 1 /\ turns <= MaxTurns - 1 + streak
    BY <1>1, <1>2 DEF Stalled
  <1> HIDE DEF streak, turns
  <1>4. GoalTypes'
    BY <1>1, <1>2 DEF GoalStatuses
  <1>5. OverrunBounded' /\ OnBudget'
    BY <1>1, <1>2, <1>3
  <1> QED
    BY <1>1, <1>2, <1>4, <1>5

\* A turn that did something is charged to the budget; the last one leaves a notice.
LEMMA WorkCharged ==
  ASSUME GoalParts, NEW stop, GoalWorks(stop)
  PROVE  GoalParts' /\ (goal'.status = "active" /\ ~goal'.notice => goalTimer')
  <1> USE DEF GoalParts, GoalTypes, OverrunBounded, OnBudget
  <1> USE SessionAssumption DEF SessionAssumption
  <1> DEFINE turns == Counted(goal.turns)
             spent == turns >= MaxTurns
  <1>1. /\ goal' = [goal EXCEPT !.turns = turns, !.streak = 0,
                                !.status = IF spent /\ ~goal.notice THEN "budget_limited" ELSE @,
                                !.notice = @ \/ spent]
        /\ goalTimer' = ~(spent /\ goal.notice)
        /\ goal.status = "active"
    BY DEF GoalWorks
  <1>2. turns \in Nat /\ turns <= goal.turns + 1
    BY DEF Counted
  <1> HIDE DEF turns
  <1>3. GoalTypes'
    BY <1>1, <1>2 DEF GoalStatuses
  <1>4. OverrunBounded' /\ OnBudget'
    BY <1>1, <1>2
  <1> QED
    BY <1>1, <1>3, <1>4

LEMMA GoalPartsKept == GoalParts /\ Next => GoalParts'
  <1> SUFFICES ASSUME GoalParts, Next PROVE GoalParts'
    OBVIOUS
  <1>1. goalTimer \in BOOLEAN
    BY DEF GoalParts, GoalTypes
  <1>2. CASE UNCHANGED <<goal, goalTimer>>
    BY <1>1, <1>2, GoalReplaced
  <1>3. CASE GoalTimer \/ SessionShutdown
    BY <1>3, GoalReplaced DEF GoalTimer, SessionShutdown
  <1>4. CASE SessionStart \/ GoalStops \/ StartGoal
    BY <1>1, <1>4, GoalReplaced DEF SessionStart, GoalStops, StartGoal
  <1>5. CASE GoalCommand
    BY <1>5, GoalReplaced DEF GoalCommand, Kick
  <1>6. CASE \E status \in {"active", "complete", "blocked", "paused"} : UpdateGoal(status)
    BY <1>1, <1>6, GoalReplaced DEF UpdateGoal, GoalStatuses
  <1>7. CASE \E stop \in {"stop", "toolUse", "aborted", "error"} : RunEnds(stop)
    <2> SUFFICES ASSUME NEW stop, RunEnds(stop) PROVE GoalParts'
      BY <1>7
    <2>1. CASE GoalUntouched
      BY <1>2, <2>1 DEF GoalUntouched, auto
    <2>2. CASE GoalInterrupted(stop)
      BY <1>1, <2>2, GoalReplaced DEF GoalInterrupted
    <2>3. CASE GoalStalls(stop) \/ GoalWorks(stop)
      BY <2>3, StallCharged, WorkCharged
    <2> QED
      BY <2>1, <2>2, <2>3 DEF RunEnds
  <1> QED
    BY <1>2, <1>3, <1>4, <1>5, <1>6, <1>7
       DEF Next, auto, Prompt, TakeFollowUps, Retry, Continue, JobEnds, Notify, Observe, FlushIdle, PlanTimer,
           RunSettles, InterruptRetry, GateOpens, GateCloses, PlanTool, PlanClear

\* The continuation that was held, or whose macrotask came, starts a run or is queued.
LEMMA OnItsWayKept == GoalParts /\ OnItsWay /\ Next => OnItsWay'
  <1> SUFFICES ASSUME GoalParts, OnItsWay, Next PROVE OnItsWay'
    OBVIOUS
  <1>1. CASE SessionStart \/ SessionShutdown \/ Prompt \/ TakeFollowUps \/ Retry \/ Continue
    BY <1>1 DEF OnItsWay, SessionStart, SessionShutdown, Up, Prompt, Starts, TakeFollowUps, Retry, Continue, auto
  <1>2. CASE \E j \in Jobs : JobEnds(j) \/ Notify(j) \/ Observe(j)
    BY <1>2 DEF OnItsWay, JobEnds, Notify, Observe, auto, pi
  <1>3. CASE FlushIdle \/ PlanTimer
    BY <1>3 DEF OnItsWay, FlushIdle, PlanTimer, Triggers, Starts, auto, pi
  <1>4. CASE GoalTimer
    BY <1>4 DEF OnItsWay, GoalTimer, Triggers, Starts, pi
  <1>5. CASE \E stop \in {"stop", "toolUse", "aborted", "error"} : RunEnds(stop)
    <2> SUFFICES ASSUME NEW stop, RunEnds(stop) PROVE OnItsWay'
      BY <1>5
    <2>1. run' = "ended"
      BY DEF RunEnds
    <2>2. CASE GoalUntouched \/ GoalInterrupted(stop)
      BY <2>1, <2>2 DEF OnItsWay, GoalUntouched, GoalInterrupted, GoalParts, GoalTypes, auto
    <2>3. CASE GoalStalls(stop) \/ GoalWorks(stop)
      BY <2>1, <2>3, StallCharged, WorkCharged DEF OnItsWay
    <2> QED
      BY <2>2, <2>3 DEF RunEnds
  <1>6. CASE RunSettles \/ InterruptRetry
    BY <1>6 DEF OnItsWay, RunSettles, InterruptRetry, auto
  <1>7. CASE GateOpens \/ GateCloses
    BY <1>7 DEF OnItsWay, GateOpens, GateCloses, Triggers, Starts, Up, auto, pi
  <1>8. CASE GoalCommand
    BY <1>8 DEF OnItsWay, GoalCommand, Kick, Up, pi
  <1>9. CASE GoalStops
    <2>1. goal'.status \in {"none", "paused"}
      BY <1>9, NewGoals DEF GoalStops, GoalParts, GoalTypes
    <2> QED
      BY <1>9, <2>1 DEF OnItsWay, GoalStops, Up, pi
  <1>10. CASE StartGoal \/ \E status \in {"active", "complete", "blocked", "paused"} : UpdateGoal(status)
    BY <1>10 DEF OnItsWay, StartGoal, UpdateGoal, pi
  <1>11. CASE PlanTool \/ PlanClear
    BY <1>11 DEF OnItsWay, PlanTool, PlanClear, pi, auto
  <1> QED
    BY <1>1, <1>2, <1>3, <1>4, <1>5, <1>6, <1>7, <1>8, <1>9, <1>10, <1>11 DEF Next

LEMMA GoalKept == GoalInv /\ Next => GoalInv'
  BY GoalPartsKept, OnItsWayKept DEF GoalInv, GoalParts

LEMMA GoalIdle == GoalInv /\ UNCHANGED vars => GoalInv'
  BY DEF GoalInv, GoalTypes, OverrunBounded, OnBudget, OnItsWay, vars, pi, auto

LEMMA GoalSound == GoalInv => GoalCarriedOn
  BY DEF GoalInv, GoalCarriedOn, AutopilotAlive, OnItsWay

-----------------------------------------------------------------------------
(* An interrupt *)

JobStates == {"running", "ended", "pending", "attached", "told"}

\* After an interrupt nothing is left that would start a run: no outcome that the hub had
\* then, and no timer; nor will the end of the run bring one.
RestInv ==
  /\ job \in [Jobs -> JobStates]
  /\ interrupted => Pending \subseteq fresh /\ ~goalTimer /\ ~planTimer
  /\ interrupted /\ run = "ended" => lastStop = "aborted"
  /\ run = "ended" => ~planTimer
  /\ run = "ended" /\ lastStop = "error" => errorHeld

LEMMA RestInit == Init => RestInv
  BY DEF Init, RestInv, JobStates

\* take: nothing is pending any more, and what the model did not see is told as said.
LEMMA Taken ==
  ASSUME RestInv, NEW how \in {"told", "attached"}, Take(how)
  PROVE  /\ job' \in [Jobs -> JobStates] /\ Pending' = {}
         /\ \A j \in Pending \ seen : job'[j] = how
  BY DEF RestInv, JobStates, Take, Pending

LEMMA RestKept == RestInv /\ Next => RestInv'
  <1> SUFFICES ASSUME RestInv, Next PROVE RestInv'
    OBVIOUS
  <1>1. CASE SessionStart \/ SessionShutdown \/ TakeFollowUps \/ Retry \/ Continue
    BY <1>1 DEF RestInv, Pending, SessionStart, SessionShutdown, TakeFollowUps, Retry, Continue, Starts,
         hub, auto, plans, user
  <1>2. CASE Prompt \/ GoalCommand
    BY <1>2 DEF RestInv, Pending, JobStates, Prompt, Starts, GoalCommand, Kick, pi, hub, auto, plans
  <1>3. CASE \E j \in Jobs : JobEnds(j) \/ Notify(j) \/ Observe(j)
    BY <1>3 DEF RestInv, Pending, JobStates, JobEnds, Notify, Observe, pi, auto, plans, user
  <1>4. CASE FlushIdle
    <2>1. job' \in [Jobs -> JobStates] /\ Pending' \subseteq Pending
      <3>1. CASE Take("told")
        BY <3>1, Taken
      <3>2. CASE UNCHANGED job
        BY <3>2 DEF RestInv, Pending
      <3> QED
        BY <1>4, <3>1, <3>2 DEF FlushIdle
    <2>2. UNCHANGED <<errorHeld, goalTimer, planTimer, interrupted, fresh>>
      BY <1>4 DEF FlushIdle, auto, plans, user
    <2>3. run' = "ended" => run = "ended" /\ lastStop' = lastStop
      BY <1>4 DEF FlushIdle, Triggers, Starts, pi
    <2> QED
      BY <2>1, <2>2, <2>3 DEF RestInv
  <1>5. CASE GoalTimer \/ PlanTimer
    <2>1. ~interrupted /\ interrupted' = interrupted /\ UNCHANGED <<job, errorHeld>>
      BY <1>5 DEF RestInv, GoalTimer, PlanTimer, hub, user
    <2>2. run' = "ended" => run = "ended" /\ lastStop' = lastStop /\ ~planTimer'
      BY <1>5 DEF RestInv, GoalTimer, PlanTimer, Triggers, Starts, pi, plans
    <2> QED
      BY <2>1, <2>2 DEF RestInv
  <1>6. CASE \E stop \in {"stop", "toolUse", "aborted", "error"} : RunEnds(stop)
    <2> SUFFICES ASSUME NEW stop, RunEnds(stop) PROVE RestInv'
      BY <1>6
    <2>1. /\ run' = "ended" /\ lastStop' = stop /\ ~goalTimer /\ ~planTimer'
          /\ interrupted' = (stop = "aborted")
      BY DEF RunEnds, plans
    <2>2. job' \in [Jobs -> JobStates] /\ (stop = "error" => errorHeld')
      BY Taken DEF RunEnds, HubEnds, RestInv
    <2>3. stop = "aborted" => Pending' = {}
      <3>1. CASE Pending = {} /\ UNCHANGED job
        BY <3>1 DEF Pending
      <3>2. CASE Take("attached")
        BY <3>2, Taken
      <3> QED
        BY <3>1, <3>2 DEF RunEnds, HubEnds
    <2>4. stop = "aborted" => ~goalTimer'
      BY <2>1 DEF RunEnds, GoalUntouched, GoalInterrupted, GoalStalls, GoalWorks, auto
    <2> QED
      BY <2>1, <2>2, <2>3, <2>4 DEF RestInv
  <1>7. CASE RunSettles
    <2>1. job' \in [Jobs -> JobStates] /\ Pending' \subseteq Pending
      <3>1. CASE Take("attached")
        BY <3>1, Taken
      <3>2. CASE UNCHANGED job
        BY <3>2 DEF RestInv, Pending
      <3> QED
        BY <1>7, <3>1, <3>2 DEF RunSettles, HubSettles
    <2>2. interrupted => ~planTimer'
      BY <1>7 DEF RunSettles, PlanSettles, RestInv
    <2> QED
      BY <1>7, <2>1, <2>2 DEF RunSettles, RestInv, auto, user
  <1>8. CASE InterruptRetry
    <2>1. Take("attached")
      BY <1>8 DEF InterruptRetry, HubSettles, RestInv
    <2>2. ~planTimer'
      BY <1>8 DEF InterruptRetry, PlanSettles, RestInv
    <2> QED
      BY <1>8, <2>1, <2>2, Taken DEF InterruptRetry, RestInv
  <1>9. CASE GateOpens \/ GateCloses
    BY <1>9 DEF RestInv, Pending, GateOpens, GateCloses, Triggers, Starts, pi, auto, plans, user
  <1>10. CASE \/ GoalStops \/ StartGoal \/ PlanTool \/ PlanClear
              \/ \E status \in {"active", "complete", "blocked", "paused"} : UpdateGoal(status)
    BY <1>10 DEF RestInv, Pending, GoalStops, StartGoal, PlanTool, PlanClear, UpdateGoal,
         pi, hub, auto, plans, user
  <1> QED
    BY <1>1, <1>2, <1>3, <1>4, <1>5, <1>6, <1>7, <1>8, <1>9, <1>10 DEF Next

LEMMA RestIdle == RestInv /\ UNCHANGED vars => RestInv'
  BY DEF RestInv, Pending, vars, pi, hub, auto, plans, user

\* The action of InterruptHolds.
NoOwnStart ==
  run = "idle" /\ run' = "running" /\ interrupted /\ interrupted'
    => \/ held /\ ~held'
       \/ \E j \in fresh : job[j] = "pending" /\ job'[j] = "told"

LEMMA RestHolds == RestInv /\ [Next]_vars => NoOwnStart
  <1> SUFFICES ASSUME RestInv, [Next]_vars, run = "idle", run' = "running", interrupted, interrupted'
               PROVE  \/ held /\ ~held'
                      \/ \E j \in fresh : job[j] = "pending" /\ job'[j] = "told"
    BY DEF NoOwnStart
  <1>1. CASE FlushIdle
    <2>1. Take("told") /\ ~(Pending \subseteq seen)
      BY <1>1 DEF FlushIdle, pi
    <2>2. PICK j \in Pending : j \notin seen
      BY <2>1
    <2> QED
      BY <2>1, <2>2, Taken DEF RestInv, Pending
  <1>2. CASE GateCloses
    BY <1>2 DEF GateCloses, pi
  <1>3. ~GoalTimer /\ ~PlanTimer
    BY DEF RestInv, GoalTimer, PlanTimer
  <1>4. ~Prompt
    BY DEF Prompt
  <1> QED
    BY <1>1, <1>2, <1>3, <1>4
       DEF Next, vars, pi, SessionStart, SessionShutdown, TakeFollowUps, Retry, Continue, JobEnds, Notify, Observe,
           RunEnds, RunSettles, InterruptRetry, GateOpens, GoalCommand, Kick, GoalStops, StartGoal, UpdateGoal,
           PlanTool, PlanClear

-----------------------------------------------------------------------------
(* The composition: a step of one part leaves the invariants of the others *)

allVars == <<part, vars, planVars, agentVars, intelVars, mcpVars>>

\* goal/index.ts, agent_end, queueGoalPrompt and the gate: while the autopilot is on an
\* idle session has one continuation on its way, and a goal that nobody reactivates is
\* carried at most MaxStalls turns past its budget.
THEOREM GoalIsCarriedOn == PartsSpec => []GoalCarriedOn
  <1>1. PartsInit => GoalInv
    BY GoalInit DEF PartsInit
  <1>2. GoalInv /\ [PartsNext]_allVars => GoalInv'
    BY GoalKept, GoalIdle DEF PartsNext, allVars
  <1> QED
    BY <1>1, <1>2, GoalSound, PTL DEF PartsSpec, allVars

\* agent_end and agent_settled of job-wake, goal and work-plan: after an interrupt no run
\* starts by itself, but for a later outcome and for a continuation that a gate held.
THEOREM InterruptIsKept == PartsSpec => InterruptHolds
  <1>1. PartsInit => RestInv
    BY RestInit DEF PartsInit
  <1>2. RestInv /\ [PartsNext]_allVars => RestInv' /\ [NoOwnStart]_vars
    BY RestKept, RestIdle, RestHolds DEF PartsNext, allVars
  <1> QED
    BY <1>1, <1>2, PTL DEF PartsSpec, allVars, InterruptHolds, NoOwnStart

\* work-plan/index.ts and handoff-state.ts: a plan of any length is accepted by a handoff
\* after any calls in any order, but for the exceptions HandsOver names.
THEOREM PlanIsHandedOver == PartsSpec => []PlanHandsOver
  <1>1. PartsInit => PlanInv
    BY PlanInit DEF PartsInit
  <1>2. PlanInv /\ [PartsNext]_allVars => PlanInv'
    BY PlanKept, PlanIdle DEF PartsNext, allVars, planVars
  <1> QED
    BY <1>1, <1>2, PlanHands, PTL DEF PartsSpec, allVars

\* pi-agent-runner.ts and managed-process.ts: a run that ends as completed has left no
\* process, and any other end tells of a process that may be left.
THEOREM RunIsTruthful == PartsSpec => []RunTruthful
  <1>1. PartsInit => AgentInv
    BY AgentInit DEF PartsInit
  <1>2. AgentInv /\ [PartsNext]_allVars => AgentInv'
    BY AgentKept, AgentIdle DEF PartsNext, allVars
  <1>3. AgentInv => RunTruthful
    BY DEF AgentInv, RunTruthful
  <1> QED
    BY <1>1, <1>2, <1>3, PTL DEF PartsSpec, allVars

\* code-intel/service.ts and mcp-client.ts: an answer that is returned was made from one
\* state of the files, the server is stopped after every query, and the caller's abort
\* and the deadline of a call to the broker win over a late answer.
THEOREM QueriesAreSound == PartsSpec => []QueriesSound
  <1>1. PartsInit => IntelInv /\ McpInv
    BY IntelInit, McpInit DEF PartsInit
  <1>2. IntelInv /\ McpInv /\ [PartsNext]_allVars => IntelInv' /\ McpInv'
    BY IntelKept, IntelIdle, McpKept, McpIdle DEF PartsNext, allVars
  <1>3. IntelInv /\ McpInv => QueriesSound
    BY IntelSound DEF McpInv, QueriesSound
  <1> QED
    BY <1>1, <1>2, <1>3, PTL DEF PartsSpec, allVars

=============================================================================
