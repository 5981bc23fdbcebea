------------------------- MODULE PeerMessagesProofs -------------------------
(***************************************************************************)
(* Proofs about peer messages, for any sessions, messages, restarts and    *)
(* failures.  No message is lost because its copies are made before they   *)
(* are dropped: the invariant that carries this says that a pass which is  *)
(* about to empty an inbox file has the receipt behind it.  At most one    *)
(* reply is published because the claim is written before, and whoever     *)
(* has it is the only one.                                                 *)
(***************************************************************************)
EXTENDS PeerMessages, TLAPS

IsFun(f, S) == f = [x \in S |-> f[x]]

\* What the two results need to know of the types.
Shape ==
  /\ IsFun(send, Sessions) /\ IsFun(work, Sessions) /\ IsFun(box, Messages)
  /\ published \subseteq Messages

\* What is durable, or need not be any more.
Kept == receipt \union disk \union expired

\* A pass that has written a receipt still has it, or the card, behind it.
ReceiptFirst ==
  \A s \in Sessions, m \in Messages :
    work[s].pc \in {"mark", "unbox"} /\ work[s].m = {m} => m \in Kept

\* The resolved runtime of a message that is still to be written is one.
Targeted ==
  \A s \in Sessions : send[s].pc \in {"claim", "enqueue"} => send[s].to # 0

LostInv == Shape /\ Targeted /\ ReceiptFirst /\ NothingLost

\* The reply r is published or about to be.
Holds(r) == r \in published \/ \E s \in Sessions : send[s].pc = "enqueue" /\ send[s].m = {r}

Reply(r) == r \in Replies /\ Parent[r] \in Requests

\* Whoever publishes a reply has claimed it, and is the only one.
ClaimInv ==
  /\ \A r \in Messages : Reply(r) /\ Holds(r) => Parent[r] \in attempted
  /\ \A r, t \in Messages :
       Reply(r) /\ Reply(t) /\ Parent[r] = Parent[t] /\ Holds(r) /\ Holds(t) => r = t

\* What a session has seen, or is about to record as seen, was published and is kept; a
\* session that is off has in memory no more than its file holds.
SeenInv ==
  /\ IsFun(run, Sessions) /\ IsFun(copies, Messages) /\ IsFun(box, Messages)
  /\ \A m \in Messages : box[m] # 0 => m \in published
  /\ receipt \union steerQ \union Shown \subseteq published
  /\ received \subseteq published \cap Kept
  /\ \A s \in Sessions : work[s].left \subseteq published \cap Mine(s)
  /\ \A s \in Sessions : work[s].pc \in {"show", "surface"} => work[s].left \subseteq Kept
  /\ \A s \in Sessions : work[s].pc \in {"mark", "unbox", "surface"} => work[s].m \subseteq published \cap Kept
  /\ \A s \in Sessions : run[s] = "off" => work[s].pc = "idle" /\ Shown \cap Mine(s) \subseteq disk

\* What a sender is about to record is true, and a reply was written to a message that
\* its session has seen.
SenderInv ==
  /\ \A s \in Sessions : send[s].pc \in {"confirm", "replied", "answer"} => send[s].m \subseteq published
  /\ \A s \in Sessions : send[s].pc \in {"replied", "answer"} => send[s].m \subseteq Replies
  /\ \A s \in Sessions : send[s].m \subseteq made
  /\ \A r \in made \cap Replies : Parent[r] \in published \cap Kept

StatusNames == {"none", "pending", "queued", "delivered", "surfaced", "acknowledged", "replied"}

\* Only a message that was composed has a record.
StatusInv ==
  /\ status \in [Messages -> StatusNames]
  /\ \A m \in Messages : status[m] # "none" => m \in made

\* One automatic turn: what has had it, or is about to, has been claimed, and what is
\* about to has not had it yet.
TurnsInv ==
  /\ IsFun(wakes, Messages) /\ IsFun(copies, Messages)
  /\ \A m \in Messages : copies[m] \in {0, 1} /\ wakes[m] \in {0, 1}
  /\ \A m \in Messages : wakes[m] = 1 => m \in woken
  /\ \A s \in Sessions :
       work[s].pc = "wake" => \A m \in work[s].m : m \in Mine(s) /\ m \in woken /\ wakes[m] = 0

\* A pass shows every receipt of its session before it claims turns, and no claim of
\* message_end is under way then.
PassAt(s) ==
  /\ work[s].left \union work[s].m \subseteq Mine(s)
  /\ work[s].pc \in {"show", "surface"} => ReceiptsOf(s) \subseteq work[s].left \union Shown
  /\ work[s].pc = "wake" =>
       ReceiptsOf(s) \subseteq Shown /\ claiming \cap Mine(s) = {} /\ work[s].m \cap consumed = {}

PassInv ==
  /\ IsFun(busy, Sessions)
  /\ \A s \in Sessions : claiming \cap Mine(s) # {} => busy[s]
  /\ \A s \in Sessions : PassAt(s)
  /\ consumed \subseteq Messages \cap (woken \union expired)

-------------------------------------------------------------------------------
(* Every variable is of its type *)

LEMMA ShapeInit == Init => Shape
  BY DEF Init, Shape, IsFun

LEMMA ShapeStep == Shape /\ [Next]_vars => Shape'
  <1> SUFFICES ASSUME Shape, [Next]_vars PROVE Shape'
    OBVIOUS
  <1> USE DEF Shape, IsFun, session, files, history, Fail
  <1>1. ASSUME NEW m \in Messages, Expire(m) PROVE Shape'
    BY <1>1 DEF Expire
  <1>2. CASE UNCHANGED vars
    BY <1>2 DEF vars
  <1>3. ASSUME NEW s \in Sessions, SessionStep(s) PROVE Shape'
    <2>1. CASE SendStep(s)
      <3> PICK m \in Messages : \/ Claim(s, m) \/ Enqueue(s, m) \/ SendFail(s, m)
                                \/ Confirm(s, m) \/ Replied(s, m) \/ Answer(s, m)
        BY <2>1 DEF SendStep
      <3>1. CASE Claim(s, m)
        BY <3>1 DEF Claim, SendAt
      <3>2. CASE Enqueue(s, m)
        BY <3>2 DEF Enqueue, SendAt
      <3>3. CASE SendFail(s, m) \/ Answer(s, m)
        BY <3>3 DEF SendFail, Answer, SendOver
      <3>4. CASE Confirm(s, m) \/ Replied(s, m)
        BY <3>4 DEF Confirm, Replied, SendAt, SendOver
      <3> QED
        BY <3>1, <3>2, <3>3, <3>4
    <2>2. CASE WorkStep(s)
      <3> USE DEF WorkAt, At, Idle
      <3>1. CASE EndTake(s) \/ Steer(s) \/ EndShow(s) \/ SendWake(s) \/ Clean(s)
        BY <3>1 DEF EndTake, Steer, EndShow, SendWake, Clean, Discard, ReceiptsOf, Durable, Mine
      <3>2. ASSUME NEW m \in Messages,
                   \/ Take(s, m) \/ Mark(s, m) \/ Unbox(s, m)
                   \/ Show(s, m) \/ Surface(s, m) \/ ClaimWake(s, m)
            PROVE Shape'
        BY <3>2 DEF Take, Receive, Mark, Unbox, Show, Surface, ClaimWake
      <3> QED
        BY <2>2, <3>1, <3>2 DEF WorkStep
    <2>3. CASE Poll(s) \/ Withdraw(s)
      BY <2>3 DEF Poll, Discard, Withdraw, WorkAt, At, InBox, Mine, DropExpired
    <2>4. CASE StartTurn(s) \/ Settle(s) \/ ClearQueue(s) \/ Flush(s) \/ Close(s)
      BY <2>4 DEF StartTurn, Settle, ClearQueue, Flush, Close
    <2>5. CASE Start(s)
      BY <2>5 DEF Start, Announce, Discard
    <2>6. CASE Stop(s) \/ Crash(s)
      BY <2>6 DEF Stop, Crash, Forget, Idle
    <2>7. ASSUME NEW m \in Messages,
                 Compose(s, m) \/ Acknowledge(s, m) \/ Consume(s, m) \/ ClaimSeen(s, m)
          PROVE Shape'
      <3>2. CASE Compose(s, m)
        BY <3>2 DEF Compose, Track, Live
      <3>3. CASE Acknowledge(s, m) \/ Consume(s, m) \/ ClaimSeen(s, m)
        BY <3>3 DEF Acknowledge, Consume, ClaimSeen
      <3> QED
        BY <2>7, <3>2, <3>3
    <2> QED
      BY <1>3, <2>1, <2>2, <2>3, <2>4, <2>5, <2>6, <2>7 DEF SessionStep
  <1> QED
    BY <1>1, <1>2, <1>3 DEF Next

-------------------------------------------------------------------------------
(* No message is lost *)

LEMMA LostInit == Init => LostInv
  <1> SUFFICES ASSUME Init PROVE LostInv
    OBVIOUS
  <1>1. Shape
    BY ShapeInit
  <1>2. Targeted /\ ReceiptFirst /\ NothingLost
    BY DEF Init, Targeted, ReceiptFirst, NothingLost, Idle
  <1> QED
    BY <1>1, <1>2 DEF LostInv

\* A message that is kept stays kept.
LEMMA KeptGrows == [Next]_vars => Kept \subseteq Kept'
  <1> SUFFICES ASSUME [Next]_vars PROVE Kept \subseteq Kept'
    OBVIOUS
  <1> USE DEF Kept, session, files, history
  <1>1. ASSUME NEW m \in Messages, Expire(m) PROVE Kept \subseteq Kept'
    BY <1>1 DEF Expire
  <1>2. CASE UNCHANGED vars
    BY <1>2 DEF vars
  <1>3. ASSUME NEW s \in Sessions, SessionStep(s) PROVE Kept \subseteq Kept'
    <2>1. CASE SendStep(s)
      BY <2>1 DEF SendStep, Claim, Enqueue, SendFail, Confirm, Replied, Answer
    <2>2. CASE WorkStep(s)
      BY <2>2 DEF WorkStep, EndTake, Steer, EndShow, SendWake, Clean, Discard, ReceiptsOf,
         Durable, Take, Receive, Mark, Unbox, Show,
                  Surface, ClaimWake
    <2>3. CASE Poll(s) \/ Withdraw(s) \/ Start(s) \/ Stop(s) \/ Crash(s) \/ Flush(s)
      BY <2>3 DEF Poll, Discard, Withdraw, Start, Announce, Stop, Crash, Flush
    <2>4. CASE StartTurn(s) \/ Settle(s) \/ ClearQueue(s) \/ Close(s)
      BY <2>4 DEF StartTurn, Settle, ClearQueue, Close
    <2>5. ASSUME NEW m \in Messages,
                 Compose(s, m) \/ Acknowledge(s, m) \/ Consume(s, m) \/ ClaimSeen(s, m)
          PROVE Kept \subseteq Kept'
      BY <2>5 DEF Compose, Track, Live, Acknowledge, Consume, ClaimSeen
    <2> QED
      BY <1>3, <2>1, <2>2, <2>3, <2>4, <2>5 DEF SessionStep
  <1> QED
    BY <1>1, <1>2, <1>3 DEF Next

\* The three parts of the invariant, after a step that keeps what is kept.
LEMMA TargetedStep ==
  ASSUME Shape, Targeted, NEW s \in Sessions,
         \/ send' = send
         \/ \E pc, m, to : /\ send' = [send EXCEPT ![s] = [pc |-> pc, m |-> m, to |-> to]]
                           /\ pc \in {"claim", "enqueue"} => to # 0
  PROVE  Targeted'
  <1>1. CASE send' = send
    BY <1>1 DEF Targeted
  <1>2. CASE send' # send
    <2>1. PICK pc, m, to : /\ send' = [send EXCEPT ![s] = [pc |-> pc, m |-> m, to |-> to]]
                           /\ pc \in {"claim", "enqueue"} => to # 0
      BY <1>2
    <2>2. send'[s].pc = pc /\ send'[s].to = to
      BY <2>1 DEF Shape, IsFun
    <2>3. \A t \in Sessions : t # s => send'[t] = send[t]
      BY <2>1 DEF Shape, IsFun
    <2> QED
      BY <2>1, <2>2, <2>3 DEF Targeted
  <1> QED
    BY <1>1, <1>2

LEMMA ReceiptStep ==
  ASSUME Shape, ReceiptFirst, Kept \subseteq Kept', NEW s \in Sessions,
         \/ work' = work
         \/ \E pc, left, m : /\ work' = [work EXCEPT ![s] = At(pc, left, m)]
                             /\ pc \in {"mark", "unbox"} => m \subseteq Kept'
  PROVE  ReceiptFirst'
  <1>1. CASE work' = work
    BY <1>1 DEF ReceiptFirst
  <1>2. CASE work' # work
    <2>1. PICK pc, left, m : /\ work' = [work EXCEPT ![s] = At(pc, left, m)]
                             /\ pc \in {"mark", "unbox"} => m \subseteq Kept'
      BY <1>2
    <2>2. work'[s].pc = pc /\ work'[s].m = m
      BY <2>1 DEF Shape, IsFun, At
    <2>3. \A t \in Sessions : t # s => work'[t] = work[t]
      BY <2>1 DEF Shape, IsFun
    <2> QED
      BY <2>1, <2>2, <2>3 DEF ReceiptFirst
  <1> QED
    BY <1>1, <1>2

LEMMA PublishedStep ==
  ASSUME Shape, NothingLost, Kept \subseteq Kept',
         \A x \in Messages : x \in published' => x \in published \/ box'[x] # 0,
         \A x \in Messages : box'[x] # box[x] => box'[x] # 0 \/ x \in Kept',
         published' \subseteq Messages
  PROVE  NothingLost'
  BY DEF NothingLost, Shape, Kept

LEMMA LostStep == LostInv /\ [Next]_vars => LostInv'
  <1> SUFFICES ASSUME LostInv, [Next]_vars PROVE LostInv'
    OBVIOUS
  <1>0. /\ Shape /\ Shape' /\ Kept \subseteq Kept'
        /\ Targeted /\ ReceiptFirst /\ NothingLost
        /\ published \subseteq Messages /\ published' \subseteq Messages
    BY ShapeStep, KeptGrows DEF LostInv, Shape
  <1> USE <1>0 DEF session, files, history
  <1> SUFFICES Targeted' /\ ReceiptFirst' /\ NothingLost'
    BY DEF LostInv
  <1>1. ASSUME NEW m \in Messages, Expire(m) PROVE Targeted' /\ ReceiptFirst' /\ NothingLost'
    <2>1. UNCHANGED <<send, work, box, published>>
      BY <1>1 DEF Expire
    <2> QED
      BY <2>1, PublishedStep DEF Targeted, ReceiptFirst
  <1>2. CASE UNCHANGED vars
    BY <1>2 DEF vars, Targeted, ReceiptFirst, NothingLost
  <1>3. ASSUME NEW s \in Sessions, SessionStep(s) PROVE Targeted' /\ ReceiptFirst' /\ NothingLost'
    <2>1. CASE SendStep(s)
      <3> PICK m \in Messages : \/ Claim(s, m) \/ Enqueue(s, m) \/ SendFail(s, m)
                                \/ Confirm(s, m) \/ Replied(s, m) \/ Answer(s, m)
        BY <2>1 DEF SendStep
      <3>1. work' = work
        BY DEF Claim, Enqueue, SendFail, Confirm, Replied, Answer
      <3>2. CASE ~Enqueue(s, m)
        <4>1. UNCHANGED <<box, published>>
          BY <3>2 DEF Claim, SendFail, Confirm, Replied, Answer
        <4>2. ASSUME NEW pc, SendAt(s, pc), pc = "enqueue" => send[s].to # 0, pc # "claim"
              PROVE  Targeted'
          BY <4>2 DEF SendAt, Targeted, Shape, IsFun
        <4>3. SendOver(s) => Targeted'
          BY DEF SendOver, Targeted, Shape, IsFun
        <4>4. Claim(s, m) => send[s].to # 0
          BY DEF Claim, Targeted
        <4>5. Targeted'
          BY <3>2, <4>2, <4>3, <4>4 DEF Claim, SendFail, Confirm, Replied, Answer
        <4> QED
          BY <3>1, <4>1, <4>5, ReceiptStep, PublishedStep
      <3>3. CASE Enqueue(s, m)
        <4>1. Targeted'
          BY <3>3, TargetedStep DEF Enqueue, SendAt
        <4>2. send[s].to # 0
          BY <3>3 DEF Enqueue, Targeted
        <4>3. NothingLost'
          BY <3>3, <4>2, PublishedStep DEF Enqueue, Shape, IsFun
        <4> QED
          BY <3>1, <4>1, <4>3, ReceiptStep
      <3> QED
        BY <3>2, <3>3
    <2>2. CASE WorkStep(s)
      <3>1. UNCHANGED <<send, published>>
        BY <2>2 DEF WorkStep, EndTake, Steer, EndShow, SendWake, Clean, Discard,
           ReceiptsOf, Durable, Take, Receive, Mark, Unbox, Show,
                    Surface, ClaimWake
      <3>2. Targeted'
        BY <3>1, TargetedStep
      <3> USE DEF WorkAt, Idle
      <3>3. CASE EndTake(s) \/ Steer(s) \/ EndShow(s) \/ SendWake(s) \/ Clean(s)
        <4>1. box' = box
          BY <3>3 DEF EndTake, Steer, EndShow, SendWake, Clean, Discard, ReceiptsOf, Durable
        <4>2. \E pc, left, m : work' = [work EXCEPT ![s] = At(pc, left, m)]
                                 /\ pc \notin {"mark", "unbox"}
          BY <3>3 DEF EndTake, Steer, EndShow, SendWake, Clean, Discard, ReceiptsOf, Durable, At
        <4> QED
          BY <3>1, <3>2, <4>1, <4>2, ReceiptStep, PublishedStep
      <3>4. ASSUME NEW m \in Messages, Take(s, m) PROVE ReceiptFirst' /\ NothingLost'
        <4>1. box' = box
          BY <3>4 DEF Take, Receive
        <4>2. work' = [work EXCEPT ![s] = At("mark", work[s].left \ {m}, {m})] => m \in Kept'
          <5> SUFFICES ASSUME m \notin receipt',
                              work' = [work EXCEPT ![s] = At("mark", work[s].left \ {m}, {m})]
                       PROVE FALSE
            BY DEF Kept
          <5>1. work'[s].pc = "take"
            BY <3>4 DEF Take, Receive, At, Shape, IsFun
          <5> QED
            BY <5>1 DEF At, Shape, IsFun
        <4>3. ReceiptFirst'
          BY <3>4, <4>2, ReceiptStep DEF Take, Receive
        <4> QED
          BY <3>1, <4>1, <4>3, PublishedStep
      <3>5. ASSUME NEW m \in Messages, Mark(s, m) PROVE ReceiptFirst' /\ NothingLost'
        <4>1. box' = box
          BY <3>5 DEF Mark
        <4>2. m \in Kept
          BY <3>5 DEF Mark, ReceiptFirst
        <4>3. ReceiptFirst'
          BY <3>5, <4>2, ReceiptStep DEF Mark
        <4> QED
          BY <3>1, <4>1, <4>3, PublishedStep
      <3>6. ASSUME NEW m \in Messages, Unbox(s, m) PROVE ReceiptFirst' /\ NothingLost'
        <4>1. m \in Kept
          BY <3>6 DEF Unbox, ReceiptFirst
        <4>2. \A x \in Messages : box'[x] # box[x] => x = m
          BY <3>6 DEF Unbox, Shape, IsFun
        <4>3. work' = [work EXCEPT ![s] = At("take", work[s].left, {})]
          BY <3>6 DEF Unbox
        <4>4. ReceiptFirst'
          BY <4>3 DEF At, ReceiptFirst, Shape, IsFun
        <4> QED
          BY <3>1, <4>1, <4>2, <4>4, PublishedStep
      <3>7. ASSUME NEW m \in Messages, Show(s, m) \/ Surface(s, m) \/ ClaimWake(s, m)
            PROVE ReceiptFirst' /\ NothingLost'
        <4>1. box' = box
          BY <3>7 DEF Show, Surface, ClaimWake
        <4>2. \E pc, left, b : work' = [work EXCEPT ![s] = At(pc, left, b)]
                                 /\ pc \notin {"mark", "unbox"}
          BY <3>7 DEF Show, Surface, ClaimWake, At
        <4> QED
          BY <3>1, <4>1, <4>2, ReceiptStep, PublishedStep
      <3> QED
        BY <2>2, <3>2, <3>3, <3>4, <3>5, <3>6, <3>7 DEF WorkStep
    <2>3. CASE Poll(s) \/ Withdraw(s)
      <3>1. UNCHANGED <<send, published>>
        BY <2>3 DEF Poll, Discard, Withdraw
      <3>2. \A x \in Messages : box'[x] # box[x] => x \in expired
        BY <2>3 DEF Poll, Discard, Withdraw, DropExpired
      <3>3. ReceiptFirst'
        BY <2>3, ReceiptStep DEF Poll, Discard, Withdraw, WorkAt
      <3> QED
        BY <3>1, <3>2, <3>3, TargetedStep, PublishedStep DEF Kept
    <2>4. CASE Start(s) \/ StartTurn(s) \/ Settle(s) \/ ClearQueue(s) \/ Flush(s) \/ Close(s)
      <3>1. UNCHANGED <<send, work, box, published>>
        BY <2>4 DEF Start, Announce, Discard, StartTurn, Settle, ClearQueue, Flush, Close
      <3> QED
        BY <3>1, TargetedStep, ReceiptStep, PublishedStep
    <2>5. CASE Stop(s) \/ Crash(s)
      <3>1. UNCHANGED <<box, published>>
        BY <2>5 DEF Stop, Crash
      <3>2. Targeted'
        BY <2>5, TargetedStep DEF Stop, Crash, Forget
      <3>3. ReceiptFirst'
        <4>1. work' = work \/ work' = [work EXCEPT ![s] = At("idle", {}, {})]
          BY <2>5 DEF Stop, Crash, Forget, Idle, At
        <4> QED
          BY <4>1, ReceiptStep
      <3> QED
        BY <3>1, <3>2, <3>3, PublishedStep
    <2>6. ASSUME NEW m \in Messages, Compose(s, m) PROVE Targeted' /\ ReceiptFirst' /\ NothingLost'
      <3>1. UNCHANGED <<work, box, published>>
        BY <2>6 DEF Compose, Track, Live
      <3>2. Targeted'
        BY <2>6, TargetedStep DEF Compose, Track, Live
      <3> QED
        BY <3>1, <3>2, ReceiptStep, PublishedStep
    <2>7. ASSUME NEW m \in Messages, Acknowledge(s, m) \/ Consume(s, m) \/ ClaimSeen(s, m)
          PROVE Targeted' /\ ReceiptFirst' /\ NothingLost'
      <3>1. UNCHANGED <<send, work, box, published>>
        BY <2>7 DEF Acknowledge, Consume, ClaimSeen
      <3> QED
        BY <3>1, TargetedStep, ReceiptStep, PublishedStep
    <2> QED
      BY <1>3, <2>1, <2>2, <2>3, <2>4, <2>5, <2>6, <2>7 DEF SessionStep
  <1> QED
    BY <1>1, <1>2, <1>3 DEF Next

\* NothingLost for every instance: from its publication until it expires a message is in
\* an inbox, a receipt or the session file (persistReceipt before removeInboxItem,
\* durableSessionMessageIds before removeSessionReceipt).
THEOREM NothingIsLost == Spec => []NothingLost
  <1>1. LostInv => NothingLost
    BY DEF LostInv
  <1> QED
    BY LostInit, LostStep, <1>1, PTL DEF Spec

-------------------------------------------------------------------------------
(* At most one reply *)

LEMMA ClaimInit == Init => ClaimInv
  BY DEF Init, ClaimInv, Holds

\* Steps after which nobody holds a reply who did not before.
LEMMA ClaimQuiet ==
  ASSUME ClaimInv, attempted \subseteq attempted',
         \A r \in Messages : Reply(r) /\ Holds(r)' => Holds(r)
  PROVE  ClaimInv'
  BY DEF ClaimInv, Reply

LEMMA ClaimStep == Shape /\ ClaimInv /\ [Next]_vars => ClaimInv'
  <1> SUFFICES ASSUME Shape, ClaimInv, [Next]_vars PROVE ClaimInv'
    OBVIOUS
  <1> USE DEF session, files, history
  <1>0. ASSUME UNCHANGED <<send, published, attempted>> PROVE ClaimInv'
    BY <1>0, ClaimQuiet DEF Holds
  <1>1. ASSUME NEW m \in Messages, Expire(m) PROVE ClaimInv'
    BY <1>0, <1>1 DEF Expire
  <1>2. CASE UNCHANGED vars
    BY <1>0, <1>2 DEF vars
  <1>3. ASSUME NEW s \in Sessions, SessionStep(s) PROVE ClaimInv'
    <2>1. CASE SendStep(s)
      <3> PICK m \in Messages : \/ Claim(s, m) \/ Enqueue(s, m) \/ SendFail(s, m)
                                \/ Confirm(s, m) \/ Replied(s, m) \/ Answer(s, m)
        BY <2>1 DEF SendStep
      <3> USE DEF Shape, IsFun
      <3>1. CASE Claim(s, m) /\ Parent[m] \in attempted \union expired
        BY <3>1, ClaimQuiet DEF Claim, SendAt, Holds
      <3>2. CASE Claim(s, m) /\ Parent[m] \notin attempted \union expired
        <4>1. attempted' = attempted \union {Parent[m]} /\ published' = published
          BY <3>2 DEF Claim
        <4>2. \A r \in Messages : Holds(r)' => Holds(r) \/ r = m
          BY <3>2 DEF Claim, SendAt, Holds
        <4>3. \A r \in Messages : Reply(r) /\ Holds(r) => Parent[r] # Parent[m]
          BY <3>2 DEF ClaimInv
        <4> QED
          BY <4>1, <4>2, <4>3 DEF ClaimInv, Reply
      <3>3. CASE Enqueue(s, m)
        <4>1. Holds(m)
          BY <3>3 DEF Enqueue, Holds
        <4> QED
          BY <3>3, <4>1, ClaimQuiet DEF Enqueue, SendAt, Holds
      <3>4. CASE SendFail(s, m) \/ Answer(s, m)
        BY <3>4, ClaimQuiet DEF SendFail, Answer, SendOver, Holds
      <3>5. CASE Confirm(s, m) \/ Replied(s, m)
        BY <3>5, ClaimQuiet DEF Confirm, Replied, SendAt, SendOver, Holds
      <3> QED
        BY <3>1, <3>2, <3>3, <3>4, <3>5
    <2>2. CASE WorkStep(s)
      BY <1>0, <2>2 DEF WorkStep, EndTake, Steer, EndShow, SendWake, Clean, Discard,
         ReceiptsOf, Durable, Take, Receive, Mark, Unbox, Show,
                        Surface, ClaimWake
    <2>3. CASE Poll(s) \/ Withdraw(s) \/ Start(s) \/ Flush(s)
      BY <1>0, <2>3 DEF Poll, Discard, Withdraw, Start, Announce, Flush
    <2>4. CASE StartTurn(s) \/ Settle(s) \/ ClearQueue(s) \/ Close(s)
      BY <1>0, <2>4 DEF StartTurn, Settle, ClearQueue, Close
    <2>5. CASE Stop(s) \/ Crash(s)
      BY <2>5, ClaimQuiet DEF Stop, Crash, Forget, Holds, Shape, IsFun
    <2>6. ASSUME NEW m \in Messages, Compose(s, m) PROVE ClaimInv'
      BY <2>6, ClaimQuiet DEF Compose, Track, Live, Holds, Reply, Shape, IsFun
    <2>7. ASSUME NEW m \in Messages, Acknowledge(s, m) \/ Consume(s, m) \/ ClaimSeen(s, m)
          PROVE ClaimInv'
      BY <1>0, <2>7 DEF Acknowledge, Consume, ClaimSeen
    <2> QED
      BY <1>3, <2>1, <2>2, <2>3, <2>4, <2>5, <2>6, <2>7 DEF SessionStep
  <1> QED
    BY <1>1, <1>2, <1>3 DEF Next

\* AtMostOneReply for every instance: claimRequestReply comes before the publication,
\* and an attempt is never given back.
THEOREM OneReply == Spec => []AtMostOneReply
  <1>1. Shape /\ ClaimInv => AtMostOneReply
    BY DEF ClaimInv, AtMostOneReply, Holds, Reply, Replies
  <1> QED
    BY ShapeInit, ShapeStep, ClaimInit, ClaimStep, <1>1, PTL DEF Spec

-------------------------------------------------------------------------------
(* What has been seen is published and kept *)

\* What the history records stays recorded.
LEMMA Grows ==
  [Next]_vars => made \subseteq made' /\ published \subseteq published' /\ woken \subseteq woken' /\ expired \subseteq expired'
  <1> SUFFICES ASSUME [Next]_vars
               PROVE  made \subseteq made' /\ published \subseteq published' /\ woken \subseteq woken' /\ expired \subseteq expired'
    OBVIOUS
  <1> USE DEF session, files, history
  <1>1. ASSUME NEW m \in Messages, Expire(m) PROVE made' = made /\ published' = published /\ woken' = woken /\ expired \subseteq expired'
    BY <1>1 DEF Expire
  <1>2. CASE UNCHANGED vars
    BY <1>2 DEF vars
  <1>3. ASSUME NEW s \in Sessions, SessionStep(s)
        PROVE  made \subseteq made' /\ published \subseteq published' /\ woken \subseteq woken' /\ expired' = expired
    <2>1. CASE SendStep(s)
      BY <2>1 DEF SendStep, Claim, Enqueue, SendFail, Confirm, Replied, Answer
    <2>2. CASE WorkStep(s)
      BY <2>2 DEF WorkStep, EndTake, Steer, EndShow, SendWake, Clean, Take, Mark, Unbox, Show, Surface, ClaimWake
    <2>3. CASE Poll(s) \/ Withdraw(s) \/ Start(s) \/ Stop(s) \/ Crash(s) \/ Flush(s)
      BY <2>3 DEF Poll, Withdraw, Start, Stop, Crash, Flush
    <2>4. CASE StartTurn(s) \/ Settle(s) \/ ClearQueue(s) \/ Close(s)
      BY <2>4 DEF StartTurn, Settle, ClearQueue, Close
    <2>5. ASSUME NEW m \in Messages, Compose(s, m) \/ Acknowledge(s, m) \/ Consume(s, m) \/ ClaimSeen(s, m)
          PROVE made \subseteq made' /\ published \subseteq published' /\ woken \subseteq woken' /\ expired' = expired
      BY <2>5 DEF Compose, Acknowledge, Consume, ClaimSeen
    <2> QED
      BY <1>3, <2>1, <2>2, <2>3, <2>4, <2>5 DEF SessionStep
  <1> QED
    BY <1>1, <1>2, <1>3 DEF Next

LEMMA SeenInit == Init => SeenInv
  BY DEF Init, SeenInv, IsFun, Shown, Idle, Mine

LEMMA SeenStep == Shape /\ SeenInv /\ [Next]_vars => SeenInv'
  <1> SUFFICES ASSUME Shape, SeenInv, [Next]_vars PROVE SeenInv'
    OBVIOUS
  <1>0. Kept \subseteq Kept' /\ published \subseteq published' /\ published' \subseteq Messages
    BY KeptGrows, Grows, ShapeStep DEF Shape
  <1> USE <1>0 DEF session, files, history, Shape, IsFun, WorkAt, At, Idle, Fail
  <1>1. ASSUME NEW m \in Messages, Expire(m) PROVE SeenInv'
    BY <1>1 DEF Expire, SeenInv, Shown
  <1>2. CASE UNCHANGED vars
    BY <1>2 DEF vars, SeenInv, Shown
  <1>3. ASSUME NEW s \in Sessions, SessionStep(s) PROVE SeenInv'
    <2>1. CASE SendStep(s)
      <3> PICK m \in Messages : \/ Claim(s, m) \/ Enqueue(s, m) \/ SendFail(s, m)
                                \/ Confirm(s, m) \/ Replied(s, m) \/ Answer(s, m)
        BY <2>1 DEF SendStep
      <3>1. CASE Enqueue(s, m)
        BY <3>1 DEF Enqueue, SeenInv, Shown, SendAt
      <3>2. CASE ~Enqueue(s, m)
        <4>1. UNCHANGED <<run, copies, box, receipt, steerQ, received, work, disk>>
          BY <3>2 DEF Claim, SendFail, Confirm, Replied, Answer
        <4> QED
          BY <4>1 DEF SeenInv, Shown
      <3> QED
        BY <3>1, <3>2
    <2>2. CASE WorkStep(s)
      <3>1. CASE EndTake(s)
        BY <3>1 DEF EndTake, SeenInv, Shown, ReceiptsOf, Mine, Kept
      <3>2. CASE Steer(s)
        BY <3>2 DEF Steer, SeenInv, Shown
      <3>3. CASE EndShow(s)
        BY <3>3 DEF EndShow, SeenInv, Shown
      <3>4. CASE SendWake(s)
        BY <3>4 DEF SendWake, SeenInv, Shown
      <3>5. CASE Clean(s)
        BY <3>5 DEF Clean, Discard, SeenInv, Shown
      <3>6. ASSUME NEW m \in Messages, Take(s, m) PROVE SeenInv'
        <4>1. UNCHANGED <<run, copies, box, steerQ, received, disk, expired, published>>
          BY <3>6 DEF Take
        <4>2. m \in published /\ receipt \subseteq receipt' /\ receipt' \subseteq receipt \union {m}
          BY <3>6 DEF Take, Receive, SeenInv
        <4>3. /\ work'[s].left \subseteq work[s].left
              /\ \/ work'[s].pc = "mark" /\ work'[s].m = {m} /\ m \in receipt'
                 \/ work'[s].pc = "take"
          BY <3>6 DEF Take, Receive
        <4>4. \A t \in Sessions : t # s => work'[t] = work[t]
          BY <3>6 DEF Take
        <4>5. Shown' = Shown
          BY <4>1 DEF Shown
        <4>6. run[s] # "off"
          BY <3>6 DEF Take, SeenInv
        <4>7. \A t \in Sessions : work'[t].left \subseteq published \cap Mine(t)
          BY <4>3, <4>4 DEF SeenInv
        <4>8. \A t \in Sessions : work'[t].pc \in {"mark", "unbox", "surface"} => work'[t].m \subseteq published \cap Kept'
          BY <4>2, <4>3, <4>4 DEF SeenInv, Kept
        <4> QED
          BY <4>1, <4>2, <4>3, <4>4, <4>5, <4>6, <4>7, <4>8 DEF SeenInv
      <3>7. ASSUME NEW m \in Messages, Mark(s, m) PROVE SeenInv'
        BY <3>7 DEF Mark, SeenInv, Shown
      <3>8. ASSUME NEW m \in Messages, Unbox(s, m) PROVE SeenInv'
        BY <3>8 DEF Unbox, SeenInv, Shown
      <3>9. ASSUME NEW m \in Messages, Show(s, m) PROVE SeenInv'
        <4>1. UNCHANGED <<run, box, steerQ, disk, published>> /\ receipt' \subseteq receipt
          BY <3>9 DEF Show, Discard
        <4>2. m \in published /\ m \in Kept
          BY <3>9 DEF Show, SeenInv
        <4>3. received' \subseteq received \union {m}
          BY <3>9 DEF Show
        <4>4. /\ work'[s].left \subseteq work[s].left
              /\ work'[s].pc \in {"show", "surface", "idle"} /\ work'[s].m \subseteq {m}
          BY <3>9 DEF Show
        <4>5. \A t \in Sessions : t # s => work'[t] = work[t]
          BY <3>9 DEF Show
        <4>6. Shown' \subseteq Shown \union {m}
          BY <3>9 DEF Show, Shown, SeenInv
        <4>7. run[s] # "off" /\ To[m] = s
          BY <3>9 DEF Show, SeenInv, Mine
        <4>8. copies' = [x \in Messages |-> copies'[x]]
          BY <3>9 DEF Show, SeenInv
        <4>9. \A t \in Sessions : work'[t].left \subseteq published \cap Mine(t)
          BY <4>4, <4>5 DEF SeenInv
        <4>10. \A t \in Sessions : run[t] = "off" => work'[t].pc = "idle" /\ Shown' \cap Mine(t) \subseteq disk
          BY <4>5, <4>6, <4>7 DEF SeenInv, Mine
        <4>11. received' \subseteq published \cap Kept'
          BY <4>2, <4>3 DEF SeenInv
        <4>12. \A t \in Sessions : work'[t].pc \in {"show", "surface"} => work'[t].left \subseteq Kept'
          BY <3>9, <4>4, <4>5 DEF SeenInv, Show
        <4>13. \A t \in Sessions : work'[t].pc \in {"mark", "unbox", "surface"} => work'[t].m \subseteq published \cap Kept'
          BY <4>2, <4>4, <4>5 DEF SeenInv
        <4>14. receipt' \union steerQ' \union Shown' \subseteq published
          BY <4>1, <4>2, <4>6 DEF SeenInv
        <4> QED
          BY <4>1, <4>8, <4>9, <4>10, <4>11, <4>12, <4>13, <4>14 DEF SeenInv
      <3>10. ASSUME NEW m \in Messages, Surface(s, m) PROVE SeenInv'
        BY <3>10 DEF Surface, SeenInv, Shown
      <3>11. ASSUME NEW m \in Messages, ClaimWake(s, m) PROVE SeenInv'
        BY <3>11 DEF ClaimWake, SeenInv, Shown
      <3> QED
        BY <2>2, <3>1, <3>2, <3>3, <3>4, <3>5, <3>6, <3>7, <3>8, <3>9, <3>10, <3>11 DEF WorkStep
    <2>3. CASE Poll(s)
      BY <2>3 DEF Poll, Discard, DropExpired, InBox, SeenInv, Shown, Mine
    <2>4. CASE Withdraw(s)
      BY <2>4 DEF Withdraw, InBox, SeenInv, Shown, Mine
    <2>5. CASE StartTurn(s) \/ Settle(s) \/ ClearQueue(s) \/ Close(s)
      BY <2>5 DEF StartTurn, Settle, ClearQueue, Close, SeenInv, Shown
    <2>6. CASE Flush(s)
      BY <2>6 DEF Flush, SeenInv, Shown
    <2>7. CASE Start(s)
      BY <2>7 DEF Start, Announce, Discard, SeenInv, Shown, Kept
    <2>8. CASE Stop(s) \/ Crash(s)
      <3>1. UNCHANGED <<box, receipt, disk, published>> /\ steerQ' \subseteq steerQ /\ received' \subseteq received
        BY <2>8 DEF Stop, Crash, Forget
      <3>2. run' = [run EXCEPT ![s] = "off"] /\ work' = [work EXCEPT ![s] = Idle]
        BY <2>8 DEF Stop, Crash, Forget
      <3>3. copies' = [m \in Messages |-> IF m \in Mine(s) \ disk THEN 0 ELSE copies[m]]
        BY <2>8 DEF Stop, Crash, Forget
      <3>4. Shown' \subseteq Shown /\ Shown' \cap Mine(s) \subseteq disk
        BY <3>3 DEF Shown
      <3> QED
        BY <3>1, <3>2, <3>3, <3>4 DEF SeenInv
    <2>9. ASSUME NEW m \in Messages, Compose(s, m) \/ Acknowledge(s, m) \/ ClaimSeen(s, m) PROVE SeenInv'
      <3>1. UNCHANGED <<run, copies, box, receipt, steerQ, received, work, disk>>
        BY <2>9 DEF Compose, Acknowledge, ClaimSeen
      <3> QED
        BY <3>1 DEF SeenInv, Shown
    <2>10. ASSUME NEW m \in Messages, Consume(s, m) PROVE SeenInv'
      <3>1. UNCHANGED <<run, box, receipt, work, disk, published>> /\ steerQ' \subseteq steerQ
        BY <2>10 DEF Consume
      <3>2. m \in steerQ /\ run[s] = "on" /\ To[m] = s
        BY <2>10 DEF Consume, Mine
      <3>3. received' \subseteq received \union (receipt \cap {m})
        BY <2>10 DEF Consume
      <3>4. Shown' \subseteq Shown \union {m} /\ copies' = [x \in Messages |-> copies'[x]]
        BY <2>10 DEF Consume, Shown, SeenInv
      <3>5. \A t \in Sessions : run[t] = "off" => Shown' \cap Mine(t) \subseteq disk
        BY <3>2, <3>4 DEF SeenInv, Mine
      <3>6. received' \subseteq published \cap Kept'
        BY <3>2, <3>3 DEF SeenInv, Kept
      <3> QED
        BY <3>1, <3>2, <3>4, <3>5, <3>6 DEF SeenInv
    <2> QED
      BY <1>3, <2>1, <2>2, <2>3, <2>4, <2>5, <2>6, <2>7, <2>8, <2>9, <2>10 DEF SessionStep
  <1> QED
    BY <1>1, <1>2, <1>3 DEF Next

LEMMA SenderInit == Init => SenderInv
  BY DEF Init, SenderInv

LEMMA SenderStep == Shape /\ SeenInv /\ SenderInv /\ [Next]_vars => SenderInv'
  <1> SUFFICES ASSUME Shape, SeenInv, SenderInv, [Next]_vars PROVE SenderInv'
    OBVIOUS
  <1>0. Kept \subseteq Kept' /\ published \subseteq published' /\ made \subseteq made'
    BY KeptGrows, Grows
  <1> USE <1>0 DEF session, files, history, Shape, IsFun
  <1>q. ASSUME UNCHANGED <<send, made>> PROVE SenderInv'
    BY <1>q DEF SenderInv
  <1>1. ASSUME NEW m \in Messages, Expire(m) PROVE SenderInv'
    BY <1>q, <1>1 DEF Expire
  <1>2. CASE UNCHANGED vars
    BY <1>q, <1>2 DEF vars
  <1>3. ASSUME NEW s \in Sessions, SessionStep(s) PROVE SenderInv'
    <2>1. CASE SendStep(s)
      <3> PICK m \in Messages : \/ Claim(s, m) \/ Enqueue(s, m) \/ SendFail(s, m)
                                \/ Confirm(s, m) \/ Replied(s, m) \/ Answer(s, m)
        BY <2>1 DEF SendStep
      <3>1. made' = made
        BY DEF Claim, Enqueue, SendFail, Confirm, Replied, Answer
      <3>2. CASE Claim(s, m)
        BY <3>1, <3>2 DEF Claim, SendAt, SenderInv
      <3>3. CASE Enqueue(s, m)
        BY <3>1, <3>3 DEF Enqueue, SendAt, SenderInv
      <3>4. CASE SendFail(s, m) \/ Answer(s, m)
        BY <3>1, <3>4 DEF SendFail, Answer, SendOver, SenderInv
      <3>5. CASE Confirm(s, m)
        BY <3>1, <3>5 DEF Confirm, SendAt, SendOver, SenderInv
      <3>6. CASE Replied(s, m)
        BY <3>1, <3>6 DEF Replied, SendAt, SendOver, SenderInv
      <3> QED
        BY <3>2, <3>3, <3>4, <3>5, <3>6
    <2>2. CASE WorkStep(s)
      BY <1>q, <2>2 DEF WorkStep, EndTake, Steer, EndShow, SendWake, Clean, Take, Mark, Unbox, Show,
                        Surface, ClaimWake
    <2>3. CASE Poll(s) \/ Withdraw(s) \/ Start(s) \/ Flush(s)
      BY <1>q, <2>3 DEF Poll, Withdraw, Start, Flush
    <2>4. CASE StartTurn(s) \/ Settle(s) \/ ClearQueue(s) \/ Close(s)
      BY <1>q, <2>4 DEF StartTurn, Settle, ClearQueue, Close
    <2>5. CASE Stop(s) \/ Crash(s)
      <3>1. made' = made /\ send' = [send EXCEPT ![s] = [pc |-> "idle", m |-> {}, to |-> 0]]
        BY <2>5 DEF Stop, Crash, Forget
      <3> QED
        BY <3>1 DEF SenderInv
    <2>6. ASSUME NEW m \in Messages, Compose(s, m) PROVE SenderInv'
      <3>1. m \in Replies => Parent[m] \in published \cap Kept
        BY <2>6 DEF Compose, SeenInv
      <3>2. made' = made \union {m}
        BY <2>6 DEF Compose
      <3>3. send'[s].m = {m} /\ send'[s].pc \in {"claim", "enqueue"}
        BY <2>6 DEF Compose
      <3>4. \A t \in Sessions : t # s => send'[t] = send[t]
        BY <2>6 DEF Compose
      <3> QED
        BY <3>1, <3>2, <3>3, <3>4 DEF SenderInv
    <2>7. ASSUME NEW m \in Messages, Acknowledge(s, m) \/ Consume(s, m) \/ ClaimSeen(s, m) PROVE SenderInv'
      BY <1>q, <2>7 DEF Acknowledge, Consume, ClaimSeen
    <2> QED
      BY <1>3, <2>1, <2>2, <2>3, <2>4, <2>5, <2>6, <2>7 DEF SessionStep
  <1> QED
    BY <1>1, <1>2, <1>3 DEF Next

-------------------------------------------------------------------------------
(* The status records *)

\* The order of the statuses.
LEMMA Ranks ==
  /\ Rank("none") = 0 /\ Rank("pending") = 1 /\ Rank("queued") = 2 /\ Rank("delivered") = 3
  /\ Rank("surfaced") = 4 /\ Rank("acknowledged") = 5 /\ Rank("replied") = 6
  <1>1. DOMAIN Statuses = 1 .. 6
    BY DEF Statuses
  <1>2. /\ Statuses[1] = "pending" /\ Statuses[2] = "queued" /\ Statuses[3] = "delivered"
        /\ Statuses[4] = "surfaced" /\ Statuses[5] = "acknowledged" /\ Statuses[6] = "replied"
    BY DEF Statuses
  <1>3. ASSUME NEW i \in 1 .. 6 PROVE Rank(Statuses[i]) = i
    <2>1. \A j \in 1 .. 6 : Statuses[j] = Statuses[i] => j = i
      BY <1>2
    <2>2. Statuses[i] # "none"
      BY <1>2
    <2> QED
      BY <1>1, <2>1, <2>2 DEF Rank
  <1> QED
    BY <1>2, <1>3 DEF Rank

\* A step on the status records: they only move up, unless the record is removed.
Rises == \A m \in Messages : status'[m] = "none" \/ Rank(status'[m]) >= Rank(status[m])

LEMMA RankNat == \A st \in StatusNames : Rank(st) \in 0 .. 6
  BY Ranks DEF StatusNames

\* Raise keeps the records well formed and moves them up only.
LEMMA Raised ==
  ASSUME StatusInv, NEW m \in Messages, NEW st \in StatusNames \ {"none"}, Raise(m, st), made' = made
  PROVE  StatusInv' /\ Rises
  BY RankNat DEF StatusInv, Raise, Rises, StatusNames

LEMMA StatusStep == SenderInv /\ StatusInv /\ [Next]_vars => StatusInv' /\ Rises
  <1> SUFFICES ASSUME SenderInv, StatusInv, [Next]_vars PROVE StatusInv' /\ Rises
    OBVIOUS
  <1> USE DEF session, files, history
  <1>0. ASSUME UNCHANGED <<status, made>> PROVE StatusInv' /\ Rises
    BY <1>0, RankNat DEF StatusInv, Rises
  <1>1. ASSUME NEW m \in Messages, Expire(m) PROVE StatusInv' /\ Rises
    BY <1>0, <1>1 DEF Expire
  <1>2. CASE UNCHANGED vars
    BY <1>0, <1>2 DEF vars
  <1>3. ASSUME NEW s \in Sessions, SessionStep(s) PROVE StatusInv' /\ Rises
    <2>1. CASE SendStep(s)
      <3> PICK m \in Messages : \/ Claim(s, m) \/ Enqueue(s, m) \/ SendFail(s, m)
                                \/ Confirm(s, m) \/ Replied(s, m) \/ Answer(s, m)
        BY <2>1 DEF SendStep
      <3>1. CASE Claim(s, m) \/ Enqueue(s, m) \/ Answer(s, m)
        BY <1>0, <3>1 DEF Claim, Enqueue, Answer
      <3>2. CASE SendFail(s, m)
        BY <3>2, RankNat DEF SendFail, StatusInv, Rises, StatusNames
      <3>3. CASE Confirm(s, m)
        BY <3>3, Raised DEF Confirm, StatusNames
      <3>4. CASE Replied(s, m)
        <4>1. Parent[m] \in Messages
          BY <3>4, PeerAssumption DEF Replied, SenderInv, Replies
        <4> QED
          BY <3>4, <4>1, Raised DEF Replied, StatusNames
      <3> QED
        BY <3>1, <3>2, <3>3, <3>4
    <2>2. CASE WorkStep(s)
      <3>1. ASSUME NEW m \in Messages, Mark(s, m) \/ Surface(s, m) PROVE StatusInv' /\ Rises
        BY <3>1, Raised DEF Mark, Surface, StatusNames
      <3>2. CASE UNCHANGED <<status, made>>
        BY <1>0, <3>2
      <3> QED
        BY <2>2, <3>1, <3>2 DEF WorkStep, EndTake, Steer, EndShow, SendWake, Clean, Take, Unbox, Show, ClaimWake
    <2>3. CASE Poll(s) \/ Withdraw(s) \/ Start(s) \/ Stop(s) \/ Crash(s) \/ Flush(s)
      BY <1>0, <2>3 DEF Poll, Withdraw, Start, Stop, Crash, Flush
    <2>4. CASE StartTurn(s) \/ Settle(s) \/ ClearQueue(s) \/ Close(s)
      BY <1>0, <2>4 DEF StartTurn, Settle, ClearQueue, Close
    <2>5. ASSUME NEW m \in Messages, Compose(s, m) PROVE StatusInv' /\ Rises
      BY <2>5, Ranks, RankNat DEF Compose, Track, StatusInv, Rises, StatusNames
    <2>6. ASSUME NEW m \in Messages, Acknowledge(s, m) \/ Consume(s, m) \/ ClaimSeen(s, m)
          PROVE StatusInv' /\ Rises
      <3>1. CASE UNCHANGED <<status, made>>
        BY <1>0, <3>1
      <3>2. CASE made' = made /\ (Raise(m, "acknowledged") \/ Raise(m, "surfaced"))
        BY <3>2, Raised DEF StatusNames
      <3> QED
        BY <2>6, <3>1, <3>2 DEF Acknowledge, Consume, ClaimSeen
    <2> QED
      BY <1>3, <2>1, <2>2, <2>3, <2>4, <2>5, <2>6 DEF SessionStep
  <1> QED
    BY <1>1, <1>2, <1>3 DEF Next

LEMMA StatusInit == Init => StatusInv
  BY DEF Init, StatusInv, StatusNames

\* StatusMonotone for every instance: every write but the removal after a failed send goes
\* through updateOutgoingMessageStatus, and a new record is written for a new message.
THEOREM StatusNeverFalls == Spec => StatusMonotone
  <1> DEFINE Inv == Shape /\ SeenInv /\ SenderInv /\ StatusInv
  <1>1. Init => Inv
    BY ShapeInit, SeenInit, SenderInit, StatusInit
  <1>2. Inv /\ [Next]_vars => Inv' /\ [Rises]_vars
    BY ShapeStep, SeenStep, SenderStep, StatusStep
  <1> QED
    BY <1>1, <1>2, PTL DEF Spec, StatusMonotone, Rises

\* A step that raises one record keeps what the records say true.
LEMMA TruthRaised ==
  ASSUME StatusInv, StatusTruthful, NEW m \in Messages, NEW st \in StatusNames \ {"none"},
         Raise(m, st), answered' = answered, published \subseteq published', Kept \subseteq Kept',
         Rank(st) >= 2 => m \in published', Rank(st) >= 3 => m \in Kept',
         st = "replied" => \E r \in Replies \cap published' : Parent[r] = m
  PROVE  StatusTruthful'
  <1>1. \A x \in Messages : status'[x] = status[x] \/ (x = m /\ status'[x] = st)
    BY DEF Raise, StatusInv
  <1>2. Rank("queued") = 2 /\ Rank("delivered") = 3
    BY Ranks
  <1>3. ASSUME NEW x \in Messages
        PROVE /\ Rank(status'[x]) >= 2 => x \in published'
              /\ Rank(status'[x]) >= 3 /\ x \notin expired' => x \in receipt' \union disk'
              /\ status'[x] = "replied" \/ x \in answered'
                   => \E r \in Replies \cap published' : Parent[r] = x
    BY <1>1, <1>2 DEF StatusTruthful, Kept
  <1> QED
    BY <1>2, <1>3 DEF StatusTruthful

\* A step that leaves the records alone keeps what they say true.
LEMMA TruthQuiet ==
  ASSUME StatusInv, StatusTruthful, published \subseteq published', Kept \subseteq Kept',
         \A m \in Messages : status'[m] = status[m] \/ status'[m] \in {"none", "pending"},
         answered' = answered \/ \E x \in Replies \cap published' : answered' = answered \union {Parent[x]}
  PROVE  StatusTruthful'
  <1>2. Rank("queued") = 2 /\ Rank("delivered") = 3 /\ Rank("none") = 0 /\ Rank("pending") = 1
    BY Ranks
  <1>3. ASSUME NEW x \in Messages
        PROVE /\ Rank(status'[x]) >= 2 => x \in published'
              /\ Rank(status'[x]) >= 3 /\ x \notin expired' => x \in receipt' \union disk'
              /\ status'[x] = "replied" \/ x \in answered'
                   => \E r \in Replies \cap published' : Parent[r] = x
    BY <1>2 DEF StatusTruthful, Kept
  <1> QED
    BY <1>2, <1>3 DEF StatusTruthful

LEMMA TruthStep ==
  Shape /\ SeenInv /\ SenderInv /\ StatusInv /\ StatusTruthful /\ [Next]_vars => StatusTruthful'
  <1> SUFFICES ASSUME Shape, SeenInv, SenderInv, StatusInv, StatusTruthful, [Next]_vars
               PROVE  StatusTruthful'
    OBVIOUS
  <1>0. Kept \subseteq Kept' /\ published \subseteq published'
    BY KeptGrows, Grows
  <1> USE <1>0 DEF session, files, history
  <1>q. ASSUME UNCHANGED <<status, answered>> PROVE StatusTruthful'
    BY <1>q, TruthQuiet
  <1>1. ASSUME NEW m \in Messages, Expire(m) PROVE StatusTruthful'
    BY <1>q, <1>1 DEF Expire
  <1>2. CASE UNCHANGED vars
    BY <1>q, <1>2 DEF vars
  <1>3. ASSUME NEW s \in Sessions, SessionStep(s) PROVE StatusTruthful'
    <2>1. CASE SendStep(s)
      <3> PICK m \in Messages : \/ Claim(s, m) \/ Enqueue(s, m) \/ SendFail(s, m)
                                \/ Confirm(s, m) \/ Replied(s, m) \/ Answer(s, m)
        BY <2>1 DEF SendStep
      <3>1. CASE Claim(s, m) \/ Enqueue(s, m)
        BY <1>q, <3>1 DEF Claim, Enqueue
      <3>2. CASE SendFail(s, m)
        BY <3>2, TruthQuiet DEF SendFail, StatusInv
      <3>3. CASE Confirm(s, m)
        <4>1. m \in published
          BY <3>3 DEF Confirm, SenderInv
        <4> QED
          BY <3>3, <4>1, Ranks, TruthRaised DEF Confirm, StatusNames
      <3>4. CASE Replied(s, m)
        <4>1. m \in Replies \cap published /\ m \in made
          BY <3>4 DEF Replied, SenderInv
        <4>2. Parent[m] \in Messages /\ Parent[m] \in published \cap Kept
          BY <4>1, PeerAssumption DEF SenderInv, Replies
        <4>3. Raise(Parent[m], "replied") /\ answered' = answered
          BY <3>4 DEF Replied
        <4> QED
          BY <4>1, <4>2, <4>3, TruthRaised DEF StatusNames
      <3>5. CASE Answer(s, m)
        <4>1. m \in Replies \cap published
          BY <3>5 DEF Answer, SenderInv
        <4> QED
          BY <3>5, <4>1, TruthQuiet DEF Answer
      <3> QED
        BY <3>1, <3>2, <3>3, <3>4, <3>5
    <2>2. CASE WorkStep(s)
      <3>1. ASSUME NEW m \in Messages, Mark(s, m) \/ Surface(s, m) PROVE StatusTruthful'
        <4>1. m \in published \cap Kept
          BY <3>1 DEF Mark, Surface, SeenInv
        <4> QED
          BY <3>1, <4>1, TruthRaised DEF Mark, Surface, StatusNames
      <3>2. CASE UNCHANGED <<status, answered>>
        BY <1>q, <3>2
      <3> QED
        BY <2>2, <3>1, <3>2 DEF WorkStep, EndTake, Steer, EndShow, SendWake, Clean, Take, Unbox, Show, ClaimWake
    <2>3. CASE Poll(s) \/ Withdraw(s) \/ Start(s) \/ Stop(s) \/ Crash(s) \/ Flush(s)
      BY <1>q, <2>3 DEF Poll, Withdraw, Start, Stop, Crash, Flush
    <2>4. CASE StartTurn(s) \/ Settle(s) \/ ClearQueue(s) \/ Close(s)
      BY <1>q, <2>4 DEF StartTurn, Settle, ClearQueue, Close
    <2>5. ASSUME NEW m \in Messages, Compose(s, m) PROVE StatusTruthful'
      BY <2>5, TruthQuiet DEF Compose, Track, StatusInv
    <2>6. ASSUME NEW m \in Messages, Acknowledge(s, m) PROVE StatusTruthful'
      <3>1. m \in published \cap Kept
        BY <2>6 DEF Acknowledge, SeenInv
      <3> QED
        BY <2>6, <3>1, TruthRaised DEF Acknowledge, StatusNames
    <2>7. ASSUME NEW m \in Messages, Consume(s, m) PROVE StatusTruthful'
      <3>1. CASE status' = status
        BY <1>q, <2>7, <3>1 DEF Consume
      <3>2. CASE status' # status
        <4>1. m \in receipt /\ Raise(m, "surfaced") /\ answered' = answered
          BY <2>7, <3>2 DEF Consume
        <4>2. m \in published \cap Kept
          BY <4>1 DEF SeenInv, Kept
        <4> QED
          BY <4>1, <4>2, TruthRaised DEF StatusNames
      <3> QED
        BY <3>1, <3>2
    <2>8. ASSUME NEW m \in Messages, ClaimSeen(s, m) PROVE StatusTruthful'
      BY <1>q, <2>8 DEF ClaimSeen
    <2> QED
      BY <1>3, <2>1, <2>2, <2>3, <2>4, <2>5, <2>6, <2>7, <2>8 DEF SessionStep
  <1> QED
    BY <1>1, <1>2, <1>3 DEF Next

\* StatusTruthful for every instance: each side records a step after what makes it true,
\* the sender after enqueueMessage, the recipient after persistReceipt.
THEOREM StatusIsTrue == Spec => []StatusTruthful
  <1> DEFINE Inv == Shape /\ SeenInv /\ SenderInv /\ StatusInv /\ StatusTruthful
  <1>1. Init => Inv
    <2>1. Init => StatusTruthful
      BY Ranks DEF Init, StatusTruthful
    <2> QED
      BY <2>1, ShapeInit, SeenInit, SenderInit, StatusInit
  <1>2. Inv /\ [Next]_vars => Inv'
    BY ShapeStep, SeenStep, SenderStep, StatusStep, TruthStep
  <1> QED
    BY <1>1, <1>2, PTL DEF Spec

-------------------------------------------------------------------------------
(* One turn, one card *)

LEMMA TurnsInit == Init => TurnsInv
  BY DEF Init, TurnsInv, IsFun, Idle

\* A step that counts no turn and begins no pass of claims.
LEMMA TurnsQuiet ==
  ASSUME TurnsInv, wakes' = wakes, woken \subseteq woken',
         IsFun(copies', Messages), \A m \in Messages : copies'[m] \in {0, 1, copies[m]},
         \A s \in Sessions : work'[s].pc = "wake" =>
           (work'[s].m \subseteq work[s].m /\ work[s].pc = "wake") \/ work'[s].m = {}
  PROVE  TurnsInv'
  <1>1. \A s \in Sessions : work'[s].pc = "wake" =>
          \A m \in work'[s].m : m \in Mine(s) /\ m \in woken' /\ wakes'[m] = 0
    BY DEF TurnsInv
  <1>2. \A m \in Messages : copies'[m] \in {0, 1}
    BY DEF TurnsInv
  <1> QED
    BY <1>1, <1>2 DEF TurnsInv, IsFun

LEMMA TurnsStep == Shape /\ TurnsInv /\ [Next]_vars => TurnsInv'
  <1> SUFFICES ASSUME Shape, TurnsInv, [Next]_vars PROVE TurnsInv'
    OBVIOUS
  <1>0. woken \subseteq woken' /\ IsFun(copies, Messages)
    BY Grows DEF TurnsInv
  <1> USE <1>0 DEF session, files, history
  <1>q. ASSUME UNCHANGED <<wakes, copies, work>> PROVE TurnsInv'
    BY <1>q, TurnsQuiet
  <1>1. ASSUME NEW m \in Messages, Expire(m) PROVE TurnsInv'
    BY <1>q, <1>1 DEF Expire
  <1>2. CASE UNCHANGED vars
    BY <1>q, <1>2 DEF vars
  <1>3. ASSUME NEW s \in Sessions, SessionStep(s) PROVE TurnsInv'
    <2>0. ASSUME UNCHANGED <<wakes, copies>>,
                 NEW pc, NEW left, NEW b, work' = [work EXCEPT ![s] = At(pc, left, b)],
                 pc = "wake" => b = {}
          PROVE  TurnsInv'
      <3>1. work'[s].pc = pc /\ work'[s].m = b
        BY <2>0 DEF Shape, IsFun, At
      <3>2. \A t \in Sessions : t # s => work'[t] = work[t]
        BY <2>0 DEF Shape, IsFun
      <3> QED
        BY <2>0, <3>1, <3>2, TurnsQuiet
    <2>1. CASE SendStep(s)
      BY <1>q, <2>1 DEF SendStep, Claim, Enqueue, SendFail, Confirm, Replied, Answer
    <2>2. CASE WorkStep(s)
      <3>1. CASE EndTake(s)
        BY <2>0, <3>1 DEF EndTake, WorkAt
      <3>2. CASE Steer(s)
        BY <2>0, <3>2 DEF Steer, Idle, At
      <3>3. CASE EndShow(s)
        BY <2>0, <3>3 DEF EndShow, WorkAt
      <3>4. CASE SendWake(s)
        <4>1. /\ work[s].pc = "wake" /\ UNCHANGED <<copies, woken>>
              /\ work' = [work EXCEPT ![s] = At("clean", {}, {})]
          BY <3>4 DEF SendWake, WorkAt
        <4>2. work'[s].pc = "clean" /\ \A t \in Sessions : t # s => work'[t] = work[t]
          BY <4>1 DEF Shape, IsFun, At
        <4>3. CASE wakes' = wakes
          BY <4>1, <2>0, <4>3
        <4>4. CASE wakes' # wakes
          <5>1. wakes' = [m \in Messages |-> IF m \in work[s].m /\ wakes[m] < 2 THEN wakes[m] + 1
                                             ELSE wakes[m]]
            BY <3>4, <4>4 DEF SendWake
          <5>2. \A m \in Messages : m \in work[s].m => m \in Mine(s) /\ m \in woken /\ wakes[m] = 0 /\ wakes'[m] = 1
            BY <4>1, <5>1 DEF TurnsInv
          <5>3. \A m \in Messages : m \notin work[s].m => wakes'[m] = wakes[m]
            BY <5>1
          <5>4. \A m \in Messages : wakes'[m] \in {0, 1} /\ (wakes'[m] = 1 => m \in woken')
            BY <4>1, <5>2, <5>3 DEF TurnsInv
          <5>5. ASSUME NEW t \in Sessions, work'[t].pc = "wake", NEW m \in work'[t].m
                PROVE  m \in Mine(t) /\ m \in woken' /\ wakes'[m] = 0
            <6>1. t # s /\ work'[t] = work[t]
              BY <4>2, <5>5
            <6>2. m \in Mine(t) /\ m \in woken /\ wakes[m] = 0
              BY <5>5, <6>1 DEF TurnsInv
            <6>3. wakes'[m] = wakes[m]
              BY <5>2, <5>3, <6>1, <6>2 DEF Mine
            <6> QED
              BY <6>2, <6>3
          <5> QED
            BY <4>1, <5>1, <5>4, <5>5 DEF TurnsInv, IsFun
        <4> QED
          BY <4>3, <4>4
      <3>5. CASE Clean(s)
        BY <2>0, <3>5 DEF Clean, Idle, At
      <3>6. ASSUME NEW m \in Messages, Take(s, m) \/ Mark(s, m) \/ Unbox(s, m) \/ Surface(s, m) PROVE TurnsInv'
        <4>1. PICK pc, left, b : work' = [work EXCEPT ![s] = At(pc, left, b)] /\ pc # "wake"
          BY <3>6 DEF Take, Mark, Unbox, Surface, WorkAt
        <4>2. UNCHANGED <<wakes, copies>>
          BY <3>6 DEF Take, Mark, Unbox, Surface
        <4> QED
          BY <2>0, <4>1, <4>2
      <3>7. ASSUME NEW m \in Messages, Show(s, m) PROVE TurnsInv'
        <4>1. PICK pc, left, b : work' = [work EXCEPT ![s] = At(pc, left, b)] /\ pc # "wake"
          BY <3>7 DEF Show, WorkAt, Idle, At
        <4>2. wakes' = wakes
          BY <3>7 DEF Show
        <4>3. copies' = copies \/ copies' = [copies EXCEPT ![m] = 1]
          BY <3>7 DEF Show
        <4>4. work'[s].pc # "wake" /\ \A t \in Sessions : t # s => work'[t] = work[t]
          BY <4>1 DEF Shape, IsFun, At
        <4> QED
          BY <4>2, <4>3, <4>4, TurnsQuiet DEF IsFun
      <3>8. ASSUME NEW m \in Messages, ClaimWake(s, m) PROVE TurnsInv'
        <4>1. /\ work[s].pc = "wake" /\ UNCHANGED <<wakes, copies>> /\ woken' = woken \union {m}
              /\ work' = [work EXCEPT ![s] = At("wake", {}, work[s].m \union {m})]
          BY <3>8 DEF ClaimWake, WorkAt
        <4>2. work'[s].m = work[s].m \union {m} /\ \A t \in Sessions : t # s => work'[t] = work[t]
          BY <4>1 DEF Shape, IsFun, At
        <4>3. m \in Mine(s) /\ wakes[m] = 0
          BY <3>8 DEF ClaimWake, Wakable, WakeClaimed, Mine, TurnsInv
        <4> QED
          BY <4>1, <4>2, <4>3 DEF TurnsInv
      <3> QED
        BY <2>2, <3>1, <3>2, <3>3, <3>4, <3>5, <3>6, <3>7, <3>8 DEF WorkStep
    <2>3. CASE Poll(s) \/ Withdraw(s)
      <3>1. PICK pc, left, b : work' = [work EXCEPT ![s] = At(pc, left, b)] /\ pc # "wake"
        BY <2>3 DEF Poll, Withdraw, WorkAt
      <3> QED
        BY <2>0, <2>3, <3>1 DEF Poll, Withdraw
    <2>4. CASE StartTurn(s) \/ Settle(s) \/ ClearQueue(s) \/ Close(s) \/ Flush(s) \/ Start(s)
      BY <1>q, <2>4 DEF StartTurn, Settle, ClearQueue, Close, Flush, Start
    <2>5. CASE Stop(s) \/ Crash(s)
      <3>1. wakes' = wakes /\ work' = [work EXCEPT ![s] = Idle]
        BY <2>5 DEF Stop, Crash, Forget
      <3>2. copies' = [m \in Messages |-> IF m \in Mine(s) \ disk THEN 0 ELSE copies[m]]
        BY <2>5 DEF Stop, Crash, Forget
      <3>3. work'[s].pc # "wake" /\ \A t \in Sessions : t # s => work'[t] = work[t]
        BY <3>1 DEF Shape, IsFun, Idle
      <3> QED
        BY <3>1, <3>2, <3>3, TurnsQuiet DEF IsFun
    <2>6. ASSUME NEW m \in Messages, Consume(s, m) PROVE TurnsInv'
      <3>1. UNCHANGED <<wakes, work>> /\ (copies' = copies \/ copies' = [copies EXCEPT ![m] = 1])
        BY <2>6 DEF Consume
      <3> QED
        BY <3>1, TurnsQuiet DEF IsFun
    <2>7. ASSUME NEW m \in Messages, Compose(s, m) \/ Acknowledge(s, m) \/ ClaimSeen(s, m) PROVE TurnsInv'
      BY <1>q, <2>7 DEF Compose, Acknowledge, ClaimSeen
    <2> QED
      BY <1>3, <2>1, <2>2, <2>3, <2>4, <2>5, <2>6, <2>7 DEF SessionStep
  <1> QED
    BY <1>1, <1>2, <1>3 DEF Next

\* NeverTwice for every instance: claimPeerWake comes before the turn it is for, and a card
\* is shown only when the transcript has none.
THEOREM NothingTwice == Spec => []NeverTwice
  <1>1. TurnsInv => NeverTwice
    BY DEF TurnsInv, NeverTwice
  <1> QED
    BY ShapeInit, ShapeStep, TurnsInit, TurnsStep, <1>1, PTL DEF Spec

-------------------------------------------------------------------------------
(* A reply that a run has seen starts no turn *)

LEMMA PassInit == Init => PassInv
  BY DEF Init, PassInv, PassAt, IsFun, Idle, Mine

\* The pass of a session that takes no part in a step.
LEMMA PassOther ==
  ASSUME NEW t \in Sessions, PassAt(t), work'[t] = work[t],
         receipt' \cap Mine(t) \subseteq receipt \cap Mine(t) \/ work[t].pc \notin {"show", "surface", "wake"},
         Shown \cap Mine(t) \subseteq Shown',
         claiming' \cap Mine(t) \subseteq claiming, 
         consumed' \cap Mine(t) \subseteq consumed
  PROVE  PassAt(t)'
  BY DEF PassAt, ReceiptsOf, Mine

\* A step that leaves every pass where it stands.
LEMMA PassQuiet ==
  ASSUME PassInv, work' = work, IsFun(busy', Sessions), receipt' \subseteq receipt, Shown \subseteq Shown',
         claiming' = claiming, consumed' = consumed, woken \subseteq woken', expired \subseteq expired',
         \A s \in Sessions : busy[s] /\ ~busy'[s] => claiming \cap Mine(s) = {}
  PROVE  PassInv'
  <1>1. \A t \in Sessions : PassAt(t)'
    BY PassOther DEF PassInv
  <1> QED
    BY <1>1 DEF PassInv, Mine

\* A step of the pass of s.
Others(s) == \A t \in Sessions : t # s => work'[t] = work[t]

LEMMA PassMoves ==
  ASSUME PassInv, NEW s \in Sessions, Others(s), work'[s].left \union work'[s].m \subseteq Mine(s),
         UNCHANGED <<claiming, consumed>>, woken \subseteq woken', expired \subseteq expired',
         IsFun(busy', Sessions), \A t \in Sessions : busy[t] => busy'[t],
         receipt' \subseteq receipt \union Mine(s), Shown \subseteq Shown',
         work'[s].pc \in {"show", "surface"} => receipt' \cap Mine(s) \subseteq work'[s].left \union Shown',
         work'[s].pc = "wake" => /\ receipt' \cap Mine(s) \subseteq Shown'
                                 /\ claiming \cap Mine(s) = {} /\ work'[s].m \cap consumed = {}
  PROVE  PassInv'
  <1>2. PassAt(s)'
    BY DEF PassAt, ReceiptsOf, Mine
  <1>3. \A t \in Sessions : t # s => PassAt(t)'
    BY PassOther DEF PassInv, Others, Mine
  <1> QED
    BY <1>2, <1>3 DEF PassInv, Mine

LEMMA PassStep == Shape /\ TurnsInv /\ PassInv /\ [Next]_vars => PassInv'
  <1> SUFFICES ASSUME Shape, TurnsInv, PassInv, [Next]_vars PROVE PassInv'
    OBVIOUS
  <1>0. /\ woken \subseteq woken' /\ expired \subseteq expired'
        /\ IsFun(copies, Messages) /\ IsFun(busy, Sessions)
        /\ \A m \in Messages : copies[m] \in {0, 1}
        /\ \A t \in Sessions : work[t].left \union work[t].m \subseteq Mine(t)
    BY Grows DEF TurnsInv, PassInv, PassAt
  <1> USE <1>0 DEF session, files, history
  <1>q. ASSUME UNCHANGED <<work, busy, copies, claiming, consumed>>, receipt' \subseteq receipt PROVE PassInv'
    BY <1>q, PassQuiet DEF Shown
  <1>1. ASSUME NEW m \in Messages, Expire(m) PROVE PassInv'
    BY <1>q, <1>1 DEF Expire
  <1>2. CASE UNCHANGED vars
    BY <1>q, <1>2 DEF vars
  <1>3. ASSUME NEW s \in Sessions, SessionStep(s) PROVE PassInv'
    <2>0. ASSUME NEW pc, NEW left, NEW b, work' = [work EXCEPT ![s] = At(pc, left, b)]
          PROVE  Others(s) /\ work'[s].pc = pc /\ work'[s].left = left /\ work'[s].m = b
      BY <2>0 DEF Shape, IsFun, At, Others
    <2>w. ASSUME NEW pc, NEW left, NEW b, WorkAt(s, pc, left, b)
          PROVE  Others(s) /\ work'[s].pc = pc /\ work'[s].left = left /\ work'[s].m = b
      BY <2>0, <2>w DEF WorkAt
    <2>i. work' = [work EXCEPT ![s] = Idle]
            => Others(s) /\ work'[s].pc = "idle" /\ work'[s].left = {} /\ work'[s].m = {}
      BY DEF Idle, Shape, IsFun, Others
    <2>1. CASE SendStep(s)
      BY <1>q, <2>1 DEF SendStep, Claim, Enqueue, SendFail, Confirm, Replied, Answer
    <2>2. CASE WorkStep(s)
      <3>1. CASE EndTake(s)
        <4>1. UNCHANGED <<busy, copies, claiming, consumed, receipt>> /\ WorkAt(s, "show", ReceiptsOf(s), {})
          BY <3>1 DEF EndTake
        <4>2. Others(s) /\ work'[s].pc = "show" /\ work'[s].left = ReceiptsOf(s) /\ work'[s].m = {}
          BY <2>w, <4>1
        <4> QED
          BY <4>1, <4>2, PassMoves DEF Shown, ReceiptsOf
      <3>2. CASE Steer(s) \/ Clean(s)
        <4>1. UNCHANGED <<busy, copies, claiming, consumed>> /\ receipt' \subseteq receipt
          BY <3>2 DEF Steer, Clean, Discard
        <4>2. Others(s) /\ work'[s].pc = "idle" /\ work'[s].left = {} /\ work'[s].m = {}
          BY <2>i, <3>2 DEF Steer, Clean
        <4> QED
          BY <4>1, <4>2, PassMoves DEF Shown
      <3>3. CASE EndShow(s)
        <4>1. UNCHANGED <<busy, copies, claiming, consumed, receipt>>
          BY <3>3 DEF EndShow
        <4>2. ReceiptsOf(s) \subseteq Shown /\ claiming \cap Mine(s) = {}
          BY <3>3 DEF EndShow, PassInv, PassAt
        <4>3. Others(s) /\ work'[s].pc \in {"clean", "wake"} /\ work'[s].left = {} /\ work'[s].m = {}
          BY <2>w, <3>3 DEF EndShow
        <4> QED
          BY <4>1, <4>2, <4>3, PassMoves DEF ReceiptsOf, Shown
      <3>4. CASE SendWake(s)
        <4>1. /\ UNCHANGED <<copies, claiming, consumed, receipt>>
              /\ busy' = busy \/ busy' = [busy EXCEPT ![s] = TRUE]
          BY <3>4 DEF SendWake
        <4>2. IsFun(busy', Sessions) /\ \A t \in Sessions : busy[t] => busy'[t]
          BY <4>1 DEF IsFun
        <4>3. Others(s) /\ work'[s].pc = "clean" /\ work'[s].left = {} /\ work'[s].m = {}
          BY <2>w, <3>4 DEF SendWake
        <4> QED
          BY <4>1, <4>2, <4>3, PassMoves DEF Shown
      <3>6. ASSUME NEW m \in Messages, Take(s, m) PROVE PassInv'
        <4>1. UNCHANGED <<busy, copies, claiming, consumed>> /\ m \in Mine(s)
          BY <3>6 DEF Take
        <4>2. /\ Others(s) /\ work'[s].pc \in {"mark", "take"}
              /\ work'[s].left \subseteq work[s].left /\ work'[s].m \subseteq {m}
          BY <2>w, <3>6 DEF Take
        <4>3. receipt' \subseteq receipt \union {m}
          BY <3>6 DEF Take, Receive
        <4> QED
          BY <4>1, <4>2, <4>3, PassMoves DEF Shown
      <3>7. ASSUME NEW m \in Messages, Mark(s, m) \/ Unbox(s, m) PROVE PassInv'
        <4>1. UNCHANGED <<busy, copies, claiming, consumed, receipt>> /\ work[s].m = {m}
          BY <3>7 DEF Mark, Unbox
        <4>2. /\ Others(s) /\ work'[s].pc \in {"unbox", "take"}
              /\ work'[s].left = work[s].left /\ work'[s].m \subseteq work[s].m
          BY <2>w, <3>7 DEF Mark, Unbox
        <4> QED
          BY <4>1, <4>2, PassMoves DEF Shown
      <3>8. ASSUME NEW m \in Messages, Surface(s, m) PROVE PassInv'
        <4>1. UNCHANGED <<busy, copies, claiming, consumed, receipt>>
          BY <3>8 DEF Surface
        <4>2. Others(s) /\ work'[s].pc = "show" /\ work'[s].left = work[s].left /\ work'[s].m = {}
          BY <2>w, <3>8 DEF Surface
        <4>3. ReceiptsOf(s) \subseteq work[s].left \union Shown
          BY <3>8 DEF Surface, PassInv, PassAt
        <4> QED
          BY <4>1, <4>2, <4>3, PassMoves DEF ReceiptsOf, Shown
      <3>9. ASSUME NEW m \in Messages, Show(s, m) PROVE PassInv'
        <4>1. UNCHANGED <<busy, claiming, consumed>> /\ m \in Mine(s) /\ receipt' \subseteq receipt
          BY <3>9 DEF Show, Discard
        <4>2. /\ copies' = copies \/ (copies' = [copies EXCEPT ![m] = 1])
              /\ \/ work' = [work EXCEPT ![s] = Idle]
                 \/ WorkAt(s, "show", work[s].left \ {m}, {}) /\ m \notin receipt'
                 \/ /\ WorkAt(s, "surface", work[s].left \ {m}, {m})
                    /\ (m \in Shown /\ copies' = copies) \/ copies' = [copies EXCEPT ![m] = 1]
          BY <3>9 DEF Show, Discard
        <4>3. Shown \subseteq Shown' /\ (copies' = [copies EXCEPT ![m] = 1] => m \in Shown')
          BY <4>2 DEF Shown, IsFun
        <4>4. Others(s) /\ work'[s].left \subseteq work[s].left /\ work'[s].m \subseteq {m}
          BY <2>w, <2>i, <4>2
        <4>5. ReceiptsOf(s) \subseteq work[s].left \union Shown
          BY <3>9 DEF Show, PassInv, PassAt
        <4>6. CASE work' = [work EXCEPT ![s] = Idle]
          BY <2>i, <4>1, <4>3, <4>4, <4>6, PassMoves
        <4>7. CASE WorkAt(s, "show", work[s].left \ {m}, {}) /\ m \notin receipt'
          BY <2>w, <4>1, <4>3, <4>4, <4>5, <4>7, PassMoves DEF ReceiptsOf
        <4>8. CASE WorkAt(s, "surface", work[s].left \ {m}, {m}) /\ m \in Shown'
          BY <2>w, <4>1, <4>3, <4>4, <4>5, <4>8, PassMoves DEF ReceiptsOf
        <4> QED
          BY <4>2, <4>3, <4>6, <4>7, <4>8 DEF Shown
      <3>10. ASSUME NEW m \in Messages, ClaimWake(s, m) PROVE PassInv'
        <4>1. UNCHANGED <<busy, copies, claiming, consumed, receipt>> /\ work[s].pc = "wake"
          BY <3>10 DEF ClaimWake
        <4>2. Others(s) /\ work'[s].pc = "wake" /\ work'[s].left = {} /\ work'[s].m = work[s].m \union {m}
          BY <2>w, <3>10 DEF ClaimWake
        <4>3. m \in Mine(s) /\ m \notin woken /\ m \notin expired
          BY <3>10 DEF ClaimWake, Wakable, WakeClaimed, WantsTurn
        <4>4. m \notin consumed
          BY <4>3 DEF PassInv
        <4>5. ReceiptsOf(s) \subseteq Shown /\ claiming \cap Mine(s) = {} /\ work[s].m \cap consumed = {}
          BY <4>1 DEF PassInv, PassAt
        <4> QED
          BY <4>1, <4>2, <4>3, <4>4, <4>5, PassMoves DEF ReceiptsOf, Shown
      <3> QED
        BY <2>2, <3>1, <3>2, <3>3, <3>4, <3>6, <3>7, <3>8, <3>9, <3>10 DEF WorkStep
    <2>3. CASE Poll(s) \/ Withdraw(s)
      <3>1. Others(s) /\ work'[s].pc = "take" /\ work'[s].left \subseteq Mine(s) /\ work'[s].m = {}
        BY <2>w, <2>3 DEF Poll, Withdraw, InBox
      <3>2. UNCHANGED <<busy, copies, claiming, consumed>> /\ receipt' \subseteq receipt
        BY <2>3 DEF Poll, Withdraw, Discard
      <3> QED
        BY <3>1, <3>2, PassMoves DEF Shown
    <2>4. CASE StartTurn(s) \/ ClearQueue(s) \/ Close(s) \/ Flush(s) \/ Start(s)
      <3>1. UNCHANGED <<work, copies, claiming, consumed>> /\ receipt' \subseteq receipt
        BY <2>4 DEF StartTurn, ClearQueue, Close, Flush, Start, Discard
      <3>2. busy' = busy \/ busy' = [busy EXCEPT ![s] = TRUE]
        BY <2>4 DEF StartTurn, ClearQueue, Close, Flush, Start
      <3> QED
        BY <3>1, <3>2, PassQuiet DEF IsFun, Shown
    <2>5. CASE Settle(s)
      BY <2>5, PassQuiet DEF Settle, IsFun, Shown
    <2>6. CASE Stop(s) \/ Crash(s)
      <3>1. /\ UNCHANGED <<receipt, consumed>> /\ busy' = [busy EXCEPT ![s] = FALSE]
            /\ claiming' = claiming \ Mine(s) /\ work' = [work EXCEPT ![s] = Idle]
            /\ copies' = [m \in Messages |-> IF m \in Mine(s) \ disk THEN 0 ELSE copies[m]]
        BY <2>6 DEF Stop, Crash, Forget
      <3>2. work'[s] = Idle /\ \A t \in Sessions : t # s => work'[t] = work[t]
        BY <3>1 DEF Shape, IsFun
      <3>3. \A t \in Sessions : t # s => Shown \cap Mine(t) \subseteq Shown'
        BY <3>1 DEF Shown, Mine
      <3>4. PassAt(s)'
        BY <3>2 DEF PassAt, Idle
      <3>5. \A t \in Sessions : t # s => PassAt(t)'
        BY <3>1, <3>2, <3>3, PassOther DEF PassInv
      <3> QED
        BY <3>1, <3>4, <3>5 DEF PassInv, IsFun, Mine
    <2>7. ASSUME NEW m \in Messages, Consume(s, m) PROVE PassInv'
      <3>1. UNCHANGED <<work, receipt, busy, consumed>> /\ busy[s] /\ m \in Mine(s) /\ m \in Messages
        BY <2>7 DEF Consume
      <3>2. Shown \subseteq Shown'
        <4>1. copies' = copies \/ copies' = [copies EXCEPT ![m] = 1]
          BY <2>7 DEF Consume
        <4> QED
          BY <4>1 DEF Shown, IsFun
      <3>3. claiming' = claiming \/ (claiming' = claiming \union {m} /\ m \in receipt /\ m \notin Shown)
        BY <2>7 DEF Consume
      <3>4. \A t \in Sessions : t # s => PassAt(t)'
        BY <3>1, <3>2, <3>3, PassOther DEF PassInv, Mine
      <3>5. PassAt(s)'
        BY <3>1, <3>2, <3>3 DEF PassInv, PassAt, ReceiptsOf, Mine
      <3> QED
        BY <3>1, <3>3, <3>4, <3>5 DEF PassInv, Mine
    <2>8. ASSUME NEW m \in Messages, ClaimSeen(s, m) PROVE PassInv'
      <3>1. UNCHANGED <<work, receipt, busy, copies>> /\ m \in claiming \cap Mine(s) /\ claiming' = claiming \ {m}
        BY <2>8 DEF ClaimSeen
      <3>2. \/ consumed' = consumed /\ woken' = woken
            \/ consumed' = consumed \union {m} /\ (m \in expired \/ m \in woken')
        BY <2>8 DEF ClaimSeen
      <3>3. Shown' = Shown
        BY <3>1 DEF Shown
      <3>4. \A t \in Sessions : t # s => PassAt(t)'
        BY <3>1, <3>2, <3>3, PassOther DEF PassInv, Mine
      <3>5. PassAt(s)'
        BY <3>1, <3>2, <3>3 DEF PassInv, PassAt, ReceiptsOf, Mine
      <3> QED
        BY <3>1, <3>2, <3>4, <3>5 DEF PassInv, Mine
    <2>9. ASSUME NEW m \in Messages, Compose(s, m) \/ Acknowledge(s, m) PROVE PassInv'
      BY <1>q, <2>9 DEF Compose, Acknowledge
    <2> QED
      BY <1>3, <2>1, <2>2, <2>3, <2>4, <2>5, <2>6, <2>7, <2>8, <2>9 DEF SessionStep
  <1> QED
    BY <1>1, <1>2, <1>3 DEF Next

\* What a run has taken in is in no batch.
LEMMA SteeredStep == PassInv /\ [Next]_vars => \A m \in consumed : wakes'[m] = wakes[m]
  <1> SUFFICES ASSUME PassInv, [Next]_vars PROVE \A m \in consumed : wakes'[m] = wakes[m]
    OBVIOUS
  <1> USE DEF session, files, history
  <1>1. ASSUME NEW m \in Messages, Expire(m) PROVE wakes' = wakes
    BY <1>1 DEF Expire
  <1>2. CASE UNCHANGED vars
    BY <1>2 DEF vars
  <1>3. ASSUME NEW s \in Sessions, SessionStep(s) PROVE \A m \in consumed : wakes'[m] = wakes[m]
    <2>1. CASE SendStep(s)
      BY <2>1 DEF SendStep, Claim, Enqueue, SendFail, Confirm, Replied, Answer
    <2>2. CASE SendWake(s)
      <3>1. work[s].m \cap consumed = {}
        BY <2>2 DEF SendWake, PassInv, PassAt
      <3> QED
        BY <2>2, <3>1 DEF SendWake, PassInv
    <2>3. CASE WorkStep(s) /\ ~SendWake(s)
      BY <2>3 DEF WorkStep, EndTake, Steer, EndShow, Clean, Take, Mark, Unbox, Show, Surface, ClaimWake
    <2>4. CASE Poll(s) \/ Withdraw(s) \/ Start(s) \/ Stop(s) \/ Crash(s) \/ Flush(s)
      BY <2>4 DEF Poll, Withdraw, Start, Stop, Crash, Flush
    <2>5. CASE StartTurn(s) \/ Settle(s) \/ ClearQueue(s) \/ Close(s)
      BY <2>5 DEF StartTurn, Settle, ClearQueue, Close
    <2>6. ASSUME NEW m \in Messages, Compose(s, m) \/ Acknowledge(s, m) \/ Consume(s, m) \/ ClaimSeen(s, m)
          PROVE wakes' = wakes
      BY <2>6 DEF Compose, Acknowledge, Consume, ClaimSeen
    <2> QED
      BY <1>3, <2>1, <2>2, <2>3, <2>4, <2>5, <2>6 DEF SessionStep
  <1> QED
    BY <1>1, <1>2, <1>3 DEF Next

\* SteeredReplyNotWoken for every instance: message_end claims before the run goes on, and
\* a pass claims only what nobody has claimed; a claim that an expired reply did not get is
\* not asked for again.
THEOREM NoTurnForSteered == Spec => SteeredReplyNotWoken
  <1> DEFINE Inv == Shape /\ TurnsInv /\ PassInv
  <1>1. Init => Inv
    BY ShapeInit, TurnsInit, PassInit
  <1>2. Inv /\ [Next]_vars => Inv' /\ [\A m \in consumed : wakes'[m] = wakes[m]]_vars
    BY ShapeStep, TurnsStep, PassStep, SteeredStep
  <1> QED
    BY <1>1, <1>2, PTL DEF Spec, SteeredReplyNotWoken
=============================================================================
