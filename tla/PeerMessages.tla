---------------------------- MODULE PeerMessages ----------------------------
(***************************************************************************)
(* Messages between the Pi sessions of one machine: the files of           *)
(* extensions/_shared/coordinator-state.ts and the extension that writes   *)
(* them (extensions/session-coordinator/index.ts).                         *)
(*                                                                         *)
(* A message goes from the sender's tool call into the inbox directory of  *)
(* the recipient's current runtime, from there to the durable receipts of  *)
(* the recipient's session, and then into that session's transcript, as a  *)
(* card of an idle session or steered into a run.  Requests and replies    *)
(* may start a turn of their own, once.  The sender keeps a status record  *)
(* that both sides raise.  Every file is changed under an interprocess     *)
(* lock or by an atomic rename, in one step here; between two of them      *)
(* anything may happen: a runtime may close or die, a turn may begin.      *)
(*                                                                         *)
(* A session has one runtime at a time, numbered by inc; a message stands  *)
(* for one peer_send call.  Presence leases, room ids, the limits on       *)
(* messages per minute, per inbox and per ledger, and sessions without a   *)
(* session file are left out.                                              *)
(***************************************************************************)
EXTENDS Naturals, FiniteSets

CONSTANTS
  Sessions,     \* the Pi sessions
  Messages,     \* the peer_send calls
  From, To,     \* the sessions of a message
  Kind,         \* "notify", "request" (requestResponse) or "reply" (inReplyTo)
  Parent,       \* the message a reply answers
  AckWanted,    \* the messages with requestAcknowledgment
  Expiring,     \* bound: the messages that may outlive their expiresAt
  MaxInc,       \* bound on the runtimes of each session
  MaxTurns,     \* bound on the turns that users start, over all sessions
  MaxFailures   \* bound on crashes and failed writes

Replies  == {m \in Messages : Kind[m] = "reply"}
Requests == {m \in Messages : Kind[m] = "request"}

ASSUME PeerAssumption ==
  /\ IsFiniteSet(Messages)
  /\ From \in [Messages -> Sessions] /\ To \in [Messages -> Sessions]
  /\ \A m \in Messages : From[m] # To[m]
  /\ Kind \in [Messages -> {"notify", "request", "reply"}]
  /\ Parent \in [Replies -> Messages \ Replies]
  /\ \A r \in Replies : From[r] = To[Parent[r]] /\ To[r] = From[Parent[r]]
  /\ AckWanted \subseteq Messages /\ Expiring \subseteq Messages
  /\ MaxInc \in [Sessions -> Nat] /\ MaxTurns \in Nat /\ MaxFailures \in Nat

VARIABLES
  run,       \* a session's runtime: off, on, closing (session_shutdown runs)
  inc,       \* the number of its runtime
  present,   \* the runtime other sessions see, 0 for none
  busy,      \* an agent run is going on
  steered,   \* steeredMessages
  steerQ,    \* the steering queue of the SDK
  received,  \* receivedMessages
  claiming,  \* messages whose message_end handler has still to claim the wake
  work,      \* where processInbox, or the drain of session_shutdown, stands
  send,      \* where the tool call peer_send stands
  made,      \* the messages composed so far
  box,       \* the runtime whose inbox holds the message, 0 for none
  receipt,   \* the session receipts
  copies,    \* visible cards of the message in the transcript in memory
  disk,      \* messages whose card is in the session file
  status,    \* the sender's status record, "none" if there is none
  attempted, \* requests whose reply is claimed (replyAttempted)
  answered,  \* requests whose reply is confirmed (responseAnsweredAt)
  woken,     \* the wake claims
  wakes,     \* automatic turns that name the message
  published, \* messages that were written to an inbox
  consumed,  \* replies that a run took in as steering, with the wake claim written
  expired,   \* messages past their expiresAt
  turns,     \* turns that users started
  failures   \* crashes and failed writes

session == <<run, inc, present, busy, steered, steerQ, received, claiming>>
files   == <<box, receipt, disk, status, attempted, answered, woken>>
history == <<wakes, published, consumed, expired, turns, failures>>
vars    == <<session, work, send, made, copies, files, history>>

Statuses == <<"pending", "queued", "delivered", "surfaced", "acknowledged", "replied">>
Rank(st) == IF st = "none" THEN 0 ELSE CHOOSE i \in DOMAIN Statuses : Statuses[i] = st

Idle == [pc |-> "idle", left |-> {}, m |-> {}]
At(pc, left, m) == [pc |-> pc, left |-> left, m |-> m]
Mine(s) == {m \in Messages : To[m] = s}
Shown == {m \in Messages : copies[m] > 0}

TypeOK ==
  /\ run \in [Sessions -> {"off", "on", "closing"}]
  /\ \A s \in Sessions : inc[s] \in 0..MaxInc[s] /\ present[s] \in {0, inc[s]}
  /\ busy \in [Sessions -> BOOLEAN]
  /\ \A s \in Sessions :
       /\ work[s].pc \in {"idle", "take", "mark", "unbox", "show", "surface", "wake", "clean"}
       /\ work[s].left \subseteq Mine(s) /\ work[s].m \subseteq Mine(s)
       /\ work[s].pc \in {"mark", "unbox", "surface"} => Cardinality(work[s].m) = 1
       /\ send[s].pc \in {"idle", "claim", "enqueue", "fail", "confirm", "replied", "answer"}
       /\ send[s].pc # "idle" => run[s] = "on" /\ busy[s] /\ \E m \in made : send[s].m = {m}
  /\ \A m \in Messages : box[m] \in 0..inc[To[m]]
  /\ copies \in [Messages -> 0..2] /\ wakes \in [Messages -> 0..2]
  /\ status \in [Messages -> {Statuses[i] : i \in DOMAIN Statuses} \union {"none"}]
  /\ steered \union steerQ \union received \union claiming \subseteq Messages
  /\ answered \subseteq attempted /\ attempted \subseteq Requests
  /\ disk \union receipt \union published \union expired \subseteq made
  /\ turns \in 0..MaxTurns /\ failures \in 0..MaxFailures

Init ==
  /\ run = [s \in Sessions |-> "off"] /\ inc = [s \in Sessions |-> 0]
  /\ present = [s \in Sessions |-> 0] /\ busy = [s \in Sessions |-> FALSE]
  /\ steered = {} /\ steerQ = {} /\ received = {} /\ claiming = {}
  /\ work = [s \in Sessions |-> Idle] /\ send = [s \in Sessions |-> [pc |-> "idle", m |-> {}, to |-> 0]]
  /\ made = {} /\ copies = [m \in Messages |-> 0]
  /\ box = [m \in Messages |-> 0] /\ receipt = {} /\ disk = {}
  /\ status = [m \in Messages |-> "none"]
  /\ attempted = {} /\ answered = {} /\ woken = {}
  /\ wakes = [m \in Messages |-> 0] /\ published = {} /\ consumed = {}
  /\ expired = {} /\ turns = 0 /\ failures = 0

\* Mutant of Raise: the last writer decides.
RaiseAlways(m, st) == status' = [status EXCEPT ![m] = IF @ = "none" THEN @ ELSE st]

\* updateOutgoingMessageStatus: a record that exists only moves up.
Raise(m, st) ==
  status' = [status EXCEPT ![m] = IF @ # "none" /\ Rank(st) > Rank(@) THEN st ELSE @]

Fail == failures < MaxFailures /\ failures' = failures + 1

-------------------------------------------------------------------------------
(* The sender: peer_send *)

SendAt(s, pc) == send' = [send EXCEPT ![s] = [pc |-> pc, m |-> @.m, to |-> @.to]]
SendOver(s) == send' = [send EXCEPT ![s] = [pc |-> "idle", m |-> {}, to |-> 0]]

\* listAllActivePeers: the runtime of a session that others see.
Live(s) == present[s] # 0

\* persistOutgoingMessageStatus
Track(m) == status' = [status EXCEPT ![m] = "pending"]

\* The target is resolved, the parent of a reply looked up, and the record written.
Compose(s, m) ==
  /\ run[s] = "on" /\ busy[s] /\ send[s].pc = "idle"
  /\ m \notin made /\ From[m] = s
  /\ Live(To[m])
  /\ m \in Replies => Parent[m] \in received
  /\ made' = made \union {m}
  /\ Track(m)
  /\ send' = [send EXCEPT ![s] =
       [pc |-> IF m \in Replies /\ Parent[m] \in Requests THEN "claim" ELSE "enqueue",
        m |-> {m}, to |-> present[To[m]]]]
  /\ UNCHANGED <<session, work, copies, box, receipt, disk, attempted, answered, woken, history>>

\* Mutant of Claim: the attempt is not recorded.
ClaimUnrecorded(s, m) ==
  /\ send[s].pc = "claim" /\ send[s].m = {m}
  /\ IF Parent[m] \in attempted \union expired
     THEN SendAt(s, "fail") /\ UNCHANGED attempted
     ELSE SendAt(s, "enqueue") /\ attempted' = attempted
  /\ UNCHANGED <<session, work, made, copies, box, receipt, disk, status, answered, woken, history>>

\* claimRequestReply
Claim(s, m) ==
  /\ send[s].pc = "claim" /\ send[s].m = {m}
  /\ IF Parent[m] \in attempted \union expired
     THEN SendAt(s, "fail") /\ UNCHANGED attempted
     ELSE SendAt(s, "enqueue") /\ attempted' = attempted \union {Parent[m]}
  /\ UNCHANGED <<session, work, made, copies, box, receipt, disk, status, answered, woken, history>>

\* enqueueMessage: refused unless the target runtime is still there; a failure after
\* the write (of the lock's release) leaves the message in the inbox.
Enqueue(s, m) ==
  /\ send[s].pc = "enqueue" /\ send[s].m = {m}
  /\ \/ /\ present[To[m]] # send[s].to
        /\ SendAt(s, "fail")
        /\ UNCHANGED <<box, published, failures>>
     \/ /\ present[To[m]] = send[s].to
        /\ box' = [box EXCEPT ![m] = send[s].to]
        /\ published' = published \union {m}
        /\ \/ SendAt(s, "confirm") /\ UNCHANGED failures
           \/ SendAt(s, "fail") /\ Fail
  /\ UNCHANGED <<session, work, made, copies, receipt, disk, status, attempted, answered,
                 woken, wakes, consumed, expired, turns>>

\* removeOutgoingMessageStatus, and the error reaches the model.
SendFail(s, m) ==
  /\ send[s].pc = "fail" /\ send[s].m = {m}
  /\ status' = [status EXCEPT ![m] = "none"]
  /\ SendOver(s)
  /\ UNCHANGED <<session, work, made, copies, box, receipt, disk, attempted, answered, woken, history>>

Confirm(s, m) ==
  /\ send[s].pc = "confirm" /\ send[s].m = {m}
  /\ Raise(m, "queued")
  /\ IF m \in Replies THEN SendAt(s, "replied") ELSE SendOver(s)
  /\ UNCHANGED <<session, work, made, copies, box, receipt, disk, attempted, answered, woken, history>>

Replied(s, m) ==
  /\ send[s].pc = "replied" /\ send[s].m = {m}
  /\ Raise(Parent[m], "replied")
  /\ IF Parent[m] \in Requests THEN SendAt(s, "answer") ELSE SendOver(s)
  /\ UNCHANGED <<session, work, made, copies, box, receipt, disk, attempted, answered, woken, history>>

\* markRequestReplyQueued
Answer(s, m) ==
  /\ send[s].pc = "answer" /\ send[s].m = {m}
  /\ answered' = answered \union {Parent[m]}
  /\ SendOver(s)
  /\ UNCHANGED <<session, work, made, copies, box, receipt, disk, status, attempted, woken, history>>

SendStep(s) == \E m \in Messages : Claim(s, m) \/ Enqueue(s, m) \/ SendFail(s, m)
                                   \/ Confirm(s, m) \/ Replied(s, m) \/ Answer(s, m)

\* peer_acknowledge
Acknowledge(s, m) ==
  /\ run[s] = "on" /\ busy[s] /\ send[s].pc = "idle"
  /\ m \in received \cap AckWanted /\ To[m] = s
  /\ Raise(m, "acknowledged")
  /\ UNCHANGED <<session, work, send, made, copies, box, receipt, disk, attempted, answered,
                 woken, history>>

-------------------------------------------------------------------------------
(* The recipient: processInbox *)

WorkAt(s, pc, left, m) == work' = [work EXCEPT ![s] = At(pc, left, m)]
Stopped(s) == run[s] = "closing"

\* readInbox and adoptSessionInboxMessages: the messages for session s in the inboxes
\* of its runtime and, all runtimes before being dead or withdrawn, of those.
InBox(s) == {m \in Mine(s) : box[m] # 0} \ expired

DropExpired(s) == box' = [m \in Messages |-> IF m \in Mine(s) \cap expired THEN 0 ELSE box[m]]

\* readOutgoingMessageStatuses, readResponseRequestStatus and hasPeerWakeClaim: what the
\* records of the two sessions say of a message.
Tracked(m)     == status[m] # "none"
ReplyTried(m)  == m \in attempted
WakeClaimed(m) == m \in woken

\* hasReplyParent: the request of a reply is one this session sent and still tracks.
HasParent(m) == Tracked(Parent[m]) /\ Parent[m] \notin expired

\* A request without a reply attempt, or a reply to a message of this session.
WantsTurn(m) ==
  /\ m \notin expired
  /\ \/ m \in Requests /\ ~ReplyTried(m)
     \/ m \in Replies /\ HasParent(m)

\* The messages of receivedMessages for which schedulePeerWake will claim a turn.
Wakable(s) == {m \in received \cap Mine(s) : WantsTurn(m) /\ ~WakeClaimed(m)}

\* readSessionReceipts, persistSessionReceipt, removeSessionReceipt
ReceiptsOf(s) == receipt \cap Mine(s)
Receive(m)    == receipt' = receipt \union {m}
Discard(D)    == receipt' = receipt \ D

\* A pass that finds nothing to do is left out.
Poll(s) ==
  /\ run[s] = "on" /\ work[s].pc = "idle"
  /\ InBox(s) \union ReceiptsOf(s) \union Wakable(s) # {}
  /\ WorkAt(s, "take", InBox(s), {})
  /\ DropExpired(s)
  /\ Discard(Mine(s) \cap expired)
  /\ UNCHANGED <<session, send, made, copies, disk, status, attempted, answered, woken, history>>

\* Mutant of Take: the inbox file is removed first.
TakeAtOnce(s, m) ==
  /\ work[s].pc = "take" /\ m \in work[s].left
  /\ WorkAt(s, "unbox", work[s].left \ {m}, {m})
  /\ UNCHANGED <<receipt, failures>>
  /\ UNCHANGED <<session, send, made, copies, box, disk, status, attempted, answered, woken,
                 wakes, published, consumed, expired, turns>>

\* persistReceipt.  A message whose receipt cannot be written stays in the inbox;
\* in session_shutdown the rest of the inbox does too.
Take(s, m) ==
  /\ work[s].pc = "take" /\ m \in work[s].left
  /\ \/ /\ Receive(m)
        /\ WorkAt(s, "mark", work[s].left \ {m}, {m})
        /\ UNCHANGED failures
     \/ /\ m \notin receipt /\ Fail
        /\ WorkAt(s, "take", IF present[s] = 0 THEN {} ELSE work[s].left \ {m}, {})
        /\ UNCHANGED receipt
  /\ UNCHANGED <<session, send, made, copies, box, disk, status, attempted, answered, woken,
                 wakes, published, consumed, expired, turns>>

Mark(s, m) ==
  /\ work[s].pc = "mark" /\ work[s].m = {m}
  /\ Raise(m, "delivered")
  /\ WorkAt(s, "unbox", work[s].left, {m})
  /\ UNCHANGED <<session, send, made, copies, box, receipt, disk, attempted, answered, woken, history>>

\* removeInboxItem
Unbox(s, m) ==
  /\ work[s].pc = "unbox" /\ work[s].m = {m}
  /\ \/ box' = [box EXCEPT ![m] = 0] /\ UNCHANGED failures
     \/ Fail /\ UNCHANGED box
  /\ WorkAt(s, "take", work[s].left, {})
  /\ UNCHANGED <<session, send, made, copies, receipt, disk, status, attempted, answered, woken,
                 wakes, published, consumed, expired, turns>>

EndTake(s) ==
  /\ work[s].pc = "take" /\ work[s].left = {} /\ present[s] # 0
  /\ WorkAt(s, "show", ReceiptsOf(s), {})
  /\ UNCHANGED <<session, send, made, copies, files, history>>

\* shouldSteer, in a busy session
ShouldSteer(m) == WantsTurn(m) /\ m \notin Shown

\* The loop over the receipts in a busy session does not wait for anything: it queues
\* what is urgent as steering, and the pass is over.
Steer(s) ==
  /\ work[s].pc = "show" /\ busy[s]
  /\ LET S == {m \in work[s].left \ steered : ShouldSteer(m)}
     IN steered' = steered \union S /\ steerQ' = steerQ \union S
  /\ work' = [work EXCEPT ![s] = Idle]
  /\ UNCHANGED <<run, inc, present, busy, received, claiming, send, made, copies, files, history>>

\* Mutant of Show: what was queued as steering is never shown by an idle session.
ShowUnsteered(s, m) ==
  /\ work[s].pc = "show" /\ ~busy[s] /\ m \in work[s].left
  /\ LET rest == work[s].left \ {m} IN
     \/ /\ m \in expired
        /\ Discard({m}) /\ steered' = steered \ {m}
        /\ WorkAt(s, "show", rest, {})
        /\ UNCHANGED <<received, copies>>
     \/ /\ m \notin Shown \union expired /\ Stopped(s)
        /\ work' = [work EXCEPT ![s] = Idle]
        /\ UNCHANGED <<steered, received, copies, receipt>>
     \/ /\ m \in steered \ expired /\ m \notin Shown /\ ~Stopped(s)
        /\ WorkAt(s, "show", rest, {})
        /\ UNCHANGED <<steered, received, copies, receipt>>
     \/ /\ m \notin Shown \union expired \union steered /\ ~Stopped(s)
        /\ copies' = [copies EXCEPT ![m] = 1]
        /\ steered' = steered \ {m} /\ received' = received \union {m}
        /\ WorkAt(s, "surface", rest, {m})
        /\ UNCHANGED receipt
     \/ /\ m \in Shown \ expired
        /\ received' = received \union {m}
        /\ WorkAt(s, "surface", rest, {m})
        /\ UNCHANGED <<steered, copies, receipt>>
  /\ UNCHANGED <<run, inc, present, busy, steerQ, claiming, send, made, box, disk, status, attempted,
                 answered, woken, history>>

\* One receipt of the loop in an idle session: it is dropped when expired, and shown
\* unless it is already in the transcript.
Show(s, m) ==
  /\ work[s].pc = "show" /\ ~busy[s] /\ m \in work[s].left
  /\ LET rest == work[s].left \ {m} IN
     \/ /\ m \in expired
        /\ Discard({m}) /\ steered' = steered \ {m}
        /\ WorkAt(s, "show", rest, {})
        /\ UNCHANGED <<received, copies>>
     \/ /\ m \notin Shown \union expired /\ Stopped(s)
        /\ work' = [work EXCEPT ![s] = Idle]
        /\ UNCHANGED <<steered, received, copies, receipt>>
     \/ /\ m \notin Shown \union expired /\ ~Stopped(s)
        /\ copies' = [copies EXCEPT ![m] = 1]
        /\ steered' = steered \ {m} /\ received' = received \union {m}
        /\ WorkAt(s, "surface", rest, {m})
        /\ UNCHANGED receipt
     \/ /\ m \in Shown \ expired
        /\ received' = received \union {m}
        /\ WorkAt(s, "surface", rest, {m})
        /\ UNCHANGED <<steered, copies, receipt>>
  /\ UNCHANGED <<run, inc, present, busy, steerQ, claiming, send, made, box, disk, status, attempted,
                 answered, woken, history>>

\* registerSurfaced
Surface(s, m) ==
  /\ work[s].pc = "surface" /\ work[s].m = {m}
  /\ Raise(m, "surfaced")
  /\ WorkAt(s, "show", work[s].left, {})
  /\ UNCHANGED <<session, send, made, copies, box, receipt, disk, attempted, answered, woken, history>>

\* Mutant of EndShow: the turn is left to the user.
EndShowSilent(s) ==
  /\ work[s].pc = "show" /\ ~busy[s] /\ work[s].left = {}
  /\ WorkAt(s, "clean", {}, {})
  /\ UNCHANGED <<session, send, made, copies, files, history>>

EndShow(s) ==
  /\ work[s].pc = "show" /\ ~busy[s] /\ work[s].left = {}
  /\ WorkAt(s, IF Stopped(s) THEN "clean" ELSE "wake", {}, {})
  /\ UNCHANGED <<session, send, made, copies, files, history>>

\* schedulePeerWake goes through receivedMessages, and claims.  work.m is the batch.
ClaimWake(s, m) ==
  /\ work[s].pc = "wake" /\ ~Stopped(s) /\ m \in Wakable(s)
  /\ woken' = woken \union {m}
  /\ WorkAt(s, "wake", {}, work[s].m \union {m})
  /\ UNCHANGED <<session, send, made, copies, box, receipt, disk, status, attempted, answered, history>>

\* The message with triggerTurn: it starts a turn, or follows the one that the user
\* has started in the meantime.
SendWake(s) ==
  /\ work[s].pc = "wake" /\ (Stopped(s) \/ Wakable(s) \subseteq work[s].m)
  /\ IF Stopped(s) \/ work[s].m = {}
     THEN UNCHANGED <<wakes, busy>>
     ELSE /\ wakes' = [m \in Messages |-> IF m \in work[s].m /\ wakes[m] < 2 THEN wakes[m] + 1
                                          ELSE wakes[m]]
          /\ busy' = [busy EXCEPT ![s] = TRUE]
  /\ WorkAt(s, "clean", {}, {})
  /\ UNCHANGED <<run, inc, present, steered, steerQ, received, claiming, send, made, copies, files,
                 published, consumed, expired, turns, failures>>

\* durableSessionMessageIds: the messages whose card the session file holds.
Durable(s) == disk \cap Mine(s)

\* Mutant of Clean: a card in memory is enough.
CleanShown(s) ==
  /\ work[s].pc = "clean"
  /\ LET D == ReceiptsOf(s) \cap Shown IN Discard(D) /\ steered' = steered \ D
  /\ work' = [work EXCEPT ![s] = Idle]
  /\ UNCHANGED <<run, inc, present, busy, steerQ, received, claiming, send, made, copies, box, disk,
                 status, attempted, answered, woken, history>>

\* The receipts of the messages found in the session file are removed.
Clean(s) ==
  /\ work[s].pc = "clean"
  /\ LET D == ReceiptsOf(s) \cap Durable(s) IN Discard(D) /\ steered' = steered \ D
  /\ work' = [work EXCEPT ![s] = Idle]
  /\ UNCHANGED <<run, inc, present, busy, steerQ, received, claiming, send, made, copies, box, disk,
                 status, attempted, answered, woken, history>>

WorkStep(s) ==
  \/ EndTake(s) \/ Steer(s) \/ EndShow(s) \/ SendWake(s) \/ Clean(s)
  \/ \E m \in Messages : Take(s, m) \/ Mark(s, m) \/ Unbox(s, m) \/ Show(s, m)
                         \/ Surface(s, m) \/ ClaimWake(s, m)

-------------------------------------------------------------------------------
(* The recipient: turns and the SDK *)

StartTurn(s) ==
  /\ run[s] = "on" /\ ~busy[s] /\ turns < MaxTurns
  /\ busy' = [busy EXCEPT ![s] = TRUE] /\ turns' = turns + 1
  /\ UNCHANGED <<run, inc, present, steered, steerQ, received, claiming, work, send, made, copies,
                 files, wakes, published, consumed, expired, failures>>

\* The run ends: by itself, when nothing is queued, or by an abort, which drops the
\* queued steering (interactive) or keeps it (SDK and RPC).
Settle(s) ==
  /\ run[s] = "on" /\ busy[s] /\ send[s].pc = "idle" /\ claiming \cap Mine(s) = {}
  /\ busy' = [busy EXCEPT ![s] = FALSE]
  /\ steerQ' \in {steerQ, steerQ \ Mine(s)}
  /\ UNCHANGED <<run, inc, present, steered, received, claiming, work, send, made, copies, files,
                 history>>

\* clear_queue and the dequeue key.
ClearQueue(s) ==
  /\ run[s] = "on" /\ busy[s]
  /\ steerQ' = steerQ \ Mine(s)
  /\ UNCHANGED <<run, inc, present, busy, steered, received, claiming, work, send, made, copies,
                 files, history>>

\* Mutant of Consume: no look at the transcript.
ConsumeBlindly(s, m) ==
  /\ run[s] = "on" /\ busy[s] /\ m \in steerQ \cap Mine(s) /\ send[s].pc = "idle"
  /\ steerQ' = steerQ \ {m}
  /\ copies' = [copies EXCEPT ![m] = @ + 1]
  /\ UNCHANGED <<received, claiming, status>>
  /\ UNCHANGED <<run, inc, present, busy, steered, work, send, made, box, receipt, disk,
                 attempted, answered, woken, history>>

\* The run takes a queued message in: message_end makes a second copy a hidden stub,
\* and registers the message.
Consume(s, m) ==
  /\ run[s] = "on" /\ busy[s] /\ m \in steerQ \cap Mine(s) /\ send[s].pc = "idle"
  /\ steerQ' = steerQ \ {m}
  /\ IF m \in Shown
     THEN UNCHANGED <<copies, received, claiming, status>>
     ELSE /\ copies' = [copies EXCEPT ![m] = 1]
          /\ IF m \in receipt \cap steered
             THEN /\ received' = received \union {m}
                  /\ claiming' = IF m \in Replies THEN claiming \union {m} ELSE claiming
                  /\ Raise(m, "surfaced")
             ELSE UNCHANGED <<received, claiming, status>>
  /\ UNCHANGED <<run, inc, present, busy, steered, work, send, made, box, receipt, disk,
                 attempted, answered, woken, history>>

\* Mutant of ClaimSeen: no claim.
ClaimNothing(s, m) ==
  /\ m \in claiming \cap Mine(s)
  /\ claiming' = claiming \ {m}
  /\ \/ /\ woken' = woken
        /\ consumed' = consumed \union {m}
        /\ UNCHANGED failures
     \/ Fail /\ UNCHANGED <<woken, consumed>>
  /\ UNCHANGED <<run, inc, present, busy, steered, steerQ, received, work, send, made, copies,
                 box, receipt, disk, status, attempted, answered, wakes, published, expired, turns>>

\* The claim in message_end, which the run waits for, and which may fail.
ClaimSeen(s, m) ==
  /\ m \in claiming \cap Mine(s)
  /\ claiming' = claiming \ {m}
  /\ \/ /\ woken' = IF m \in expired THEN woken ELSE woken \union {m}
        /\ consumed' = consumed \union {m}
        /\ UNCHANGED failures
     \/ Fail /\ UNCHANGED <<woken, consumed>>
  /\ UNCHANGED <<run, inc, present, busy, steered, steerQ, received, work, send, made, copies,
                 box, receipt, disk, status, attempted, answered, wakes, published, expired, turns>>

\* The session manager writes the transcript.
Flush(s) ==
  /\ run[s] # "off"
  /\ disk' = disk \union ((Shown \cap Mine(s)) \ claiming)
  /\ disk' # disk
  /\ UNCHANGED <<session, work, send, made, copies, box, receipt, status, attempted, answered,
                 woken, history>>

-------------------------------------------------------------------------------
(* Start and end of a runtime *)

\* currentPresence, queuePresenceWrite
Announce(s) == present' = [present EXCEPT ![s] = inc[s] + 1]

\* session_start: a new runtime with the receipts and the transcript of its session.
Start(s) ==
  /\ run[s] = "off" /\ inc[s] < MaxInc[s]
  /\ run' = [run EXCEPT ![s] = "on"]
  /\ inc' = [inc EXCEPT ![s] = @ + 1]
  /\ Announce(s)
  /\ received' = received \union (Shown \cap Mine(s))
  /\ Discard(expired)
  /\ UNCHANGED <<busy, steered, steerQ, claiming, work, send, made, copies, box, disk, status,
                 attempted, answered, woken, history>>

\* What is gone with a runtime: its memory and the cards not written.
Forget(s) ==
  /\ busy' = [busy EXCEPT ![s] = FALSE]
  /\ steered' = steered \ Mine(s) /\ steerQ' = steerQ \ Mine(s)
  /\ received' = received \ Mine(s) /\ claiming' = claiming \ Mine(s)
  /\ copies' = [m \in Messages |-> IF m \in Mine(s) \ disk THEN 0 ELSE copies[m]]
  /\ work' = [work EXCEPT ![s] = Idle]
  /\ send' = [send EXCEPT ![s] = [pc |-> "idle", m |-> {}, to |-> 0]]

\* session_shutdown: processInbox is stopped and waited for.
Close(s) ==
  /\ run[s] = "on" /\ ~busy[s]
  /\ run' = [run EXCEPT ![s] = "closing"]
  /\ UNCHANGED <<inc, present, busy, steered, steerQ, received, claiming, work, send, made, copies,
                 files, history>>

\* removeRuntimeState: no more messages are accepted, those in the inbox are taken.
Withdraw(s) ==
  /\ run[s] = "closing" /\ work[s].pc = "idle" /\ present[s] # 0
  /\ present' = [present EXCEPT ![s] = 0]
  /\ WorkAt(s, "take", {m \in InBox(s) : box[m] = inc[s]}, {})
  /\ UNCHANGED <<run, inc, busy, steered, steerQ, received, claiming, send, made, copies, files,
                 history>>

Stop(s) ==
  /\ run[s] = "closing" /\ present[s] = 0 /\ work[s].pc = "take" /\ work[s].left = {}
  /\ run' = [run EXCEPT ![s] = "off"]
  /\ Forget(s)
  /\ UNCHANGED <<inc, present, made, files, history>>

Crash(s) ==
  /\ run[s] # "off" /\ Fail
  /\ run' = [run EXCEPT ![s] = "off"]
  /\ present' = [present EXCEPT ![s] = 0]
  /\ Forget(s)
  /\ UNCHANGED <<inc, made, files, wakes, published, consumed, expired, turns>>

\* A reply expires after the message it answers.
Expire(m) ==
  /\ m \in (Expiring \cap made) \ expired
  /\ m \in Replies => Parent[m] \in expired
  /\ expired' = expired \union {m}
  /\ UNCHANGED <<session, work, send, made, copies, files, wakes, published, consumed, turns,
                 failures>>

SessionStep(s) ==
  \/ Poll(s) \/ WorkStep(s) \/ SendStep(s)
  \/ StartTurn(s) \/ Settle(s) \/ ClearQueue(s) \/ Flush(s)
  \/ Start(s) \/ Close(s) \/ Withdraw(s) \/ Stop(s) \/ Crash(s)
  \/ \E m \in Messages : Compose(s, m) \/ Acknowledge(s, m) \/ Consume(s, m) \/ ClaimSeen(s, m)

Next == (\E s \in Sessions : SessionStep(s)) \/ (\E m \in Messages : Expire(m))

Spec == Init /\ [][Next]_vars

\* The poll timer fires and its pass goes on, runs end, entries are written.  The
\* passes and runs of a session alternate as long as users do not start more turns.
Fairness ==
  \A s \in Sessions :
    /\ WF_vars(Poll(s)) /\ WF_vars(WorkStep(s)) /\ WF_vars(SendStep(s))
    /\ WF_vars(Settle(s)) /\ WF_vars(Flush(s))
    /\ \A m \in Messages : WF_vars(ClaimSeen(s, m))

FairSpec == Spec /\ Fairness

-------------------------------------------------------------------------------
(* Properties *)

\* persistReceipt, adoptSessionInboxMessages, removeRuntimeState, durableSessionMessageIds:
\* from its publication until it expires a message is in an inbox, in the receipts of its
\* session or in the session file, whoever closes or dies between the steps.
NothingLost ==
  \A m \in published \ expired : box[m] # 0 \/ m \in receipt \union disk

\* claimRequestReply: at most one reply to a request is ever published, also after
\* crashes, failures and restarts.
AtMostOneReply ==
  \A r, t \in Replies \cap published : Parent[r] = Parent[t] /\ Parent[r] \in Requests => r = t

\* claimPeerWake, hasSessionMessage, message_end: a message starts at most one automatic
\* turn and has at most one visible card, although receipts are processed again, sessions
\* restart, and a run takes in a steered message that the idle session has shown again.
NeverTwice == \A m \in Messages : wakes[m] <= 1 /\ copies[m] <= 1

\* The table of statuses (session-coordinator/README.md): a status claims no more than
\* what is durable, and "answered" means that a reply was published.
StatusTruthful ==
  \A m \in Messages :
    /\ Rank(status[m]) >= Rank("queued") => m \in published
    /\ Rank(status[m]) >= Rank("delivered") /\ m \notin expired => m \in receipt \union disk
    /\ status[m] = "replied" \/ m \in answered
         => \E r \in Replies \cap published : Parent[r] = m

\* Lifecycle writes are monotonic: a late write of either side takes nothing back.
StatusMonotone ==
  [][\A m \in Messages : status'[m] = "none" \/ Rank(status'[m]) >= Rank(status[m])]_vars

\* registerSurfaced: a reply that a run has already seen as steering starts no turn.
SteeredReplyNotWoken ==
  [][\A m \in consumed : wakes'[m] = wakes[m]]_vars

\* A published message comes into the transcript of its session, unless it expires or the
\* session ends.
Delivered ==
  \A m \in Messages : m \in published
    ~> (m \in Shown \union expired \/ run[To[m]] # "on")

\* A request that its session has seen gets an answer attempt or its one turn.
RequestsGetTurn ==
  \A q \in Requests : q \in received
    ~> (q \in woken \union attempted \union expired \/ run[To[q]] # "on")
=============================================================================
