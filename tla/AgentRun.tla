------------------------------ MODULE AgentRun ------------------------------
(***************************************************************************)
(* One child agent, extensions/_shared/pi-agent-runner.ts: a one-shot run  *)
(* (runPiAgent, mode "json") or an interactive one that may ask its parent *)
(* (createInteractivePiAgent, mode "rpc"), with the process that           *)
(* managed-process.ts keeps for it and the process groups its commands     *)
(* leave behind (process-group-ledger.ts).                                 *)
(*                                                                         *)
(* The child is any program: it may ask, report, settle, start again,      *)
(* misbehave, hang, ignore SIGTERM, or exit when it wants.  While it waits *)
(* for an answer it runs no other tool (ask_parent is sequential).  The    *)
(* slot of the scheduler comes or is refused.  Texts are left out: a line  *)
(* of the child is its kind.                                               *)
(***************************************************************************)
EXTENDS Naturals, Sequences

CONSTANTS MaxExchanges,  \* questions the child may ask
          MaxLines,      \* lines the child writes
          MaxUnread,     \* lines that wait in the pipe
          Notes          \* steer and followUp calls

VARIABLES
  mode,      \* "json" or "rpc"
  call,      \* the segment: "new", "queued" for a slot, "open", "idle" when it returned
  exchange,  \* questions asked
  asked,     \* pendingQuestion
  claimed,   \* answerClaimed
  note,      \* note -> "none", "sent", "acked", "refused"
  proc,      \* the managed process: "none", "up", "closing" (finish), "done"
  reason,    \* terminationReason: "none", "aborted", "timeout", "fault"
  teardown,  \* "no", "term", "kill"
  semantic,  \* semanticCompletion
  held,      \* the pipes were open when the teardown was given up
  exit,      \* the leader's exit: "none", "ok", "bad"
  alive,     \* "leader", a "group" of the ledger, a "stray" that left every known group and
             \* holds the pipes (one that closed them too is beyond the parent's knowledge)
  child,     \* "new", "busy", "asking", "settled"
  inp,       \* what the child has not read
  eof,       \* its stdin was ended
  out,       \* what the parent has not read
  lines,     \* lines written
  settled,   \* sawAgentSettled
  watch,     \* the settlement watch: "no", "grace" (its timer runs), "over"
  broken,    \* protocolFailed
  text,      \* the result has an assistant's text: "no", "yes", "error" after a failed turn
  final,     \* "none" or the status of the final result
  cleanup    \* its cleanup: "none", "confirmed", "unconfirmed"

caller == <<call, exchange, asked, claimed, note>>
os     == <<exit, alive>>
owner  == <<proc, reason, teardown, semantic, held>>
peer   == <<child, inp, eof, lines>>
parser == <<settled, watch, broken, text>>
result == <<final, cleanup>>
vars   == <<mode, caller, os, owner, peer, out, parser, result>>

Init ==
  /\ mode \in {"json", "rpc"}
  /\ call = "new" /\ exchange = 0 /\ asked = FALSE /\ claimed = FALSE
  /\ note = [n \in Notes |-> "none"]
  /\ proc = "none" /\ reason = "none" /\ teardown = "no" /\ semantic = FALSE /\ held = FALSE
  /\ exit = "none" /\ alive = {}
  /\ child = "new" /\ inp = {} /\ eof = FALSE /\ out = <<>> /\ lines = 0
  /\ settled = FALSE /\ watch = "no" /\ broken = FALSE /\ text = "no"
  /\ final = "none" /\ cleanup = "none"

-----------------------------------------------------------------------------
\* The managed process ends in one teardown, started by the first of its causes.

Ending == proc # "up" \/ teardown # "no"

\* requestTermination: what was not parsed yet is dropped.
Terminates(why, unread) ==
  IF Ending THEN out' = unread /\ UNCHANGED <<reason, teardown>>
            ELSE reason' = why /\ teardown' = "term" /\ out' = <<>>

\* terminateForProtocol.
Protocol(unread) == broken' = TRUE /\ Terminates("fault", unread)

\* The run timer.
Timeout ==
  /\ ~Ending /\ Terminates("timeout", <<>>)
  /\ UNCHANGED <<mode, caller, os, proc, semantic, held, peer, parser, result>>

\* The settlement watch: complete() after the grace for a natural exit.
GraceElapses ==
  /\ watch = "grace" /\ watch' = "over"
  /\ IF Ending THEN UNCHANGED <<semantic, teardown>> ELSE semantic' = TRUE /\ teardown' = "term"
  /\ UNCHANGED <<mode, caller, os, proc, reason, held, peer, out, settled, broken, text, result>>

\* SIGKILL after the grace of SIGTERM; no process is assumed to obey.
Escalate ==
  /\ proc = "up" /\ teardown = "term" /\ teardown' = "kill"
  /\ UNCHANGED <<mode, caller, os, proc, reason, semantic, held, peer, out, parser, result>>

\* finish, when every known group is gone and the pipes are closed, or by force.
Finish ==
  /\ proc = "up" /\ teardown # "no" /\ alive = {} /\ out = <<>>
  /\ proc' = "closing"
  /\ UNCHANGED <<mode, caller, os, reason, teardown, semantic, held, peer, out, parser, result>>

Force ==
  /\ proc = "up" /\ teardown = "kill"
  /\ proc' = "closing" /\ out' = <<>>
  /\ \/ held' = TRUE
     \/ held' = FALSE /\ alive \subseteq {"group"} /\ out = <<>>
  /\ UNCHANGED <<mode, caller, os, reason, teardown, semantic, peer, parser, result>>

\* What the ledger and the leader's own group show to be alive.
LiveGroups == alive \cap {"leader", "group"}

\* cleanupVerdict, at the end of the time for verification: known groups that live, pipes
\* that were held, and a ledger that cannot be read leave the cleanup unconfirmed.
Verdict(readable) ==
  IF held \/ LiveGroups # {} \/ ~readable THEN "unconfirmed" ELSE "confirmed"

ExitCodeOk == exit = "ok" \/ (semantic /\ (mode = "rpc" => settled))

\* Mutant of Failed: the process groups are not looked at.
FailedAlone ==
  \/ (mode = "rpc" /\ ~settled) \/ text # "yes" \/ ~ExitCodeOk \/ reason # "none"

\* The conditions of finalize and of runPiAgent.
Failed ==
  \/ (mode = "rpc" /\ ~settled) \/ text # "yes" \/ ~ExitCodeOk \/ reason # "none"
  \/ cleanup' = "unconfirmed"

\* Mutant of RefuseNotes: controls that were not acknowledged are forgotten.
KeepNotes == UNCHANGED note

RefuseNotes == note' = [n \in Notes |-> IF note[n] = "sent" THEN "refused" ELSE note[n]]

\* The completion resolves: finalize, or the rest of runPiAgent; the open segment returns.
Finalize(readable) ==
  /\ proc = "closing" /\ proc' = "done"
  /\ cleanup' = Verdict(readable)
  /\ final' = IF reason = "aborted" THEN "canceled" ELSE IF Failed THEN "failed" ELSE "completed"
  /\ RefuseNotes /\ asked' = FALSE
  /\ call' = IF call = "open" THEN "idle" ELSE call
  /\ watch' = IF watch = "grace" THEN "over" ELSE watch
  /\ UNCHANGED <<mode, exchange, claimed, os, reason, teardown, semantic, held, peer, out,
                 settled, broken, text>>

-----------------------------------------------------------------------------
\* Calls of the owner.

\* A segment asks the scheduler for a slot.
AskSlot ==
  /\ call' = "queued"
  /\ UNCHANGED <<mode, exchange, asked, note, os, owner, peer, out, parser, result>>

\* runPiAgent, of an agent that is known and a task that is not too large.
RunPiAgent == mode = "json" /\ call = "new" /\ AskSlot /\ UNCHANGED claimed

\* start of an interactive child that may be canceled already.
Start == mode = "rpc" /\ call = "new" /\ AskSlot /\ UNCHANGED claimed

Answer ==
  /\ call = "idle" /\ final = "none" /\ asked /\ ~claimed
  /\ AskSlot /\ claimed' = TRUE

\* cancel, or an abort of the run: before the process there is nothing to end.
Cancels ==
  IF proc = "none"
  THEN /\ final' = "canceled" /\ cleanup' = "confirmed"
       /\ UNCHANGED <<reason, teardown, out>>
  ELSE Terminates("aborted", out) /\ UNCHANGED result

\* The slot is given: a process starts, or the answer is written.
StartProcess ==
  /\ call = "queued" /\ final = "none" /\ ~claimed
  /\ call' = "open"
  /\ \/ /\ proc' = "up" /\ alive' = {"leader"}
        /\ child' = IF mode = "json" THEN "busy" ELSE "new"
        /\ inp' = IF mode = "rpc" THEN {"prompt"} ELSE {}
        /\ UNCHANGED <<reason, broken>>
     \/ /\ proc' = "closing" /\ reason' = "fault" /\ broken' = (mode = "rpc")
        /\ UNCHANGED <<alive, child, inp>>
  /\ UNCHANGED <<mode, exchange, asked, claimed, note, exit, teardown, semantic, held, eof, lines,
                 out, settled, watch, text, result>>

WriteAnswer ==
  /\ call = "queued" /\ final = "none" /\ claimed
  /\ call' = "open" /\ asked' = FALSE
  /\ \/ /\ proc = "up" /\ "leader" \in alive /\ inp' = inp \union {"answer"}
        /\ UNCHANGED <<broken, reason, teardown, out>>
     \/ /\ proc # "up" \/ "leader" \notin alive
        /\ Protocol(out) /\ UNCHANGED inp
  /\ UNCHANGED <<mode, exchange, claimed, note, os, proc, semantic, held, child, eof, lines,
                 settled, watch, text, result>>

\* The segment finds the run over.
SlotTooLate ==
  /\ call = "queued" /\ final # "none" /\ call' = "idle"
  /\ UNCHANGED <<mode, exchange, asked, claimed, note, os, owner, peer, out, parser, result>>

\* The slot is not given: the queue timed out, or the call was aborted.  The owner of an
\* interactive child then cancels it.
SlotRefused ==
  /\ call = "queued" /\ final = "none" /\ call' = "idle"
  /\ IF mode = "rpc" THEN Cancels
     ELSE /\ final' \in {"failed", "canceled"} /\ cleanup' = "confirmed"
          /\ UNCHANGED <<reason, teardown, out>>
  /\ UNCHANGED <<mode, exchange, asked, claimed, note, os, proc, semantic, held, peer, parser>>

Cancel ==
  /\ final = "none" /\ call # "new"
  /\ mode = "json" => proc = "up"
  /\ Cancels
  /\ UNCHANGED <<mode, caller, os, proc, semantic, held, peer, parser>>

\* steer and followUp.
SendNote(n) ==
  /\ mode = "rpc" /\ note[n] = "none" /\ final = "none" /\ proc # "none" /\ ~asked
  /\ IF proc = "up" /\ "leader" \in alive /\ ~eof
     THEN note' = [note EXCEPT ![n] = "sent"] /\ inp' = inp \union {n}
     ELSE note' = [note EXCEPT ![n] = "refused"] /\ UNCHANGED inp
  /\ UNCHANGED <<mode, call, exchange, asked, claimed, os, owner, child, eof, lines, out, parser, result>>

-----------------------------------------------------------------------------
\* handleRpcLine, or the lines of a one-shot run, applyPiAgentEvent and onEvent.

Reads(line) == proc = "up" /\ out # <<>> /\ Head(out) = line /\ ~broken

ReadIgnored ==
  /\ proc = "up" /\ out # <<>> /\ (broken \/ (mode = "json" /\ Head(out) = "bad"))
  /\ out' = Tail(out)
  /\ UNCHANGED <<mode, caller, os, owner, peer, parser, result>>

\* A later success supersedes the error that the assistant reported.
ReadTurn ==
  /\ \/ Reads("text") /\ text' = "yes"
     \/ Reads("error") /\ text' = "error"
  /\ out' = Tail(out)
  /\ UNCHANGED <<mode, caller, os, owner, peer, settled, watch, broken, result>>

ReadSettled ==
  /\ Reads("settled") /\ out' = Tail(out)
  /\ settled' = TRUE /\ watch' = IF watch = "no" THEN "grace" ELSE watch
  /\ eof' = (mode = "rpc")
  /\ UNCHANGED <<mode, caller, os, owner, child, inp, lines, broken, text, result>>

\* A new run of the child stops the grace; its stdin stays ended.
ReadStart ==
  /\ Reads("start") /\ out' = Tail(out) /\ watch' = "no"
  /\ UNCHANGED <<mode, caller, os, owner, peer, settled, broken, text, result>>

\* handleQuestion: the segment returns with the question.
ReadQuestion ==
  /\ Reads("question")
  /\ IF asked \/ call # "open" \/ exchange >= MaxExchanges
     THEN Protocol(Tail(out)) /\ UNCHANGED <<call, exchange, asked, claimed>>
     ELSE /\ exchange' = exchange + 1 /\ asked' = TRUE /\ claimed' = FALSE /\ call' = "idle"
          /\ out' = Tail(out) /\ UNCHANGED <<reason, teardown, broken>>
  /\ UNCHANGED <<mode, note, os, proc, semantic, held, peer, settled, watch, text, result>>

ReadAck(n) ==
  /\ Reads(n) /\ out' = Tail(out)
  /\ \E outcome \in {"acked", "refused"} : note' = [note EXCEPT ![n] = outcome]
  /\ UNCHANGED <<mode, call, exchange, asked, claimed, os, owner, peer, parser, result>>

\* A line that is no JSON, a dialog without an id, a prompt that is rejected.
ReadBad ==
  /\ mode = "rpc" /\ Reads("bad") /\ Protocol(Tail(out))
  /\ UNCHANGED <<mode, caller, os, proc, semantic, held, peer, settled, watch, text, result>>

\* A line above maxEventBytes.
ReadHuge ==
  /\ Reads("huge") /\ Terminates("fault", Tail(out))
  /\ UNCHANGED <<mode, caller, os, proc, semantic, held, peer, parser, result>>

-----------------------------------------------------------------------------
\* The child.

\* What it writes while it is being terminated is not parsed.
Says(line, next) ==
  /\ proc = "up" /\ "leader" \in alive /\ lines < MaxLines /\ Len(out) < MaxUnread
  /\ lines' = lines + 1 /\ child' = next
  /\ out' = IF reason = "none" THEN Append(out, line) ELSE out
  /\ UNCHANGED <<mode, caller, os, owner, inp, eof, parser, result>>

ChildWorks ==
  /\ child = "busy"
  /\ \/ \E line \in {"text", "error", "bad", "huge"} : Says(line, "busy")
     \/ mode = "rpc" /\ Says("question", "asking")
     \/ Says("settled", "settled")

ChildInsists == child = "asking" /\ Says("question", "asking")
ChildRestarts == child = "settled" /\ Says("start", "busy")

ChildReads(m) ==
  /\ m \in inp /\ "leader" \in alive /\ (m = "answer" => child = "asking") /\ m \notin Notes
  /\ inp' = inp \ {m} /\ child' = "busy"
  /\ UNCHANGED <<mode, caller, os, owner, eof, lines, out, parser, result>>

ChildTakesNote(n) ==
  /\ n \in inp /\ "leader" \in alive /\ proc = "up" /\ child # "new" /\ Len(out) < MaxUnread
  /\ inp' = inp \ {n} /\ out' = IF reason = "none" THEN Append(out, n) ELSE out
  /\ UNCHANGED <<mode, caller, os, owner, child, eof, lines, parser, result>>

\* A command of the child registers its group, which a sealed ledger refuses; or a
\* descendant leaves every known group.
Forks ==
  /\ alive # {} /\ proc = "up"
  /\ \/ teardown = "no" /\ alive' = alive \union {"group"}
     \/ alive' = alive \union {"stray"}
  /\ alive' # alive
  /\ UNCHANGED <<mode, caller, exit, owner, peer, out, parser, result>>

Dies(p) ==
  /\ p \in alive /\ p # "leader" /\ alive' = alive \ {p}
  /\ UNCHANGED <<mode, caller, exit, owner, peer, out, parser, result>>

\* The exit of the leader, natural or by a signal, starts the teardown of the rest.
LeaderExits(how) ==
  /\ "leader" \in alive /\ alive' = alive \ {"leader"} /\ exit' = how
  /\ teardown' = IF Ending THEN teardown ELSE "term"
  /\ UNCHANGED <<mode, caller, proc, reason, semantic, held, peer, out, parser, result>>

Next ==
  \/ Timeout \/ GraceElapses \/ Escalate \/ Finish \/ Force
  \/ \E readable \in BOOLEAN : Finalize(readable)
  \/ RunPiAgent \/ Start \/ Answer \/ StartProcess \/ WriteAnswer \/ SlotTooLate \/ SlotRefused \/ Cancel
  \/ ReadIgnored \/ ReadTurn \/ ReadSettled \/ ReadStart \/ ReadQuestion \/ ReadBad \/ ReadHuge
  \/ \E n \in Notes : SendNote(n) \/ ReadAck(n) \/ ChildTakesNote(n)
  \/ ChildWorks \/ ChildInsists \/ ChildRestarts
  \/ \E m \in {"prompt", "answer"} : ChildReads(m)
  \/ Forks \/ \E p \in {"group", "stray"} : Dies(p)
  \/ \E how \in {"ok", "bad"} : LeaderExits(how)

Spec == Init /\ [][Next]_vars

\* The scheduler gives or refuses slots, timers fire and lines are read.  Nothing is
\* assumed of the child and of its processes.
Fairness ==
  /\ WF_vars(StartProcess \/ WriteAnswer \/ SlotTooLate)
  /\ WF_vars(Timeout) /\ WF_vars(Escalate) /\ WF_vars(Force)
  /\ WF_vars(\E readable \in BOOLEAN : Finalize(readable))

FairSpec == Spec /\ Fairness

-----------------------------------------------------------------------------
\* The values the variables take.
TypeOK ==
  /\ mode \in {"json", "rpc"} /\ call \in {"new", "queued", "open", "idle"}
  /\ exchange \in 0 .. MaxExchanges
  /\ {asked, claimed, semantic, held, eof, settled, broken} \subseteq BOOLEAN
  /\ note \in [Notes -> {"none", "sent", "acked", "refused"}]
  /\ proc \in {"none", "up", "closing", "done"} /\ reason \in {"none", "aborted", "timeout", "fault"}
  /\ teardown \in {"no", "term", "kill"} /\ exit \in {"none", "ok", "bad"}
  /\ alive \subseteq {"leader", "group", "stray"}
  /\ child \in {"new", "busy", "asking", "settled"} /\ inp \subseteq {"prompt", "answer"} \union Notes
  /\ lines \in 0 .. MaxLines /\ Len(out) <= MaxUnread
  /\ watch \in {"no", "grace", "over"} /\ text \in {"no", "yes", "error"}
  /\ final \in {"none", "completed", "failed", "canceled"}
  /\ cleanup \in {"none", "confirmed", "unconfirmed"}

\* pi-agent-runner.ts and managed-process.ts: a run that ends as completed has left no
\* process, and any other end tells of a process that may be left; an end is final.
RunTruthful ==
  /\ final = "completed" => alive = {} /\ (mode = "rpc" => settled)
  /\ final # "none" => alive = {} \/ cleanup = "unconfirmed"

\* runSegment, sendControl, finalize and the teardown: every start, answer, steer and
\* followUp returns, though the child may be silent and its processes immortal.
CallsReturn ==
  /\ (call \in {"queued", "open"}) ~> (call = "idle")
  /\ \A n \in Notes : (note[n] = "sent") ~> (note[n] # "sent")
=============================================================================
