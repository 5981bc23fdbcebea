---------------------------- MODULE LiveVariants ----------------------------
(***************************************************************************)
(* The live variant mode of the impeccable skill: a script in the page     *)
(* (live-browser.js), a server between page and agent (live-server.mjs),   *)
(* and the agent with its command line clients (live-poll.mjs, which runs  *)
(* live-accept.mjs, and live-wrap.mjs).  The page offers the variants that *)
(* the agent writes into the source; the development server shows the      *)
(* source in the page when it likes.                                       *)
(*                                                                         *)
(* One tab.  The page may be reloaded at any time and keeps two items of   *)
(* storage; its posts may be lost or overtake each other, and replies      *)
(* reach it only while it is connected.                                    *)
(***************************************************************************)
EXTENDS Naturals, Sequences, FiniteSets

CONSTANTS Ids,        \* sessions
          None,
          Count,      \* variants of a session
          MaxFaults   \* bound on reloads, losses, failures and rare steps

VARIABLES
  page,       \* the script's variables
  saved,      \* localStorage: the session with its visible variant
  handled,    \* localStorage: the session that was decided
  timers,     \* timeouts of handleAccept and cleanup that are pending
  posts,      \* events on their way to the server
  server,     \* pendingEvents, the exit timer; replies on their way to the page; its client
  agent,      \* the session it generates for, and how far it is
  source,     \* how the source has the session, and the variant that was accepted
  dom,        \* variants that the page's wrapper of the session holds, or None without one
  unused,     \* ids of sessions still to come
  verdicts,   \* what the user decided on each session: variants, or 0 to discard
  faults

vars == <<page, saved, handled, timers, posts, server, agent, source, dom, unused, verdicts, faults>>

\* The script before init has looked for a session.  A page that is not open has been
\* torn down; one that is not linked has closed its stream for good.
Fresh ==
  [mode |-> "IDLE", pick |-> TRUE, current |-> None, expected |-> 0, arrived |-> 0, visible |-> 0,
   observer |-> None, scout |-> FALSE, linked |-> TRUE, open |-> TRUE]

Absent == [is |-> "none", variant |-> 0]
Idle == [id |-> None, step |-> "idle"]

Init ==
  /\ page = [Fresh EXCEPT !.scout = TRUE]
  /\ saved = None /\ handled = None
  /\ timers = {} /\ posts = {} /\ faults = 0
  /\ server = [events |-> <<>>, replies |-> <<>>, client |-> FALSE, leaving |-> FALSE, up |-> TRUE]
  /\ agent = Idle
  /\ source = [s \in Ids |-> Absent] /\ dom = [s \in Ids |-> None]
  /\ verdicts = [s \in Ids |-> {}] /\ unused = Ids

pageVars == <<page, saved, handled, timers>>
Event(type, s, v) == [type |-> type, id |-> s, variant |-> v]
Timer(kind, s, v) == [kind |-> kind, id |-> s, variant |-> v]
Fault == faults < MaxFaults /\ faults' = faults + 1

-----------------------------------------------------------------------------
\* saveSession.
Saved(p) == IF p.current = None THEN saved ELSE [id |-> p.current, visible |-> p.visible]

\* handleClick, and Enter of handleKeyDown, which asks for an element that was hovered over
\* but not whether picking is on.
Pick ==
  /\ page.open /\ page.mode = "PICKING" /\ unused # {}
  /\ page' = [page EXCEPT !.mode = "CONFIGURING"]
  /\ UNCHANGED <<saved, handled, timers, posts, server, agent, source, dom, unused, verdicts, faults>>

\* Escape, or a click elsewhere.
Unpick ==
  /\ page.open /\ page.mode = "CONFIGURING" /\ page' = [page EXCEPT !.mode = "PICKING"]
  /\ UNCHANGED <<saved, handled, timers, posts, server, agent, source, dom, unused, verdicts, faults>>

\* togglePick, by its button or by Escape.
TogglePick ==
  /\ page.open /\ Fault
  /\ page' = [page EXCEPT !.pick = ~@,
                !.mode = IF page.pick THEN IF @ \in {"PICKING", "CONFIGURING"} THEN "IDLE" ELSE @
                         ELSE IF @ = "IDLE" THEN "PICKING" ELSE @]
  /\ UNCHANGED <<saved, handled, timers, posts, server, agent, source, dom, unused, verdicts>>

\* Escape with picking off: what handleKeyDown does itself.
Leave ==
  /\ page.open /\ page.mode = "PICKING" /\ ~page.pick /\ page' = [page EXCEPT !.mode = "IDLE"]
  /\ UNCHANGED <<saved, handled, timers, posts, server, agent, source, dom, unused, verdicts, faults>>

\* handleGo, with a new id; captureAndEmit posts the event when it has the picture, or none.
Go ==
  /\ page.open /\ page.mode = "CONFIGURING" /\ unused # {}
  /\ LET s == CHOOSE id \in unused : TRUE IN
     /\ page' = [page EXCEPT !.mode = "GENERATING", !.current = s, !.expected = Count,
                             !.arrived = 0, !.visible = 0, !.observer = s]
     /\ posts' = posts \union {Event("generate", s, 0)} /\ unused' = unused \ {s}
  /\ saved' = Saved(page')
  /\ UNCHANGED <<handled, timers, server, agent, source, dom, verdicts, faults>>

\* cycleVariant.
Cycle(v) ==
  /\ page.open /\ page.mode = "CYCLING"
  /\ v \in 1 .. page.arrived /\ v \in {page.visible - 1, page.visible + 1}
  /\ page' = [page EXCEPT !.visible = v] /\ saved' = Saved(page')
  /\ UNCHANGED <<handled, timers, posts, server, agent, source, dom, unused, verdicts, faults>>

\* The dots of the bar show a variant without saving the session.
Dot(v) ==
  /\ page.open /\ page.mode = "CYCLING" /\ v \in 1 .. page.arrived /\ v # page.visible
  /\ page' = [page EXCEPT !.visible = v]
  /\ UNCHANGED <<saved, handled, timers, posts, server, agent, source, dom, unused, verdicts, faults>>

\* What the timer of handleAccept, cleanup and handleServerLost do to the session.
Ended(p, mode) == [p EXCEPT !.mode = mode, !.current = None, !.observer = None]

\* cleanup looks at the wrapper of its session again two seconds later.
Cleanup == IF page.current = None THEN timers ELSE timers \union {Timer("remove", page.current, 0)}

\* handleAccept, by its button or by Enter.  After 1.8 s the session ends, after 2 s the
\* accepted variant takes the place of its wrapper if that is still there.
Accept ==
  /\ page.open /\ page.mode = "CYCLING" /\ page.current # None /\ page.arrived # 0
  /\ posts' = posts \union {Event("accept", page.current, page.visible)}
  /\ handled' = page.current /\ page' = [page EXCEPT !.mode = "CONFIRMED"]
  /\ timers' = timers \union {Timer(k, page.current, page.visible) : k \in {"end", "swap"}}
  /\ verdicts' = [verdicts EXCEPT ![page.current] = @ \union {page.visible}]
  /\ UNCHANGED <<saved, server, agent, source, dom, unused, faults>>

\* The first timer of handleAccept: it does not look which session it ends.
End(t) ==
  /\ t \in timers /\ t.kind = "end" /\ timers' = timers \ {t}
  /\ page' = Ended(page, "PICKING") /\ saved' = None
  /\ UNCHANGED <<handled, posts, server, agent, source, dom, unused, verdicts, faults>>

\* handleDiscard, by its button or by Escape, and cleanup.
Discard ==
  /\ page.open /\ page.mode = "CYCLING" /\ page.current # None
  /\ posts' = posts \union {Event("discard", page.current, 0)}
  /\ handled' = page.current /\ saved' = None /\ page' = Ended(page, "PICKING") /\ timers' = Cleanup
  /\ verdicts' = [verdicts EXCEPT ![page.current] = @ \union {0}]
  /\ UNCHANGED <<server, agent, source, dom, unused, faults>>

\* The close handler of the stream: replies are lost, and the exit timer starts.
Closed ==
  IF server.client THEN [server EXCEPT !.client = FALSE, !.replies = <<>>, !.leaving = TRUE] ELSE server

\* The exit button: an event, then teardown, which leaves timers and scout as they are.
ExitButton ==
  /\ page.open /\ Fault /\ posts' = posts \union {Event("exit", None, 0)}
  /\ page' = [Ended(page, "IDLE") EXCEPT !.linked = FALSE, !.open = FALSE]
  /\ saved' = None /\ timers' = Cleanup /\ server' = Closed
  /\ UNCHANGED <<handled, agent, source, dom, unused, verdicts>>

-----------------------------------------------------------------------------
\* isSessionHandled: one id is kept, that of the latest decision.
IsHandled(s) == handled = s

Present(d) == {s \in Ids : d[s] # None}

\* resumeSession for the first wrapper of the page; without its bar it gets no further than
\* the script's variables.
Resumed(p, d, s) ==
  LET seen == IF saved # None /\ saved.id = s /\ saved.visible \in 1 .. d[s] THEN saved.visible
              ELSE IF d[s] > 0 THEN 1 ELSE 0
  IN [p EXCEPT !.current = s, !.expected = Count, !.arrived = d[s], !.visible = seen,
               !.mode = IF d[s] >= Count THEN "CYCLING" ELSE "GENERATING",
               !.observer = IF p.open THEN s ELSE @]

\* startVariantObserver: variants that arrive in the wrapper of its session.
More(p, d) == p.observer # None /\ d[p.observer] # None /\ d[p.observer] > p.arrived
Observed(p, d) ==
  IF ~More(p, d) THEN p
  ELSE LET n == d[p.observer] IN
       [p EXCEPT !.arrived = n, !.visible = IF @ = 0 THEN 1 ELSE @, !.expected = Count,
                 !.mode = IF n >= Count THEN "CYCLING" ELSE @]

\* What the scout of init and the session's observer, in that order, make of the page with
\* the wrappers d.
Noticed(d) ==
  LET watched(p) == page' = Observed(p, d) /\ saved' = IF More(p, d) THEN Saved(page') ELSE saved
      found == [page EXCEPT !.scout = FALSE] IN
  IF page.scout /\ Present(d) # {}
  THEN \E first \in Present(d) :
         IF IsHandled(first) THEN watched(found)
         ELSE page' = Resumed(found, d, first) /\ saved' = IF page.open THEN Saved(page') ELSE saved
  ELSE watched(page)

\* The page as the source has the session.
Shown(s) == IF source[s].is = "wrapped" THEN 0 ELSE IF source[s].is = "written" THEN Count ELSE None

\* Hot replacement shows the wrapper of s, with all its variants at once as a rule, or takes
\* it away; or something else in the page changes.
Mutation(s) ==
  /\ \/ Shown(s) # dom[s] /\ dom' = [dom EXCEPT ![s] = Shown(s)] /\ UNCHANGED faults
     \/ page.scout /\ UNCHANGED <<dom, faults>>
     \/ /\ Shown(s) # None /\ Fault
        /\ \E n \in 1 .. Shown(s) - 1 : dom[s] \in {None} \union 0 .. n - 1 /\ dom' = [dom EXCEPT ![s] = n]
  /\ Noticed(dom')
  /\ UNCHANGED <<handled, timers, posts, server, agent, source, unused, verdicts>>

\* The second timer of handleAccept, due after the first, and that of cleanup: the wrapper
\* of the session they were set for gives way to the accepted variant or to the original.
Swap(t) ==
  /\ t \in timers /\ t.kind # "end" /\ timers' = timers \ {t}
  /\ t.kind = "swap" => Timer("end", t.id, t.variant) \notin timers
  /\ IF dom[t.id] # None /\ (t.kind = "swap" => dom[t.id] >= t.variant)
     THEN dom' = [dom EXCEPT ![t.id] = None] /\ Noticed(dom')
     ELSE UNCHANGED <<page, saved, dom>>
  /\ UNCHANGED <<handled, posts, server, agent, source, unused, verdicts, faults>>

\* The page is loaded anew, with the script from the server: init.
Reload ==
  /\ server.up /\ Fault /\ server' = Closed /\ timers' = {}
  /\ dom' \in [Ids -> {None, 0, Count}] /\ \A s \in Ids : dom'[s] \in {None, Shown(s)}
  /\ IF Present(dom') = {}
     THEN page' = [Fresh EXCEPT !.scout = TRUE] /\ saved' = None /\ handled' = None
     ELSE /\ \E first \in Present(dom') :
               IF IsHandled(first) THEN page' = [Fresh EXCEPT !.scout = TRUE] /\ UNCHANGED saved
               ELSE page' = Resumed(Fresh, dom', first) /\ saved' = Saved(page')
          /\ UNCHANGED handled
  /\ posts' \in SUBSET posts
  /\ UNCHANGED <<agent, source, unused, verdicts>>

-----------------------------------------------------------------------------
\* connectSSE, or its next attempt: the stream is open, the exit timer cleared; a page that
\* was idle begins to pick.
Connect ==
  /\ page.linked /\ ~server.client /\ server.up
  /\ server' = [server EXCEPT !.client = TRUE, !.leaving = FALSE]
  /\ page' = [page EXCEPT !.mode = IF @ = "IDLE" THEN "PICKING" ELSE @]
  /\ UNCHANGED <<saved, handled, timers, posts, agent, source, dom, unused, verdicts, faults>>

Disconnect ==
  /\ Fault /\ server.client /\ server' = Closed
  /\ UNCHANGED <<pageVars, posts, agent, source, dom, unused, verdicts>>

\* The exit timer: eight seconds without a client.
Deserted ==
  /\ server.leaving
  /\ server' = [server EXCEPT !.leaving = FALSE, !.events = Append(@, Event("exit", None, 0))]
  /\ UNCHANGED <<pageVars, posts, agent, source, dom, unused, verdicts, faults>>

\* onerror and handleServerLost, after the last retry.
ServerLost ==
  /\ page.linked /\ ~server.client /\ ~server.up
  /\ page' = [Ended(page, "IDLE") EXCEPT !.linked = FALSE] /\ saved' = None
  /\ UNCHANGED <<handled, timers, posts, server, agent, source, dom, unused, verdicts, faults>>

\* POST /events and enqueueEvent, or a post that fails.
Posted(e) ==
  /\ e \in posts /\ posts' = posts \ {e}
  /\ \/ server.up /\ server' = [server EXCEPT !.events = Append(@, e)] /\ UNCHANGED faults
     \/ ~server.up /\ UNCHANGED <<server, faults>>
     \/ Fault /\ UNCHANGED server
  /\ UNCHANGED <<pageVars, agent, source, dom, unused, verdicts>>

\* onmessage: a reply reaches the page, which does not look at its id.
Reply ==
  /\ server.client /\ server.replies # <<>>
  /\ server' = [server EXCEPT !.replies = Tail(@)]
  /\ page' = IF Head(server.replies) = "error" THEN [page EXCEPT !.mode = "PICKING"]
             ELSE IF page.arrived >= page.expected /\ page.expected > 0 /\ page.mode = "GENERATING"
                  THEN [page EXCEPT !.mode = "CYCLING"] ELSE page
  /\ UNCHANGED <<saved, handled, timers, posts, agent, source, dom, unused, verdicts, faults>>

\* handlePollPost and broadcast; a server that is gone takes no reply.
Broadcast(type) == IF server.client THEN [server EXCEPT !.replies = Append(@, type)] ELSE server

-----------------------------------------------------------------------------
\* live-accept.mjs: the wrapper, when the source has it, gives way to what the user chose.
Resolved(e) ==
  IF source[e.id].is = "written" \/ (source[e.id].is = "wrapped" /\ e.type = "discard")
  THEN [source EXCEPT ![e.id] = [is |-> IF e.type = "discard" THEN "restored" ELSE "accepted",
                                 variant |-> e.variant]]
  ELSE source

\* shutdown.
Stopped(s) == [s EXCEPT !.up = FALSE, !.client = FALSE, !.leaving = FALSE, !.replies = <<>>, !.events = <<>>]

\* The agent polls (handlePollGet, pollCli), which resolves decisions at once unless the
\* script fails or refuses the file; on exit it stops the server.  Or the answer goes to a
\* poll that is gone.
Poll ==
  /\ server.up /\ agent = Idle /\ server.events # <<>>
  /\ LET e == Head(server.events)
         left == [server EXCEPT !.events = Tail(@)] IN
     \/ /\ server' = IF e.type = "exit" THEN Stopped(server) ELSE left
        /\ agent' = IF e.type = "generate" THEN [id |-> e.id, step |-> "wrap"] ELSE agent
        /\ IF e.type \in {"accept", "discard"}
           THEN (source' = Resolved(e) /\ UNCHANGED faults) \/ (UNCHANGED source /\ Fault)
           ELSE UNCHANGED <<source, faults>>
     \/ Fault /\ server' = left /\ UNCHANGED <<source, agent>>
  /\ UNCHANGED <<pageVars, posts, dom, unused, verdicts>>

\* live-wrap.mjs.
Wrap ==
  /\ agent.step = "wrap"
  /\ source' = [source EXCEPT ![agent.id].is = "wrapped"] /\ agent' = [agent EXCEPT !.step = "write"]
  /\ UNCHANGED <<pageVars, posts, server, dom, unused, verdicts, faults>>

\* The agent writes the variants in one edit, and replies.
Write ==
  /\ agent.step = "write" /\ source' = [source EXCEPT ![agent.id].is = "written"]
  /\ agent' = [agent EXCEPT !.step = "reply"]
  /\ UNCHANGED <<pageVars, posts, server, dom, unused, verdicts, faults>>

Done ==
  /\ agent.step = "reply" /\ agent' = Idle /\ server' = Broadcast("done")
  /\ UNCHANGED <<pageVars, posts, source, dom, unused, verdicts, faults>>

\* The agent gives up, having taken its edits back.
GiveUp ==
  /\ agent # Idle /\ Fault /\ agent' = Idle /\ server' = Broadcast("error")
  /\ source' = IF source[agent.id].is \in {"wrapped", "written"}
               THEN [source EXCEPT ![agent.id] = Absent] ELSE source
  /\ UNCHANGED <<pageVars, posts, dom, unused, verdicts>>

Next ==
  \/ Pick \/ Unpick \/ TogglePick \/ Leave \/ Go \/ Accept \/ Discard \/ ExitButton
  \/ \E t \in timers : End(t) \/ Swap(t)
  \/ \E s \in Ids : Mutation(s)
  \/ \E v \in 1 .. Count : Cycle(v) \/ Dot(v)
  \/ Reload \/ Connect \/ Disconnect \/ Deserted \/ ServerLost \/ Reply
  \/ \E e \in posts : Posted(e)
  \/ Poll \/ Wrap \/ Write \/ Done \/ GiveUp

Spec == Init /\ [][Next]_vars

-----------------------------------------------------------------------------
\* The values the variables take.
TypeOK ==
  /\ page.mode \in {"IDLE", "PICKING", "CONFIGURING", "GENERATING", "CYCLING", "CONFIRMED"}
  /\ page.current \in Ids \union {None} /\ page.arrived \in 0 .. Count /\ page.visible \in 0 .. Count
  /\ handled \in Ids \union {None} /\ agent.step \in {"idle", "wrap", "write", "reply"}
  /\ \A s \in Ids : source[s].is \in {"none", "wrapped", "written", "restored", "accepted"}

\* live-accept.mjs: the source of a session becomes what the user chose for that session,
\* however the page was reloaded, and whatever session it had taken up meanwhile.
DecisionsKept ==
  \A s \in Ids :
    source[s].is \in {"accepted", "restored"} => source[s].variant \in verdicts[s]

\* handleAccept, cleanup, resumeSession: a variant that the page offers is there, of the
\* session it works on, whose observer is the only one; and a reload would find that session.
OfferHolds ==
  /\ page.observer \in {None, page.current}
  /\ page.open /\ page.mode = "CYCLING" =>
       /\ page.current # None /\ page.arrived >= page.expected
       /\ page.visible \in 1 .. page.arrived
  /\ page.open /\ page.mode \in {"GENERATING", "CYCLING"} => saved # None /\ saved.id = page.current

\* markSessionHandled: a session is not offered again while the page remembers that it was
\* decided.
NotAgain == page.open /\ page.mode = "CYCLING" => page.current # handled

Sound == DecisionsKept /\ OfferHolds /\ NotAgain
==============================================================================
