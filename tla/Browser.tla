------------------------------- MODULE Browser -------------------------------
(***************************************************************************)
(* The persistent browsers of pi-browser-capture: BrowserRuntime of        *)
(* src/index.ts (the browser_* tools) and NativeAppRuntime of              *)
(* src/app-testing.ts (app_inspect).  One browser with tabs, one operation *)
(* at a time, and an index that says which tab is active.                  *)
(*                                                                         *)
(* Pages open and close tabs by themselves, a browser may die, a launch    *)
(* may fail, and the session ends at any time: session_shutdown does not   *)
(* wait for its turn.  The index counts from 1 here, from 0 in the code.   *)
(***************************************************************************)
EXTENDS Integers, Sequences, SequencesExt

CONSTANTS MaxPages,     \* tabs ever opened
          MaxCalls      \* tools that wait for their turn

VARIABLES
  app,        \* NativeAppRuntime, which is never reset
  context,    \* this.context: "none", "open", or "dead" when the browser is gone
  alive,      \* browsers that run
  pages,      \* the open tabs, in order
  opened,     \* how many tabs were opened
  active,     \* activePageIndex
  queue,      \* operations that wait
  op,         \* the operation under way, with how far it is
  told,       \* the tab that was reported to be active, 0 if none was, or a tab
              \* opened or closed by itself since
  acted,      \* the tab that the operation acts on, 0 if none
  ended, raced  \* the session has ended; an operation was under way then

tabs == <<context, alive, pages, opened, active>>
report == <<told, acted>>
session == <<ended, raced>>
vars == <<app, tabs, queue, op, report, session>>

Idle == [kind |-> "none", at |-> "done", tab |-> 0]
Kinds == {"open", "new_tab", "list", "act", "close"}
Operations ==
  [kind : Kinds, at : {"start"}, tab : {0}]
  \union [kind : {"switch", "close_tab"}, at : {"start"}, tab : 1 .. 2]
  \union [kind : {"close_tab"}, at : {"start"}, tab : {0}]  \* the active tab

Smaller(i, j) == IF i < j THEN i ELSE j

Init ==
  /\ app \in BOOLEAN /\ context = "none" /\ alive = 0 /\ pages = <<>> /\ opened = 0 /\ active = 1
  /\ queue = <<>> /\ op = Idle /\ told = 0 /\ acted = 0
  /\ ended = FALSE /\ raced = FALSE

Call ==
  /\ ~ended /\ Len(queue) < MaxCalls
  /\ \E c \in Operations : (app => c.kind # "close") /\ queue' = Append(queue, c)
  /\ UNCHANGED <<app, tabs, op, report, session>>

\* run: operations take turns.
Begin ==
  /\ op = Idle /\ queue # <<>> /\ op' = Head(queue) /\ queue' = Tail(queue)
  /\ UNCHANGED <<app, tabs, report, session>>

\* The operation is over: the tab it tells of, or an error.
Tells(page) == op' = Idle /\ told' = page /\ acted' = 0
Fails == op' = Idle /\ told' = told /\ acted' = 0

-----------------------------------------------------------------------------
\* shutdown: the context is forgotten at once, and closed; NativeAppRuntime keeps the index.
Forget ==
  /\ context' = "none" /\ pages' = <<>> /\ active' = (IF app THEN active ELSE 1) /\ opened' = opened
  /\ alive' = (IF context = "open" THEN alive - 1 ELSE alive)

\* browser_open resets the browser first, browser_close does no more than that.
Reset ==
  /\ op.kind \in {"open", "close"} /\ op.at = "start" /\ ~app /\ Forget
  /\ op' = (IF op.kind = "close" THEN Idle ELSE [op EXCEPT !.at = "reset"]) /\ told' = 0
  /\ UNCHANGED <<app, queue, acted, session>>

\* The operation needs the context.
NeedsBrowser == op.at = "reset" \/ (op.at = "start" /\ (op.kind \notin {"none", "open", "close"} \/ app))

\* ensureContext: launched when there is none.
Launch ==
  /\ NeedsBrowser /\ context = "none" /\ op' = [op EXCEPT !.at = "launching"]
  /\ UNCHANGED <<app, tabs, queue, report, session>>

Launched ==
  /\ op.at = "launching" /\ opened < MaxPages
  /\ context' = "open" /\ alive' = alive + 1 /\ opened' = opened + 1 /\ pages' = <<opened'>>
  /\ active' \in {active, 1}  \* a first tab that the runtime opens itself is announced
  /\ op' = [op EXCEPT !.at = "ready"]
  /\ UNCHANGED <<app, queue, report, session>>

LaunchFails ==
  /\ op.at = "launching" /\ Fails /\ UNCHANGED <<app, tabs, queue, session>>

Ready ==
  /\ NeedsBrowser /\ context # "none" /\ op' = [op EXCEPT !.at = "ready"]
  /\ UNCHANGED <<app, tabs, queue, report, session>>

\* pages(): a new tab when there is none; it fails when the browser is gone.
Opens ==
  /\ opened < MaxPages /\ opened' = opened + 1 /\ pages' = Append(pages, opened')
  /\ UNCHANGED <<context, alive>>

NewPage ==
  /\ op.at = "ready" /\ op.kind \notin {"new_tab"} /\ context = "open" /\ pages = <<>>
  /\ Opens /\ active' = 1 /\ UNCHANGED <<app, queue, op, report, session>>

Gone ==
  /\ op.at = "ready" /\ context # "open" /\ Fails
  /\ UNCHANGED <<app, tabs, queue, session>>

\* activePage clamps the index.
Clamped == Smaller(active, Len(pages))

ActivePage(page) == active' = Clamped /\ page = pages[Clamped]

\* navigate, click, type, wait, extract, evaluate, screenshot, export, and opening a URL.
Act ==
  /\ op.at = "ready" /\ op.kind \in {"open", "act"} /\ context = "open" /\ pages # <<>>
  /\ \E page \in 0 .. MaxPages : ActivePage(page) /\ acted' = page
  /\ told' = (IF told = 0 THEN acted' ELSE told)
  /\ op' = [op EXCEPT !.at = "acting"] /\ UNCHANGED <<app, context, alive, pages, opened, queue, session>>

\* The operation ends, or fails; a result describes the tab that was acted upon.
Acted ==
  /\ op.at = "acting" /\ Fails
  /\ UNCHANGED <<app, tabs, queue, session>>

NewTab ==
  /\ op.at = "ready" /\ op.kind = "new_tab" /\ context = "open"
  /\ Opens /\ active' = Len(pages') /\ Tells(opened')
  /\ UNCHANGED <<app, queue, session>>

\* list_tabs and state: the tab at the index is the active one.
List ==
  /\ op.at = "ready" /\ op.kind = "list" /\ context = "open" /\ pages # <<>>
  /\ Tells(IF active \in DOMAIN pages THEN pages[active] ELSE 0)
  /\ UNCHANGED <<app, tabs, queue, session>>

Switch ==
  /\ op.at = "ready" /\ op.kind = "switch" /\ context = "open" /\ pages # <<>>
  /\ IF op.tab \in DOMAIN pages THEN active' = op.tab /\ Tells(pages[op.tab]) ELSE active' = active /\ Fails
  /\ UNCHANGED <<app, context, alive, pages, opened, queue, session>>

\* close_tab: the tab is chosen, then closed, then the index is set.
ChooseTab ==
  LET target == IF op.tab = 0 THEN active ELSE op.tab IN
  /\ op.at = "ready" /\ op.kind = "close_tab" /\ context = "open" /\ pages # <<>>
  /\ IF Len(pages) = 1 \/ target \notin DOMAIN pages THEN Fails
     ELSE op' = [op EXCEPT !.at = "closing", !.tab = target] /\ acted' = pages[target] /\ told' = told
  /\ UNCHANGED <<app, tabs, queue, session>>

Without(page) ==
  IF page \in Range(pages) THEN RemoveAt(pages, CHOOSE i \in DOMAIN pages : pages[i] = page) ELSE pages

TabClosed ==
  /\ op.at = "closing" /\ context = "open"
  /\ LET remaining == Without(acted) IN
     /\ remaining # <<>> /\ pages' = remaining
     /\ active' = Smaller(IF app THEN active ELSE op.tab, Len(remaining))
     /\ Tells(remaining[active'])
  /\ UNCHANGED <<app, context, alive, opened, queue, session>>

TabLost ==
  /\ op.at = "closing" /\ (context # "open" \/ pages = <<>>) /\ Fails
  /\ UNCHANGED <<app, tabs, queue, session>>

-----------------------------------------------------------------------------
\* The page event: a tab that a page opens becomes the active one.
Popup ==
  /\ context = "open" /\ Opens /\ active' = Len(pages') /\ told' = 0
  /\ UNCHANGED <<app, queue, op, acted, session>>

ClosesItself(i) ==
  /\ context = "open" /\ i \in DOMAIN pages /\ pages' = RemoveAt(pages, i) /\ told' = 0
  /\ UNCHANGED <<app, context, alive, opened, active, queue, op, acted, session>>

Dies ==
  /\ context = "open" /\ context' = "dead" /\ alive' = alive - 1 /\ pages' = <<>> /\ told' = 0
  /\ UNCHANGED <<app, opened, active, queue, op, acted, session>>

\* session_shutdown.
SessionEnds ==
  /\ ~ended /\ ended' = TRUE /\ raced' = (op # Idle \/ queue # <<>>) /\ Forget /\ told' = 0
  /\ UNCHANGED <<app, queue, op, acted>>

Next ==
  \/ Call \/ Begin \/ Reset \/ Launch \/ Launched \/ LaunchFails \/ Ready \/ NewPage \/ Gone
  \/ Act \/ Acted \/ NewTab \/ List \/ Switch \/ ChooseTab \/ TabClosed \/ TabLost
  \/ Popup \/ Dies \/ SessionEnds \/ \E i \in 1 .. MaxPages : ClosesItself(i)

Spec == Init /\ [][Next]_vars

-----------------------------------------------------------------------------
\* The values the variables take.
TypeOK ==
  /\ {app, ended, raced} \subseteq BOOLEAN /\ context \in {"none", "open", "dead"} /\ alive \in 0 .. 2
  /\ opened \in 0 .. MaxPages /\ Range(pages) \subseteq 1 .. MaxPages /\ active \in 1 .. MaxPages
  /\ Len(queue) <= MaxCalls /\ {told, acted} \subseteq 0 .. MaxPages

\* activePage and closeTab: an operation acts on a tab that is open, and on the one that
\* was last reported to be active unless pages opened or closed tabs since.
ActsOnActive ==
  op.at = "acting" => acted # 0 /\ (told # 0 => acted = told /\ acted \in Range(pages))

\* run and shutdown: there is one browser at a time, and none after the session, unless
\* the session ended during an operation.
OneBrowser == ~raced => alive <= 1 /\ (ended => alive = 0)

Sound == ActsOnActive /\ OneBrowser
==============================================================================
