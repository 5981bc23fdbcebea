------------------------------- MODULE Worktree -------------------------------
(***************************************************************************)
(* The git worktree of an isolated subagent                                *)
(* (extensions/_shared/subagent-worktree.ts, and its calls in              *)
(* runSingleAgent).  It is made from a commit, handed to the child, and    *)
(* inventoried once the child ended by one git command after another.      *)
(* Nothing ever deletes it, so the user must be told of it whatever fails. *)
(*                                                                         *)
(* A file is what it holds in the child's HEAD, in its index and in its    *)
(* working tree.  Bound: MaxEdits of the child.                            *)
(***************************************************************************)
EXTENDS Naturals

CONSTANT MaxEdits

Files == {"tracked", "absent"}
Base == [f \in Files |-> IF f = "tracked" THEN "base" ELSE "none"]
Contents == {"base", "new", "none"}
Unread == [status |-> "none", listed |-> {}, patch |-> "omitted"]

VARIABLES
  phase,     \* "idle", "check", "add", "child", "read" or "told"
  dirty,     \* the parent checkout holds uncommitted work
  explicit,  \* the call names a baseRevision
  exists,    \* the worktree is on disk
  head, index, work,
  hidden,    \* the files that .gitignore names
  edits,
  ended,     \* how the child ended; a failed one may have left processes behind
  next,      \* the git command that finishSubagentWorktree comes to
  report,    \* what it has: status, listed files, patch
  shown      \* the answer names the worktree's path

vars == <<phase, dirty, explicit, exists, head, index, work, hidden, edits, ended, next, report, shown>>
tree == <<head, index, work, edits>>

Init ==
  /\ phase = "idle" /\ dirty = FALSE /\ explicit = FALSE /\ exists = FALSE
  /\ head = Base /\ index = Base /\ work = Base /\ hidden = {} /\ edits = 0
  /\ ended = "none" /\ next = 0 /\ report = Unread /\ shown = FALSE

\* The user's own work in the parent checkout, before and while the call looks at it.
EditParent ==
  /\ phase \in {"idle", "check"} /\ dirty' = ~dirty
  /\ UNCHANGED <<phase, explicit, exists, tree, hidden, ended, next, report, shown>>

Ask(named, ignored) ==
  /\ phase = "idle" /\ phase' = "check" /\ explicit' = named /\ hidden' = ignored
  /\ UNCHANGED <<dirty, exists, tree, ended, next, report, shown>>

\* createSubagentWorktree, before anything is made: a git environment override, a dirty
\* parent without a revision, an unknown revision or the caller's end of the call.
Refuse ==
  /\ phase = "check" /\ phase' = "told" /\ ended' = "setup"
  /\ UNCHANGED <<dirty, explicit, exists, tree, hidden, next, report, shown>>

Accept ==
  /\ phase = "check" /\ (dirty => explicit) /\ phase' = "add"
  /\ UNCHANGED <<dirty, explicit, exists, tree, hidden, ended, next, report, shown>>

\* git worktree add of the commit, and the handle that owns the result.
Add ==
  /\ phase = "add" /\ phase' = "child" /\ exists' = TRUE
  /\ UNCHANGED <<dirty, explicit, tree, hidden, ended, next, report, shown>>

\* It fails or is stopped, with or without a tree: the error names the path.
AddFails ==
  /\ phase = "add" /\ phase' = "told" /\ exists' \in BOOLEAN /\ shown' = TRUE /\ ended' = "setup"
  /\ UNCHANGED <<dirty, explicit, tree, hidden, next, report>>

\* The child, and what a failed one left running, change files and use git.
Edits ==
  \/ \E f \in Files, c \in Contents : work' = [work EXCEPT ![f] = c] /\ UNCHANGED <<head, index>>
  \/ \E f \in Files : \* git add, git rm --cached, git restore --staged
       \E c \in {work[f], "none", head[f]} : index' = [index EXCEPT ![f] = c] /\ UNCHANGED <<head, work>>
  \/ head' = index /\ UNCHANGED <<index, work>>              \* git commit
  \/ head' = Base /\ index' = Base /\ UNCHANGED work         \* git reset, to the commit it began with
  \/ head' = Base /\ UNCHANGED <<index, work>>               \* git reset --soft

Edit ==
  /\ phase = "child" \/ (phase = "read" /\ ended = "failed")
  /\ edits < MaxEdits /\ edits' = edits + 1 /\ Edits
  /\ UNCHANGED <<phase, dirty, explicit, exists, hidden, ended, next, report, shown>>

\* runPiAgent returns; finishSubagentWorktree follows, whatever the result and also when
\* it threw.
ChildEnds(how) ==
  /\ phase = "child" /\ phase' = "read" /\ ended' = how
  /\ UNCHANGED <<dirty, explicit, exists, tree, hidden, next, report, shown>>

\* What git diff compares with a commit: a file that left the index is one that is gone.
InWork == [f \in Files |-> IF index[f] = "none" THEN "none" ELSE work[f]]
Others == {f \in Files : index[f] = "none" /\ work[f] # "none"}
Differ(one, other) == {f \in Files : one[f] # other[f]}

\* The files that a command of finishSubagentWorktree lists: committed, staged, changed
\* since HEAD, changed since the base; neither tracked nor ignored; ignored.
Lists(n) == CASE n = 1 -> Differ(Base, head)
              [] n = 2 -> Differ(head, index)
              [] n = 3 -> Differ(head, InWork)
              [] n = 4 -> Differ(Base, InWork)
              [] n = 5 -> Others \ hidden
              [] n = 6 -> Others \cap hidden
              [] OTHER -> {}

Read ==
  /\ phase = "read" /\ next < 7 /\ next' = next + 1
  /\ report' = [report EXCEPT !.listed = @ \union Lists(next)]
  /\ UNCHANGED <<phase, dirty, explicit, exists, tree, hidden, ended, shown>>

\* inventory.json is written, unless it is too large.
WriteInventory ==
  /\ phase = "read" /\ next = 7 /\ next' = 8
  /\ report' = [report EXCEPT !.status = "complete"]
  /\ UNCHANGED <<phase, dirty, explicit, exists, tree, hidden, ended, shown>>

\* The identity of the worktree changed, a command failed, or the inventory does not fit.
ReadFails ==
  /\ phase = "read" /\ next < 8 /\ phase' = "told" /\ shown' = TRUE
  /\ report' = [Unread EXCEPT !.status = "incomplete"]
  /\ UNCHANGED <<dirty, explicit, exists, tree, hidden, ended, next>>

\* tracked.patch is written; one that fails or is too large is omitted.
Patch ==
  /\ phase = "read" /\ next = 8 /\ phase' = "told" /\ shown' = TRUE
  /\ \E p \in {"omitted", IF Differ(Base, InWork) = {} THEN "empty" ELSE "available"} :
       report' = [report EXCEPT !.patch = p]
  /\ UNCHANGED <<dirty, explicit, exists, tree, hidden, ended, next>>

Next ==
  \/ EditParent \/ Refuse \/ Accept \/ Add \/ AddFails \/ Edit \/ Read \/ WriteInventory \/ ReadFails \/ Patch
  \/ \E named \in BOOLEAN, ignored \in {{}, {"absent"}} : Ask(named, ignored)
  \/ \E how \in {"completed", "failed"} : ChildEnds(how)

Spec == Init /\ [][Next]_vars

-----------------------------------------------------------------------------
\* The values the variables take.
TypeOK ==
  /\ phase \in {"idle", "check", "add", "child", "read", "told"}
  /\ dirty \in BOOLEAN /\ explicit \in BOOLEAN /\ exists \in BOOLEAN /\ shown \in BOOLEAN
  /\ head \in [Files -> Contents] /\ index \in [Files -> Contents] /\ work \in [Files -> Contents]
  /\ hidden \subseteq Files /\ edits \in 0 .. MaxEdits /\ next \in 0 .. 8
  /\ ended \in {"none", "setup", "completed", "failed"}
  /\ report \in [status : {"none", "incomplete", "complete"}, listed : SUBSET Files, patch : {"omitted", "empty", "available"}]

\* createSubagentWorktree and finishSubagentWorktree ("Never discard it"): whichever step
\* failed, a worktree that is on disk when the call returns is named in its answer.
NeverLost == phase = "told" /\ exists => shown

\* finishSubagentWorktree ("Include committed changes, index-only changes, and working
\* changes, even if net base diff is empty"): once a child ended well, a complete inventory
\* lists every file that its HEAD, its index or its working tree holds differently from the
\* base, whatever it staged, committed, reset or hid behind .gitignore.
NothingOverlooked ==
  phase = "told" /\ ended = "completed" /\ report.status = "complete" =>
    Differ(Base, head) \union Differ(Base, index) \union Differ(Base, work) \subseteq report.listed

\* finishSubagentWorktree: an empty patch stands for no tracked change, and comes with an
\* inventory.
EmptyMeansNone ==
  phase = "told" /\ report.patch # "omitted" =>
    /\ report.status = "complete"
    /\ ended = "completed" => (report.patch = "empty" <=> Differ(Base, InWork) = {})

Sound == NeverLost /\ NothingOverlooked /\ EmptyMeansNone
==============================================================================
