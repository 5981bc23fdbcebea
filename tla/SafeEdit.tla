------------------------------- MODULE SafeEdit -------------------------------
(***************************************************************************)
(* The safe_edit tool: a preview of exact replacements in one file of the  *)
(* workspace, kept in memory, and its later application, which checks the  *)
(* file twice and renames a written copy over it.  The calls of a session  *)
(* run one after the other; other programs change the file, what the       *)
(* requested path leads to, and the file's inode, between any two awaits.  *)
(* A text stands for the digest that is compared and for the bytes.        *)
(***************************************************************************)
EXTENDS Naturals, FiniteSets

CONSTANTS
  Texts,        \* what a file may hold
  Modes,        \* permission bits
  Inodes,       \* inode numbers, reused once free: more of them than files
  MaxKept,      \* previews kept at once: 8 in the code
  MaxCalls,     \* bound: tool calls
  MaxOutside    \* bound: changes made by other programs

Files == {"f", "g"}
Bad == "bad"          \* binary, oversized, linked twice, a link, special bits, or gone
Away == "away"        \* the requested path leads out of the workspace, or nowhere
NoPreview == [id |-> 0]
NoCall == [at |-> "idle"]
NoSwap == [id |-> 0]

VARIABLES
  disk,       \* [Files -> [text, ino, mode]]
  link,       \* where the requested path leads
  previews,   \* the Map, whose order is that of the ids
  call,       \* the call under way and the await it is at
  tmp,        \* the copy lies beside the file
  reply,      \* of the call that ended last
  calls, outside,
  swap        \* history: the last rename, and what it met

vars == <<disk, link, previews, call, tmp, reply, calls, outside, swap>>

Held == [text : Texts \union {Bad}, ino : Inodes, mode : Modes]
Preview == [id : 1 .. MaxCalls, file : Files, before : Texts, after : Texts, ino : Inodes, mode : Modes]

TypeOK ==
  /\ disk \in [Files -> Held] /\ link \in Files \union {Away}
  /\ previews \subseteq Preview /\ Cardinality(previews) <= MaxKept
  /\ call.at \in {"idle", "asked", "first path", "first read", "write", "second path", "second read", "rename"}
  /\ tmp \in BOOLEAN /\ reply \in {"none", "previewed", "applied", "unchanged", "error"}
  /\ calls \in 0 .. MaxCalls /\ outside \in 0 .. MaxOutside
  /\ swap = NoSwap \/ swap.id \in 1 .. MaxCalls

Free == Inodes \ {disk[f].ino : f \in Files}

Init ==
  /\ disk \in {d \in [Files -> [text : Texts, ino : Inodes, mode : Modes]] : d["f"].ino # d["g"].ino}
  /\ link = "f" /\ previews = {} /\ call = NoCall /\ tmp = FALSE
  /\ reply = "none" /\ calls = 0 /\ outside = 0 /\ swap = NoSwap

(* prune: the previews older than ten minutes are the first of the Map. *)
Pruned == {{p \in previews : p.id > n} : n \in 0 .. calls}

Without(kept, id) == {p \in kept : p.id # id}
Found(kept, id) == \E p \in kept : p.id = id
Oldest(kept) == CHOOSE p \in kept : \A q \in kept : p.id <= q.id
Get(kept, id) == CHOOSE p \in kept : p.id = id

Ends(how) == call' = NoCall /\ reply' = how

(* A preview: the path is resolved, then the file is opened and read.  Replacements that do *)
(* not fit the text make Bad, and an expected digest may be left out.                       *)
AskPreview ==
  /\ call = NoCall /\ calls < MaxCalls
  /\ calls' = calls + 1
  /\ previews' \in Pruned
  /\ IF link = Away
     THEN Ends("error")
     ELSE /\ \E after, expected \in Texts \union {Bad} :
               call' = [at |-> "asked", file |-> link, after |-> after, expected |-> expected]
          /\ reply' = "none"
  /\ UNCHANGED <<disk, link, tmp, outside, swap>>

KeepPreview ==
  /\ call.at = "asked"
  /\ LET now == disk[call.file]
         room == IF Cardinality(previews) >= MaxKept THEN previews \ {Oldest(previews)} ELSE previews
     IN IF Bad \in {now.text, call.after} \/ call.expected \notin {Bad, now.text}
        THEN Ends("error") /\ UNCHANGED previews
        ELSE /\ previews' = room \union
                  {[id |-> calls, file |-> call.file, before |-> now.text, after |-> call.after,
                    ino |-> now.ino, mode |-> now.mode]}
             /\ Ends("previewed")
  /\ UNCHANGED <<disk, link, tmp, calls, outside, swap>>

(* apply: the preview is looked up before the wait for the file's queue. *)
AskApply ==
  /\ call = NoCall /\ calls < MaxCalls
  /\ calls' = calls + 1
  /\ \E kept \in Pruned, id \in 1 .. calls, expected \in Texts :
       /\ previews' = kept
       /\ IF ~Found(kept, id) \/ expected # Get(kept, id).before
          THEN Ends("error")
          ELSE /\ call' = [at |-> "first path", preview |-> Get(kept, id), aborted |-> FALSE,
                           turned |-> FALSE, touched |-> FALSE]
               /\ reply' = "none"
  /\ UNCHANGED <<disk, link, tmp, outside, swap>>

Applying == call.at \in {"first path", "first read", "write", "second path", "second read", "rename"}

(* check, up to where the path leads: made once before the copy and once after it. *)
CheckPath(at, then) ==
  /\ call.at = at
  /\ IF call.aborted \/ link # call.preview.file
     THEN Ends("error") /\ tmp' = FALSE
     ELSE /\ call' = [call EXCEPT !.at = then, !.turned = FALSE]
          /\ UNCHANGED <<tmp, reply>>
  /\ UNCHANGED <<disk, link, previews, calls, outside, swap>>

Same(now, preview) == now.ino = preview.ino /\ now.mode = preview.mode /\ now.text = preview.before

(* The rest of check: what the file holds, its inode and its mode. *)
CheckFile(at, then) ==
  /\ call.at = at
  /\ LET p == call.preview IN
     IF ~Same(disk[p.file], p)
     THEN Ends("error") /\ tmp' = FALSE /\ UNCHANGED previews
     ELSE IF at = "first read" /\ p.before = p.after
     THEN /\ previews' = Without(previews, p.id)
          /\ Ends("unchanged") /\ UNCHANGED tmp
     ELSE /\ call' = [call EXCEPT !.at = then, !.touched = FALSE]
          /\ UNCHANGED <<previews, tmp, reply>>
  /\ UNCHANGED <<disk, link, calls, outside, swap>>

Check ==
  \/ CheckPath("first path", "first read")
  \/ CheckFile("first read", "write")
  \/ CheckPath("second path", "second read")
  \/ CheckFile("second read", "rename")

(* The copy beside the file, written and flushed, with the mode of the preview. *)
WriteCopy ==
  /\ call.at = "write"
  /\ tmp' = TRUE
  /\ call' = [call EXCEPT !.at = "second path"]
  /\ UNCHANGED <<disk, link, previews, reply, calls, outside, swap>>

Rename ==
  /\ call.at = "rename"
  /\ LET p == call.preview IN
     IF call.aborted
     THEN Ends("error") /\ UNCHANGED <<disk, previews, swap>>
     ELSE /\ \E ino \in Free :
               disk' = [disk EXCEPT ![p.file] = [text |-> p.after, ino |-> ino, mode |-> p.mode]]
          /\ previews' = Without(previews, p.id)
          /\ swap' = [id |-> p.id, preview |-> p, was |-> disk[p.file], through |-> link,
                      turned |-> call.turned, touched |-> call.touched]
          /\ Ends("applied")
  /\ tmp' = FALSE
  /\ UNCHANGED <<link, calls, outside>>

(* The file cannot be written, or the copy cannot be made, flushed or renamed. *)
CallFails ==
  /\ call.at \in {"write", "rename"}
  /\ Ends("error") /\ tmp' = FALSE
  /\ UNCHANGED <<disk, link, previews, calls, outside, swap>>

Abort ==
  /\ Applying /\ ~call.aborted
  /\ call' = [call EXCEPT !.aborted = TRUE]
  /\ UNCHANGED <<disk, link, previews, tmp, reply, calls, outside, swap>>

(* session_shutdown drops the previews; a call under way goes on. *)
Clear ==
  /\ previews # {}
  /\ previews' = {}
  /\ UNCHANGED <<disk, link, call, tmp, reply, calls, outside, swap>>

(* Another program writes the file in place, replaces it, or changes its mode. *)
OutsideWrite ==
  /\ outside < MaxOutside
  /\ outside' = outside + 1
  /\ \E f \in Files, now \in Held :
       /\ now # disk[f]
       /\ now.ino \in Free \union {disk[f].ino}
       /\ disk' = [disk EXCEPT ![f] = now]
       /\ call' = IF Applying /\ call.preview.file = f THEN [call EXCEPT !.touched = TRUE] ELSE call
  /\ UNCHANGED <<link, previews, tmp, reply, calls, swap>>

(* The requested path is made to lead elsewhere. *)
OutsideTurn ==
  /\ outside < MaxOutside
  /\ outside' = outside + 1
  /\ link' \in (Files \union {Away}) \ {link}
  /\ call' = IF Applying THEN [call EXCEPT !.turned = TRUE] ELSE call
  /\ UNCHANGED <<disk, previews, tmp, reply, calls, swap>>

Next ==
  \/ AskPreview \/ KeepPreview \/ AskApply \/ Check \/ WriteCopy \/ Rename
  \/ CallFails \/ Abort \/ Clear \/ OutsideWrite \/ OutsideTurn

Spec == Init /\ [][Next]_vars

\* What a rename replaced is what the preview showed, in the file the preview named, unless
\* another program changed it after the last check of it ("A cooperating Pi queue protects the
\* check/rename, not other processes"); the check and the rename are separate awaits.
ReplacesWhatWasShown ==
  swap # NoSwap =>
    /\ ~swap.touched =>
         swap.was = [text |-> swap.preview.before, ino |-> swap.preview.ino, mode |-> swap.preview.mode]
    /\ ~swap.turned => swap.through = swap.preview.file

\* A preview that was applied can be applied no more, though calls fail, are aborted and are
\* repeated; and nothing is left beside the file when the call has ended.
AppliedOnce ==
  /\ swap # NoSwap => ~Found(previews, swap.id)
  /\ call = NoCall => ~tmp

Sound == ReplacesWhatWasShown /\ AppliedOnce
==============================================================================
