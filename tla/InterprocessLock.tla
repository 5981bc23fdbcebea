--------------------------- MODULE InterprocessLock ---------------------------
(***************************************************************************)
(* The interprocess lock of extensions/_shared/file-lock.ts.  A lock is a  *)
(* directory; its owner is the call that created the directory (or opened  *)
(* the one somebody else created), published a marker file in it, and then *)
(* found its own marker to be the only one.  Everything is done with file  *)
(* system calls that other processes interleave with, so every awaited     *)
(* call is an action of its own here.                                      *)
(*                                                                         *)
(* A process may die between any two calls, leaving an empty directory or  *)
(* a marker behind.  Other callers reclaim a directory that has not been   *)
(* modified for staleMs: they delete the markers of dead processes, one by *)
(* one and by name, and then try to rmdir the directory.                   *)
(*                                                                         *)
(* Abstractions.  Marker names (a pid and a fresh UUID) are elements of    *)
(* Names with the pid they carry; a UUID that nothing refers to any more   *)
(* is indistinguishable from a fresh one, so names are reused then.  The   *)
(* clock is reduced to one bit: the directory is "old" once staleMs have   *)
(* passed since its last modification.  A call's timeout may strike        *)
(* whenever the code compares the clock with it.                           *)
(***************************************************************************)
EXTENDS Naturals, FiniteSets

CONSTANTS
  Clients,      \* the concurrent calls of withInterprocessLock on one lock path
  Procs,        \* the operating system processes that make them (their pids)
  PidOf,        \* the process of every client
  Names,        \* the file names that can occur in the lock directory
  NamePid,      \* the pid in every name; NoPid for a file the protocol does not know
  Leftovers,    \* the names an earlier program version, or a person, may have left
  Nobody,       \* the owner of a free lock
  NoPid,
  NoName,
  Inodes,       \* inode numbers for the lock directory
  NoDir,
  MaxCrashes    \* bound on the number of process deaths in a behaviour

ASSUME LockAssumption ==
  /\ PidOf \in [Clients -> Procs]
  /\ NamePid \in [Names -> Procs \union {NoPid}]
  /\ NoPid \notin Procs
  /\ NoName \notin Names
  /\ Leftovers \subseteq Names
  /\ NoDir \notin Inodes
  /\ Nobody \notin Clients
  /\ MaxCrashes \in Nat

VARIABLES
  dir,        \* the inode the lock path names, NoDir when there is none
  files,      \* the names in that directory
  old,        \* the directory's mtime is more than staleMs ago
  up,         \* the processes that are alive
  crashes,    \* how many processes have died so far
  pc,         \* where each call stands
  name,       \* the marker name of the call's current attempt
  handle,     \* the inode the call holds open while it publishes
  todo,       \* names a reclaimer has read and not looked at yet
  victim,     \* the name a reclaimer is about to unlink
  aborted     \* the call's AbortSignal has fired

vars == <<dir, files, old, up, crashes, pc, name, handle, todo, victim, aborted>>

-------------------------------------------------------------------------------
(* Program points *)

Attempting == {"open", "publish", "verify", "list", "closeLost", "dropMarker"}
Owning     == {"closeWon", "held", "critical", "release"}
Waiting    == {"attempt", "rmdirLost", "inspect", "readdir", "reclaim", "reap", "retry"}
Labels     == Attempting \union Owning \union Waiting \union {"idle", "rmdirOwn", "dead"}

\* The calls that own the lock: from the moment they have seen that their
\* marker is alone until they unlink it.
Owns(c) == pc[c] \in Owning

\* The calls whose marker is in the directory.
Published(c) == pc[c] \in {"verify", "list"} \union Owning

\* The calls that have a marker name of their own which they may still use.
Named(c) == pc[c] \in Attempting \union Owning

TypeOK ==
  /\ dir \in Inodes \union {NoDir}
  /\ files \subseteq Names
  /\ old \in BOOLEAN
  /\ up \subseteq Procs
  /\ crashes \in Nat
  /\ pc \in [Clients -> Labels]
  /\ name \in [Clients -> Names \union {NoName}]
  /\ handle \in [Clients -> Inodes \union {NoDir}]
  /\ todo \in [Clients -> SUBSET Names]
  /\ victim \in [Clients -> Names \union {NoName}]
  /\ aborted \in [Clients -> BOOLEAN]

-------------------------------------------------------------------------------
(* The lock path is free, or holds a directory nobody of this version owns. *)
Init ==
  /\ files \in SUBSET Leftovers
  /\ dir \in Inodes \union {NoDir}
  /\ dir # NoDir <=> files # {}
  /\ old = FALSE
  /\ up = {PidOf[c] : c \in Clients}
  /\ crashes = 0
  /\ pc = [c \in Clients |-> "idle"]
  /\ name = [c \in Clients |-> NoName]
  /\ handle = [c \in Clients |-> NoDir]
  /\ todo = [c \in Clients |-> {}]
  /\ victim = [c \in Clients |-> NoName]
  /\ aborted = [c \in Clients |-> FALSE]

Goto(c, l) == pc' = [pc EXCEPT ![c] = l]

\* unlink(name): a name that is already gone is not an error; a removal
\* updates the directory's mtime.
Unlink(n) ==
  /\ files' = files \ {n}
  /\ old' = (old /\ n \notin files)

\* rmdir: removes the directory only when it is empty.
RemoveEmptyLock ==
  IF files = {} /\ dir # NoDir
  THEN dir' = NoDir /\ old' = FALSE
  ELSE UNCHANGED <<dir, old>>

\* A UUID nothing else refers to, prefixed by the caller's pid.
FreshName(c, n) ==
  /\ NamePid[n] = PidOf[c]
  /\ n \notin files
  /\ \A d \in Clients \ {c} : n # name[d]
  /\ \A d \in Clients : n \notin todo[d] /\ n # victim[d]

\* The file system reuses an inode number only when no handle pins it.
FreshInode(i) == \A c \in Clients : i # handle[c]

-------------------------------------------------------------------------------
(* withInterprocessLock: the acquisition loop *)

Call(c) ==
  /\ pc[c] = "idle"
  /\ Goto(c, "attempt")
  /\ aborted' = [aborted EXCEPT ![c] = FALSE]
  /\ UNCHANGED <<dir, files, old, up, crashes, name, handle, todo, victim>>

Abort(c) ==
  /\ pc[c] \notin {"idle", "dead"}
  /\ ~aborted[c]
  /\ aborted' = [aborted EXCEPT ![c] = TRUE]
  /\ UNCHANGED <<dir, files, old, up, crashes, pc, name, handle, todo, victim>>

\* The signal is checked at the top of the loop and again by delay().
ThrowAborted(c) ==
  /\ pc[c] \in {"attempt", "retry"}
  /\ aborted[c]
  /\ Goto(c, "idle")
  /\ UNCHANGED <<dir, files, old, up, crashes, name, handle, todo, victim, aborted>>

MkdirExists(c) ==
  /\ pc[c] = "attempt" /\ ~aborted[c]
  /\ dir # NoDir
  /\ Goto(c, "inspect")
  /\ UNCHANGED <<dir, files, old, up, crashes, name, handle, todo, victim, aborted>>

\* Mutant of Mkdir: the attempt goes on with no marker name of its own.
MkdirUnnamed(c) ==
  /\ pc[c] = "attempt" /\ ~aborted[c]
  /\ dir = NoDir
  /\ \E i \in Inodes : FreshInode(i) /\ dir' = i
  /\ old' = FALSE
  /\ Goto(c, "open")
  /\ UNCHANGED <<files, up, crashes, name, handle, todo, victim, aborted>>

Mkdir(c) ==
  /\ pc[c] = "attempt" /\ ~aborted[c]
  /\ dir = NoDir
  /\ \E i \in Inodes : FreshInode(i) /\ dir' = i
  /\ old' = FALSE
  /\ \E n \in Names : FreshName(c, n) /\ name' = [name EXCEPT ![c] = n]
  /\ Goto(c, "open")
  /\ UNCHANGED <<files, up, crashes, handle, todo, victim, aborted>>

\* open and fstat pin whatever directory the path names by now.
Open(c) ==
  /\ pc[c] = "open"
  /\ IF dir = NoDir
     THEN Goto(c, "dropMarker") /\ UNCHANGED handle
     ELSE Goto(c, "publish") /\ handle' = [handle EXCEPT ![c] = dir]
  /\ UNCHANGED <<dir, files, old, up, crashes, name, todo, victim, aborted>>

\* writeFile goes by path: it may land in a replacement of the directory.
Publish(c) ==
  /\ pc[c] = "publish"
  /\ IF dir = NoDir
     THEN Goto(c, "closeLost") /\ UNCHANGED <<files, old>>
     ELSE /\ Goto(c, "verify")
          /\ files' = files \union {name[c]}
          /\ old' = FALSE
  /\ UNCHANGED <<dir, up, crashes, name, handle, todo, victim, aborted>>

\* stat(path): the pinned generation must still be the one in place.
Verify(c) ==
  /\ pc[c] = "verify"
  /\ Goto(c, IF dir = handle[c] THEN "list" ELSE "closeLost")
  /\ UNCHANGED <<dir, files, old, up, crashes, name, handle, todo, victim, aborted>>

\* Mutant of List: finding the own marker is enough.
ListMember(c) ==
  /\ pc[c] = "list"
  /\ Goto(c, IF dir # NoDir /\ name[c] \in files THEN "closeWon" ELSE "closeLost")
  /\ UNCHANGED <<dir, files, old, up, crashes, name, handle, todo, victim, aborted>>

\* readdir: the attempt wins only as the sole owner.
List(c) ==
  /\ pc[c] = "list"
  /\ Goto(c, IF dir # NoDir /\ files = {name[c]} THEN "closeWon" ELSE "closeLost")
  /\ UNCHANGED <<dir, files, old, up, crashes, name, handle, todo, victim, aborted>>

Close(c) ==
  /\ pc[c] \in {"closeWon", "closeLost"}
  /\ handle' = [handle EXCEPT ![c] = NoDir]
  /\ Goto(c, IF pc[c] = "closeWon" THEN "held" ELSE "dropMarker")
  /\ UNCHANGED <<dir, files, old, up, crashes, name, todo, victim, aborted>>

-------------------------------------------------------------------------------
(* The critical section and releaseLock *)

Enter(c) ==
  /\ pc[c] = "held"
  /\ Goto(c, IF aborted[c] THEN "release" ELSE "critical")
  /\ UNCHANGED <<dir, files, old, up, crashes, name, handle, todo, victim, aborted>>

Leave(c) ==
  /\ pc[c] = "critical"
  /\ Goto(c, "release")
  /\ UNCHANGED <<dir, files, old, up, crashes, name, handle, todo, victim, aborted>>

\* releaseLock, first call: the owner after its critical section, or the
\* finally block of an attempt that lost.
UnlinkOwn(c) ==
  /\ pc[c] \in {"release", "dropMarker"}
  /\ Unlink(name[c])
  /\ name' = [name EXCEPT ![c] = NoName]
  /\ Goto(c, IF pc[c] = "release" THEN "rmdirOwn" ELSE "rmdirLost")
  /\ UNCHANGED <<dir, up, crashes, handle, todo, victim, aborted>>

\* Mutant of RmdirOwn: an attempt that lost only unlinks its marker.
RmdirOwnWinner(c) ==
  /\ pc[c] \in {"rmdirOwn", "rmdirLost"}
  /\ IF pc[c] = "rmdirOwn" THEN RemoveEmptyLock ELSE UNCHANGED <<dir, old>>
  /\ Goto(c, IF pc[c] = "rmdirOwn" THEN "idle" ELSE "inspect")
  /\ UNCHANGED <<files, up, crashes, name, handle, todo, victim, aborted>>

\* releaseLock, second call.
RmdirOwn(c) ==
  /\ pc[c] \in {"rmdirOwn", "rmdirLost"}
  /\ RemoveEmptyLock
  /\ Goto(c, IF pc[c] = "rmdirOwn" THEN "idle" ELSE "inspect")
  /\ UNCHANGED <<files, up, crashes, name, handle, todo, victim, aborted>>

-------------------------------------------------------------------------------
(* breakStaleLock, called after every attempt that failed *)

Inspect(c) ==
  /\ pc[c] = "inspect"
  /\ Goto(c, IF dir # NoDir /\ old THEN "readdir" ELSE "retry")
  /\ UNCHANGED <<dir, files, old, up, crashes, name, handle, todo, victim, aborted>>

ReadDir(c) ==
  /\ pc[c] = "readdir"
  /\ IF dir = NoDir
     THEN Goto(c, "retry") /\ UNCHANGED todo
     ELSE Goto(c, "reclaim") /\ todo' = [todo EXCEPT ![c] = files]
  /\ UNCHANGED <<dir, files, old, up, crashes, name, handle, victim, aborted>>

\* Mutant of Reclaimable: age alone makes a marker stale.
ReclaimableByAge(n) == NamePid[n] # NoPid

\* Markers of live processes and unknown files are passed over.
Reclaimable(n) == NamePid[n] # NoPid /\ NamePid[n] \notin up

Examine(c) ==
  /\ pc[c] = "reclaim"
  /\ \E n \in todo[c] :
       /\ todo' = [todo EXCEPT ![c] = @ \ {n}]
       /\ IF Reclaimable(n)
          THEN Goto(c, "reap") /\ victim' = [victim EXCEPT ![c] = n]
          ELSE UNCHANGED <<pc, victim>>
  /\ UNCHANGED <<dir, files, old, up, crashes, name, handle, aborted>>

\* The unlink takes effect some time after the liveness check.
Reap(c) ==
  /\ pc[c] = "reap"
  /\ Unlink(victim[c])
  /\ victim' = [victim EXCEPT ![c] = NoName]
  /\ Goto(c, "reclaim")
  /\ UNCHANGED <<dir, up, crashes, name, handle, todo, aborted>>

\* Mutant of RmdirStale: the directory is left to its next owner.
RmdirStaleNever(c) ==
  /\ pc[c] = "reclaim" /\ todo[c] = {}
  /\ Goto(c, "retry")
  /\ UNCHANGED <<dir, old, files, up, crashes, name, handle, todo, victim, aborted>>

RmdirStale(c) ==
  /\ pc[c] = "reclaim" /\ todo[c] = {}
  /\ RemoveEmptyLock
  /\ Goto(c, "retry")
  /\ UNCHANGED <<files, up, crashes, name, handle, todo, victim, aborted>>

\* After breakStaleLock: timeoutMs have passed, or delay(retryMs) ends.
TimedOut(c) ==
  /\ pc[c] = "retry"
  /\ Goto(c, "idle")
  /\ UNCHANGED <<dir, files, old, up, crashes, name, handle, todo, victim, aborted>>

Retry(c) ==
  /\ pc[c] = "retry" /\ ~aborted[c]
  /\ Goto(c, "attempt")
  /\ UNCHANGED <<dir, files, old, up, crashes, name, handle, todo, victim, aborted>>

-------------------------------------------------------------------------------
(* The environment *)

\* staleMs pass without a change to the directory.
Age ==
  /\ dir # NoDir /\ ~old
  /\ old' = TRUE
  /\ UNCHANGED <<dir, files, up, crashes, pc, name, handle, todo, victim, aborted>>

\* A process dies: all its calls stop where they are, its handles close, its
\* files stay.
Crash(p) ==
  /\ p \in up
  /\ crashes < MaxCrashes
  /\ crashes' = crashes + 1
  /\ up' = up \ {p}
  /\ pc' = [c \in Clients |-> IF PidOf[c] = p THEN "dead" ELSE pc[c]]
  /\ name' = [c \in Clients |-> IF PidOf[c] = p THEN NoName ELSE name[c]]
  /\ handle' = [c \in Clients |-> IF PidOf[c] = p THEN NoDir ELSE handle[c]]
  /\ todo' = [c \in Clients |-> IF PidOf[c] = p THEN {} ELSE todo[c]]
  /\ victim' = [c \in Clients |-> IF PidOf[c] = p THEN NoName ELSE victim[c]]
  /\ UNCHANGED <<dir, files, old, aborted>>

\* A new process gets the pid of a dead one.
Restart(p) ==
  /\ p \in Procs \ up
  /\ up' = up \union {p}
  /\ pc' = [c \in Clients |-> IF PidOf[c] = p THEN "idle" ELSE pc[c]]
  /\ UNCHANGED <<dir, files, old, crashes, name, handle, todo, victim, aborted>>

Acquisition(c) == ThrowAborted(c) \/ MkdirExists(c) \/ Mkdir(c) \/ Open(c)
                  \/ Publish(c) \/ Verify(c) \/ List(c) \/ Close(c)
Section(c)     == Enter(c) \/ Leave(c) \/ UnlinkOwn(c) \/ RmdirOwn(c)
Reclamation(c) == Inspect(c) \/ ReadDir(c) \/ Examine(c) \/ Reap(c)
                  \/ RmdirStale(c) \/ TimedOut(c) \/ Retry(c)

ClientStep(c) == Acquisition(c) \/ Section(c) \/ Reclamation(c)

Next ==
  \/ \E c \in Clients : Call(c) \/ Abort(c) \/ ClientStep(c)
  \/ Age
  \/ \E p \in Procs : Crash(p) \/ Restart(p)

Spec == Init /\ [][Next]_vars

\* Calls that have started are run to their end, time passes, and callers come
\* back: the program keeps calling withInterprocessLock on a state file it uses.
Fairness ==
  /\ \A c \in Clients : WF_vars(ClientStep(c)) /\ WF_vars(Call(c))
  /\ WF_vars(Age)

FairSpec == Spec /\ Fairness

-------------------------------------------------------------------------------
(* Properties *)

\* withInterprocessLock: two calls never own the lock at the same time, whatever
\* directories were created, replaced and reclaimed meanwhile.
MutualExclusion == \A c, d \in Clients : Owns(c) /\ Owns(d) => c = d

\* breakStaleLock, releaseLock: from its publication until its own release, a live
\* call's marker stays in the directory the lock path names; no late reclaimer or
\* loser, whatever it read earlier, removes the marker or the directory.
MarkerStays == \A c \in Clients : Published(c) => dir # NoDir /\ name[c] \in files

\* releaseLock: when no process died and nothing foreign is in the directory, calls
\* that have all ended leave no lock directory behind, so that nobody has to wait
\* for staleMs.
NothingLeftBehind ==
  (\A c \in Clients : pc[c] = "idle") /\ crashes = 0 /\ files \intersect Leftovers = {}
    => dir = NoDir

\* A lock directory that no live call has a stake in.
Abandoned ==
  /\ dir # NoDir
  /\ \A n \in files : Reclaimable(n)
  /\ \A c \in Clients : ~Named(c)

\* breakStaleLock: a directory left by processes that died, or by an older version,
\* is reclaimed as long as live processes keep asking for the lock and do not
\* abort every time they ask.
StaleLockReclaimed ==
  <>[]((\E c \in Clients : pc[c] # "dead") /\ \A c \in Clients : ~aborted[c]) => (Abandoned ~> ~Abandoned)

\* The owner as the callers of withInterprocessLock see it.
owner == IF \E c \in Clients : Owns(c) THEN CHOOSE c \in Clients : Owns(c) ELSE Nobody

Exclusive == INSTANCE ExclusiveLock WITH Clients <- Clients, Nobody <- Nobody, owner <- owner

\* The directory protocol implements the exclusive lock its callers rely on.
ImplementsExclusiveLock == Exclusive!Spec
===============================================================================
