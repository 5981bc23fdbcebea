------------------------ MODULE InterprocessLockProofs ------------------------
(***************************************************************************)
(* Proofs about the interprocess lock, for any number of calls, processes, *)
(* crashes and pid reuses.  The argument: a call that has published its    *)
(* marker keeps it in the directory until its own release, because the     *)
(* only other deletions are of markers of dead processes, by name.  The    *)
(* directory is therefore neither empty nor replaced while a published     *)
(* call lives, and the second of two calls that list it sees both markers. *)
(* The comparison of inodes plays no part in that argument: it rejects     *)
(* attempts that would have been harmless.                                 *)
(***************************************************************************)
EXTENDS InterprocessLock, TLAPS

\* A directory entry needs a directory.
FilesInv == files # {} => dir # NoDir

\* A marker name that is in use carries the pid of its user, who is alive.
NameInv ==
  \A c \in Clients :
    /\ pc[c] # "dead" => PidOf[c] \in up
    /\ Named(c) => name[c] \in Names /\ NamePid[name[c]] = PidOf[c]

\* Names in use are distinct, and no reclaimer is about to unlink one of them.
FreshInv ==
  \A c, d \in Clients :
    /\ Named(c) /\ Named(d) /\ name[c] = name[d] => c = d
    /\ Named(d) => name[d] # victim[c]

PublishedInv == \A c \in Clients : Published(c) => name[c] \in files

LockInv == TypeOK /\ FilesInv /\ NameInv /\ FreshInv /\ PublishedInv /\ MutualExclusion

LEMMA InitLock == Init => LockInv
  <1> SUFFICES ASSUME Init PROVE LockInv
    OBVIOUS
  <1>1. TypeOK
    BY LockAssumption DEF Init, TypeOK, Labels, Attempting, Owning, Waiting
  <1>2. \A c \in Clients : ~Named(c) /\ ~Published(c) /\ ~Owns(c)
    BY DEF Init, Named, Published, Owns, Attempting, Owning
  <1>3. FilesInv /\ NameInv /\ FreshInv /\ PublishedInv /\ MutualExclusion
    BY <1>2, LockAssumption DEF Init, FilesInv, NameInv, FreshInv, PublishedInv, MutualExclusion
  <1> QED
    BY <1>1, <1>3 DEF LockInv


LEMMA TypeStep == LockInv /\ [Next]_vars => TypeOK'
  <1> SUFFICES ASSUME LockInv, [Next]_vars PROVE TypeOK'
    OBVIOUS
  <1>a. TypeOK
    BY DEF LockInv
  <1> USE <1>a DEF TypeOK, Goto, Labels, Attempting, Owning, Waiting
  <1>1. ASSUME NEW c \in Clients, Call(c) \/ Abort(c) PROVE TypeOK'
    BY <1>1 DEF Call, Abort
  <1>2. ASSUME NEW c \in Clients, Acquisition(c) PROVE TypeOK'
    <2>1. CASE ThrowAborted(c) \/ MkdirExists(c) \/ Open(c) \/ Verify(c) \/ List(c) \/ Close(c)
      BY <2>1 DEF ThrowAborted, MkdirExists, Open, Verify, List, Close
    <2>2. CASE Mkdir(c)
      BY <2>2 DEF Mkdir
    <2>3. CASE Publish(c)
      <3>1. name[c] \in Names
        BY <2>3 DEF Publish, LockInv, NameInv, Named
      <3> QED BY <2>3, <3>1 DEF Publish
    <2> QED BY <1>2, <2>1, <2>2, <2>3 DEF Acquisition
  <1>3. ASSUME NEW c \in Clients, Section(c) PROVE TypeOK'
    BY <1>3 DEF Section, Enter, Leave, UnlinkOwn, RmdirOwn, Unlink, RemoveEmptyLock
  <1>4. ASSUME NEW c \in Clients, Reclamation(c) PROVE TypeOK'
    <2>1. CASE Inspect(c) \/ ReadDir(c) \/ RmdirStale(c) \/ TimedOut(c) \/ Retry(c)
      BY <2>1 DEF Inspect, ReadDir, RmdirStale, RemoveEmptyLock, TimedOut, Retry
    <2>2. CASE Examine(c)
      BY <2>2 DEF Examine
    <2>3. CASE Reap(c)
      BY <2>3 DEF Reap, Unlink
    <2> QED BY <1>4, <2>1, <2>2, <2>3 DEF Reclamation
  <1>5. CASE Age
    BY <1>5 DEF Age
  <1>6. ASSUME NEW p \in Procs, Crash(p) PROVE TypeOK'
    BY <1>6 DEF Crash
  <1>7. ASSUME NEW p \in Procs, Restart(p) PROVE TypeOK'
    BY <1>7 DEF Restart
  <1>8. CASE UNCHANGED vars
    BY <1>8 DEF vars
  <1> QED
    BY <1>1, <1>2, <1>3, <1>4, <1>5, <1>6, <1>7, <1>8 DEF Next, ClientStep

\* What every step does to the markers, which is all the invariant needs to know:
\* a marker goes only when its owner unlinks it or its process is dead.
LEMMA LockStep == LockInv /\ [Next]_vars => LockInv'
  <1> SUFFICES ASSUME LockInv, [Next]_vars PROVE LockInv'
    OBVIOUS
  <1>t. TypeOK /\ TypeOK'
    BY TypeStep DEF LockInv
  <1> USE <1>t DEF LockInv, FilesInv, NameInv, FreshInv, PublishedInv, MutualExclusion,
                   Named, Published, Owns, Attempting, Owning, Goto
  <1> DEFINE Rest == (FilesInv /\ NameInv /\ FreshInv /\ PublishedInv /\ MutualExclusion)'
  <1>1. ASSUME NEW c \in Clients, Call(c) \/ Abort(c) PROVE Rest
    BY <1>1 DEF Call, Abort, TypeOK
  <1>2. ASSUME NEW c \in Clients, Acquisition(c) PROVE Rest
    <2>1. CASE ThrowAborted(c) \/ MkdirExists(c)
      BY <2>1 DEF ThrowAborted, MkdirExists, TypeOK
    <2>2. CASE Mkdir(c)
      <3>1. PICK n \in Names : FreshName(c, n) /\ name' = [name EXCEPT ![c] = n]
        BY <2>2 DEF Mkdir
      <3>2. dir' # NoDir /\ UNCHANGED <<files, up, victim>> /\ pc' = [pc EXCEPT ![c] = "open"]
            /\ pc[c] = "attempt"
        BY <2>2, LockAssumption DEF Mkdir
      <3>3. name' \in [Clients -> Names \union {NoName}] /\ name'[c] = n
            /\ \A d \in Clients \ {c} : name'[d] = name[d] /\ name[d] # n
        BY <3>1 DEF TypeOK, FreshName
      <3>4. \A d \in Clients : n # victim[d]
        BY <3>1 DEF FreshName
      <3>5. FilesInv' /\ PublishedInv' /\ MutualExclusion'
        BY <3>2, <3>3 DEF TypeOK
      <3>6. NameInv'
        BY <3>1, <3>2, <3>3 DEF TypeOK, FreshName
      <3>7. FreshInv'
        BY <3>2, <3>3, <3>4 DEF TypeOK
      <3> QED BY <3>5, <3>6, <3>7
    <2>3. CASE Open(c) \/ Verify(c) \/ Close(c)
      BY <2>3 DEF Open, Verify, Close, TypeOK
    <2>4. CASE Publish(c)
      BY <2>4 DEF Publish, TypeOK
    <2>5. CASE List(c)
      BY <2>5 DEF List, TypeOK
    <2> QED BY <1>2, <2>1, <2>2, <2>3, <2>4, <2>5 DEF Acquisition
  <1>3. ASSUME NEW c \in Clients, Section(c) PROVE Rest
    <2>1. CASE Enter(c) \/ Leave(c)
      BY <2>1 DEF Enter, Leave, TypeOK
    <2>2. CASE UnlinkOwn(c)
      BY <2>2 DEF UnlinkOwn, Unlink, TypeOK
    <2>3. CASE RmdirOwn(c)
      BY <2>3 DEF RmdirOwn, RemoveEmptyLock, TypeOK
    <2> QED BY <1>3, <2>1, <2>2, <2>3 DEF Section
  <1>4. ASSUME NEW c \in Clients, Reclamation(c) PROVE Rest
    <2>1. CASE Inspect(c) \/ ReadDir(c) \/ TimedOut(c) \/ Retry(c)
      BY <2>1 DEF Inspect, ReadDir, TimedOut, Retry, TypeOK
    <2>2. CASE RmdirStale(c)
      BY <2>2 DEF RmdirStale, RemoveEmptyLock, TypeOK
    <2>3. CASE Examine(c)
      <3>1. PICK n \in todo[c] :
              IF Reclaimable(n)
              THEN Goto(c, "reap") /\ victim' = [victim EXCEPT ![c] = n]
              ELSE UNCHANGED <<pc, victim>>
        BY <2>3 DEF Examine
      <3>2. UNCHANGED <<dir, files, up, name>> /\ pc[c] = "reclaim"
        BY <2>3 DEF Examine
      <3>3. \A d \in Clients : Reclaimable(n) /\ Named(d) => name[d] # n
        BY DEF Reclaimable
      <3> QED BY <3>1, <3>2, <3>3 DEF TypeOK
    <2>4. CASE Reap(c)
      BY <2>4, LockAssumption DEF Reap, Unlink, TypeOK
    <2> QED BY <1>4, <2>1, <2>2, <2>3, <2>4 DEF Reclamation
  <1>5. CASE Age
    BY <1>5 DEF Age
  <1>6. ASSUME NEW p \in Procs, Crash(p) PROVE Rest
    BY <1>6, LockAssumption DEF Crash, TypeOK
  <1>7. ASSUME NEW p \in Procs, Restart(p) PROVE Rest
    BY <1>7, LockAssumption DEF Restart, TypeOK
  <1>8. CASE UNCHANGED vars
    BY <1>8 DEF vars
  <1>9. Rest
    BY <1>1, <1>2, <1>3, <1>4, <1>5, <1>6, <1>7, <1>8 DEF Next, ClientStep
  <1> QED
    BY <1>9

LEMMA LockInvariant == Spec => []LockInv
  BY InitLock, LockStep, PTL DEF Spec

\* Type correctness of the lock protocol.
THEOREM TypeCorrect == Spec => []TypeOK
  BY LockInvariant, PTL DEF LockInv

\* No two calls own the lock at a time, for any number of calls and processes,
\* however often processes die and pids are reused.
THEOREM LockExcludes == Spec => []MutualExclusion
  BY LockInvariant, PTL DEF LockInv

\* A live call's published marker and the directory that holds it stay in place
\* until the call's own release.
THEOREM MarkersStay == Spec => []MarkerStays
  <1>1. LockInv => MarkerStays
    BY DEF LockInv, PublishedInv, FilesInv, MarkerStays
  <1> QED
    BY <1>1, LockInvariant, PTL

\* The owner is the call that owns the lock, Nobody when there is none.
LEMMA OwnerIs ==
  ASSUME MutualExclusion
  PROVE  /\ \A c \in Clients : Owns(c) <=> owner = c
         /\ owner \in Clients \union {Nobody}
  BY LockAssumption DEF MutualExclusion, owner

\* A step that makes one call an owner takes ownership from no other call.
LEMMA AcquireKeeps ==
  ASSUME TypeOK, [Next]_vars, NEW d \in Clients, ~Owns(d), Owns(d)',
         NEW c \in Clients, Owns(c)
  PROVE  Owns(c)'
  <1> USE DEF Owns, Owning, Goto, TypeOK
  <1>1. ASSUME NEW e \in Clients, Call(e) \/ Abort(e) PROVE Owns(c)'
    BY <1>1 DEF Call, Abort
  <1>2. ASSUME NEW e \in Clients, Acquisition(e) PROVE Owns(c)'
    BY <1>2 DEF Acquisition, ThrowAborted, MkdirExists, Mkdir, Open, Publish, Verify, List, Close
  <1>3. ASSUME NEW e \in Clients, Section(e) PROVE Owns(c)'
    BY <1>3 DEF Section, Enter, Leave, UnlinkOwn, RmdirOwn
  <1>4. ASSUME NEW e \in Clients, Reclamation(e) PROVE Owns(c)'
    BY <1>4 DEF Reclamation, Inspect, ReadDir, Examine, Reap, RmdirStale, TimedOut, Retry
  <1>5. CASE Age \/ UNCHANGED vars
    BY <1>5 DEF Age, vars
  <1>6. ASSUME NEW p \in Procs, Crash(p) \/ Restart(p) PROVE Owns(c)'
    BY <1>6 DEF Crash, Restart
  <1> QED
    BY <1>1, <1>2, <1>3, <1>4, <1>5, <1>6 DEF Next, ClientStep

\* The directory protocol implements the exclusive lock that its callers rely on.
THEOREM LockRefinement == Spec => ImplementsExclusiveLock
  <1>1. Init => Exclusive!Init
    <2> SUFFICES ASSUME Init PROVE owner = Nobody
      BY DEF Exclusive!Init
    <2>1. \A c \in Clients : ~Owns(c)
      BY DEF Init, Owns, Owning
    <2> QED BY <2>1 DEF owner
  <1>2. LockInv /\ LockInv' /\ [Next]_vars => [Exclusive!Next]_owner
    <2> SUFFICES ASSUME LockInv, LockInv', [Next]_vars, owner' # owner
                 PROVE  Exclusive!Next
      OBVIOUS
    <2>1. /\ \A c \in Clients : Owns(c) <=> owner = c
          /\ owner \in Clients \union {Nobody}
      BY OwnerIs DEF LockInv
    <2>2. MutualExclusion'
      BY DEF LockInv
    <2>3. /\ \A c \in Clients : Owns(c)' <=> owner' = c
          /\ owner' \in Clients \union {Nobody}
      BY <2>2, LockAssumption DEF MutualExclusion, owner
    <2>4. CASE owner = Nobody
      BY <2>3, <2>4 DEF Exclusive!Next, Exclusive!Acquire
    <2>5. CASE owner' = Nobody
      BY <2>1, <2>5 DEF Exclusive!Next, Exclusive!Release
    <2>6. CASE owner # Nobody /\ owner' # Nobody
      <3>1. /\ owner \in Clients /\ Owns(owner)
            /\ owner' \in Clients /\ ~Owns(owner')
        BY <2>1, <2>3, <2>6
      <3>2. PICK c \in Clients, d \in Clients : owner = c /\ owner' = d
        BY <3>1
      <3>3. Owns(c) /\ ~Owns(d) /\ Owns(d)' /\ c # d
        BY <3>2, <2>1, <2>3
      <3>4. Owns(c)'
        BY <3>3, AcquireKeeps DEF LockInv
      <3> QED
        BY <3>2, <3>3, <3>4, <2>3
    <2> QED BY <2>1, <2>4, <2>5, <2>6
  <1> QED
    BY <1>1, <1>2, LockInvariant, PTL DEF Spec, ImplementsExclusiveLock, Exclusive!Spec

-------------------------------------------------------------------------------
(* No directory is left behind *)

\* The calls that will still try to remove the directory.
Cleaning(c) == Named(c) \/ pc[c] \in {"rmdirOwn", "rmdirLost", "reclaim", "reap"}

\* As long as no process has died: no call is dead, every marker but the leftovers is in
\* use, and a directory without leftovers has somebody who will come back for it.
AliveInv == crashes = 0 => \A c \in Clients : pc[c] # "dead"
EntryInv == crashes = 0 => \A n \in files \ Leftovers : \E c \in Clients : Named(c) /\ name[c] = n
DirInv   == crashes = 0 /\ dir # NoDir /\ files \cap Leftovers = {} => \E c \in Clients : Cleaning(c)

CleanInv == AliveInv /\ EntryInv /\ DirInv

LEMMA CleanInit == Init => CleanInv
  BY DEF CleanInv, Init, AliveInv, EntryInv, DirInv

\* The other calls stand where they stood.
Others(c) == \A d \in Clients \ {c} : pc'[d] = pc[d] /\ name'[d] = name[d]

\* A client step moves one call, which does not die of it.
LEMMA OneMoves ==
  ASSUME TypeOK, NEW c \in Clients, ClientStep(c)
  PROVE  Others(c) /\ pc'[c] # "dead" /\ pc[c] # "dead" /\ crashes' = crashes
  <1> USE DEF TypeOK, Goto, Others
  <1>1. CASE Acquisition(c)
    BY <1>1 DEF Acquisition, ThrowAborted, MkdirExists, Mkdir, Open, Publish, Verify, List, Close
  <1>2. CASE Section(c)
    BY <1>2 DEF Section, Enter, Leave, UnlinkOwn, RmdirOwn
  <1>3. CASE Reclamation(c)
    BY <1>3 DEF Reclamation, Inspect, ReadDir, Examine, Reap, RmdirStale, TimedOut, Retry
  <1> QED
    BY <1>1, <1>2, <1>3 DEF ClientStep

\* A step that publishes a marker only for a call that uses it, and gives up none that stays.
LEMMA EntryStep ==
  ASSUME EntryInv, crashes' = crashes, NEW c \in Clients, Others(c),
         \A n \in files' \ files : Named(c)' /\ name'[c] = n,
         Named(c) => name[c] \notin files' \/ (Named(c)' /\ name'[c] = name[c])
  PROVE  EntryInv'
  <1>1. \A d \in Clients \ {c} : Named(d) => Named(d)' /\ name'[d] = name[d]
    BY DEF Others, Named
  <1> QED
    BY <1>1 DEF EntryInv

\* A call that goes on caring for the directory, or never did.
LEMMA CareStep ==
  ASSUME DirInv, crashes' = crashes, NEW c \in Clients, Others(c),
         Cleaning(c)' \/ (dir' = dir /\ files' = files /\ ~Cleaning(c))
  PROVE  DirInv'
  <1>1. \A d \in Clients \ {c} : Cleaning(d) => Cleaning(d)'
    BY DEF Others, Named, Cleaning
  <1> QED
    BY <1>1 DEF DirInv

\* A call that has tried to remove the directory need not care any more.
LEMMA RemovedStep ==
  ASSUME EntryInv', RemoveEmptyLock, files' = files PROVE DirInv'
  BY DEF EntryInv, DirInv, RemoveEmptyLock, Cleaning

LEMMA CleanStep == LockInv /\ CleanInv /\ [Next]_vars => CleanInv'
  <1> SUFFICES ASSUME LockInv, CleanInv, [Next]_vars PROVE CleanInv'
    OBVIOUS
  <1>t. TypeOK /\ NameInv /\ AliveInv /\ EntryInv /\ DirInv
    BY DEF LockInv, CleanInv
  <1>1. ASSUME NEW c \in Clients, Call(c) \/ Abort(c) PROVE CleanInv'
    <2>1. UNCHANGED <<dir, files, crashes, name>>
      BY <1>1 DEF Call, Abort
    <2>2. pc' = pc \/ (pc[c] = "idle" /\ pc' = [pc EXCEPT ![c] = "attempt"])
      BY <1>1 DEF Call, Abort, Goto
    <2>3. \A d \in Clients : /\ Named(d)' = Named(d) /\ Cleaning(d)' = Cleaning(d)
                             /\ pc[d] # "dead" => pc'[d] # "dead"
      BY <2>2, <1>t DEF TypeOK, Named, Cleaning, Attempting, Owning
    <2> QED
      BY <1>t, <2>1, <2>3 DEF CleanInv, AliveInv, EntryInv, DirInv
  <1>2. ASSUME NEW c \in Clients, ClientStep(c) PROVE CleanInv'
    <2>0. Others(c) /\ pc'[c] # "dead" /\ pc[c] # "dead" /\ crashes' = crashes
      BY <1>t, <1>2, OneMoves
    <2>1. AliveInv'
      BY <1>t, <2>0 DEF AliveInv, Others
    <2> USE <1>t DEF TypeOK, Goto, Named, Attempting, Owning
    <2>2. CASE ThrowAborted(c) \/ MkdirExists(c) \/ Inspect(c) \/ TimedOut(c) \/ Retry(c)
      <3>1. UNCHANGED <<dir, files, name>> /\ ~Cleaning(c)
        BY <2>2 DEF ThrowAborted, MkdirExists, Inspect, TimedOut, Retry, Cleaning
      <3> QED
        BY <2>0, <2>1, <3>1, EntryStep, CareStep DEF CleanInv, Cleaning
    <2>3. CASE Mkdir(c) \/ ReadDir(c)
      <3>1. files' = files /\ ~Named(c) /\ ~Cleaning(c)
        BY <2>3 DEF Mkdir, ReadDir, Cleaning
      <3>2. Cleaning(c)' \/ dir' = dir
        BY <2>3 DEF Mkdir, ReadDir, Cleaning
      <3> QED
        BY <2>0, <2>1, <3>1, <3>2, EntryStep, CareStep DEF CleanInv
    <2>4. CASE Open(c) \/ Publish(c) \/ Verify(c) \/ List(c) \/ Close(c) \/ Enter(c) \/ Leave(c)
      <3>1. name' = name /\ Named(c) /\ Named(c)'
        BY <2>4 DEF Open, Publish, Verify, List, Close, Enter, Leave
      <3>2. files' \subseteq files \union {name[c]}
        BY <2>4 DEF Open, Publish, Verify, List, Close, Enter, Leave
      <3>3. Cleaning(c)'
        BY <3>1 DEF Cleaning
      <3> QED
        BY <2>0, <2>1, <3>1, <3>2, <3>3, EntryStep, CareStep DEF CleanInv
    <2>5. CASE UnlinkOwn(c)
      <3>1. files' = files \ {name[c]} /\ Cleaning(c)'
        BY <2>5 DEF UnlinkOwn, Unlink, Cleaning
      <3> QED
        BY <2>0, <2>1, <3>1, EntryStep, CareStep DEF CleanInv
    <2>6. CASE Examine(c) \/ Reap(c)
      <3>1. files' \subseteq files /\ name' = name /\ ~Named(c) /\ Cleaning(c)'
        BY <2>6 DEF Examine, Reap, Unlink, Cleaning
      <3> QED
        BY <2>0, <2>1, <3>1, EntryStep, CareStep DEF CleanInv
    <2>7. CASE RmdirOwn(c) \/ RmdirStale(c)
      <3>1. files' = files /\ ~Named(c) /\ RemoveEmptyLock
        BY <2>7 DEF RmdirOwn, RmdirStale
      <3>2. EntryInv'
        BY <2>0, <3>1, EntryStep
      <3> QED
        BY <2>1, <3>1, <3>2, RemovedStep DEF CleanInv
    <2> QED
      BY <1>2, <2>2, <2>3, <2>4, <2>5, <2>6, <2>7 DEF ClientStep, Acquisition, Section, Reclamation
  <1>3. CASE Age \/ UNCHANGED vars
    <2>1. UNCHANGED <<dir, files, crashes, pc, name>>
      BY <1>3 DEF Age, vars
    <2> QED
      BY <1>t, <2>1 DEF CleanInv, AliveInv, EntryInv, DirInv, Cleaning, Named
  <1>4. ASSUME NEW p \in Procs, Crash(p) PROVE CleanInv'
    BY <1>4, <1>t DEF Crash, TypeOK, CleanInv, AliveInv, EntryInv, DirInv
  <1>5. ASSUME NEW p \in Procs, Restart(p), crashes = 0 PROVE CleanInv'
    <2>1. \A c \in Clients : PidOf[c] # p
      BY <1>5, <1>t DEF Restart, AliveInv, NameInv
    <2>2. UNCHANGED <<dir, files, crashes, name>> /\ \A c \in Clients : pc'[c] = pc[c]
      BY <1>5, <2>1 DEF Restart
    <2> QED
      BY <1>t, <2>2 DEF CleanInv, AliveInv, EntryInv, DirInv, Cleaning, Named
  <1>6. ASSUME NEW p \in Procs, Restart(p), crashes # 0 PROVE CleanInv'
    BY <1>6 DEF Restart, CleanInv, AliveInv, EntryInv, DirInv
  <1> QED
    BY <1>1, <1>2, <1>3, <1>4, <1>5, <1>6 DEF Next

\* NothingLeftBehind for every instance: whoever finds a marker in the way leaves the
\* directory to its owner, who is still to come back for it.
THEOREM NothingIsLeft == Spec => []NothingLeftBehind
  <1>1. CleanInv => NothingLeftBehind
    BY DEF CleanInv, DirInv, Cleaning, Named, Attempting, Owning, NothingLeftBehind
  <1> QED
    BY InitLock, LockStep, CleanInit, CleanStep, <1>1, PTL DEF Spec
===============================================================================
