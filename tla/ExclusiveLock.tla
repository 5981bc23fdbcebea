---------------------------- MODULE ExclusiveLock ----------------------------
(***************************************************************************)
(* What withInterprocessLock (extensions/_shared/file-lock.ts) promises to *)
(* its callers: at any time at most one call runs its critical section,    *)
(* and the lock becomes free again when that call ends, be it by returning *)
(* or because its process died.  How the promise is kept with mkdir, owner *)
(* markers and rmdir is the subject of module InterprocessLock, which      *)
(* implements this specification.                                          *)
(***************************************************************************)

CONSTANTS Clients,   \* the concurrent calls of withInterprocessLock
          Nobody     \* the value of owner when the lock is free, not a client

VARIABLE owner       \* the call that owns the lock, or Nobody

TypeOK == owner \in Clients \union {Nobody}

Init == owner = Nobody

Acquire(c) ==
  /\ owner = Nobody
  /\ owner' = c

\* The owner leaves, or its process dies.
Release(c) ==
  /\ owner = c
  /\ owner' = Nobody

Next == \E c \in Clients : Acquire(c) \/ Release(c)

Spec == Init /\ [][Next]_owner
=============================================================================
