-------------------------- MODULE SubagentScheduler --------------------------
(***************************************************************************)
(* The host-wide scheduler of subagent runs                                *)
(* (extensions/_shared/subagent-scheduler.ts).  Every Pi process admits    *)
(* its runs through one file, scheduler.json, that holds the waiters and   *)
(* the leases; a process reads and writes it only in mutate(), under the   *)
(* interprocess lock, so a mutation is one atomic step here (module        *)
(* InterprocessLock says why).  What is not atomic is everything around    *)
(* it: the clock is sampled before the lock is waited for, a lease must be *)
(* refreshed while the run goes on, signals fire at any time, and          *)
(* processes die.                                                          *)
(*                                                                         *)
(* Time is counted in ticks and kept relative: how long ago a waiter sent  *)
(* its last heartbeat, how long a lease still has to live.  The run is     *)
(* its own waiter and lease id: the code draws a fresh UUID per request,   *)
(* here a run asks again only when nothing in the file refers to it.       *)
(***************************************************************************)
EXTENDS Naturals, FiniteSets, Sequences, SequencesExt

CONSTANTS
  Runs,            \* the runs that ask for a slot
  Procs,           \* the Pi processes
  ProcOf,          \* the process of every run
  Background,      \* the runs whose priority is "background"
  Abortable,       \* the runs whose caller passes an AbortSignal
  ResourceOf,      \* the resource pool of every run, or NoResource
  NoResource,
  MaxConcurrency,  \* config.maxConcurrency of every process
  Peak,            \* the largest of them
  ResourceLimits,  \* config.resourceLimits of every process: pool -> Nat, 0 for no entry
  LeaseTicks,      \* config.leaseMs
  HeartbeatTicks,  \* config.heartbeatMs
  AgingTicks,      \* config.backgroundAgingMs
  LockTicks,       \* the longest wait for the interprocess lock (timeoutMs)
  Timely,          \* TRUE: live processes poll and refresh their leases in time
  Failures         \* bound: FALSE when no process dies and no mutation times out

Pools == {ResourceOf[r] : r \in Runs} \ {NoResource}

\* What loadSubagentConfig accepts: positive limits, and a lease of at least
\* three heartbeats.
LoadedConfig ==
  /\ MaxConcurrency \in [Procs -> Nat \ {0}]
  /\ ResourceLimits \in [Procs -> [Pools -> Nat]]
  /\ LeaseTicks \in Nat /\ HeartbeatTicks \in Nat \ {0}
  /\ LeaseTicks >= 3 * HeartbeatTicks
  /\ AgingTicks \in Nat

ASSUME SchedulerAssumption ==
  /\ LoadedConfig
  /\ IsFiniteSet(Runs)
  /\ ProcOf \in [Runs -> Procs]
  /\ Background \subseteq Runs /\ Abortable \subseteq Runs
  /\ Peak \in Nat /\ \A p \in Procs : MaxConcurrency[p] <= Peak
  /\ LockTicks \in Nat
  /\ Timely \in BOOLEAN /\ Failures \in BOOLEAN

VARIABLES
  limit,       \* state.limit
  poolLimit,   \* state.resourceLimits, 0 for no entry
  waiters,     \* ids in state.waiters
  beat,        \* ticks since a waiter's heartbeatAt
  leases,      \* ids in state.leases
  ttl,         \* ticks until a lease's expiresAt
  order,       \* the runs by requestedAt (ties, which the ids break, in any order)
  waited,      \* ticks since a background run's requestedAt
  pc,          \* where each run stands in run() and acquire()
  lag,         \* ticks since acquire() sampled the clock it will use in mutate()
  aborted,     \* the run's signal has fired while the scheduler still looks at it
  up           \* processes that are alive

file == <<limit, poolLimit, waiters, beat, leases, ttl>>
vars == <<file, order, waited, pc, lag, aborted, up>>

Labels == {"idle", "poll", "mutate", "removing", "granted", "running",
           "releasing", "dead"}

WaitCap == AgingTicks + LockTicks

TypeOK ==
  /\ limit \in Nat \ {0}
  /\ poolLimit \in [Pools -> Nat]
  /\ waiters \subseteq Runs /\ leases \subseteq Runs
  /\ beat \in [Runs -> 0..(LeaseTicks + 1)]
  /\ ttl \in [Runs -> 0..LeaseTicks]
  /\ order \in Seq(Runs)
  /\ waited \in [Runs -> 0..WaitCap]
  /\ pc \in [Runs -> Labels]
  /\ lag \in [Runs -> 0..LockTicks]
  /\ aborted \in [Runs -> BOOLEAN]
  /\ up \subseteq Procs

\* The first process to run finds no file: emptyState with its own limits.
Init ==
  /\ \E p \in Procs : limit = MaxConcurrency[p] /\ poolLimit = ResourceLimits[p]
  /\ waiters = {} /\ leases = {}
  /\ beat = [r \in Runs |-> 0]
  /\ ttl = [r \in Runs |-> 0]
  /\ order = <<>>
  /\ waited = [r \in Runs |-> 0]
  /\ pc = [r \in Runs |-> "idle"]
  /\ lag = [r \in Runs |-> 0]
  /\ aborted = [r \in Runs |-> FALSE]
  /\ up = Procs

Goto(r, l) == pc' = [pc EXCEPT ![r] = l]
Alive(r) == ProcOf[r] \in up

-------------------------------------------------------------------------------
(* mutate(): what every access to the file does before its own change *)

\* pruneState
LiveWaiters == {w \in waiters : Alive(w) /\ beat[w] <= LeaseTicks}
LiveLeases  == {l \in leases : Alive(l) /\ ttl[l] > 0}

\* reconcileLimits: an idle scheduler adopts the limits of the process at hand,
\* a busy one only lets them get smaller or be added.
Reconcile(p) ==
  IF LiveWaiters = {} /\ LiveLeases = {}
  THEN /\ limit' = MaxConcurrency[p]
       /\ poolLimit' = ResourceLimits[p]
  ELSE /\ limit' = IF limit > MaxConcurrency[p] THEN MaxConcurrency[p] ELSE limit
       /\ poolLimit' = [k \in Pools |->
            IF ResourceLimits[p][k] # 0
               /\ (poolLimit[k] = 0 \/ poolLimit[k] > ResourceLimits[p][k])
            THEN ResourceLimits[p][k] ELSE poolLimit[k]]

\* An access that also drops the waiters Ws and the leases Ls.
Mutate(p, Ws, Ls) ==
  /\ Reconcile(p)
  /\ waiters' = LiveWaiters \ Ws
  /\ leases' = LiveLeases \ Ls
  /\ beat' = [r \in Runs |-> IF r \in waiters' THEN beat[r] ELSE 0]

KeepTtl == ttl' = [r \in Runs |-> IF r \in leases' THEN ttl[r] ELSE 0]

-------------------------------------------------------------------------------
(* The admission decision in acquire() *)

Position(r) == CHOOSE i \in DOMAIN order : order[i] = r

\* Mutant of FirstRank: background runs never age.
FirstRankNoAging(r, now) == r \notin Background

\* Foreground runs, and background runs that have waited long enough at the
\* time `now` of the process that decides.
FirstRank(r, now) == r \notin Background \/ waited[r] >= AgingTicks + now

\* The comparison function that sorts the waiters.
Before(r, s, now) ==
  \/ FirstRank(r, now) /\ ~FirstRank(s, now)
  \/ FirstRank(r, now) = FirstRank(s, now) /\ Position(r) < Position(s)

InUse(k, S) == Cardinality({l \in S : ResourceOf[l] = k})

PoolFull(r, S, plimit) ==
  /\ ResourceOf[r] # NoResource
  /\ plimit[ResourceOf[r]] # 0
  /\ InUse(ResourceOf[r], S) >= plimit[ResourceOf[r]]

\* Mutant of HandedOut: the leases in use are not counted.
HandedOutAgain(E, W, L, lim, plimit, now) ==
  \A r \in W :
    r \in E <=> LET S == {e \in E : Before(e, r, now)}
                IN Cardinality(S) < lim /\ ~PoolFull(r, S, plimit)

\* Mutant of HandedOut: a full pool blocks the waiters behind.
HandedOutInLine(E, W, L, lim, plimit, now) ==
  \A r \in W :
    r \in E <=> LET S == L \union {e \in W : Before(e, r, now)}
                IN /\ Cardinality(S) < lim
                   /\ \A e \in W : Before(e, r, now) => e \in E
                   /\ ~PoolFull(r, S, plimit)

\* The loop over the sorted waiters hands out the free slots in that order and
\* passes over a waiter whose pool is full.  The set E it ends with is the one in
\* which a waiter is exactly if, after the leases L and the members of E before
\* it, there is still a slot for it in the limit and in its pool.
HandedOut(E, W, L, lim, plimit, now) ==
  \A r \in W :
    r \in E <=> LET S == L \union {e \in E : Before(e, r, now)}
                IN Cardinality(S) < lim /\ ~PoolFull(r, S, plimit)

-------------------------------------------------------------------------------
(* acquire() *)

Request(r) ==
  /\ pc[r] = "idle" /\ Alive(r)
  /\ r \notin waiters \union leases
  /\ Goto(r, "poll")
  /\ order' = Append(Remove(order, r), r)
  /\ waited' = [waited EXCEPT ![r] = 0]
  /\ UNCHANGED <<file, lag, aborted, up>>

\* The top of the loop, after delay() if this is not the first turn: the signal and
\* queueTimeoutMs are looked at, then the clock is sampled.
Sample(r) ==
  /\ pc[r] = "poll" /\ ~aborted[r]
  /\ Goto(r, "mutate")
  /\ lag' = [lag EXCEPT ![r] = 0]
  /\ UNCHANGED <<file, order, waited, aborted, up>>

\* Mutant of GiveUp: the error leaves acquire() without removeWaiter.
GiveUpOnly(r) ==
  /\ \/ pc[r] \in {"poll", "mutate"} /\ aborted[r]
     \/ pc[r] = "poll" /\ Failures
     \/ pc[r] = "mutate" /\ lag[r] = LockTicks /\ Failures
  /\ Goto(r, "idle")
  /\ lag' = [lag EXCEPT ![r] = 0]
  /\ aborted' = [aborted EXCEPT ![r] = FALSE]
  /\ UNCHANGED <<file, order, waited, up>>

\* The request ends with an error: its signal fired (in delay(), at the top of the
\* loop, or while it waits for the lock), its queue time ran out, or the lock did.
GiveUp(r) ==
  /\ \/ pc[r] \in {"poll", "mutate"} /\ aborted[r]
     \/ pc[r] = "poll" /\ Failures
     \/ pc[r] = "mutate" /\ lag[r] = LockTicks /\ Failures
  /\ Goto(r, "removing")
  /\ lag' = [lag EXCEPT ![r] = 0]
  /\ aborted' = [aborted EXCEPT ![r] = FALSE]
  /\ UNCHANGED <<file, order, waited, up>>

\* The mutation of acquire(): (re)insert or refresh the waiter, then take a lease
\* if the run is among the eligible ones.
TryAdmit(r) ==
  /\ pc[r] = "mutate" /\ ~aborted[r]
  /\ Reconcile(ProcOf[r])
  /\ \E E \in SUBSET (LiveWaiters \union {r}) :
       LET W == LiveWaiters \union {r}
           known == r \in LiveWaiters
           admitted == r \in E
       IN
        /\ HandedOut(E, W, LiveLeases, limit', poolLimit', lag[r])
        /\ waiters' = IF admitted THEN W \ {r} ELSE W
        /\ leases' = IF admitted THEN LiveLeases \union {r} ELSE LiveLeases
        /\ beat' = [w \in Runs |->
             CASE w \notin waiters' -> 0
               [] w = r /\ (~known \/ beat[r] >= HeartbeatTicks + lag[r]) -> lag[r]
               [] OTHER -> beat[w]]
        /\ ttl' = [l \in Runs |->
             CASE l \notin leases' -> 0
               [] l = r -> IF lag[r] >= LeaseTicks THEN 0 ELSE LeaseTicks - lag[r]
               [] OTHER -> ttl[l]]
        /\ order' = IF admitted THEN Remove(order, r) ELSE order
        /\ Goto(r, IF admitted THEN "granted" ELSE "poll")
  /\ lag' = [lag EXCEPT ![r] = 0]
  /\ UNCHANGED <<waited, aborted, up>>

\* removeWaiter: its own mutation may time out, which is ignored; the waiter
\* then stays in the file until it is pruned.
RemoveWaiter(r) ==
  /\ pc[r] = "removing"
  /\ \/ /\ Mutate(ProcOf[r], {r}, {})
        /\ KeepTtl
        /\ order' = Remove(order, r)
     \/ Failures /\ UNCHANGED <<file, order>>
  /\ Goto(r, "idle")
  /\ UNCHANGED <<waited, lag, aborted, up>>

-------------------------------------------------------------------------------
(* run() *)

Start(r) ==
  /\ pc[r] = "granted"
  /\ Goto(r, IF aborted[r] THEN "releasing" ELSE "running")
  /\ aborted' = [aborted EXCEPT ![r] = FALSE]
  /\ UNCHANGED <<file, order, waited, lag, up>>

\* The interval timer of startLeaseHeartbeat.  A lease that is gone stays gone.
Heartbeat(r) ==
  /\ pc[r] \in {"granted", "running", "releasing"}
  /\ Mutate(ProcOf[r], {}, {})
  /\ ttl' = [l \in Runs |-> CASE l \notin leases' -> 0
                              [] l = r -> LeaseTicks
                              [] OTHER -> ttl[l]]
  /\ UNCHANGED <<order, waited, pc, lag, aborted, up>>

Finish(r) ==
  /\ pc[r] = "running"
  /\ Goto(r, "releasing")
  /\ UNCHANGED <<file, order, waited, lag, aborted, up>>

\* release: a failed mutation is ignored, the lease then runs out.
Release(r) ==
  /\ pc[r] = "releasing"
  /\ \/ Mutate(ProcOf[r], {}, {r}) /\ KeepTtl
     \/ Failures /\ UNCHANGED file
  /\ Goto(r, "idle")
  /\ UNCHANGED <<order, waited, lag, aborted, up>>

-------------------------------------------------------------------------------
(* The environment *)

Abort(r) ==
  /\ r \in Abortable
  /\ pc[r] \in {"poll", "mutate", "granted"}
  /\ ~aborted[r]
  /\ aborted' = [aborted EXCEPT ![r] = TRUE]
  /\ UNCHANGED <<file, order, waited, pc, lag, up>>

Holding(r) == pc[r] \in {"granted", "running"}

Capped(n, cap) == IF n < cap THEN n + 1 ELSE cap

\* A tick passes.  No call waits for the lock longer than LockTicks; timely
\* processes poll and refresh their leases before either runs out.
Tick ==
  /\ \A r \in Runs : pc[r] = "mutate" => lag[r] < LockTicks
  /\ Timely => \A r \in Runs :
       /\ Alive(r) /\ Holding(r) => ttl[r] > 1
       /\ r \in waiters /\ pc[r] \in {"poll", "mutate"} => beat[r] < LeaseTicks
  /\ beat' = [r \in Runs |-> IF r \in waiters THEN Capped(beat[r], LeaseTicks + 1) ELSE 0]
  /\ ttl' = [r \in Runs |-> IF r \in leases /\ ttl[r] > 0 THEN ttl[r] - 1 ELSE 0]
  /\ waited' = [r \in Runs |-> IF r \in Background /\ Contains(order, r) THEN Capped(waited[r], WaitCap) ELSE 0]
  /\ lag' = [r \in Runs |-> IF pc[r] = "mutate" THEN lag[r] + 1 ELSE 0]
  /\ UNCHANGED <<limit, poolLimit, waiters, leases, order, pc, aborted, up>>

Crash(p) ==
  /\ Failures
  /\ p \in up
  /\ up' = up \ {p}
  /\ pc' = [r \in Runs |-> IF ProcOf[r] = p THEN "dead" ELSE pc[r]]
  /\ lag' = [r \in Runs |-> IF ProcOf[r] = p THEN 0 ELSE lag[r]]
  /\ aborted' = [r \in Runs |-> IF ProcOf[r] = p THEN FALSE ELSE aborted[r]]
  /\ UNCHANGED <<file, order, waited>>

Progress(r) ==
  Sample(r) \/ GiveUp(r) \/ TryAdmit(r) \/ RemoveWaiter(r)
  \/ Start(r) \/ Finish(r) \/ Release(r)

Next ==
  \/ \E r \in Runs : Request(r) \/ Progress(r) \/ Heartbeat(r) \/ Abort(r)
  \/ Tick
  \/ \E p \in Procs : Crash(p)

Spec == Init /\ [][Next]_vars

\* Live processes go on with their requests, their timers fire, and time passes: the
\* guard of Tick only says what happens before the next tick.
Fairness ==
  /\ \A r \in Runs : WF_vars(Progress(r)) /\ WF_vars(Heartbeat(r))
  /\ SF_vars(Tick)

FairSpec == Spec /\ Fairness

-------------------------------------------------------------------------------
(* Properties *)

Running == {r \in Runs : pc[r] = "running"}

\* "a host-wide 8-child concurrency lease" (docs/reference.md): no more runs are
\* executed at a time, over all processes, than the largest configured limit.
HostWideCap == Cardinality(Running) <= Peak

\* acquire(): a lease is added only within the limits in force, the process's own
\* included, even when other processes lowered them since the request was made.
AdmittedWithinLimits ==
  \A r \in leases' \ leases :
    /\ Cardinality(leases') <= limit'
    /\ limit' <= MaxConcurrency[ProcOf[r]]
    /\ ResourceOf[r] # NoResource =>
         LET k == ResourceOf[r] IN
           /\ poolLimit'[k] # 0 => InUse(k, leases') <= poolLimit'[k]
           /\ ResourceLimits[ProcOf[r]][k] # 0
                => InUse(k, leases') <= ResourceLimits[ProcOf[r]][k]

AdmissionWithinLimits == [][AdmittedWithinLimits]_vars

\* release(), removeWaiter(): when nothing failed, a run that is over has left
\* neither a waiter nor a lease behind.
NothingHeldAfterEnd ==
  ~Failures => \A r \in Runs : pc[r] = "idle" => r \notin waiters \union leases

\* acquire(): the aging of background requests and the order by request time let
\* every request that does not give up start its run, however many foreground
\* requests arrive after it.
EveryRequestServed ==
  \A r \in Runs : pc[r] = "poll" ~> pc[r] \in {"granted", "removing", "dead"}

\* The loop of acquire() over the sorted waiters, as it is written: stop when the
\* slots are gone, continue past a full pool.
LoopResult(W, L, lim, plimit, now) ==
  FoldLeft(LAMBDA S, r : IF Cardinality(S) >= lim \/ PoolFull(r, S, plimit)
                         THEN S ELSE S \union {r},
           L, SetToSortSeq(W, LAMBDA r, s : Before(r, s, now))) \ L

\* HandedOut describes that loop: its result is the only set with the property, in
\* every state and whatever the limits.
LoopHandsOut ==
  \A lim \in 1..(Peak + 1), now \in 0..LockTicks :
    {E \in SUBSET waiters : HandedOut(E, waiters, leases, lim, poolLimit, now)}
      = {LoopResult(waiters, leases, lim, poolLimit, now)}
===============================================================================
