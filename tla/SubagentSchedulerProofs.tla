----------------------- MODULE SubagentSchedulerProofs -----------------------
(***************************************************************************)
(* Proofs about the host-wide scheduler, for any number of runs and        *)
(* processes and any configured limits.  Admission respects the limits by  *)
(* what one mutation does.  That no more runs than that are executed needs *)
(* more: every executed run must still have its lease, and that rests on   *)
(* timely processes and on a lease that outlives the wait for the lock.    *)
(***************************************************************************)
EXTENDS SubagentScheduler, FiniteSetTheorems, TLAPS

USE DEF LoadedConfig

\* Running counts against Peak only while leases are refreshed in time and a lease
\* cannot run out before the mutation that writes it.
TimelyLeases == Timely /\ LockTicks < LeaseTicks

SchedulerTypes ==
  /\ limit \in Nat \ {0}
  /\ poolLimit \in [Pools -> Nat]
  /\ waiters \subseteq Runs /\ leases \subseteq Runs
  /\ ttl \in [Runs -> 0..LeaseTicks]
  /\ pc \in [Runs -> Labels]
  /\ lag \in [Runs -> 0..LockTicks]
  /\ up \subseteq Procs

\* A run that is not dead belongs to a live process.
AliveInv == \A r \in Runs : pc[r] # "dead" => Alive(r)

\* The leases fit in the largest limit.
CountInv == limit <= Peak /\ Cardinality(leases) <= Peak

\* A run between its grant and its release has a lease with time left.
HoldInv == \A r \in Runs : Holding(r) => r \in leases /\ ttl[r] >= 1

SchedulerInv == SchedulerTypes /\ AliveInv /\ CountInv /\ (TimelyLeases => HoldInv)

-------------------------------------------------------------------------------

\* Leases that fit stay within the limit when one of the handed out slots is taken.
LEMMA SlotFits ==
  ASSUME NEW L \in SUBSET Runs, NEW E \in SUBSET Runs, NEW W \in SUBSET Runs,
         NEW r \in W, r \in E, NEW lim \in Nat, NEW plimit, NEW now,
         HandedOut(E, W, L, lim, plimit, now)
  PROVE  /\ Cardinality(L \union {r}) \in Nat
         /\ Cardinality(L \union {r}) <= lim
  <1> DEFINE S == L \union {e \in E : Before(e, r, now)}
  <1>1. Cardinality(S) < lim
    BY DEF HandedOut
  <1>2. IsFiniteSet(Runs) /\ S \subseteq Runs
    BY SchedulerAssumption
  <1>3. IsFiniteSet(S) /\ IsFiniteSet(L)
    BY <1>2, FS_Subset
  <1>4. L \subseteq S
    OBVIOUS
  <1>5. /\ Cardinality(L) <= Cardinality(S)
        /\ Cardinality(L) \in Nat /\ Cardinality(S) \in Nat
    BY <1>3, <1>4, FS_Subset, FS_CardinalityType
  <1>6. /\ IsFiniteSet(L \union {r})
        /\ Cardinality(L \union {r}) = IF r \in L THEN Cardinality(L) ELSE Cardinality(L) + 1
    BY <1>3, FS_AddElement
  <1> QED
    BY <1>1, <1>5, <1>6

\* The same for the pool of the run.
LEMMA PoolFits ==
  ASSUME NEW L \in SUBSET Runs, NEW E \in SUBSET Runs, NEW W \in SUBSET Runs,
         NEW r \in W, r \in E, NEW lim \in Nat, NEW plimit \in [Pools -> Nat], NEW now,
         HandedOut(E, W, L, lim, plimit, now),
         ResourceOf[r] # NoResource, plimit[ResourceOf[r]] # 0
  PROVE  InUse(ResourceOf[r], L \union {r}) <= plimit[ResourceOf[r]]
  <1> DEFINE k == ResourceOf[r]
             S == L \union {e \in E : Before(e, r, now)}
             Of(T) == {l \in T : ResourceOf[l] = k}
  <1>0. plimit[k] \in Nat
    BY DEF Pools
  <1>1. ~PoolFull(r, S, plimit)
    BY DEF HandedOut
  <1>2. ~(Cardinality(Of(S)) >= plimit[k])
    BY <1>1 DEF PoolFull, InUse
  <1>3. IsFiniteSet(Runs) /\ Of(S) \subseteq Runs /\ Of(L) \subseteq Of(S)
    BY SchedulerAssumption
  <1>4. IsFiniteSet(Of(S)) /\ IsFiniteSet(Of(L))
    BY <1>3, FS_Subset
  <1>5. /\ Cardinality(Of(L)) <= Cardinality(Of(S))
        /\ Cardinality(Of(L)) \in Nat /\ Cardinality(Of(S)) \in Nat
    BY <1>3, <1>4, FS_Subset, FS_CardinalityType
  <1>6. Cardinality(Of(L) \union {r})
          = IF r \in Of(L) THEN Cardinality(Of(L)) ELSE Cardinality(Of(L)) + 1
    BY <1>4, FS_AddElement
  <1>7. Of(L \union {r}) = Of(L) \union {r}
    OBVIOUS
  <1>8. InUse(k, L \union {r}) = Cardinality(Of(L) \union {r})
    BY <1>7 DEF InUse
  <1>9. Cardinality(Of(L) \union {r}) <= plimit[k]
    <2> HIDE DEF Of, S
    <2> QED BY <1>0, <1>2, <1>5, <1>6
  <1> QED
    BY <1>8, <1>9

\* What Reconcile leaves in force.
LEMMA ReconcileBounds ==
  ASSUME SchedulerTypes, NEW p \in Procs, Reconcile(p)
  PROVE  /\ limit' \in Nat \ {0}
         /\ poolLimit' \in [Pools -> Nat]
         /\ limit' <= MaxConcurrency[p]
         /\ MaxConcurrency[p] <= Peak
         /\ \A k \in Pools : ResourceLimits[p][k] # 0 =>
              poolLimit'[k] # 0 /\ poolLimit'[k] <= ResourceLimits[p][k]
  BY SchedulerAssumption DEF SchedulerTypes, Reconcile

\* A smaller set of leases has no more members.
LEMMA FewerLeases ==
  ASSUME NEW S \in SUBSET Runs, NEW T \in SUBSET S
  PROVE  Cardinality(T) \in Nat /\ Cardinality(S) \in Nat /\ Cardinality(T) <= Cardinality(S)
  BY SchedulerAssumption, FS_Subset, FS_CardinalityType

-------------------------------------------------------------------------------

LEMMA InitScheduler == Init => SchedulerInv
  <1> SUFFICES ASSUME Init PROVE SchedulerInv
    OBVIOUS
  <1>1. Cardinality(leases) = 0
    BY FS_EmptySet DEF Init
  <1>2. PICK p \in Procs : limit = MaxConcurrency[p] /\ poolLimit = ResourceLimits[p]
    BY DEF Init
  <1>3. SchedulerTypes
    BY <1>2, SchedulerAssumption DEF Init, SchedulerTypes, Labels
  <1>4. AliveInv /\ HoldInv
    BY SchedulerAssumption DEF Init, AliveInv, Alive, HoldInv, Holding
  <1>5. CountInv
    BY <1>1, <1>2, SchedulerAssumption DEF CountInv
  <1> QED
    BY <1>3, <1>4, <1>5 DEF SchedulerInv

\* Mutations that only drop leases: removeWaiter, release and the heartbeat.
LEMMA DroppingMutation ==
  ASSUME SchedulerInv, NEW r \in Runs, NEW Ws, NEW Ls, Mutate(ProcOf[r], Ws, Ls)
  PROVE  /\ limit' \in Nat \ {0} /\ poolLimit' \in [Pools -> Nat]
         /\ waiters' \subseteq Runs /\ leases' \subseteq leases
         /\ CountInv'
         /\ TimelyLeases => \A d \in Runs : Holding(d) /\ d \notin Ls => d \in leases'
  <1>1. ProcOf[r] \in Procs
    BY SchedulerAssumption
  <1>2. /\ limit' \in Nat \ {0} /\ poolLimit' \in [Pools -> Nat]
        /\ limit' <= MaxConcurrency[ProcOf[r]] /\ MaxConcurrency[ProcOf[r]] <= Peak
    BY <1>1, ReconcileBounds DEF Mutate, SchedulerInv
  <1>3. waiters' \subseteq Runs /\ leases' \subseteq leases
    BY DEF Mutate, LiveWaiters, LiveLeases, SchedulerInv, SchedulerTypes
  <1>4. Cardinality(leases') \in Nat /\ Cardinality(leases) \in Nat
        /\ Cardinality(leases') <= Cardinality(leases)
    BY <1>3, FewerLeases DEF SchedulerInv, SchedulerTypes
  <1>5. CountInv'
    BY <1>1, <1>2, <1>4, SchedulerAssumption DEF CountInv, SchedulerInv
  <1>6. ASSUME TimelyLeases, NEW d \in Runs, Holding(d), d \notin Ls PROVE d \in leases'
    BY <1>6 DEF Mutate, LiveLeases, SchedulerInv, AliveInv, HoldInv, Holding, SchedulerTypes
  <1> QED
    BY <1>2, <1>3, <1>5, <1>6

\* The admission step, spelled out.
LEMMA AdmissionStep ==
  ASSUME SchedulerInv, NEW r \in Runs, TryAdmit(r)
  PROVE  /\ limit' \in Nat \ {0} /\ poolLimit' \in [Pools -> Nat]
         /\ limit' <= MaxConcurrency[ProcOf[r]] /\ limit' <= Peak
         /\ waiters' \subseteq Runs
         /\ \/ leases' = LiveLeases /\ pc' = [pc EXCEPT ![r] = "poll"]
            \/ /\ leases' = LiveLeases \union {r}
               /\ pc' = [pc EXCEPT ![r] = "granted"]
               /\ Cardinality(leases') \in Nat
               /\ Cardinality(leases') <= limit'
               /\ ResourceOf[r] # NoResource /\ poolLimit'[ResourceOf[r]] # 0
                    => InUse(ResourceOf[r], leases') <= poolLimit'[ResourceOf[r]]
  <1>1. ProcOf[r] \in Procs
    BY SchedulerAssumption
  <1>2. /\ limit' \in Nat \ {0} /\ poolLimit' \in [Pools -> Nat]
        /\ limit' <= MaxConcurrency[ProcOf[r]] /\ MaxConcurrency[ProcOf[r]] <= Peak
    BY <1>1, ReconcileBounds DEF TryAdmit, SchedulerInv
  <1>3. limit' <= Peak
    BY <1>1, <1>2, SchedulerAssumption
  <1> DEFINE W == LiveWaiters \union {r}
  <1>4. W \in SUBSET Runs /\ LiveLeases \in SUBSET Runs /\ r \in W
    BY DEF LiveWaiters, LiveLeases, SchedulerInv, SchedulerTypes
  <1>5. PICK E \in SUBSET W :
          /\ HandedOut(E, W, LiveLeases, limit', poolLimit', lag[r])
          /\ waiters' = IF r \in E THEN W \ {r} ELSE W
          /\ leases' = IF r \in E THEN LiveLeases \union {r} ELSE LiveLeases
          /\ Goto(r, IF r \in E THEN "granted" ELSE "poll")
    BY DEF TryAdmit
  <1>6. CASE r \notin E
    BY <1>2, <1>3, <1>4, <1>5, <1>6 DEF Goto
  <1>7. CASE r \in E
    <2>1. E \in SUBSET Runs /\ limit' \in Nat
      BY <1>2, <1>4
    <2>2. Cardinality(LiveLeases \union {r}) \in Nat
          /\ Cardinality(LiveLeases \union {r}) <= limit'
      BY <2>1, <1>4, <1>5, <1>7, SlotFits
    <2>3. ResourceOf[r] # NoResource /\ poolLimit'[ResourceOf[r]] # 0
            => InUse(ResourceOf[r], LiveLeases \union {r}) <= poolLimit'[ResourceOf[r]]
      BY <2>1, <1>2, <1>4, <1>5, <1>7, PoolFits
    <2> QED
      BY <1>2, <1>3, <1>4, <1>5, <1>7, <2>2, <2>3 DEF Goto
  <1> QED
    BY <1>6, <1>7

LEMMA SchedulerStep == SchedulerInv /\ [Next]_vars => SchedulerInv'
  <1> SUFFICES ASSUME SchedulerInv, [Next]_vars PROVE SchedulerInv'
    OBVIOUS
  <1>t. SchedulerTypes /\ AliveInv /\ CountInv /\ (TimelyLeases => HoldInv)
    BY DEF SchedulerInv
  <1> USE SchedulerAssumption
  <1>1. ASSUME NEW r \in Runs, Request(r) \/ Sample(r) \/ GiveUp(r) \/ Start(r)
                               \/ Finish(r) \/ Abort(r)
        PROVE SchedulerInv'
    <2>1. UNCHANGED <<limit, poolLimit, waiters, leases, ttl, up>>
      BY <1>1 DEF Request, Sample, GiveUp, Start, Finish, Abort, file
    <2>2. SchedulerTypes' /\ AliveInv'
      <3>1. /\ pc[r] # "dead"
            /\ \/ UNCHANGED pc
               \/ \E l \in Labels : pc' = [pc EXCEPT ![r] = l]
            /\ UNCHANGED lag \/ lag' = [lag EXCEPT ![r] = 0]
        <4>1. CASE Request(r) \/ Sample(r) \/ GiveUp(r)
          BY <4>1 DEF Request, Sample, GiveUp, Goto, Labels
        <4>2. CASE Start(r) \/ Finish(r) \/ Abort(r)
          BY <4>2 DEF Start, Finish, Abort, Goto, Labels
        <4> QED BY <1>1, <4>1, <4>2
      <3>2. SchedulerTypes'
        <4>1. pc' \in [Runs -> Labels]
          BY <1>t, <3>1 DEF SchedulerTypes
        <4>2. lag' \in [Runs -> 0..LockTicks]
          BY <1>t, <3>1 DEF SchedulerTypes
        <4> QED BY <1>t, <2>1, <4>1, <4>2 DEF SchedulerTypes
      <3>3. AliveInv'
        BY <1>t, <2>1, <3>1 DEF SchedulerTypes, AliveInv, Alive
      <3> QED BY <3>2, <3>3
    <2>3. \A d \in Runs : Holding(d)' => Holding(d)
      BY <1>1, <1>t DEF Request, Sample, GiveUp, Start, Finish, Abort, Goto,
                              SchedulerTypes, Holding
    <2>4. CountInv' /\ (TimelyLeases => HoldInv')
      BY <1>t, <2>1, <2>3 DEF CountInv, HoldInv
    <2> QED BY <2>2, <2>4 DEF SchedulerInv, TimelyLeases
  <1>2. ASSUME NEW r \in Runs, TryAdmit(r) PROVE SchedulerInv'
    <2>1. /\ limit' \in Nat \ {0} /\ poolLimit' \in [Pools -> Nat]
          /\ limit' <= Peak
          /\ waiters' \subseteq Runs
          /\ \/ leases' = LiveLeases /\ pc' = [pc EXCEPT ![r] = "poll"]
             \/ /\ leases' = LiveLeases \union {r}
                /\ pc' = [pc EXCEPT ![r] = "granted"]
                /\ Cardinality(leases') \in Nat
                /\ Cardinality(leases') <= limit'
      BY <1>2, AdmissionStep
    <2>2. /\ UNCHANGED up /\ lag' = [lag EXCEPT ![r] = 0] /\ pc[r] = "mutate"
          /\ ttl' = [l \in Runs |->
               CASE l \notin leases' -> 0
                 [] l = r -> IF lag[r] >= LeaseTicks THEN 0 ELSE LeaseTicks - lag[r]
                 [] OTHER -> ttl[l]]
      BY <1>2 DEF TryAdmit
    <2>3. lag[r] \in 0..LockTicks
      BY <1>t DEF SchedulerTypes
    <2>4. SchedulerTypes'
      BY <1>t, <2>1, <2>2, <2>3 DEF SchedulerTypes, LiveLeases, Labels
    <2>5. AliveInv'
      BY <1>t, <2>1, <2>2 DEF SchedulerTypes, AliveInv, Alive
    <2>6. CountInv'
      <3>1. CASE leases' = LiveLeases
        <4>1. LiveLeases \in SUBSET leases /\ leases \in SUBSET Runs
          BY <1>t DEF LiveLeases, SchedulerTypes
        <4>2. Cardinality(LiveLeases) \in Nat /\ Cardinality(leases) \in Nat
              /\ Cardinality(LiveLeases) <= Cardinality(leases)
          BY <4>1, FewerLeases
        <4> QED BY <1>t, <2>1, <3>1, <4>2 DEF CountInv
      <3>2. CASE Cardinality(leases') \in Nat /\ Cardinality(leases') <= limit'
        BY <2>1, <3>2 DEF CountInv
      <3> QED BY <2>1, <3>1, <3>2
    <2>7. ASSUME TimelyLeases PROVE HoldInv'
      <3>1. LiveLeases \subseteq leases'
        BY <2>1
      <3>2. ASSUME NEW d \in Runs, d # r, Holding(d)' PROVE d \in leases' /\ ttl'[d] >= 1
        <4>1. Holding(d)
          BY <1>t, <2>1, <3>2 DEF Holding, SchedulerTypes
        <4>2. d \in LiveLeases /\ ttl[d] >= 1
          BY <1>t, <2>7, <4>1 DEF HoldInv, LiveLeases, AliveInv, Holding, SchedulerTypes
        <4> QED BY <2>2, <3>1, <3>2, <4>2
      <3>3. ASSUME Holding(r)' PROVE r \in leases' /\ ttl'[r] >= 1
        <4>1. r \in leases'
          BY <1>t, <2>1, <3>3 DEF Holding, SchedulerTypes
        <4> QED BY <2>2, <2>3, <2>7, <4>1 DEF TimelyLeases
      <3> QED BY <3>2, <3>3 DEF HoldInv
    <2> QED BY <2>4, <2>5, <2>6, <2>7 DEF SchedulerInv, TimelyLeases
  <1>3. ASSUME NEW r \in Runs, RemoveWaiter(r) \/ Release(r) PROVE SchedulerInv'
    <2>1. /\ UNCHANGED <<up, lag>> /\ pc' = [pc EXCEPT ![r] = "idle"]
          /\ pc[r] \in {"removing", "releasing"}
      BY <1>3 DEF RemoveWaiter, Release, Goto
    <2>2. /\ limit' \in Nat \ {0} /\ poolLimit' \in [Pools -> Nat]
          /\ waiters' \subseteq Runs /\ leases' \subseteq leases
          /\ CountInv'
          /\ TimelyLeases => \A d \in Runs : Holding(d) /\ d # r => d \in leases'
          /\ \/ UNCHANGED ttl
             \/ ttl' = [l \in Runs |-> IF l \in leases' THEN ttl[l] ELSE 0]
      <3>1. CASE UNCHANGED file
        BY <1>t, <3>1 DEF file, SchedulerTypes, CountInv, HoldInv
      <3>2. CASE Mutate(ProcOf[r], {r}, {}) /\ KeepTtl
        BY <3>2, DroppingMutation DEF KeepTtl
      <3>3. CASE Mutate(ProcOf[r], {}, {r}) /\ KeepTtl
        BY <3>3, DroppingMutation DEF KeepTtl
      <3> QED BY <1>3, <3>1, <3>2, <3>3 DEF RemoveWaiter, Release
    <2>3. SchedulerTypes' /\ AliveInv'
      BY <1>t, <2>1, <2>2 DEF SchedulerTypes, Labels, AliveInv, Alive
    <2>4. \A d \in Runs : Holding(d)' => Holding(d) /\ d # r
      BY <1>t, <2>1 DEF Holding, SchedulerTypes
    <2>5. TimelyLeases => HoldInv'
      BY <1>t, <2>2, <2>4 DEF HoldInv, SchedulerTypes
    <2> QED BY <2>2, <2>3, <2>5 DEF SchedulerInv, TimelyLeases
  <1>4. ASSUME NEW r \in Runs, Heartbeat(r) PROVE SchedulerInv'
    <2>1. /\ UNCHANGED <<up, lag, pc>>
          /\ ttl' = [l \in Runs |-> CASE l \notin leases' -> 0
                                      [] l = r -> LeaseTicks
                                      [] OTHER -> ttl[l]]
      BY <1>4 DEF Heartbeat
    <2>2. /\ limit' \in Nat \ {0} /\ poolLimit' \in [Pools -> Nat]
          /\ waiters' \subseteq Runs /\ leases' \subseteq leases
          /\ CountInv'
          /\ TimelyLeases => \A d \in Runs : Holding(d) => d \in leases'
      BY <1>4, DroppingMutation DEF Heartbeat
    <2>3. SchedulerTypes' /\ AliveInv'
      BY <1>t, <2>1, <2>2 DEF SchedulerTypes, AliveInv, Alive
    <2>4. TimelyLeases => HoldInv'
      BY <1>t, <2>1, <2>2 DEF HoldInv, Holding, SchedulerTypes, TimelyLeases
    <2> QED BY <2>2, <2>3, <2>4 DEF SchedulerInv, TimelyLeases
  <1>5. CASE Tick
    <2>1. /\ UNCHANGED <<limit, poolLimit, waiters, leases, pc, up>>
          /\ ttl' = [r \in Runs |-> IF r \in leases /\ ttl[r] > 0 THEN ttl[r] - 1 ELSE 0]
          /\ lag' = [r \in Runs |-> IF pc[r] = "mutate" THEN lag[r] + 1 ELSE 0]
          /\ \A r \in Runs : pc[r] = "mutate" => lag[r] < LockTicks
          /\ Timely => \A r \in Runs : Alive(r) /\ Holding(r) => ttl[r] > 1
      BY <1>5 DEF Tick
    <2>2. SchedulerTypes' /\ AliveInv' /\ CountInv'
      BY <1>t, <2>1 DEF SchedulerTypes, AliveInv, Alive, CountInv
    <2>3. TimelyLeases => HoldInv'
      BY <1>t, <2>1 DEF HoldInv, Holding, SchedulerTypes, TimelyLeases, AliveInv
    <2> QED BY <2>2, <2>3 DEF SchedulerInv, TimelyLeases
  <1>6. ASSUME NEW p \in Procs, Crash(p) PROVE SchedulerInv'
    <2>1. /\ UNCHANGED <<limit, poolLimit, waiters, leases, ttl>>
          /\ up' = up \ {p}
          /\ pc' = [r \in Runs |-> IF ProcOf[r] = p THEN "dead" ELSE pc[r]]
          /\ lag' = [r \in Runs |-> IF ProcOf[r] = p THEN 0 ELSE lag[r]]
      BY <1>6 DEF Crash, file
    <2>2. SchedulerTypes' /\ AliveInv' /\ CountInv'
      BY <1>t, <2>1 DEF SchedulerTypes, Labels, AliveInv, Alive, CountInv
    <2>3. TimelyLeases => HoldInv'
      BY <1>t, <2>1 DEF HoldInv, Holding, SchedulerTypes
    <2> QED BY <2>2, <2>3 DEF SchedulerInv, TimelyLeases
  <1>7. CASE UNCHANGED vars
    BY <1>t, <1>7 DEF vars, file, SchedulerInv, SchedulerTypes, AliveInv, Alive, CountInv,
                      HoldInv, Holding, TimelyLeases
  <1> QED
    BY <1>1, <1>2, <1>3, <1>4, <1>5, <1>6, <1>7 DEF Next, Progress

LEMMA SchedulerInvariant == Spec => []SchedulerInv
  BY InitScheduler, SchedulerStep, PTL DEF Spec

\* With timely processes, and a lease that lasts longer than the wait for the lock,
\* no more runs are executed at a time than the largest configured limit, whatever
\* the number of processes and however they crash.
THEOREM HostWideCapHolds ==
  ASSUME TimelyLeases
  PROVE  Spec => []HostWideCap
  <1>1. SchedulerInv => HostWideCap
    <2> SUFFICES ASSUME SchedulerInv PROVE HostWideCap
      OBVIOUS
    <2>1. Running \subseteq leases /\ leases \subseteq Runs
      BY DEF SchedulerInv, HoldInv, Holding, Running, SchedulerTypes
    <2>2. Cardinality(Running) \in Nat /\ Cardinality(leases) \in Nat
          /\ Cardinality(Running) <= Cardinality(leases)
      BY <2>1, FewerLeases
    <2> QED BY <2>2, SchedulerAssumption DEF SchedulerInv, CountInv, HostWideCap
  <1> QED
    BY <1>1, SchedulerInvariant, PTL

\* Every admission respects the limits in force and those of the admitting process.
THEOREM AdmissionRespectsLimits == Spec => AdmissionWithinLimits
  <1>1. SchedulerInv /\ [Next]_vars => AdmittedWithinLimits
    <2> SUFFICES ASSUME SchedulerInv, [Next]_vars, NEW r \in leases' \ leases
                 PROVE  /\ Cardinality(leases') <= limit'
                        /\ limit' <= MaxConcurrency[ProcOf[r]]
                        /\ ResourceOf[r] # NoResource =>
                             LET k == ResourceOf[r] IN
                               /\ poolLimit'[k] # 0 => InUse(k, leases') <= poolLimit'[k]
                               /\ ResourceLimits[ProcOf[r]][k] # 0
                                    => InUse(k, leases') <= ResourceLimits[ProcOf[r]][k]
      BY DEF AdmittedWithinLimits
    <2>1. ASSUME NEW d \in Runs, ~TryAdmit(d), Request(d) \/ Progress(d) \/ Heartbeat(d) \/ Abort(d)
          PROVE leases' \subseteq leases
      BY <2>1 DEF Request, Progress, Sample, GiveUp, RemoveWaiter, Start, Finish, Release,
                  Heartbeat, Abort, Mutate, LiveLeases, file
    <2>2. ASSUME Tick \/ (\E p \in Procs : Crash(p)) \/ UNCHANGED vars
          PROVE leases' \subseteq leases
      BY <2>2 DEF Tick, Crash, vars, file
    <2>3. PICK d \in Runs : TryAdmit(d)
      BY <2>1, <2>2 DEF Next
    <2>4. /\ limit' <= MaxConcurrency[ProcOf[d]]
          /\ poolLimit' \in [Pools -> Nat]
          /\ \/ leases' = LiveLeases
             \/ /\ leases' = LiveLeases \union {d}
                /\ Cardinality(leases') <= limit'
                /\ ResourceOf[d] # NoResource /\ poolLimit'[ResourceOf[d]] # 0
                     => InUse(ResourceOf[d], leases') <= poolLimit'[ResourceOf[d]]
      BY <2>3, AdmissionStep
    <2>5. LiveLeases \subseteq leases
      BY DEF LiveLeases
    <2>6. r = d /\ leases' = LiveLeases \union {d}
      BY <2>4, <2>5
    <2>7. \A k \in Pools : ResourceLimits[ProcOf[d]][k] # 0 =>
            poolLimit'[k] # 0 /\ poolLimit'[k] <= ResourceLimits[ProcOf[d]][k]
      <3>1. ProcOf[d] \in Procs
        BY SchedulerAssumption
      <3> QED BY <2>3, <3>1, ReconcileBounds DEF TryAdmit, SchedulerInv
    <2>8. ASSUME ResourceOf[d] # NoResource,
                 ResourceLimits[ProcOf[d]][ResourceOf[d]] # 0
          PROVE  InUse(ResourceOf[d], leases') <= ResourceLimits[ProcOf[d]][ResourceOf[d]]
      <3> DEFINE k == ResourceOf[d]
      <3>1. k \in Pools
        BY <2>8 DEF Pools
      <3>2. poolLimit'[k] # 0 /\ poolLimit'[k] <= ResourceLimits[ProcOf[d]][k]
        BY <2>7, <2>8, <3>1
      <3>3. InUse(k, leases') <= poolLimit'[k]
        BY <2>4, <2>6, <2>8, <3>2, <2>5
      <3>4. poolLimit'[k] \in Nat /\ ResourceLimits[ProcOf[d]][k] \in Nat
        BY <2>4, <3>1, SchedulerAssumption
      <3>5. InUse(k, leases') \in Nat
        <4>1. {l \in leases' : ResourceOf[l] = k} \in SUBSET Runs
          BY <2>5, <2>6 DEF SchedulerInv, SchedulerTypes
        <4> QED BY <4>1, SchedulerAssumption, FS_Subset, FS_CardinalityType DEF InUse
      <3> QED BY <3>2, <3>3, <3>4, <3>5
    <2> QED
      BY <2>4, <2>5, <2>6, <2>8
  <1> QED
    BY <1>1, SchedulerInvariant, PTL DEF AdmissionWithinLimits, Spec

-------------------------------------------------------------------------------

\* What a run has in the file while nothing fails: a waiter from its request until its
\* grant or its withdrawal, a lease from its grant until its release.
HeldInv ==
  ~Failures => \A r \in Runs :
    /\ r \in waiters => pc[r] \in {"poll", "mutate", "removing"}
    /\ r \in leases => pc[r] \in {"granted", "running", "releasing"}

LEMMA HeldInit == Init => HeldInv
  BY DEF Init, HeldInv

LEMMA HeldStep == SchedulerInv /\ HeldInv /\ [Next]_vars => HeldInv'
  <1> SUFFICES ASSUME SchedulerInv, HeldInv, ~Failures, [Next]_vars PROVE HeldInv'
    BY DEF HeldInv
  <1>t. pc \in [Runs -> Labels]
    BY DEF SchedulerInv, SchedulerTypes
  <1> USE <1>t DEF HeldInv, Goto, file
  <1>1. ASSUME NEW r \in Runs, Request(r) \/ Sample(r) \/ GiveUp(r) \/ Start(r) \/ Finish(r) \/ Abort(r)
        PROVE  HeldInv'
    BY <1>1 DEF Request, Sample, GiveUp, Start, Finish, Abort
  <1>2. ASSUME NEW r \in Runs, TryAdmit(r) PROVE HeldInv'
    <2>1. PICK E \in SUBSET (LiveWaiters \union {r}) :
            /\ waiters' = IF r \in E THEN (LiveWaiters \union {r}) \ {r} ELSE LiveWaiters \union {r}
            /\ leases' = IF r \in E THEN LiveLeases \union {r} ELSE LiveLeases
            /\ pc' = [pc EXCEPT ![r] = IF r \in E THEN "granted" ELSE "poll"]
      BY <1>2 DEF TryAdmit
    <2>2. LiveWaiters \subseteq waiters /\ LiveLeases \subseteq leases /\ pc[r] = "mutate"
      BY <1>2 DEF LiveWaiters, LiveLeases, TryAdmit
    <2> QED
      BY <2>1, <2>2
  <1>3. ASSUME NEW r \in Runs, RemoveWaiter(r) PROVE HeldInv'
    BY <1>3 DEF RemoveWaiter, Mutate, LiveWaiters, LiveLeases
  <1>4. ASSUME NEW r \in Runs, Release(r) PROVE HeldInv'
    BY <1>4 DEF Release, Mutate, LiveWaiters, LiveLeases
  <1>5. ASSUME NEW r \in Runs, Heartbeat(r) PROVE HeldInv'
    BY <1>5 DEF Heartbeat, Mutate, LiveWaiters, LiveLeases
  <1>6. CASE Tick \/ UNCHANGED vars
    BY <1>6 DEF Tick, vars
  <1>7. ASSUME NEW p \in Procs, Crash(p) PROVE FALSE
    BY <1>7 DEF Crash
  <1> QED
    BY <1>1, <1>2, <1>3, <1>4, <1>5, <1>6, <1>7 DEF Next, Progress

\* NothingHeldAfterEnd for every instance: the requests that end leave through removeWaiter
\* or release, whatever the other processes have pruned or handed out meanwhile.
THEOREM EndsHoldNothing == Spec => []NothingHeldAfterEnd
  <1>1. HeldInv => NothingHeldAfterEnd
    BY DEF HeldInv, NothingHeldAfterEnd
  <1> QED
    BY InitScheduler, SchedulerStep, HeldInit, HeldStep, <1>1, PTL DEF Spec
===============================================================================
