---------------------------- MODULE BackgroundJobs ----------------------------
(***************************************************************************)
(* Background subagent jobs: the store jobs.json that all Pi processes     *)
(* share (extensions/_shared/job-store.ts) and the extension that owns the *)
(* jobs (extensions/spawn-subagent/index.ts).                              *)
(*                                                                         *)
(* Every change of the store is a mutation under the interprocess lock,    *)
(* one atomic step here; but a mutation is only requested at one time,     *)
(* takes effect at another (the lock is not fair), and its result reaches  *)
(* the caller at a third.  Between them the owner's memory moves on: the   *)
(* child process reports, tool calls read the store without the lock, the  *)
(* heartbeat timer fires.  A mutation is thus an element of ops from its   *)
(* request until it lands, and a reply until it is delivered.  The replies *)
(* of one process are delivered in the order its mutations land.           *)
(*                                                                         *)
(* Time is abstracted: a lease is current or expired.  A job's number is   *)
(* also its rank by startedAt.  Results, labels and times are left out.    *)
(***************************************************************************)
EXTENDS Naturals, FiniteSets

CONSTANTS
  Jobs,         \* the jobs, numbered by startedAt
  Procs,        \* the Pi processes
  OwnerOf,      \* the process that runs each job
  Interactive,  \* the jobs whose child may ask questions
  MaxQuestions, \* maxExchanges
  MaxActive,    \* config.maxBackgroundJobs
  MaxJobs,      \* MAX_PERSISTED_JOBS
  Answers,      \* tags of concurrent answers to one question
  Timely,       \* TRUE: live owners refresh their leases in time
  Past,         \* what may be over, and pruned, when a behaviour starts: sets of jobs
  MaxOps,       \* per job: bound on the mutations in flight per process while it is in play
  MaxFailures   \* bound on crashes and failed mutations in a behaviour

ASSUME JobsAssumption ==
  /\ Jobs \subseteq Nat /\ IsFiniteSet(Jobs)
  /\ OwnerOf \in [Jobs -> Procs]
  /\ Interactive \subseteq Jobs
  /\ MaxQuestions \in Nat /\ MaxActive \in Nat /\ MaxJobs \in Nat
  /\ Timely \in BOOLEAN
  /\ Past \subseteq SUBSET Jobs /\ MaxOps \in [Jobs -> Nat] /\ MaxFailures \in Nat

VARIABLES
  stored,    \* the records of jobs.json
  expired,   \* the record's lease has run out
  mem,       \* the owner's entry in backgroundJobs
  attached,  \* that entry is the object the child's callbacks use
  child,     \* the state of the child process
  asked,     \* the number of questions it has asked
  aborted,   \* the job's AbortController has fired
  ops,       \* the mutations each process has requested
  reply,     \* the result of its last mutation, not delivered yet
  saving,    \* the jobs that queueSaveBackgroundJobStore has still to write
  up,        \* the processes alive
  failures   \* crashes and failed mutations so far

vars == <<stored, expired, mem, attached, child, asked, aborted, ops, reply,
          saving, up, failures>>

-------------------------------------------------------------------------------
(* Records *)

Terminal == {"completed", "failed", "canceled"}
Statuses == Terminal \union {"running", "awaiting_answer", "canceling"}
Absent   == [st |-> "absent"]
None     == 0    \* no question

Records == [st : Statuses, rev : Nat, cancel : BOOLEAN, q : 0..MaxQuestions,
            ans : 0..MaxQuestions]

NewJob == [st |-> "running", rev |-> 1, cancel |-> FALSE, q |-> None, ans |-> None]

Active(r) == r.st \notin Terminal \union {"absent"}
Over(r)   == r.st \in Terminal

\* A question goes with the status awaiting_answer only.
Tidy(r) == IF r.st = "awaiting_answer" THEN r ELSE [r EXCEPT !.q = None]

Canceling(r, rev) == [r EXCEPT !.st = "canceling", !.q = None, !.rev = rev, !.cancel = TRUE]

\* A mutation in flight: an upsert of a snapshot ("save", "ask", "final", "last"), or
\* a creation, cancellation, answer or heartbeat.  live: the object it was requested
\* for is still the owner's entry.
Op(k, j, r, q, a) == [kind |-> k, job |-> j, rec |-> r, q |-> q, tag |-> a, live |-> TRUE]
Upserts == {"save", "ask", "final", "last"}
NoReply == [kind |-> "none"]

\* A child runs, is parked on a question, has exited by itself or has been killed
\* (by a cancellation, a timeout, a protocol error), and its end has been handled.
Children == {"none", "running", "parked", "exited", "killed", "ended"}

TypeOK ==
  /\ stored \in [Jobs -> Records \union {Absent}]
  /\ expired \in [Jobs -> BOOLEAN]
  /\ mem \in [Jobs -> Records \union {Absent}]
  /\ attached \in [Jobs -> BOOLEAN]
  /\ child \in [Jobs -> Children]
  /\ asked \in [Jobs -> 0..MaxQuestions]
  /\ aborted \in [Jobs -> BOOLEAN]
  /\ DOMAIN ops = Procs /\ DOMAIN reply = Procs
  /\ \A p \in Procs : \A o \in ops[p] :
       /\ o.kind \in Upserts \union {"create", "cancel", "claim", "beat"}
       /\ o.kind \in Upserts => o.rec \in Records
  /\ saving \in [Procs -> SUBSET Jobs]
  /\ up \subseteq Procs
  /\ failures \in 0..MaxFailures

Init ==
  /\ stored = [j \in Jobs |-> Absent]
  /\ expired = [j \in Jobs |-> FALSE]
  /\ mem = [j \in Jobs |-> Absent]
  /\ attached = [j \in Jobs |-> FALSE]
  /\ \E past \in Past : child = [j \in Jobs |-> IF j \in past THEN "ended" ELSE "none"]
  /\ asked = [j \in Jobs |-> 0]
  /\ aborted = [j \in Jobs |-> FALSE]
  /\ ops = [p \in Procs |-> {}]
  /\ reply = [p \in Procs |-> NoReply]
  /\ saving = [p \in Procs |-> {}]
  /\ up = Procs
  /\ failures = 0

Owned(p) == {j \in Jobs : OwnerOf[j] = p}
Local(p) == {j \in Owned(p) : mem[j] # Absent}

Room(p, n) ==
  \E j \in Jobs : /\ child[j] # "ended" \/ mem[j] # Absent
                  /\ Cardinality(ops[p]) + n <= MaxOps[j]

Request(p, o) ==
  /\ Room(p, 1)
  /\ ops' = [ops EXCEPT ![p] = @ \union {o}]

-------------------------------------------------------------------------------
(* The store: mutateBackgroundJobStore and its mutators *)

Stale(j) == Active(stored[j]) /\ (OwnerOf[j] \notin up \/ expired[j])

\* pruneJobs: jobs of stale owners fail; only the newest terminal records stay.
Base ==
  LET S == [j \in Jobs |-> IF Stale(j)
                           THEN [stored[j] EXCEPT !.st = "failed", !.q = None, !.rev = @ + 1]
                           ELSE stored[j]]
      act  == {j \in Jobs : Active(S[j])}
      term == {j \in Jobs : S[j] # Absent} \ act
  IN [j \in Jobs |-> IF j \in term /\ Cardinality({k \in term : k > j} \union act) >= MaxJobs
                     THEN Absent ELSE S[j]]

\* Mutant of KeepsExisting: requested cancellations stay, terminal records give way.
KeepsNewer(e, i) ==
  \/ i.rev < e.rev
  \/ e.st = "canceling" /\ i.st \notin Terminal
  \/ i.rev = e.rev /\ e.st = "awaiting_answer" /\ i.st = "running"

\* mergeJob: what is kept of the existing record against an incoming one.
KeepsExisting(e, i) ==
  \/ i.rev < e.rev
  \/ e.st \in Terminal /\ (i.rev = e.rev \/ i.st \notin Terminal)
  \/ e.st = "canceling" /\ i.st \notin Terminal
  \/ i.rev = e.rev /\ e.st = "awaiting_answer" /\ i.st = "running"

\* Mutant of Merge: the incoming record decides about the cancellation.
MergeForgets(e, i) ==
  CASE e = Absent          -> Tidy(i)
    [] e # Absent /\ KeepsExisting(e, i) -> e
    [] OTHER               -> Tidy(i)

Merge(e, i) ==
  CASE e = Absent          -> Tidy(i)
    [] e # Absent /\ KeepsExisting(e, i) -> e
    [] OTHER               -> Tidy([i EXCEPT !.cancel = i.cancel \/ e.cancel])

\* A mutation o of process p takes effect: the store becomes S, the leases of Ls are
\* written anew, r is the result.
Lands(p, o, S, Ls, r) ==
  /\ p \in up /\ reply[p] = NoReply
  /\ stored' = S
  /\ expired' = [j \in Jobs |-> expired[j] /\ j \notin Ls /\ S[j] # Absent]
  /\ ops' = [ops EXCEPT ![p] = @ \ {o}]
  /\ reply' = [reply EXCEPT ![p] = r]
  /\ UNCHANGED <<mem, attached, child, asked, aborted, saving, up, failures>>

LandUpsert(p, o) ==
  /\ o.kind \in Upserts
  /\ LET j == o.job
         m == Merge(Base[j], o.rec)
     IN Lands(p, o, [Base EXCEPT ![j] = m], IF m = Base[j] THEN {} ELSE {j},
              IF o.kind \in {"final", "last"} THEN [kind |-> "saved", job |-> j] ELSE NoReply)

\* Mutant of LandCreate: the capacity is that of the process.
LandCreateLocal(p, o) ==
  /\ o.kind = "create"
  /\ LET full == Cardinality({j \in Owned(p) : Active(Base[j])}) >= MaxActive
     IN IF full
        THEN Lands(p, o, Base, {}, NoReply)
        ELSE Lands(p, o, [Base EXCEPT ![o.job] = NewJob], {o.job},
                   [kind |-> "created", job |-> o.job])

\* createStoredJobIfCapacity
LandCreate(p, o) ==
  /\ o.kind = "create"
  /\ LET full == Cardinality({j \in Jobs : Active(Base[j])}) >= MaxActive
     IN IF full
        THEN Lands(p, o, Base, {}, NoReply)
        ELSE Lands(p, o, [Base EXCEPT ![o.job] = NewJob], {o.job},
                   [kind |-> "created", job |-> o.job])

\* Mutant of LandCancel: the request ends the job.
LandCancelAtOnce(p, o) ==
  /\ o.kind = "cancel"
  /\ LET j == o.job
         b == Base[j]
         s == IF Active(b) THEN [Canceling(b, b.rev + 1) EXCEPT !.st = "canceled"] ELSE b
     IN Lands(p, o, [Base EXCEPT ![j] = s], {}, NoReply)

\* requestStoredJobCancellation
LandCancel(p, o) ==
  /\ o.kind = "cancel"
  /\ LET j == o.job
         b == Base[j]
         s == IF Active(b) /\ ~(b.st = "canceling" /\ b.cancel)
              THEN Canceling(b, b.rev + 1) ELSE b
     IN Lands(p, o, [Base EXCEPT ![j] = s], {},
              IF OwnerOf[j] = p
              THEN [kind |-> "cancel", job |-> j, rec |-> s, live |-> o.live] ELSE NoReply)

\* claimStoredJobAnswer
LandClaim(p, o) ==
  /\ o.kind = "claim"
  /\ LET j == o.job
         b == Base[j]
         ok == b # Absent /\ ~b.cancel /\ b.st = "awaiting_answer" /\ b.q = o.q
         s == IF ok THEN [b EXCEPT !.st = "running", !.q = None, !.ans = o.q, !.rev = @ + 1]
              ELSE b
     IN Lands(p, o, [Base EXCEPT ![j] = s], {},
              [kind |-> IF ok THEN "claimed" ELSE "rejected", job |-> j, rec |-> s,
               q |-> o.q, live |-> o.live])

\* heartbeatStoredJobs
LandBeat(p, o) ==
  /\ o.kind = "beat"
  /\ LET mine == {j \in Owned(p) : Active(Base[j])}
     IN Lands(p, o, Base, mine,
              [kind |-> "beat",
               jobs |-> {j \in mine : Base[j].cancel \/ Base[j].st = "canceling"}])

Land(p) == \E o \in ops[p] : LandUpsert(p, o) \/ LandCreate(p, o) \/ LandCancel(p, o)
                              \/ LandClaim(p, o) \/ LandBeat(p, o)

-------------------------------------------------------------------------------
(* The owner: tool calls *)

\* hydrateStoredBackgroundJob: the snapshot of a stored record; an interactive job
\* of this process that is not in its memory has lost its runtime.
Hydrate(j) ==
  LET s == stored[j]
      snap == Tidy(IF Stale(j) THEN [s EXCEPT !.st = "failed"] ELSE s)
  IN IF j \in Interactive /\ Active(snap)
     THEN [snap EXCEPT !.st = "failed", !.q = None, !.rev = @ + 1]
     ELSE snap

Later(m, n) == IF m > n THEN m ELSE n

\* refreshPersistedBackgroundJobs: an active entry takes over a cancellation and the
\* revision, every other entry is replaced by what the store says.
Refreshed(p, j) ==
  CASE OwnerOf[j] # p \/ stored[j] = Absent -> mem[j]
    [] OwnerOf[j] = p /\ stored[j] # Absent /\ Active(mem[j]) ->
         LET m == [mem[j] EXCEPT !.cancel = stored[j].cancel, !.rev = Later(@, stored[j].rev)]
         IN IF stored[j].st = "canceling"
            THEN [m EXCEPT !.st = "canceling", !.q = None] ELSE m
    [] OTHER -> Hydrate(j)

\* The jobs whose entry a refresh replaces.
Replaced(p) == {j \in Owned(p) : stored[j] # Absent /\ ~Active(mem[j])}

Detach(o, R) == IF "live" \in DOMAIN o /\ o.job \in R THEN [o EXCEPT !.live = FALSE] ELSE o

\* A tool call of p: it refreshes, then may request the mutations Os.
ToolCall(p, Os) ==
  /\ p \in up
  /\ LET R == Replaced(p) IN
       /\ mem' = [j \in Jobs |-> Refreshed(p, j)]
       /\ attached' = [j \in Jobs |-> attached[j] /\ j \notin R]
       /\ ops' = [ops EXCEPT ![p] = {Detach(o, R) : o \in @} \union Os]
       /\ reply' = [reply EXCEPT ![p] = Detach(@, R)]
  /\ Room(p, Cardinality(Os))
  /\ UNCHANGED <<stored, expired, child, asked, aborted, saving, up, failures>>

\* subagent_status, subagent_list
Status(p) == ToolCall(p, {})

\* subagent_run(background), subagent_interactive: the record is reserved first.
Create(p, j) ==
  /\ OwnerOf[j] = p
  /\ child[j] = "none" /\ mem[j] = Absent /\ stored[j] = Absent
  /\ p \in up
  /\ reply[p] = NoReply
  /\ Request(p, Op("create", j, NewJob, None, None))
  /\ UNCHANGED <<stored, expired, mem, attached, child, asked, aborted, reply, saving, up, failures>>

\* subagent_cancel, by the owner or by any other process that finds the job active.
CancelCall(p, j) ==
  /\ IF OwnerOf[j] = p THEN Active(Refreshed(p, j)) ELSE Active(stored[j]) /\ ~Stale(j)
  /\ ToolCall(p, {Op("cancel", j, NewJob, None, None)})

\* subagent_answer, past the local checks.
AnswerCall(p, j, q, a) ==
  /\ OwnerOf[j] = p /\ j \in Interactive
  /\ attached[j] /\ j \notin Replaced(p)
  /\ LET m == Refreshed(p, j)
     IN m # Absent /\ m.ans # q /\ m.st = "awaiting_answer" /\ m.q = q
  /\ ToolCall(p, {Op("claim", j, NewJob, q, a)})

-------------------------------------------------------------------------------
(* The owner: results of its mutations *)

\* The reservation succeeded: the job enters the memory and its child starts.
DeliverCreated(p) ==
  /\ reply[p].kind = "created"
  /\ LET j == reply[p].job IN
       /\ mem' = [mem EXCEPT ![j] = NewJob]
       /\ attached' = [attached EXCEPT ![j] = TRUE]
       /\ child' = [child EXCEPT ![j] = "running"]
  /\ UNCHANGED <<aborted, saving>>

\* notifyJobFinished saves all local jobs once more.
DeliverSaved(p) ==
  /\ reply[p].kind = "saved"
  /\ saving' = [saving EXCEPT ![p] = Local(p)]
  /\ UNCHANGED <<mem, attached, child, aborted>>

DeliverCancel(p) ==
  /\ reply[p].kind = "cancel"
  /\ LET j == reply[p].job
         r == reply[p].rec
     IN IF reply[p].live
        THEN /\ mem' = [mem EXCEPT ![j] = Canceling(@, IF r = Absent THEN @.rev + 1 ELSE r.rev)]
             /\ aborted' = [aborted EXCEPT ![j] = TRUE]
        ELSE UNCHANGED <<mem, aborted>>
  /\ UNCHANGED <<attached, child, saving>>

\* The answer is handed to the child, which takes it if it is parked; a child that
\* is not is terminated.
DeliverClaimed(p) ==
  /\ reply[p].kind = "claimed"
  /\ LET j == reply[p].job IN
       /\ mem' = IF reply[p].live
                 THEN [mem EXCEPT ![j] = [@ EXCEPT !.st = "running", !.q = None,
                                                   !.ans = reply[p].q, !.rev = reply[p].rec.rev]]
                 ELSE mem
       /\ child' = [child EXCEPT ![j] = CASE @ = "parked"  -> "running"
                                          [] @ = "running" -> "killed"
                                          [] OTHER -> @]
  /\ UNCHANGED <<attached, aborted, saving>>

\* The entry is overwritten with the record the claim found.
DeliverRejected(p) ==
  /\ reply[p].kind = "rejected"
  /\ LET j == reply[p].job
         r == reply[p].rec
     IN mem' = IF reply[p].live /\ r # Absent
               THEN [mem EXCEPT ![j] = [@ EXCEPT !.st = r.st, !.q = r.q, !.cancel = r.cancel,
                                                 !.rev = r.rev]]
               ELSE mem
  /\ UNCHANGED <<attached, child, aborted, saving>>

DeliverBeat(p) ==
  /\ reply[p].kind = "beat"
  /\ LET hit == {j \in reply[p].jobs : Active(mem[j])} IN
       /\ mem' = [j \in Jobs |->
            IF j \notin hit THEN mem[j]
            ELSE Canceling(mem[j], IF mem[j].st = "canceling" THEN mem[j].rev ELSE mem[j].rev + 1)]
       /\ aborted' = [j \in Jobs |-> aborted[j] \/ j \in hit]
  /\ UNCHANGED <<attached, child, saving>>

Deliver(p) ==
  /\ p \in up
  /\ \/ DeliverCreated(p) \/ DeliverSaved(p) \/ DeliverCancel(p)
     \/ DeliverClaimed(p) \/ DeliverRejected(p) \/ DeliverBeat(p)
  /\ reply' = [reply EXCEPT ![p] = NoReply]
  /\ UNCHANGED <<stored, expired, asked, ops, up, failures>>

-------------------------------------------------------------------------------
(* The owner: timers and the child's callbacks *)

Beat(p) ==
  /\ p \in up
  /\ \E j \in Local(p) : Active(mem[j])
  /\ Request(p, Op("beat", 0, NewJob, None, None))
  /\ UNCHANGED <<stored, expired, mem, attached, child, asked, aborted, reply, saving, up, failures>>

\* onUpdate of a child at work: now and then all local jobs are saved.
Progress(j) ==
  LET p == OwnerOf[j] IN
  /\ p \in up /\ child[j] = "running"
  /\ saving' = [saving EXCEPT ![p] = Local(p)]
  /\ UNCHANGED <<stored, expired, mem, attached, child, asked, aborted, ops, reply, up, failures>>

\* saveBackgroundJobStore goes on with the next job, as it is now.
SaveNext(p) ==
  /\ p \in up
  /\ \E j \in saving[p] :
       /\ saving' = [saving EXCEPT ![p] = @ \ {j}]
       /\ Request(p, Op("save", j, mem[j], None, None))
  /\ UNCHANGED <<stored, expired, mem, attached, child, asked, aborted, reply, up, failures>>

\* A job is over in the owner's memory, and its end is written.
Ending(j, st, kind) ==
  LET p == OwnerOf[j]
      m == [mem[j] EXCEPT !.st = st, !.q = None, !.rev = @ + 1]
  IN /\ mem' = [mem EXCEPT ![j] = m]
     /\ Request(p, Op(kind, j, m, None, None))

\* applyInteractiveBoundary with a question.
Ask(j) ==
  LET p == OwnerOf[j] IN
  /\ p \in up /\ j \in Interactive
  /\ child[j] = "running" /\ asked[j] < MaxQuestions
  /\ asked' = [asked EXCEPT ![j] = @ + 1]
  /\ IF ~attached[j] \/ ~Active(mem[j])
     THEN child' = [child EXCEPT ![j] = "parked"] /\ UNCHANGED <<mem, ops>>
     ELSE IF mem[j].st = "canceling" \/ mem[j].cancel \/ aborted[j]
     THEN child' = [child EXCEPT ![j] = "killed"] /\ UNCHANGED <<mem, ops>>
     ELSE LET m == [mem[j] EXCEPT !.st = "awaiting_answer", !.q = asked'[j], !.rev = @ + 1]
          IN /\ child' = [child EXCEPT ![j] = "parked"]
             /\ mem' = [mem EXCEPT ![j] = m]
             /\ Request(p, Op("ask", j, m, None, None))
  /\ UNCHANGED <<stored, expired, attached, aborted, reply, saving, up, failures>>

\* The interactive child's process ends; the runtime reports progress once more.
Exit(j) ==
  LET p == OwnerOf[j] IN
  /\ p \in up /\ j \in Interactive
  /\ \/ child[j] = "running" /\ child' = [child EXCEPT ![j] = "exited"]
     \/ child[j] \in {"running", "parked"} /\ child' = [child EXCEPT ![j] = "killed"]
  /\ mem' = IF attached[j] /\ Active(mem[j]) /\ mem[j].st # "canceling" /\ ~mem[j].cancel
            THEN [mem EXCEPT ![j] = [@ EXCEPT !.st = "running"]] ELSE mem
  /\ UNCHANGED <<stored, expired, attached, asked, aborted, ops, reply, saving, up, failures>>

\* applyInteractiveBoundary with a terminal result, or the completion handler of a
\* one-shot run: the first of them that finds the job active ends it.
End(j) ==
  LET p == OwnerOf[j] IN
  /\ p \in up
  /\ child[j] \in IF j \in Interactive THEN {"exited", "killed"} ELSE {"running"}
  /\ child' = [child EXCEPT ![j] = "ended"]
  /\ \E st \in Terminal :
       /\ child[j] = "exited" => st # "canceled"
       /\ child[j] = "killed" => st # "completed"
       /\ j \notin Interactive =>
            (st = "canceled" <=> mem[j].st = "canceling" \/ mem[j].cancel \/ aborted[j])
       /\ IF attached[j] /\ (j \in Interactive => Active(mem[j]))
          THEN Ending(j, st, "final")
          ELSE UNCHANGED <<mem, ops>>
  /\ UNCHANGED <<stored, expired, attached, asked, aborted, reply, saving, up, failures>>

\* Mutant of Fails: a failed write is forgotten.
FailsSilently(p, o) ==
  /\ p \in up /\ failures < MaxFailures
  /\ failures' = failures + 1
  /\ ops' = [ops EXCEPT ![p] = @ \ {o}]
  /\ UNCHANGED <<mem, child, stored, expired, attached, asked, aborted, reply, saving, up>>

\* A mutation times out.  A one-shot run whose end could not be written is failed, or
\* canceled, and written once more; a question that could not be written ends the
\* child; otherwise nothing happens.
Fails(p, o) ==
  LET j == o.job IN
  /\ p \in up /\ failures < MaxFailures
  /\ failures' = failures + 1
  /\ CASE o.kind = "final" /\ j \notin Interactive ->
            LET m == [o.rec EXCEPT !.st = IF aborted[j] THEN "canceled" ELSE "failed", !.rev = @ + 1]
            IN /\ ops' = [ops EXCEPT ![p] = (@ \ {o}) \union {Op("last", j, m, None, None)}]
               /\ mem' = IF o.live THEN [mem EXCEPT ![j] = m] ELSE mem
               /\ UNCHANGED child
       [] o.kind = "ask" ->
            /\ ops' = [ops EXCEPT ![p] = @ \ {o}]
            /\ child' = [child EXCEPT ![j] = IF @ = "parked" THEN "killed" ELSE @]
            /\ UNCHANGED mem
       [] OTHER -> ops' = [ops EXCEPT ![p] = @ \ {o}] /\ UNCHANGED <<mem, child>>
  /\ UNCHANGED <<stored, expired, attached, asked, aborted, reply, saving, up>>

-------------------------------------------------------------------------------
(* The environment *)

Expire(j) ==
  /\ ~Timely
  /\ Active(stored[j]) /\ ~expired[j]
  /\ expired' = [expired EXCEPT ![j] = TRUE]
  /\ UNCHANGED <<stored, mem, attached, child, asked, aborted, ops, reply, saving, up, failures>>

Crash(p) ==
  /\ p \in up /\ failures < MaxFailures
  /\ failures' = failures + 1
  /\ up' = up \ {p}
  /\ mem' = [j \in Jobs |-> IF j \in Owned(p) THEN Absent ELSE mem[j]]
  /\ child' = [j \in Jobs |-> IF j \in Owned(p) THEN "ended" ELSE child[j]]
  /\ ops' = [ops EXCEPT ![p] = {}]
  /\ reply' = [reply EXCEPT ![p] = NoReply]
  /\ saving' = [saving EXCEPT ![p] = {}]
  /\ UNCHANGED <<stored, expired, attached, asked, aborted>>

ChildStep(j) == Ask(j) \/ Exit(j) \/ End(j)

Next ==
  \/ \E p \in Procs :
       \/ Land(p) \/ Deliver(p) \/ SaveNext(p) \/ Beat(p) \/ Status(p) \/ Crash(p)
       \/ \E o \in ops[p] : Fails(p, o)
       \/ \E j \in Jobs : Create(p, j) \/ CancelCall(p, j)
       \/ \E j \in Jobs, q \in 1..MaxQuestions, a \in Answers : AnswerCall(p, j, q, a)
  \/ \E j \in Jobs : ChildStep(j) \/ Progress(j) \/ Expire(j)

Spec == Init /\ [][Next]_vars

LandWrite(p, j) == \E o \in ops[p] : o.job = j /\ LandUpsert(p, o)

\* Mutations get the lock and their results are delivered; an upsert, which asks for
\* the lock every 25 ms, gets its turn in the end whatever else the process does.
\* Children end: the run timeout ends a parked one too.
Fairness ==
  /\ \A p \in Procs : WF_vars(Land(p)) /\ WF_vars(Deliver(p)) /\ SF_vars(SaveNext(p))
  /\ \A j \in Jobs : /\ SF_vars(LandWrite(OwnerOf[j], j))
                      /\ WF_vars(Exit(j)) /\ SF_vars(End(j))

FairSpec == Spec /\ Fairness

-------------------------------------------------------------------------------
(* Properties *)

\* mergeJob: a job that is over in the store never becomes active again, however late
\* an upsert of an earlier snapshot lands.
TerminalIsFinal ==
  [][\A j \in Jobs : Over(stored[j]) => ~Active(stored'[j])]_vars

\* mergeJob: no late write of the owner takes a requested cancellation back.
CancellationSticks ==
  [][\A j \in Jobs : stored[j] # Absent /\ stored[j].cancel /\ stored'[j] # Absent =>
       /\ stored'[j].cancel
       /\ stored'[j].st \notin {"running", "awaiting_answer"}]_vars

\* createStoredJobIfCapacity: the limit on active jobs holds over all processes.
CapacityHolds == Cardinality({j \in Jobs : Active(stored[j])}) <= MaxActive

\* A live owner's job is over in the store only when its child is: a cancellation waits
\* for the process tree, and only lost jobs are failed.
EndFollowsChild ==
  \A j \in Jobs : Over(stored[j]) /\ OwnerOf[j] \in up => child[j] \notin {"running", "parked"}

\* claimStoredJobAnswer: an accepted answer answers the question its child asks now, and
\* reaches a child that waits for it (or is over): answers to a question already
\* answered are rejected.
AnswerReachesAsker ==
  \A p \in Procs : reply[p].kind = "claimed" =>
    /\ reply[p].q = asked[reply[p].job]
    /\ child[reply[p].job] # "running"

Quiet(p) == p \in up /\ reply[p] = NoReply /\ ops[p] = {} /\ saving[p] = {}

\* Once a job's end is in the store and nothing is in flight, subagent_status of the
\* owner reports that end.
OwnerSeesEnd ==
  \A j \in Jobs : Quiet(OwnerOf[j]) /\ mem[j] # Absent /\ Over(stored[j])
     => ~Active(Refreshed(OwnerOf[j], j))

\* Every job of an owner that lives comes to an end in the store, also one that is
\* being canceled.
JobsEnd == \A j \in Jobs : Active(stored[j]) ~> (~Active(stored[j]) \/ OwnerOf[j] \notin up)
===============================================================================
