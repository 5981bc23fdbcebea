------------------------- MODULE BackgroundJobsProofs -------------------------
(***************************************************************************)
(* Proofs about background jobs, for any processes, jobs, limits, failures *)
(* and orders of the mutations.  Three invariants: what is under way       *)
(* belongs to its process (OwnerInv); as long as pruning evicts nothing,   *)
(* what anybody knows of a cancellation the store knows too (StoreInv);    *)
(* and nobody holds the end of a one-shot job whose child runs (EndInv).   *)
(***************************************************************************)
EXTENDS BackgroundJobs, FiniteSetTheorems, TLAPS

Ops == [kind : Upserts \union {"create", "cancel", "claim", "beat"}, job : Nat,
        rec : Records, q : 0..MaxQuestions, tag : Answers \union {None}, live : BOOLEAN]

Replies ==
  {NoReply} \union [kind : {"created", "saved"}, job : Jobs]
  \union [kind : {"cancel"}, job : Jobs, rec : Records \union {Absent}, live : BOOLEAN]
  \union [kind : {"claimed", "rejected"}, job : Jobs, rec : Records \union {Absent},
          q : 0..MaxQuestions, live : BOOLEAN]
  \union [kind : {"beat"}, jobs : SUBSET Jobs]

Types ==
  /\ stored \in [Jobs -> Records \union {Absent}]
  /\ expired \in [Jobs -> BOOLEAN]
  /\ mem \in [Jobs -> Records \union {Absent}]
  /\ attached \in [Jobs -> BOOLEAN]
  /\ child \in [Jobs -> Children]
  /\ asked \in [Jobs -> 0..MaxQuestions]
  /\ aborted \in [Jobs -> BOOLEAN]
  /\ ops \in [Procs -> SUBSET Ops]
  /\ reply \in [Procs -> Replies]
  /\ saving \in [Procs -> SUBSET Jobs]
  /\ up \subseteq Procs

\* A mutation under way is about a job that its process runs, and has an entry for; only a
\* cancellation may be about the job of another process.
OpOf(p, o) ==
  /\ o.kind # "beat" => o.job \in Jobs
  /\ o.kind \in Upserts \union {"create", "claim"} => OwnerOf[o.job] = p
  /\ o.kind \in Upserts \union {"claim"} => mem[o.job] # Absent
  /\ o.kind = "cancel" /\ OwnerOf[o.job] = p => mem[o.job] # Absent
  /\ o.kind \in {"ask", "claim"} => o.job \in Interactive
  /\ o.kind = "create" => /\ o = Op("create", o.job, NewJob, None, None)
                          /\ stored[o.job] = Absent /\ mem[o.job] = Absent /\ child[o.job] = "none"

ReplyOf(p, r) ==
  /\ r.kind \in {"created", "cancel", "claimed", "rejected"} => OwnerOf[r.job] = p
  /\ r.kind \in {"cancel", "claimed", "rejected"} => mem[r.job] # Absent
  /\ r.kind \in {"claimed", "rejected"} => r.job \in Interactive
  /\ r.kind = "claimed" => r.rec \in Records
  /\ r.kind = "created" => child[r.job] = "none"
  /\ r.kind = "beat" => r.jobs \subseteq Owned(p)

OwnerInv ==
  /\ Types
  /\ \A p \in Procs : \A o \in ops[p] : OpOf(p, o)
  /\ \A p \in Procs : ReplyOf(p, reply[p])
  /\ \A p \in Procs : \A o \in ops[p] :
       reply[p].kind = "created" /\ o.kind = "create" => o.job # reply[p].job
  /\ \A p \in Procs : \A j \in saving[p] : OwnerOf[j] = p /\ mem[j] # Absent
  /\ \A j \in Jobs : attached[j] /\ OwnerOf[j] \in up => mem[j] # Absent

-------------------------------------------------------------------------------

\* pruneJobs evicts no record: there are at most MAX_PERSISTED_JOBS of them.
NothingPruned == \A j \in Jobs : stored[j] # Absent => Base[j] # Absent

Closed(r) == r.st \in Terminal \union {"canceling"}

\* Who knows of a cancellation of j has it from the store, which has not forgotten it.
OpKnown(o) ==
  /\ o.kind \in Upserts => stored[o.job] # Absent /\ (o.rec.cancel => Closed(stored[o.job]))
  /\ o.kind = "cancel" => stored[o.job] # Absent

ReplyKnown(r) ==
  /\ r.kind \in {"created", "cancel", "claimed", "rejected"} => stored[r.job] # Absent
  /\ r.kind = "cancel" => Closed(stored[r.job])
  /\ r.kind = "rejected" /\ r.rec # Absent => (r.rec.cancel => Closed(stored[r.job]))
  /\ r.kind = "beat" => \A j \in r.jobs : Closed(stored[j])

ActiveJobs == {j \in Jobs : Active(stored[j])}

StoreInv ==
  /\ \A j \in Jobs : stored[j] # Absent /\ stored[j].cancel => Closed(stored[j])
  /\ \A j \in Jobs : mem[j] # Absent => stored[j] # Absent /\ (mem[j].cancel => Closed(stored[j]))
  /\ \A p \in Procs : \A o \in ops[p] : OpKnown(o)
  /\ \A p \in Procs : ReplyKnown(reply[p])
  /\ Cardinality(ActiveJobs) <= MaxActive

-------------------------------------------------------------------------------

\* Nobody holds an end of the one-shot job j.
NoEndOf(j) ==
  /\ ~Over(stored[j]) /\ ~Over(mem[j])
  /\ \A p \in Procs : \A o \in ops[p] : o.kind \in Upserts /\ o.job = j => ~Over(o.rec)

EndInv ==
  /\ \A j \in Jobs : ~expired[j]
  /\ \A p \in Procs : \A o \in ops[p] : o.kind = "final" => Over(o.rec)
  /\ \A j \in Jobs \ Interactive :
       OwnerOf[j] \in up /\ child[j] # "ended" => NoEndOf(j)

-------------------------------------------------------------------------------
(* Records *)

\* A missing record is none of the records.
LEMMA AbsentRecord == /\ Absent \notin Records
                      /\ \A r \in Records \union {Absent} : r # Absent <=> r \in Records
                      /\ Absent.st = "absent"
<1>1. \A r \in Records : r.st # "absent"
  BY DEF Records, Statuses, Terminal
<1>2. Absent.st = "absent"
  BY DEF Absent
<1> QED BY <1>1, <1>2

\* None, the absent question or answer, is in the range of the fields that may hold it.
LEMMA NoQuestion == ASSUME JobsAssumption PROVE None \in 0..MaxQuestions
BY DEF None, JobsAssumption

\* A cancellation makes a record of a record.
LEMMA CancelingRecord ==
  ASSUME NEW r \in Records, NEW n \in Nat, JobsAssumption
  PROVE  /\ Canceling(r, n) \in Records /\ Canceling(r, n) # Absent
         /\ Canceling(r, n).st = "canceling" /\ Canceling(r, n).cancel
<1>1. "canceling" \in Statuses /\ TRUE \in BOOLEAN
  BY DEF Statuses
<1>2. Canceling(r, n) \in Records
  BY <1>1, NoQuestion DEF Canceling, Records
<1>3. Canceling(r, n).st = "canceling" /\ Canceling(r, n).cancel
  BY DEF Canceling, Records
<1> QED BY <1>2, <1>3, AbsentRecord

\* Tidy drops a question that nobody asks, and nothing else.
LEMMA TidyRecord ==
  ASSUME NEW r \in Records, JobsAssumption
  PROVE  /\ Tidy(r) \in Records /\ Tidy(r).st = r.st /\ Tidy(r).cancel = r.cancel
         /\ Tidy(r).rev = r.rev
BY DEF Tidy, Records, None, JobsAssumption

\* A created job starts as a running record that nobody asked to cancel.
LEMMA NewRecord == ASSUME JobsAssumption PROVE NewJob \in Records /\ NewJob.st = "running" /\ ~NewJob.cancel
BY DEF NewJob, Records, Statuses, None, JobsAssumption

\* The statuses of a record: active or over, and closed to answers or not.
LEMMA StatusKinds ==
  ASSUME NEW r \in Records
  PROVE  /\ Active(r) <=> ~Over(r)
         /\ Over(r) => Closed(r)
         /\ Closed(r) <=> r.st \in {"completed", "failed", "canceled", "canceling"}
         /\ Over(r) <=> r.st \in {"completed", "failed", "canceled"}
BY DEF Records, Statuses, Terminal, Active, Over, Closed

\* mergeJob never reopens an end, and takes neither a cancellation nor its flag back.
LEMMA MergeRecord ==
  ASSUME NEW e \in Records \union {Absent}, NEW i \in Records, JobsAssumption
  PROVE  /\ Merge(e, i) \in Records
         /\ e # Absent /\ Closed(e) => Closed(Merge(e, i))
         /\ Over(e) => Over(Merge(e, i))
         /\ e # Absent /\ e.cancel => Merge(e, i).cancel
         /\ Merge(e, i).cancel => i.cancel \/ (e # Absent /\ e.cancel)
         /\ Over(Merge(e, i)) => Over(e) \/ Over(i)
<1>1. CASE e = Absent
  <2>1. Merge(e, i) = Tidy(i)
    BY <1>1 DEF Merge
  <2>2. ~Over(e)
    BY <1>1 DEF Over, Absent, Terminal
  <2> QED BY <1>1, <2>1, <2>2, TidyRecord DEF Over
<1>2. CASE e # Absent /\ KeepsExisting(e, i)
  <2>1. Merge(e, i) = e
    BY <1>2 DEF Merge
  <2> QED BY <1>2, <2>1, AbsentRecord
<1>3. CASE e # Absent /\ ~KeepsExisting(e, i)
  <2> DEFINE m == [i EXCEPT !.cancel = i.cancel \/ e.cancel]
  <2>1. Merge(e, i) = Tidy(m)
    BY <1>3 DEF Merge
  <2>2. e \in Records
    BY <1>3
  <2>3. m \in Records /\ m.st = i.st /\ m.cancel = (i.cancel \/ e.cancel)
    BY <2>2 DEF Records
  <2>4. Closed(e) => i.st \in Terminal
    BY <1>3, <2>2 DEF KeepsExisting, Closed
  <2> HIDE DEF m
  <2>5. Merge(e, i) \in Records /\ Merge(e, i).st = i.st /\ Merge(e, i).cancel = (i.cancel \/ e.cancel)
    BY <2>1, <2>3, TidyRecord
  <2> QED BY <1>3, <2>2, <2>4, <2>5 DEF Over, Closed
<1> QED BY <1>1, <1>2, <1>3

\* pruneJobs drops a record, fails one whose owner is stale, or leaves it as it is.
LEMMA BaseRecord ==
  ASSUME JobsAssumption, Types, NEW j \in Jobs
  PROVE  /\ Base \in [Jobs -> Records \union {Absent}]
         /\ stored[j] = Absent => Base[j] = Absent
         /\ Base[j] # Absent => /\ stored[j] # Absent /\ Base[j].cancel = stored[j].cancel
                                /\ Closed(stored[j]) => Closed(Base[j])
                                /\ Over(stored[j]) => Over(Base[j])
                                /\ Over(Base[j]) => Over(stored[j]) \/ Stale(j)
<1> DEFINE S == [k \in Jobs |-> IF Stale(k)
                                THEN [stored[k] EXCEPT !.st = "failed", !.q = None, !.rev = @ + 1]
                                ELSE stored[k]]
           act  == {k \in Jobs : Active(S[k])}
           term == {k \in Jobs : S[k] # Absent} \ act
<1>1. \A k \in Jobs : Stale(k) => stored[k] \in Records
  BY AbsentRecord DEF Stale, Active, Types
<1>2. ASSUME NEW k \in Jobs
      PROVE  /\ S[k] \in Records \union {Absent} /\ (S[k] = Absent <=> stored[k] = Absent)
             /\ S[k] # Absent => /\ S[k].cancel = stored[k].cancel
                                 /\ Over(stored[k]) => Over(S[k])
                                 /\ Closed(stored[k]) => Closed(S[k])
                                 /\ Over(S[k]) => Over(stored[k]) \/ Stale(k)
  <2>1. CASE Stale(k)
    <3> DEFINE f == [stored[k] EXCEPT !.st = "failed", !.q = None, !.rev = @ + 1]
    <3> DEFINE r == stored[k]
    <3>3. r \in Records
      BY <1>1, <2>1
    <3>4. "failed" \in Statuses /\ r.rev + 1 \in Nat
      BY <3>3 DEF Records, Statuses, Terminal
    <3>1. f \in Records /\ f.cancel = stored[k].cancel /\ f.st = "failed"
      BY <3>3, <3>4, NoQuestion DEF Records
    <3>2. S[k] = f
      BY <2>1
    <3> QED BY <1>1, <2>1, <3>1, <3>2, AbsentRecord DEF Over, Closed, Terminal
  <2>2. CASE ~Stale(k)
    BY <2>2, AbsentRecord DEF Types
  <2> QED BY <2>1, <2>2
<1>3. Base = [k \in Jobs |-> IF k \in term /\ Cardinality({n \in term : n > k} \union act) >= MaxJobs
                             THEN Absent ELSE S[k]]
  BY Zenon DEF Base
<1> HIDE DEF S, term, act
<1>4. Base \in [Jobs -> Records \union {Absent}]
  BY <1>2, <1>3
<1>5. Base[j] = Absent \/ Base[j] = S[j]
  BY <1>3
<1> QED BY <1>2, <1>4, <1>5

\* What a refresh shows of a stored record keeps its cancellation, and shows an end only
\* of a job that is over, lost, or has lost its runtime.
LEMMA HydrateRecord ==
  ASSUME JobsAssumption, NEW j \in Jobs, stored[j] \in Records
  PROVE  /\ Hydrate(j) \in Records
         /\ Hydrate(j).cancel => stored[j].cancel
         /\ Over(Hydrate(j)) => Over(stored[j]) \/ Stale(j) \/ j \in Interactive
<1> DEFINE s == stored[j]
           f == [s EXCEPT !.st = "failed"]
           g == IF Stale(j) THEN f ELSE s
           t == Tidy(g)
           h == [t EXCEPT !.st = "failed", !.q = None, !.rev = @ + 1]
<1>1. "failed" \in Statuses
  BY DEF Statuses, Terminal
<1>2. f \in Records /\ f.cancel = s.cancel
  BY <1>1 DEF Records
<1>3. g \in Records /\ g.cancel = s.cancel /\ (Over(g) => Over(s) \/ Stale(j))
  BY <1>2
<1> HIDE DEF g
<1>4. t \in Records /\ t.cancel = s.cancel /\ (Over(t) => Over(s) \/ Stale(j))
  BY <1>3, TidyRecord DEF Over
<1> HIDE DEF t
<1>5. t.rev + 1 \in Nat
  BY <1>4 DEF Records
<1>6. h \in Records /\ h.cancel = t.cancel
  BY <1>1, <1>4, <1>5, NoQuestion DEF Records
<1>7. Hydrate(j) = IF j \in Interactive /\ Active(t) THEN h ELSE t
  BY Zenon DEF Hydrate, t, g
<1> QED BY <1>4, <1>6, <1>7

\* What a refresh makes of the owner's entry.
LEMMA RefreshedRecord ==
  ASSUME JobsAssumption, Types, NEW p \in Procs, NEW j \in Jobs
  PROVE  /\ Refreshed(p, j) \in Records \union {Absent}
         /\ mem[j] # Absent => Refreshed(p, j) # Absent
         /\ Refreshed(p, j) # Absent => mem[j] # Absent \/ (OwnerOf[j] = p /\ stored[j] # Absent)
         /\ Refreshed(p, j) # Absent /\ Refreshed(p, j).cancel =>
              (mem[j] # Absent /\ mem[j].cancel) \/ (stored[j] # Absent /\ stored[j].cancel)
         /\ Over(Refreshed(p, j)) /\ j \notin Interactive =>
              Over(mem[j]) \/ Over(stored[j]) \/ Stale(j)
<1>1. CASE OwnerOf[j] # p \/ stored[j] = Absent
  <2>1. Refreshed(p, j) = mem[j]
    BY <1>1 DEF Refreshed
  <2> QED BY <2>1 DEF Types
<1>2. CASE OwnerOf[j] = p /\ stored[j] # Absent /\ Active(mem[j])
  <2> DEFINE m == [mem[j] EXCEPT !.cancel = stored[j].cancel, !.rev = Later(@, stored[j].rev)]
             n == [m EXCEPT !.st = "canceling", !.q = None]
  <2>1. Refreshed(p, j) = IF stored[j].st = "canceling" THEN n ELSE m
    BY <1>2 DEF Refreshed
  <2>2. mem[j] \in Records /\ stored[j] \in Records
    BY <1>2, AbsentRecord DEF Types, Active
  <2>3. Later(mem[j].rev, stored[j].rev) \in Nat /\ "canceling" \in Statuses
    BY <2>2 DEF Later, Records, Statuses
  <2>4. m \in Records /\ m.cancel = stored[j].cancel /\ m.st = mem[j].st
    BY <2>2, <2>3 DEF Records
  <2> HIDE DEF m
  <2>5. n \in Records /\ n.cancel = m.cancel /\ n.st = "canceling"
    BY <2>3, <2>4, NoQuestion DEF Records
  <2> HIDE DEF n
  <2>6. Refreshed(p, j) \in Records /\ Refreshed(p, j).cancel = stored[j].cancel
    BY <2>1, <2>4, <2>5
  <2>7. Over(Refreshed(p, j)) => Over(mem[j])
    BY <2>1, <2>4, <2>5 DEF Over, Terminal
  <2> QED BY <1>2, <2>2, <2>6, <2>7, AbsentRecord
<1>3. CASE OwnerOf[j] = p /\ stored[j] # Absent /\ ~Active(mem[j])
  <2>1. Refreshed(p, j) = Hydrate(j)
    BY <1>3 DEF Refreshed
  <2>2. stored[j] \in Records
    BY <1>3 DEF Types
  <2> QED BY <1>3, <2>1, <2>2, HydrateRecord, AbsentRecord
<1> QED BY <1>1, <1>2, <1>3

\* A refresh detaches mutations and results from an entry it replaced, and keeps the rest.
LEMMA DetachOp ==
  ASSUME NEW o \in Ops, NEW R
  PROVE  /\ Detach(o, R) \in Ops /\ Detach(o, R).kind = o.kind /\ Detach(o, R).job = o.job
         /\ Detach(o, R).rec = o.rec
         /\ o.job \notin R => Detach(o, R) = o
BY DEF Detach, Ops

\* Detaching a reply keeps its kind, its job and what the store said.
LEMMA DetachReply ==
  ASSUME NEW r \in Replies, NEW R
  PROVE  /\ Detach(r, R) \in Replies /\ Detach(r, R).kind = r.kind
         /\ r.kind \in {"created", "cancel", "claimed", "rejected"} => Detach(r, R).job = r.job
         /\ r.kind \in {"cancel", "claimed", "rejected"} => Detach(r, R).rec = r.rec
         /\ r.kind = "beat" => Detach(r, R).jobs = r.jobs
<1>1. CASE r \in {NoReply} \union [kind : {"created", "saved"}, job : Jobs] \union [kind : {"beat"}, jobs : SUBSET Jobs]
  <2>1. "live" \notin DOMAIN r
    BY <1>1 DEF NoReply
  <2> QED BY <2>1 DEF Detach
<1>2. CASE r \in [kind : {"cancel"}, job : Jobs, rec : Records \union {Absent}, live : BOOLEAN]
  <2>1. Detach(r, R) = r \/ Detach(r, R) = [r EXCEPT !.live = FALSE]
    BY DEF Detach
  <2>2. [r EXCEPT !.live = FALSE] \in Replies
    BY <1>2 DEF Replies
  <2> QED BY <1>2, <2>1, <2>2
<1>3. CASE r \in [kind : {"claimed", "rejected"}, job : Jobs, rec : Records \union {Absent},
                  q : 0..MaxQuestions, live : BOOLEAN]
  <2>1. Detach(r, R) = r \/ Detach(r, R) = [r EXCEPT !.live = FALSE]
    BY DEF Detach
  <2>2. [r EXCEPT !.live = FALSE] \in Replies
    BY <1>3 DEF Replies
  <2> QED BY <1>3, <2>1, <2>2
<1> QED BY <1>1, <1>2, <1>3 DEF Replies

-------------------------------------------------------------------------------
(* What is under way belongs to its process *)

\* A mutation that takes effect leaves the owners' memory alone, and its result is of
\* the same process.
LEMMA LandsKeeps ==
  ASSUME JobsAssumption, OwnerInv, NEW p \in Procs, NEW o \in ops[p],
         NEW S \in [Jobs -> Records \union {Absent}], NEW Ls,
         NEW r \in Replies, ReplyOf(p, r), Lands(p, o, S, Ls, r),
         r.kind = "created" => o.kind = "create" /\ r.job = o.job,
         \A j \in Jobs : stored[j] = Absent /\ S[j] # Absent =>
                           j = o.job /\ o.kind \in Upserts \union {"create"}
  PROVE  OwnerInv'
<1> USE DEF OwnerInv, Types, Lands
<1>1. Types'
  <2>1. expired' \in [Jobs -> BOOLEAN]
    OBVIOUS
  <2>2. ops' \in [Procs -> SUBSET Ops] /\ reply' \in [Procs -> Replies]
    OBVIOUS
  <2> QED BY <2>1, <2>2
<1>2. \A q \in Procs : ops'[q] \subseteq ops[q]
  OBVIOUS
<1>3. ASSUME NEW q \in Procs, NEW n \in ops'[q], n.kind = "create" PROVE n.job # o.job \/ o.kind \notin Upserts \union {"create"}
  <2>1. OpOf(q, n) /\ OpOf(p, o)
    BY <1>2
  <2>2. ASSUME n.job = o.job, o.kind \in Upserts PROVE FALSE
    BY <1>3, <2>1, <2>2 DEF OpOf
  <2>3. ASSUME n.job = o.job, o.kind = "create" PROVE FALSE
    <3>1. n = o /\ q = p
      BY <1>3, <2>1, <2>3 DEF OpOf
    <3> QED BY <3>1
  <2> QED BY <2>2, <2>3
<1>4. \A q \in Procs : \A n \in ops'[q] : OpOf(q, n)'
  <2> SUFFICES ASSUME NEW q \in Procs, NEW n \in ops'[q] PROVE OpOf(q, n)'
    OBVIOUS
  <2>1. OpOf(q, n)
    BY <1>2
  <2>2. n.kind = "create" => stored'[n.job] = Absent
    BY <1>3, <2>1 DEF OpOf
  <2> QED BY <2>1, <2>2 DEF OpOf
<1>5. \A q \in Procs : ReplyOf(q, reply[q])'
  BY DEF ReplyOf
<1>6. ASSUME NEW q \in Procs, NEW n \in ops'[q], reply'[q].kind = "created", n.kind = "create"
      PROVE  n.job # reply'[q].job
  BY <1>2, <1>3, <1>6
<1> QED BY <1>1, <1>4, <1>5, <1>6

\* The result of the landing mutation o of p: nothing, or about a job that p owns.
LEMMA LandKeepsOwner ==
  ASSUME JobsAssumption, OwnerInv, NEW p \in Procs, Land(p)
  PROVE  OwnerInv'
<1>1. PICK o \in ops[p] : \/ LandUpsert(p, o) \/ LandCreate(p, o) \/ LandCancel(p, o)
                          \/ LandClaim(p, o) \/ LandBeat(p, o)
  BY DEF Land
<1>2. OpOf(p, o) /\ o \in Ops /\ Types
  BY DEF OwnerInv, Types
<1>3. Base \in [Jobs -> Records \union {Absent}]
  <2>1. CASE Jobs = {}
    BY <2>1 DEF Base
  <2>2. CASE Jobs # {}
    BY <1>2, <2>2, BaseRecord
  <2> QED BY <2>1, <2>2
<1>4. NoReply \in Replies /\ ReplyOf(p, NoReply) /\ NoReply.kind # "created"
  BY DEF Replies, NoReply, ReplyOf
<1>10. \A j \in Jobs : stored[j] = Absent => Base[j] = Absent
  BY <1>2, BaseRecord
<1>5. CASE LandUpsert(p, o)
  <2> DEFINE j == o.job
             S == [Base EXCEPT ![j] = Merge(Base[j], o.rec)]
             Ls == IF Merge(Base[j], o.rec) = Base[j] THEN {} ELSE {j}
             r == IF o.kind \in {"final", "last"} THEN [kind |-> "saved", job |-> j] ELSE NoReply
  <2>1. Lands(p, o, S, Ls, r)
    BY <1>5 DEF LandUpsert
  <2>2. j \in Jobs /\ o.rec \in Records
    BY <1>2, <1>5 DEF OpOf, LandUpsert, Ops, Upserts
  <2>3. Merge(Base[j], o.rec) \in Records
    BY <1>3, <2>2, MergeRecord
  <2>4. S \in [Jobs -> Records \union {Absent}]
    BY <1>3, <2>3
  <2>5. r \in Replies /\ ReplyOf(p, r) /\ r.kind # "created"
    BY <1>4, <2>2 DEF Replies, ReplyOf
  <2>6. \A k \in Jobs : stored[k] = Absent /\ S[k] # Absent => k = o.job /\ o.kind \in Upserts
    BY <1>3, <1>5, <1>10 DEF LandUpsert
  <2> HIDE DEF S, Ls, r
  <2> QED BY <2>1, <2>4, <2>5, <2>6, LandsKeeps
<1>6. CASE LandCreate(p, o)
  <2> DEFINE j == o.job
             S == [Base EXCEPT ![j] = NewJob]
             r == [kind |-> "created", job |-> j]
  <2>1. Lands(p, o, Base, {}, NoReply) \/ Lands(p, o, S, {j}, r)
    BY <1>6 DEF LandCreate
  <2>2. j \in Jobs /\ OwnerOf[j] = p /\ child[j] = "none"
    BY <1>2, <1>6 DEF OpOf, LandCreate
  <2>3. S \in [Jobs -> Records \union {Absent}]
    BY <1>3, NewRecord
  <2>4. r \in Replies /\ ReplyOf(p, r) /\ r.job = o.job
    BY <2>2 DEF Replies, ReplyOf
  <2>5. \A k \in Jobs : stored[k] = Absent /\ S[k] # Absent => k = o.job
    BY <1>3, <1>10
  <2>6. o.kind = "create"
    BY <1>6 DEF LandCreate
  <2> HIDE DEF S, r
  <2> QED BY <1>3, <1>4, <1>10, <2>1, <2>3, <2>4, <2>5, <2>6, LandsKeeps
<1>7. CASE LandCancel(p, o)
  <2> DEFINE j == o.job
             b == Base[j]
             s == IF Active(b) /\ ~(b.st = "canceling" /\ b.cancel) THEN Canceling(b, b.rev + 1) ELSE b
             S == [Base EXCEPT ![j] = s]
             r == IF OwnerOf[j] = p
                  THEN [kind |-> "cancel", job |-> j, rec |-> s, live |-> o.live] ELSE NoReply
  <2>1. Lands(p, o, S, {}, r)
    BY <1>7 DEF LandCancel
  <2>2. j \in Jobs /\ o.live \in BOOLEAN /\ (OwnerOf[j] = p => mem[j] # Absent)
    BY <1>2, <1>7 DEF OpOf, LandCancel, Ops
  <2>3. s \in Records \union {Absent}
    <3>1. b \in Records \union {Absent}
      BY <1>3, <2>2
    <3>2. ASSUME Active(b) PROVE b \in Records /\ b.rev + 1 \in Nat
      BY <3>1, <3>2 DEF Active, Absent, Records
    <3> HIDE DEF b
    <3> QED BY <3>1, <3>2, CancelingRecord
  <2>6. Base[j] = Absent => s = Absent
    BY AbsentRecord DEF Active
  <2> HIDE DEF s
  <2>4. S \in [Jobs -> Records \union {Absent}]
    BY <1>3, <2>3
  <2>5. r \in Replies /\ ReplyOf(p, r) /\ r.kind # "created"
    BY <1>4, <2>2, <2>3 DEF Replies, ReplyOf
  <2>7. \A k \in Jobs : stored[k] = Absent => S[k] = Absent
    BY <1>3, <1>10, <2>2, <2>6
  <2> HIDE DEF S, r
  <2> QED BY <2>1, <2>4, <2>5, <2>7, LandsKeeps
<1>8. CASE LandClaim(p, o)
  <2> DEFINE j == o.job
             b == Base[j]
             ok == b # Absent /\ ~b.cancel /\ b.st = "awaiting_answer" /\ b.q = o.q
             f == [b EXCEPT !.st = "running", !.q = None, !.ans = o.q, !.rev = @ + 1]
             s == IF ok THEN f ELSE b
             S == [Base EXCEPT ![j] = s]
             r == [kind |-> IF ok THEN "claimed" ELSE "rejected", job |-> j, rec |-> s,
                   q |-> o.q, live |-> o.live]
  <2>1. Lands(p, o, S, {}, r)
    BY <1>8 DEF LandClaim
  <2>2. /\ j \in Jobs /\ OwnerOf[j] = p /\ mem[j] # Absent /\ j \in Interactive
        /\ o.live \in BOOLEAN /\ o.q \in 0..MaxQuestions
    BY <1>2, <1>8 DEF OpOf, LandClaim, Ops
  <2>3. s \in Records \union {Absent} /\ (ok => s \in Records)
    <3>1. b \in Records \union {Absent}
      BY <1>3, <2>2
    <3>2. CASE ok
      <4>1. b \in Records /\ b.rev + 1 \in Nat /\ "running" \in Statuses
        BY <3>1, <3>2 DEF Records, Statuses
      <4> HIDE DEF b
      <4>2. f \in Records
        BY <2>2, <4>1, NoQuestion DEF Records
      <4> QED BY <3>2, <4>2
    <3> QED BY <3>1, <3>2
  <2>6. Base[j] = Absent => s = Absent
    OBVIOUS
  <2> HIDE DEF s, ok
  <2>4. S \in [Jobs -> Records \union {Absent}]
    BY <1>3, <2>3
  <2>5. r \in Replies /\ ReplyOf(p, r) /\ r.kind # "created"
    BY <2>2, <2>3 DEF Replies, ReplyOf
  <2>7. \A k \in Jobs : stored[k] = Absent => S[k] = Absent
    BY <1>3, <1>10, <2>2, <2>6
  <2> HIDE DEF S, r
  <2> QED BY <2>1, <2>4, <2>5, <2>7, LandsKeeps
<1>9. CASE LandBeat(p, o)
  <2> DEFINE mine == {j \in Owned(p) : Active(Base[j])}
             r == [kind |-> "beat", jobs |-> {j \in mine : Base[j].cancel \/ Base[j].st = "canceling"}]
  <2>1. Lands(p, o, Base, mine, r)
    BY <1>9 DEF LandBeat
  <2>2. r.jobs \subseteq Owned(p) /\ Owned(p) \subseteq Jobs
    BY DEF Owned
  <2>3. r \in Replies /\ ReplyOf(p, r) /\ r.kind # "created"
    BY <2>2 DEF Replies, ReplyOf
  <2> HIDE DEF r, mine
  <2> QED BY <1>3, <1>10, <2>1, <2>3, LandsKeeps
<1> QED BY <1>1, <1>5, <1>6, <1>7, <1>8, <1>9

\* Steps that start and end no job, and lose no entry of the memory.
LEMMA MovesKeep ==
  ASSUME OwnerInv, Types', UNCHANGED <<stored, up, attached>>,
         \A j \in Jobs : mem'[j] = Absent <=> mem[j] = Absent,
         \A j \in Jobs : child[j] = "none" => child'[j] = "none",
         \A p \in Procs : \A o \in ops'[p] : o \in ops[p] \/ (OpOf(p, o)' /\ o.kind # "create"),
         \A p \in Procs : reply'[p] = reply[p] \/ reply'[p] = NoReply,
         \A p \in Procs : \A j \in saving'[p] : j \in saving[p] \/ j \in Local(p)
  PROVE  OwnerInv'
<1>1. \A p \in Procs : \A o \in ops'[p] : OpOf(p, o)'
  <2> SUFFICES ASSUME NEW p \in Procs, NEW o \in ops'[p] PROVE OpOf(p, o)'
    OBVIOUS
  <2>1. CASE o \in ops[p]
    <3>1. OpOf(p, o)
      BY <2>1 DEF OwnerInv
    <3> QED BY <3>1 DEF OpOf, Upserts
  <2> QED BY <2>1
<1>2. \A p \in Procs : ReplyOf(p, reply[p])'
  <2> SUFFICES ASSUME NEW p \in Procs PROVE ReplyOf(p, reply[p])'
    OBVIOUS
  <2>1. ReplyOf(p, reply[p]) /\ reply[p] \in Replies
    BY DEF OwnerInv, Types
  <2>2. CASE reply'[p] = reply[p]
    <3>1. reply[p].kind \in {"created", "cancel", "claimed", "rejected"} => reply[p].job \in Jobs
      BY <2>1 DEF Replies, NoReply
    <3> QED BY <2>1, <2>2, <3>1 DEF ReplyOf, Owned
  <2>3. CASE reply'[p] = NoReply
    BY <2>3 DEF ReplyOf, NoReply
  <2> QED BY <2>2, <2>3
<1>3. ASSUME NEW p \in Procs, NEW o \in ops'[p], reply'[p].kind = "created", o.kind = "create"
      PROVE  o.job # reply'[p].job
  BY <1>3 DEF OwnerInv, NoReply
<1>4. \A p \in Procs : \A j \in saving'[p] : OwnerOf[j] = p /\ mem'[j] # Absent
  BY DEF OwnerInv, Local, Owned, Types
<1>5. \A j \in Jobs : attached'[j] /\ OwnerOf[j] \in up' => mem'[j] # Absent
  BY DEF OwnerInv
<1> QED BY <1>1, <1>2, <1>3, <1>4, <1>5 DEF OwnerInv

\* Results that are delivered.
LEMMA DeliverKeepsOwner ==
  ASSUME JobsAssumption, OwnerInv, NEW p \in Procs, Deliver(p)
  PROVE  OwnerInv'
<1> DEFINE r == reply[p]
           j == r.job
<1>1. Types /\ ReplyOf(p, r) /\ r \in Replies
  BY DEF OwnerInv, Types
<1>2. /\ reply' = [reply EXCEPT ![p] = NoReply] /\ reply' \in [Procs -> Replies]
      /\ UNCHANGED <<stored, expired, asked, ops, up, failures>>
  BY <1>1 DEF Deliver, Replies, Types
<1>3. CASE DeliverCreated(p)
  <2>1. j \in Jobs /\ OwnerOf[j] = p /\ child[j] = "none"
    BY <1>1, <1>3 DEF DeliverCreated, ReplyOf, Replies, NoReply
  <2>2. /\ mem' = [mem EXCEPT ![j] = NewJob] /\ attached' = [attached EXCEPT ![j] = TRUE]
        /\ child' = [child EXCEPT ![j] = "running"] /\ UNCHANGED <<aborted, saving>>
    BY <1>3 DEF DeliverCreated
  <2>3. NewJob \in Records /\ NewJob # Absent
    BY NewRecord, AbsentRecord
  <2>4. Types'
    <3>1. mem' \in [Jobs -> Records \union {Absent}]
      BY <1>1, <2>2, <2>3 DEF Types
    <3>2. child' \in [Jobs -> Children] /\ attached' \in [Jobs -> BOOLEAN]
      BY <1>1, <2>2 DEF Types, Children
    <3> QED BY <1>1, <1>2, <2>2, <3>1, <3>2 DEF Types
  <2>5. \A k \in Jobs : (k # j => mem'[k] = mem[k] /\ child'[k] = child[k]) /\ mem'[j] # Absent
    BY <1>1, <2>1, <2>2, <2>3 DEF Types
  <2>6. ASSUME NEW q \in Procs, NEW o \in ops[q] PROVE OpOf(q, o)'
    <3>1. OpOf(q, o)
      BY DEF OwnerInv
    <3>2. o.kind = "create" => o.job # j
      <4> SUFFICES ASSUME o.kind = "create", o.job = j PROVE FALSE
        OBVIOUS
      <4>1. q = p
        BY <2>1, <3>1 DEF OpOf
      <4> QED BY <1>3, <4>1 DEF OwnerInv, DeliverCreated
    <3>3. o.kind # "beat" => (mem[o.job] # Absent => mem'[o.job] # Absent)
      BY <2>5, <3>1 DEF OpOf
    <3> QED BY <1>2, <2>5, <3>1, <3>2, <3>3 DEF OpOf, Upserts
  <2>7. ASSUME NEW q \in Procs PROVE ReplyOf(q, reply[q])'
    <3>1. CASE q = p
      BY <1>1, <1>2, <3>1 DEF ReplyOf, NoReply, Types
    <3>2. CASE q # p
      <4>1. ReplyOf(q, reply[q]) /\ reply[q] \in Replies /\ reply'[q] = reply[q]
        BY <1>2, <3>2 DEF OwnerInv, Types
      <4>2. reply[q].kind \in {"created", "cancel", "claimed", "rejected"} =>
              reply[q].job \in Jobs /\ reply[q].job # j
        BY <2>1, <3>2, <4>1 DEF ReplyOf, Replies, NoReply
      <4> QED BY <2>5, <4>1, <4>2 DEF ReplyOf, Owned
    <3> QED BY <3>1, <3>2
  <2>8. ASSUME NEW q \in Procs, NEW o \in ops[q], reply'[q].kind = "created", o.kind = "create"
        PROVE  o.job # reply'[q].job
    <3>1. reply'[q] = reply[q]
      BY <1>1, <1>2, <2>8 DEF NoReply, Types
    <3> QED BY <2>8, <3>1 DEF OwnerInv
  <2>9. \A q \in Procs : \A k \in saving'[q] : OwnerOf[k] = q /\ mem'[k] # Absent
    BY <1>1, <2>2, <2>5 DEF OwnerInv, Types
  <2>10. \A k \in Jobs : attached'[k] /\ OwnerOf[k] \in up' => mem'[k] # Absent
    BY <1>1, <1>2, <2>2, <2>5 DEF OwnerInv, Types
  <2> QED BY <1>2, <2>4, <2>6, <2>7, <2>8, <2>9, <2>10 DEF OwnerInv
<1>4. ASSUME Types', UNCHANGED <<attached>>,
             \A k \in Jobs : mem'[k] = Absent <=> mem[k] = Absent,
             \A k \in Jobs : child[k] = "none" => child'[k] = "none",
             \A q \in Procs : \A k \in saving'[q] : k \in saving[q] \/ k \in Local(q)
      PROVE  OwnerInv'
  <2>1. \A q \in Procs : reply'[q] = reply[q] \/ reply'[q] = NoReply
    BY <1>1, <1>2 DEF Types
  <2>2. UNCHANGED <<stored, up, attached>>
    BY <1>2, <1>4
  <2> QED BY <1>2, <1>4, <2>1, <2>2, MovesKeep
<1>5. CASE DeliverSaved(p)
  <2>1. UNCHANGED <<mem, attached, child, aborted>> /\ saving' = [saving EXCEPT ![p] = Local(p)]
    BY <1>5 DEF DeliverSaved
  <2>2. Local(p) \subseteq Jobs
    BY DEF Local, Owned
  <2>3. saving' \in [Procs -> SUBSET Jobs]
    BY <1>1, <2>1, <2>2 DEF Types
  <2>4. Types'
    BY <1>1, <1>2, <2>1, <2>3 DEF Types
  <2>5. \A q \in Procs : \A k \in saving'[q] : k \in saving[q] \/ k \in Local(q)
    BY <1>1, <2>1 DEF Types
  <2> QED BY <1>4, <2>1, <2>4, <2>5
<1>6. ASSUME NEW k \in Jobs, NEW n \in Records, UNCHANGED <<attached, saving>>, mem[k] # Absent,
             mem' = [mem EXCEPT ![k] = n] \/ mem' = mem,
             aborted' = [aborted EXCEPT ![k] = TRUE] \/ aborted' = aborted,
             child' \in [Jobs -> Children], \A i \in Jobs : child[i] = "none" => child'[i] = "none"
      PROVE  OwnerInv'
  <2>1. mem' \in [Jobs -> Records \union {Absent}]
    BY <1>1, <1>6 DEF Types
  <2>2. aborted' \in [Jobs -> BOOLEAN]
    BY <1>1, <1>6 DEF Types
  <2>3. Types'
    BY <1>1, <1>2, <1>6, <2>1, <2>2 DEF Types
  <2>4. \A i \in Jobs : mem'[i] = Absent <=> mem[i] = Absent
    BY <1>1, <1>6, AbsentRecord DEF Types
  <2> QED BY <1>4, <1>6, <2>3, <2>4
<1>7. ASSUME r.kind \in {"cancel", "claimed", "rejected"}
      PROVE  /\ j \in Jobs /\ mem[j] \in Records /\ mem[j] # Absent /\ r.rec \in Records \union {Absent}
             /\ r.kind # "cancel" => r.q \in 0..MaxQuestions
             /\ child \in [Jobs -> Children]
  <2>1. \/ r \in [kind : {"cancel"}, job : Jobs, rec : Records \union {Absent}, live : BOOLEAN]
        \/ r \in [kind : {"claimed", "rejected"}, job : Jobs, rec : Records \union {Absent},
                  q : 0..MaxQuestions, live : BOOLEAN]
    BY <1>1, <1>7 DEF Replies, NoReply
  <2>2. j \in Jobs /\ r.rec \in Records \union {Absent} /\ (r.kind # "cancel" => r.q \in 0..MaxQuestions)
    BY <2>1
  <2>3. mem[j] # Absent
    BY <1>1, <1>7 DEF ReplyOf
  <2> QED BY <1>1, <2>2, <2>3 DEF Types
<1>8. CASE DeliverCancel(p)
  <2>1. r.kind = "cancel"
    BY <1>8 DEF DeliverCancel
  <2> DEFINE n == Canceling(mem[j], IF r.rec = Absent THEN mem[j].rev + 1 ELSE r.rec.rev)
  <2>2. /\ mem' = [mem EXCEPT ![j] = n] \/ mem' = mem
        /\ aborted' = [aborted EXCEPT ![j] = TRUE] \/ aborted' = aborted
        /\ UNCHANGED <<attached, child, saving>>
    BY <1>1, <1>7, <1>8, <2>1 DEF DeliverCancel, Types
  <2>3. (IF r.rec = Absent THEN mem[j].rev + 1 ELSE r.rec.rev) \in Nat
    BY <1>7, <2>1 DEF Records
  <2>4. n \in Records
    BY <1>7, <2>1, <2>3, CancelingRecord
  <2> HIDE DEF n
  <2> QED BY <1>6, <1>7, <2>1, <2>2, <2>4
<1>9. CASE DeliverClaimed(p)
  <2>1. r.kind = "claimed" /\ r.rec \in Records
    BY <1>1, <1>9 DEF DeliverClaimed, ReplyOf
  <2> DEFINE n == [mem[j] EXCEPT !.st = "running", !.q = None, !.ans = r.q, !.rev = r.rec.rev]
             c == CASE child[j] = "parked" -> "running" [] child[j] = "running" -> "killed"
                    [] OTHER -> child[j]
  <2>2. /\ mem' = [mem EXCEPT ![j] = n] \/ mem' = mem
        /\ child' = [child EXCEPT ![j] = c] /\ UNCHANGED <<attached, aborted, saving>>
    BY <1>1, <1>7, <1>9, <2>1 DEF DeliverClaimed, Types
  <2>3. "running" \in Statuses /\ r.rec.rev \in Nat
    BY <2>1 DEF Records, Statuses
  <2>4. n \in Records
    BY <1>7, <2>1, <2>3, NoQuestion DEF Records
  <2>5. c \in Children /\ (child[j] = "none" => c = "none")
    BY <1>7, <2>1 DEF Children
  <2> HIDE DEF n, c
  <2>6. child' \in [Jobs -> Children] /\ \A i \in Jobs : child[i] = "none" => child'[i] = "none"
    BY <1>7, <2>1, <2>2, <2>5
  <2> QED BY <1>6, <1>7, <2>1, <2>2, <2>4, <2>6
<1>10. CASE DeliverRejected(p)
  <2>1. r.kind = "rejected"
    BY <1>10 DEF DeliverRejected
  <2> DEFINE n == [mem[j] EXCEPT !.st = r.rec.st, !.q = r.rec.q, !.cancel = r.rec.cancel, !.rev = r.rec.rev]
  <2>2. UNCHANGED <<attached, child, aborted, saving>>
    BY <1>10 DEF DeliverRejected
  <2>3. CASE r.rec = Absent
    <3>1. mem' = mem
      BY <1>10, <2>3 DEF DeliverRejected
    <3> QED BY <1>6, <1>7, <2>1, <2>2, <3>1, NewRecord
  <2>4. CASE r.rec # Absent
    <3>1. mem' = [mem EXCEPT ![j] = n] \/ mem' = mem
      BY <1>10 DEF DeliverRejected
    <3>2. n \in Records
      BY <1>7, <2>1, <2>4 DEF Records
    <3> HIDE DEF n
    <3> QED BY <1>6, <1>7, <2>1, <2>2, <3>1, <3>2
  <2> QED BY <2>3, <2>4
<1>11. CASE DeliverBeat(p)
  <2> DEFINE hit == {k \in r.jobs : Active(mem[k])}
             n(k) == Canceling(mem[k], IF mem[k].st = "canceling" THEN mem[k].rev ELSE mem[k].rev + 1)
  <2>1. /\ mem' = [k \in Jobs |-> IF k \notin hit THEN mem[k] ELSE n(k)]
        /\ aborted' = [k \in Jobs |-> aborted[k] \/ k \in hit]
        /\ UNCHANGED <<attached, child, saving>>
    BY <1>11 DEF DeliverBeat
  <2>2. ASSUME NEW k \in Jobs, Active(mem[k]) PROVE n(k) \in Records /\ mem[k] \in Records
    <3>1. mem[k] \in Records
      BY <1>1, <2>2, AbsentRecord DEF Types, Active
    <3>2. (IF mem[k].st = "canceling" THEN mem[k].rev ELSE mem[k].rev + 1) \in Nat
      BY <3>1 DEF Records
    <3> QED BY <3>1, <3>2, CancelingRecord
  <2> HIDE DEF n
  <2>3. mem' \in [Jobs -> Records \union {Absent}] /\ aborted' \in [Jobs -> BOOLEAN]
    BY <1>1, <2>1, <2>2 DEF Types
  <2>4. Types'
    BY <1>1, <1>2, <2>1, <2>3 DEF Types
  <2>5. \A k \in Jobs : mem'[k] = Absent <=> mem[k] = Absent
    BY <1>1, <2>1, <2>2, AbsentRecord DEF Types
  <2> QED BY <1>4, <2>1, <2>4, <2>5
<1> QED BY <1>3, <1>5, <1>8, <1>9, <1>10, <1>11 DEF Deliver

\* Tool calls.
LEMMA ToolCallKeepsOwner ==
  ASSUME JobsAssumption, OwnerInv, NEW p \in Procs, NEW Os \in SUBSET Ops, ToolCall(p, Os),
         \A o \in Os : OpOf(p, o)' /\ o.kind # "create"
  PROVE  OwnerInv'
<1> DEFINE R == Replaced(p)
<1>1. Types
  BY DEF OwnerInv
<1>2. /\ mem' = [j \in Jobs |-> Refreshed(p, j)]
      /\ attached' = [j \in Jobs |-> attached[j] /\ j \notin R]
      /\ ops' = [ops EXCEPT ![p] = {Detach(o, R) : o \in ops[p]} \union Os]
      /\ reply' = [reply EXCEPT ![p] = Detach(reply[p], R)]
      /\ UNCHANGED <<stored, expired, child, asked, aborted, saving, up, failures>>
  BY <1>1 DEF ToolCall, Types
<1>3. \A j \in R : stored[j] # Absent
  BY DEF Replaced
<1> HIDE DEF R
<1>4. Types'
  <2>1. mem' \in [Jobs -> Records \union {Absent}]
    BY <1>1, <1>2, RefreshedRecord
  <2>2. attached' \in [Jobs -> BOOLEAN]
    BY <1>1, <1>2 DEF Types
  <2>3. ops' \in [Procs -> SUBSET Ops]
    BY <1>1, <1>2, DetachOp DEF Types
  <2>4. reply' \in [Procs -> Replies]
    BY <1>1, <1>2, DetachReply DEF Types
  <2> QED BY <1>1, <1>2, <2>1, <2>2, <2>3, <2>4 DEF Types
<1>5. ASSUME NEW j \in Jobs
      PROVE  (mem[j] # Absent => mem'[j] # Absent) /\ (mem'[j] # Absent => mem[j] # Absent \/ stored[j] # Absent)
  BY <1>1, <1>2, RefreshedRecord
<1>6. ASSUME NEW q \in Procs, NEW o \in ops'[q] PROVE OpOf(q, o)'
  <2>1. CASE o \in ops[q]
    <3>1. OpOf(q, o)
      BY <2>1 DEF OwnerInv
    <3>2. o.kind # "beat" => (mem[o.job] # Absent => mem'[o.job] # Absent)
      BY <1>5, <3>1 DEF OpOf
    <3>3. o.kind = "create" => mem'[o.job] = Absent
      BY <1>5, <3>1 DEF OpOf
    <3> QED BY <1>2, <3>1, <3>2, <3>3 DEF OpOf, Upserts
  <2>2. CASE q = p /\ o \in Os
    BY <2>2
  <2>3. CASE q = p /\ \E n \in ops[p] : o = Detach(n, R)
    <3>1. PICK n \in ops[p] : o = Detach(n, R)
      BY <2>3
    <3>2. OpOf(p, n) /\ n \in Ops
      BY <1>1 DEF OwnerInv, Types
    <3>3. o.kind = n.kind /\ o.job = n.job /\ (n.job \notin R => o = n)
      BY <3>1, <3>2, DetachOp
    <3>4. o.kind # "beat" => (mem[o.job] # Absent => mem'[o.job] # Absent)
      BY <1>5, <3>2, <3>3 DEF OpOf
    <3>5. o.kind = "create" => o = n /\ mem'[o.job] = Absent
      BY <1>3, <1>5, <3>2, <3>3 DEF OpOf
    <3> QED BY <1>2, <2>3, <3>2, <3>3, <3>4, <3>5 DEF OpOf, Upserts
  <2> QED BY <1>1, <1>2, <2>1, <2>2, <2>3 DEF Types
<1>7. ASSUME NEW q \in Procs
      PROVE  /\ reply'[q].kind = reply[q].kind
             /\ reply[q].kind \in {"created", "cancel", "claimed", "rejected"} =>
                  reply'[q].job = reply[q].job /\ reply[q].job \in Jobs
             /\ reply[q].kind = "beat" => reply'[q].jobs = reply[q].jobs
             /\ reply[q].kind = "claimed" => reply'[q].rec = reply[q].rec
  <2>1. reply[q] \in Replies
    BY <1>1 DEF Types
  <2>2. reply[q].kind \in {"created", "cancel", "claimed", "rejected"} => reply[q].job \in Jobs
    BY <2>1 DEF Replies, NoReply
  <2>3. CASE q = p
    BY <1>1, <1>2, <2>1, <2>2, <2>3, DetachReply DEF Types
  <2>4. CASE q # p
    BY <1>2, <2>2, <2>4
  <2> QED BY <2>3, <2>4
<1>8. ASSUME NEW q \in Procs PROVE ReplyOf(q, reply[q])'
  <2>1. ReplyOf(q, reply[q])
    BY DEF OwnerInv
  <2> QED BY <1>2, <1>5, <1>7, <2>1 DEF ReplyOf, Owned
<1>9. ASSUME NEW q \in Procs, NEW o \in ops'[q], reply'[q].kind = "created", o.kind = "create"
      PROVE  o.job # reply'[q].job
  <2>1. o \in ops[q] \/ (q = p /\ \E n \in ops[p] : o = Detach(n, R))
    BY <1>1, <1>2, <1>9 DEF Types
  <2>2. \E n \in ops[q] : n.kind = "create" /\ n.job = o.job
    BY <1>1, <1>9, <2>1, DetachOp DEF Types
  <2> QED BY <1>7, <1>9, <2>2 DEF OwnerInv
<1>10. \A q \in Procs : \A j \in saving'[q] : OwnerOf[j] = q /\ mem'[j] # Absent
  BY <1>1, <1>2, <1>5 DEF OwnerInv, Types
<1>11. \A j \in Jobs : attached'[j] /\ OwnerOf[j] \in up' => mem'[j] # Absent
  BY <1>2, <1>5 DEF OwnerInv
<1> QED BY <1>4, <1>6, <1>8, <1>9, <1>10, <1>11 DEF OwnerInv

\* A mutation as Op makes it.
LEMMA OpFields ==
  ASSUME NEW k \in Upserts \union {"create", "cancel", "claim", "beat"}, NEW j \in Nat, NEW r \in Records,
         NEW q \in 0..MaxQuestions, NEW a \in Answers \union {None}
  PROVE  /\ Op(k, j, r, q, a) \in Ops /\ Op(k, j, r, q, a).kind = k /\ Op(k, j, r, q, a).job = j
         /\ Op(k, j, r, q, a).rec = r /\ Op(k, j, r, q, a).live
BY DEF Op, Ops

\* The tool calls request a cancellation or a claim, or nothing.
LEMMA CallsKeepOwner ==
  ASSUME JobsAssumption, OwnerInv, NEW p \in Procs,
         \/ Status(p)
         \/ \E j \in Jobs : CancelCall(p, j)
         \/ \E j \in Jobs, q \in 1..MaxQuestions, a \in Answers : AnswerCall(p, j, q, a)
  PROVE  OwnerInv'
<1>1. Types
  BY DEF OwnerInv
<1>2. CASE Status(p)
  BY <1>2, ToolCallKeepsOwner DEF Status
<1>3. ASSUME NEW j \in Jobs, CancelCall(p, j) PROVE OwnerInv'
  <2> DEFINE o == Op("cancel", j, NewJob, None, None)
  <2>1. o \in Ops /\ o.kind = "cancel" /\ o.job = j
    BY OpFields, NewRecord, NoQuestion DEF JobsAssumption
  <2>2. ToolCall(p, {o})
    BY <1>3 DEF CancelCall
  <2>3. OwnerOf[j] = p => mem'[j] # Absent
    BY <1>3, <2>2, AbsentRecord DEF CancelCall, ToolCall, Active
  <2> HIDE DEF o
  <2>4. OpOf(p, o)'
    BY <2>1, <2>3 DEF OpOf, Upserts
  <2> QED BY <2>1, <2>2, <2>4, ToolCallKeepsOwner
<1>4. ASSUME NEW j \in Jobs, NEW q \in 1..MaxQuestions, NEW a \in Answers, AnswerCall(p, j, q, a)
      PROVE  OwnerInv'
  <2> DEFINE o == Op("claim", j, NewJob, q, a)
  <2>1. o \in Ops /\ o.kind = "claim" /\ o.job = j
    <3>1. q \in 0..MaxQuestions /\ j \in Nat /\ NewJob \in Records /\ a \in Answers \union {None}
      BY NewRecord DEF JobsAssumption
    <3> QED BY <3>1, OpFields
  <2>2. ToolCall(p, {o})
    BY <1>4 DEF AnswerCall
  <2>3. OwnerOf[j] = p /\ mem'[j] # Absent /\ j \in Interactive
    BY <1>4, <2>2, AbsentRecord DEF AnswerCall, ToolCall
  <2> HIDE DEF o
  <2>4. OpOf(p, o)'
    BY <2>1, <2>3 DEF OpOf, Upserts
  <2> QED BY <2>1, <2>2, <2>4, ToolCallKeepsOwner
<1> QED BY <1>2, <1>3, <1>4

\* The reservation of a record.
LEMMA CreateKeepsOwner ==
  ASSUME JobsAssumption, OwnerInv, NEW p \in Procs, NEW j \in Jobs, Create(p, j)
  PROVE  OwnerInv'
<1> DEFINE o == Op("create", j, NewJob, None, None)
<1>1. o \in Ops /\ o.kind = "create" /\ o.job = j
  <2>1. j \in Nat /\ NewJob \in Records /\ None \in 0..MaxQuestions
    BY NewRecord, NoQuestion DEF JobsAssumption
  <2> QED BY <2>1, OpFields
<1>2. /\ OwnerOf[j] = p /\ child[j] = "none" /\ mem[j] = Absent /\ stored[j] = Absent
      /\ reply[p] = NoReply /\ ops' = [ops EXCEPT ![p] = @ \union {o}]
      /\ UNCHANGED <<stored, expired, mem, attached, child, asked, aborted, reply, saving, up, failures>>
  BY DEF Create, Request
<1>3. OpOf(p, o)
  BY <1>1, <1>2 DEF OpOf, Upserts
<1> HIDE DEF o
<1>4. Types'
  <2>1. ops' \in [Procs -> SUBSET Ops]
    BY <1>1, <1>2 DEF OwnerInv, Types
  <2> QED BY <1>2, <2>1 DEF OwnerInv, Types
<1>5. \A q \in Procs : \A n \in ops'[q] : n \in ops[q] \/ (q = p /\ n = o)
  BY <1>2 DEF OwnerInv, Types
<1>6. \A q \in Procs : \A n \in ops'[q] : OpOf(q, n)'
  BY <1>2, <1>3, <1>5 DEF OwnerInv, OpOf
<1>7. \A q \in Procs : ReplyOf(q, reply[q])'
  BY <1>2 DEF OwnerInv, ReplyOf
<1>8. \A q \in Procs : \A n \in ops'[q] : reply'[q].kind = "created" /\ n.kind = "create" => n.job # reply'[q].job
  BY <1>2, <1>5 DEF OwnerInv, NoReply
<1> QED BY <1>2, <1>4, <1>6, <1>7, <1>8 DEF OwnerInv

\* An upsert that an owner requests for one of its entries.
LEMMA UpsertOf ==
  ASSUME JobsAssumption, Types', NEW k \in Upserts, NEW j \in Jobs, NEW r \in Records, mem'[j] # Absent,
         k = "ask" => j \in Interactive
  PROVE  LET o == Op(k, j, r, None, None) IN
         o \in Ops /\ OpOf(OwnerOf[j], o)' /\ o.kind # "create" /\ o.kind = k /\ o.job = j /\ o.rec = r
<1> DEFINE o == Op(k, j, r, None, None)
<1>1. o \in Ops /\ o.kind = k /\ o.job = j /\ o.rec = r
  BY OpFields, NoQuestion DEF JobsAssumption
<1>2. OpOf(OwnerOf[j], o)'
  BY <1>1 DEF OpOf, Upserts
<1> QED BY <1>1, <1>2 DEF Upserts

\* The owner's timers, its save queue and the callbacks of its children.
LEMMA OwnerStepKeepsOwner ==
  ASSUME JobsAssumption, OwnerInv,
         \/ \E p \in Procs : Beat(p) \/ SaveNext(p)
         \/ \E j \in Jobs : Progress(j) \/ Ask(j) \/ Exit(j) \/ End(j) \/ Expire(j)
  PROVE  OwnerInv'
<1>1. Types /\ \A j \in Jobs : OwnerOf[j] \in Procs
  BY DEF OwnerInv, JobsAssumption
<1>2. ASSUME NEW p \in Procs, Beat(p) PROVE OwnerInv'
  <2> DEFINE o == Op("beat", 0, NewJob, None, None)
  <2>1. o \in Ops /\ o.kind = "beat"
    BY OpFields, NewRecord, NoQuestion
  <2>2. /\ ops' = [ops EXCEPT ![p] = @ \union {o}]
        /\ UNCHANGED <<stored, expired, mem, attached, child, asked, aborted, reply, saving, up, failures>>
    BY <1>2 DEF Beat, Request
  <2> HIDE DEF o
  <2>3. ops' \in [Procs -> SUBSET Ops]
    BY <1>1, <2>1, <2>2 DEF Types
  <2>4. Types'
    BY <1>1, <2>2, <2>3 DEF Types
  <2>5. OpOf(p, o)'
    BY <2>1 DEF OpOf, Upserts
  <2>6. \A q \in Procs : \A n \in ops'[q] : n \in ops[q] \/ (OpOf(q, n)' /\ n.kind # "create")
    BY <1>1, <2>1, <2>2, <2>5 DEF Types
  <2> QED BY <2>2, <2>4, <2>6, MovesKeep
<1>3. ASSUME NEW p \in Procs, SaveNext(p) PROVE OwnerInv'
  <2>1. PICK j \in saving[p] : /\ saving' = [saving EXCEPT ![p] = @ \ {j}]
                               /\ Request(p, Op("save", j, mem[j], None, None))
    BY <1>3 DEF SaveNext
  <2>2. UNCHANGED <<stored, expired, mem, attached, child, asked, aborted, reply, up, failures>>
    BY <1>3 DEF SaveNext
  <2>3. j \in Jobs /\ OwnerOf[j] = p /\ mem[j] # Absent /\ mem[j] \in Records
    BY <1>1 DEF OwnerInv, Types
  <2>11. PICK r \in Records : r = mem[j]
    BY <2>3
  <2> DEFINE o == Op("save", j, r, None, None)
  <2>4. ops' = [ops EXCEPT ![p] = @ \union {o}]
    BY <2>1, <2>11 DEF Request
  <2>5. o \in Ops
    BY <2>3, OpFields, NoQuestion DEF Upserts, JobsAssumption
  <2> HIDE DEF o
  <2>6. ops' \in [Procs -> SUBSET Ops] /\ saving' \in [Procs -> SUBSET Jobs]
    BY <1>1, <2>1, <2>4, <2>5 DEF Types
  <2>7. Types'
    BY <1>1, <2>2, <2>6 DEF Types
  <2>8. OpOf(p, o)' /\ o.kind # "create"
    BY <2>2, <2>3, <2>7, UpsertOf DEF o, Upserts
  <2>9. \A q \in Procs : \A n \in ops'[q] : n \in ops[q] \/ (OpOf(q, n)' /\ n.kind # "create")
    <3>1. \A q \in Procs : \A n \in ops'[q] : n \in ops[q] \/ (q = p /\ n = o)
      BY <1>1, <2>4 DEF Types
    <3> QED BY <2>8, <3>1
  <2>10. \A q \in Procs : saving'[q] \subseteq saving[q]
    BY <1>1, <2>1 DEF Types
  <2> QED BY <2>2, <2>7, <2>9, <2>10, MovesKeep
<1>4. ASSUME NEW j \in Jobs, Progress(j) PROVE OwnerInv'
  <2> DEFINE p == OwnerOf[j]
  <2>1. /\ saving' = [saving EXCEPT ![p] = Local(p)]
        /\ UNCHANGED <<stored, expired, mem, attached, child, asked, aborted, ops, reply, up, failures>>
    BY <1>4 DEF Progress
  <2>2. Local(p) \subseteq Jobs /\ p \in Procs
    BY <1>1 DEF Local, Owned
  <2> HIDE DEF p
  <2>3. saving' \in [Procs -> SUBSET Jobs]
    BY <1>1, <2>1, <2>2 DEF Types
  <2>4. Types'
    BY <1>1, <2>1, <2>3 DEF Types
  <2>5. \A q \in Procs : \A k \in saving'[q] : k \in saving[q] \/ k \in Local(q)
    BY <1>1, <2>1 DEF Types
  <2> QED BY <2>1, <2>4, <2>5, MovesKeep
<1>5. ASSUME NEW j \in Jobs, Expire(j) PROVE OwnerInv'
  <2>1. UNCHANGED <<stored, mem, attached, child, asked, aborted, ops, reply, saving, up, failures>>
    BY <1>5 DEF Expire
  <2>2. Types'
    BY <1>1, <1>5, <2>1 DEF Expire, Types
  <2> QED BY <2>1, <2>2, MovesKeep
<1>6. ASSUME NEW j \in Jobs, NEW c \in Children, child[j] # "none", NEW n \in Records,
             NEW k \in Upserts, k = "ask" => j \in Interactive,
             child' = [child EXCEPT ![j] = c],
             mem' = mem \/ (mem' = [mem EXCEPT ![j] = n] /\ mem[j] # Absent),
             \/ ops' = ops
             \/ /\ mem' = [mem EXCEPT ![j] = n]
                /\ ops' = [ops EXCEPT ![OwnerOf[j]] = @ \union {Op(k, j, n, None, None)}],
             asked' \in [Jobs -> 0..MaxQuestions],
             UNCHANGED <<stored, expired, attached, aborted, reply, saving, up, failures>>
      PROVE  OwnerInv'
  <2> DEFINE o == Op(k, j, n, None, None)
  <2>1. o \in Ops
    BY OpFields, NoQuestion DEF Upserts, JobsAssumption
  <2> HIDE DEF o
  <2>2. ops' = ops \/ ops' = [ops EXCEPT ![OwnerOf[j]] = @ \union {o}]
    BY <1>6 DEF o
  <2>3. ops' \in [Procs -> SUBSET Ops]
    BY <1>1, <2>1, <2>2 DEF Types
  <2>4. mem' \in [Jobs -> Records \union {Absent}] /\ \A i \in Jobs : mem'[i] = Absent <=> mem[i] = Absent
    BY <1>1, <1>6, AbsentRecord DEF Types
  <2>5. child' \in [Jobs -> Children] /\ \A i \in Jobs : child[i] = "none" => child'[i] = "none"
    BY <1>1, <1>6 DEF Types
  <2>6. Types'
    BY <1>1, <1>6, <2>3, <2>4, <2>5 DEF Types
  <2>7. \A q \in Procs : \A i \in ops'[q] : i \in ops[q] \/ (OpOf(q, i)' /\ i.kind # "create")
    <3>1. CASE ops' = ops
      BY <3>1
    <3>2. CASE ops' = [ops EXCEPT ![OwnerOf[j]] = @ \union {o}] /\ mem' = [mem EXCEPT ![j] = n]
      <4>1. mem'[j] # Absent
        BY <1>1, <3>2, AbsentRecord DEF Types
      <4>2. OpOf(OwnerOf[j], o)' /\ o.kind # "create"
        BY <1>6, <2>6, <4>1, UpsertOf DEF o
      <4> QED BY <1>1, <3>2, <4>2 DEF Types
    <3> QED BY <1>6, <3>1, <3>2 DEF o
  <2> QED BY <1>6, <2>4, <2>5, <2>6, <2>7, MovesKeep
<1>7. ASSUME NEW j \in Jobs, Ask(j) PROVE OwnerInv'
  <2> DEFINE n == [mem[j] EXCEPT !.st = "awaiting_answer", !.q = asked'[j], !.rev = @ + 1]
  <2>1. /\ asked[j] < MaxQuestions /\ asked' = [asked EXCEPT ![j] = @ + 1] /\ j \in Interactive
        /\ child[j] # "none"
        /\ UNCHANGED <<stored, expired, attached, aborted, reply, saving, up, failures>>
    BY <1>7 DEF Ask
  <2>2. asked' \in [Jobs -> 0..MaxQuestions]
    BY <1>1, <2>1 DEF Types, JobsAssumption
  <2>3. {"parked", "killed"} \subseteq Children /\ "ask" \in Upserts /\ "none" \notin {"parked", "killed"}
    BY DEF Children, Upserts
  <2>4. CASE UNCHANGED <<mem, ops>>
    <3>1. PICK c \in {"parked", "killed"} : child' = [child EXCEPT ![j] = c]
      <4>1. \/ child' = [child EXCEPT ![j] = "parked"] \/ child' = [child EXCEPT ![j] = "killed"]
        BY <1>7 DEF Ask
      <4> QED BY <4>1
    <3> QED BY <1>6, <2>1, <2>2, <2>3, <2>4, <3>1, NewRecord
  <2>5. CASE ~UNCHANGED <<mem, ops>>
    <3>1. /\ Active(mem[j]) /\ child' = [child EXCEPT ![j] = "parked"]
          /\ mem' = [mem EXCEPT ![j] = n]
          /\ ops' = [ops EXCEPT ![OwnerOf[j]] = @ \union {Op("ask", j, n, None, None)}]
      BY <1>7, <2>5 DEF Ask, Request
    <3>2. mem[j] \in Records /\ mem[j] # Absent
      BY <1>1, <3>1, AbsentRecord DEF Types, Active
    <3>3. mem[j].rev + 1 \in Nat /\ "awaiting_answer" \in Statuses
      BY <3>2 DEF Records, Statuses
    <3>5. asked'[j] \in 0..MaxQuestions
      BY <2>2
    <3>4. n \in Records
      BY <3>2, <3>3, <3>5 DEF Records
    <3> HIDE DEF n
    <3> QED BY <1>6, <2>1, <2>2, <2>3, <3>1, <3>2, <3>4
  <2> QED BY <2>4, <2>5
<1>8. ASSUME NEW j \in Jobs, Exit(j) PROVE OwnerInv'
  <2> DEFINE n == [mem[j] EXCEPT !.st = "running"]
  <2>1. /\ (mem' = [mem EXCEPT ![j] = n] /\ Active(mem[j])) \/ mem' = mem
        /\ child[j] # "none"
        /\ UNCHANGED <<stored, expired, attached, asked, aborted, ops, reply, saving, up, failures>>
    BY <1>8 DEF Exit
  <2>2. PICK c \in {"exited", "killed"} : child' = [child EXCEPT ![j] = c]
    BY <1>8 DEF Exit
  <2>3. {"exited", "killed"} \subseteq Children /\ "none" \notin {"exited", "killed"} /\ "save" \in Upserts
    BY DEF Children, Upserts
  <2>4. asked' \in [Jobs -> 0..MaxQuestions]
    BY <1>1, <2>1 DEF Types
  <2>5. CASE mem' = mem
    BY <1>6, <2>1, <2>2, <2>3, <2>4, <2>5, NewRecord
  <2>6. CASE mem' = [mem EXCEPT ![j] = n] /\ Active(mem[j])
    <3>1. mem[j] \in Records /\ mem[j] # Absent
      BY <1>1, <2>6, AbsentRecord DEF Types, Active
    <3>2. n \in Records
      BY <3>1 DEF Records, Statuses
    <3> HIDE DEF n
    <3> QED BY <1>6, <2>1, <2>2, <2>3, <2>4, <2>6, <3>1, <3>2
  <2> QED BY <2>1, <2>5, <2>6
<1>9. ASSUME NEW j \in Jobs, End(j) PROVE OwnerInv'
  <2>1. /\ child' = [child EXCEPT ![j] = "ended"] /\ child[j] # "none" /\ OwnerOf[j] \in up
        /\ UNCHANGED <<stored, expired, attached, asked, aborted, reply, saving, up, failures>>
    BY <1>9 DEF End
  <2>2. PICK st \in Terminal : IF attached[j] /\ (j \in Interactive => Active(mem[j]))
                               THEN Ending(j, st, "final") ELSE UNCHANGED <<mem, ops>>
    BY <1>9 DEF End
  <2>3. "ended" \in Children /\ "final" \in Upserts /\ asked' \in [Jobs -> 0..MaxQuestions]
    BY <1>1, <2>1 DEF Children, Upserts, Types
  <2>4. CASE UNCHANGED <<mem, ops>>
    BY <1>6, <2>1, <2>3, <2>4, NewRecord
  <2>5. CASE attached[j] /\ Ending(j, st, "final")
    <3> DEFINE n == [mem[j] EXCEPT !.st = st, !.q = None, !.rev = @ + 1]
    <3>1. /\ mem' = [mem EXCEPT ![j] = n]
          /\ ops' = [ops EXCEPT ![OwnerOf[j]] = @ \union {Op("final", j, n, None, None)}]
      BY <2>5 DEF Ending, Request
    <3>2. mem[j] \in Records /\ mem[j] # Absent
      BY <1>1, <2>1, <2>5 DEF OwnerInv, Types
    <3>3. st \in Statuses /\ mem[j].rev + 1 \in Nat
      BY <3>2 DEF Records, Statuses
    <3>4. n \in Records
      BY <3>2, <3>3, NoQuestion DEF Records
    <3> HIDE DEF n
    <3> QED BY <1>6, <2>1, <2>3, <3>1, <3>2, <3>4
  <2> QED BY <2>2, <2>4, <2>5
<1> QED BY <1>2, <1>3, <1>4, <1>5, <1>7, <1>8, <1>9

\* A mutation that times out.
LEMMA FailsKeepsOwner ==
  ASSUME JobsAssumption, OwnerInv, NEW p \in Procs, NEW o \in ops[p], Fails(p, o)
  PROVE  OwnerInv'
<1> DEFINE j == o.job
<1>1. Types /\ OpOf(p, o) /\ o \in Ops
  BY DEF OwnerInv, Types
<1>2. UNCHANGED <<stored, expired, attached, asked, aborted, reply, saving, up>>
  BY DEF Fails
<1>3. CASE o.kind = "final" /\ j \notin Interactive
  <2> DEFINE m == [o.rec EXCEPT !.st = IF aborted[j] THEN "canceled" ELSE "failed", !.rev = @ + 1]
  <2>1. j \in Jobs /\ OwnerOf[j] = p /\ mem[j] # Absent /\ o.rec \in Records
    BY <1>1, <1>3 DEF OpOf, Upserts, Ops
  <2>2. (IF aborted[j] THEN "canceled" ELSE "failed") \in Statuses /\ o.rec.rev + 1 \in Nat
    BY <2>1 DEF Statuses, Terminal, Records
  <2>3. m \in Records
    BY <2>1, <2>2 DEF Records
  <2>4. PICK n \in Records : n = m
    BY <2>3
  <2>5. /\ ops' = [ops EXCEPT ![p] = (@ \ {o}) \union {Op("last", j, n, None, None)}]
        /\ mem' = [mem EXCEPT ![j] = n] \/ mem' = mem
        /\ UNCHANGED child
    BY <1>3, <2>4 DEF Fails
  <2> HIDE DEF m
  <2>6. mem' \in [Jobs -> Records \union {Absent}] /\ \A k \in Jobs : mem'[k] = Absent <=> mem[k] = Absent
    BY <1>1, <2>1, <2>4, <2>5, AbsentRecord DEF Types
  <2> DEFINE i == Op("last", j, n, None, None)
  <2>7. i \in Ops
    BY <2>1, OpFields, NoQuestion DEF Upserts, JobsAssumption
  <2> HIDE DEF i
  <2>8. ops' = [ops EXCEPT ![p] = (@ \ {o}) \union {i}]
    BY <2>5 DEF i
  <2>9. ops' \in [Procs -> SUBSET Ops]
    BY <1>1, <2>7, <2>8 DEF Types
  <2>10. Types'
    BY <1>1, <1>2, <2>5, <2>6, <2>9 DEF Types
  <2>11. OpOf(p, i)' /\ i.kind # "create"
    BY <2>1, <2>6, <2>10, UpsertOf DEF i, Upserts
  <2>12. \A q \in Procs : \A k \in ops'[q] : k \in ops[q] \/ (q = p /\ k = i)
    BY <1>1, <2>8 DEF Types
  <2> QED BY <1>2, <2>5, <2>6, <2>10, <2>11, <2>12, MovesKeep
<1>4. CASE ~(o.kind = "final" /\ j \notin Interactive)
  <2>1. /\ ops' = [ops EXCEPT ![p] = @ \ {o}] /\ UNCHANGED mem
        /\ \/ UNCHANGED child
           \/ o.kind = "ask" /\ child' = [child EXCEPT ![j] = IF @ = "parked" THEN "killed" ELSE @]
    BY <1>4 DEF Fails
  <2>2. \A q \in Procs : ops'[q] \subseteq ops[q]
    BY <1>1, <2>1 DEF Types
  <2>3. ops' \in [Procs -> SUBSET Ops]
    BY <1>1, <2>1 DEF Types
  <2>4. child' \in [Jobs -> Children] /\ \A k \in Jobs : child[k] = "none" => child'[k] = "none"
    BY <1>1, <2>1 DEF Types, Children
  <2>5. Types'
    BY <1>1, <1>2, <2>1, <2>3, <2>4 DEF Types
  <2> QED BY <1>2, <2>1, <2>2, <2>4, <2>5, MovesKeep
<1> QED BY <1>3, <1>4

\* A crash takes all of its process.
LEMMA CrashKeepsOwner ==
  ASSUME JobsAssumption, OwnerInv, NEW p \in Procs, Crash(p)
  PROVE  OwnerInv'
<1> USE DEF Crash, Owned
<1>1. Types'
  <2>1. mem' \in [Jobs -> Records \union {Absent}] /\ child' \in [Jobs -> Children]
    BY DEF OwnerInv, Types, Children
  <2>2. ops' \in [Procs -> SUBSET Ops] /\ saving' \in [Procs -> SUBSET Jobs]
    BY DEF OwnerInv, Types
  <2>3. reply' \in [Procs -> Replies]
    BY DEF OwnerInv, Types, Replies
  <2> QED BY <2>1, <2>2, <2>3 DEF OwnerInv, Types
<1>2. \A j \in Jobs : OwnerOf[j] # p => mem'[j] = mem[j] /\ child'[j] = child[j]
  OBVIOUS
<1>3. \A j \in Jobs : mem[j] = Absent => mem'[j] = Absent
  OBVIOUS
<1>4. \A q \in Procs : (q # p => ops'[q] = ops[q] /\ reply'[q] = reply[q] /\ saving'[q] = saving[q])
                       /\ ops'[p] = {} /\ reply'[p] = NoReply /\ saving'[p] = {}
  BY DEF OwnerInv, Types
<1>5. ASSUME NEW q \in Procs, NEW o \in ops'[q] PROVE OpOf(q, o)'
  <2>1. q # p /\ o \in ops[q] /\ OpOf(q, o)
    BY <1>4 DEF OwnerInv
  <2>2. o.kind \in Upserts \union {"claim", "create"} => mem'[o.job] = mem[o.job] /\ child'[o.job] = child[o.job]
    BY <1>2, <2>1 DEF OpOf, Upserts
  <2>3. o.kind = "cancel" /\ OwnerOf[o.job] = q => mem'[o.job] = mem[o.job]
    BY <1>2, <2>1 DEF OpOf
  <2> QED BY <2>1, <2>2, <2>3 DEF OpOf, Upserts
<1>6. ASSUME NEW q \in Procs PROVE ReplyOf(q, reply[q])'
  <2>1. CASE q = p
    BY <1>4, <2>1 DEF ReplyOf, NoReply
  <2>2. CASE q # p
    <3>1. ReplyOf(q, reply[q]) /\ reply'[q] = reply[q] /\ reply[q] \in Replies
      BY <1>4, <2>2 DEF OwnerInv, Types
    <3>2. reply[q].kind \in {"created", "cancel", "claimed", "rejected"} => reply[q].job \in Jobs
      BY <3>1 DEF Replies, NoReply
    <3> QED BY <1>2, <2>2, <3>1, <3>2 DEF ReplyOf
  <2> QED BY <2>1, <2>2
<1>7. ASSUME NEW q \in Procs, NEW o \in ops'[q], reply'[q].kind = "created", o.kind = "create"
      PROVE  o.job # reply'[q].job
  BY <1>4, <1>7 DEF OwnerInv
<1>8. ASSUME NEW q \in Procs, NEW j \in saving'[q] PROVE OwnerOf[j] = q /\ mem'[j] # Absent
  <2>1. q # p /\ j \in saving[q] /\ j \in Jobs
    BY <1>4 DEF OwnerInv, Types
  <2> QED BY <1>2, <2>1 DEF OwnerInv
<1>9. \A j \in Jobs : attached'[j] /\ OwnerOf[j] \in up' => mem'[j] # Absent
  BY <1>2 DEF OwnerInv
<1> QED BY <1>1, <1>5, <1>6, <1>7, <1>8, <1>9 DEF OwnerInv

\* Every step of the jobs is a landing, a delivery, a tool call, a creation, a step of an
\* owner or its child, a failed mutation or a crash.
LEMMA StepCases ==
  ASSUME Next
  PROVE  \/ \E p \in Procs : Land(p) \/ Deliver(p) \/ Crash(p)
         \/ \E p \in Procs : \/ Status(p)
                             \/ \E j \in Jobs : CancelCall(p, j)
                             \/ \E j \in Jobs, q \in 1..MaxQuestions, a \in Answers : AnswerCall(p, j, q, a)
         \/ \E p \in Procs, j \in Jobs : Create(p, j)
         \/ \E p \in Procs : Beat(p) \/ SaveNext(p)
         \/ \E j \in Jobs : Progress(j) \/ Ask(j) \/ Exit(j) \/ End(j) \/ Expire(j)
         \/ \E p \in Procs : \E o \in ops[p] : Fails(p, o)
BY Zenon DEF Next, ChildStep

\* Type correctness of the store, the owners and what is under way between them, and that
\* what is under way is about its process's own jobs.
THEOREM JobsBelongToOwners == Spec => []OwnerInv
<1>1. JobsAssumption
  BY JobsAssumption
<1>2. Init => OwnerInv
  <2> SUFFICES ASSUME Init PROVE OwnerInv
    OBVIOUS
  <2> USE <1>1 DEF Init
  <2>1. child \in [Jobs -> Children]
    BY DEF Children
  <2>2. asked \in [Jobs -> 0..MaxQuestions] /\ reply \in [Procs -> Replies] /\ ops \in [Procs -> SUBSET Ops]
    BY DEF JobsAssumption, Replies
  <2>3. Types
    BY <2>1, <2>2 DEF Types
  <2>4. \A p \in Procs : ReplyOf(p, reply[p])
    BY DEF ReplyOf, NoReply
  <2> QED BY <2>3, <2>4 DEF OwnerInv
<1>3. OwnerInv /\ [Next]_vars => OwnerInv'
  <2> SUFFICES ASSUME OwnerInv, [Next]_vars PROVE OwnerInv'
    OBVIOUS
  <2>1. CASE Next
    BY <1>1, <2>1, StepCases, LandKeepsOwner, DeliverKeepsOwner, CrashKeepsOwner, CallsKeepOwner,
       CreateKeepsOwner, OwnerStepKeepsOwner, FailsKeepsOwner
  <2>2. CASE UNCHANGED vars
    BY <2>2 DEF vars, OwnerInv, Types, OpOf, ReplyOf
  <2> QED BY <2>1, <2>2
<1> QED BY <1>2, <1>3, PTL DEF Spec

-------------------------------------------------------------------------------
(* The store forgets neither ends nor cancellations *)

\* What a mutation may do to the records there are.
StoreStep ==
  \A j \in Jobs : stored[j] # Absent =>
    /\ stored'[j] # Absent
    /\ Closed(stored[j]) => Closed(stored'[j])
    /\ Over(stored[j]) => Over(stored'[j])
    /\ stored[j].cancel => stored'[j].cancel

\* A slot of the store is active exactly when it holds a record that is not over.
LEMMA ActiveRecord ==
  ASSUME NEW r \in Records \union {Absent} PROVE Active(r) <=> r # Absent /\ ~Over(r)
BY AbsentRecord, StatusKinds DEF Active

\* The pruned store differs from the stored one in lost jobs that have failed.
LEMMA BaseKeeps ==
  ASSUME JobsAssumption, OwnerInv, StoreInv, NothingPruned, NEW j \in Jobs
  PROVE  /\ Base \in [Jobs -> Records \union {Absent}]
         /\ stored[j] # Absent <=> Base[j] # Absent
         /\ stored[j] # Absent => /\ Closed(stored[j]) => Closed(Base[j])
                                  /\ Over(stored[j]) => Over(Base[j])
                                  /\ Base[j].cancel = stored[j].cancel
                                  /\ Base[j].cancel => Closed(Base[j])
         /\ Active(Base[j]) => Active(stored[j])
<1>1. Types
  BY DEF OwnerInv
<1>2. stored[j] # Absent => Base[j] # Absent
  BY DEF NothingPruned
<1>3. stored[j] # Absent /\ stored[j].cancel => Closed(stored[j])
  BY DEF StoreInv
<1>4. Base[j] \in Records \union {Absent} /\ stored[j] \in Records \union {Absent}
  BY <1>1, BaseRecord DEF Types
<1> QED BY <1>1, <1>2, <1>3, <1>4, BaseRecord, ActiveRecord

\* The jobs that a store S has active are finitely many, and fit if those of a store that
\* has no fewer do.
LEMMA FewerActive ==
  ASSUME JobsAssumption, NEW A \in SUBSET Jobs, NEW B \in SUBSET Jobs, A \subseteq B,
         Cardinality(B) <= MaxActive
  PROVE  Cardinality(A) <= MaxActive
<1>1. IsFiniteSet(B)
  BY FS_Subset DEF JobsAssumption
<1>2. Cardinality(A) <= Cardinality(B) /\ Cardinality(A) \in Nat /\ Cardinality(B) \in Nat
  BY <1>1, FS_Subset, FS_CardinalityType
<1> QED BY <1>2 DEF JobsAssumption

\* A store that forgets nothing keeps the invariant, if the result of the mutation is known.
LEMMA LandsKnown ==
  ASSUME JobsAssumption, OwnerInv, StoreInv, NEW p \in Procs, NEW o \in ops[p],
         NEW S \in [Jobs -> Records \union {Absent}], NEW Ls, NEW r \in Replies, Lands(p, o, S, Ls, r),
         StoreStep,
         \A j \in Jobs : S[j] # Absent /\ S[j].cancel => Closed(S[j]),
         ReplyKnown(r)',
         Cardinality({j \in Jobs : Active(S[j])}) <= MaxActive
  PROVE  StoreInv'
<1>1. /\ stored' = S /\ mem' = mem /\ reply' = [reply EXCEPT ![p] = r]
      /\ \A q \in Procs : ops'[q] \subseteq ops[q]
  BY DEF Lands, OwnerInv, Types
<1>2. \A j \in Jobs : mem'[j] # Absent => stored'[j] # Absent /\ (mem'[j].cancel => Closed(stored'[j]))
  BY <1>1 DEF StoreInv, StoreStep
<1>3. ASSUME NEW q \in Procs, NEW n \in ops'[q] PROVE OpKnown(n)'
  <2>1. OpKnown(n) /\ OpOf(q, n)
    BY <1>1 DEF StoreInv, OwnerInv
  <2> QED BY <2>1 DEF OpKnown, OpOf, StoreStep, Upserts
<1>4. ASSUME NEW q \in Procs PROVE ReplyKnown(reply[q])'
  <2>1. CASE q = p
    <3>1. reply'[q] = r
      BY <1>1, <2>1 DEF OwnerInv, Types
    <3> QED BY <3>1 DEF ReplyKnown
  <2>2. CASE q # p
    <3>1. ReplyKnown(reply[q]) /\ reply'[q] = reply[q] /\ reply[q] \in Replies
      BY <1>1, <2>2 DEF StoreInv, OwnerInv, Types
    <3>2. /\ reply[q].kind \in {"created", "cancel", "claimed", "rejected"} => reply[q].job \in Jobs
          /\ reply[q].kind = "beat" => reply[q].jobs \subseteq Jobs
      BY <3>1 DEF Replies, NoReply
    <3>3. reply[q].kind = "beat" => \A j \in reply[q].jobs : stored[j] # Absent
      BY <3>1, <3>2 DEF ReplyKnown, Closed, Terminal, Absent
    <3> QED BY <3>1, <3>2, <3>3 DEF ReplyKnown, StoreStep
  <2> QED BY <2>1, <2>2
<1> QED BY <1>1, <1>2, <1>3, <1>4 DEF StoreInv, ActiveJobs

\* Every mutation that takes effect forgets nothing and knows what it returns.
LEMMA LandKeepsStore ==
  ASSUME JobsAssumption, OwnerInv, StoreInv, NothingPruned, NEW p \in Procs, Land(p)
  PROVE  StoreStep /\ StoreInv'
<1>1. PICK o \in ops[p] : \/ LandUpsert(p, o) \/ LandCreate(p, o) \/ LandCancel(p, o)
                          \/ LandClaim(p, o) \/ LandBeat(p, o)
  BY DEF Land
<1>2. OpOf(p, o) /\ OpKnown(o) /\ o \in Ops /\ Types
  BY DEF OwnerInv, StoreInv, Types
<1>3. Base \in [Jobs -> Records \union {Absent}]
  <2>1. CASE Jobs = {}
    BY <2>1 DEF Base
  <2>2. CASE Jobs # {}
    BY <2>2, BaseKeeps
  <2> QED BY <2>1, <2>2
<1>4. NoReply \in Replies /\ ReplyKnown(NoReply)'
  BY DEF Replies, NoReply, ReplyKnown
<1>5. \A j \in Jobs : Active(Base[j]) => Active(stored[j])
  BY BaseKeeps
<1>6. Cardinality(ActiveJobs) <= MaxActive /\ ActiveJobs \subseteq Jobs
  BY DEF StoreInv, ActiveJobs
<1>7. ASSUME NEW S \in [Jobs -> Records \union {Absent}], NEW Ls, NEW r \in Replies, Lands(p, o, S, Ls, r),
             NEW j \in Jobs, NEW s \in Records \union {Absent},
             S = Base \/ S = [Base EXCEPT ![j] = s],
             stored[j] # Absent => /\ s # Absent
                                   /\ Closed(Base[j]) => Closed(s)
                                   /\ Over(Base[j]) => Over(s)
                                   /\ Base[j].cancel => s.cancel,
             s # Absent /\ s.cancel => Closed(s),
             ReplyKnown(r)',
             Cardinality({k \in Jobs : Active(S[k])}) <= MaxActive
      PROVE  StoreStep /\ StoreInv'
  <2>1. stored' = S
    BY <1>7 DEF Lands
  <2>2. ASSUME NEW k \in Jobs, stored[k] # Absent
        PROVE  /\ S[k] # Absent /\ (Closed(stored[k]) => Closed(S[k]))
               /\ (Over(stored[k]) => Over(S[k])) /\ (stored[k].cancel => S[k].cancel)
    <3>1. CASE S[k] = Base[k]
      BY <2>2, <3>1, BaseKeeps
    <3>2. CASE k = j /\ S[k] = s
      BY <1>7, <2>2, <3>2, BaseKeeps
    <3> QED BY <1>3, <1>7, <3>1, <3>2
  <2>3. StoreStep
    BY <2>1, <2>2 DEF StoreStep
  <2>4. ASSUME NEW k \in Jobs, S[k] # Absent, S[k].cancel PROVE Closed(S[k])
    <3>1. CASE S[k] = Base[k]
      BY <2>4, <3>1, BaseKeeps
    <3>2. CASE S[k] = s
      BY <1>7, <2>4, <3>2
    <3> QED BY <1>3, <1>7, <3>1, <3>2
  <2> QED BY <1>7, <2>3, <2>4, LandsKnown
<1>8. ASSUME NEW S \in [Jobs -> Records \union {Absent}], NEW j \in Jobs, NEW s \in Records \union {Absent},
             S = Base \/ S = [Base EXCEPT ![j] = s], Active(s) => Active(stored[j])
      PROVE  Cardinality({k \in Jobs : Active(S[k])}) <= MaxActive
  <2>1. \A k \in Jobs : Active(S[k]) => Active(stored[k])
    BY <1>3, <1>5, <1>8
  <2>2. {k \in Jobs : Active(S[k])} \subseteq ActiveJobs
    BY <2>1 DEF ActiveJobs
  <2> QED BY <1>6, <2>2, FewerActive
<1>9. CASE LandUpsert(p, o)
  <2> DEFINE j == o.job
             s == Merge(Base[j], o.rec)
             S == [Base EXCEPT ![j] = s]
             Ls == IF s = Base[j] THEN {} ELSE {j}
             r == IF o.kind \in {"final", "last"} THEN [kind |-> "saved", job |-> j] ELSE NoReply
  <2>1. Lands(p, o, S, Ls, r)
    BY <1>9 DEF LandUpsert
  <2>2. /\ j \in Jobs /\ o.rec \in Records /\ stored[j] # Absent
        /\ o.rec.cancel => Closed(stored[j])
    BY <1>2, <1>9 DEF OpOf, OpKnown, LandUpsert, Ops, Upserts
  <2>3. /\ Base[j] \in Records /\ (Closed(stored[j]) => Closed(Base[j])) /\ (Base[j].cancel => Closed(Base[j]))
        /\ Active(Base[j]) => Active(stored[j])
    BY <1>3, <2>2, BaseKeeps
  <2>4. /\ s \in Records /\ (Closed(Base[j]) => Closed(s)) /\ (Over(Base[j]) => Over(s))
        /\ Base[j].cancel => s.cancel
        /\ s.cancel => o.rec.cancel \/ Base[j].cancel
    BY <2>2, <2>3, AbsentRecord, MergeRecord
  <2>5. s # Absent /\ (s.cancel => Closed(s)) /\ (Active(s) => Active(stored[j]))
    BY <2>2, <2>3, <2>4, AbsentRecord, ActiveRecord
  <2> HIDE DEF s
  <2>6. S \in [Jobs -> Records \union {Absent}] /\ r \in Replies
    BY <1>3, <1>4, <2>2, <2>4 DEF Replies
  <2>7. ReplyKnown(r)'
    BY <1>4 DEF ReplyKnown
  <2> HIDE DEF Ls, r, j
  <2>8. Cardinality({k \in Jobs : Active(S[k])}) <= MaxActive
    BY <1>8, <2>2, <2>4, <2>5, <2>6
  <2> HIDE DEF S
  <2>9. S = [Base EXCEPT ![j] = s]
    BY DEF S
  <2> QED BY <1>7, <2>1, <2>2, <2>4, <2>5, <2>6, <2>7, <2>8, <2>9
<1>10. CASE LandCreate(p, o)
  <2> DEFINE j == o.job
             B == {k \in Jobs : Active(Base[k])}
             S == [Base EXCEPT ![j] = NewJob]
             r == [kind |-> "created", job |-> j]
  <2>1. \/ Lands(p, o, Base, {}, NoReply)
        \/ Cardinality(B) < MaxActive /\ Lands(p, o, S, {j}, r)
    <3>1. CASE Cardinality(B) >= MaxActive
      BY <1>10, <3>1 DEF LandCreate
    <3>2. CASE ~(Cardinality(B) >= MaxActive)
      <4>1. IsFiniteSet(B)
        BY FS_Subset DEF JobsAssumption
      <4>2. Cardinality(B) \in Nat
        BY <4>1, FS_CardinalityType
      <4>3. Cardinality(B) < MaxActive
        BY <3>2, <4>2 DEF JobsAssumption
      <4>4. Lands(p, o, S, {j}, r)
        BY <1>10, <3>2 DEF LandCreate
      <4> QED BY <4>3, <4>4
    <3> QED BY <3>1, <3>2
  <2>2. j \in Jobs /\ stored[j] = Absent /\ Base[j] = Absent
    BY <1>2, <1>10, BaseKeeps DEF OpOf, LandCreate
  <2>3. CASE Lands(p, o, Base, {}, NoReply)
    <3>1. Cardinality({k \in Jobs : Active(Base[k])}) <= MaxActive
      BY <1>3, <1>8, <2>2, ActiveRecord
    <3> QED BY <1>3, <1>4, <1>7, <2>2, <2>3, <3>1
  <2>4. CASE Cardinality(B) < MaxActive /\ Lands(p, o, S, {j}, r)
    <3>1. IsFiniteSet(B) /\ B \subseteq Jobs
      BY FS_Subset DEF JobsAssumption
    <3>2. S \in [Jobs -> Records \union {Absent}]
      BY <1>3, NewRecord
    <3>3. {k \in Jobs : Active(S[k])} \subseteq B \union {j}
      BY <1>3
    <3> HIDE DEF B
    <3>4. IsFiniteSet(B \union {j}) /\ Cardinality(B \union {j}) <= Cardinality(B) + 1
          /\ Cardinality(B) \in Nat
      <4>1. Cardinality(B \union {j}) = IF j \in B THEN Cardinality(B) ELSE Cardinality(B) + 1
        BY <3>1, FS_AddElement
      <4> QED BY <3>1, <4>1, FS_AddElement, FS_CardinalityType
    <3>5. Cardinality(B \union {j}) <= MaxActive
      BY <2>4, <3>1, <3>4, FS_CardinalityType DEF JobsAssumption
    <3>6. B \union {j} \in SUBSET Jobs /\ {k \in Jobs : Active(S[k])} \in SUBSET Jobs
      BY <2>2, <3>1
    <3>7. Cardinality({k \in Jobs : Active(S[k])}) <= MaxActive
      BY <3>3, <3>5, <3>6, FewerActive
    <3>8. r \in Replies /\ stored' = S
      BY <2>2, <2>4 DEF Replies, Lands
    <3>9. ReplyKnown(r)'
      BY <1>3, <2>2, <3>8, NewRecord, AbsentRecord DEF ReplyKnown
    <3>10. NewJob \in Records /\ ~NewJob.cancel
      BY NewRecord
    <3> HIDE DEF r
    <3> QED BY <1>7, <2>2, <2>4, <3>2, <3>7, <3>8, <3>9, <3>10
  <2> QED BY <2>1, <2>3, <2>4
<1>11. CASE LandCancel(p, o)
  <2> DEFINE j == o.job
             b == Base[j]
             s == IF Active(b) /\ ~(b.st = "canceling" /\ b.cancel) THEN Canceling(b, b.rev + 1) ELSE b
             S == [Base EXCEPT ![j] = s]
             r == IF OwnerOf[j] = p
                  THEN [kind |-> "cancel", job |-> j, rec |-> s, live |-> o.live] ELSE NoReply
  <2>1. Lands(p, o, S, {}, r)
    BY <1>11 DEF LandCancel
  <2>2. j \in Jobs /\ o.live \in BOOLEAN /\ stored[j] # Absent
    BY <1>2, <1>11 DEF OpOf, OpKnown, LandCancel, Ops
  <2>3. b \in Records /\ (b.cancel => Closed(b)) /\ (Active(b) => Active(stored[j]))
    BY <1>3, <2>2, BaseKeeps
  <2>4. /\ s \in Records /\ Closed(s) /\ (Over(b) => Over(s)) /\ (b.cancel => s.cancel)
        /\ Active(s) => Active(b)
    <3>1. CASE Active(b) /\ ~(b.st = "canceling" /\ b.cancel)
      <4>1. b.rev + 1 \in Nat
        BY <2>3 DEF Records
      <4>2. s \in Records /\ s.st = "canceling" /\ s.cancel
        BY <2>3, <3>1, <4>1, CancelingRecord
      <4> HIDE DEF s
      <4> QED BY <2>3, <3>1, <4>2, StatusKinds DEF Closed
    <3>2. CASE ~(Active(b) /\ ~(b.st = "canceling" /\ b.cancel))
      <4>1. s = b
        BY <3>2
      <4> HIDE DEF s
      <4> QED BY <2>3, <3>2, <4>1, StatusKinds DEF Closed
    <3> QED BY <3>1, <3>2
  <2> HIDE DEF s
  <2>5. S \in [Jobs -> Records \union {Absent}] /\ r \in Replies /\ S[j] = s
    BY <1>3, <1>4, <2>2, <2>4 DEF Replies
  <2>9. PICK n \in Replies : n = r
    BY <2>5
  <2>6. ReplyKnown(n)'
    <3>1. stored' = S
      BY <2>1 DEF Lands
    <3>2. CASE n = NoReply
      BY <1>4, <3>2
    <3>3. CASE n.kind = "cancel" /\ n.job = j
      BY <2>4, <2>5, <3>1, <3>3, AbsentRecord DEF ReplyKnown
    <3> QED BY <2>9, <3>2, <3>3
  <2>10. Lands(p, o, S, {}, n)
    BY <2>1, <2>9
  <2> HIDE DEF r, j
  <2>7. Cardinality({k \in Jobs : Active(S[k])}) <= MaxActive
    BY <1>8, <2>2, <2>3, <2>4, <2>5
  <2> HIDE DEF S
  <2>8. S = [Base EXCEPT ![j] = s] /\ s # Absent
    BY <2>4, AbsentRecord DEF S
  <2>11. PICK t \in Records \union {Absent} : t = s
    BY <2>4
  <2>12. PICK T \in [Jobs -> Records \union {Absent}] : T = S
    BY <2>5
  <2>13. /\ T = [Base EXCEPT ![j] = t] /\ t # Absent /\ Lands(p, o, T, {}, n)
         /\ (Closed(Base[j]) => Closed(t)) /\ (Over(Base[j]) => Over(t)) /\ (Base[j].cancel => t.cancel)
         /\ t.cancel => Closed(t)
         /\ Cardinality({k \in Jobs : Active(T[k])}) <= MaxActive
    BY <2>3, <2>4, <2>7, <2>8, <2>10, <2>11, <2>12
  <2> QED BY <1>7, <2>2, <2>6, <2>13
<1>12. CASE LandClaim(p, o)
  <2> DEFINE j == o.job
             b == Base[j]
             ok == b # Absent /\ ~b.cancel /\ b.st = "awaiting_answer" /\ b.q = o.q
             f == [b EXCEPT !.st = "running", !.q = None, !.ans = o.q, !.rev = @ + 1]
             s == IF ok THEN f ELSE b
             S == [Base EXCEPT ![j] = s]
             r == [kind |-> IF ok THEN "claimed" ELSE "rejected", job |-> j, rec |-> s,
                   q |-> o.q, live |-> o.live]
  <2>1. Lands(p, o, S, {}, r)
    BY <1>12 DEF LandClaim
  <2>2. /\ j \in Jobs /\ mem[j] # Absent /\ stored[j] # Absent
        /\ o.live \in BOOLEAN /\ o.q \in 0..MaxQuestions
    BY <1>2, <1>12 DEF OpOf, LandClaim, Ops, StoreInv
  <2>3. b \in Records /\ (b.cancel => Closed(b)) /\ (Active(b) => Active(stored[j]))
    BY <1>3, <2>2, BaseKeeps
  <2>4. /\ s \in Records /\ (Closed(b) => Closed(s)) /\ (Over(b) => Over(s)) /\ (b.cancel => s.cancel)
        /\ (Active(s) => Active(b)) /\ (s.cancel => Closed(s))
    <3>1. CASE ok
      <4>1. b.rev + 1 \in Nat /\ "running" \in Statuses
        BY <2>3 DEF Records, Statuses
      <4>2. f \in Records /\ f.cancel = b.cancel
        BY <2>2, <2>3, <4>1, NoQuestion DEF Records
      <4>3. ~Closed(b) /\ ~Over(b) /\ Active(b)
        BY <2>3, <3>1, StatusKinds
      <4> QED BY <3>1, <4>2, <4>3
    <3>2. CASE ~ok
      BY <2>3, <3>2
    <3> QED BY <3>1, <3>2
  <2> HIDE DEF s, ok
  <2>5. S \in [Jobs -> Records \union {Absent}] /\ r \in Replies /\ S[j] = s
    BY <1>3, <2>2, <2>4 DEF Replies
  <2>9. PICK n \in Replies : n = r
    BY <2>5
  <2>6. ReplyKnown(n)'
    <3>1. stored' = S
      BY <2>1 DEF Lands
    <3>2. n.kind \in {"claimed", "rejected"} /\ n.job = j /\ n.rec = s
      BY <2>9
    <3>3. stored'[n.job] # Absent /\ (n.rec.cancel => Closed(stored'[n.job]))
      BY <2>4, <2>5, <3>1, <3>2, AbsentRecord
    <3> QED BY <3>2, <3>3 DEF ReplyKnown
  <2>10. Lands(p, o, S, {}, n)
    BY <2>1, <2>9
  <2> HIDE DEF r, j
  <2>7. Cardinality({k \in Jobs : Active(S[k])}) <= MaxActive
    BY <1>8, <2>2, <2>3, <2>4, <2>5
  <2> HIDE DEF S
  <2>8. S = [Base EXCEPT ![j] = s] /\ s # Absent
    BY <2>4, AbsentRecord DEF S
  <2>11. PICK t \in Records \union {Absent} : t = s
    BY <2>4
  <2>12. PICK T \in [Jobs -> Records \union {Absent}] : T = S
    BY <2>5
  <2>13. /\ T = [Base EXCEPT ![j] = t] /\ t # Absent /\ Lands(p, o, T, {}, n)
         /\ (Closed(Base[j]) => Closed(t)) /\ (Over(Base[j]) => Over(t)) /\ (Base[j].cancel => t.cancel)
         /\ t.cancel => Closed(t)
         /\ Cardinality({k \in Jobs : Active(T[k])}) <= MaxActive
    BY <2>3, <2>4, <2>7, <2>8, <2>10, <2>11, <2>12
  <2> QED BY <1>7, <2>2, <2>6, <2>13
<1>13. CASE LandBeat(p, o)
  <2> DEFINE mine == {j \in Owned(p) : Active(Base[j])}
             r == [kind |-> "beat", jobs |-> {j \in mine : Base[j].cancel \/ Base[j].st = "canceling"}]
  <2>1. Lands(p, o, Base, mine, r) /\ stored' = Base
    BY <1>13 DEF LandBeat, Lands
  <2>2. \A j \in r.jobs : j \in Jobs /\ Closed(Base[j])
    <3>1. \A j \in r.jobs : j \in Jobs /\ Active(Base[j]) /\ (Base[j].cancel \/ Base[j].st = "canceling")
      BY DEF Owned
    <3>2. \A j \in r.jobs : stored[j] # Absent
      BY <3>1, BaseKeeps, AbsentRecord DEF Active
    <3> QED BY <3>1, <3>2, BaseKeeps DEF Closed
  <2>3. r \in Replies
    BY DEF Replies, Owned
  <2>7. PICK n \in Replies : n = r
    BY <2>3
  <2>4. ReplyKnown(n)'
    <3>1. n.kind = "beat" /\ \A j \in n.jobs : Closed(stored'[j])
      BY <2>1, <2>2, <2>7
    <3> QED BY <3>1 DEF ReplyKnown
  <2> HIDE DEF r
  <2>8. PICK L : L = mine
    OBVIOUS
  <2>9. PICK S \in [Jobs -> Records \union {Absent}] : S = Base
    BY <1>3
  <2>10. Lands(p, o, S, L, n)
    BY <2>1, <2>7, <2>8, <2>9
  <2> HIDE DEF mine
  <2>5. CASE Jobs = {}
    <3>1. StoreStep /\ \A j \in Jobs : Base[j] # Absent /\ Base[j].cancel => Closed(Base[j])
      BY <2>5 DEF StoreStep
    <3>2. {k \in Jobs : Active(Base[k])} \subseteq ActiveJobs
      BY <1>5 DEF ActiveJobs
    <3>3. Cardinality({k \in Jobs : Active(Base[k])}) <= MaxActive
      BY <1>6, <3>2, FewerActive
    <3> QED BY <2>4, <2>9, <2>10, <3>1, <3>3, LandsKnown
  <2>6. CASE Jobs # {}
    <3>1. PICK j \in Jobs : TRUE
      BY <2>6
    <3>2. Base[j] \in Records \union {Absent}
      BY <1>3
    <3>3. Cardinality({k \in Jobs : Active(Base[k])}) <= MaxActive
      BY <1>3, <1>5, <1>8, <3>2
    <3>4. (stored[j] # Absent => Base[j] # Absent) /\ (Base[j] # Absent /\ Base[j].cancel => Closed(Base[j]))
      BY BaseKeeps
    <3>5. PICK s \in Records \union {Absent} : s = Base[j]
      BY <3>2
    <3> QED BY <1>7, <2>4, <2>9, <2>10, <3>3, <3>4, <3>5
  <2> QED BY <2>5, <2>6
<1> QED BY <1>1, <1>9, <1>10, <1>11, <1>12, <1>13

\* Steps that leave the store alone: whoever learns of a cancellation learns it from the store.
LEMMA MovesKnown ==
  ASSUME StoreInv, UNCHANGED stored,
         \A j \in Jobs : mem'[j] # Absent => stored[j] # Absent /\ (mem'[j].cancel => Closed(stored[j])),
         \A p \in Procs : \A o \in ops'[p] : o \in ops[p] \/ OpKnown(o),
         \A p \in Procs : reply'[p] = reply[p] \/ ReplyKnown(reply[p])'
  PROVE  StoreInv'
<1>1. \A p \in Procs : \A o \in ops'[p] : OpKnown(o)'
  BY DEF StoreInv, OpKnown
<1>2. \A p \in Procs : ReplyKnown(reply[p])'
  BY DEF StoreInv, ReplyKnown
<1> QED BY <1>1, <1>2 DEF StoreInv, ActiveJobs

\* One entry changes, and keeps its cancellation or gets one that the store knows.
LEMMA EntryKnown ==
  ASSUME StoreInv, OwnerInv, UNCHANGED stored, NEW j \in Jobs, NEW n \in Records,
         mem' = mem \/ (mem' = [mem EXCEPT ![j] = n] /\ stored[j] # Absent /\ (n.cancel => Closed(stored[j]))),
         \A p \in Procs : \A o \in ops'[p] : o \in ops[p] \/ OpKnown(o),
         \A p \in Procs : reply'[p] = reply[p] \/ reply'[p] = NoReply
  PROVE  StoreInv'
<1>1. \A k \in Jobs : mem'[k] # Absent => stored[k] # Absent /\ (mem'[k].cancel => Closed(stored[k]))
  BY DEF StoreInv, OwnerInv, Types
<1>2. ASSUME NEW p \in Procs, reply'[p] = NoReply PROVE ReplyKnown(reply[p])'
  BY <1>2 DEF ReplyKnown, NoReply
<1> QED BY <1>1, <1>2, MovesKnown

\* Taking in a reply leaves the store alone and puts into memory only what the store knows.
LEMMA DeliverKeepsStore ==
  ASSUME JobsAssumption, OwnerInv, StoreInv, NEW p \in Procs, Deliver(p)
  PROVE  StoreInv'
<1> DEFINE r == reply[p]
           j == r.job
<1>1. Types /\ ReplyOf(p, r) /\ ReplyKnown(r) /\ r \in Replies
  BY DEF OwnerInv, StoreInv, Types
<1>2. /\ UNCHANGED <<stored, ops>> /\ reply' = [reply EXCEPT ![p] = NoReply]
      /\ \A q \in Procs : reply'[q] = reply[q] \/ reply'[q] = NoReply
  BY <1>1 DEF Deliver, Types
<1>3. ASSUME r.kind \in {"created", "cancel", "claimed", "rejected"}
      PROVE  j \in Jobs /\ stored[j] # Absent
  BY <1>1, <1>3 DEF ReplyKnown, Replies, NoReply
<1>4. ASSUME r.kind \in {"cancel", "claimed", "rejected"}
      PROVE  /\ mem[j] \in Records /\ (mem[j].cancel => Closed(stored[j]))
             /\ r.rec \in Records \union {Absent}
  <2>1. mem[j] # Absent /\ j \in Jobs
    BY <1>1, <1>3, <1>4 DEF ReplyOf
  <2>2. \/ r \in [kind : {"cancel"}, job : Jobs, rec : Records \union {Absent}, live : BOOLEAN]
        \/ r \in [kind : {"claimed", "rejected"}, job : Jobs, rec : Records \union {Absent},
                  q : 0..MaxQuestions, live : BOOLEAN]
    BY <1>1, <1>4 DEF Replies, NoReply
  <2>3. r.rec \in Records \union {Absent}
    BY <2>2
  <2> QED BY <1>1, <2>1, <2>3 DEF Types, StoreInv
<1>5. ASSUME r.kind \in {"created", "cancel", "claimed", "rejected"}, NEW n \in Records,
             mem' = mem \/ mem' = [mem EXCEPT ![j] = n], n.cancel => Closed(stored[j])
      PROVE  StoreInv'
  BY <1>2, <1>3, <1>5, EntryKnown
<1>6. CASE DeliverCreated(p)
  BY <1>5, <1>6, NewRecord DEF DeliverCreated
<1>7. CASE DeliverSaved(p)
  BY <1>2, <1>7, MovesKnown, NewRecord DEF DeliverSaved, StoreInv, ReplyKnown, NoReply
<1>8. CASE DeliverCancel(p)
  <2> DEFINE n == Canceling(mem[j], IF r.rec = Absent THEN mem[j].rev + 1 ELSE r.rec.rev)
  <2>1. r.kind = "cancel" /\ Closed(stored[j])
    BY <1>1, <1>8 DEF DeliverCancel, ReplyKnown
  <2>2. mem' = [mem EXCEPT ![j] = n] \/ mem' = mem
    BY <1>1, <1>3, <1>8, <2>1 DEF DeliverCancel, Types
  <2>3. (IF r.rec = Absent THEN mem[j].rev + 1 ELSE r.rec.rev) \in Nat
    BY <1>4, <2>1 DEF Records
  <2>4. n \in Records
    BY <1>4, <2>1, <2>3, CancelingRecord
  <2> HIDE DEF n
  <2> QED BY <1>5, <2>1, <2>2, <2>4
<1>9. CASE DeliverClaimed(p)
  <2> DEFINE n == [mem[j] EXCEPT !.st = "running", !.q = None, !.ans = r.q, !.rev = r.rec.rev]
  <2>1. r.kind = "claimed" /\ r.rec \in Records /\ r.q \in 0..MaxQuestions
    BY <1>1, <1>9 DEF DeliverClaimed, ReplyOf, Replies, NoReply
  <2>2. mem' = [mem EXCEPT ![j] = n] \/ mem' = mem
    BY <1>1, <1>3, <1>9, <2>1 DEF DeliverClaimed, Types
  <2>3. "running" \in Statuses /\ r.rec.rev \in Nat
    BY <2>1 DEF Records, Statuses
  <2>4. n \in Records /\ n.cancel = mem[j].cancel
    BY <1>4, <2>1, <2>3, NoQuestion DEF Records
  <2> HIDE DEF n
  <2> QED BY <1>4, <1>5, <2>1, <2>2, <2>4
<1>10. CASE DeliverRejected(p)
  <2> DEFINE n == [mem[j] EXCEPT !.st = r.rec.st, !.q = r.rec.q, !.cancel = r.rec.cancel, !.rev = r.rec.rev]
  <2>1. r.kind = "rejected"
    BY <1>10 DEF DeliverRejected
  <2>2. CASE r.rec = Absent
    <3>1. mem' = mem
      BY <1>10, <2>2 DEF DeliverRejected
    <3> QED BY <1>5, <2>1, <3>1, NewRecord
  <2>3. CASE r.rec # Absent
    <3>1. mem' = [mem EXCEPT ![j] = n] \/ mem' = mem
      BY <1>10 DEF DeliverRejected
    <3>2. n \in Records /\ n.cancel = r.rec.cancel
      BY <1>4, <2>1, <2>3 DEF Records
    <3>3. r.rec.cancel => Closed(stored[j])
      BY <1>1, <2>1, <2>3 DEF ReplyKnown
    <3> HIDE DEF n
    <3> QED BY <1>5, <2>1, <3>1, <3>2, <3>3
  <2> QED BY <2>2, <2>3
<1>11. CASE DeliverBeat(p)
  <2> DEFINE hit == {k \in r.jobs : Active(mem[k])}
  <2>1. \A k \in Jobs : mem'[k] # mem[k] => k \in hit
    BY <1>1, <1>11 DEF DeliverBeat, Types
  <2>2. \A k \in hit : Closed(stored[k]) /\ mem[k] # Absent
    BY <1>1, <1>11, AbsentRecord DEF DeliverBeat, ReplyKnown, Active
  <2> HIDE DEF hit
  <2>3. \A k \in Jobs : mem'[k] # Absent => stored[k] # Absent /\ (mem'[k].cancel => Closed(stored[k]))
    BY <2>1, <2>2 DEF StoreInv
  <2>4. ReplyKnown(reply[p])'
    BY <1>1, <1>2 DEF ReplyKnown, NoReply, Types
  <2> QED BY <1>2, <2>3, <2>4, MovesKnown, <1>1 DEF Types
<1> QED BY <1>6, <1>7, <1>8, <1>9, <1>10, <1>11 DEF Deliver

\* A tool call first refreshes the memory from the store, then queues mutations of known records.
LEMMA ToolCallKeepsStore ==
  ASSUME JobsAssumption, OwnerInv, StoreInv, NEW p \in Procs, NEW Os, ToolCall(p, Os),
         \A o \in Os : OpKnown(o)
  PROVE  StoreInv'
<1> DEFINE R == Replaced(p)
<1>1. Types
  BY DEF OwnerInv
<1>2. /\ mem' = [j \in Jobs |-> Refreshed(p, j)]
      /\ ops' = [ops EXCEPT ![p] = {Detach(o, R) : o \in ops[p]} \union Os]
      /\ reply' = [reply EXCEPT ![p] = Detach(reply[p], R)]
      /\ UNCHANGED stored
  BY <1>1 DEF ToolCall, Types
<1> HIDE DEF R
<1>3. \A j \in Jobs : mem'[j] # Absent => stored[j] # Absent /\ (mem'[j].cancel => Closed(stored[j]))
  BY <1>1, <1>2, RefreshedRecord DEF StoreInv
<1>4. ASSUME NEW q \in Procs, NEW o \in ops'[q] PROVE o \in ops[q] \/ OpKnown(o)
  <2>1. o \in ops[q] \/ (q = p /\ (o \in Os \/ \E n \in ops[p] : o = Detach(n, R)))
    BY <1>1, <1>2 DEF Types
  <2>2. ASSUME NEW n \in ops[p], o = Detach(n, R) PROVE OpKnown(o)
    <3>1. OpKnown(n) /\ o.kind = n.kind /\ o.job = n.job /\ o.rec = n.rec
      BY <1>1, <2>2, DetachOp DEF StoreInv, Types
    <3> QED BY <3>1 DEF OpKnown
  <2> QED BY <2>1, <2>2
<1>5. ASSUME NEW q \in Procs PROVE reply'[q] = reply[q] \/ ReplyKnown(reply[q])'
  <2>1. CASE q # p
    BY <1>2, <2>1
  <2>2. CASE q = p
    <3>1. reply'[p] = Detach(reply[p], R) /\ reply[p] \in Replies /\ ReplyKnown(reply[p])
      BY <1>1, <1>2 DEF Types, StoreInv
    <3>2. /\ reply'[p].kind = reply[p].kind
          /\ reply[p].kind \in {"created", "cancel", "claimed", "rejected"} => reply'[p].job = reply[p].job
          /\ reply[p].kind = "rejected" => reply'[p].rec = reply[p].rec
          /\ reply[p].kind = "beat" => reply'[p].jobs = reply[p].jobs
      BY <3>1, DetachReply
    <3> QED BY <1>2, <2>2, <3>1, <3>2 DEF ReplyKnown
  <2> QED BY <2>1, <2>2
<1> QED BY <1>2, <1>3, <1>4, <1>5, MovesKnown

\* The three tool calls: status, cancel and answer.
LEMMA CallsKeepStore ==
  ASSUME JobsAssumption, OwnerInv, StoreInv, NEW p \in Procs,
         \/ Status(p)
         \/ \E j \in Jobs : CancelCall(p, j)
         \/ \E j \in Jobs, q \in 1..MaxQuestions, a \in Answers : AnswerCall(p, j, q, a)
  PROVE  StoreInv'
<1>1. CASE Status(p)
  BY <1>1, ToolCallKeepsStore DEF Status
<1>2. ASSUME NEW j \in Jobs, CancelCall(p, j) PROVE StoreInv'
  <2> DEFINE o == Op("cancel", j, NewJob, None, None)
  <2>1. Active(stored[j]) \/ Active(Refreshed(p, j))
    BY <1>2 DEF CancelCall
  <2>2. stored[j] # Absent
    <3>1. CASE Active(stored[j])
      BY <3>1, AbsentRecord DEF Active
    <3>2. CASE Active(Refreshed(p, j))
      <4>1. Refreshed(p, j) # Absent
        BY <3>2, AbsentRecord DEF Active
      <4> QED BY <4>1, RefreshedRecord DEF OwnerInv, StoreInv
    <3> QED BY <2>1, <3>1, <3>2
  <2>3. OpKnown(o)
    BY <2>2 DEF OpKnown, Op, Upserts
  <2> HIDE DEF o
  <2> QED BY <1>2, <2>3, ToolCallKeepsStore DEF CancelCall, o
<1>3. ASSUME NEW j \in Jobs, NEW q \in 1..MaxQuestions, NEW a \in Answers, AnswerCall(p, j, q, a)
      PROVE  StoreInv'
  <2> DEFINE o == Op("claim", j, NewJob, q, a)
  <2>1. OpKnown(o)
    BY DEF OpKnown, Op, Upserts
  <2> HIDE DEF o
  <2> QED BY <1>3, <2>1, ToolCallKeepsStore DEF AnswerCall, o
<1> QED BY <1>1, <1>2, <1>3

\* An upsert of an entry knows what the entry does.
LEMMA UpsertKnown ==
  ASSUME NEW k \in Upserts, NEW j \in Jobs, NEW r \in Records, stored[j] # Absent,
         r.cancel => Closed(stored[j])
  PROVE  OpKnown(Op(k, j, r, None, None))
BY DEF OpKnown, Op, Upserts

\* Heartbeats, saves and what the owner's own runs do.
LEMMA OwnerStepKeepsStore ==
  ASSUME JobsAssumption, OwnerInv, StoreInv,
         \/ \E p \in Procs : Beat(p) \/ SaveNext(p)
         \/ \E j \in Jobs : Progress(j) \/ Ask(j) \/ Exit(j) \/ End(j) \/ Expire(j)
  PROVE  StoreInv'
<1>1. Types /\ \A j \in Jobs : OwnerOf[j] \in Procs
  BY DEF OwnerInv, JobsAssumption
<1>2. ASSUME NEW p \in Procs, NEW o, OpKnown(o), ops' = [ops EXCEPT ![p] = @ \union {o}],
             UNCHANGED <<stored, mem, reply>>
      PROVE  StoreInv'
  <2>1. \A q \in Procs : \A n \in ops'[q] : n \in ops[q] \/ n = o
    BY <1>1, <1>2 DEF Types
  <2> QED BY <1>2, <2>1, MovesKnown DEF StoreInv
<1>3. ASSUME NEW p \in Procs, Beat(p) PROVE StoreInv'
  <2> DEFINE o == Op("beat", 0, NewJob, None, None)
  <2>1. OpKnown(o)
    BY DEF OpKnown, Op, Upserts
  <2> HIDE DEF o
  <2>2. ops' = [ops EXCEPT ![p] = @ \union {o}] /\ UNCHANGED <<stored, mem, reply>>
    BY <1>3 DEF Beat, Request, o
  <2> QED BY <1>2, <2>1, <2>2
<1>4. ASSUME NEW p \in Procs, SaveNext(p) PROVE StoreInv'
  <2>1. PICK j \in saving[p] : Request(p, Op("save", j, mem[j], None, None))
    BY <1>4 DEF SaveNext
  <2>2. j \in Jobs /\ mem[j] \in Records /\ mem[j] # Absent
    BY <1>1 DEF OwnerInv, Types
  <2>3. PICK r \in Records : r = mem[j]
    BY <2>2
  <2> DEFINE o == Op("save", j, r, None, None)
  <2>4. stored[j] # Absent /\ (r.cancel => Closed(stored[j]))
    BY <2>2, <2>3 DEF StoreInv
  <2>5. OpKnown(o)
    BY <2>2, <2>4, UpsertKnown DEF Upserts
  <2> HIDE DEF o
  <2>6. ops' = [ops EXCEPT ![p] = @ \union {o}] /\ UNCHANGED <<stored, mem, reply>>
    BY <1>4, <2>1, <2>3 DEF SaveNext, Request, o
  <2> QED BY <1>2, <2>5, <2>6
<1>5. ASSUME NEW j \in Jobs, Progress(j) \/ Expire(j) PROVE StoreInv'
  <2>1. UNCHANGED <<stored, mem, ops, reply>>
    BY <1>5 DEF Progress, Expire
  <2> QED BY <2>1, MovesKnown DEF StoreInv
<1>6. ASSUME NEW j \in Jobs, NEW n \in Records, NEW k \in Upserts, UNCHANGED <<stored, reply>>,
             mem' = mem \/ (mem' = [mem EXCEPT ![j] = n] /\ mem[j] # Absent /\ n.cancel = mem[j].cancel),
             \/ ops' = ops
             \/ /\ mem' # mem \/ (n.cancel = mem[j].cancel /\ mem[j] # Absent)
                /\ ops' = [ops EXCEPT ![OwnerOf[j]] = @ \union {Op(k, j, n, None, None)}]
      PROVE  StoreInv'
  <2> DEFINE o == Op(k, j, n, None, None)
  <2>1. mem[j] # Absent => stored[j] # Absent /\ (mem[j].cancel => Closed(stored[j]))
    BY DEF StoreInv
  <2>2. ops' = ops \/ OpKnown(o)
    BY <1>6, <2>1, UpsertKnown
  <2> HIDE DEF o
  <2>3. ops' = ops \/ ops' = [ops EXCEPT ![OwnerOf[j]] = @ \union {o}]
    BY <1>6 DEF o
  <2>4. \A q \in Procs : \A i \in ops'[q] : i \in ops[q] \/ OpKnown(i)
    BY <1>1, <2>2, <2>3 DEF Types
  <2> QED BY <1>6, <2>1, <2>4, EntryKnown
<1>7. ASSUME NEW j \in Jobs, Ask(j) PROVE StoreInv'
  <2> DEFINE n == [mem[j] EXCEPT !.st = "awaiting_answer", !.q = asked'[j], !.rev = @ + 1]
  <2>1. UNCHANGED <<stored, reply>> /\ asked[j] < MaxQuestions /\ asked' = [asked EXCEPT ![j] = @ + 1]
    BY <1>7 DEF Ask
  <2>2. CASE UNCHANGED <<mem, ops>>
    BY <2>1, <2>2, MovesKnown DEF StoreInv
  <2>3. CASE ~UNCHANGED <<mem, ops>>
    <3>1. /\ Active(mem[j]) /\ mem' = [mem EXCEPT ![j] = n]
          /\ ops' = [ops EXCEPT ![OwnerOf[j]] = @ \union {Op("ask", j, n, None, None)}]
      BY <1>7, <2>3 DEF Ask, Request
    <3>2. mem[j] \in Records /\ mem[j] # Absent
      BY <1>1, <3>1, AbsentRecord DEF Types, Active
    <3>3. mem[j].rev + 1 \in Nat /\ "awaiting_answer" \in Statuses
      BY <3>2 DEF Records, Statuses
    <3>4. asked'[j] \in 0..MaxQuestions
      BY <1>1, <2>1 DEF Types, JobsAssumption
    <3>5. n \in Records /\ n.cancel = mem[j].cancel
      BY <3>2, <3>3, <3>4 DEF Records
    <3>6. PICK r \in Records : r = n
      BY <3>5
    <3> HIDE DEF n
    <3> QED BY <1>6, <2>1, <3>1, <3>2, <3>5, <3>6 DEF Upserts
  <2> QED BY <2>2, <2>3
<1>8. ASSUME NEW j \in Jobs, Exit(j) PROVE StoreInv'
  <2> DEFINE n == [mem[j] EXCEPT !.st = "running"]
  <2>1. /\ (mem' = [mem EXCEPT ![j] = n] /\ Active(mem[j])) \/ mem' = mem
        /\ UNCHANGED <<stored, ops, reply>>
    BY <1>8 DEF Exit
  <2>2. CASE mem' = mem
    BY <2>1, <2>2, MovesKnown DEF StoreInv
  <2>3. CASE mem' = [mem EXCEPT ![j] = n] /\ Active(mem[j])
    <3>1. mem[j] \in Records /\ mem[j] # Absent
      BY <1>1, <2>3, AbsentRecord DEF Types, Active
    <3>2. n \in Records /\ n.cancel = mem[j].cancel
      BY <3>1 DEF Records, Statuses
    <3> HIDE DEF n
    <3> QED BY <1>6, <2>1, <2>3, <3>1, <3>2 DEF Upserts
  <2> QED BY <2>1, <2>2, <2>3
<1>9. ASSUME NEW j \in Jobs, End(j) PROVE StoreInv'
  <2>1. OwnerOf[j] \in up /\ UNCHANGED <<stored, reply>>
    BY <1>9 DEF End
  <2>2. PICK st \in Terminal : IF attached[j] /\ (j \in Interactive => Active(mem[j]))
                               THEN Ending(j, st, "final") ELSE UNCHANGED <<mem, ops>>
    BY <1>9 DEF End
  <2>3. CASE UNCHANGED <<mem, ops>>
    BY <2>1, <2>3, MovesKnown DEF StoreInv
  <2>4. CASE attached[j] /\ Ending(j, st, "final")
    <3> DEFINE n == [mem[j] EXCEPT !.st = st, !.q = None, !.rev = @ + 1]
    <3>1. /\ mem' = [mem EXCEPT ![j] = n]
          /\ ops' = [ops EXCEPT ![OwnerOf[j]] = @ \union {Op("final", j, n, None, None)}]
      BY <2>4 DEF Ending, Request
    <3>2. mem[j] \in Records /\ mem[j] # Absent
      BY <1>1, <2>1, <2>4 DEF OwnerInv, Types
    <3>3. st \in Statuses /\ mem[j].rev + 1 \in Nat
      BY <3>2 DEF Records, Statuses
    <3>4. n \in Records /\ n.cancel = mem[j].cancel
      BY <3>2, <3>3, NoQuestion DEF Records
    <3> HIDE DEF n
    <3> QED BY <1>6, <2>1, <3>1, <3>2, <3>4 DEF Upserts
  <2> QED BY <2>2, <2>3, <2>4
<1> QED BY <1>3, <1>4, <1>5, <1>7, <1>8, <1>9

\* A failed mutation changes the memory of its owner only.
LEMMA FailsKeepsStore ==
  ASSUME JobsAssumption, OwnerInv, StoreInv, NEW p \in Procs, NEW o \in ops[p], Fails(p, o)
  PROVE  StoreInv'
<1> DEFINE j == o.job
<1>1. Types /\ OpOf(p, o) /\ OpKnown(o) /\ o \in Ops /\ UNCHANGED <<stored, reply>>
  BY DEF OwnerInv, StoreInv, Types, Fails
<1>2. CASE o.kind = "final" /\ j \notin Interactive
  <2> DEFINE m == [o.rec EXCEPT !.st = IF aborted[j] THEN "canceled" ELSE "failed", !.rev = @ + 1]
  <2>1. /\ j \in Jobs /\ o.rec \in Records /\ stored[j] # Absent
        /\ o.rec.cancel => Closed(stored[j])
    BY <1>1, <1>2 DEF OpOf, OpKnown, Upserts, Ops
  <2>2. (IF aborted[j] THEN "canceled" ELSE "failed") \in Statuses /\ o.rec.rev + 1 \in Nat
    BY <2>1 DEF Statuses, Terminal, Records
  <2>3. m \in Records /\ m.cancel = o.rec.cancel
    BY <2>1, <2>2 DEF Records
  <2>4. PICK n \in Records : n = m
    BY <2>3
  <2> DEFINE i == Op("last", j, n, None, None)
  <2>5. /\ ops' = [ops EXCEPT ![p] = (@ \ {o}) \union {i}]
        /\ mem' = [mem EXCEPT ![j] = n] \/ mem' = mem
    BY <1>2, <2>4 DEF Fails
  <2> HIDE DEF m
  <2>6. OpKnown(i)
    BY <2>1, <2>3, <2>4, UpsertKnown DEF Upserts
  <2> HIDE DEF i
  <2>7. \A q \in Procs : \A k \in ops'[q] : k \in ops[q] \/ k = i
    BY <1>1, <2>5 DEF Types
  <2> QED BY <1>1, <2>1, <2>3, <2>4, <2>5, <2>6, <2>7, EntryKnown
<1>3. CASE ~(o.kind = "final" /\ j \notin Interactive)
  <2>1. ops' = [ops EXCEPT ![p] = @ \ {o}] /\ UNCHANGED mem
    BY <1>3 DEF Fails
  <2>2. \A q \in Procs : ops'[q] \subseteq ops[q]
    BY <1>1, <2>1 DEF Types
  <2> QED BY <1>1, <2>1, <2>2, MovesKnown DEF StoreInv
<1> QED BY <1>2, <1>3

\* A crash forgets, and a job that is being created is in no store yet.
LEMMA OthersKeepStore ==
  ASSUME JobsAssumption, OwnerInv, StoreInv, NEW p \in Procs, Crash(p) \/ \E j \in Jobs : Create(p, j)
  PROVE  StoreInv'
<1>1. CASE Crash(p)
  <2>1. UNCHANGED stored /\ \A j \in Jobs : mem'[j] # Absent => mem'[j] = mem[j]
    BY <1>1 DEF Crash
  <2>2. /\ \A q \in Procs : ops'[q] \subseteq ops[q]
        /\ \A q \in Procs : reply'[q] = reply[q] \/ reply'[q] = NoReply
    BY <1>1 DEF Crash, OwnerInv, Types
  <2>3. ASSUME NEW q \in Procs, reply'[q] = NoReply PROVE ReplyKnown(reply[q])'
    BY <2>3 DEF ReplyKnown, NoReply
  <2>4. \A j \in Jobs : mem'[j] # Absent => stored[j] # Absent /\ (mem'[j].cancel => Closed(stored[j]))
    BY <2>1 DEF StoreInv
  <2> QED BY <2>1, <2>2, <2>3, <2>4, MovesKnown
<1>2. ASSUME NEW j \in Jobs, Create(p, j) PROVE StoreInv'
  <2> DEFINE o == Op("create", j, NewJob, None, None)
  <2>1. OpKnown(o)
    BY DEF OpKnown, Op, Upserts
  <2> HIDE DEF o
  <2>2. ops' = [ops EXCEPT ![p] = @ \union {o}] /\ UNCHANGED <<stored, mem, reply>>
    BY <1>2 DEF Create, Request, o
  <2>3. \A q \in Procs : \A n \in ops'[q] : n \in ops[q] \/ n = o
    BY <2>2 DEF OwnerInv, Types
  <2> QED BY <2>1, <2>2, <2>3, MovesKnown DEF StoreInv
<1> QED BY <1>1, <1>2

\* Every step moves the store forward only and keeps StoreInv.
LEMMA StoreSteps ==
  ASSUME JobsAssumption, OwnerInv, StoreInv, NothingPruned, [Next]_vars
  PROVE  StoreStep /\ StoreInv'
<1>1. CASE \E p \in Procs : Land(p)
  BY <1>1, LandKeepsStore
<1>2. ASSUME UNCHANGED stored PROVE StoreStep
  BY <1>2 DEF StoreStep
<1>3. CASE Next /\ ~\E p \in Procs : Land(p)
  <2>1. StoreInv'
    BY <1>3, StepCases, DeliverKeepsStore, CallsKeepStore, OwnerStepKeepsStore, FailsKeepsStore,
       OthersKeepStore
  <2>2. UNCHANGED stored
    <3>1. ASSUME NEW p \in Procs, NEW Os, ToolCall(p, Os) PROVE UNCHANGED stored
      BY <3>1 DEF ToolCall
    <3>2. ASSUME NEW p \in Procs,
                 \/ Status(p)
                 \/ \E j \in Jobs : CancelCall(p, j)
                 \/ \E j \in Jobs, q \in 1..MaxQuestions, a \in Answers : AnswerCall(p, j, q, a)
          PROVE  UNCHANGED stored
      BY <3>1, <3>2 DEF Status, CancelCall, AnswerCall
    <3>3. ASSUME NEW p \in Procs, Deliver(p) \/ Crash(p) \/ Beat(p) \/ SaveNext(p)
          PROVE  UNCHANGED stored
      BY <3>3 DEF Deliver, Crash, Beat, SaveNext
    <3>4. ASSUME NEW j \in Jobs, \/ Progress(j) \/ Ask(j) \/ Exit(j) \/ End(j) \/ Expire(j)
                                 \/ \E p \in Procs : Create(p, j)
          PROVE  UNCHANGED stored
      BY <3>4 DEF Progress, Ask, Exit, End, Expire, Create
    <3>5. ASSUME NEW p \in Procs, NEW o \in ops[p], Fails(p, o) PROVE UNCHANGED stored
      BY <3>5 DEF Fails
    <3> QED BY <1>3, <3>2, <3>3, <3>4, <3>5, StepCases
  <2> QED BY <1>2, <2>1, <2>2
<1>4. CASE UNCHANGED vars
  BY <1>4 DEF vars, StoreStep, StoreInv, OpKnown, ReplyKnown, ActiveJobs
<1> QED BY <1>1, <1>3, <1>4

\* pruneJobs evicts no record while there are no more than MAX_PERSISTED_JOBS jobs.
LEMMA FewJobsStay ==
  ASSUME JobsAssumption, Types, Cardinality(Jobs) <= MaxJobs
  PROVE  NothingPruned
<1> SUFFICES ASSUME NEW j \in Jobs, stored[j] # Absent PROVE Base[j] # Absent
  BY DEF NothingPruned
<1> DEFINE S == [k \in Jobs |-> IF Stale(k)
                                THEN [stored[k] EXCEPT !.st = "failed", !.q = None, !.rev = @ + 1]
                                ELSE stored[k]]
           act  == {k \in Jobs : Active(S[k])}
           term == {k \in Jobs : S[k] # Absent} \ act
           newer == {n \in term : n > j} \union act
<1>1. S[j] # Absent
  <2>1. stored[j] \in Records
    BY DEF Types
  <2>2. "failed" \in Statuses /\ stored[j].rev + 1 \in Nat
    BY <2>1 DEF Records, Statuses, Terminal
  <2>3. [stored[j] EXCEPT !.st = "failed", !.q = None, !.rev = @ + 1] \in Records
    BY <2>1, <2>2, NoQuestion DEF Records
  <2> QED BY <2>3, AbsentRecord
<1>2. Base[j] = IF j \in term /\ Cardinality(newer) >= MaxJobs THEN Absent ELSE S[j]
  BY DEF Base
<1>3. ASSUME j \in term PROVE Cardinality(newer) < MaxJobs
  <2>1. newer \subseteq Jobs \ {j}
    <3>1. j \notin act /\ act \subseteq Jobs
      BY <1>3
    <3>2. \A n \in Jobs : n > j => n # j
      BY DEF JobsAssumption
    <3> HIDE DEF act
    <3>3. term \subseteq Jobs
      OBVIOUS
    <3> HIDE DEF term
    <3> QED BY <3>1, <3>2, <3>3
  <2> HIDE DEF newer
  <2>2. IsFiniteSet(Jobs) /\ IsFiniteSet(Jobs \ {j}) /\ Cardinality(Jobs \ {j}) = Cardinality(Jobs) - 1
    BY FS_RemoveElement DEF JobsAssumption
  <2>3. Cardinality(newer) <= Cardinality(Jobs \ {j}) /\ IsFiniteSet(newer)
    BY <2>1, <2>2, FS_Subset
  <2>4. Cardinality(newer) \in Nat /\ Cardinality(Jobs) \in Nat
    BY <2>2, <2>3, FS_CardinalityType
  <2> QED BY <2>2, <2>3, <2>4 DEF JobsAssumption
<1>4. ASSUME j \in term PROVE ~(Cardinality(newer) >= MaxJobs)
  <2>1. IsFiniteSet(newer)
    BY FS_Subset DEF JobsAssumption
  <2> HIDE DEF newer, term
  <2>2. Cardinality(newer) \in Nat
    BY <2>1, FS_CardinalityType
  <2> QED BY <1>3, <1>4, <2>2 DEF JobsAssumption
<1> HIDE DEF S, term, newer
<1> QED BY <1>1, <1>2, <1>4

\* What is under way knows of every cancellation what the store knows, and the store has
\* no more active jobs than MaxActive.
LEMMA StoreKnows == Spec /\ []NothingPruned => []StoreInv
<1>1. JobsAssumption
  BY JobsAssumption
<1>2. Init => StoreInv
  <2> SUFFICES ASSUME Init PROVE StoreInv
    OBVIOUS
  <2>1. ActiveJobs = {}
    BY AbsentRecord DEF Init, ActiveJobs, Active
  <2>2. Cardinality(ActiveJobs) <= MaxActive
    BY <1>1, <2>1, FS_EmptySet DEF JobsAssumption
  <2>3. \A p \in Procs : ReplyKnown(reply[p])
    BY DEF Init, ReplyKnown, NoReply
  <2> QED BY <2>2, <2>3 DEF StoreInv, Init
<1>3. OwnerInv /\ NothingPruned /\ StoreInv /\ [Next]_vars => StoreInv'
  BY <1>1, StoreSteps
<1> QED BY <1>2, <1>3, JobsBelongToOwners, PTL DEF Spec

\* While pruneJobs evicts nothing, createStoredJobIfCapacity keeps the limit on active jobs
\* over all processes: no late write makes a finished job active again.
THEOREM JobCapacity == Spec /\ []NothingPruned => []CapacityHolds
<1>1. StoreInv => CapacityHolds
  BY DEF StoreInv, ActiveJobs, CapacityHolds
<1> QED BY <1>1, StoreKnows, PTL

\* While pruneJobs evicts nothing, mergeJob makes the end of a job in the store final.
THEOREM JobEndsAreFinal == Spec /\ []NothingPruned => TerminalIsFinal
<1>1. OwnerInv /\ NothingPruned /\ StoreInv /\ [Next]_vars =>
        [\A j \in Jobs : Over(stored[j]) => ~Active(stored'[j])]_vars
  <2> SUFFICES ASSUME OwnerInv, NothingPruned, StoreInv, [Next]_vars, NEW j \in Jobs, Over(stored[j])
               PROVE  ~Active(stored'[j])
    OBVIOUS
  <2>1. StoreStep
    BY StoreSteps, JobsAssumption
  <2>2. stored[j] # Absent
    BY AbsentRecord DEF Over, Terminal
  <2>3. Over(stored'[j])
    BY <2>1, <2>2 DEF StoreStep
  <2> QED BY <2>3 DEF Over, Active
<1> QED BY <1>1, StoreKnows, JobsBelongToOwners, PTL DEF Spec, TerminalIsFinal

\* While pruneJobs evicts nothing, no late write of an owner takes a requested
\* cancellation back, or sets the job to running or to waiting again.
THEOREM CancellationIsKept == Spec /\ []NothingPruned => CancellationSticks
<1>1. OwnerInv /\ NothingPruned /\ StoreInv /\ [Next]_vars =>
        [\A j \in Jobs : stored[j] # Absent /\ stored[j].cancel /\ stored'[j] # Absent =>
           /\ stored'[j].cancel
           /\ stored'[j].st \notin {"running", "awaiting_answer"}]_vars
  <2> SUFFICES ASSUME OwnerInv, NothingPruned, StoreInv, [Next]_vars, NEW j \in Jobs,
                      stored[j] # Absent, stored[j].cancel
               PROVE  stored'[j].cancel /\ stored'[j].st \notin {"running", "awaiting_answer"}
    OBVIOUS
  <2>1. StoreStep
    BY StoreSteps, JobsAssumption
  <2>2. Closed(stored[j])
    BY DEF StoreInv
  <2>3. Closed(stored'[j]) /\ stored'[j].cancel
    BY <2>1, <2>2 DEF StoreStep
  <2> QED BY <2>3 DEF Closed, Terminal
<1> QED BY <1>1, StoreKnows, JobsBelongToOwners, PTL DEF Spec, CancellationSticks

\* On a host with no more jobs than MAX_PERSISTED_JOBS nothing is evicted, and the three hold.
THEOREM FewJobsAreKept ==
  ASSUME Cardinality(Jobs) <= MaxJobs
  PROVE  Spec => []CapacityHolds /\ TerminalIsFinal /\ CancellationSticks
<1>1. OwnerInv => NothingPruned
  BY FewJobsStay, JobsAssumption DEF OwnerInv
<1> QED BY <1>1, JobsBelongToOwners, JobCapacity, JobEndsAreFinal, CancellationIsKept, PTL

-------------------------------------------------------------------------------
(* The end of a one-shot job *)

\* Steps that bring no end of j: each end they write was there before, or is another job's.
LEMMA MovesEndNothing ==
  ASSUME EndInv, \A j \in Jobs : ~expired'[j],
         \A p \in Procs : \A o \in ops'[p] : o \in ops[p] \/ (o.kind = "final" => Over(o.rec)),
         \A j \in Jobs \ Interactive :
           OwnerOf[j] \in up' /\ child'[j] # "ended" =>
             /\ OwnerOf[j] \in up /\ child[j] # "ended"
             /\ Over(stored'[j]) => Over(stored[j]) \/ Over(mem[j]) \/ \E p \in Procs : \E n \in ops[p] :
                                      n.kind \in Upserts /\ n.job = j /\ Over(n.rec)
             /\ Over(mem'[j]) => Over(stored[j]) \/ Over(mem[j])
             /\ \A p \in Procs : \A o \in ops'[p] : o \notin ops[p] /\ o.kind \in Upserts /\ o.job = j =>
                  ~Over(o.rec) \/ Over(mem[j])
  PROVE  EndInv'
<1>1. \A p \in Procs : \A o \in ops'[p] : o.kind = "final" => Over(o.rec)
  BY DEF EndInv
<1>2. ASSUME NEW j \in Jobs \ Interactive, OwnerOf[j] \in up', child'[j] # "ended" PROVE NoEndOf(j)'
  <2>1. NoEndOf(j)
    BY <1>2 DEF EndInv
  <2>2. ~Over(stored'[j]) /\ ~Over(mem'[j])
    BY <1>2, <2>1 DEF NoEndOf
  <2>3. ASSUME NEW p \in Procs, NEW o \in ops'[p], o.kind \in Upserts, o.job = j PROVE ~Over(o.rec)
    <3>1. CASE o \in ops[p]
      BY <2>1, <2>3, <3>1 DEF NoEndOf
    <3>2. CASE o \notin ops[p]
      BY <1>2, <2>1, <2>3, <3>2 DEF NoEndOf
    <3> QED BY <3>1, <3>2
  <2> QED BY <2>2, <2>3 DEF NoEndOf, Upserts
<1> QED BY <1>1, <1>2 DEF EndInv

\* A mutation that lands publishes an end only if memory or the store had it.
LEMMA LandKeepsEnd ==
  ASSUME JobsAssumption, OwnerInv, EndInv, NEW p \in Procs, Land(p)
  PROVE  EndInv'
<1>1. PICK o \in ops[p] : \/ LandUpsert(p, o) \/ LandCreate(p, o) \/ LandCancel(p, o)
                          \/ LandClaim(p, o) \/ LandBeat(p, o)
  BY DEF Land
<1>2. OpOf(p, o) /\ o \in Ops /\ Types
  BY DEF OwnerInv, Types
<1>3. /\ UNCHANGED <<mem, child, up>> /\ \A q \in Procs : ops'[q] \subseteq ops[q]
      /\ \A j \in Jobs : ~expired'[j]
  BY <1>1, <1>2 DEF LandUpsert, LandCreate, LandCancel, LandClaim, LandBeat, Lands, Types, EndInv
<1>4. ASSUME NEW j \in Jobs, OwnerOf[j] \in up
      PROVE  Base[j] \in Records \union {Absent} /\ (Over(Base[j]) => Over(stored[j]))
  <2>1. ~Stale(j)
    BY <1>4 DEF Stale, EndInv
  <2>2. ~Over(Absent)
    BY AbsentRecord DEF Over, Terminal
  <2> QED BY <1>2, <2>1, <2>2, BaseRecord
<1>5. ASSUME NEW j \in Jobs, OwnerOf[j] \in up, Over(stored'[j])
      PROVE  Over(stored[j]) \/ (o.kind \in Upserts /\ o.job = j /\ Over(o.rec))
  <2>1. Base \in [Jobs -> Records \union {Absent}]
    BY <1>2, BaseRecord
  <2>2. CASE stored'[j] = Base[j]
    BY <1>4, <1>5, <2>2
  <2>3. CASE stored'[j] # Base[j]
    <3>1. CASE LandUpsert(p, o)
      <4>1. o.job = j /\ stored'[j] = Merge(Base[j], o.rec) /\ o.kind \in Upserts
        BY <2>1, <2>3, <3>1 DEF LandUpsert, Lands
      <4>2. o.rec \in Records
        BY <1>2 DEF Ops
      <4> QED BY <1>4, <1>5, <4>1, <4>2, MergeRecord
    <3>2. CASE LandCreate(p, o)
      <4>1. stored'[j] = NewJob
        BY <2>1, <2>3, <3>2 DEF LandCreate, Lands
      <4> QED BY <1>5, <4>1, NewRecord DEF Over, Terminal
    <3>3. CASE LandCancel(p, o)
      <4>1. Active(Base[j]) /\ stored'[j] = Canceling(Base[j], Base[j].rev + 1)
        BY <2>1, <2>3, <3>3 DEF LandCancel, Lands
      <4>2. Base[j] \in Records /\ Base[j].rev + 1 \in Nat
        BY <1>4, <1>5, <4>1, AbsentRecord DEF Active, Records
      <4>3. stored'[j].st = "canceling"
        BY <4>1, <4>2, CancelingRecord
      <4> QED BY <1>5, <4>3 DEF Over, Terminal
    <3>4. CASE LandClaim(p, o)
      <4>1. /\ Base[j] # Absent
            /\ stored'[j] = [Base[j] EXCEPT !.st = "running", !.q = None, !.ans = o.q, !.rev = @ + 1]
        BY <2>1, <2>3, <3>4 DEF LandClaim, Lands
      <4>2. Base[j] \in Records
        BY <1>4, <1>5, <4>1
      <4>3. stored'[j].st = "running"
        BY <4>1, <4>2 DEF Records
      <4> QED BY <1>5, <4>3 DEF Over, Terminal
    <3>5. CASE LandBeat(p, o)
      BY <2>3, <3>5 DEF LandBeat, Lands
    <3> QED BY <1>1, <3>1, <3>2, <3>3, <3>4, <3>5
  <2> QED BY <2>2, <2>3
<1> QED BY <1>3, <1>5, MovesEndNothing

\* A reply ends no one-shot job in memory whose child has not ended.
LEMMA DeliverKeepsEnd ==
  ASSUME JobsAssumption, OwnerInv, EndInv, NEW p \in Procs, Deliver(p)
  PROVE  EndInv'
<1> DEFINE r == reply[p]
<1>1. Types /\ ReplyOf(p, r) /\ r \in Replies /\ UNCHANGED <<stored, expired, ops, up>>
  BY DEF OwnerInv, Types, Deliver
<1>2. ASSUME NEW j \in Jobs \ Interactive
      PROVE  (Over(mem'[j]) => Over(mem[j])) /\ (child'[j] # "ended" => child[j] # "ended")
  <2>1. CASE DeliverCreated(p)
    <3>1. mem' = [mem EXCEPT ![r.job] = NewJob] /\ child' = [child EXCEPT ![r.job] = "running"]
      BY <2>1 DEF DeliverCreated
    <3>2. child[r.job] = "none" /\ ~Over(NewJob)
      BY <1>1, <2>1, NewRecord DEF DeliverCreated, ReplyOf, Over, Terminal
    <3> QED BY <1>1, <3>1, <3>2 DEF Types
  <2>2. CASE DeliverSaved(p)
    BY <2>2 DEF DeliverSaved
  <2>3. CASE DeliverCancel(p)
    <3> DEFINE n == Canceling(mem[r.job], IF r.rec = Absent THEN mem[r.job].rev + 1 ELSE r.rec.rev)
    <3>1. (mem' = [mem EXCEPT ![r.job] = n] \/ mem' = mem) /\ child' = child /\ r.kind = "cancel"
      BY <1>1, <2>3 DEF DeliverCancel
    <3>2. r.job \in Jobs /\ r.rec \in Records \union {Absent} /\ mem[r.job] \in Records
      <4>1. r \in [kind : {"cancel"}, job : Jobs, rec : Records \union {Absent}, live : BOOLEAN]
        BY <1>1, <3>1 DEF Replies, NoReply
      <4> QED BY <1>1, <3>1, <4>1 DEF ReplyOf, Types
    <3>3. (IF r.rec = Absent THEN mem[r.job].rev + 1 ELSE r.rec.rev) \in Nat
      BY <3>2 DEF Records
    <3>4. n.st = "canceling"
      BY <3>2, <3>3, CancelingRecord
    <3>5. ~Over(n)
      BY <3>4 DEF Over, Terminal
    <3> HIDE DEF n
    <3> QED BY <1>1, <3>1, <3>5 DEF Types
  <2>4. CASE DeliverClaimed(p) \/ DeliverRejected(p)
    <3>1. r.job # j
      BY <1>1, <2>4 DEF ReplyOf, DeliverClaimed, DeliverRejected
    <3>2. mem'[j] = mem[j] /\ child'[j] = child[j]
      BY <1>1, <2>4, <3>1 DEF DeliverClaimed, DeliverRejected, Types
    <3> QED BY <3>2
  <2>5. CASE DeliverBeat(p)
    <3>1. UNCHANGED child
      BY <2>5 DEF DeliverBeat
    <3>2. CASE mem'[j] = mem[j]
      BY <3>1, <3>2
    <3>3. CASE mem'[j] # mem[j]
      <4> DEFINE c == IF mem[j].st = "canceling" THEN mem[j].rev ELSE mem[j].rev + 1
      <4>1. Active(mem[j]) /\ mem'[j] = Canceling(mem[j], c)
        BY <2>5, <3>3 DEF DeliverBeat
      <4>2. mem[j] \in Records
        BY <1>1, <4>1, AbsentRecord DEF Active, Types
      <4>3. c \in Nat
        BY <4>2 DEF Records
      <4> HIDE DEF c
      <4>4. mem'[j].st = "canceling"
        BY <4>1, <4>2, <4>3, CancelingRecord
      <4> QED BY <3>1, <4>4 DEF Over, Terminal
    <3> QED BY <3>2, <3>3
  <2> QED BY <2>1, <2>2, <2>3, <2>4, <2>5 DEF Deliver
<1>3. \A j \in Jobs : ~expired'[j]
  BY <1>1 DEF EndInv
<1> QED BY <1>1, <1>2, <1>3, MovesEndNothing

\* A tool call of the owner, whose leases are fresh, brings no end into its memory.
LEMMA CallsKeepEnd ==
  ASSUME JobsAssumption, OwnerInv, EndInv, NEW p \in Procs,
         \/ Status(p)
         \/ \E j \in Jobs : CancelCall(p, j)
         \/ \E j \in Jobs, q \in 1..MaxQuestions, a \in Answers : AnswerCall(p, j, q, a)
  PROVE  EndInv'
<1>1. PICK Os : ToolCall(p, Os) /\ \A o \in Os : o.kind \in {"cancel", "claim"}
  <2>1. CASE Status(p)
    BY <2>1 DEF Status
  <2>2. ASSUME NEW j \in Jobs, CancelCall(p, j)
        PROVE  \E Os : ToolCall(p, Os) /\ \A o \in Os : o.kind \in {"cancel", "claim"}
    <3>1. Op("cancel", j, NewJob, None, None).kind = "cancel"
      BY DEF Op
    <3> QED BY <2>2, <3>1 DEF CancelCall
  <2>3. ASSUME NEW j \in Jobs, NEW q \in 1..MaxQuestions, NEW a \in Answers, AnswerCall(p, j, q, a)
        PROVE  \E Os : ToolCall(p, Os) /\ \A o \in Os : o.kind \in {"cancel", "claim"}
    <3>1. Op("claim", j, NewJob, q, a).kind = "claim"
      BY DEF Op
    <3> QED BY <2>3, <3>1 DEF AnswerCall
  <2> QED BY <2>1, <2>2, <2>3
<1> DEFINE R == Replaced(p)
<1>2. Types
  BY DEF OwnerInv
<1>3. /\ mem' = [j \in Jobs |-> Refreshed(p, j)]
      /\ ops' = [ops EXCEPT ![p] = {Detach(o, R) : o \in ops[p]} \union Os]
      /\ UNCHANGED <<stored, expired, child, up>>
  BY <1>1, <1>2 DEF ToolCall, Types
<1> HIDE DEF R
<1>4. ASSUME NEW q \in Procs, NEW o \in ops'[q], o \notin ops[q]
      PROVE  o.kind \notin Upserts \/ \E n \in ops[q] : n.kind = o.kind /\ n.job = o.job /\ n.rec = o.rec
  <2>1. q = p /\ (o \in Os \/ \E n \in ops[p] : o = Detach(n, R))
    BY <1>2, <1>3, <1>4 DEF Types
  <2>2. CASE o \in Os
    BY <1>1, <2>2 DEF Upserts
  <2>3. CASE \E n \in ops[p] : o = Detach(n, R)
    BY <1>2, <2>1, <2>3, DetachOp DEF Types
  <2> QED BY <2>1, <2>2, <2>3
<1>5. ASSUME NEW j \in Jobs \ Interactive, OwnerOf[j] \in up, child[j] # "ended"
      PROVE  /\ Over(mem'[j]) => Over(stored[j]) \/ Over(mem[j])
             /\ \A q \in Procs : \A o \in ops'[q] : o \notin ops[q] /\ o.kind \in Upserts /\ o.job = j => ~Over(o.rec)
  <2>1. ~Stale(j)
    BY <1>5 DEF Stale, EndInv
  <2>2. Over(mem'[j]) => Over(stored[j]) \/ Over(mem[j])
    BY <1>2, <1>3, <1>5, <2>1, RefreshedRecord
  <2>3. NoEndOf(j)
    BY <1>5 DEF EndInv
  <2>4. \A q \in Procs : \A o \in ops'[q] : o \notin ops[q] /\ o.kind \in Upserts /\ o.job = j => ~Over(o.rec)
    BY <1>4, <2>3 DEF NoEndOf
  <2> QED BY <2>2, <2>4
<1>6. \A q \in Procs : \A o \in ops'[q] : o \in ops[q] \/ (o.kind = "final" => Over(o.rec))
  BY <1>4 DEF EndInv, Upserts
<1>7. \A j \in Jobs : ~expired'[j]
  BY <1>3 DEF EndInv
<1> QED BY <1>3, <1>5, <1>6, <1>7, MovesEndNothing

\* A run puts its end into memory only after its child has exited.
LEMMA OwnerStepKeepsEnd ==
  ASSUME JobsAssumption, Timely, OwnerInv, EndInv,
         \/ \E p \in Procs : Beat(p) \/ SaveNext(p)
         \/ \E j \in Jobs : Progress(j) \/ Ask(j) \/ Exit(j) \/ End(j) \/ Expire(j)
  PROVE  EndInv'
<1>1. Types /\ \A j \in Jobs : OwnerOf[j] \in Procs
  BY DEF OwnerInv, JobsAssumption
<1>2. ASSUME NEW p \in Procs, NEW o, ops' = [ops EXCEPT ![p] = @ \union {o}],
             UNCHANGED <<stored, mem, expired, child, up>>,
             o.kind = "beat" \/ (o.kind = "save" /\ (Over(o.rec) => Over(mem[o.job])))
      PROVE  EndInv'
  <2>1. \A q \in Procs : \A n \in ops'[q] : n \in ops[q] \/ n = o
    BY <1>1, <1>2 DEF Types
  <2>2. \A j \in Jobs : ~expired'[j]
    BY <1>2 DEF EndInv
  <2>3. \A q \in Procs : \A n \in ops'[q] : n \in ops[q] \/ (n.kind = "final" => Over(n.rec))
    BY <1>2, <2>1
  <2>4. ASSUME NEW j \in Jobs, NEW q \in Procs, NEW n \in ops'[q], n \notin ops[q], n.kind \in Upserts, n.job = j
        PROVE  ~Over(n.rec) \/ Over(mem[j])
    BY <1>2, <2>1, <2>4 DEF Upserts
  <2> QED BY <1>2, <2>2, <2>3, <2>4, MovesEndNothing
<1>3. ASSUME NEW p \in Procs, Beat(p) PROVE EndInv'
  <2> DEFINE o == Op("beat", 0, NewJob, None, None)
  <2>1. o.kind = "beat"
    BY DEF Op
  <2> HIDE DEF o
  <2>2. ops' = [ops EXCEPT ![p] = @ \union {o}] /\ UNCHANGED <<stored, mem, expired, child, up>>
    BY <1>3 DEF Beat, Request, o
  <2> QED BY <1>2, <2>1, <2>2
<1>4. ASSUME NEW p \in Procs, SaveNext(p) PROVE EndInv'
  <2>1. PICK j \in saving[p] : Request(p, Op("save", j, mem[j], None, None))
    BY <1>4 DEF SaveNext
  <2>2. PICK r : r = mem[j]
    OBVIOUS
  <2> DEFINE o == Op("save", j, r, None, None)
  <2>3. o.kind = "save" /\ o.job = j /\ o.rec = r
    BY DEF Op
  <2> HIDE DEF o
  <2>4. ops' = [ops EXCEPT ![p] = @ \union {o}] /\ UNCHANGED <<stored, mem, expired, child, up>>
    BY <1>4, <2>1, <2>2 DEF SaveNext, Request, o
  <2> QED BY <1>2, <2>2, <2>3, <2>4
<1>5. ASSUME NEW j \in Jobs, Progress(j) PROVE EndInv'
  <2>1. UNCHANGED <<stored, mem, expired, child, up, ops>>
    BY <1>5 DEF Progress
  <2> QED BY <2>1, MovesEndNothing DEF EndInv
<1>6. ASSUME NEW j \in Jobs, Expire(j) PROVE FALSE
  BY <1>6 DEF Expire
<1>7. ASSUME NEW j \in Jobs, UNCHANGED <<stored, expired, up>>,
             child' \in [Jobs -> Children],
             \A k \in Jobs : k # j => mem'[k] = mem[k] /\ child'[k] = child[k],
             j \in Interactive \/ child'[j] = "ended",
             \A q \in Procs : \A n \in ops'[q] : n \in ops[q] \/ (n.job = j /\ (n.kind = "final" => Over(n.rec)))
      PROVE  EndInv'
  <2>1. \A k \in Jobs : ~expired'[k]
    BY <1>7 DEF EndInv
  <2>2. ASSUME NEW k \in Jobs \ Interactive, child'[k] # "ended"
        PROVE  k # j /\ mem'[k] = mem[k] /\ child'[k] = child[k]
    BY <1>7, <2>2
  <2>3. \A q \in Procs : \A n \in ops'[q] : n \in ops[q] \/ (n.kind = "final" => Over(n.rec))
    BY <1>7
  <2> QED BY <1>7, <2>1, <2>2, <2>3, MovesEndNothing
<1>8. ASSUME NEW j \in Jobs, NEW k, NEW n, ops' = ops \/ ops' = [ops EXCEPT ![OwnerOf[j]] = @ \union {Op(k, j, n, None, None)}],
             k = "final" => Over(n)
      PROVE  \A q \in Procs : \A o \in ops'[q] : o \in ops[q] \/ (o.job = j /\ (o.kind = "final" => Over(o.rec)))
  <2> DEFINE o == Op(k, j, n, None, None)
  <2>1. o.job = j /\ o.kind = k /\ o.rec = n
    BY DEF Op
  <2> HIDE DEF o
  <2>2. \A q \in Procs : \A i \in ops'[q] : i \in ops[q] \/ i = o
    BY <1>1, <1>8 DEF Types, o
  <2> QED BY <1>8, <2>1, <2>2
<1>9. ASSUME NEW j \in Jobs, Ask(j) PROVE EndInv'
  <2>1. /\ j \in Interactive /\ UNCHANGED <<stored, expired, up>>
        /\ child' = [child EXCEPT ![j] = "parked"] \/ child' = [child EXCEPT ![j] = "killed"]
    BY <1>9 DEF Ask
  <2>2. child' \in [Jobs -> Children] /\ \A k \in Jobs : k # j => child'[k] = child[k]
    BY <1>1, <2>1 DEF Types, Children
  <2> DEFINE n == [mem[j] EXCEPT !.st = "awaiting_answer", !.q = asked'[j], !.rev = @ + 1]
  <2>3. \/ UNCHANGED <<mem, ops>>
        \/ /\ mem' = [mem EXCEPT ![j] = n]
           /\ ops' = [ops EXCEPT ![OwnerOf[j]] = @ \union {Op("ask", j, n, None, None)}]
    BY <1>9 DEF Ask, Request
  <2> HIDE DEF n
  <2>4. \A k \in Jobs : k # j => mem'[k] = mem[k]
    BY <1>1, <2>3 DEF Types
  <2>5. PICK r : r = n
    OBVIOUS
  <2>6. \A q \in Procs : \A o \in ops'[q] : o \in ops[q] \/ (o.job = j /\ (o.kind = "final" => Over(o.rec)))
    BY <1>8, <2>3, <2>5
  <2> QED BY <1>7, <2>1, <2>2, <2>4, <2>6
<1>10. ASSUME NEW j \in Jobs, Exit(j) PROVE EndInv'
  <2>1. /\ j \in Interactive /\ UNCHANGED <<stored, expired, up, ops>>
        /\ child' = [child EXCEPT ![j] = "exited"] \/ child' = [child EXCEPT ![j] = "killed"]
        /\ mem' = mem \/ mem' = [mem EXCEPT ![j] = [@ EXCEPT !.st = "running"]]
    BY <1>10 DEF Exit
  <2>2. child' \in [Jobs -> Children] /\ \A k \in Jobs : k # j => child'[k] = child[k] /\ mem'[k] = mem[k]
    BY <1>1, <2>1 DEF Types, Children
  <2> QED BY <1>7, <2>1, <2>2
<1>11. ASSUME NEW j \in Jobs, End(j) PROVE EndInv'
  <2>1. child' = [child EXCEPT ![j] = "ended"] /\ OwnerOf[j] \in up /\ UNCHANGED <<stored, expired, up>>
    BY <1>11 DEF End
  <2>2. child' \in [Jobs -> Children] /\ child'[j] = "ended" /\ \A k \in Jobs : k # j => child'[k] = child[k]
    BY <1>1, <2>1 DEF Types, Children
  <2>3. PICK st \in Terminal : IF attached[j] /\ (j \in Interactive => Active(mem[j]))
                               THEN Ending(j, st, "final") ELSE UNCHANGED <<mem, ops>>
    BY <1>11 DEF End
  <2>4. CASE UNCHANGED <<mem, ops>>
    BY <1>7, <2>1, <2>2, <2>4
  <2>5. CASE attached[j] /\ Ending(j, st, "final")
    <3> DEFINE n == [mem[j] EXCEPT !.st = st, !.q = None, !.rev = @ + 1]
    <3>1. /\ mem' = [mem EXCEPT ![j] = n]
          /\ ops' = [ops EXCEPT ![OwnerOf[j]] = @ \union {Op("final", j, n, None, None)}]
      BY <2>5 DEF Ending, Request
    <3>2. mem[j] \in Records
      BY <1>1, <2>1, <2>5 DEF OwnerInv, Types
    <3>3. n.st = st
      BY <3>2 DEF Records
    <3>4. Over(n)
      BY <3>3 DEF Over
    <3> HIDE DEF n
    <3>5. PICK r : r = n
      OBVIOUS
    <3>6. \A q \in Procs : \A o \in ops'[q] : o \in ops[q] \/ (o.job = j /\ (o.kind = "final" => Over(o.rec)))
      BY <1>8, <3>1, <3>4, <3>5
    <3>7. \A k \in Jobs : k # j => mem'[k] = mem[k]
      BY <1>1, <3>1 DEF Types
    <3> QED BY <1>7, <2>1, <2>2, <3>6, <3>7
  <2> QED BY <2>3, <2>4, <2>5
<1> QED BY <1>3, <1>4, <1>5, <1>6, <1>9, <1>10, <1>11

\* Crashes, creations and failed mutations.
LEMMA OthersKeepEnd ==
  ASSUME JobsAssumption, OwnerInv, EndInv, NEW p \in Procs,
         \/ Crash(p) \/ \E j \in Jobs : Create(p, j)
         \/ \E o \in ops[p] : Fails(p, o)
  PROVE  EndInv'
<1>1. Types
  BY DEF OwnerInv
<1>2. CASE Crash(p)
  <2>1. /\ UNCHANGED <<stored, expired>> /\ up' = up \ {p}
        /\ \A q \in Procs : ops'[q] \subseteq ops[q]
        /\ \A j \in Jobs : OwnerOf[j] # p => mem'[j] = mem[j] /\ child'[j] = child[j]
    BY <1>1, <1>2 DEF Crash, Owned, Types
  <2>2. \A j \in Jobs : ~expired'[j]
    BY <2>1 DEF EndInv
  <2> QED BY <2>1, <2>2, MovesEndNothing
<1>3. ASSUME NEW j \in Jobs, Create(p, j) PROVE EndInv'
  <2> DEFINE o == Op("create", j, NewJob, None, None)
  <2>1. o.kind = "create"
    BY DEF Op
  <2> HIDE DEF o
  <2>2. ops' = [ops EXCEPT ![p] = @ \union {o}] /\ UNCHANGED <<stored, mem, expired, child, up>>
    BY <1>3 DEF Create, Request, o
  <2>3. \A q \in Procs : \A n \in ops'[q] : n \in ops[q] \/ n = o
    BY <1>1, <2>2 DEF Types
  <2>4. \A k \in Jobs : ~expired'[k]
    BY <2>2 DEF EndInv
  <2>5. \A q \in Procs : \A n \in ops'[q] : n \in ops[q] \/ (n.kind = "final" => Over(n.rec))
    BY <2>1, <2>3
  <2>6. \A q \in Procs : \A n \in ops'[q] : n \notin ops[q] => n.kind \notin Upserts
    BY <2>1, <2>3 DEF Upserts
  <2> QED BY <2>2, <2>4, <2>5, <2>6, MovesEndNothing
<1>4. ASSUME NEW o \in ops[p], Fails(p, o) PROVE EndInv'
  <2>1. /\ OpOf(p, o) /\ o \in Ops /\ p \in up /\ UNCHANGED <<stored, expired, up>>
        /\ \A k \in Jobs : ~expired'[k]
    BY <1>1, <1>4 DEF OwnerInv, Types, Fails, EndInv
  <2>2. CASE o.kind = "final" /\ o.job \notin Interactive
    <3>1. PICK m : /\ ops' = [ops EXCEPT ![p] = (@ \ {o}) \union {Op("last", o.job, m, None, None)}]
                   /\ mem' = [mem EXCEPT ![o.job] = m] \/ mem' = mem
                   /\ UNCHANGED child
      BY <1>4, <2>2 DEF Fails
    <3> DEFINE i == Op("last", o.job, m, None, None)
    <3>2. i.kind = "last" /\ i.job = o.job
      BY DEF Op
    <3> HIDE DEF i
    <3>3. \A q \in Procs : \A n \in ops'[q] : n \in ops[q] \/ n = i
      BY <1>1, <3>1 DEF Types, i
    <3>4. o.job \in Jobs \ Interactive /\ OwnerOf[o.job] = p /\ Over(o.rec)
      BY <2>1, <2>2 DEF OpOf, EndInv, Upserts
    <3>5. child[o.job] = "ended"
      <4>1. NoEndOf(o.job) => FALSE
        BY <2>2, <3>4 DEF NoEndOf, Upserts
      <4> QED BY <2>1, <3>4, <4>1 DEF EndInv
    <3>6. \A k \in Jobs : k # o.job => mem'[k] = mem[k]
      BY <1>1, <3>1 DEF Types
    <3>7. \A q \in Procs : \A n \in ops'[q] : n \in ops[q] \/ (n.kind = "final" => Over(n.rec))
      BY <3>2, <3>3
    <3> QED BY <2>1, <3>1, <3>2, <3>3, <3>5, <3>6, <3>7, MovesEndNothing
  <2>3. CASE ~(o.kind = "final" /\ o.job \notin Interactive)
    <3>1. /\ ops' = [ops EXCEPT ![p] = @ \ {o}] /\ UNCHANGED mem
          /\ \/ UNCHANGED child
             \/ o.kind = "ask" /\ child' = [child EXCEPT ![o.job] = IF @ = "parked" THEN "killed" ELSE @]
      BY <1>4, <2>3 DEF Fails
    <3>2. \A q \in Procs : ops'[q] \subseteq ops[q]
      BY <1>1, <3>1 DEF Types
    <3>3. \A k \in Jobs \ Interactive : child'[k] = child[k]
      BY <1>1, <2>1, <3>1 DEF OpOf, Types
    <3> QED BY <2>1, <3>1, <3>2, <3>3, MovesEndNothing
  <2> QED BY <2>2, <2>3
<1> QED BY <1>2, <1>3, <1>4

\* While owners refresh their leases in time, the store says that a one-shot job of a live
\* owner is over only when its child has ended and been handled.
THEOREM OneShotEndFollowsChild ==
  ASSUME Timely
  PROVE  Spec => [](\A j \in Jobs \ Interactive :
                      Over(stored[j]) /\ OwnerOf[j] \in up => child[j] = "ended")
<1>1. JobsAssumption
  BY JobsAssumption
<1>2. Init => EndInv
  <2> SUFFICES ASSUME Init PROVE EndInv
    OBVIOUS
  <2>1. ~Over(Absent)
    BY AbsentRecord DEF Over, Terminal
  <2> QED BY <2>1 DEF Init, EndInv, NoEndOf
<1>3. OwnerInv /\ EndInv /\ [Next]_vars => EndInv'
  <2> SUFFICES ASSUME OwnerInv, EndInv, [Next]_vars PROVE EndInv'
    OBVIOUS
  <2>1. CASE Next
    BY <1>1, <2>1, StepCases, LandKeepsEnd, DeliverKeepsEnd, CallsKeepEnd, OwnerStepKeepsEnd, OthersKeepEnd
  <2>2. CASE UNCHANGED vars
    BY <2>2 DEF vars, EndInv, NoEndOf
  <2> QED BY <2>1, <2>2
<1>4. EndInv => \A j \in Jobs \ Interactive : Over(stored[j]) /\ OwnerOf[j] \in up => child[j] = "ended"
  BY DEF EndInv, NoEndOf
<1> QED BY <1>2, <1>3, <1>4, JobsBelongToOwners, PTL DEF Spec

\* Hence where all jobs are one-shot jobs, the recorded end is the child's end.
THEOREM RecordedEndIsTrue ==
  ASSUME Timely, Interactive = {}
  PROVE  Spec => []EndFollowsChild
<1>1. (\A j \in Jobs \ Interactive : Over(stored[j]) /\ OwnerOf[j] \in up => child[j] = "ended") => EndFollowsChild
  BY DEF EndFollowsChild
<1> QED BY <1>1, OneShotEndFollowsChild, PTL
===============================================================================
