-------------------------- MODULE CommandJobsProofs --------------------------
(***************************************************************************)
(* Proofs about managed commands, for any owners, jobs, limits and         *)
(* failures.  The stored record of a job that has not ended is active, and *)
(* an ended record is the one its runner holds: so what is published later *)
(* says the same, and every command that may be running has its slot.      *)
(***************************************************************************)
EXTENDS CommandJobs, FiniteSetTheorems, TLAPS

Places == {"new", "asked", "reserved", "undo", "first", "run", "catch", "ended", "final", "over"}

Types ==
  /\ up \in [Owners -> BOOLEAN] /\ closing \in [Owners -> {"no", "asked", "killed"}]
  /\ rec \in [Jobs -> Record \union {Absent}]
  /\ mem \in [Jobs -> Record] /\ failing \subseteq Jobs
  /\ pc \in [Jobs -> Places]
  /\ save \in [Jobs -> {"none", "wait", "landed", "flagged", "broken", "dead"}]
  /\ group \in [Jobs -> SUBSET {"leader", "child"}]
  /\ teardown \in [Jobs -> {"none", "term", "kill", "gone", "left"}]
  /\ why \in [Jobs -> {"none", "aborted", "timeout", "output_limit"}]
  /\ failures \in 0..MaxFailures

\* Where the runner can be while the command runs, and before it does.
Running == {"first", "run", "catch"}
Before == {"new", "asked", "reserved", "undo"}

\* The command of a job: it begins with its record published and is over, as far as its
\* owner can see, before execute goes on.
RunOf(j) ==
  /\ pc[j] \in Before => /\ group[j] = {} /\ teardown[j] = "none" /\ why[j] = "none"
                         /\ j \notin failing /\ save[j] = "none"
  /\ teardown[j] = "gone" => group[j] = {}
  /\ pc[j] \in {"ended", "final"} => teardown[j] \in {"gone", "left"}
  /\ pc[j] = "over" => save[j] = "none"
  /\ group[j] # {} /\ Alive(j) => pc[j] \in Running \/ teardown[j] = "left"

\* The record of a job, in the store and in the runner.
RecordOf(j) ==
  /\ pc[j] \in {"new", "asked"} => rec[j] = Absent
  /\ pc[j] \in {"reserved", "undo"} \union Running => rec[j].status \in Active
  /\ pc[j] \in Running \union Before => mem[j].status \in Active
  /\ pc[j] \in {"ended", "final"} => mem[j].status \in Ends
  /\ pc[j] \in {"ended", "final"} /\ Ended(j) => rec[j].status = mem[j].status /\ rec[j].clean = mem[j].clean

\* What an outcome says is so.
Truthful(j, r) ==
  /\ r.clean => group[j] = {}
  /\ r.status = "succeeded" => why[j] = "none" /\ j \notin failing

TruthOf(j) ==
  /\ pc[j] \in {"ended", "final"} => Truthful(j, mem[j])
  /\ Ended(j) => Truthful(j, rec[j])

JobInv == \A j \in Jobs : RunOf(j) /\ RecordOf(j) /\ TruthOf(j)

\* The slots that Room counts.
Slots == {j \in Jobs : rec[j].status \in Active /\ Alive(j)}

RunnerInv == Types /\ JobInv /\ Cardinality(Slots) <= MaxActive

-------------------------------------------------------------------------------
(* Types *)

\* The records the module names.
LEMMA NamedRecords ==
  /\ New \in Record /\ Done \in Record /\ Absent \notin Record
  /\ New.status = "starting" /\ Done.status = "succeeded" /\ Absent.status = "absent"
  BY DEF New, Done, Absent, Record, Active, Ends

\* The updates of a record are records.
LEMMA Records ==
  /\ \A r \in Record : r.status \in Active \union Ends /\ r.cancel \in BOOLEAN /\ r.clean \in BOOLEAN
  /\ \A r \in Record, t \in Active \union Ends :
       [r EXCEPT !.status = t] \in Record /\ [r EXCEPT !.status = t].status = t /\ [r EXCEPT !.status = t].clean = r.clean
  /\ \A r \in Record, t \in Active \union Ends, c \in BOOLEAN :
       /\ [r EXCEPT !.status = t, !.clean = c] \in Record
       /\ [r EXCEPT !.status = t, !.clean = c].status = t /\ [r EXCEPT !.status = t, !.clean = c].clean = c
  /\ \A r \in Record, c \in BOOLEAN :
       [r EXCEPT !.cancel = c] \in Record /\ [r EXCEPT !.cancel = c].status = r.status /\ [r EXCEPT !.cancel = c].clean = r.clean
  /\ \A t \in Active \union Ends, c, d \in BOOLEAN : [status |-> t, cancel |-> c, clean |-> d] \in Record
  BY DEF Record, Active, Ends

\* Active and ended are different, and a record that is not in the store is neither.
LEMMA Statuses ==
  /\ Active \intersect Ends = {} /\ "absent" \notin Active \union Ends
  /\ {"starting", "running", "canceling"} \subseteq Active
  /\ {"succeeded", "failed", "canceled", "timed_out"} \subseteq Ends
  BY DEF Active, Ends

LEMMA FailType ==
  ASSUME Types, NEW j, Fail(j) PROVE failures' \in 0..MaxFailures
  BY CommandAssumption DEF Types, Fail

\* A publication stores the runner's record, with a flag that is one.
LEMMA PublishedIs ==
  ASSUME Types, NEW j \in Jobs, rec[j] # Absent
  PROVE  Published(j) \in Record /\ Published(j).status = mem[j].status /\ Published(j).clean = mem[j].clean
  <1>1. rec[j] \in Record /\ mem[j] \in Record
    BY DEF Types
  <1> DEFINE c == mem[j].cancel \/ rec[j].cancel
  <1>2. c \in BOOLEAN
    OBVIOUS
  <1>3. Published(j) = [mem[j] EXCEPT !.cancel = c]
    BY DEF Published
  <1> HIDE DEF c
  <1>4. /\ [mem[j] EXCEPT !.cancel = c] \in Record
        /\ [mem[j] EXCEPT !.cancel = c].status = mem[j].status
        /\ [mem[j] EXCEPT !.cancel = c].clean = mem[j].clean
    BY <1>1, <1>2, Records, Zenon
  <1> QED
    BY <1>3, <1>4

LEMMA TerminateType ==
  ASSUME Types, NEW j \in Jobs, NEW reason \in {"aborted", "timeout", "output_limit"},
         Terminate(j, reason) \/ UNCHANGED <<teardown, why>>
  PROVE  /\ teardown' \in [Jobs -> {"none", "term", "kill", "gone", "left"}]
         /\ why' \in [Jobs -> {"none", "aborted", "timeout", "output_limit"}]
  BY DEF Types, Terminate

\* An update of one record.
LEMMA OneRecord ==
  ASSUME NEW f, NEW S, f \in [Jobs -> S], NEW j \in Jobs, NEW r \in S
  PROVE  [f EXCEPT ![j] = r] \in [Jobs -> S]
  OBVIOUS

\* Every step keeps the types.
LEMMA TypesKept == Types /\ [Next]_vars => Types'
  <1> SUFFICES ASSUME Types, [Next]_vars
               PROVE  Types'
    OBVIOUS
  <1> USE DEF Types, Places, runner, command, Goto, Chain
  <1>1. ASSUME NEW j \in Jobs, Call(j)
        PROVE  Types'
    BY <1>1, FailType, PublishedIs DEF Call
  <1>2. ASSUME NEW j \in Jobs, Reserve(j)
        PROVE  Types'
    <2>1. CASE UNCHANGED rec
      BY <1>2, <2>1, FailType DEF Reserve
    <2>2. CASE Room /\ \E old \in Evictions :
                 rec' = [k \in Jobs |-> IF k = j THEN New ELSE IF k \in old THEN Absent ELSE rec[k]]
      <3>1. rec' \in [Jobs -> Record \union {Absent}]
        BY <2>2, NamedRecords
      <3> QED
        BY <1>2, <3>1, FailType DEF Reserve
    <2> QED
      BY <1>2, <2>1, <2>2 DEF Reserve
  <1>3. ASSUME NEW j \in Jobs, Spawn(j)
        PROVE  Types'
    <2>1. mem' \in [Jobs -> Record]
      <3> DEFINE failed == [mem[j] EXCEPT !.status = "failed", !.clean = TRUE]
                 running == [mem[j] EXCEPT !.status = "running"]
      <3>1. failed \in Record /\ running \in Record
        BY Records, Statuses
      <3>2. \/ mem' = mem \/ mem' = [mem EXCEPT ![j] = failed] \/ mem' = [mem EXCEPT ![j] = running]
        BY <1>3 DEF Spawn
      <3> HIDE DEF failed, running
      <3> QED
        BY <3>1, <3>2
    <2>2. /\ group' \in [Jobs -> SUBSET {"leader", "child"}]
          /\ teardown' \in [Jobs -> {"none", "term", "kill", "gone", "left"}]
          /\ pc' \in [Jobs -> Places] /\ save' \in [Jobs -> {"none", "wait", "landed", "flagged", "broken", "dead"}]
      BY <1>3 DEF Spawn
    <2> QED
      BY <1>3, <2>1, <2>2, FailType DEF Spawn
  <1>4. ASSUME NEW j \in Jobs, Undo(j)
        PROVE  Types'
    <2>1. [status |-> "canceled", cancel |-> FALSE, clean |-> TRUE] \in Record \union {Absent}
      BY Records, Statuses
    <2>2. rec' \in [Jobs -> Record \union {Absent}]
      BY <1>4, <2>1, OneRecord DEF Undo
    <2> QED
      BY <1>4, <2>2, FailType DEF Undo
  <1>5. ASSUME NEW j \in Jobs, Land(j)
        PROVE  Types'
    <2>1. CASE rec[j] # Absent /\ rec' = [rec EXCEPT ![j] = Published(j)] /\ mem' = [mem EXCEPT ![j] = Published(j)]
      <3>1. rec' \in [Jobs -> Record \union {Absent}] /\ mem' \in [Jobs -> Record]
        BY <2>1, PublishedIs, OneRecord
      <3> QED
        BY <1>5, <3>1, FailType DEF Land
    <2>2. CASE UNCHANGED <<rec, mem>>
      BY <1>5, <2>2, FailType DEF Land
    <2> QED
      BY <1>5, <2>1, <2>2 DEF Land
  <1>6. ASSUME NEW j \in Jobs, Delivered(j)
        PROVE  Types'
    <2>1. mem' \in [Jobs -> Record]
      <3>1. [mem[j] EXCEPT !.status = "canceling"] \in Record
        BY Records, Statuses
      <3>2. mem' = mem \/ mem' = [mem EXCEPT ![j] = [mem[j] EXCEPT !.status = "canceling"]]
        BY <1>6 DEF Delivered, Landed
      <3> QED
        BY <3>1, <3>2
    <2> QED
      BY <1>6, <2>1, TerminateType DEF Delivered, Landed
  <1>7. ASSUME NEW j \in Jobs, Broken(j)
        PROVE  Types'
    BY <1>7, TerminateType DEF Broken
  <1>8. ASSUME NEW j \in Jobs, Beat(j)
        PROVE  Types'
    BY <1>8, FailType, PublishedIs DEF Beat
  <1>9. ASSUME NEW j \in Jobs, Final(j)
        PROVE  Types'
    BY <1>9, FailType, PublishedIs DEF Final
  <1>10. ASSUME NEW j \in Jobs, LeaderExit(j)
        PROVE  Types'
    BY <1>10, FailType, PublishedIs DEF LeaderExit
  <1>11. ASSUME NEW j \in Jobs, ChildExit(j)
        PROVE  Types'
    BY <1>11, FailType, PublishedIs DEF ChildExit
  <1>12. ASSUME NEW j \in Jobs, Timeout(j)
        PROVE  Types'
    BY <1>12, TerminateType DEF Timeout
  <1>13. ASSUME NEW j \in Jobs, LogFails(j)
        PROVE  Types'
    BY <1>13, TerminateType, FailType DEF LogFails
  <1>14. ASSUME NEW j \in Jobs, Escalate(j)
        PROVE  Types'
    BY <1>14, FailType, PublishedIs DEF Escalate
  <1>15. ASSUME NEW j \in Jobs, Settle(j)
        PROVE  Types'
    BY <1>15, FailType, PublishedIs DEF Settle
  <1>16. ASSUME NEW j \in Jobs, Complete(j)
        PROVE  Types'
    <2>1. PICK end \in Outcomes(j) :
            mem' = [mem EXCEPT ![j].status = end, ![j].clean = pc[j] = "run" /\ teardown[j] = "gone"]
      BY <1>16 DEF Complete
    <2> DEFINE c == pc[j] = "run" /\ teardown[j] = "gone"
    <2>2. end \in Active \union Ends /\ c \in BOOLEAN
      BY Statuses DEF Outcomes
    <2>3. mem' = [mem EXCEPT ![j] = [mem[j] EXCEPT !.status = end, !.clean = c]]
      BY <2>1
    <2> HIDE DEF c
    <2>4. mem' \in [Jobs -> Record]
      BY <2>2, <2>3, Records
    <2> QED
      BY <1>16, <2>4 DEF Complete
  <1>17. ASSUME NEW j \in Jobs, Cancel(j)
        PROVE  Types'
    <2>1. rec[j] \in Record
      BY <1>17, NamedRecords, Statuses DEF Cancel
    <2>2. [rec[j] EXCEPT !.cancel = TRUE] \in Record
      BY <2>1, Records
    <2> QED
      BY <1>17, <2>2 DEF Cancel
  <1>18. ASSUME NEW j \in Jobs, Expire(j)
        PROVE  Types'
    BY <1>18, FailType, PublishedIs DEF Expire
  <1>19. ASSUME NEW o \in Owners, Close(o)
        PROVE  Types'
    BY <1>19, FailType, PublishedIs DEF Close
  <1>20. ASSUME NEW o \in Owners, Shutdown(o)
        PROVE  Types'
    <2>1. \A j \in Jobs : [mem[j] EXCEPT !.cancel = TRUE] \in Record
      BY Records
    <2> QED
      BY <1>20, <2>1 DEF Shutdown
  <1>21. ASSUME NEW o \in Owners, Crash(o)
        PROVE  Types'
    BY <1>21, NamedRecords DEF Crash
  <1>22. CASE UNCHANGED vars
    BY <1>22 DEF vars
  <1> QED
    BY <1>1, <1>2, <1>3, <1>4, <1>5, <1>6, <1>7, <1>8, <1>9, <1>10, <1>11, <1>12, <1>13, <1>14, <1>15, <1>16, <1>17, <1>18, <1>19, <1>20, <1>21, <1>22
    DEF Next, Start, Publish, Command, Finish

-------------------------------------------------------------------------------
(* One job *)

\* What a step of another job, or of a session, does to job k.
Same(k) ==
  /\ pc'[k] = pc[k] /\ mem'[k].status = mem[k].status /\ mem'[k].clean = mem[k].clean
  /\ save'[k] = save[k] /\ group'[k] = group[k]
  /\ (k \in failing' <=> k \in failing)
  /\ \/ teardown'[k] = teardown[k] /\ why'[k] = why[k]
     \/ teardown[k] = "none" /\ teardown'[k] = "term" /\ pc[k] \in Running
  /\ (Alive(k)' => Alive(k))

SameRecord(k) == rec'[k].status = rec[k].status /\ rec'[k].clean = rec[k].clean /\ (rec[k] = Absent <=> rec'[k] = Absent)

JobOf(k) == RunOf(k) /\ RecordOf(k) /\ TruthOf(k)

\* An outcome in the store stays, or goes with its record; no record is set to active that
\* was not, but a new one.
Keeps(k) ==
  /\ Ended(k) => rec'[k] = Absent \/ (rec'[k].status = rec[k].status /\ rec'[k].clean = rec[k].clean)
  /\ rec'[k].status \in Active => rec[k].status \in Active

\* A step of another job.
LEMMA SameKeeps ==
  ASSUME Types, NEW k \in Jobs, JobOf(k), Same(k), SameRecord(k) \/ (Ended(k) /\ rec'[k] = Absent)
  PROVE  JobOf(k)' /\ Keeps(k)
  <1>1. CASE SameRecord(k)
    BY <1>1, Statuses DEF JobOf, RunOf, RecordOf, TruthOf, Truthful, Ended, Same, SameRecord, Keeps, Running, Before
  <1>2. CASE Ended(k) /\ rec'[k] = Absent
    <2>1. rec'[k].status \notin Active /\ ~Ended(k)'
      BY <1>2, Statuses, NamedRecords DEF Ended
    <2>2. pc[k] \notin {"new", "asked", "reserved", "undo"} \union Running
      BY <1>2, Statuses, NamedRecords DEF JobOf, RecordOf, Ended
    <2> QED
      BY <1>2, <2>1, <2>2 DEF JobOf, RunOf, RecordOf, TruthOf, Truthful, Ended, Same, Keeps, Running, Before
  <1> QED
    BY <1>1, <1>2

\* What follows from a step of job j.
LEMMA Others ==
  ASSUME Types, JobInv, NEW j \in Jobs, JobOf(j)' /\ Keeps(j), \A k \in Jobs \ {j} : Same(k) /\ SameRecord(k)
  PROVE  JobInv' /\ \A k \in Jobs : Keeps(k)
  <1>1. \A k \in Jobs : JobOf(k)' /\ Keeps(k)
    BY SameKeeps DEF JobInv, JobOf
  <1> QED
    BY <1>1 DEF JobInv, JobOf

(* Each step of a job keeps what is said of it and of its record. *)

LEMMA JobCall ==
  ASSUME Types, JobInv, NEW j \in Jobs, Call(j)
  PROVE  JobInv' /\ \A k \in Jobs : Keeps(k)
  <1>1. \A k \in Jobs \ {j} : Same(k) /\ SameRecord(k)
    BY DEF Same, SameRecord, Call, Types, runner, command, Goto, Chain, Alive
  <1>2. JobOf(j)' /\ Keeps(j)
    BY Statuses, NamedRecords DEF JobInv, JobOf, Keeps, RunOf, RecordOf, TruthOf, Truthful, Ended, Running, Before, Call, Types, runner, command, Goto, Chain, Alive
  <1> QED
    BY <1>1, <1>2, Others

LEMMA JobSpawn ==
  ASSUME Types, JobInv, NEW j \in Jobs, Spawn(j)
  PROVE  JobInv' /\ \A k \in Jobs : Keeps(k)
  <1>1. \A k \in Jobs \ {j} : Same(k) /\ SameRecord(k)
    BY DEF Same, SameRecord, Spawn, Types, runner, command, Goto, Chain, Alive
  <1>2. JobOf(j)' /\ Keeps(j)
    <2> USE DEF JobInv, JobOf, Keeps, RunOf, RecordOf, TruthOf, Truthful, Ended, Running, Before, Types, runner, command, Goto, Chain, Alive
    <2>1. pc[j] = "reserved" /\ mem[j] \in Record /\ rec'[j] = rec[j] /\ why'[j] = why[j] /\ failing' = failing
      BY DEF Spawn
    <2>2. CASE pc'[j] = "undo"
      BY <2>1, <2>2, Statuses DEF Spawn
    <2>3. CASE pc'[j] = "ended"
      <3>1. mem'[j] = [mem[j] EXCEPT !.status = "failed", !.clean = TRUE] /\ teardown'[j] = "gone"
            /\ group'[j] = group[j] /\ save'[j] = save[j]
        BY <2>3 DEF Spawn
      <3>2. mem'[j].status = "failed"
        BY <2>1, <3>1
      <3> QED
        BY <2>1, <2>3, <3>1, <3>2, Statuses
    <2>4. CASE pc'[j] = "first"
      <3>1. mem'[j] = [mem[j] EXCEPT !.status = "running"] /\ teardown'[j] = teardown[j]
        BY <2>4 DEF Spawn
      <3>2. mem'[j].status = "running"
        BY <2>1, <3>1
      <3> QED
        BY <2>1, <2>4, <3>1, <3>2, Statuses
    <2> QED
      BY <2>1, <2>2, <2>3, <2>4 DEF Spawn
  <1> QED
    BY <1>1, <1>2, Others

LEMMA JobUndo ==
  ASSUME Types, JobInv, NEW j \in Jobs, Undo(j)
  PROVE  JobInv' /\ \A k \in Jobs : Keeps(k)
  <1>1. \A k \in Jobs \ {j} : Same(k) /\ SameRecord(k)
    BY DEF Same, SameRecord, Undo, Types, runner, command, Goto, Chain, Alive
  <1>2. JobOf(j)' /\ Keeps(j)
    BY Statuses, NamedRecords DEF JobInv, JobOf, Keeps, RunOf, RecordOf, TruthOf, Truthful, Ended, Running, Before, Undo, Types, runner, command, Goto, Chain, Alive
  <1> QED
    BY <1>1, <1>2, Others

LEMMA JobLand ==
  ASSUME Types, JobInv, NEW j \in Jobs, Land(j)
  PROVE  JobInv' /\ \A k \in Jobs : Keeps(k)
  <1>1. \A k \in Jobs \ {j} : Same(k) /\ SameRecord(k)
    BY DEF Same, SameRecord, Land, Types, runner, command, Goto, Chain, Alive
  <1>2. JobOf(j)' /\ Keeps(j)
    <2> USE DEF JobInv, JobOf, Keeps, RunOf, RecordOf, TruthOf, Truthful, Ended, Running, Before, Types, runner, command, Goto, Chain, Alive
    <2>1. save[j] = "wait" /\ pc'[j] = pc[j] /\ UNCHANGED <<failing, group, teardown, why, up>> /\ save'[j] # "wait"
      BY DEF Land
    <2>2. pc[j] \in Running \union {"ended", "final"}
      BY <2>1 DEF Places
    <2>3. CASE rec[j] # Absent /\ rec'[j] = Published(j) /\ mem'[j] = Published(j)
      <3>1. rec'[j].status = mem[j].status /\ rec'[j].clean = mem[j].clean /\ mem'[j].status = mem[j].status /\ mem'[j].clean = mem[j].clean
        BY <2>3, PublishedIs
      <3> HIDE DEF Types
      <3> QED
        BY <2>1, <2>2, <2>3, <3>1, Statuses
    <2>4. CASE rec'[j] = rec[j] /\ mem'[j] = mem[j]
      BY <2>1, <2>2, <2>4
    <2> QED
      BY <2>3, <2>4 DEF Land
  <1> QED
    BY <1>1, <1>2, Others

LEMMA JobDelivered ==
  ASSUME Types, JobInv, NEW j \in Jobs, Delivered(j)
  PROVE  JobInv' /\ \A k \in Jobs : Keeps(k)
  <1>1. \A k \in Jobs \ {j} : Same(k) /\ SameRecord(k)
    BY DEF Same, SameRecord, Delivered, Landed, Terminate, Types, runner, command, Goto, Chain, Alive
  <1>2. JobOf(j)' /\ Keeps(j)
    <2> USE DEF JobInv, JobOf, Keeps, RunOf, RecordOf, TruthOf, Truthful, Ended, Running, Before, Types, runner, command, Goto, Chain, Alive
    <2>1. /\ save[j] \in {"landed", "flagged"} /\ save'[j] = "none" /\ UNCHANGED <<failing, group, rec, up>>
          /\ pc'[j] = CASE pc[j] = "first" -> "run" [] pc[j] = "final" -> "over" [] OTHER -> pc[j]
      BY DEF Delivered
    <2>2. pc[j] \in Running \union {"ended", "final"}
      BY <2>1 DEF Places
    <2>3. CASE mem[j].status \in Ends
      <3>1. UNCHANGED <<mem, teardown, why>>
        BY <2>3 DEF Delivered, Landed
      <3> QED
        BY <2>1, <2>2, <2>3, <3>1, Statuses
    <2>4. CASE mem[j].status \notin Ends
      <3>1. mem'[j].status \in Active
        <4>1. mem[j].status \in Active
          BY <2>4, Records
        <4>2. CASE mem' = mem
          BY <4>1, <4>2
        <4>3. CASE mem' = [mem EXCEPT ![j].status = "canceling"]
          <5>1. mem'[j].status = "canceling"
            BY <4>3
          <5> QED
            BY <5>1, Statuses
        <4> QED
          BY <4>2, <4>3 DEF Delivered, Landed
      <3>2. /\ pc[j] \in Running /\ pc'[j] \in Running /\ rec[j].status \in Active
        BY <2>1, <2>2, <2>4
      <3>3. teardown'[j] = teardown[j] \/ (teardown[j] = "none" /\ teardown'[j] = "term")
        BY DEF Delivered, Landed, Terminate
      <3> HIDE DEF Types
      <3> QED
        BY <2>1, <3>1, <3>2, <3>3, Statuses
    <2> QED
      BY <2>3, <2>4
  <1> QED
    BY <1>1, <1>2, Others

LEMMA JobBroken ==
  ASSUME Types, JobInv, NEW j \in Jobs, Broken(j)
  PROVE  JobInv' /\ \A k \in Jobs : Keeps(k)
  <1>1. \A k \in Jobs \ {j} : Same(k) /\ SameRecord(k)
    BY DEF Same, SameRecord, Broken, Terminate, GivesUp, Types, runner, command, Goto, Chain, Alive
  <1>2. JobOf(j)' /\ Keeps(j)
    BY Statuses, NamedRecords DEF JobInv, JobOf, Keeps, RunOf, RecordOf, TruthOf, Truthful, Ended, Running, Before, Broken, Terminate, GivesUp, Types, runner, command, Goto, Chain, Alive
  <1> QED
    BY <1>1, <1>2, Others

LEMMA JobBeat ==
  ASSUME Types, JobInv, NEW j \in Jobs, Beat(j)
  PROVE  JobInv' /\ \A k \in Jobs : Keeps(k)
  <1>1. \A k \in Jobs \ {j} : Same(k) /\ SameRecord(k)
    BY DEF Same, SameRecord, Beat, Types, runner, command, Goto, Chain, Alive
  <1>2. JobOf(j)' /\ Keeps(j)
    BY Statuses, NamedRecords DEF JobInv, JobOf, Keeps, RunOf, RecordOf, TruthOf, Truthful, Ended, Running, Before, Beat, Types, runner, command, Goto, Chain, Alive
  <1> QED
    BY <1>1, <1>2, Others

LEMMA JobFinal ==
  ASSUME Types, JobInv, NEW j \in Jobs, Final(j)
  PROVE  JobInv' /\ \A k \in Jobs : Keeps(k)
  <1>1. \A k \in Jobs \ {j} : Same(k) /\ SameRecord(k)
    BY DEF Same, SameRecord, Final, Types, runner, command, Goto, Chain, Alive
  <1>2. JobOf(j)' /\ Keeps(j)
    BY Statuses, NamedRecords DEF JobInv, JobOf, Keeps, RunOf, RecordOf, TruthOf, Truthful, Ended, Running, Before, Final, Types, runner, command, Goto, Chain, Alive
  <1> QED
    BY <1>1, <1>2, Others

LEMMA JobLeaderExit ==
  ASSUME Types, JobInv, NEW j \in Jobs, LeaderExit(j)
  PROVE  JobInv' /\ \A k \in Jobs : Keeps(k)
  <1>1. \A k \in Jobs \ {j} : Same(k) /\ SameRecord(k)
    BY DEF Same, SameRecord, LeaderExit, Types, runner, command, Goto, Chain, Alive
  <1>2. JobOf(j)' /\ Keeps(j)
    BY Statuses, NamedRecords DEF JobInv, JobOf, Keeps, RunOf, RecordOf, TruthOf, Truthful, Ended, Running, Before, LeaderExit, Types, runner, command, Goto, Chain, Alive
  <1> QED
    BY <1>1, <1>2, Others

LEMMA JobChildExit ==
  ASSUME Types, JobInv, NEW j \in Jobs, ChildExit(j)
  PROVE  JobInv' /\ \A k \in Jobs : Keeps(k)
  <1>1. \A k \in Jobs \ {j} : Same(k) /\ SameRecord(k)
    BY DEF Same, SameRecord, ChildExit, Types, runner, command, Goto, Chain, Alive
  <1>2. JobOf(j)' /\ Keeps(j)
    BY Statuses, NamedRecords DEF JobInv, JobOf, Keeps, RunOf, RecordOf, TruthOf, Truthful, Ended, Running, Before, ChildExit, Types, runner, command, Goto, Chain, Alive
  <1> QED
    BY <1>1, <1>2, Others

LEMMA JobTimeout ==
  ASSUME Types, JobInv, NEW j \in Jobs, Timeout(j)
  PROVE  JobInv' /\ \A k \in Jobs : Keeps(k)
  <1>1. \A k \in Jobs \ {j} : Same(k) /\ SameRecord(k)
    BY DEF Same, SameRecord, Timeout, Terminate, Types, runner, command, Goto, Chain, Alive
  <1>2. JobOf(j)' /\ Keeps(j)
    BY Statuses, NamedRecords DEF JobInv, JobOf, Keeps, RunOf, RecordOf, TruthOf, Truthful, Ended, Running, Before, Timeout, Terminate, Types, runner, command, Goto, Chain, Alive
  <1> QED
    BY <1>1, <1>2, Others

LEMMA JobLogFails ==
  ASSUME Types, JobInv, NEW j \in Jobs, LogFails(j)
  PROVE  JobInv' /\ \A k \in Jobs : Keeps(k)
  <1>1. \A k \in Jobs \ {j} : Same(k) /\ SameRecord(k)
    BY DEF Same, SameRecord, LogFails, Terminate, Types, runner, command, Goto, Chain, Alive
  <1>2. JobOf(j)' /\ Keeps(j)
    BY Statuses, NamedRecords DEF JobInv, JobOf, Keeps, RunOf, RecordOf, TruthOf, Truthful, Ended, Running, Before, LogFails, Terminate, Types, runner, command, Goto, Chain, Alive
  <1> QED
    BY <1>1, <1>2, Others

LEMMA JobEscalate ==
  ASSUME Types, JobInv, NEW j \in Jobs, Escalate(j)
  PROVE  JobInv' /\ \A k \in Jobs : Keeps(k)
  <1>1. \A k \in Jobs \ {j} : Same(k) /\ SameRecord(k)
    BY DEF Same, SameRecord, Escalate, Types, runner, command, Goto, Chain, Alive
  <1>2. JobOf(j)' /\ Keeps(j)
    BY Statuses, NamedRecords DEF JobInv, JobOf, Keeps, RunOf, RecordOf, TruthOf, Truthful, Ended, Running, Before, Escalate, Types, runner, command, Goto, Chain, Alive
  <1> QED
    BY <1>1, <1>2, Others

LEMMA JobSettle ==
  ASSUME Types, JobInv, NEW j \in Jobs, Settle(j)
  PROVE  JobInv' /\ \A k \in Jobs : Keeps(k)
  <1>1. \A k \in Jobs \ {j} : Same(k) /\ SameRecord(k)
    BY DEF Same, SameRecord, Settle, Types, runner, command, Goto, Chain, Alive
  <1>2. JobOf(j)' /\ Keeps(j)
    BY Statuses, NamedRecords DEF JobInv, JobOf, Keeps, RunOf, RecordOf, TruthOf, Truthful, Ended, Running, Before, Settle, Types, runner, command, Goto, Chain, Alive
  <1> QED
    BY <1>1, <1>2, Others

LEMMA JobComplete ==
  ASSUME Types, JobInv, NEW j \in Jobs, Complete(j)
  PROVE  JobInv' /\ \A k \in Jobs : Keeps(k)
  <1>1. \A k \in Jobs \ {j} : Same(k) /\ SameRecord(k)
    BY DEF Same, SameRecord, Complete, Outcomes, Types, runner, command, Goto, Chain, Alive
  <1>2. JobOf(j)' /\ Keeps(j)
    <2> USE DEF JobInv, JobOf, Keeps, RunOf, RecordOf, TruthOf, Truthful, Ended, Running, Before, Types, runner, command, Goto, Chain, Alive
    <2>1. /\ pc[j] \in {"run", "catch"} /\ pc'[j] = "ended" /\ teardown[j] \in {"gone", "left"}
          /\ UNCHANGED <<failing, group, rec, up, save, teardown, why>>
      BY DEF Complete
    <2>2. PICK end \in Outcomes(j) :
            mem' = [mem EXCEPT ![j].status = end, ![j].clean = pc[j] = "run" /\ teardown[j] = "gone"]
      BY DEF Complete
    <2>3. mem'[j].status = end /\ (mem'[j].clean => teardown[j] = "gone")
      <3>1. mem[j] \in Record /\ mem'[j] = [mem[j] EXCEPT !.status = end, !.clean = (pc[j] = "run" /\ teardown[j] = "gone")]
        BY <2>2
      <3> QED
        BY <3>1 DEF Record
    <2>4. end \in Ends /\ (end = "succeeded" => why[j] = "none" /\ j \notin failing)
      BY Statuses DEF Outcomes
    <2> HIDE DEF Types
    <2> QED
      BY <2>1, <2>3, <2>4, Statuses
  <1> QED
    BY <1>1, <1>2, Others

LEMMA JobCancel ==
  ASSUME Types, JobInv, NEW j \in Jobs, Cancel(j)
  PROVE  JobInv' /\ \A k \in Jobs : Keeps(k)
  <1>1. \A k \in Jobs \ {j} : Same(k) /\ SameRecord(k)
    BY DEF Same, SameRecord, Cancel, Types, runner, command, Goto, Chain, Alive
  <1>2. JobOf(j)' /\ Keeps(j)
    BY Statuses, NamedRecords DEF JobInv, JobOf, Keeps, RunOf, RecordOf, TruthOf, Truthful, Ended, Running, Before, Cancel, Types, runner, command, Goto, Chain, Alive
  <1> QED
    BY <1>1, <1>2, Others

LEMMA JobExpire ==
  ASSUME Types, JobInv, NEW j \in Jobs, Expire(j)
  PROVE  JobInv' /\ \A k \in Jobs : Keeps(k)
  <1>1. \A k \in Jobs \ {j} : Same(k) /\ SameRecord(k)
    BY DEF Same, SameRecord, Expire, Types, runner, command, Goto, Chain, Alive
  <1>2. JobOf(j)' /\ Keeps(j)
    BY Statuses, NamedRecords DEF JobInv, JobOf, Keeps, RunOf, RecordOf, TruthOf, Truthful, Ended, Running, Before, Expire, Types, runner, command, Goto, Chain, Alive
  <1> QED
    BY <1>1, <1>2, Others

\* A start call takes a slot that is free.
LEMMA JobReserve ==
  ASSUME Types, JobInv, NEW j \in Jobs, Reserve(j)
  PROVE  JobInv' /\ (\A k \in Jobs \ {j} : Keeps(k)) /\ ~Ended(j) /\ (rec'[j].status \in Active => Room)
  <1>1. pc[j] = "asked" /\ rec[j] = Absent /\ ~Ended(j)
    BY Statuses, NamedRecords DEF Reserve, JobInv, RecordOf, Ended
  <1>2. \A k \in Jobs \ {j} : Same(k) /\ (SameRecord(k) \/ (Ended(k) /\ rec'[k] = Absent))
    <2>1. \A k \in Jobs \ {j} : Same(k)
      BY DEF Same, Reserve, Types, command, Goto, Alive
    <2>2. \A k \in Jobs \ {j} : rec'[k] = rec[k] \/ (Ended(k) /\ rec'[k] = Absent)
      <3>1. CASE UNCHANGED rec
        BY <3>1
      <3>2. CASE \E old \in Evictions :
                   rec' = [k \in Jobs |-> IF k = j THEN New ELSE IF k \in old THEN Absent ELSE rec[k]]
        BY <3>2 DEF Evictions
      <3> QED
        BY <3>1, <3>2 DEF Reserve
    <2> QED
      BY <2>1, <2>2 DEF SameRecord
  <1>3. \A k \in Jobs \ {j} : JobOf(k)' /\ Keeps(k)
    BY <1>2, SameKeeps DEF JobInv, JobOf
  <1>4. \/ rec'[j] = New /\ pc'[j] \in {"reserved", "over"} /\ Room
        \/ rec'[j] = Absent /\ pc'[j] = "over"
    BY <1>1 DEF Reserve, Goto, Types
  <1>5. JobOf(j)'
    BY <1>1, <1>4, Statuses, NamedRecords
    DEF JobInv, JobOf, RunOf, RecordOf, TruthOf, Truthful, Ended, Running, Before, Reserve, Types, command, Goto, Alive
  <1> QED
    BY <1>1, <1>3, <1>4, <1>5, Statuses, NamedRecords DEF JobInv, JobOf

\* The end of an owner.
LEMMA JobOwner ==
  ASSUME Types, JobInv, NEW o \in Owners, Close(o) \/ Shutdown(o) \/ Crash(o)
  PROVE  JobInv' /\ \A k \in Jobs : Keeps(k)
  <1>1. ASSUME NEW k \in Jobs
        PROVE  JobOf(k)' /\ Keeps(k)
    <2>1. JobOf(k) /\ rec' = rec
      BY DEF JobInv, JobOf, Close, Shutdown, Crash
    <2>2. CASE Close(o)
      BY <2>1, <2>2, SameKeeps DEF Same, SameRecord, Close, runner, command, Alive
    <2>3. CASE Shutdown(o)
      <3>1. mem'[k].status = mem[k].status /\ mem'[k].clean = mem[k].clean
        BY <2>3, Records DEF Shutdown, Types
      <3>2. \/ teardown'[k] = teardown[k] /\ why'[k] = why[k]
            \/ teardown[k] = "none" /\ teardown'[k] = "term" /\ pc[k] \in Running
        BY <2>1, <2>3 DEF Shutdown, Live, JobOf, RunOf, Running, Types
      <3> QED
        BY <2>1, <2>3, <3>1, <3>2, SameKeeps DEF Same, SameRecord, Shutdown, Alive
    <2>4. CASE Crash(o)
      <3>1. CASE OwnerOf[k] # o
        BY <2>1, <2>4, <3>1, SameKeeps DEF Same, SameRecord, Crash, Types, command, Alive
      <3>2. CASE OwnerOf[k] = o
        BY <2>1, <2>4, <3>2, Statuses, NamedRecords
        DEF JobOf, RunOf, RecordOf, TruthOf, Truthful, Ended, Running, Before, Keeps, Crash, Types, command, Alive
      <3> QED
        BY <3>1, <3>2
    <2> QED
      BY <2>2, <2>3, <2>4
  <1> QED
    BY <1>1 DEF JobInv, JobOf

-------------------------------------------------------------------------------
(* The slots *)

LEMMA SlotsFinite == IsFiniteSet(Slots) /\ Cardinality(Slots) \in Nat
  <1>1. IsFiniteSet(Jobs) /\ Slots \in SUBSET Jobs
    BY CommandAssumption DEF Slots
  <1> QED
    BY <1>1, FS_Subset, FS_CardinalityType

\* Room counts the slots, whether or not their leases ran out.
LEMMA RoomIsSlots ==
  ASSUME Room PROVE Cardinality(Slots) < MaxActive
  <1> DEFINE good == {j \in Stored : rec[j].status \in Active /\ ~Lost(j)}
  <1>1. good \in SUBSET Jobs /\ LostAlive \in SUBSET Jobs /\ IsFiniteSet(Jobs)
    BY CommandAssumption DEF LostAlive, Stored
  <1>2. IsFiniteSet(good) /\ IsFiniteSet(LostAlive)
    BY <1>1, FS_Subset
  <1>3. good \intersect LostAlive = {}
    BY DEF LostAlive
  <1>4. Slots = good \union LostAlive
    BY Statuses, NamedRecords DEF Slots, LostAlive, Lost, Stored
  <1>5. Cardinality(good \intersect LostAlive) = 0
    BY <1>3, FS_EmptySet
  <1>6. Cardinality(Slots) = Cardinality(good) + Cardinality(LostAlive)
    <2>1. Cardinality(good) \in Nat /\ Cardinality(LostAlive) \in Nat
      BY <1>2, FS_CardinalityType
    <2>2. Cardinality(good \union LostAlive) =
            Cardinality(good) + Cardinality(LostAlive) - Cardinality(good \intersect LostAlive)
      BY <1>2, FS_Union
    <2> HIDE DEF good
    <2> QED
      BY <1>4, <1>5, <2>1, <2>2
  <1> QED
    BY <1>6 DEF Room

\* Owners that died do not come back.
LEMMA OwnersDie ==
  ASSUME Types, [Next]_vars
  PROVE  \A k \in Jobs : Alive(k)' => Alive(k)
  <1>1. up' = up \/ \E o \in Owners : Crash(o)
    BY DEF Next, Start, Publish, Command, Finish, vars, Call, Reserve, Spawn, Undo, Land, Delivered, Broken, Beat, Final,
       LeaderExit, ChildExit, Timeout, LogFails, Escalate, Settle, Complete, Cancel, Expire, Close, Shutdown
  <1>2. \A k \in Jobs : OwnerOf[k] \in Owners
    BY CommandAssumption
  <1>3. ASSUME NEW o \in Owners, Crash(o) PROVE \A p \in Owners : up'[p] => up[p]
    BY <1>3 DEF Crash, Types
  <1>4. CASE up' = up
    BY <1>4 DEF Alive
  <1> QED
    BY <1>1, <1>2, <1>3, <1>4 DEF Alive

\* Every step keeps what is said of the jobs, and every outcome in the store, and sets a
\* record to active only when it takes a free slot.
LEMMA StoreStep ==
  ASSUME Types, JobInv, [Next]_vars
  PROVE  /\ JobInv'
         /\ \A k \in Jobs : Ended(k) => rec'[k] = Absent \/ (rec'[k].status = rec[k].status /\ rec'[k].clean = rec[k].clean)
         /\ \/ \A k \in Jobs : rec'[k].status \in Active => rec[k].status \in Active
            \/ Room /\ \E j \in Jobs : \A k \in Jobs \ {j} : rec'[k].status \in Active => rec[k].status \in Active
  <1>1. ASSUME NEW j \in Jobs, Start(j) /\ ~Reserve(j)
        PROVE  JobInv' /\ \A k \in Jobs : Keeps(k)
    BY <1>1, JobCall, JobSpawn, JobUndo DEF Start
  <1>2. ASSUME NEW j \in Jobs, Publish(j)
        PROVE  JobInv' /\ \A k \in Jobs : Keeps(k)
    BY <1>2, JobLand, JobDelivered, JobBroken, JobBeat, JobFinal DEF Publish
  <1>3. ASSUME NEW j \in Jobs, Command(j)
        PROVE  JobInv' /\ \A k \in Jobs : Keeps(k)
    BY <1>3, JobLeaderExit, JobChildExit, JobTimeout, JobLogFails DEF Command
  <1>4. ASSUME NEW j \in Jobs, Finish(j) \/ Cancel(j) \/ Expire(j)
        PROVE  JobInv' /\ \A k \in Jobs : Keeps(k)
    BY <1>4, JobEscalate, JobSettle, JobComplete, JobCancel, JobExpire DEF Finish
  <1>5. CASE UNCHANGED vars
    <2>1. \A k \in Jobs : JobOf(k)' /\ Keeps(k)
      BY <1>5, SameKeeps DEF JobInv, JobOf, Same, SameRecord, vars, runner, command, Alive
    <2> QED
      BY <2>1 DEF JobInv, JobOf, Keeps
  <1>6. CASE \E j \in Jobs : Reserve(j)
    <2>1. PICK j \in Jobs : Reserve(j)
      BY <1>6
    <2>2. JobInv' /\ (\A k \in Jobs \ {j} : Keeps(k)) /\ ~Ended(j) /\ (rec'[j].status \in Active => Room)
      BY <2>1, JobReserve
    <2> QED
      BY <2>2 DEF Keeps
  <1>7. CASE JobInv' /\ \A k \in Jobs : Keeps(k)
    BY <1>7 DEF Keeps
  <1> QED
    BY <1>1, <1>2, <1>3, <1>4, <1>5, <1>6, <1>7, JobOwner DEF Next, Start

\* RunnerInv is inductive.
LEMMA RunnerInit == Init => RunnerInv
  <1> SUFFICES ASSUME Init PROVE RunnerInv
    OBVIOUS
  <1>1. Types
    BY NamedRecords, CommandAssumption DEF Init, Types, Places
  <1>2. JobInv
    BY NamedRecords, Statuses
    DEF Init, JobInv, RunOf, RecordOf, TruthOf, Truthful, Ended, Running, Before, Done, Absent, New
  <1>3. Slots = {}
    BY NamedRecords, Statuses DEF Init, Slots
  <1>4. Cardinality(Slots) <= MaxActive
    BY <1>3, FS_EmptySet, CommandAssumption
  <1> QED
    BY <1>1, <1>2, <1>4 DEF RunnerInv

LEMMA RunnerKept == RunnerInv /\ [Next]_vars => RunnerInv'
  <1> SUFFICES ASSUME RunnerInv, [Next]_vars
               PROVE  RunnerInv'
    OBVIOUS
  <1>1. Types /\ JobInv /\ Cardinality(Slots) <= MaxActive
    BY DEF RunnerInv
  <1>2. Types' /\ JobInv'
    BY <1>1, TypesKept, StoreStep
  <1>3. Cardinality(Slots') <= MaxActive
    <2>1. CASE \A k \in Jobs : rec'[k].status \in Active => rec[k].status \in Active
      <3>1. Slots' \in SUBSET Slots
        BY <1>1, <2>1, OwnersDie DEF Slots
      <3>2. Cardinality(Slots') <= Cardinality(Slots) /\ Cardinality(Slots') \in Nat
        BY <3>1, SlotsFinite, FS_Subset, FS_CardinalityType
      <3> QED
        BY <1>1, <3>2, SlotsFinite, CommandAssumption
    <2>2. CASE Room /\ \E j \in Jobs : \A k \in Jobs \ {j} : rec'[k].status \in Active => rec[k].status \in Active
      <3>1. PICK j \in Jobs : \A k \in Jobs \ {j} : rec'[k].status \in Active => rec[k].status \in Active
        BY <2>2
      <3>2. Slots' \in SUBSET (Slots \union {j})
        BY <1>1, <3>1, OwnersDie DEF Slots
      <3>3. IsFiniteSet(Slots \union {j}) /\ Cardinality(Slots \union {j}) <= Cardinality(Slots) + 1
        BY SlotsFinite, FS_AddElement
      <3>4. Cardinality(Slots') <= Cardinality(Slots \union {j}) /\ Cardinality(Slots') \in Nat
            /\ Cardinality(Slots \union {j}) \in Nat
        BY <3>2, <3>3, FS_Subset, FS_CardinalityType
      <3>5. Cardinality(Slots) < MaxActive
        BY <2>2, RoomIsSlots
      <3> QED
        BY <3>3, <3>4, <3>5, SlotsFinite, CommandAssumption
    <2> QED
      BY <1>1, <2>1, <2>2, StoreStep
  <1> QED
    BY <1>2, <1>3 DEF RunnerInv

-------------------------------------------------------------------------------
(* Theorems *)

\* reserve and the README's "Maximum 8 active commands": the commands of living owners,
\* but those a teardown gave up on, never exceed the limit, for any owners and jobs.
THEOREM CommandCapacity == Spec => []CapacityHolds
  <1>1. RunnerInv => CapacityHolds
    <2> SUFFICES ASSUME RunnerInv PROVE CapacityHolds
      OBVIOUS
    <2> DEFINE alive == {j \in Jobs : group[j] # {} /\ Alive(j) /\ teardown[j] # "left"}
    <2>1. alive \in SUBSET Slots
      BY DEF RunnerInv, JobInv, RunOf, RecordOf, Slots
    <2>2. Cardinality(alive) <= Cardinality(Slots) /\ Cardinality(alive) \in Nat
      BY <2>1, SlotsFinite, FS_Subset, FS_CardinalityType
    <2> HIDE DEF alive
    <2>3. Cardinality(alive) <= MaxActive
      BY <2>2, SlotsFinite, CommandAssumption DEF RunnerInv
    <2> QED
      BY <2>3 DEF alive, CapacityHolds
  <1> QED
    BY RunnerInit, RunnerKept, <1>1, PTL DEF Spec

\* What the store says of an ended command is so.
THEOREM CommandTruth == Spec => []EndTruthful
  <1>1. RunnerInv => EndTruthful
    BY DEF RunnerInv, JobInv, TruthOf, Truthful, EndTruthful
  <1> QED
    BY RunnerInit, RunnerKept, <1>1, PTL DEF Spec

\* COMMAND_TERMINAL: an outcome in the store is never replaced by another.
THEOREM CommandEndIsFinal == Spec => EndIsFinal
  <1>1. RunnerInv /\ [Next]_vars =>
          [\A j \in Jobs : Ended(j) =>
             rec'[j] = Absent \/ (rec'[j].status = rec[j].status /\ rec'[j].clean = rec[j].clean)]_vars
    BY StoreStep DEF RunnerInv
  <1> QED
    BY RunnerInit, RunnerKept, <1>1, PTL DEF Spec, EndIsFinal
==============================================================================
