----------------------------- MODULE CommandJobs -----------------------------
(***************************************************************************)
(* Managed commands: command-job-runner.ts over the records of             *)
(* command-job-store.ts and the process trees of managed-process.ts.       *)
(*                                                                         *)
(* An owner is a Pi process with its runner.  A start call reserves a      *)
(* record under the store's lock, spawns the command, and publishes the    *)
(* record it holds in memory: once, then with every heartbeat, then at the *)
(* end.  Publications of one job form a chain; each waits for the lock     *)
(* ("wait"), lands, and then returns to the runner.  Any session of the    *)
(* project may set the cancel flag in the stored record; the owner finds   *)
(* it when its next publication lands, which must not lose it.             *)
(*                                                                         *)
(* A record whose owner is dead, or whose lease ran out because the owner  *)
(* stalled or could not write, reads as lost although the command may run. *)
(*                                                                         *)
(* The command is a process group: a leader and perhaps a child that       *)
(* outlives it.  The teardown signals the group twice and settles for what *)
(* is left.  Descendants that leave the group, readiness probes and the    *)
(* contents of logs are left out; which ended records go first is open.    *)
(***************************************************************************)
EXTENDS Naturals, FiniteSets

CONSTANTS Owners,
          Jobs,
          OwnerOf,      \* the process that starts the job
          Earlier,      \* jobs that ended before, and whose records are still there
          MaxActive,    \* records that count against the capacity
          MaxRecords,
          Forking,      \* jobs whose leader may have a child
          Cancelled,    \* jobs some session may ask to cancel
          Closing,      \* owners that may shut down
          Crashing,     \* owners that may be killed
          Timed,        \* jobs whose timeout may come before their end
          Fallible,     \* jobs whose setup, log or writes may fail
          MaxFailures   \* how often

ASSUME CommandAssumption ==
  /\ IsFiniteSet(Jobs)
  /\ OwnerOf \in [Jobs -> Owners]
  /\ MaxActive \in Nat /\ MaxRecords \in Nat /\ MaxFailures \in Nat
  /\ Earlier \union Forking \union Timed \union Fallible \union Cancelled \subseteq Jobs
  /\ Closing \subseteq Owners /\ Crashing \subseteq Owners

VARIABLES
  up, closing,            \* owners: alive; "no", "asked" or "killed" of their shutdown
  rec, stale,             \* stored records; those whose lease ran out
  pc, mem, failing,       \* the runner: where each job is, its record, jobs that failed
  save,                   \* the chain: "none", "wait", "landed", "flagged" (landed
                          \* with the cancel flag), "broken", "dead" (after it broke)
  group, teardown, why,   \* the command: living members, teardown and its reason
  failures

runner == <<pc, mem, failing, save>>
command == <<group, teardown, why>>
vars == <<up, closing, rec, stale, runner, command, failures>>

-------------------------------------------------------------------------------
(* Records *)

Ends == {"succeeded", "failed", "canceled", "timed_out"}
Active == {"starting", "running", "canceling"}
Absent == [status |-> "absent", cancel |-> FALSE, clean |-> FALSE]
New == [status |-> "starting", cancel |-> FALSE, clean |-> FALSE]
Done == [status |-> "succeeded", cancel |-> FALSE, clean |-> TRUE]
Record == [status : Active \union Ends, cancel : BOOLEAN, clean : BOOLEAN]

Stored == {j \in Jobs : rec[j] # Absent}
Ended(j) == rec[j].status \in Ends
Alive(j) == up[OwnerOf[j]]
\* What read makes of a record, without writing it.
Lost(j) == rec[j].status \in Active /\ (~Alive(j) \/ j \in stale)

TypeOK ==
  /\ up \in [Owners -> BOOLEAN] /\ closing \in [Owners -> {"no", "asked", "killed"}]
  /\ rec \in [Jobs -> Record \union {Absent}] /\ stale \subseteq Stored
  /\ mem \in [Jobs -> Record] /\ failing \subseteq Jobs
  /\ pc \in [Jobs -> {"new", "asked", "reserved", "undo", "first", "run", "catch",
                      "ended", "final", "over"}]
  /\ save \in [Jobs -> {"none", "wait", "landed", "flagged", "broken", "dead"}]
  /\ group \in [Jobs -> SUBSET {"leader", "child"}]
  /\ teardown \in [Jobs -> {"none", "term", "kill", "gone", "left"}]
  /\ why \in [Jobs -> {"none", "aborted", "timeout", "output_limit"}]
  /\ \A j \in Jobs :
       /\ pc[j] \in {"new", "asked", "reserved", "undo"} => group[j] = {} /\ save[j] = "none"
       /\ pc[j] \in {"first", "final"} => save[j] # "none"
       /\ pc[j] = "catch" => teardown[j] # "none"
       /\ pc[j] \in {"ended", "final"} => mem[j].status \in Ends
  /\ failures \in 0..MaxFailures

Init ==
  /\ up = [o \in Owners |-> TRUE] /\ closing = [o \in Owners |-> "no"]
  /\ rec = [j \in Jobs |-> IF j \in Earlier THEN Done ELSE Absent] /\ stale = {}
  /\ pc = [j \in Jobs |-> IF j \in Earlier THEN "over" ELSE "new"]
  /\ mem = [j \in Jobs |-> New] /\ failing = {}
  /\ save = [j \in Jobs |-> "none"]
  /\ group = [j \in Jobs |-> {}] /\ teardown = [j \in Jobs |-> "none"]
  /\ why = [j \in Jobs |-> "none"]
  /\ failures = 0

Fail(j) == j \in Fallible /\ failures < MaxFailures /\ failures' = failures + 1
Goto(j, p) == pc' = [pc EXCEPT ![j] = p]
Chain(j, s) == save' = [save EXCEPT ![j] = s]

-------------------------------------------------------------------------------
(* The start call *)

Call(j) ==
  /\ pc[j] = "new" /\ Alive(j) /\ closing[OwnerOf[j]] = "no"
  /\ Goto(j, "asked")
  /\ UNCHANGED <<up, closing, rec, stale, mem, failing, save, command, failures>>

\* Records that are lost although their owner lives.
LostAlive == {j \in Stored : Lost(j) /\ Alive(j)}

\* Mutant of Room: the slots of lost records are given away.
RoomLost == Cardinality({j \in Stored : rec[j].status \in Active /\ ~Lost(j)}) < MaxActive

\* The capacity, in which lost records of living owners keep their slots.
Room == Cardinality({j \in Stored : rec[j].status \in Active /\ ~Lost(j)})
          + Cardinality(LostAlive) < MaxActive

\* Ended records are dropped until there is room for the new one.
Evictions == {old \in SUBSET {j \in Stored : Ended(j)} :
                /\ Cardinality(Stored \ old) < MaxRecords
                /\ \A fewer \in SUBSET old : Cardinality(Stored \ fewer) < MaxRecords => fewer = old}

\* reserve, under the lock.
Reserve(j) ==
  /\ pc[j] = "asked"
  /\ \/ /\ Room
        /\ \E old \in Evictions :
             rec' = [k \in Jobs |-> IF k = j THEN New ELSE IF k \in old THEN Absent ELSE rec[k]]
        /\ \/ Goto(j, "reserved") /\ UNCHANGED failures
           \/ Goto(j, "over") /\ Fail(j)            \* the lock is not released cleanly
     \/ /\ ~Room \/ Evictions = {}
        /\ Goto(j, "over")
        /\ UNCHANGED <<rec, failures>>
  /\ UNCHANGED <<up, closing, stale, mem, failing, save, command>>

\* The call goes on: it was aborted, or the runner is closing; the setup fails; or the
\* command starts.
Spawn(j) ==
  /\ pc[j] = "reserved"
  /\ \/ /\ Goto(j, "undo")
        /\ UNCHANGED <<mem, save, group, teardown, failures>>
     \/ /\ closing[OwnerOf[j]] = "no" /\ Fail(j)
        /\ mem' = [mem EXCEPT ![j].status = "failed", ![j].clean = TRUE]
        /\ teardown' = [teardown EXCEPT ![j] = "gone"]
        /\ Goto(j, "ended")
        /\ UNCHANGED <<save, group>>
     \/ /\ closing[OwnerOf[j]] = "no"
        /\ \E child \in SUBSET {"child"} :
             /\ child # {} => j \in Forking
             /\ group' = [group EXCEPT ![j] = {"leader"} \union child]
        /\ mem' = [mem EXCEPT ![j].status = "running"]
        /\ Goto(j, "first") /\ Chain(j, "wait")
        /\ UNCHANGED <<teardown, failures>>
  /\ UNCHANGED <<up, closing, rec, stale, failing, why>>

\* "Canceled before spawning"
Undo(j) ==
  /\ pc[j] = "undo"
  /\ \/ rec' = [rec EXCEPT ![j] = [status |-> "canceled", cancel |-> FALSE, clean |-> TRUE]]
        /\ UNCHANGED failures
     \/ Fail(j) /\ UNCHANGED rec
  /\ stale' = IF rec' = rec THEN stale ELSE stale \ {j}
  /\ Goto(j, "over")
  /\ UNCHANGED <<up, closing, mem, failing, save, command>>

-------------------------------------------------------------------------------
(* Publications *)

\* Mutant of Published: the publication overwrites the stored record.
PublishedOver(j) == mem[j]

\* The record that update stores: the runner's, with the stored cancel flag.
Published(j) == [mem[j] EXCEPT !.cancel = @ \/ rec[j].cancel]

\* A publication lands, or fails with or without having been stored.
Land(j) ==
  /\ save[j] = "wait"
  /\ \/ /\ rec[j] # Absent
        /\ rec' = [rec EXCEPT ![j] = Published(j)] /\ mem' = [mem EXCEPT ![j] = Published(j)]
        /\ stale' = stale \ {j}
        /\ \/ Chain(j, IF Published(j).cancel THEN "flagged" ELSE "landed") /\ UNCHANGED failures
           \/ Chain(j, "broken") /\ Fail(j)
     \/ /\ Chain(j, "broken")
        /\ IF rec[j] = Absent THEN UNCHANGED failures ELSE Fail(j)
        /\ UNCHANGED <<rec, mem, stale>>
  /\ UNCHANGED <<up, closing, pc, failing, command>>

\* requestTermination
Terminate(j, reason) ==
  IF teardown[j] = "none"
  THEN teardown' = [teardown EXCEPT ![j] = "term"] /\ why' = [why EXCEPT ![j] = reason]
  ELSE UNCHANGED <<teardown, why>>

\* Mutant of Landed: an ended job is set to canceling too.
LandedAlways(j) ==
  IF save[j] = "flagged"
  THEN mem' = [mem EXCEPT ![j].status = "canceling"] /\ Terminate(j, "aborted")
  ELSE UNCHANGED <<mem, teardown, why>>

\* save goes on after its write.
Landed(j) ==
  IF save[j] = "flagged" /\ mem[j].status \notin Ends
  THEN mem' = [mem EXCEPT ![j].status = "canceling"] /\ Terminate(j, "aborted")
  ELSE UNCHANGED <<mem, teardown, why>>

\* Who waits for the publication goes on: the first one, the heartbeat's and the last one.
Delivered(j) ==
  /\ save[j] \in {"landed", "flagged"}
  /\ Landed(j)
  /\ Chain(j, "none")
  /\ pc' = [pc EXCEPT ![j] = CASE @ = "first" -> "run" [] @ = "final" -> "over" [] OTHER -> @]
  /\ UNCHANGED <<up, closing, rec, stale, failing, group, failures>>

\* Whether a failed publication ends the command: the first one, in the catch clause, and
\* a heartbeat's.
GivesUp(j) == pc[j] \in {"first", "run"}

\* A failed first publication leads to the catch clause, a failed heartbeat ends the
\* command, a failed last publication leaves the record to its lease.
Broken(j) ==
  /\ save[j] = "broken"
  /\ pc' = [pc EXCEPT ![j] = CASE @ = "first" -> "catch" [] @ = "final" -> "over" [] OTHER -> @]
  /\ failing' = IF pc[j] = "run" THEN failing \union {j} ELSE failing
  /\ IF GivesUp(j) THEN Terminate(j, "aborted") ELSE UNCHANGED <<teardown, why>>
  /\ Chain(j, IF pc[j] = "run" THEN "dead" ELSE "none")
  /\ UNCHANGED <<up, closing, rec, stale, mem, group, failures>>

\* The heartbeat of 500 ms; on a dead chain it does nothing.
Beat(j) ==
  /\ pc[j] = "run" /\ save[j] = "none"
  /\ Chain(j, "wait")
  /\ UNCHANGED <<up, closing, rec, stale, pc, mem, failing, command, failures>>

-------------------------------------------------------------------------------
(* The command and its teardown *)

LeaderExit(j) ==
  /\ "leader" \in group[j]
  /\ group' = [group EXCEPT ![j] = @ \ {"leader"}]
  /\ teardown' = [teardown EXCEPT ![j] = IF @ = "none" THEN "term" ELSE @]   \* cleanupOnExit
  /\ UNCHANGED <<up, closing, rec, stale, runner, why, failures>>

ChildExit(j) ==
  /\ "child" \in group[j]
  /\ group' = [group EXCEPT ![j] = @ \ {"child"}]
  /\ UNCHANGED <<up, closing, rec, stale, runner, teardown, why, failures>>

Timeout(j) ==
  /\ j \in Timed /\ Alive(j) /\ group[j] # {} /\ teardown[j] = "none"
  /\ Terminate(j, "timeout")
  /\ UNCHANGED <<up, closing, rec, stale, runner, group, failures>>

\* The log cannot be written.
LogFails(j) ==
  /\ pc[j] \in {"first", "run"} /\ teardown[j] \notin {"gone", "left"}
  /\ j \notin failing /\ Fail(j)
  /\ failing' = failing \union {j}
  /\ Terminate(j, "output_limit")
  /\ UNCHANGED <<up, closing, rec, stale, pc, mem, save, group>>

\* The teardown polls: it is over when the group is gone, signals again after the grace
\* period, and gives up after a second one.
Escalate(j) ==
  /\ teardown[j] = "term" /\ Alive(j)
  /\ teardown' = [teardown EXCEPT ![j] = "kill"]
  /\ UNCHANGED <<up, closing, rec, stale, runner, group, why, failures>>

\* Mutant of Settle: the teardown is over when the leader is gone.
SettleLeader(j) ==
  /\ teardown[j] \in {"term", "kill"} /\ Alive(j)
  /\ "leader" \notin group[j] \/ teardown[j] = "kill"
  /\ teardown' = [teardown EXCEPT ![j] = IF "leader" \notin group[j] THEN "gone" ELSE "left"]
  /\ UNCHANGED <<up, closing, rec, stale, runner, group, why, failures>>

Settle(j) ==
  /\ teardown[j] \in {"term", "kill"} /\ Alive(j)
  /\ group[j] = {} \/ teardown[j] = "kill"
  /\ teardown' = [teardown EXCEPT ![j] = IF group[j] = {} THEN "gone" ELSE "left"]
  /\ UNCHANGED <<up, closing, rec, stale, runner, group, why, failures>>

\* execute goes on: what became of the command.
Outcomes(j) ==
  IF pc[j] = "catch" \/ j \in failing \/ why[j] = "output_limit" THEN {"failed"}
  ELSE IF why[j] = "timeout" THEN {"timed_out"}
  ELSE IF why[j] = "aborted" THEN {"canceled"}
  ELSE {"succeeded", "failed"}

Complete(j) ==
  /\ pc[j] \in {"run", "catch"} /\ teardown[j] \in {"gone", "left"}
  /\ \E end \in Outcomes(j) :
       mem' = [mem EXCEPT ![j].status = end, ![j].clean = pc[j] = "run" /\ teardown[j] = "gone"]
  /\ Goto(j, "ended")
  /\ UNCHANGED <<up, closing, rec, stale, failing, save, command, failures>>

\* The last publication starts when the chain is through.
Final(j) ==
  /\ pc[j] = "ended" /\ save[j] \in {"none", "dead"}
  /\ Goto(j, "final") /\ Chain(j, "wait")
  /\ UNCHANGED <<up, closing, rec, stale, mem, failing, command, failures>>

-------------------------------------------------------------------------------
(* Other sessions, the clock, the end of the owner *)

\* command_cancel of any session of the project.
Cancel(j) ==
  /\ j \in Cancelled /\ rec[j].status \in Active /\ ~rec[j].cancel
  /\ rec' = [rec EXCEPT ![j].cancel = TRUE]
  /\ UNCHANGED <<up, closing, stale, runner, command, failures>>

\* 30 s without a publication: the owner stalls, or it cannot write.
Expire(j) ==
  /\ rec[j].status \in Active /\ Alive(j)
  /\ stale' = stale \union {j}
  /\ UNCHANGED <<up, closing, rec, runner, command, failures>>

Close(o) ==
  /\ o \in Closing /\ up[o] /\ closing[o] = "no"
  /\ closing' = [closing EXCEPT ![o] = "asked"]
  /\ UNCHANGED <<up, rec, stale, runner, command, failures>>

Live(o) == {j \in Jobs : OwnerOf[j] = o /\ pc[j] \in {"first", "run", "catch", "ended", "final"}}

\* shutdown, when all start calls have returned.
Shutdown(o) ==
  /\ up[o] /\ closing[o] = "asked"
  /\ \A j \in Jobs : OwnerOf[j] = o => pc[j] \notin {"asked", "reserved", "undo"}
  /\ closing' = [closing EXCEPT ![o] = "killed"]
  /\ mem' = [j \in Jobs |-> IF j \in Live(o) THEN [mem[j] EXCEPT !.cancel = TRUE] ELSE mem[j]]
  /\ LET torn == {j \in Live(o) : teardown[j] = "none"}
     IN  /\ teardown' = [j \in Jobs |-> IF j \in torn THEN "term" ELSE teardown[j]]
         /\ why' = [j \in Jobs |-> IF j \in torn THEN "aborted" ELSE why[j]]
  /\ UNCHANGED <<up, rec, stale, pc, failing, save, group, failures>>

\* The owner is killed: its commands go on.
Crash(o) ==
  /\ o \in Crashing /\ up[o]
  /\ up' = [up EXCEPT ![o] = FALSE]
  /\ pc' = [j \in Jobs |-> IF OwnerOf[j] = o THEN "over" ELSE pc[j]]
  /\ save' = [j \in Jobs |-> IF OwnerOf[j] = o THEN "none" ELSE save[j]]
  /\ mem' = [j \in Jobs |-> IF OwnerOf[j] = o THEN New ELSE mem[j]]
  /\ UNCHANGED <<closing, rec, stale, failing, command, failures>>

-------------------------------------------------------------------------------
Start(j) == Call(j) \/ Reserve(j) \/ Spawn(j) \/ Undo(j)
Publish(j) == Land(j) \/ Delivered(j) \/ Broken(j) \/ Beat(j) \/ Final(j)
Command(j) == LeaderExit(j) \/ ChildExit(j) \/ Timeout(j) \/ LogFails(j)
Finish(j) == Escalate(j) \/ Settle(j) \/ Complete(j)

Next ==
  \/ \E j \in Jobs : Start(j) \/ Publish(j) \/ Command(j) \/ Finish(j) \/ Cancel(j) \/ Expire(j)
  \/ \E o \in Owners : Close(o) \/ Shutdown(o) \/ Crash(o)

Spec == Init /\ [][Next]_vars

\* The runner's promises and timers make progress; commands need not end by themselves.
Fairness ==
  /\ \A j \in Jobs : WF_vars(Reserve(j)) /\ WF_vars(Spawn(j)) /\ WF_vars(Undo(j))
                    /\ WF_vars(Publish(j)) /\ WF_vars(Finish(j))
  /\ \A o \in Owners : WF_vars(Shutdown(o))

FairSpec == Spec /\ Fairness

-------------------------------------------------------------------------------
(* Properties *)

\* reserve keeps the slot of every command that may be running, though its record was lost,
\* ended or evicted: at most MaxActive commands of living owners run, not counting those
\* that a teardown gave up on (README: "Maximum 8 active commands").
CapacityHolds ==
  Cardinality({j \in Jobs : group[j] # {} /\ Alive(j) /\ teardown[j] # "left"}) <= MaxActive

\* COMMAND_TERMINAL: an outcome in the store is final, although heartbeats, the final
\* publication and the shutdown may still be under way; the record can only be evicted.
EndIsFinal ==
  [][\A j \in Jobs : Ended(j) =>
       rec'[j] = Absent \/ (rec'[j].status = rec[j].status /\ rec'[j].clean = rec[j].clean)]_vars

\* What the store says of an ended command is so: a confirmed cleanup means that nothing
\* of its group is left, and success that nobody ended it and its log is complete.
EndTruthful ==
  \A j \in Jobs : Ended(j) =>
    /\ rec[j].clean => group[j] = {}
    /\ rec[j].status = "succeeded" => why[j] = "none" /\ j \notin failing

\* README: "the owner processes it within its 500ms heartbeat".  A cancellation in the
\* store ends the job, unless its owner dies or its last write fails.
CancelEnds ==
  \A j \in Cancelled :
    rec[j].status \in Active /\ rec[j].cancel ~> rec[j].status \notin Active \/ pc[j] = "over"

==============================================================================
