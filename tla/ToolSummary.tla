----------------------------- MODULE ToolSummary -----------------------------
(***************************************************************************)
(* Summaries of oversized tool results, extensions/tool-summary: what a    *)
(* provider call is given in place of a result (index.ts), and what the    *)
(* entries on the session's branch restore (state.ts).                     *)
(*                                                                         *)
(* The user navigates, reloads, switches modes and resets whenever no call *)
(* is prepared; a summarizing model answers late, fails, or ignores that   *)
(* its job was aborted.  All results are oversized; thresholds and images  *)
(* are left out but for the abort that a new threshold causes.             *)
(***************************************************************************)
EXTENDS Naturals, Sequences, SequencesExt, FiniteSets

CONSTANTS Results,      \* oversized results, their keys in the code
          Texts,        \* what a summary may say
          Raw,          \* the exact result
          MaxEntries,   \* entries of the branch that are modelled
          MaxEpochs     \* resets

VARIABLES
  branch,     \* entries from the root to the leaf
  mode, epoch,                             \* state.config
  exposures, summaries, retries, skips,    \* the rest of the restored state
  pending,    \* pendingExposures
  jobs,       \* running jobs; one whose origin no longer holds is not current
  quick,      \* results that are reduced without a model
  sent        \* the call in progress, or <<>>: the epoch, and what it was given for each result

memory == <<mode, epoch, exposures, summaries, retries, skips>>
vars == <<branch, memory, pending, jobs, quick, sent>>

NoText == [k \in Results |-> Raw]

Entry(kind, k) == [kind |-> kind, key |-> k, epoch |-> epoch]
Summary(k, t) == [kind |-> "summary", key |-> k, epoch |-> epoch, text |-> t]
Config(m, e) == [kind |-> "config", mode |-> m, epoch |-> e]
\* A response of the model to the call c, with the exact results that c held.
Response(c) == [kind |-> "response", raw |-> {k \in DOMAIN c.given : c.given[k] = Raw}, epoch |-> c.epoch]

Has(b, kind, k, e) == \E i \in DOMAIN b : b[i].kind = kind /\ b[i].key = k /\ b[i].epoch = e
ResultsOf(b) == {k \in Results : \E i \in DOMAIN b : b[i].kind = "result" /\ b[i].key = k}

-----------------------------------------------------------------------------
\* restoreToolSummaryState: the last configuration, and of its epoch the exposures and
\* for each result the first summary or skip.

RestoredConfig(b) ==
  LET at == {i \in DOMAIN b : b[i].kind = "config"} IN
  IF at = {} THEN Config("on", 0) ELSE b[CHOOSE i \in at : \A j \in at : j <= i]

Ends(b, k, e) == {i \in DOMAIN b : b[i].kind \in {"summary", "skip"} /\ b[i].key = k /\ b[i].epoch = e}
FirstEnd(b, k, e) == CHOOSE i \in Ends(b, k, e) : \A j \in Ends(b, k, e) : i <= j

RestoredSummaries(b, e) ==
  [k \in Results |->
     IF Ends(b, k, e) # {} /\ b[FirstEnd(b, k, e)].kind = "summary" THEN b[FirstEnd(b, k, e)].text ELSE Raw]

RestoredSkips(b, e) == {k \in Results : Ends(b, k, e) # {} /\ b[FirstEnd(b, k, e)].kind = "skip"}

Restore(b) ==
  LET config == RestoredConfig(b) IN
  /\ mode' = config.mode /\ epoch' = config.epoch
  /\ exposures' = {k \in Results : Has(b, "exposure", k, config.epoch)}
  /\ summaries' = RestoredSummaries(b, config.epoch)
  /\ skips' = RestoredSkips(b, config.epoch)
  /\ retries' = {k \in Results : Has(b, "retry", k, config.epoch) /\ Ends(b, k, config.epoch) = {}}

Init ==
  /\ branch = <<>> /\ mode = "on" /\ epoch = 0
  /\ exposures = {} /\ summaries = NoText /\ retries = {} /\ skips = {}
  /\ pending = {} /\ jobs = {} /\ quick \in SUBSET Results /\ sent = <<>>

\* abortJobs with a new generation: the completions of older jobs are discarded.
AbortJobs == jobs' = {[j EXCEPT !.current = FALSE] : j \in jobs} /\ pending' = {}

Room(n) == Len(branch) + n <= MaxEntries

-----------------------------------------------------------------------------
\* startSummary, with what the caller knows of exposures and summaries already.
Startable(k) == mode = "on" /\ k \notin retries /\ ~\E j \in jobs : j.key = k /\ j.current

Job(k) == [key |-> k, current |-> TRUE]

\* The entry that ends a job: a summary, or the note that none is worthwhile.
Outcomes(k) == {Summary(k, t) : t \in Texts} \union {Entry("skip", k)}

\* The context handler.  Results without a model are summarized within it.
Context ==
  /\ sent = <<>>
  /\ LET known == {k \in ResultsOf(branch) : summaries[k] # Raw}
         open  == IF mode = "on" THEN ResultsOf(branch) \ (known \union skips) ELSE {}
         ready == open \cap exposures
         now   == {k \in ready \cap quick : mode = "on" /\ k \notin retries}
     IN /\ pending' = pending \union (open \ exposures)
        /\ Room(Cardinality(now))
        /\ \E outcome \in [now -> UNION {Outcomes(k) : k \in now}] :
             /\ \A k \in now : outcome[k] \in Outcomes(k)
             /\ branch' = branch \o [i \in 1 .. Cardinality(now) |-> outcome[SetToSeq(now)[i]]]
             /\ summaries' = [k \in Results |-> IF k \in now /\ outcome[k].kind = "summary"
                                                THEN outcome[k].text ELSE summaries[k]]
             /\ skips' = skips \union {k \in now : outcome[k].kind = "skip"}
             /\ sent' = <<[epoch |-> epoch,
                           given |-> [k \in ResultsOf(branch) |-> IF mode = "off" THEN Raw ELSE summaries'[k]]]>>
        /\ jobs' = {j \in jobs : ~(j.current /\ j.key \in now)}
                   \union {Job(k) : k \in {x \in ready \ quick : Startable(x)}}
  /\ UNCHANGED <<mode, epoch, exposures, retries, quick>>

\* message_end: what was pending is exposed when the response is no error; an append may
\* fail and is tried again with the next response.
Answered(ok, written) ==
  /\ branch' = branch \o (IF ok THEN <<Response(sent[1])>> ELSE <<>>)
                      \o [i \in 1 .. Cardinality(written) |-> Entry("exposure", SetToSeq(written)[i])]
  /\ ok \/ written = {}
  /\ exposures' = exposures \union written
  /\ pending' = pending \ written
  /\ jobs' = jobs \union {Job(k) : k \in {x \in written : Startable(x)}}

MessageEnd ==
  /\ sent # <<>> /\ sent' = <<>>
  /\ \E ok \in BOOLEAN, written \in SUBSET pending :
       /\ mode = "on" \/ written = {}
       /\ Room(1 + Cardinality(written)) /\ Answered(ok, written)
  /\ UNCHANGED <<mode, epoch, summaries, retries, skips, quick>>

\* persistCompleted and persistSkipped.
JobEnds(j) ==
  /\ j \in jobs /\ jobs' = jobs \ {j}
  /\ IF j.current /\ mode # "off" /\ summaries[j.key] = Raw /\ j.key \notin skips  \* originValid
     THEN Room(1) /\ \E e \in Outcomes(j.key) :
            /\ branch' = Append(branch, e)
            /\ summaries' = IF e.kind = "summary" THEN [summaries EXCEPT ![j.key] = e.text] ELSE summaries
            /\ skips' = IF e.kind = "skip" THEN skips \union {j.key} ELSE skips
            /\ retries' = retries \ {j.key}
     ELSE UNCHANGED <<branch, summaries, skips, retries>>
  /\ UNCHANGED <<mode, epoch, exposures, pending, quick, sent>>

\* persistRetry after a failure or the timeout; an abort by the turn leaves no trace.
JobFails(j) ==
  /\ j \in jobs /\ jobs' = jobs \ {j}
  /\ \/ /\ j.key \notin quick /\ j.current /\ mode = "on" /\ summaries[j.key] = Raw /\ j.key \notin skips /\ Room(1)
        /\ branch' = Append(branch, Entry("retry", j.key)) /\ retries' = retries \union {j.key}
     \/ UNCHANGED <<branch, retries>>
  /\ UNCHANGED <<mode, epoch, exposures, summaries, skips, pending, quick, sent>>

\* The cooldown of a failed summary has passed.
CoolsDown(k) ==
  /\ k \in retries /\ retries' = retries \ {k}
  /\ UNCHANGED <<branch, mode, epoch, exposures, summaries, skips, pending, jobs, quick, sent>>

-----------------------------------------------------------------------------
ToolResult(k) ==
  /\ sent = <<>> /\ k \notin ResultsOf(branch) /\ Room(1)
  /\ branch' = Append(branch, [kind |-> "result", key |-> k, epoch |-> epoch])
  /\ UNCHANGED <<memory, pending, jobs, quick, sent>>

\* /tool-summary on, pause and off, and a new threshold, at any time.
Command(m) ==
  /\ Room(1) /\ branch' = Append(branch, Config(m, epoch)) /\ mode' = m
  /\ IF m = "on" /\ mode # "on" THEN UNCHANGED <<jobs, pending>> ELSE AbortJobs
  /\ UNCHANGED <<epoch, exposures, summaries, retries, skips, quick, sent>>

\* /tool-summary reset: a new epoch.
Reset ==
  /\ epoch < MaxEpochs /\ Room(1) /\ epoch' = epoch + 1
  /\ branch' = Append(branch, Config(mode, epoch'))
  /\ exposures' = {} /\ summaries' = NoText /\ retries' = {} /\ skips' = {}
  /\ AbortJobs /\ UNCHANGED <<mode, quick, sent>>

\* session_tree, back to an earlier entry; for the last entry session_start or a reload.
Navigate(n) ==
  /\ sent = <<>> /\ branch' = SubSeq(branch, 1, n)
  /\ Restore(branch') /\ AbortJobs
  /\ UNCHANGED <<quick, sent>>

Next ==
  \/ Context \/ MessageEnd \/ Reset
  \/ \E k \in Results : ToolResult(k) \/ CoolsDown(k)
  \/ \E j \in jobs : JobEnds(j) \/ JobFails(j)
  \/ \E m \in {"on", "pause", "off"} : Command(m)
  \/ \E n \in 0 .. Len(branch) : Navigate(n)

Spec == Init /\ [][Next]_vars

-----------------------------------------------------------------------------
\* The values the variables take.
TypeOK ==
  /\ Len(branch) <= MaxEntries /\ mode \in {"on", "pause", "off"} /\ epoch \in 0 .. MaxEpochs
  /\ {exposures, retries, skips, pending, quick} \subseteq SUBSET Results
  /\ summaries \in [Results -> Texts \union {Raw}]
  /\ jobs \subseteq [key : Results, current : BOOLEAN]

\* context and message_end in tool-summary/index.ts: a call is given a summary only when,
\* on this branch and since the last reset, the model answered a call with the exact result.
RawFirst ==
  sent # <<>> => \A k \in DOMAIN sent[1].given : sent[1].given[k] # Raw =>
    \E i \in DOMAIN branch : branch[i].kind = "response" /\ k \in branch[i].raw /\ branch[i].epoch = sent[1].epoch

\* state.ts and index.ts: a reload gives the same summaries as the memory, so that the
\* text a call is given for a result does not change with it, nor with late completions.
ReloadAgrees ==
  LET config == RestoredConfig(branch) IN
  /\ config.mode = mode /\ config.epoch = epoch
  /\ summaries = RestoredSummaries(branch, epoch) /\ skips = RestoredSkips(branch, epoch)
  /\ exposures = {k \in Results : Has(branch, "exposure", k, epoch)}

Sound == RawFirst /\ ReloadAgrees
==============================================================================
