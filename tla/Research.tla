------------------------------ MODULE Research ------------------------------
(***************************************************************************)
(* deep_research, runResearch in deep-research/research.ts: the planned    *)
(* queries are searched, a first part of the best sources is fetched, at   *)
(* most two follow-up queries are searched, the rest of the fetches is     *)
(* spent, and the bundle is saved.  A call to the broker ends as McpCall   *)
(* says; scores and hosts are abstracted to an arbitrary ranking.          *)
(***************************************************************************)
EXTENDS Integers, Sequences, FiniteSets, FiniteSetsExt, SequencesExt

CONSTANTS Queries,      \* the planned queries
          Urls,         \* what a search may find
          MaxSources, Concurrency

VARIABLES
  phase,      \* "idle", "search", "fetch", "again", "rest", "over"
  quick, fetchCount,         \* the options that matter
  todo, running,             \* of the current mapBounded: queries or sources
  attempts,   \* by query "ok", "empty" or "error"
  found,      \* the sources in batches
  ranked,     \* rankSources
  fetched,    \* by source "fetched" or "failed"
  aborted,
  bundle      \* the status of the saved bundle, "none", or "thrown"

round == <<todo, running>>
options == <<quick, fetchCount>>
vars == <<phase, options, round, attempts, found, ranked, fetched, aborted, bundle>>

Reasons == {"unfetched", "evidence", "diversity", "uncovered"}
Searches == Queries \union Reasons
AttemptsThat(status) == {q \in DOMAIN attempts : attempts[q] = status}
FetchesThat(status) == {u \in DOMAIN fetched : fetched[u] = status}
Put(f, x, v) == [y \in DOMAIN f \union {x} |-> IF y = x THEN v ELSE f[y]]
AtMost(n, m) == IF n < m THEN n ELSE m

Nothing == [x \in {} |-> "none"]
Searching == phase \in {"search", "again"}

Init ==
  /\ phase = "idle" /\ quick = FALSE /\ fetchCount = 0 /\ todo = {} /\ running = {}
  /\ attempts = Nothing /\ found = {} /\ ranked = {} /\ fetched = Nothing
  /\ aborted = FALSE /\ bundle = "none"

Call ==
  /\ phase = "idle" /\ phase' = "search"
  /\ quick' \in BOOLEAN /\ fetchCount' \in 0 .. MaxSources  \* normalizeOptions
  /\ todo' = Queries /\ running' = {}
  /\ attempts' = Nothing /\ found' = {} /\ ranked' = {} /\ fetched' = Nothing
  /\ aborted' = FALSE /\ bundle' = "none"

-----------------------------------------------------------------------------
\* mapBounded: a free worker takes the next item; it throws when the caller has aborted,
\* and so does the whole, while other calls may still be running.
Takes(x) ==
  /\ x \in todo /\ Cardinality(running) < Concurrency /\ ~aborted
  /\ todo' = todo \ {x} /\ running' = running \union {x}
  /\ UNCHANGED <<phase, options, attempts, found, ranked, fetched, aborted, bundle>>

Throws ==
  /\ phase \notin {"idle", "over"} /\ aborted
  /\ phase' = "over" /\ bundle' = "thrown" /\ todo' = {}
  /\ UNCHANGED <<options, running, attempts, found, ranked, fetched, aborted>>

\* What the search for q brought; after an abort it throws instead.
Searched(q) ==
  /\ Searching /\ q \in running /\ ~aborted /\ running' = running \ {q}
  /\ \/ attempts' = Put(attempts, q, "error") /\ found' = found
     \/ \E urls \in SUBSET Urls :
          /\ attempts' = Put(attempts, q, IF urls = {} THEN "empty" ELSE "ok")
          /\ found' = found \union urls
  /\ UNCHANGED <<phase, options, todo, ranked, fetched, aborted, bundle>>

\* What the fetch of u brought.
Fetched(u) ==
  /\ phase \in {"fetch", "rest"} /\ u \in running /\ ~aborted /\ running' = running \ {u}
  /\ \E status \in {"fetched", "failed"} : fetched' = Put(fetched, u, status)
  /\ UNCHANGED <<phase, options, todo, attempts, found, ranked, aborted, bundle>>

\* A call that an abort left behind ends without effect.
Abandoned(x) ==
  /\ phase = "over" /\ x \in running /\ running' = running \ {x}
  /\ UNCHANGED <<phase, options, todo, attempts, found, ranked, fetched, aborted, bundle>>

-----------------------------------------------------------------------------
\* rankSources: what was fetched already stays, up to the cap.
Rank(r, pinned) ==
  /\ r \in kSubset(AtMost(MaxSources, Cardinality(found \union pinned)), found \union pinned)
  /\ pinned \subseteq r

\* The n best of these sources.
Best(n, sources) == kSubset(AtMost(n, Cardinality(sources)), sources)

RoundOver == todo = {} /\ running = {} /\ ~aborted

FirstFetches ==
  /\ phase = "search" /\ RoundOver /\ phase' = "fetch"
  /\ \E r \in SUBSET Urls : Rank(r, {}) /\ ranked' = r
  /\ todo' \in Best(IF quick THEN fetchCount ELSE (fetchCount + 1) \div 2, ranked')
  /\ UNCHANGED <<options, running, attempts, found, fetched, aborted, bundle>>

\* The reasons for another search, in the order of their queries.
Wanted ==
  LET missing == DOMAIN fetched # {} /\ FetchesThat("fetched") = {}
      holes == AttemptsThat("empty") \union AttemptsThat("error") # {}
  IN {s \in {<<a, b, c, d>> : a \in {missing}, b, c \in BOOLEAN, d \in {holes}} :
        /\ s[2] => FetchesThat("fetched") # {}
        /\ Cardinality(ranked) < MaxSources => s[3]}

FollowUps(s) ==
  LET order == <<"unfetched", "evidence", "diversity", "uncovered">>
      chosen == SelectSeq(<<1, 2, 3, 4>>, LAMBDA i : s[i])
  IN {order[chosen[i]] : i \in 1 .. AtMost(2, Len(chosen))}

SearchAgain ==
  /\ phase = "fetch" /\ RoundOver
  /\ ~quick /\ AttemptsThat("ok") \union AttemptsThat("empty") # {}
  /\ \E s \in Wanted : FollowUps(s) # {} /\ todo' = FollowUps(s)
  /\ phase' = "again" /\ UNCHANGED <<options, running, attempts, found, ranked, fetched, aborted, bundle>>

Unfetched(r) == r \ DOMAIN fetched
Left == fetchCount - Cardinality(DOMAIN fetched)

NoMoreSearch ==
  /\ phase = "fetch" /\ RoundOver
  /\ quick \/ AttemptsThat("ok") \union AttemptsThat("empty") = {} \/ \E s \in Wanted : FollowUps(s) = {}
  /\ phase' = "rest" /\ todo' \in Best(Left, Unfetched(ranked))
  /\ UNCHANGED <<options, running, attempts, found, ranked, fetched, aborted, bundle>>

RestOfFetches ==
  /\ phase = "again" /\ RoundOver /\ phase' = "rest"
  /\ \E r \in SUBSET Urls : Rank(r, DOMAIN fetched) /\ ranked' = r
  /\ todo' \in Best(Left, Unfetched(ranked'))
  /\ UNCHANGED <<options, running, attempts, found, fetched, aborted, bundle>>

\* The status of the bundle; fetches count as far as their sources are ranked.
Status ==
  LET errors == AttemptsThat("error") # {}
      failures == FetchesThat("failed") \cap ranked # {}
  IN CASE ranked = {} -> IF errors THEN "failed" ELSE "empty"
       [] ranked # {} /\ (errors \/ failures \/ (fetchCount > 0 /\ FetchesThat("fetched") \cap ranked = {})) -> "partial"
       [] OTHER -> "complete"

\* The last look at the signal, and saveBundle, which may fail.
Finish ==
  /\ phase = "rest" /\ RoundOver /\ phase' = "over" /\ bundle' \in {Status, "thrown"}
  /\ UNCHANGED <<options, round, attempts, found, ranked, fetched, aborted>>

CallerAborts ==
  /\ phase \notin {"idle", "over"} /\ ~aborted /\ aborted' = TRUE
  /\ UNCHANGED <<phase, options, round, attempts, found, ranked, fetched, bundle>>

Next ==
  \/ Call \/ Throws \/ FirstFetches \/ SearchAgain \/ NoMoreSearch \/ RestOfFetches \/ Finish \/ CallerAborts
  \/ \E x \in todo : Takes(x)
  \/ \E x \in running : Searched(x) \/ Fetched(x) \/ Abandoned(x)

Spec == Init /\ [][Next]_vars

-----------------------------------------------------------------------------
\* The values the variables take.
TypeOK ==
  /\ phase \in {"idle", "search", "fetch", "again", "rest", "over"}
  /\ todo \union running \subseteq Searches \union Urls
  /\ DOMAIN attempts \subseteq Searches /\ found \subseteq Urls /\ ranked \subseteq Urls
  /\ DOMAIN fetched \subseteq Urls

\* runResearch: all rounds together fetch no more than fetchCount sources, failures
\* included.
WithinBudget ==
  phase # "over" => Cardinality(DOMAIN fetched \union (IF Searching THEN {} ELSE todo \union running)) <= fetchCount

\* rankSources and the end of runResearch: what was fetched is in the bundle, and the
\* bundle is complete only when no search failed and no fetch did.
BundleTruthful ==
  bundle \notin {"none", "thrown"} =>
    /\ ~aborted /\ DOMAIN fetched \subseteq ranked /\ Cardinality(ranked) <= MaxSources
    /\ bundle = "complete" =>
         /\ AttemptsThat("error") = {} /\ FetchesThat("failed") = {}
         /\ fetchCount > 0 => FetchesThat("fetched") # {}

Sound == WithinBudget /\ BundleTruthful
==============================================================================
