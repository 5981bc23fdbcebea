------------------------------- MODULE MCTools -------------------------------
(***************************************************************************)
(* The tools that work on their own, checked by one run.  They do not      *)
(* interact: a behaviour is one of one part, the others stay as they       *)
(* began.                                                                  *)
(***************************************************************************)
EXTENDS Naturals, Sequences

CONSTANTS MaxChanges, Runs, Calls, MaxFanout, Keys, NoKey,
          Results, Texts, Raw, MaxEntries, MaxEpochs,
          Jobs, Probed, MaxClock,
          Queries, Urls, MaxSources, Concurrency,
          MaxPages, MaxCalls,
          Contexts, Limit,
          Ids, None, Count, MaxFaults

VARIABLES part,
  run, outcome, call, key, hasError, aborted, journal, entries, producing, computed,
  branch, mode, epoch, exposures, summaries, retries, skips, pending, jobs, quick, sent,
  clock, status, ready, informed, at, updates, phase, ids, wanted, outcomes, readAt, observed, seen,
  stage, hasty, fetchCount, todo, running, attempts, found, ranked, fetched, canceled, bundle,
  app, context, alive, pages, opened, active, queue, op, told, acted, ended, raced,
  life, states, browsers, dirs, trace, use, disposed,
  registered, router, excluded, changes, reply,
  page, saved, handled, timers, posts, server, maker, source, dom, unused, verdicts, faults,
  login, asked, hop, profile, model,
  order, local, resolved, agreed, gate, tasks, stopped,
  stretch, dirty, explicit, exists, head, index, work, hidden, edits, finish, nextRead, report, shown,
  value, schema, verdict,
  disk, link, previews, edit, tmp, answer, made, outside, swap,
  item, fate, stored, recalled

flowVars == <<run, outcome, call, key, hasError, aborted, journal, entries, producing, computed>>
summaryVars == <<branch, mode, epoch, exposures, summaries, retries, skips, pending, jobs, quick, sent>>
waitVars == <<clock, status, ready, informed, at, updates, phase, ids, wanted, outcomes, readAt, observed, seen>>
researchVars == <<stage, hasty, fetchCount, todo, running, attempts, found, ranked, fetched, canceled, bundle>>
browserVars == <<app, context, alive, pages, opened, active, queue, op, told, acted, ended, raced>>
testVars == <<life, states, browsers, dirs, trace, use, disposed>>
bundleVars == <<registered, router, excluded, changes, reply>>
liveVars == <<page, saved, handled, timers, posts, server, maker, source, dom, unused, verdicts, faults>>
profileVars == <<login, asked, hop, profile, model>>
callVars == <<order, local, resolved, agreed, gate, tasks, stopped>>
treeVars == <<stretch, dirty, explicit, exists, head, index, work, hidden, edits, finish, nextRead, report, shown>>
outputVars == <<value, schema, verdict>>
editVars == <<disk, link, previews, edit, tmp, answer, made, outside, swap>>
childVars == <<profileVars, callVars, treeVars, outputVars, editVars>>
cutVars == <<item, fate, stored, recalled>>

Flow == INSTANCE Workflow
Summary == INSTANCE ToolSummary
Wait == INSTANCE WaitFor WITH told <- informed, pending <- updates, mode <- wanted
Deep == INSTANCE Research WITH phase <- stage, quick <- hasty, aborted <- canceled
Tabs == INSTANCE Browser
Tests == INSTANCE AppTest WITH op <- use
Router == INSTANCE Bundles WITH
  Tools <- {"base", "own", "shared", "late"}, Discovery <- {"base"}, Deferred <- {"late"},
  Bundles <- <<"A", "B", "C">>, Pinned <- {"A"},
  ToolsOf <- [A |-> {"own"}, B |-> {"own", "shared"}, C |-> {"late"}],
  Models <- {"large", "small"}, LoadsOf <- [large |-> {}, small |-> {"C"}],
  CapOf <- [large |-> 9, small |-> 3]
Live == INSTANCE LiveVariants WITH agent <- maker
Profiles == INSTANCE ChildProfile WITH
  Dirs <- {"asked", "own", "home"}, Default <- "own", Home <- "home", NoDir <- "no", step <- hop, dir <- profile
Calling == INSTANCE Delegation WITH MaxTasks <- 3, MaxFanout <- 2, found <- resolved, request <- order, turn <- tasks
Trees == INSTANCE Worktree WITH MaxEdits <- 4, phase <- stretch, ended <- finish, next <- nextRead
Output == INSTANCE StructuredOutput WITH MaxErrors <- 2, MaxDepth <- 2, MaxNodes <- 5
Edits == INSTANCE SafeEdit WITH
  Texts <- {"x", "y"}, Modes <- {"plain", "exec"}, Inodes <- 1 .. 3, MaxKept <- 1, MaxCalls <- 3, MaxOutside <- 2,
  call <- edit, reply <- answer, calls <- made

\* A line of a tool result, and a spot in it.
Row(len, need, spots) == [len |-> len, need |-> need, spots |-> spots]
Spot(where, len, kind) == [at |-> where, len |-> len, kind |-> kind]
\* The tool results: each look and tool once, important and required lines around a long
\* one, and lengths at the edge of a summary's budget and of a recall's.
Long == Row(4000, "none", <<>>)
Exit == Row(30, "none", <<Spot(5, 9, "exit")>>)
Decoys == Row(3800, "none", <<Spot(10, 5, "error"), Spot(150, 40, "id"), Spot(3700, 9, "exit")>>)
Chain == Row(4100, "none", [n \in 1 .. 9 |-> Spot(150 * n, 9, "other")])
Old == Row(30, "old", <<>>)
New == Row(30, "new", <<>>)
Fact(len) == Row(len, "line", <<Spot(4, 10, "other")>>)
Item(tool, error, shape, images, newer, frame, lines) ==
  [tool |-> tool, error |-> error, shape |-> shape, images |-> images, newer |-> newer, frame |-> frame, lines |-> lines]

Few(lines) == UNION {[1 .. n -> lines] : n \in 1 .. 2}
ToolResults ==
  {Item(t, e, s, im, nw, 500, <<Long, Exit>>) :
     t \in {"control", "report", "search", "api", "custom"}, e \in BOOLEAN, s \in {"plain", "log", "json"}, im \in {0, 2}, nw \in 0 .. 2}
  \union {Item(t, FALSE, s, 0, 0, f, <<Long>> \o l) :
     t \in {"report", "bash", "custom"}, s \in {"plain", "json"}, f \in {500, 2000, 4001},
     l \in Few({Exit, Decoys, Chain, Old, New, Fact(40)})}
  \union {Item("bash", FALSE, "plain", 0, 0, 500, <<Fact(n), Long, Exit, Decoys>>) : n \in {1500, 2700, 2890, 2891, 2930, 2990}}
  \union {Item("bash", FALSE, "plain", 0, 0, 500, <<Row(n, "none", <<>>), Exit>>) : n \in {5479, 5480, 5481, 5482, 5499}}

Cut == INSTANCE Reduction WITH
  Items <- ToolResults, Retention <- 2, Standard <- 4001, High <- 6000, MaxOutput <- 6000, MaxLines <- 2, MaxMatches <- 2

\* Where nothing is shortened.
Idle == item = Item("bash", FALSE, "plain", 0, 0, 500, <<Exit>>) /\ fate = "new" /\ stored = Cut!Nothing /\ recalled = Cut!Refused

PartsInit ==
  /\ part \in {"workflow", "summary", "wait", "research", "browser", "test", "bundles", "live",
              "profile", "call", "tree", "output", "edit", "cut"}
  /\ Flow!Init /\ Summary!Init /\ Wait!Init /\ Deep!Init /\ Tabs!Init /\ Tests!Init /\ Router!Init /\ Live!Init
  /\ Profiles!Init /\ Calling!Init /\ Trees!Init /\ Output!Init /\ Edits!Init
  /\ part # "summary" => quick = {}
  /\ part # "browser" => ~app
  /\ part # "bundles" => router.model = "large" /\ "late" \in router.active
  /\ disk["f"] = [text |-> "x", ino |-> 1, mode |-> "plain"]
  /\ disk["g"] = [text |-> "x", ino |-> 2, mode |-> "plain"]
  /\ part # "profile" => login = [d \in DOMAIN login |-> {}]
  /\ IF part = "cut" THEN Cut!Init ELSE Idle

ChildNext ==
  \/ part = "profile" /\ Profiles!Next /\ UNCHANGED <<callVars, treeVars, outputVars, editVars>>
  \/ part = "call" /\ Calling!Next /\ UNCHANGED <<profileVars, treeVars, outputVars, editVars>>
  \/ part = "tree" /\ Trees!Next /\ UNCHANGED <<profileVars, callVars, outputVars, editVars>>
  \/ part = "output" /\ Output!Next /\ UNCHANGED <<profileVars, callVars, treeVars, editVars>>
  \/ part = "edit" /\ Edits!Next /\ UNCHANGED <<profileVars, callVars, treeVars, outputVars>>

PartsNext ==
  \/ /\ part = "workflow" /\ Flow!Next
     /\ UNCHANGED <<part, summaryVars, waitVars, researchVars, browserVars, testVars, bundleVars, liveVars, childVars, cutVars>>
  \/ /\ part = "summary" /\ Summary!Next
     /\ UNCHANGED <<part, flowVars, waitVars, researchVars, browserVars, testVars, bundleVars, liveVars, childVars, cutVars>>
  \/ /\ part = "wait" /\ Wait!Next
     /\ UNCHANGED <<part, flowVars, summaryVars, researchVars, browserVars, testVars, bundleVars, liveVars, childVars, cutVars>>
  \/ /\ part = "research" /\ Deep!Next
     /\ UNCHANGED <<part, flowVars, summaryVars, waitVars, browserVars, testVars, bundleVars, liveVars, childVars, cutVars>>
  \/ /\ part = "browser" /\ Tabs!Next
     /\ UNCHANGED <<part, flowVars, summaryVars, waitVars, researchVars, testVars, bundleVars, liveVars, childVars, cutVars>>
  \/ /\ part = "test" /\ Tests!Next
     /\ UNCHANGED <<part, flowVars, summaryVars, waitVars, researchVars, browserVars, bundleVars, liveVars, childVars, cutVars>>
  \/ /\ part = "bundles" /\ Router!Next
     /\ UNCHANGED <<part, flowVars, summaryVars, waitVars, researchVars, browserVars, testVars, liveVars, childVars, cutVars>>
  \/ /\ part = "live" /\ Live!Next
     /\ UNCHANGED <<part, flowVars, summaryVars, waitVars, researchVars, browserVars, testVars, bundleVars, childVars, cutVars>>
  \/ /\ part \in {"profile", "call", "tree", "output", "edit"} /\ ChildNext
     /\ UNCHANGED <<part, flowVars, summaryVars, waitVars, researchVars, browserVars, testVars, bundleVars, liveVars, cutVars>>
  \/ /\ part = "cut" /\ Cut!Next
     /\ UNCHANGED <<part, flowVars, summaryVars, waitVars, researchVars, browserVars, testVars, bundleVars, liveVars, childVars>>

PartsSpec ==
  PartsInit /\ [][PartsNext]_
    <<part, flowVars, summaryVars, waitVars, researchVars, browserVars, testVars, bundleVars, liveVars, childVars, cutVars>>

\* The safety of each tool: see Sound in Workflow, ToolSummary, Reduction, WaitFor, Research, Browser,
\* Bundles, LiveVariants, ChildProfile, Delegation, Worktree, StructuredOutput and
\* SafeEdit, and NothingLeft in AppTest.
ToolsSound ==
  /\ part = "workflow" => Flow!Sound
  /\ part = "summary" => Summary!Sound
  /\ part = "wait" => Wait!Sound
  /\ part = "research" => Deep!Sound
  /\ part = "browser" => Tabs!Sound
  /\ part = "test" => Tests!NothingLeft
  /\ part = "bundles" => Router!Sound
  /\ part = "live" => Live!Sound
  /\ part = "profile" => Profiles!Sound
  /\ part = "call" => Calling!Sound
  /\ part = "tree" => Trees!Sound
  /\ part = "output" => Output!Sound
  /\ part = "edit" => Edits!Sound
  /\ part = "cut" => Cut!Sound
==============================================================================
