----------------------------- MODULE ToolsProofs ------------------------------
(***************************************************************************)
(* Proofs about the tools of a session that need no fairness, each alone   *)
(* and with variables of its own: the parts that MCTools checks together.  *)
(* One section proves one module: what its types and control points say of *)
(* each other (an inductive invariant), and Sound from it, for any number  *)
(* of runs, calls, tasks, jobs, contexts and files.                        *)
(***************************************************************************)
EXTENDS Integers, Sequences, FiniteSets, FiniteSetTheorems, TLAPS

-------------------------------------------------------------------------------
(* Workflow runs                                                             *)

CONSTANTS Runs, Calls, MaxFanout, Keys, NoKey
VARIABLES run, outcome, call, key, hasError, aborted, journal, entries, producing, computed

Flow == INSTANCE Workflow

FlowTypes ==
  /\ run \in [Runs -> {"off", "script", "sealed", "returned", "dead"}]
  /\ outcome \in [Runs -> {"running", "completed", "failed"}]
  /\ call \in [Runs -> [Calls -> {"none", "queued", "running", "completed", "failed", "refused"}]]
  /\ key \in [Runs -> [Calls -> Keys \union {NoKey}]]
  /\ hasError \subseteq Runs /\ journal \subseteq Keys
  /\ producing \in [Runs -> SUBSET Keys] /\ computed \in [Runs -> SUBSET Keys]

\* The tracker knows of every call that failed, and a run that returned has told.
FailuresTold ==
  \A r \in Runs :
    /\ \A c \in Calls : call[r][c] \in {"failed", "refused"} => r \in hasError
    /\ run[r] = "returned" /\ r \in hasError => outcome[r] = "failed"

FlowInv == FlowTypes /\ Flow!NoneOutlives /\ FailuresTold /\ Flow!JournalKeepsSteps

LEMMA FlowInit == Flow!Init => FlowInv
  BY DEF Flow!Init, FlowInv, FlowTypes, Flow!NoneOutlives, FailuresTold, Flow!JournalKeepsSteps, Flow!Pending

LEMMA FlowStep == FlowInv /\ [Flow!Next]_(Flow!vars) => FlowInv'
  <1> SUFFICES ASSUME FlowInv, [Flow!Next]_(Flow!vars) PROVE FlowInv'
    OBVIOUS
  <1> USE DEF FlowInv, FlowTypes, Flow!NoneOutlives, FailuresTold, Flow!JournalKeepsSteps, Flow!Pending
  <1>1. ASSUME NEW r \in Runs, Flow!Open(r) PROVE FlowInv'
    BY <1>1 DEF Flow!Open, Flow!OpenJournal
  <1>2. ASSUME NEW r \in Runs, Flow!Abort(r) PROVE FlowInv'
    BY <1>2 DEF Flow!Abort
  <1>3. ASSUME NEW r \in Runs, Flow!ScriptEnds(r) PROVE FlowInv'
    BY <1>3 DEF Flow!ScriptEnds
  <1>4. ASSUME NEW r \in Runs, Flow!Return(r) PROVE FlowInv'
    BY <1>4 DEF Flow!Return
  <1>5. ASSUME NEW r \in Runs, Flow!Crash(r) PROVE FlowInv'
    BY <1>5 DEF Flow!Crash
  <1>6. ASSUME NEW r \in Runs, NEW c \in Calls, Flow!CallStarts(r, c) PROVE FlowInv'
    BY <1>6 DEF Flow!CallStarts, Flow!Becomes
  <1>7. ASSUME NEW r \in Runs, NEW c \in Calls, Flow!CallSucceeds(r, c) PROVE FlowInv'
    BY <1>7 DEF Flow!CallSucceeds, Flow!Becomes
  <1>8. ASSUME NEW r \in Runs, NEW c \in Calls, Flow!CallFails(r, c) PROVE FlowInv'
    BY <1>8 DEF Flow!CallFails, Flow!Becomes
  <1>9. ASSUME NEW r \in Runs, NEW c \in Calls, NEW k \in Keys \union {NoKey}, Flow!AgentCall(r, c, k) PROVE FlowInv'
    <2>1. /\ run[r] = "script" /\ UNCHANGED <<run, outcome, journal, producing, computed>>
          /\ \/ Flow!Becomes(r, c, "refused") /\ hasError' = hasError \union {r} /\ UNCHANGED key
             \/ Flow!Becomes(r, c, "queued") /\ key' = [key EXCEPT ![r][c] = k] /\ UNCHANGED hasError
      BY <1>9, Zenon DEF Flow!AgentCall, Flow!RunAgentCall
    <2>2. CASE Flow!Becomes(r, c, "refused") /\ hasError' = hasError \union {r} /\ UNCHANGED key
      BY <2>1, <2>2 DEF Flow!Becomes
    <2>3. CASE Flow!Becomes(r, c, "queued") /\ key' = [key EXCEPT ![r][c] = k] /\ UNCHANGED hasError
      BY <2>1, <2>3 DEF Flow!Becomes
    <2> QED
      BY <2>1, <2>2, <2>3
  <1>10. ASSUME NEW r \in Runs, NEW k \in Keys, Flow!Persist(r, k) PROVE FlowInv'
    BY <1>10 DEF Flow!Persist
  <1>11. ASSUME NEW r \in Runs, NEW k \in Keys, Flow!PersistFails(r, k) PROVE FlowInv'
    BY <1>11 DEF Flow!PersistFails
  <1>12. CASE UNCHANGED Flow!vars
    BY <1>12 DEF Flow!vars
  <1> QED
    BY <1>1, <1>2, <1>3, <1>4, <1>5, <1>6, <1>7, <1>8, <1>9, <1>10, <1>11, <1>12 DEF Flow!Next

\* workflow/index.ts, promise-tracker and journal, for any number of runs and calls: however
\* runs overlap, are aborted and die with their process, a run that returned left no call
\* behind, is completed only when none failed, and what it computed stays in the journal.
THEOREM WorkflowIsSound == Flow!Spec => []Flow!Sound
  <1>1. FlowInv => Flow!Sound
    BY DEF FlowInv, Flow!Sound, FailuresTold, Flow!CompletedTruthful
  <1> QED
    BY <1>1, FlowInit, FlowStep, PTL DEF Flow!Spec

-------------------------------------------------------------------------------
(* The worktree of an isolated child                                         *)

CONSTANT MaxTreeEdits
VARIABLES stretch, dirty, explicit, exists, head, index, work, hidden, edits, finish, nextRead, report, shown

Trees == INSTANCE Worktree WITH MaxEdits <- MaxTreeEdits, phase <- stretch, ended <- finish, next <- nextRead

files == <<head, index, work, hidden>>

TreeTypes ==
  /\ stretch \in {"idle", "check", "add", "child", "read", "told"} /\ nextRead \in 0 .. 8
  /\ head \in [Trees!Files -> Trees!Contents] /\ index \in [Trees!Files -> Trees!Contents]
  /\ work \in [Trees!Files -> Trees!Contents] /\ hidden \subseteq Trees!Files
  /\ finish \in {"none", "setup", "completed", "failed"}
  /\ report \in [status : {"none", "incomplete", "complete"}, listed : SUBSET Trees!Files,
                 patch : {"omitted", "empty", "available"}]

\* Nothing is on disk before git worktree add, nothing is read before the child ended.
BeforeReading ==
  /\ stretch \in {"idle", "check", "add"} => ~exists
  /\ stretch \in {"idle", "check", "add", "child"} => finish = "none"
  /\ stretch = "read" => finish \in {"completed", "failed"}
  /\ finish \in {"none", "setup"} => nextRead = 0 /\ report = Trees!Unread

\* The inventory is complete once all seven commands ran, and what a command listed of a
\* child that ended well stays in it.
Inventory ==
  /\ stretch = "read" => /\ report.patch = "omitted" /\ report.status # "incomplete"
                         /\ nextRead = 8 <=> report.status = "complete"
  /\ report.status = "complete" => nextRead = 8
  /\ finish = "completed" /\ report.status # "incomplete" =>
       \A n \in 1 .. 6 : n < nextRead => Trees!Lists(n) \subseteq report.listed

TreeInv == TreeTypes /\ BeforeReading /\ Inventory /\ Trees!NeverLost /\ Trees!EmptyMeansNone

LEMMA TreeInit == Trees!Init => TreeInv
  BY DEF Trees!Init, TreeInv, TreeTypes, BeforeReading, Inventory, Trees!NeverLost, Trees!EmptyMeansNone, Trees!Unread,
         Trees!Base, Trees!Files, Trees!Contents

\* Lists are of what the tree holds, and of nothing else.
LEMMA ListsKept == ASSUME UNCHANGED files, NEW n PROVE Trees!Lists(n)' = Trees!Lists(n)
  BY DEF files, Trees!Lists, Trees!Differ, Trees!InWork, Trees!Others

LEMMA PatchKept == UNCHANGED files => Trees!InWork' = Trees!InWork
  BY DEF files, Trees!InWork

LEMMA TreeEdited == TreeInv /\ Trees!Edit => TreeInv'
  <1> SUFFICES ASSUME TreeInv, Trees!Edit PROVE TreeInv'
    OBVIOUS
  <1>1. head' \in [Trees!Files -> Trees!Contents] /\ index' \in [Trees!Files -> Trees!Contents] /\ work' \in [Trees!Files -> Trees!Contents]
    BY DEF TreeInv, TreeTypes, Trees!Edit, Trees!Edits, Trees!Base, Trees!Files, Trees!Contents
  <1>2. UNCHANGED <<stretch, exists, hidden, finish, nextRead, report, shown>> /\ stretch # "told" /\ finish # "completed"
    BY DEF TreeInv, Trees!Edit, BeforeReading, TreeTypes, Trees!Unread
  <1> QED
    BY <1>1, <1>2 DEF TreeInv, TreeTypes, BeforeReading, Inventory, Trees!NeverLost, Trees!EmptyMeansNone, Trees!Unread

LEMMA TreeStep == TreeInv /\ [Trees!Next]_(Trees!vars) => TreeInv'
  <1> SUFFICES ASSUME TreeInv, [Trees!Next]_(Trees!vars) PROVE TreeInv'
    OBVIOUS
  <1> USE DEF TreeInv, TreeTypes, BeforeReading, Inventory, Trees!NeverLost, Trees!EmptyMeansNone, Trees!Unread
  <1>0. UNCHANGED files => Trees!InWork' = Trees!InWork /\ \A n \in 1 .. 6 : Trees!Lists(n)' = Trees!Lists(n)
    BY PatchKept, ListsKept
  <1>1. CASE Trees!EditParent
    BY <1>0, <1>1 DEF Trees!EditParent, Trees!tree, files
  <1>2. CASE Trees!Refuse \/ Trees!Accept \/ Trees!Add \/ Trees!AddFails
    BY <1>0, <1>2 DEF Trees!Refuse, Trees!Accept, Trees!Add, Trees!AddFails, Trees!tree, files
  <1>3. CASE Trees!Edit
    BY <1>3, TreeEdited
  <1>4. CASE Trees!Read
    <2>1. UNCHANGED files
      BY <1>4 DEF Trees!Read, Trees!tree, files
    <2>2. Trees!Lists(nextRead) \subseteq Trees!Files
      BY DEF Trees!Lists, Trees!Differ, Trees!Others
    <2>3. /\ report' = [status |-> report.status, listed |-> report.listed \union Trees!Lists(nextRead), patch |-> report.patch]
          /\ stretch = "read" /\ nextRead < 7 /\ nextRead' = nextRead + 1 /\ UNCHANGED <<stretch, exists, finish, shown>>
      BY <1>4 DEF Trees!Read
    <2>4. TreeTypes' /\ BeforeReading'
      BY <2>1, <2>2, <2>3 DEF files
    <2>5. \A n \in 1 .. 6 : n < nextRead' => n < nextRead \/ n = nextRead
      BY <2>3
    <2>6. Inventory'
      BY <1>0, <2>1, <2>3, <2>5
    <2> QED
      BY <2>3, <2>4, <2>6
  <1>5. CASE Trees!WriteInventory
    <2>1. /\ report' = [status |-> "complete", listed |-> report.listed, patch |-> report.patch]
          /\ stretch = "read" /\ nextRead = 7 /\ nextRead' = 8
          /\ UNCHANGED files /\ UNCHANGED <<stretch, exists, finish, shown>>
      BY <1>5 DEF Trees!WriteInventory, Trees!tree, files
    <2>2. TreeTypes' /\ BeforeReading'
      BY <2>1 DEF files
    <2>3. \A n \in 1 .. 6 : n < nextRead
      BY <2>1
    <2>4. Inventory'
      BY <1>0, <2>1, <2>3
    <2> QED
      BY <2>1, <2>2, <2>4
  <1>6. CASE Trees!ReadFails
    BY <1>0, <1>6 DEF Trees!ReadFails, Trees!tree, files
  <1>7. CASE Trees!Patch
    BY <1>0, <1>7 DEF Trees!Patch, Trees!tree, files, Trees!Differ
  <1>8. ASSUME NEW named \in BOOLEAN, NEW ignored \in {{}, {"absent"}}, Trees!Ask(named, ignored) PROVE TreeInv'
    BY <1>8 DEF Trees!Ask, Trees!tree, Trees!Files
  <1>9. ASSUME NEW how \in {"completed", "failed"}, Trees!ChildEnds(how) PROVE TreeInv'
    BY <1>0, <1>9 DEF Trees!ChildEnds, Trees!tree, files
  <1>10. CASE UNCHANGED Trees!vars
    BY <1>0, <1>10 DEF Trees!vars, files, Trees!Differ
  <1> QED
    BY <1>1, <1>2, <1>3, <1>4, <1>5, <1>6, <1>7, <1>8, <1>9, <1>10 DEF Trees!Next

\* A file that is changed anywhere is seen by one of the commands.
LEMMA TreeSound == TreeInv => Trees!Sound
  <1> SUFFICES ASSUME TreeInv, stretch = "told", finish = "completed", report.status = "complete"
      PROVE  Trees!Differ(Trees!Base, head) \union Trees!Differ(Trees!Base, index)
               \union Trees!Differ(Trees!Base, work) \subseteq report.listed
    BY DEF TreeInv, Trees!Sound, Trees!NothingOverlooked
  <1>1. \A n \in 1 .. 6 : Trees!Lists(n) \subseteq report.listed
    BY DEF TreeInv, Inventory
  <1>2. /\ Trees!Differ(Trees!Base, head) \subseteq report.listed
        /\ Trees!Differ(head, index) \subseteq report.listed
        /\ Trees!Differ(Trees!Base, Trees!InWork) \subseteq report.listed
        /\ Trees!Others \subseteq report.listed
    BY <1>1 DEF Trees!Lists
  <1>3. \A f \in Trees!Files : index[f] = "none" /\ work[f] # "none" => f \in report.listed
    BY <1>2 DEF Trees!Others
  <1>4. \A f \in Trees!Files : Trees!Base[f] # Trees!InWork[f] \/ Trees!Base[f] # head[f] \/ head[f] # index[f] => f \in report.listed
    BY <1>2 DEF Trees!Differ
  <1>5. \A f \in Trees!Files : Trees!Base[f] # index[f] \/ Trees!Base[f] # work[f] => f \in report.listed
    BY <1>3, <1>4 DEF Trees!InWork
  <1> QED
    BY <1>4, <1>5 DEF Trees!Differ

\* finishSubagentWorktree: whatever the user, the child and git do and whichever step
\* fails, a worktree left on disk is named, a complete inventory overlooks nothing, and an
\* empty patch stands for no tracked change.
THEOREM WorktreeIsTold == Trees!Spec => []Trees!Sound
  BY TreeInit, TreeStep, TreeSound, PTL DEF Trees!Spec

-------------------------------------------------------------------------------
(* The profile of a child                                                    *)

CONSTANTS Profiles, Own, AtHome, NoProfile
VARIABLES login, wants, hop, profile, model

Child == INSTANCE ChildProfile WITH
  Dirs <- Profiles, Default <- Own, Home <- AtHome, NoDir <- NoProfile, asked <- wants, step <- hop, dir <- profile

\* A model of the GPT family leaves the second reading with a subscription's provider.
ProfileInv ==
  /\ wants.model \in Child!Models
  /\ hop = "done" /\ Child!IsGptFamily(wants.model) => model.provider \in Child!Subscribed

LEMMA SubscriptionNames ==
  ASSUME NEW d PROVE Child!LoginOf(d) \in Child!Subscribed \union {"none"}
  <1> DEFINE has == {i \in DOMAIN Child!Subscriptions :
                       Child!Subscriptions[i] \in login[IF d = NoProfile THEN Own ELSE d]}
  <1>1. has \subseteq 1 .. 2
    BY DEF Child!Subscriptions
  <1>2. has # {} => (CHOOSE i \in has : \A j \in has : i <= j) \in has
    <2>1. CASE 1 \in has
      BY <1>1, <2>1
    <2>2. CASE 1 \notin has /\ 2 \in has
      BY <1>1, <2>2
    <2> QED
      BY <1>1, <2>1, <2>2
  <1> HIDE DEF has
  <1>3. \A i \in 1 .. 2 : Child!Subscriptions[i] \in Child!Subscribed
    BY DEF Child!Subscriptions, Child!Subscribed
  <1>4. Child!LoginOf(d) = IF has = {} THEN "none" ELSE Child!Subscriptions[CHOOSE i \in has : \A j \in has : i <= j]
    BY DEF Child!LoginOf, has
  <1> QED
    BY <1>1, <1>2, <1>3, <1>4

LEMMA ProfileInit == Child!Init => ProfileInv
  BY DEF Child!Init, ProfileInv, Child!Unresolved, Child!Models

LEMMA ProfileStep == ProfileInv /\ [Child!Next]_(Child!vars) => ProfileInv'
  <1> SUFFICES ASSUME ProfileInv, [Child!Next]_(Child!vars) PROVE ProfileInv'
    OBVIOUS
  <1> USE DEF ProfileInv
  <1>1. CASE Child!ResolveDir
    BY <1>1 DEF Child!ResolveDir
  <1>2. CASE Child!ResolveModel
    BY <1>2, SubscriptionNames DEF Child!ResolveModel, Child!Subscribed, Child!IsGptFamily, Child!Models
  <1>3. CASE Child!Launch
    BY <1>3 DEF Child!Launch, Child!Unresolved, Child!Models
  <1>4. ASSUME NEW m \in Child!Models, NEW d, Child!Ask(m, d) PROVE ProfileInv'
    BY <1>4 DEF Child!Ask
  <1>5. ASSUME NEW d, NEW p, Child!Login(d, p) PROVE ProfileInv'
    BY <1>5 DEF Child!Login, Child!IsGptFamily
  <1>6. CASE UNCHANGED Child!vars
    BY <1>6 DEF Child!vars, Child!IsGptFamily
  <1> QED
    BY <1>1, <1>2, <1>3, <1>4, <1>5, <1>6 DEF Child!Next

LEMMA ProfileSound == ProfileInv => Child!Sound
  BY DEF ProfileInv, Child!Sound, Child!NeverByKey, Child!OnePool, Child!KeyVisible, Child!ResourceKey, Child!Subscribed

\* subagentEnv and schedulerResourceKey: whatever logins change while a run resolves its
\* profile and its model, a model of the GPT family runs on a subscription, with no API key
\* in sight, and waits for the one pool of its names.
THEOREM SubscriptionHolds == Child!Spec => []Child!Sound
  BY ProfileInit, ProfileStep, ProfileSound, PTL DEF Child!Spec

-------------------------------------------------------------------------------
(* A delegated call and its tasks                                            *)

CONSTANT MaxTasks
VARIABLES order, local, resolved, agreed, gate, tasks, stopped

Calling == INSTANCE Delegation WITH found <- resolved, request <- order, turn <- tasks

Dialogs == {"trust", "agents", "profile", "limits", "ready"}
Returned == {"ok", "error", "refused"}

RunsOf == [mode : {"single", "parallel", "chain"}, count : Calling!Tasks, isolated : BOOLEAN,
           schema : BOOLEAN, known : BOOLEAN]

CallTypes ==
  /\ gate \in {"idle", "run"} \union Dialogs \union Returned
  /\ gate \in Dialogs => order \in Calling!Requests
  /\ gate = "run" => order \in RunsOf
  /\ tasks \in [Calling!Tasks -> {"none", "setup", "queued", "running", "crowded"} \union Calling!Over]

\* A repository's agent was found only after the user, or trust, allowed to look for it,
\* and each dialog that was needed is behind the call.
Answered ==
  gate \in Dialogs =>
    /\ resolved = "project" => order.scope # "shared" /\ (order.trusted \/ "project" \in agreed)
    /\ gate \in {"profile", "limits", "ready"} /\ resolved = "project" /\ order.ui /\ order.confirm =>
         "project" \in agreed
    /\ gate \in {"limits", "ready"} /\ order.foreign => "profile" \in agreed

\* What runs is within the limits that were tested, and nothing ran before.
WithinLimits ==
  /\ gate = "idle" \/ gate \in Dialogs => \A i \in Calling!Tasks : tasks[i] = "none"
  /\ gate \in {"ready", "run"} => order.count <= MaxFanout
  /\ gate = "run" => \A i \in Calling!Tasks : i > order.count => tasks[i] = "none"

\* A call that returned has no task on its way, be it one that makes its worktree.
AtRest == gate \in Returned => \A i \in Calling!Tasks : tasks[i] \in {"none"} \union Calling!Over

CallInv == CallTypes /\ Answered /\ WithinLimits /\ AtRest /\ Calling!Sound

LEMMA CallInit == Calling!Init => CallInv
  BY DEF Calling!Init, CallInv, CallTypes, Answered, WithinLimits, AtRest, Calling!Sound, Calling!AskedFirst,
         Calling!NeverCrowded, Calling!ReturnsWhole, Calling!ChainInOrder, Dialogs, Returned

\* A task that does not wait yet leaves room for itself among those of its call.
LEMMA RoomLeft ==
  ASSUME MaxFanout \in Nat, CallTypes, WithinLimits, gate = "run",
         NEW i \in Calling!Tasks, i <= order.count, tasks[i] \in {"none", "setup"}
  PROVE  ~(Cardinality(Calling!Held) >= MaxFanout)
  <1>1. order.count \in Nat /\ i \in 1 .. order.count /\ order.count <= MaxFanout
    BY DEF CallTypes, RunsOf, WithinLimits, Calling!Tasks
  <1>2. PICK n \in Nat : n = order.count
    BY <1>1, Zenon
  <1> DEFINE all == 1 .. n
             others == all \ {i}
  <1>3. Calling!Held \subseteq others
    BY <1>1, <1>2 DEF Calling!Held, WithinLimits, Calling!Tasks
  <1>4. IsFiniteSet(all) /\ Cardinality(all) = n
    <2>1. 1 \in Int /\ n \in Int /\ n >= 1
      BY <1>1, <1>2
    <2>2. IsFiniteSet(1 .. n) /\ Cardinality(1 .. n) = IF 1 > n THEN 0 ELSE n - 1 + 1
      BY <2>1, FS_Interval, Zenon
    <2> QED
      BY <2>1, <2>2
  <1> HIDE DEF all
  <1>5. i \in all
    BY <1>1, <1>2 DEF all
  <1>6. IsFiniteSet(others) /\ Cardinality(others) = n - 1
    BY <1>4, <1>5, FS_RemoveElement
  <1>7. Cardinality(Calling!Held) <= Cardinality(others) /\ Cardinality(Calling!Held) \in Nat
    BY <1>3, <1>6, FS_Subset, FS_CardinalityType
  <1> QED
    BY <1>1, <1>2, <1>6, <1>7

LEMMA CallTypesKept == CallTypes /\ Calling!Next => CallTypes'
  <1> SUFFICES ASSUME CallTypes, Calling!Next PROVE CallTypes'
    OBVIOUS
  <1> USE DEF CallTypes, Dialogs, Returned, RunsOf, Calling!Answer, Calling!Over, Calling!Failures
  <1>1. CASE Calling!EditAgents
    BY <1>1 DEF Calling!EditAgents
  <1>2. CASE Calling!Trust
    BY <1>2 DEF Calling!Trust
  <1>3. CASE Calling!Agents
    BY <1>3 DEF Calling!Agents
  <1>4. CASE Calling!Profile
    BY <1>4 DEF Calling!Profile
  <1>5. CASE Calling!Limits
    BY <1>5 DEF Calling!Limits
  <1>6. CASE Calling!Start
    BY <1>6 DEF Calling!Start, Calling!Requests
  <1>7. CASE Calling!Return
    BY <1>7 DEF Calling!Return
  <1>8. CASE Calling!Rest
    BY <1>8 DEF Calling!Rest
  <1>9. ASSUME NEW r \in Calling!Requests, Calling!Submit(r) PROVE CallTypes'
    BY <1>9 DEF Calling!Submit
  <1>10. ASSUME NEW who, Calling!Abort(who) PROVE CallTypes'
    BY <1>10 DEF Calling!Abort
  <1>11. ASSUME NEW i \in Calling!Tasks, Calling!Begin(i) \/ Calling!SetUp(i) \/ Calling!Dequeue(i) \/ Calling!Finish(i)
         PROVE  CallTypes'
    BY <1>11 DEF Calling!Begin, Calling!SetUp, Calling!Dequeue, Calling!Finish, Calling!Becomes, Calling!Joins
  <1> QED
    BY <1>1, <1>2, <1>3, <1>4, <1>5, <1>6, <1>7, <1>8, <1>9, <1>10, <1>11 DEF Calling!Next

LEMMA AnsweredKept == CallTypes /\ Answered /\ Calling!Next => Answered'
  <1> SUFFICES ASSUME CallTypes, Answered, Calling!Next PROVE Answered'
    OBVIOUS
  <1> USE DEF Answered, Dialogs, Calling!Answer
  <1>1. CASE Calling!EditAgents \/ Calling!Return \/ Calling!Rest \/ Calling!Start
    BY <1>1 DEF Calling!EditAgents, Calling!Return, Calling!Rest, Calling!Start, CallTypes, Returned
  <1>2. CASE Calling!Trust
    BY <1>2 DEF Calling!Trust, Calling!Found
  <1>3. CASE Calling!Agents
    BY <1>3 DEF Calling!Agents
  <1>4. CASE Calling!Profile
    BY <1>4 DEF Calling!Profile
  <1>5. CASE Calling!Limits
    BY <1>5 DEF Calling!Limits
  <1>6. ASSUME NEW r \in Calling!Requests, Calling!Submit(r) PROVE Answered'
    BY <1>6 DEF Calling!Submit, Calling!Found, Calling!Requests
  <1>7. ASSUME NEW who, Calling!Abort(who) PROVE Answered'
    BY <1>7 DEF Calling!Abort
  <1>8. ASSUME NEW i \in Calling!Tasks, Calling!Begin(i) \/ Calling!SetUp(i) \/ Calling!Dequeue(i) \/ Calling!Finish(i)
        PROVE  Answered'
    BY <1>8 DEF Calling!Begin, Calling!SetUp, Calling!Dequeue, Calling!Finish, Calling!Becomes
  <1> QED
    BY <1>1, <1>2, <1>3, <1>4, <1>5, <1>6, <1>7, <1>8 DEF Calling!Next

LEMMA WithinLimitsKept ==
  ASSUME MaxFanout \in Nat, CallTypes, WithinLimits, Calling!Next PROVE WithinLimits'
  <1> USE DEF WithinLimits, Dialogs, Calling!Answer
  <1>1. CASE Calling!EditAgents \/ Calling!Return \/ Calling!Rest \/ Calling!Start
    BY <1>1 DEF Calling!EditAgents, Calling!Return, Calling!Rest, Calling!Start, CallTypes, Returned
  <1>2. CASE Calling!Trust \/ Calling!Agents \/ Calling!Profile
    BY <1>2 DEF Calling!Trust, Calling!Agents, Calling!Profile
  <1>3. CASE Calling!Limits
    <2>1. order.count \in Nat
      BY <1>3 DEF Calling!Limits, CallTypes, Calling!Requests, Calling!Tasks
    <2> QED
      BY <1>3, <2>1 DEF Calling!Limits
  <1>4. ASSUME NEW r \in Calling!Requests, Calling!Submit(r) PROVE WithinLimits'
    BY <1>4 DEF Calling!Submit
  <1>5. ASSUME NEW who, Calling!Abort(who) PROVE WithinLimits'
    BY <1>5 DEF Calling!Abort
  <1>6. ASSUME NEW i \in Calling!Tasks, Calling!Begin(i) \/ Calling!SetUp(i) \/ Calling!Dequeue(i) \/ Calling!Finish(i)
        PROVE  WithinLimits'
    <2>1. UNCHANGED <<order, gate>> /\ \E s : tasks' = [tasks EXCEPT ![i] = s]
      BY <1>6 DEF Calling!Begin, Calling!SetUp, Calling!Dequeue, Calling!Finish, Calling!Becomes
    <2>2. gate # "idle" /\ gate \notin Dialogs
      BY <1>6 DEF Calling!Begin, Calling!SetUp, Calling!Dequeue, Calling!Finish
    <2>3. gate = "run" => order.count \in Nat /\ ~(i > order.count)
      BY <1>6 DEF Calling!Begin, Calling!SetUp, Calling!Dequeue, Calling!Finish, CallTypes, RunsOf, Calling!Tasks
    <2> QED
      BY <2>1, <2>2, <2>3 DEF CallTypes
  <1> QED
    BY <1>1, <1>2, <1>3, <1>4, <1>5, <1>6 DEF Calling!Next

\* The steps of one task.
TaskSteps(i) == Calling!Begin(i) \/ Calling!SetUp(i) \/ Calling!Dequeue(i) \/ Calling!Finish(i)

LEMMA TaskMoves ==
  ASSUME MaxFanout \in Nat, CallInv, NEW i \in Calling!Tasks, TaskSteps(i)
  PROVE  /\ gate = "run" /\ i <= order.count /\ order.count \in Nat /\ UNCHANGED <<order, gate, resolved, agreed>>
         /\ tasks[i] = "none" /\ order.mode = "chain" => \A j \in 1 .. (i - 1) : tasks[j] = "completed"
         /\ tasks[i] \notin Calling!Over
         /\ \E s \in {"setup", "queued", "running"} \union Calling!Over : tasks' = [tasks EXCEPT ![i] = s]
  <1> USE DEF TaskSteps, CallInv
  <1>1. gate = "run" /\ i <= order.count /\ order.count \in Nat
    <2>1. gate = "run"
      BY DEF Calling!Begin, Calling!SetUp, Calling!Dequeue, Calling!Finish, AtRest, WithinLimits, CallTypes,
             Calling!Over, Calling!Failures
    <2>2. order.count \in Nat
      BY <2>1 DEF CallTypes, RunsOf, Calling!Tasks
    <2>3. i <= order.count
      BY <2>1, <2>2 DEF Calling!Begin, Calling!SetUp, Calling!Dequeue, Calling!Finish, WithinLimits, Calling!Tasks
    <2> QED
      BY <2>1, <2>2, <2>3
  <1>2. UNCHANGED <<order, gate, resolved, agreed>>
    BY DEF Calling!Begin, Calling!SetUp, Calling!Dequeue, Calling!Finish, Calling!Becomes
  <1>3. tasks[i] = "none" /\ order.mode = "chain" => \A j \in 1 .. (i - 1) : tasks[j] = "completed"
    BY DEF Calling!Begin, Calling!SetUp, Calling!Dequeue, Calling!Finish
  <1>4. tasks[i] \notin Calling!Over
    BY DEF Calling!Begin, Calling!SetUp, Calling!Dequeue, Calling!Finish, Calling!Over, Calling!Failures
  <1>5. tasks[i] \in {"none", "setup"} => Calling!Joins \subseteq {"failed", "queued"}
    <2> SUFFICES ASSUME tasks[i] \in {"none", "setup"} PROVE Calling!Joins \subseteq {"failed", "queued"}
      OBVIOUS
    <2>1. ~(Cardinality(Calling!Held) >= MaxFanout)
      BY <1>1, RoomLeft
    <2>2. Calling!Cardinality(Calling!Held) = Cardinality(Calling!Held)
      BY Zenon DEF Calling!Cardinality, Cardinality
    <2> QED
      BY <2>1, <2>2 DEF Calling!Joins
  <1>6. \E s \in {"setup", "queued", "running"} \union Calling!Over : tasks' = [tasks EXCEPT ![i] = s]
    BY <1>5 DEF Calling!Begin, Calling!SetUp, Calling!Dequeue, Calling!Finish, Calling!Becomes, Calling!Over, Calling!Failures
  <1> QED
    BY <1>1, <1>2, <1>3, <1>4, <1>6

LEMMA SoundKept ==
  ASSUME MaxTasks \in Nat, MaxFanout \in Nat, CallInv, Calling!Next, CallTypes', Answered', WithinLimits'
  PROVE  AtRest' /\ Calling!Sound'
  <1> USE DEF CallInv, Calling!Sound
  <1>1. Calling!AskedFirst'
    BY DEF Answered, Calling!AskedFirst, Dialogs
  <1>2. ASSUME NEW i \in Calling!Tasks, TaskSteps(i)
        PROVE  AtRest' /\ Calling!NeverCrowded' /\ Calling!ReturnsWhole' /\ Calling!ChainInOrder'
    <2>1. PICK s \in {"setup", "queued", "running"} \union Calling!Over : tasks' = [tasks EXCEPT ![i] = s]
      BY <1>2, TaskMoves
    <2>2. gate = "run" /\ UNCHANGED <<order, gate>> /\ tasks[i] # "completed"
      BY <1>2, TaskMoves DEF Calling!Over
    <2>3. AtRest' /\ Calling!ReturnsWhole'
      BY <2>2 DEF AtRest, Returned, Calling!ReturnsWhole
    <2>4. Calling!NeverCrowded'
      BY <2>1, <2>2 DEF Calling!NeverCrowded, CallTypes, Calling!Over, Calling!Failures
    <2>5. Calling!ChainInOrder'
      <3> SUFFICES ASSUME order.mode = "chain", NEW j \in Calling!Tasks, NEW k \in Calling!Tasks, j < k, tasks'[k] # "none"
                   PROVE  tasks'[j] = "completed"
        BY <2>2 DEF Calling!ChainInOrder
      <3>1. CASE k = i
        <4>1. tasks[i] = "none" => tasks[j] = "completed"
          BY <1>2, <3>1, TaskMoves DEF Calling!Tasks
        <4>2. tasks[j] = "completed"
          BY <4>1, <2>2, <3>1 DEF Calling!ChainInOrder
        <4> QED
          BY <2>1, <4>2, <3>1, <2>2 DEF CallTypes
      <3>2. CASE k # i
        BY <2>1, <2>2, <3>2 DEF CallTypes, Calling!ChainInOrder
      <3> QED
        BY <3>1, <3>2
    <2> QED
      BY <2>3, <2>4, <2>5
  <1>3. CASE Calling!Return
    <2>1. \A i \in Calling!Tasks : tasks[i] \in {"none"} \union Calling!Over
      <3> SUFFICES ASSUME NEW i \in Calling!Tasks PROVE tasks[i] \in {"none"} \union Calling!Over
        OBVIOUS
      <3>1. CASE i > order.count
        BY <1>3, <3>1 DEF WithinLimits, Calling!Return
      <3>2. CASE ~(i > order.count)
        <4>1. i \in 1 .. order.count
          BY <1>3, <3>2 DEF Calling!Return, CallTypes, RunsOf, Calling!Tasks
        <4>2. CASE tasks[i] \in Calling!Over
          BY <4>2
        <4>3. CASE order.mode = "chain" /\ \E j \in 1 .. (i - 1) : tasks[j] \in Calling!Failures
          BY <1>3, <4>1, <4>3 DEF Calling!Return, Calling!ChainInOrder, Calling!Tasks, Calling!Failures
        <4> QED
          BY <1>3, <4>1, <4>2, <4>3 DEF Calling!Return
      <3> QED
        BY <3>1, <3>2
    <2>2. (\A i \in 1 .. order.count : tasks[i] = "completed") => \A i \in Calling!Tasks : tasks[i] \in {"none", "completed"}
      <3> SUFFICES ASSUME \A i \in 1 .. order.count : tasks[i] = "completed", NEW i \in Calling!Tasks
                   PROVE  tasks[i] \in {"none", "completed"}
        OBVIOUS
      <3>1. i > order.count \/ i \in 1 .. order.count
        BY <1>3 DEF Calling!Return, CallTypes, RunsOf, Calling!Tasks
      <3> QED
        BY <1>3, <3>1 DEF Calling!Return, WithinLimits
    <2>3. (\E i \in 1 .. order.count : tasks[i] # "completed") => \E i \in Calling!Tasks : tasks[i] \in Calling!Failures
      <3> SUFFICES ASSUME NEW i \in 1 .. order.count, tasks[i] # "completed"
                   PROVE  \E j \in Calling!Tasks : tasks[j] \in Calling!Failures
        OBVIOUS
      <3>1. 1 .. order.count \subseteq Calling!Tasks /\ 1 .. (i - 1) \subseteq Calling!Tasks
        BY <1>3 DEF Calling!Return, CallTypes, RunsOf, Calling!Tasks
      <3> QED
        BY <1>3, <3>1 DEF Calling!Return, Calling!Over
    <2>4. UNCHANGED tasks /\ gate' = IF \A i \in 1 .. order.count : tasks[i] = "completed" THEN "ok" ELSE "error"
      BY <1>3 DEF Calling!Return, Calling!Answer
    <2>5. AtRest'
      BY <2>1, <2>4 DEF AtRest
    <2>6. Calling!ReturnsWhole'
      BY <2>1, <2>2, <2>3, <2>4 DEF Calling!ReturnsWhole, Calling!Held, Calling!Over, Calling!Failures
    <2>7. Calling!NeverCrowded' /\ Calling!ChainInOrder'
      BY <2>4 DEF Calling!NeverCrowded, Calling!ChainInOrder
    <2> QED
      BY <1>1, <2>5, <2>6, <2>7
  <1>4. CASE Calling!Rest
    <2>1. tasks' = [i \in Calling!Tasks |-> "none"] /\ gate' = "idle"
      BY <1>4 DEF Calling!Rest
    <2> QED
      BY <1>1, <2>1 DEF AtRest, Returned, Calling!NeverCrowded, Calling!ReturnsWhole, Calling!ChainInOrder
  <1>5. CASE Calling!Start
    <2>1. UNCHANGED tasks /\ gate' = "run" /\ \A i \in Calling!Tasks : tasks[i] = "none"
      BY <1>5 DEF Calling!Start, WithinLimits, Dialogs
    <2> QED
      BY <1>1, <2>1 DEF AtRest, Returned, Calling!NeverCrowded, Calling!ReturnsWhole, Calling!ChainInOrder
  <1>6. ASSUME Calling!Trust \/ Calling!Agents \/ Calling!Profile \/ Calling!Limits \/ (\E r \in Calling!Requests : Calling!Submit(r))
        PROVE  AtRest' /\ Calling!Sound'
    <2>1. UNCHANGED tasks /\ gate' \in Dialogs \union {"refused", "error"} /\ \A i \in Calling!Tasks : tasks[i] = "none"
      BY <1>6 DEF Calling!Trust, Calling!Agents, Calling!Profile, Calling!Limits, Calling!Submit, Calling!Answer, WithinLimits, Dialogs
    <2>2. tasks' = [i \in Calling!Tasks |-> "none"]
      BY <2>1 DEF CallTypes
    <2> QED
      BY <1>1, <2>1, <2>2 DEF AtRest, Dialogs, Returned, Calling!NeverCrowded, Calling!ReturnsWhole, Calling!ChainInOrder,
                              Calling!Held, Calling!Over, Calling!Failures
  <1>7. ASSUME Calling!EditAgents \/ (\E who \in {"caller", "session"} : Calling!Abort(who))
        PROVE  AtRest' /\ Calling!Sound'
    <2>1. UNCHANGED <<order, gate, tasks>>
      BY <1>7 DEF Calling!EditAgents, Calling!Abort
    <2> QED
      BY <1>1, <2>1 DEF AtRest, Calling!NeverCrowded, Calling!ReturnsWhole, Calling!ChainInOrder, Calling!Held
  <1> QED
    BY <1>1, <1>2, <1>3, <1>4, <1>5, <1>6, <1>7 DEF Calling!Next, TaskSteps

LEMMA CallStep == ASSUME MaxTasks \in Nat, MaxFanout \in Nat, CallInv, [Calling!Next]_(Calling!vars) PROVE CallInv'
  <1>1. CASE Calling!Next
    <2>1. CallTypes' /\ Answered' /\ WithinLimits'
      BY <1>1, CallTypesKept, AnsweredKept, WithinLimitsKept DEF CallInv
    <2> QED
      BY <1>1, <2>1, SoundKept DEF CallInv
  <1>2. CASE UNCHANGED Calling!vars
    BY <1>2 DEF Calling!vars, CallInv, CallTypes, Answered, WithinLimits, AtRest, Calling!Sound, Calling!AskedFirst,
                Calling!NeverCrowded, Calling!ReturnsWhole, Calling!ChainInOrder, Calling!Held
  <1> QED
    BY <1>1, <1>2

\* execute and runRequest of spawn_subagent, for any number of tasks and any limit: however
\* the repository's agents change under the dialogs and whoever stops the call, nothing runs
\* that the user was not asked about, no task is turned away halfway, a chain keeps its
\* order, and a call that returned has left no child and tells of every failure.
THEOREM CallsAreWhole == ASSUME MaxTasks \in Nat, MaxFanout \in Nat PROVE Calling!Spec => []Calling!Sound
  <1>1. CallInv => Calling!Sound
    BY DEF CallInv
  <1>2. CallInv /\ [Calling!Next]_(Calling!vars) => CallInv'
    BY CallStep
  <1> QED
    BY <1>1, <1>2, CallInit, PTL DEF Calling!Spec

-------------------------------------------------------------------------------
(* wait_for                                                                  *)

CONSTANTS Jobs, Probed, LastTick
VARIABLES now, standing, ready, informed, since, updates, wait, ids, wanted, outcomes, readAt, observed, seen

Wait == INSTANCE WaitFor WITH
  MaxClock <- LastTick, clock <- now, status <- standing, told <- informed, at <- since, pending <- updates,
  phase <- wait, mode <- wanted

WaitTypes ==
  /\ now \in Nat /\ readAt \in Nat
  /\ standing \in [Jobs -> {"running", "awaiting_answer", "completed", "failed"}]
  /\ informed \in [Jobs -> Nat] /\ since \in [Jobs -> Nat] /\ updates \in [Jobs -> Nat]
  /\ outcomes \in [Jobs -> Nat] /\ observed \in [Jobs -> Int] /\ seen \in [Jobs -> Nat]
  /\ ids \subseteq Jobs

\* A job that asked or ended has an outcome, an update is the last one, and what was never
\* told of was never observed.
OutcomesCounted ==
  \A j \in Jobs :
    /\ standing[j] # "running" => informed[j] > 0
    /\ updates[j] > 0 => updates[j] = informed[j]
    /\ informed[j] = 0 => observed[j] = -1

\* A wait that goes on has seen, of its jobs, only ends: a question would have ended it.
OnlyEnds ==
  /\ wait # "waiting" => ids = {}
  /\ ids = {} => outcomes = Wait!NoOutcomes
  /\ \A j \in Jobs : outcomes[j] > 0 => standing[j] \in Wait!Terminal /\ outcomes[j] = informed[j]

WaitInv == WaitTypes /\ OutcomesCounted /\ OnlyEnds /\ Wait!Sound

LEMMA WaitInit == Wait!Init => WaitInv
  BY DEF Wait!Init, WaitInv, WaitTypes, OutcomesCounted, OnlyEnds, Wait!Sound, Wait!DroppedWereShown,
         Wait!WaitsForWhatCanCome, Wait!NoOutcomes

\* A job that asks, ends or is answered.
LEMMA JobMoves ==
  ASSUME WaitInv, NEW j \in Jobs, Wait!JobAsks(j) \/ Wait!JobAnswered(j) \/ Wait!JobEnds(j)
  PROVE  WaitInv'
  <1> USE DEF WaitInv, WaitTypes
  <1>1. CASE Wait!JobAnswered(j)
    <2>1. /\ standing' = [standing EXCEPT ![j] = "running"] /\ standing[j] = "awaiting_answer"
          /\ UNCHANGED <<now, informed, since, updates, wait, ids, outcomes, readAt, observed, seen>>
      BY <1>1 DEF Wait!JobAnswered, Wait!waitVars, Wait!shownVars
    <2> QED
      BY <2>1 DEF OutcomesCounted, OnlyEnds, Wait!Terminal, Wait!Sound, Wait!DroppedWereShown, Wait!WasObserved,
                  Wait!WaitsForWhatCanCome, Wait!NoOutcomes
  <1>2. CASE Wait!JobAsks(j) \/ Wait!JobEnds(j)
    <2>1. PICK s \in {"awaiting_answer", "completed", "failed"} : Wait!Outcome(j, s)
      BY <1>2 DEF Wait!JobAsks, Wait!JobEnds, Wait!Terminal
    <2>2. /\ standing' = [standing EXCEPT ![j] = s]
          /\ informed' = [informed EXCEPT ![j] = @ + 1] /\ since' = [since EXCEPT ![j] = now]
          /\ updates' = [updates EXCEPT ![j] = informed[j] + 1]
      BY <2>1 DEF Wait!Outcome
    <2>3. UNCHANGED <<now, wait, ids, outcomes, readAt, observed, seen>>
      BY <1>2 DEF Wait!JobAsks, Wait!JobEnds, Wait!waitVars, Wait!shownVars
    <2>4. observed[j] < now /\ standing[j] \notin Wait!Terminal
      BY <1>2 DEF Wait!JobAsks, Wait!JobEnds, OutcomesCounted, Wait!Terminal
    <2>5. WaitTypes' /\ OutcomesCounted'
      BY <2>2, <2>3 DEF OutcomesCounted
    <2>6. OnlyEnds'
      BY <2>2, <2>3, <2>4 DEF OnlyEnds, Wait!NoOutcomes
    <2>7. Wait!Sound'
      BY <2>2, <2>3, <2>4 DEF Wait!Sound, Wait!DroppedWereShown, Wait!WasObserved, Wait!WaitsForWhatCanCome
    <2> QED
      BY <2>5, <2>6, <2>7
  <1> QED
    BY <1>1, <1>2

\* What a wait shows is the last outcome of each job, as far as updates are on their way.
LEMMA Observes ==
  ASSUME WaitInv, NEW given \in SUBSET Jobs, NEW o \in [Jobs -> Nat], NEW t \in Nat, Wait!ObserveOutcomes(given, o, t),
         \A j \in given : o[j] = informed[j] /\ informed[j] > 0,
         UNCHANGED <<informed, since, updates>>
  PROVE  /\ observed' \in [Jobs -> Int] /\ seen' \in [Jobs -> Nat]
         /\ \A j \in Jobs : informed[j] = 0 => observed'[j] = -1
         /\ Wait!DroppedWereShown'
  BY DEF WaitInv, WaitTypes, OutcomesCounted, Wait!Sound, Wait!DroppedWereShown, Wait!WasObserved, Wait!ObserveOutcomes

LEMMA Returning ==
  ASSUME WaitInv, Wait!Returns, UNCHANGED <<now, standing, informed, since, updates>>,
         observed' \in [Jobs -> Int], seen' \in [Jobs -> Nat],
         \A j \in Jobs : informed[j] = 0 => observed'[j] = -1,
         Wait!DroppedWereShown'
  PROVE  WaitInv'
  BY DEF WaitInv, WaitTypes, OutcomesCounted, OnlyEnds, Wait!Sound, Wait!WaitsForWhatCanCome, Wait!Returns, Wait!NoOutcomes

\* A check that neither satisfies the wait nor makes it impossible leaves a job that runs.
LEMMA Checked == ASSUME WaitInv, Wait!CheckJobs PROVE WaitInv'
  <1> USE DEF WaitInv, WaitTypes
  <1>1. UNCHANGED <<now, standing, informed, since, updates>> /\ wait = "waiting" /\ ids # {}
    BY DEF Wait!CheckJobs, Wait!jobVars
  <1>2. Wait!Found \in [Jobs -> Nat] /\ \A j \in Wait!Reported : Wait!Found[j] = informed[j] /\ informed[j] > 0
    BY DEF Wait!Found, Wait!Reported, OutcomesCounted, Wait!Terminal
  <1>3. CASE Wait!Evaluation = "error"
    <2>1. Wait!Returns /\ UNCHANGED <<observed, seen>>
      BY <1>3 DEF Wait!CheckJobs, Wait!shownVars
    <2> QED
      BY <1>1, <2>1, Returning DEF OutcomesCounted, Wait!Sound, Wait!DroppedWereShown, Wait!WasObserved
  <1>4. CASE Wait!Evaluation = "met"
    <2>1. Wait!Returns /\ Wait!ObserveOutcomes(Wait!Reported, Wait!Found, now) /\ Wait!Reported \subseteq Jobs
      BY <1>4 DEF Wait!CheckJobs, Wait!Reported
    <2> QED
      BY <1>1, <1>2, <2>1, Observes, Returning
  <1>5. CASE Wait!Evaluation \notin {"error", "met"}
    <2>1. outcomes' = Wait!Found /\ readAt' = now /\ UNCHANGED <<wait, ids, wanted, observed, seen>>
      BY <1>5 DEF Wait!CheckJobs, Wait!shownVars
    <2>2. \A j \in ids : standing[j] # "awaiting_answer"
      BY <1>5 DEF Wait!Evaluation, Wait!Matched, Wait!Awaiting
    <2>3. \E j \in ids : standing[j] = "running"
      BY <1>1, <1>5, <2>2 DEF Wait!Evaluation, Wait!Matched, Wait!Impossible, Wait!Ended, Wait!Terminal
    <2>4. Wait!WaitsForWhatCanCome'
      BY <1>1, <2>1, <2>3 DEF Wait!WaitsForWhatCanCome, Wait!Found, Wait!Reported, Wait!Terminal
    <2>5. OnlyEnds'
      BY <1>1, <2>1, <2>2 DEF OnlyEnds, Wait!Found, Wait!Reported, Wait!Terminal
    <2> QED
      BY <1>1, <1>2, <2>1, <2>4, <2>5 DEF OutcomesCounted, Wait!Sound, Wait!DroppedWereShown, Wait!WasObserved
  <1> QED
    BY <1>3, <1>4, <1>5

LEMMA WaitStep == WaitInv /\ [Wait!Next]_(Wait!vars) => WaitInv'
  <1> SUFFICES ASSUME WaitInv, [Wait!Next]_(Wait!vars) PROVE WaitInv'
    OBVIOUS
  <1> USE DEF WaitInv, WaitTypes, Wait!Sound, Wait!waitVars, Wait!shownVars, Wait!jobVars
  <1>1. CASE Wait!Tick
    BY <1>1 DEF Wait!Tick, OutcomesCounted, OnlyEnds, Wait!DroppedWereShown, Wait!WasObserved, Wait!WaitsForWhatCanCome, Wait!NoOutcomes
  <1>2. CASE Wait!Call
    <2>1. outcomes = Wait!NoOutcomes /\ ids' \subseteq Jobs
      BY <1>2 DEF Wait!Call, OnlyEnds
    <2> QED
      BY <1>2, <2>1 DEF Wait!Call, OutcomesCounted, OnlyEnds, Wait!DroppedWereShown, Wait!WasObserved, Wait!WaitsForWhatCanCome, Wait!NoOutcomes
  <1>3. CASE Wait!CheckJobs
    BY <1>3, Checked
  <1>4. CASE Wait!Evaluate
    BY <1>4 DEF Wait!Evaluate, OutcomesCounted, OnlyEnds, Wait!DroppedWereShown, Wait!WasObserved, Wait!WaitsForWhatCanCome, Wait!NoOutcomes
  <1>5. ASSUME Wait!Evaluated \/ Wait!Aborts PROVE WaitInv'
    <2>1. CASE Wait!Returns
      BY <1>5, <2>1, Returning DEF Wait!Evaluated, Wait!Aborts, OutcomesCounted, Wait!DroppedWereShown, Wait!WasObserved
    <2>2. CASE wait' = "waiting" /\ Wait!Evaluated /\ UNCHANGED <<ids, wanted, outcomes, readAt>>
      BY <2>2 DEF Wait!Evaluated, OutcomesCounted, OnlyEnds, Wait!DroppedWereShown, Wait!WasObserved, Wait!WaitsForWhatCanCome, Wait!NoOutcomes
    <2> QED
      BY <1>5, <2>1, <2>2 DEF Wait!Evaluated, Wait!Aborts
  <1>6. CASE Wait!TimesOut
    <2>1. PICK given \in SUBSET {j \in Jobs : outcomes[j] > 0} : Wait!ObserveOutcomes(given, outcomes, readAt)
      BY <1>6 DEF Wait!TimesOut
    <2>2. \A j \in given : outcomes[j] = informed[j] /\ informed[j] > 0
      BY <2>1 DEF OnlyEnds
    <2>3. Wait!Returns /\ UNCHANGED <<now, standing, informed, since, updates>> /\ given \in SUBSET Jobs
      BY <1>6, <2>1 DEF Wait!TimesOut
    <2> QED
      BY <2>1, <2>2, <2>3, Observes, Returning
  <1>7. ASSUME NEW j \in Jobs, Wait!JobAsks(j) \/ Wait!JobAnswered(j) \/ Wait!JobEnds(j) PROVE WaitInv'
    BY <1>7, JobMoves
  <1>8. ASSUME NEW j \in Jobs, Wait!Wake(j) PROVE WaitInv'
    <2>1. /\ updates' = [updates EXCEPT ![j] = 0] /\ since' = [since EXCEPT ![j] = 0]
          /\ seen' = (IF Wait!WasObserved(j) THEN seen ELSE [seen EXCEPT ![j] = updates[j]])
          /\ UNCHANGED <<now, standing, informed, wait, ids, outcomes, readAt, observed>>
      BY <1>8 DEF Wait!Wake
    <2>2. seen' \in [Jobs -> Nat] /\ \A i \in Jobs : i # j => seen'[i] = seen[i]
      BY <2>1
    <2> QED
      BY <2>1, <2>2 DEF OutcomesCounted, OnlyEnds, Wait!DroppedWereShown, Wait!WasObserved, Wait!WaitsForWhatCanCome, Wait!NoOutcomes
  <1>9. ASSUME NEW j, Wait!JobReady(j) PROVE WaitInv'
    BY <1>9 DEF Wait!JobReady, OutcomesCounted, OnlyEnds, Wait!DroppedWereShown, Wait!WasObserved, Wait!WaitsForWhatCanCome, Wait!NoOutcomes
  <1>10. CASE UNCHANGED Wait!vars
    BY <1>10 DEF Wait!vars, OutcomesCounted, OnlyEnds, Wait!DroppedWereShown, Wait!WasObserved, Wait!WaitsForWhatCanCome, Wait!NoOutcomes
  <1> QED
    BY <1>1, <1>2, <1>3, <1>4, <1>5, <1>6, <1>7, <1>8, <1>9, <1>10 DEF Wait!Next

\* wait-for and job-wake, for any number of jobs: an update that is dropped was shown to
\* the model, and a wait goes on only while one of its jobs can still end it.
THEOREM WaitsAreSound == Wait!Spec => []Wait!Sound
  <1>1. WaitInv => Wait!Sound
    BY DEF WaitInv
  <1> QED
    BY <1>1, WaitInit, WaitStep, PTL DEF Wait!Spec

-------------------------------------------------------------------------------
(* App tests                                                                 *)

CONSTANTS Contexts, Limit
VARIABLES life, states, browsers, dirs, trace, use, disposed

Tests == INSTANCE AppTest WITH op <- use

Creating(c) == use = [kind |-> "create", ctx |-> c]

TestTypes ==
  /\ life \in [Contexts -> {"none", "creating", "open", "closing", "stopped", "gone"}]
  /\ trace \in [Contexts -> {"none", "starting", "recording", "stopping"}]
  /\ states \subseteq Contexts /\ browsers \subseteq Contexts /\ dirs \subseteq Contexts
  /\ use = Tests!Idle \/ \E c \in Contexts, k \in {"create", "use", "close", "trace_start", "trace_stop"} :
                          use = [kind |-> k, ctx |-> c]
  /\ disposed \in {"no", "waiting", "closing", "done"}

\* How far each context is says what there is of it: the entry in the map from its creation
\* to the end of its close, the browser until the first step of its close, the directory
\* until the last, and a trace that is exported holds that last step up.
LivesAgree ==
  \A c \in Contexts :
    /\ life[c] = "creating" <=> Creating(c)
    /\ c \in states <=> life[c] \in {"open", "closing", "stopped"}
    /\ c \in browsers => life[c] \in {"creating", "open", "closing"}
    /\ c \in dirs => life[c] \notin {"none", "gone"}
    /\ trace[c] # "none" => life[c] \notin {"none", "creating"}
    /\ trace[c] = "stopping" => life[c] # "gone"

\* What takes one of the places that Limit counts.
Places == {c \in Contexts : c \in states \/ Creating(c)}

PlacesBounded == IsFiniteSet(Places) /\ Cardinality(Places) <= Limit

\* dispose begins when no call is under way, and ends when nothing is in the map.
Disposing ==
  /\ disposed \in {"closing", "done"} => use = Tests!Idle
  /\ disposed = "done" => states = {}

TestInv == TestTypes /\ LivesAgree /\ Disposing /\ PlacesBounded

LEMMA TestInit == ASSUME Limit \in Nat, Tests!Init PROVE TestInv
  <1>1. Places = {}
    BY DEF Places, Tests!Init, Creating, Tests!Idle
  <1>2. IsFiniteSet({}) /\ Cardinality({}) = 0
    BY FS_EmptySet
  <1>3. PlacesBounded
    BY <1>1, <1>2 DEF PlacesBounded
  <1> QED
    BY <1>3 DEF Tests!Init, TestInv, TestTypes, LivesAgree, Disposing, Creating, Tests!Idle

LEMMA SameTestCount == ASSUME NEW S PROVE Tests!Cardinality(S) = Cardinality(S)
  BY Zenon DEF Tests!Cardinality, Cardinality

\* Only a creation takes a place, and only while one is left.
LEMMA PlacesKept ==
  ASSUME Limit \in Nat, PlacesBounded, Places' \subseteq Places PROVE PlacesBounded'
  <1>1. IsFiniteSet(Places') /\ Cardinality(Places') <= Cardinality(Places)
    BY FS_Subset DEF PlacesBounded
  <1>2. Cardinality(Places) \in Nat /\ Cardinality(Places') \in Nat
    BY <1>1, FS_CardinalityType DEF PlacesBounded
  <1> QED
    BY <1>1, <1>2 DEF PlacesBounded

LEMMA Created ==
  ASSUME Limit \in Nat, TestInv, NEW c \in Contexts, Tests!Create(c) PROVE PlacesBounded'
  <1>1. use = Tests!Idle /\ Tests!Cardinality(states) < Limit /\ states' = states /\ use' = [kind |-> "create", ctx |-> c]
    BY DEF Tests!Create, Tests!Free
  <1>2. Places = states
    BY <1>1 DEF Places, Creating, Tests!Idle, TestInv, TestTypes
  <1>3. Places' = states \union {c}
    BY <1>1 DEF Places, Creating, TestInv, TestTypes
  <1>4. IsFiniteSet(states) /\ Cardinality(states) \in Nat /\ Cardinality(states) < Limit
    BY <1>1, <1>2, SameTestCount, FS_CardinalityType DEF TestInv, PlacesBounded
  <1>5. IsFiniteSet(states \union {c}) /\ Cardinality(states \union {c}) <= Cardinality(states) + 1
    <2>1. /\ IsFiniteSet(states \union {c})
          /\ Cardinality(states \union {c}) = IF c \in states THEN Cardinality(states) ELSE Cardinality(states) + 1
      BY <1>4, FS_AddElement, Zenon
    <2> QED
      BY <1>4, <2>1
  <1>6. Cardinality(states \union {c}) \in Nat
    BY <1>5, FS_CardinalityType
  <1> QED
    BY <1>3, <1>4, <1>5, <1>6 DEF PlacesBounded

LEMMA TestStep == ASSUME Limit \in Nat, TestInv, [Tests!Next]_(Tests!vars) PROVE TestInv'
  <1> USE DEF TestTypes, LivesAgree, Disposing, Creating, Tests!Idle, Tests!Free, Tests!Closed
  <1>0. TestTypes /\ LivesAgree /\ Disposing /\ PlacesBounded
    BY DEF TestInv
  <1>1. ASSUME TestTypes', LivesAgree', Disposing', Places' \subseteq Places PROVE TestInv'
    BY <1>0, <1>1, PlacesKept DEF TestInv
  <1>2. CASE Tests!Dispose
    BY <1>0, <1>1, <1>2 DEF Tests!Dispose, Places
  <1>3. ASSUME NEW c \in Contexts, Tests!Create(c) PROVE TestInv'
    <2>1. TestTypes' /\ LivesAgree' /\ Disposing'
      BY <1>0, <1>3 DEF Tests!Create
    <2> QED
      BY <1>3, <2>1, Created DEF TestInv
  <1>4. ASSUME NEW c \in Contexts, Tests!BrowserStarts(c) PROVE TestInv'
    BY <1>0, <1>1, <1>4 DEF Tests!BrowserStarts, Places
  <1>5. ASSUME NEW c \in Contexts, Tests!Created(c) PROVE TestInv'
    <2>1. states' = states \union {c} /\ use = [kind |-> "create", ctx |-> c]
      BY <1>5 DEF Tests!Created
    <2>2. /\ UNCHANGED <<browsers, dirs, trace, disposed>>
          /\ \/ life' = [life EXCEPT ![c] = "open"] /\ use' = Tests!Idle
             \/ life' = [life EXCEPT ![c] = "closing"] /\ use' = [kind |-> "close", ctx |-> c]
      BY <1>5 DEF Tests!Created
    <2>3. TestTypes' /\ Disposing'
      BY <1>0, <2>1, <2>2
    <2>4. LivesAgree'
      <3>1. use'.kind # "create" /\ life[c] = "creating" /\ life' \in [Contexts -> {"none", "creating", "open", "closing", "stopped", "gone"}]
        BY <1>0, <2>1, <2>2
      <3>2. life'[c] \in {"open", "closing"} /\ \A d \in Contexts \ {c} : life'[d] = life[d] /\ life[d] # "creating"
        <4>1. life'[c] \in {"open", "closing"} /\ \A d \in Contexts \ {c} : life'[d] = life[d]
          BY <1>0, <2>2
        <4>2. \A d \in Contexts \ {c} : ~Creating(d)
          BY <2>1
        <4> QED
          BY <1>0, <4>1, <4>2
      <3>3. \A d \in Contexts : ~Creating(d)'
        BY <3>1
      <3>4. \A d \in Contexts \ {c} : d \in states' <=> d \in states
        BY <2>1
      <3> SUFFICES ASSUME NEW d \in Contexts
                   PROVE  /\ life'[d] = "creating" <=> Creating(d)'
                          /\ d \in states' <=> life'[d] \in {"open", "closing", "stopped"}
                          /\ d \in browsers' => life'[d] \in {"creating", "open", "closing"}
                          /\ d \in dirs' => life'[d] \notin {"none", "gone"}
                          /\ trace'[d] # "none" => life'[d] \notin {"none", "creating"}
                          /\ trace'[d] = "stopping" => life'[d] # "gone"
        OBVIOUS
      <3>5. CASE d = c
        BY <2>1, <2>2, <3>2, <3>3, <3>5
      <3>6. CASE d # c
        BY <1>0, <2>2, <3>2, <3>3, <3>4, <3>6
      <3> QED
        BY <3>5, <3>6
    <2>5. Places' \subseteq Places
      BY <1>0, <2>1, <2>2 DEF Places
    <2> QED
      BY <1>1, <2>3, <2>4, <2>5
  <1>6. ASSUME NEW c \in Contexts, Tests!CreateFails(c) PROVE TestInv'
    BY <1>0, <1>1, <1>6 DEF Tests!CreateFails, Places
  <1>7. ASSUME NEW c \in Contexts, Tests!Use(c) PROVE TestInv'
    BY <1>0, <1>1, <1>7 DEF Tests!Use, Places
  <1>8. ASSUME NEW c \in Contexts, Tests!Returns(c) PROVE TestInv'
    BY <1>0, <1>1, <1>8 DEF Tests!Returns, Places
  <1>9. ASSUME NEW c \in Contexts, Tests!TraceStarted(c) PROVE TestInv'
    BY <1>0, <1>1, <1>9 DEF Tests!TraceStarted, Places
  <1>10. ASSUME NEW c \in Contexts, Tests!Abort(c) PROVE TestInv'
    BY <1>0, <1>1, <1>10 DEF Tests!Abort, Places
  <1>11. ASSUME NEW c \in Contexts, Tests!TraceTimer(c) PROVE TestInv'
    BY <1>0, <1>1, <1>11 DEF Tests!TraceTimer, Places
  <1>12. ASSUME NEW c \in Contexts, Tests!TraceStopped(c) PROVE TestInv'
    BY <1>0, <1>1, <1>12 DEF Tests!TraceStopped, Places
  <1>13. ASSUME NEW c \in Contexts, Tests!BrowserCloses(c) PROVE TestInv'
    BY <1>0, <1>1, <1>13 DEF Tests!BrowserCloses, Places
  <1>14. ASSUME NEW c \in Contexts, Tests!CloseEnds(c) PROVE TestInv'
    BY <1>0, <1>1, <1>14 DEF Tests!CloseEnds, Places
  <1>15. CASE UNCHANGED Tests!vars
    BY <1>0, <1>1, <1>15 DEF Tests!vars, Places
  <1> QED
    BY <1>2, <1>3, <1>4, <1>5, <1>6, <1>7, <1>8, <1>9, <1>10, <1>11, <1>12, <1>13, <1>14, <1>15 DEF Tests!Next

LEMMA TestSound == ASSUME Limit \in Nat, TestInv PROVE Tests!NothingLeft
  <1>1. browsers \subseteq Places
    BY DEF TestInv, TestTypes, LivesAgree, Places
  <1>2. IsFiniteSet(browsers) /\ Cardinality(browsers) <= Cardinality(Places)
    BY <1>1, FS_Subset DEF TestInv, PlacesBounded
  <1>3. Cardinality(browsers) \in Nat /\ Cardinality(Places) \in Nat
    BY <1>2, FS_CardinalityType DEF TestInv, PlacesBounded
  <1>4. Tests!Cardinality(browsers) <= Limit
    BY <1>2, <1>3, SameTestCount DEF TestInv, PlacesBounded
  <1>5. browsers \subseteq states \union {use.ctx}
    BY <1>1 DEF Places, Creating
  <1>6. \A c \in Contexts : life[c] = "gone" => c \notin browsers \union dirs
    BY DEF TestInv, LivesAgree
  <1>7. disposed = "done" => browsers = {} /\ dirs = {} /\ use = Tests!Idle
    BY DEF TestInv, TestTypes, LivesAgree, Disposing, Creating, Tests!Idle
  <1> QED
    BY <1>4, <1>5, <1>6, <1>7 DEF Tests!NothingLeft

\* AppTestRuntime, for any number of contexts and any limit: however calls are aborted,
\* lifetimes end, traces are exported and the session is disposed of, no more browsers run
\* than are allowed, and nothing is left of a context that is closed.
THEOREM ContextsLeaveNothing == ASSUME Limit \in Nat PROVE Tests!Spec => []Tests!NothingLeft
  <1>1. Tests!Init => TestInv
    BY TestInit
  <1>2. TestInv /\ [Tests!Next]_(Tests!vars) => TestInv'
    BY TestStep
  <1>3. TestInv => Tests!NothingLeft
    BY TestSound
  <1> QED
    BY <1>1, <1>2, <1>3, PTL DEF Tests!Spec

-------------------------------------------------------------------------------
(* Safe edits                                                                *)

CONSTANTS FileTexts, Permissions, Inodes, MaxKept, MaxEditCalls, MaxOutside
VARIABLES onDisk, link, previews, edit, copied, answer, made, outside, swap

Edits == INSTANCE SafeEdit WITH
  Texts <- FileTexts, Modes <- Permissions, MaxCalls <- MaxEditCalls,
  disk <- onDisk, call <- edit, tmp <- copied, reply <- answer, calls <- made

Shown == [id : Nat, file : Edits!Files, before : FileTexts \union {Edits!Bad}, after : FileTexts \union {Edits!Bad},
          ino : Inodes, mode : Permissions]
Stages == {"first path", "first read", "write", "second path", "second read", "rename"}
Asked == [at : {"asked"}, file : Edits!Files, after : FileTexts \union {Edits!Bad}, expected : FileTexts \union {Edits!Bad}]
Applies == [at : Stages, preview : Shown, aborted : BOOLEAN, turned : BOOLEAN, touched : BOOLEAN]

EditTypes ==
  /\ link \in Edits!Files \union {Edits!Away}
  /\ onDisk \in [Edits!Files -> Edits!Held] /\ made \in Nat
  /\ previews \subseteq Shown /\ (edit = Edits!NoCall \/ edit \in Asked \/ edit \in Applies)
  /\ swap # Edits!NoSwap => swap.id \in Nat

\* An id is the number of its call: no id is given twice.
IdsFresh ==
  /\ \A p \in previews : p.id <= made /\ (edit.at = "asked" => p.id < made)
  /\ swap # Edits!NoSwap => swap.id <= made /\ (edit.at = "asked" => swap.id < made)
  /\ edit \in Applies => edit.preview.id <= made

\* What the second check found is so until another program changes it.
SecondCheck ==
  /\ edit.at \in {"second read", "rename"} /\ ~edit.turned => link = edit.preview.file
  /\ edit.at = "rename" /\ ~edit.touched => Edits!Same(onDisk[edit.preview.file], edit.preview)

CopyIsShort == copied => edit.at \in {"second path", "second read", "rename"}

EditInv == EditTypes /\ IdsFresh /\ SecondCheck /\ CopyIsShort /\ Edits!Sound

\* The await tells what a call is.
LEMMA EditKinds ==
  /\ Edits!NoCall.at = "idle"
  /\ \A c \in Asked : c.at = "asked" /\ c # Edits!NoCall /\ c \notin Applies
  /\ \A c \in Applies : c.at \in Stages /\ c.at \notin {"idle", "asked"} /\ c # Edits!NoCall
  <1>1. Edits!NoCall.at = "idle"
    BY DEF Edits!NoCall
  <1>2. \A c \in Asked : c.at = "asked"
    BY DEF Asked
  <1>3. \A c \in Applies : c.at \in Stages
    BY DEF Applies
  <1>4. "idle" \notin Stages /\ "asked" \notin Stages
    BY DEF Stages
  <1> QED
    BY <1>1, <1>2, <1>3, <1>4

LEMMA EditInit == Edits!Init => EditInv
  <1> SUFFICES ASSUME Edits!Init PROVE EditInv
    OBVIOUS
  <1>1. onDisk \in [Edits!Files -> Edits!Held]
    BY DEF Edits!Init, Edits!Held
  <1>2. /\ edit = Edits!NoCall /\ edit.at = "idle" /\ edit \notin Applies
        /\ swap = Edits!NoSwap /\ previews = {} /\ made = 0 /\ ~copied /\ link \in Edits!Files
    BY EditKinds DEF Edits!Init, Edits!Files
  <1>3. EditTypes /\ IdsFresh
    BY <1>1, <1>2 DEF EditTypes, IdsFresh
  <1>4. SecondCheck /\ CopyIsShort /\ Edits!Sound
    BY <1>2 DEF SecondCheck, CopyIsShort, Edits!Sound, Edits!ReplacesWhatWasShown, Edits!AppliedOnce
  <1> QED
    BY <1>3, <1>4 DEF EditInv

LEMMA EditShapes ==
  ASSUME EditTypes
  PROVE  /\ edit.at = "asked" => edit \in Asked
         /\ edit.at \in Stages => edit \in Applies
         /\ edit.at \notin Stages \union {"asked"} => edit = Edits!NoCall
  BY EditKinds DEF EditTypes, Stages

\* The awaits of an application, as names.
LEMMA StageNames == {"first path", "first read", "write", "second path", "second read", "rename"} \subseteq Stages
  BY DEF Stages

EditCore == EditTypes /\ IdsFresh /\ SecondCheck /\ CopyIsShort

\* A call ends, and takes the copy away if it made one.
LEMMA EditEnds ==
  ASSUME EditCore, edit' = Edits!NoCall, copied' = FALSE, previews' \subseteq previews, made' \in {made, made + 1},
         UNCHANGED <<onDisk, link, swap>>
  PROVE  EditCore'
  <1>1. edit'.at = "idle" /\ edit' \notin Applies
    BY EditKinds
  <1>2. EditTypes'
    BY DEF EditCore, EditTypes
  <1>3. IdsFresh'
    BY <1>1 DEF EditCore, EditTypes, IdsFresh, Shown
  <1> QED
    BY <1>1, <1>2, <1>3 DEF EditCore, SecondCheck, CopyIsShort

\* A call under way comes to its next await.
LEMMA EditAdvances ==
  ASSUME EditCore, edit \in Applies, edit' \in Applies, edit'.preview = edit.preview,
         UNCHANGED <<onDisk, link, previews, made, swap>>, SecondCheck', CopyIsShort'
  PROVE  EditCore'
  <1>1. edit'.at # "asked"
    BY DEF Applies, Stages
  <1> QED
    BY <1>1 DEF EditCore, EditTypes, IdsFresh

\* A call that begins has the next number, and forgets previews.
LEMMA CallBegins ==
  ASSUME EditCore, made' = made + 1, previews' \subseteq previews, UNCHANGED <<onDisk, link, swap>>
  PROVE  /\ edit' = Edits!NoCall \/ edit' \in Asked \/ edit' \in Applies => EditTypes'
         /\ \A p \in previews' : p.id < made'
         /\ swap' # Edits!NoSwap => swap'.id < made'
         /\ \A p \in previews : p.id <= made'
  <1>1. made' \in Nat /\ made \in Nat
    BY DEF EditCore, EditTypes
  <1>2. link' \in Edits!Files \union {Edits!Away} /\ onDisk' \in [Edits!Files -> Edits!Held]
    BY DEF EditCore, EditTypes
  <1>3. previews' \subseteq Shown /\ (swap' # Edits!NoSwap => swap'.id \in Nat)
    BY DEF EditCore, EditTypes
  <1>4. \A q \in previews : q.id \in Nat /\ q.id <= made
    BY DEF EditCore, EditTypes, IdsFresh, Shown
  <1>5. swap # Edits!NoSwap => swap.id \in Nat /\ swap.id <= made
    BY DEF EditCore, EditTypes, IdsFresh
  <1> QED
    BY <1>1, <1>2, <1>3, <1>4, <1>5 DEF EditTypes

LEMMA PreviewAsked == ASSUME EditCore, Edits!AskPreview PROVE EditCore'
  <1>1. previews' \subseteq previews /\ made' = made + 1 /\ edit = Edits!NoCall /\ UNCHANGED <<onDisk, link, copied, swap>>
    BY DEF Edits!AskPreview, Edits!Pruned
  <1>2. copied = FALSE \/ ~copied
    BY <1>1 DEF EditCore, CopyIsShort, Edits!NoCall
  <1>3. edit' = Edits!NoCall \/ edit' \in Asked
    BY DEF Edits!AskPreview, Edits!Ends, Asked, EditCore, EditTypes, Edits!Files, Edits!Away
  <1>4. EditTypes' /\ edit'.at \notin Stages
    <2>1. edit'.at \in {"idle", "asked"}
      BY <1>3, EditKinds
    <2>2. EditTypes'
      BY <1>1, <1>3, CallBegins
    <2> QED
      BY <2>1, <2>2 DEF Stages
  <1>5. edit' \notin Applies
    BY <1>4 DEF Applies
  <1>6. IdsFresh'
    <2>1. made' \in Nat /\ (\A p \in previews' : p.id \in Nat) /\ (swap' # Edits!NoSwap => swap'.id \in Nat)
      BY <1>4 DEF EditTypes, Shown
    <2> QED
      BY <1>1, <1>5, <2>1, CallBegins DEF IdsFresh
  <1> QED
    BY <1>1, <1>2, <1>4, <1>6 DEF EditCore, SecondCheck, CopyIsShort, Stages

LEMMA PreviewKept == ASSUME EditCore, Edits!KeepPreview PROVE EditCore'
  <1>1. edit \in Asked /\ edit.at = "asked" /\ edit' = Edits!NoCall /\ UNCHANGED <<onDisk, link, copied, made, swap>>
    BY EditShapes DEF Edits!KeepPreview, Edits!Ends, EditCore
  <1> DEFINE new == [id |-> made, file |-> edit.file, before |-> onDisk[edit.file].text, after |-> edit.after,
                     ino |-> onDisk[edit.file].ino, mode |-> onDisk[edit.file].mode]
  <1>2. previews' \subseteq previews \union {new}
    BY DEF Edits!KeepPreview
  <1>3. edit.file \in Edits!Files /\ edit.after \in FileTexts \union {Edits!Bad}
    BY <1>1 DEF Asked
  <1>4. onDisk[edit.file] \in Edits!Held
    BY <1>3 DEF EditCore, EditTypes
  <1>5. new \in Shown /\ new.id = made
    BY <1>3, <1>4 DEF EditCore, EditTypes, Edits!Held, Shown
  <1> HIDE DEF new
  <1>6. EditTypes'
    BY <1>1, <1>2, <1>5 DEF EditCore, EditTypes
  <1>7. edit'.at = "idle" /\ edit' \notin Applies
    BY <1>1, EditKinds
  <1>8. IdsFresh'
    BY <1>1, <1>2, <1>5, <1>7 DEF EditCore, EditTypes, IdsFresh, Shown
  <1> QED
    BY <1>1, <1>6, <1>7, <1>8 DEF EditCore, SecondCheck, CopyIsShort

LEMMA ApplyAsked == ASSUME EditCore, Edits!AskApply PROVE EditCore'
  <1>1. edit = Edits!NoCall /\ made' = made + 1 /\ previews' \subseteq previews /\ UNCHANGED <<onDisk, link, copied, swap>> /\ ~copied
    BY DEF Edits!AskApply, Edits!Pruned, EditCore, CopyIsShort, Edits!NoCall
  <1>2. edit' = Edits!NoCall \/ \E p \in previews :
          edit' = [at |-> "first path", preview |-> p, aborted |-> FALSE, turned |-> FALSE, touched |-> FALSE]
    <2>1. PICK kept \in Edits!Pruned, id \in 1 .. made :
            \/ edit' = Edits!NoCall
            \/ /\ Edits!Found(kept, id)
               /\ edit' = [at |-> "first path", preview |-> Edits!Get(kept, id), aborted |-> FALSE, turned |-> FALSE,
                           touched |-> FALSE]
      BY <1>1 DEF Edits!AskApply, Edits!Ends
    <2>2. kept \subseteq previews
      BY DEF Edits!Pruned
    <2>3. Edits!Found(kept, id) => Edits!Get(kept, id) \in previews
      BY <2>2 DEF Edits!Found, Edits!Get
    <2> QED
      BY <2>1, <2>3
  <1>3. CASE edit' = Edits!NoCall
    <2>1. edit'.at = "idle" /\ edit' \notin Applies
      BY <1>3, EditKinds
    <2> QED
      BY <1>1, <1>3, <2>1 DEF EditCore, EditTypes, IdsFresh, SecondCheck, CopyIsShort, Shown
  <1>4. ASSUME NEW p \in previews,
               edit' = [at |-> "first path", preview |-> p, aborted |-> FALSE, turned |-> FALSE, touched |-> FALSE]
        PROVE  EditCore'
    <2>1. p \in Shown
      BY DEF EditCore, EditTypes
    <2>2. edit' \in Applies /\ edit'.preview = p /\ edit'.at = "first path"
      BY <1>4, <2>1, StageNames DEF Applies
    <2>3. EditTypes'
      BY <1>1, <2>2, CallBegins
    <2>4. IdsFresh'
      <3>1. made' \in Nat /\ (\A q \in previews' : q.id \in Nat) /\ (swap' # Edits!NoSwap => swap'.id \in Nat)
        BY <2>3 DEF EditTypes, Shown
      <3>2. edit'.at # "asked" /\ edit'.preview.id <= made'
        BY <1>1, <2>2, CallBegins
      <3> QED
        BY <1>1, <3>1, <3>2, CallBegins DEF IdsFresh
    <2> QED
      BY <1>1, <2>2, <2>3, <2>4 DEF EditCore, SecondCheck, CopyIsShort
  <1> QED
    BY <1>2, <1>3, <1>4

LEMMA PathChecked ==
  ASSUME EditCore, NEW at, NEW then,
         (at = "first path" /\ then = "first read") \/ (at = "second path" /\ then = "second read"), Edits!CheckPath(at, then)
  PROVE  EditCore'
  <1>1. edit \in Applies /\ edit.at = at /\ UNCHANGED <<onDisk, link, previews, made, swap>>
    BY EditShapes DEF Edits!CheckPath, EditCore, Stages
  <1>2. CASE edit' = Edits!NoCall /\ copied' = FALSE
    BY <1>1, <1>2, EditEnds
  <1>3. CASE ~(edit.aborted \/ link # edit.preview.file)
    <2>1. edit' = [edit EXCEPT !.at = then, !.turned = FALSE] /\ copied' = copied /\ then \in Stages
      BY <1>3 DEF Edits!CheckPath, Stages
    <2>2. edit' \in Applies /\ edit'.preview = edit.preview /\ edit'.at = then
      BY <1>1, <2>1 DEF Applies
    <2>3. SecondCheck' /\ CopyIsShort'
      BY <1>1, <1>3, <2>1, <2>2 DEF EditCore, SecondCheck, CopyIsShort
    <2> QED
      BY <1>1, <2>2, <2>3, EditAdvances
  <1> QED
    BY <1>2, <1>3 DEF Edits!CheckPath, Edits!Ends

LEMMA FileChecked ==
  ASSUME EditCore, NEW at, NEW then,
         (at = "first read" /\ then = "write") \/ (at = "second read" /\ then = "rename"), Edits!CheckFile(at, then)
  PROVE  EditCore'
  <1>1. edit \in Applies /\ edit.at = at /\ UNCHANGED <<onDisk, link, made, swap>> /\ previews' \subseteq previews
    BY EditShapes DEF Edits!CheckFile, EditCore, Stages, Edits!Without
  <1>2. CASE edit' = Edits!NoCall
    <2>1. ~copied'
      <3>1. [edit EXCEPT !.at = then, !.touched = FALSE].at = then
        BY <1>1 DEF Applies
      <3>2. [edit EXCEPT !.at = then, !.touched = FALSE] # Edits!NoCall
        BY <3>1, EditKinds
      <3>3. copied' = FALSE \/ (at = "first read" /\ copied' = copied)
        BY <1>2, <3>2 DEF Edits!CheckFile
      <3> QED
        BY <1>1, <3>3 DEF EditCore, CopyIsShort
    <2>2. edit'.at = "idle" /\ edit' \notin Applies
      BY <1>2, EditKinds
    <2> QED
      BY <1>1, <1>2, <2>1, <2>2 DEF EditCore, EditTypes, IdsFresh, SecondCheck, CopyIsShort, Shown
  <1>3. CASE edit' # Edits!NoCall
    <2>1. /\ edit' = [edit EXCEPT !.at = then, !.touched = FALSE] /\ UNCHANGED <<previews, copied>>
          /\ Edits!Same(onDisk[edit.preview.file], edit.preview)
      BY <1>3 DEF Edits!CheckFile, Edits!Ends
    <2>2. then \in Stages
      BY StageNames
    <2>3. edit' \in Applies /\ edit'.preview = edit.preview /\ edit'.at = then /\ edit'.turned = edit.turned
      BY <1>1, <2>1, <2>2 DEF Applies
    <2>4. SecondCheck' /\ CopyIsShort'
      BY <1>1, <2>1, <2>3 DEF EditCore, SecondCheck, CopyIsShort, Edits!Same
    <2> QED
      BY <1>1, <2>1, <2>3, <2>4, EditAdvances
  <1> QED
    BY <1>2, <1>3

LEMMA CopyMoves == ASSUME EditCore, Edits!WriteCopy \/ Edits!Abort PROVE EditCore'
  <1>1. edit \in Applies /\ UNCHANGED <<onDisk, link, previews, made, swap>>
    BY EditShapes DEF Edits!WriteCopy, Edits!Abort, Edits!Applying, EditCore, Stages
  <1>2. CASE Edits!WriteCopy
    <2>1. edit' = [edit EXCEPT !.at = "second path"]
      BY <1>2 DEF Edits!WriteCopy
    <2>2. edit' \in Applies /\ edit'.preview = edit.preview /\ edit'.at = "second path"
      BY <1>1, <2>1, StageNames DEF Applies
    <2> QED
      BY <1>1, <2>2, EditAdvances DEF SecondCheck, CopyIsShort
  <1>3. CASE Edits!Abort
    <2>1. edit' = [edit EXCEPT !.aborted = TRUE] /\ copied' = copied
      BY <1>3 DEF Edits!Abort
    <2>2. /\ edit' \in Applies /\ edit'.preview = edit.preview /\ edit'.at = edit.at /\ edit'.turned = edit.turned
          /\ edit'.touched = edit.touched
      BY <1>1, <2>1 DEF Applies
    <2>3. SecondCheck' /\ CopyIsShort'
      BY <1>1, <2>1, <2>2 DEF EditCore, SecondCheck, CopyIsShort, Edits!Same
    <2> QED
      BY <1>1, <2>2, <2>3, EditAdvances
  <1> QED
    BY <1>2, <1>3

LEMMA Renamed == ASSUME EditCore, Edits!Rename PROVE EditCore'
  <1>1. edit \in Applies /\ edit.at = "rename" /\ edit' = Edits!NoCall /\ copied' = FALSE /\ UNCHANGED <<link, made>>
    BY EditShapes DEF Edits!Rename, Edits!Ends, EditCore, Stages
  <1>2. CASE edit.aborted
    BY <1>1, <1>2, EditEnds DEF Edits!Rename
  <1>3. CASE ~edit.aborted
    <2> DEFINE p == edit.preview
    <2>1. p \in Shown
      BY <1>1 DEF Applies
    <2>2. swap'.id = p.id /\ previews' \subseteq previews
      BY <1>3 DEF Edits!Rename, Edits!Without
    <2>3. PICK ino \in Edits!Free : onDisk' = [onDisk EXCEPT ![p.file] = [text |-> p.after, ino |-> ino, mode |-> p.mode]]
      BY <1>3 DEF Edits!Rename
    <2>4. [text |-> p.after, ino |-> ino, mode |-> p.mode] \in Edits!Held
      BY <2>1 DEF Shown, Edits!Held, Edits!Free
    <2>5. EditTypes'
      BY <1>1, <2>1, <2>2, <2>3, <2>4 DEF EditCore, EditTypes, Shown
    <2>6. IdsFresh'
      BY <1>1, <2>1, <2>2 DEF EditCore, EditTypes, IdsFresh, Edits!NoCall, Applies, Stages
    <2> QED
      BY <1>1, <2>5, <2>6 DEF EditCore, SecondCheck, CopyIsShort, Edits!NoCall
  <1> QED
    BY <1>2, <1>3

\* Other programs: what they do to the file or the path of a call is noted in it.
LEMMA OutsideMoves == ASSUME EditCore, Edits!OutsideWrite \/ Edits!OutsideTurn PROVE EditCore'
  <1>1. UNCHANGED <<previews, copied, made, swap>>
    BY DEF Edits!OutsideWrite, Edits!OutsideTurn
  <1>2. onDisk' \in [Edits!Files -> Edits!Held] /\ link' \in Edits!Files \union {Edits!Away}
    BY DEF Edits!OutsideWrite, Edits!OutsideTurn, EditCore, EditTypes
  <1>3. CASE edit.at \notin Stages
    <2>1. edit' = edit
      BY <1>3 DEF Edits!OutsideWrite, Edits!OutsideTurn, Edits!Applying, Stages
    <2> QED
      BY <1>1, <1>2, <1>3, <2>1 DEF EditCore, EditTypes, IdsFresh, SecondCheck, CopyIsShort, Stages
  <1>4. CASE edit.at \in Stages
    <2>1. edit \in Applies
      BY <1>4, EditShapes DEF EditCore
    <2>2. CASE Edits!OutsideTurn
      <3>1. edit' = [edit EXCEPT !.turned = TRUE] /\ onDisk' = onDisk
        BY <1>4, <2>2 DEF Edits!OutsideTurn, Edits!Applying, Stages
      <3>2. edit' \in Applies /\ edit'.preview = edit.preview /\ edit'.at = edit.at /\ edit'.turned /\ edit'.touched = edit.touched
        BY <2>1, <3>1 DEF Applies
      <3> QED
        BY <1>1, <1>2, <2>1, <3>1, <3>2 DEF EditCore, EditTypes, IdsFresh, SecondCheck, CopyIsShort, Edits!Same
    <2>3. CASE Edits!OutsideWrite
      <3>1. PICK f \in Edits!Files, h \in Edits!Held :
              /\ onDisk' = [onDisk EXCEPT ![f] = h]
              /\ edit' = IF edit.preview.file = f THEN [edit EXCEPT !.touched = TRUE] ELSE edit
        BY <1>4, <2>3 DEF Edits!OutsideWrite, Edits!Applying, Stages
      <3>2. link' = link
        BY <2>3 DEF Edits!OutsideWrite
      <3>3. CASE edit.preview.file = f
        <4>1. edit' = [edit EXCEPT !.touched = TRUE]
          BY <3>1, <3>3
        <4>2. edit' \in Applies /\ edit'.preview = edit.preview /\ edit'.at = edit.at /\ edit'.turned = edit.turned /\ edit'.touched
          BY <2>1, <4>1 DEF Applies
        <4> QED
          BY <1>1, <1>2, <2>1, <3>2, <4>2 DEF EditCore, EditTypes, IdsFresh, SecondCheck, CopyIsShort
      <3>4. CASE edit.preview.file # f
        <4>1. edit' = edit /\ onDisk'[edit.preview.file] = onDisk[edit.preview.file]
          BY <2>1, <3>1, <3>4 DEF EditCore, EditTypes, Applies, Shown
        <4> QED
          BY <1>1, <1>2, <2>1, <3>2, <4>1 DEF EditCore, EditTypes, IdsFresh, SecondCheck, CopyIsShort, Edits!Same
      <3> QED
        BY <3>3, <3>4
    <2> QED
      BY <2>2, <2>3
  <1> QED
    BY <1>3, <1>4

LEMMA CoreKept == EditCore /\ Edits!Next => EditCore'
  <1> SUFFICES ASSUME EditCore, Edits!Next PROVE EditCore'
    OBVIOUS
  <1>1. CASE Edits!CallFails
    BY <1>1, EditEnds DEF Edits!CallFails, Edits!Ends
  <1>2. CASE Edits!Clear
    BY <1>2 DEF Edits!Clear, EditCore, EditTypes, IdsFresh, SecondCheck, CopyIsShort, Edits!Same
  <1>3. CASE Edits!Check
    <2>1. CASE Edits!CheckPath("first path", "first read")
      BY <2>1, PathChecked
    <2>2. CASE Edits!CheckPath("second path", "second read")
      BY <2>2, PathChecked
    <2>3. CASE Edits!CheckFile("first read", "write")
      BY <2>3, FileChecked
    <2>4. CASE Edits!CheckFile("second read", "rename")
      BY <2>4, FileChecked
    <2> QED
      BY <1>3, <2>1, <2>2, <2>3, <2>4 DEF Edits!Check
  <1>4. CASE Edits!AskPreview \/ Edits!KeepPreview \/ Edits!AskApply \/ Edits!Rename
    BY <1>4, PreviewAsked, PreviewKept, ApplyAsked, Renamed
  <1>5. CASE Edits!WriteCopy \/ Edits!Abort \/ Edits!OutsideWrite \/ Edits!OutsideTurn
    BY <1>5, CopyMoves, OutsideMoves
  <1> QED
    BY <1>1, <1>2, <1>3, <1>4, <1>5 DEF Edits!Next

\* A rename is the only step that writes the history, and takes its preview away; a
\* preview that is kept later has the number of its own call.
LEMMA EditSoundKept == EditInv /\ Edits!Next => Edits!Sound'
  <1> SUFFICES ASSUME EditInv, Edits!Next PROVE Edits!Sound'
    OBVIOUS
  <1>1. CopyIsShort'
    BY CoreKept DEF EditInv, EditCore
  <1>2. Edits!NoCall.at = "idle"
    BY DEF Edits!NoCall
  <1>3. (edit = Edits!NoCall => ~copied)'
    BY <1>1, <1>2 DEF CopyIsShort
  <1>4. CASE UNCHANGED <<previews, swap>>
    BY <1>3, <1>4 DEF EditInv, Edits!Sound, Edits!ReplacesWhatWasShown, Edits!AppliedOnce, Edits!Found
  <1>5. CASE previews' \subseteq previews /\ UNCHANGED swap
    BY <1>3, <1>5 DEF EditInv, Edits!Sound, Edits!ReplacesWhatWasShown, Edits!AppliedOnce, Edits!Found
  <1>6. CASE Edits!KeepPreview
    <2>1. UNCHANGED swap /\ \A p \in previews' : p \in previews \/ p.id = made
      BY <1>6 DEF Edits!KeepPreview
    <2>2. swap # Edits!NoSwap => swap.id < made /\ swap.id \in Nat /\ made \in Nat
      BY <1>6 DEF Edits!KeepPreview, EditInv, IdsFresh, EditTypes
    <2> QED
      BY <1>3, <2>1, <2>2 DEF EditInv, Edits!Sound, Edits!ReplacesWhatWasShown, Edits!AppliedOnce, Edits!Found
  <1>7. CASE Edits!Rename /\ ~edit.aborted
    <2> DEFINE p == edit.preview
    <2>1. edit \in Applies /\ edit.at = "rename"
      BY <1>7 DEF Edits!Rename, EditInv, EditTypes, Edits!NoCall, Asked
    <2>2. /\ swap' = [id |-> p.id, preview |-> p, was |-> onDisk[p.file], through |-> link,
                      turned |-> edit.turned, touched |-> edit.touched]
          /\ previews' = Edits!Without(previews, p.id)
      BY <1>7 DEF Edits!Rename
    <2>3. ~edit.touched => onDisk[p.file] = [text |-> p.before, ino |-> p.ino, mode |-> p.mode]
      <3>1. onDisk[p.file] \in Edits!Held
        BY <2>1 DEF Applies, Shown, EditInv, EditTypes
      <3> QED
        BY <2>1, <3>1 DEF EditInv, SecondCheck, Edits!Same, Edits!Held
    <2>4. ~edit.turned => link = p.file
      BY <2>1 DEF EditInv, SecondCheck
    <2>5. Edits!ReplacesWhatWasShown'
      BY <2>2, <2>3, <2>4 DEF Edits!ReplacesWhatWasShown
    <2>6. ~Edits!Found(previews, swap.id)'
      BY <2>2 DEF Edits!Found, Edits!Without
    <2> QED
      BY <1>3, <2>5, <2>6 DEF Edits!Sound, Edits!AppliedOnce
  <1>8. (previews' \subseteq previews /\ UNCHANGED swap) \/ Edits!KeepPreview \/ (Edits!Rename /\ ~edit.aborted)
    BY DEF Edits!Next, Edits!Check, Edits!AskPreview, Edits!AskApply, Edits!CheckPath, Edits!CheckFile, Edits!WriteCopy,
           Edits!Rename, Edits!CallFails, Edits!Abort, Edits!Clear, Edits!OutsideWrite, Edits!OutsideTurn, Edits!Pruned, Edits!Without
  <1> QED
    BY <1>5, <1>6, <1>7, <1>8

LEMMA EditStep == EditInv /\ [Edits!Next]_(Edits!vars) => EditInv'
  <1> SUFFICES ASSUME EditInv, [Edits!Next]_(Edits!vars) PROVE EditInv'
    OBVIOUS
  <1>1. CASE Edits!Next
    BY <1>1, CoreKept, EditSoundKept DEF EditInv, EditCore
  <1>2. CASE UNCHANGED Edits!vars
    <2>0. /\ onDisk' = onDisk /\ link' = link /\ previews' = previews /\ edit' = edit /\ made' = made
          /\ swap' = swap /\ copied' = copied
      BY <1>2 DEF Edits!vars
    <2>1. EditTypes' /\ IdsFresh'
      BY <2>0 DEF EditInv, EditTypes, IdsFresh
    <2>2. SecondCheck' /\ CopyIsShort'
      BY <2>0 DEF EditInv, SecondCheck, CopyIsShort, Edits!Same
    <2>3. Edits!Sound'
      BY <2>0 DEF EditInv, Edits!Sound, Edits!ReplacesWhatWasShown, Edits!AppliedOnce, Edits!Found
    <2> QED
      BY <2>1, <2>2, <2>3 DEF EditInv
  <1> QED
    BY <1>1, <1>2

\* safe-edit/state.ts, for any files, programs and number of previews: a rename replaces
\* what its preview showed unless another program came after the last check, a preview is
\* applied once, and no copy stays beside the file.
THEOREM EditsAreSafe == Edits!Spec => []Edits!Sound
  <1>1. EditInv => Edits!Sound
    BY DEF EditInv
  <1> QED
    BY <1>1, EditInit, EditStep, PTL DEF Edits!Spec

-------------------------------------------------------------------------------
(* Deep research                                                             *)

CONSTANTS Questions, Sites, MaxRanked, Lanes
VARIABLES leg, quick, fetchCount, todo, running, attempts, found, ranked, fetched, halted, bundle

Study == INSTANCE Research WITH
  Queries <- Questions, Urls <- Sites, MaxSources <- MaxRanked, Concurrency <- Lanes, phase <- leg, aborted <- halted

StudyTypes ==
  /\ leg \in {"idle", "search", "fetch", "again", "rest", "over"}
  /\ fetchCount \in 0 .. MaxRanked
  /\ found \subseteq Sites /\ ranked \subseteq Sites /\ DOMAIN fetched \subseteq Sites

\* What is fetched, or waits to be, is ranked; nothing is before the first round of fetches.
Pinned ==
  /\ leg \in {"idle", "search"} => DOMAIN fetched = {}
  /\ leg \in {"fetch", "again", "rest"} => DOMAIN fetched \subseteq ranked
  /\ leg \in {"fetch", "rest"} => todo \union running \subseteq ranked
  /\ leg = "idle" => todo = {} /\ running = {}

\* The fetches made and under way are those the options allow.
Spent == DOMAIN fetched \union (IF leg \in {"search", "again"} THEN {} ELSE todo \union running)
Budget == leg # "over" => Cardinality(Spent) <= fetchCount

\* The bundle is made last, of sources that are within their limit.
Bundled ==
  /\ Cardinality(ranked) <= MaxRanked
  /\ leg # "over" => bundle = "none"

StudyInv == StudyTypes /\ Pinned /\ Budget /\ Bundled /\ Study!BundleTruthful

LEMMA SameStudyCount == ASSUME NEW S PROVE Study!Cardinality(S) = Cardinality(S)
  BY Zenon DEF Study!Cardinality, Cardinality

LEMMA StudyInit == ASSUME MaxRanked \in Nat, Study!Init PROVE StudyInv
  <1>1. DOMAIN fetched = {}
    BY DEF Study!Init, Study!Nothing
  <1>2. Spent = {} /\ ranked = {}
    BY <1>1 DEF Study!Init, Spent
  <1>3. Cardinality(Spent) = 0 /\ Cardinality(ranked) = 0
    BY <1>2, FS_EmptySet
  <1> QED
    BY <1>1, <1>3 DEF Study!Init, StudyInv, StudyTypes, Pinned, Budget, Bundled, Study!BundleTruthful

\* What AtMost and kSubset choose: at most n of the sources.
LEMMA Chosen ==
  ASSUME NEW S, IsFiniteSet(S), NEW n \in Nat, NEW r \in Study!kSubset(Study!AtMost(n, Study!Cardinality(S)), S)
  PROVE  r \subseteq S /\ IsFiniteSet(r) /\ Cardinality(r) \in Nat /\ Cardinality(r) <= n
  <1>1. r \subseteq S /\ Cardinality(r) = Study!AtMost(n, Cardinality(S))
    BY SameStudyCount DEF Study!kSubset
  <1>2. IsFiniteSet(r) /\ Cardinality(r) \in Nat /\ Cardinality(S) \in Nat
    BY <1>1, FS_Subset, FS_CardinalityType
  <1> QED
    BY <1>1, <1>2 DEF Study!AtMost

LEMMA RankedWithin ==
  ASSUME IsFiniteSet(Sites), MaxRanked \in Nat, found \subseteq Sites, NEW pinned \in SUBSET Sites, NEW r, Study!Rank(r, pinned)
  PROVE  r \subseteq Sites /\ pinned \subseteq r /\ Cardinality(r) <= MaxRanked
  <1>1. IsFiniteSet(found \union pinned)
    BY FS_Subset
  <1> QED
    BY <1>1, Chosen DEF Study!Rank

\* The rest of the fetches, after those that were made.
LEMMA RestWithin ==
  ASSUME IsFiniteSet(Sites), StudyTypes, Budget, leg \in {"fetch", "again"}, todo = {}, running = {}, MaxRanked \in Nat,
         NEW r \in SUBSET Sites, NEW next \in Study!Best(Study!Left, Study!Unfetched(r))
  PROVE  next \subseteq r /\ Cardinality(DOMAIN fetched \union next) <= fetchCount
  <1>1. IsFiniteSet(DOMAIN fetched) /\ Cardinality(DOMAIN fetched) \in Nat /\ IsFiniteSet(r \ DOMAIN fetched)
    BY FS_Subset, FS_CardinalityType DEF StudyTypes
  <1>2. Spent = DOMAIN fetched
    BY DEF Spent
  <1>3. Cardinality(DOMAIN fetched) <= fetchCount /\ fetchCount \in Nat
    BY <1>2 DEF Budget, StudyTypes
  <1>4. Study!Left = fetchCount - Cardinality(DOMAIN fetched) /\ Study!Left \in Nat
    BY <1>1, <1>3, SameStudyCount DEF Study!Left
  <1>5. next \subseteq r /\ IsFiniteSet(next) /\ Cardinality(next) \in Nat /\ Cardinality(next) <= Study!Left
    BY <1>1, <1>4, Chosen DEF Study!Best, Study!Unfetched
  <1>6. Cardinality(DOMAIN fetched \union next) =
          Cardinality(DOMAIN fetched) + Cardinality(next) - Cardinality(DOMAIN fetched \cap next)
    BY <1>1, <1>5, FS_Union
  <1>7. Cardinality(DOMAIN fetched \cap next) \in Nat
    BY <1>1, FS_Intersection, FS_CardinalityType
  <1> QED
    BY <1>1, <1>3, <1>4, <1>5, <1>6, <1>7

\* A complete bundle tells of no failure.
LEMMA StatusTells ==
  ASSUME DOMAIN fetched \subseteq ranked, Study!Status = "complete"
  PROVE  /\ Study!AttemptsThat("error") = {} /\ Study!FetchesThat("failed") = {}
         /\ fetchCount > 0 => Study!FetchesThat("fetched") # {}
  <1>1. ranked # {}
    BY DEF Study!Status
  <1>2. /\ Study!AttemptsThat("error") = {} /\ Study!FetchesThat("failed") \cap ranked = {}
        /\ ~(fetchCount > 0 /\ Study!FetchesThat("fetched") \cap ranked = {})
    BY <1>1 DEF Study!Status
  <1>3. Study!FetchesThat("failed") \subseteq ranked
    BY DEF Study!FetchesThat
  <1> QED
    BY <1>2, <1>3

LEMMA StudyStep ==
  ASSUME IsFiniteSet(Sites), MaxRanked \in Nat, StudyInv, [Study!Next]_(Study!vars) PROVE StudyInv'
  <1> USE DEF StudyInv
  <1>1. CASE Study!Call
    <2>1. DOMAIN fetched' = {} /\ ranked' = {} /\ Spent' = {}
      BY <1>1 DEF Study!Call, Study!Nothing, Spent
    <2>2. Cardinality(Spent') = 0 /\ Cardinality(ranked') = 0
      BY <2>1, FS_EmptySet
    <2> QED
      BY <1>1, <2>1, <2>2 DEF Study!Call, StudyTypes, Pinned, Budget, Bundled, Study!BundleTruthful
  <1>2. CASE Study!Throws
    BY <1>2 DEF Study!Throws, Study!options, StudyTypes, Pinned, Budget, Bundled, Study!BundleTruthful
  <1>3. CASE Study!FirstFetches
    <2>1. /\ leg = "search" /\ leg' = "fetch" /\ todo = {} /\ running = {} /\ running' = {} /\ bundle' = bundle
          /\ UNCHANGED <<fetchCount, found, fetched>> /\ Study!Rank(ranked', {})
          /\ todo' \in Study!Best(IF quick THEN fetchCount ELSE (fetchCount + 1) \div 2, ranked')
      BY <1>3 DEF Study!FirstFetches, Study!RoundOver, Study!options
    <2>2. ranked' \subseteq Sites /\ Cardinality(ranked') <= MaxRanked
      BY <2>1, RankedWithin DEF StudyTypes
    <2>3. PICK n \in Nat : n <= fetchCount /\ todo' \in Study!Best(n, ranked')
      BY <2>1 DEF StudyTypes
    <2>4. todo' \subseteq ranked' /\ Cardinality(todo') <= n /\ Cardinality(todo') \in Nat
      <3>1. IsFiniteSet(ranked')
        BY <2>2, FS_Subset
      <3> QED
        BY <2>3, <3>1, Chosen DEF Study!Best
    <2>5. Spent' = todo'
      BY <2>1 DEF Spent, Pinned
    <2>6. Budget'
      BY <2>1, <2>3, <2>4, <2>5 DEF Budget, StudyTypes
    <2> QED
      BY <2>1, <2>2, <2>4, <2>6 DEF StudyTypes, Pinned, Bundled, Study!BundleTruthful
  <1>4. CASE Study!SearchAgain
    <2>1. leg = "fetch" /\ leg' = "again" /\ todo = {} /\ running = {} /\ UNCHANGED <<fetchCount, found, ranked, fetched, bundle>>
      BY <1>4 DEF Study!SearchAgain, Study!RoundOver, Study!options
    <2>2. Spent' = Spent
      BY <2>1 DEF Spent
    <2> QED
      BY <2>1, <2>2 DEF StudyTypes, Pinned, Budget, Bundled, Study!BundleTruthful
  <1>5. CASE Study!NoMoreSearch
    <2>1. /\ leg = "fetch" /\ leg' = "rest" /\ todo = {} /\ running = {} /\ running' = {}
          /\ UNCHANGED <<fetchCount, found, ranked, fetched, bundle>>
          /\ todo' \in Study!Best(Study!Left, Study!Unfetched(ranked))
      BY <1>5 DEF Study!NoMoreSearch, Study!RoundOver, Study!options
    <2>2. todo' \subseteq ranked /\ Cardinality(DOMAIN fetched \union todo') <= fetchCount
      BY <2>1, RestWithin DEF StudyTypes
    <2>3. Spent' = DOMAIN fetched \union todo'
      BY <2>1 DEF Spent
    <2> QED
      BY <2>1, <2>2, <2>3 DEF StudyTypes, Pinned, Budget, Bundled, Study!BundleTruthful
  <1>6. CASE Study!RestOfFetches
    <2>1. /\ leg = "again" /\ leg' = "rest" /\ todo = {} /\ running = {} /\ running' = {}
          /\ UNCHANGED <<fetchCount, found, fetched, bundle>>
          /\ Study!Rank(ranked', DOMAIN fetched) /\ todo' \in Study!Best(Study!Left, Study!Unfetched(ranked'))
      BY <1>6 DEF Study!RestOfFetches, Study!RoundOver, Study!options
    <2>2. ranked' \subseteq Sites /\ DOMAIN fetched \subseteq ranked' /\ Cardinality(ranked') <= MaxRanked
      BY <2>1, RankedWithin DEF StudyTypes
    <2>3. todo' \subseteq ranked' /\ Cardinality(DOMAIN fetched \union todo') <= fetchCount
      BY <2>1, <2>2, RestWithin
    <2>4. Spent' = DOMAIN fetched \union todo'
      BY <2>1 DEF Spent
    <2> QED
      BY <2>1, <2>2, <2>3, <2>4 DEF StudyTypes, Pinned, Budget, Bundled, Study!BundleTruthful
  <1>7. CASE Study!Finish
    <2>1. /\ leg = "rest" /\ leg' = "over" /\ bundle' \in {Study!Status, "thrown"} /\ ~halted
          /\ UNCHANGED <<fetchCount, found, ranked, fetched, attempts, halted>>
      BY <1>7 DEF Study!Finish, Study!RoundOver, Study!options
    <2>2. DOMAIN fetched \subseteq ranked
      BY <2>1 DEF Pinned
    <2>3. Study!BundleTruthful'
      <3>1. bundle' = "complete" => Study!Status = "complete"
        BY <2>1
      <3>2. Study!AttemptsThat("error")' = Study!AttemptsThat("error") /\ Study!FetchesThat("failed")' = Study!FetchesThat("failed")
            /\ Study!FetchesThat("fetched")' = Study!FetchesThat("fetched")
        BY <2>1 DEF Study!AttemptsThat, Study!FetchesThat
      <3>3. Study!Cardinality(ranked') <= MaxRanked
        BY <2>1, SameStudyCount DEF Bundled
      <3> QED
        BY <2>1, <2>2, <3>1, <3>2, <3>3, StatusTells DEF Study!BundleTruthful
    <2> QED
      BY <2>1, <2>3 DEF StudyTypes, Pinned, Budget, Bundled
  <1>8. CASE Study!CallerAborts
    BY <1>8 DEF Study!CallerAborts, Study!options, Study!round, StudyTypes, Pinned, Budget, Spent, Bundled, Study!BundleTruthful
  <1>9. ASSUME NEW x \in todo, Study!Takes(x) PROVE StudyInv'
    <2>1. Spent' = Spent /\ todo' \union running' = todo \union running
      BY <1>9 DEF Study!Takes, Spent
    <2> QED
      BY <1>9, <2>1 DEF Study!Takes, Study!options, StudyTypes, Pinned, Budget, Bundled, Study!BundleTruthful,
         Study!AttemptsThat, Study!FetchesThat
  <1>10. ASSUME NEW x \in running, Study!Searched(x) PROVE StudyInv'
    <2>1. leg \in {"search", "again"} /\ found' \subseteq Sites /\ UNCHANGED <<leg, fetchCount, todo, ranked, fetched, bundle>>
      BY <1>10 DEF Study!Searched, Study!Searching, Study!options, StudyTypes
    <2>2. Spent' = Spent
      BY <2>1 DEF Spent
    <2> QED
      BY <2>1, <2>2 DEF StudyTypes, Pinned, Budget, Bundled, Study!BundleTruthful
  <1>11. ASSUME NEW x \in running, Study!Fetched(x) PROVE StudyInv'
    <2>1. /\ leg \in {"fetch", "rest"} /\ running' = running \ {x}
          /\ UNCHANGED <<leg, fetchCount, todo, found, ranked, bundle>> /\ DOMAIN fetched' = DOMAIN fetched \union {x}
      BY <1>11 DEF Study!Fetched, Study!options, Study!Put
    <2>2. Spent' = Spent
      BY <2>1 DEF Spent
    <2> QED
      BY <2>1, <2>2 DEF StudyTypes, Pinned, Budget, Bundled, Study!BundleTruthful
  <1>12. ASSUME NEW x \in running, Study!Abandoned(x) PROVE StudyInv'
    BY <1>12 DEF Study!Abandoned, Study!options, StudyTypes, Pinned, Budget, Bundled, Study!BundleTruthful,
       Study!AttemptsThat, Study!FetchesThat
  <1>13. CASE UNCHANGED Study!vars
    BY <1>13 DEF Study!vars, Study!round, Study!options, StudyTypes, Pinned, Budget, Spent, Bundled, Study!BundleTruthful,
       Study!AttemptsThat, Study!FetchesThat
  <1> QED
    BY <1>1, <1>2, <1>3, <1>4, <1>5, <1>6, <1>7, <1>8, <1>9, <1>10, <1>11, <1>12, <1>13 DEF Study!Next

LEMMA StudySound == StudyInv => Study!Sound
  <1> SUFFICES ASSUME StudyInv, leg # "over"
               PROVE  Study!Cardinality(DOMAIN fetched \union (IF Study!Searching THEN {} ELSE todo \union running)) <= fetchCount
    BY DEF StudyInv, Study!Sound, Study!WithinBudget
  <1>1. Spent = DOMAIN fetched \union (IF Study!Searching THEN {} ELSE todo \union running)
    BY DEF Spent, Study!Searching
  <1> QED
    BY <1>1, SameStudyCount DEF StudyInv, Budget

\* runResearch, for any number of queries, sources and lanes: however searches and fetches
\* fail and overtake each other and wherever the caller aborts, all rounds together keep the
\* budget of fetches, and a bundle has what was fetched and is complete only if all went well.
THEOREM BundleIsTruthful ==
  ASSUME IsFiniteSet(Sites), MaxRanked \in Nat PROVE Study!Spec => []Study!Sound
  BY StudyInit, StudyStep, StudySound, PTL DEF Study!Spec

-------------------------------------------------------------------------------
(* Live variants                                                             *)

CONSTANTS Ids, None, Count, MaxFaults
VARIABLES page, saved, handled, timers, posts, server, maker, source, dom, unused, verdicts, faults

Live == INSTANCE LiveVariants WITH agent <- maker

\* The code asks for at least one variant; None is none of the values that it stands beside.
NoneApart ==
  /\ Count \in Nat \ {0}
  /\ None \notin Ids \union 0 .. Count \union [id : Ids, visible : 0 .. Count]

Modes == {"IDLE", "PICKING", "CONFIGURING", "GENERATING", "CYCLING", "CONFIRMED"}
Pages == [mode : Modes, pick : BOOLEAN, current : Ids \union {None}, expected : {0, Count}, arrived : 0 .. Count,
          visible : 0 .. Count, observer : Ids \union {None}, scout : BOOLEAN, linked : BOOLEAN, open : BOOLEAN]
Saves == [id : Ids, visible : 0 .. Count] \union {None}
Posts == [type : {"generate", "accept", "discard", "exit"}, id : Ids \union {None}, variant : 0 .. Count]
Sources == [is : {"none", "wrapped", "written", "restored", "accepted"}, variant : 0 .. Count]
Wrappers == [Ids -> 0 .. Count \union {None}]

\* What the script's variables say of each other, of the storage (k, h) and of the ids to come.
Fits(p, k, h, u) ==
  /\ p \in Pages /\ k \in Saves /\ h \in Ids \union {None} /\ h \notin u
  /\ p.observer \in {None, p.current} /\ (~p.open => p.observer = None)
  /\ p.visible <= p.arrived /\ (p.arrived > 0 => p.visible > 0)
  /\ p.current # None => p.expected = Count /\ p.current \notin u
  /\ p.current # None /\ p.current = h => p.arrived >= Count /\ p.mode \notin {"GENERATING", "CYCLING"}
  /\ p.mode \in {"GENERATING", "CYCLING"} => p.current # None
  /\ p.mode = "CYCLING" => p.arrived >= Count
  /\ p.open /\ p.mode \in {"GENERATING", "CYCLING"} => k # None /\ k.id = p.current

\* An event tells of an id that was given out, and of a decision that was made.
Truthful(e, v, u) ==
  /\ e.type # "exit" => e.id \in Ids \ u
  /\ e.type \in {"accept", "discard"} => e.variant \in v[e.id]

LiveTypes ==
  /\ posts \subseteq Posts
  /\ server \in [events : Seq(Posts), replies : Seq({"done", "error"}), client : BOOLEAN, leaving : BOOLEAN, up : BOOLEAN]
  /\ maker \in [id : Ids \union {None}, step : {"idle", "wrap", "write", "reply"}]
  /\ source \in [Ids -> Sources] /\ dom \in Wrappers
  /\ verdicts \in [Ids -> SUBSET (0 .. Count)] /\ unused \subseteq Ids

\* Only ids that were given out are worked on.
GivenOut ==
  /\ maker = Live!Idle \/ (maker.step # "idle" /\ maker.id \in Ids \ unused)
  /\ \A s \in unused : source[s] = Live!Absent /\ dom[s] = None

AllTruthful ==
  /\ \A e \in posts : Truthful(e, verdicts, unused)
  /\ \A i \in 1 .. Len(server.events) : Truthful(server.events[i], verdicts, unused)

LiveInv == LiveTypes /\ GivenOut /\ AllTruthful /\ Fits(page, saved, handled, unused) /\ Live!DecisionsKept

LEMMA LiveSound == ASSUME NoneApart, LiveInv PROVE Live!Sound
  <1>1. Live!OfferHolds
    BY DEF NoneApart, LiveInv, Fits, Pages, Live!OfferHolds
  <1>2. Live!NotAgain
    BY DEF LiveInv, Fits, Live!NotAgain
  <1> QED
    BY <1>1, <1>2 DEF LiveInv, Live!Sound

LEMMA LiveInit == ASSUME NoneApart, Live!Init PROVE LiveInv
  <1>1. /\ page = [mode |-> "IDLE", pick |-> TRUE, current |-> None, expected |-> 0, arrived |-> 0, visible |-> 0,
                   observer |-> None, scout |-> TRUE, linked |-> TRUE, open |-> TRUE]
        /\ saved = None /\ handled = None /\ unused = Ids
    BY DEF Live!Init, Live!Fresh
  <1>2. page \in Pages
    BY <1>1 DEF Pages, Modes, NoneApart
  <1>3. Fits(page, saved, handled, unused)
    BY <1>1, <1>2 DEF Fits, Saves, NoneApart
  <1>4. LiveTypes
    BY DEF Live!Init, LiveTypes, Live!Idle, Live!Absent, Sources, Wrappers, NoneApart
  <1>5. GivenOut /\ AllTruthful /\ Live!DecisionsKept
    BY DEF Live!Init, GivenOut, AllTruthful, Live!Idle, Live!Absent, Live!DecisionsKept
  <1> QED
    BY <1>3, <1>4, <1>5 DEF LiveInv

\* resumeSession takes up a session that is in the page and was not decided.
LEMMA ResumedFits ==
  ASSUME NoneApart, NEW p, NEW h, NEW u, Fits(p, saved, h, u), NEW d \in Wrappers, NEW s \in Ids \ u, d[s] # None, s # h,
         NEW q, q = Live!Resumed(p, d, s)
  PROVE  Fits(q, IF q.open THEN Live!Saved(q) ELSE saved, h, u)
  <1>1. d[s] \in 0 .. Count
    BY DEF Wrappers
  <1> DEFINE showing == IF saved # None /\ saved.id = s /\ saved.visible \in 1 .. d[s] THEN saved.visible
                     ELSE IF d[s] > 0 THEN 1 ELSE 0
             mode == IF d[s] >= Count THEN "CYCLING" ELSE "GENERATING"
             observer == IF p.open THEN s ELSE p.observer
  <1>2. showing \in 0 .. d[s] /\ (d[s] > 0 => showing > 0)
    BY <1>1
  <1>3. q = [p EXCEPT !.current = s, !.expected = Count, !.arrived = d[s], !.visible = showing, !.mode = mode, !.observer = observer]
    BY Zenon DEF Live!Resumed
  <1>4. mode \in {"CYCLING", "GENERATING"} /\ mode \in Modes /\ (mode = "CYCLING" => d[s] >= Count)
    BY DEF Modes
  <1>5. observer \in Ids \union {None} /\ observer \in {None, s} /\ (~p.open => observer = None)
    BY DEF Fits
  <1>6. p \in Pages /\ showing \in 0 .. Count
    BY <1>1, <1>2 DEF Fits, NoneApart
  <1> HIDE DEF showing, mode, observer
  <1>7. /\ q.current = s /\ q.expected = Count /\ q.arrived = d[s] /\ q.visible = showing /\ q.mode = mode
        /\ q.observer = observer /\ q.open = p.open
    BY <1>3, <1>6 DEF Pages
  <1>8. q \in Pages
    BY <1>1, <1>3, <1>4, <1>5, <1>6 DEF Pages
  <1>9. q.open => Live!Saved(q) = [id |-> s, visible |-> showing] /\ Live!Saved(q) \in Saves /\ Live!Saved(q) # None
    BY <1>6, <1>7 DEF Live!Saved, Saves, NoneApart
  <1> QED
    BY <1>1, <1>2, <1>4, <1>5, <1>7, <1>8, <1>9 DEF Fits, NoneApart

\* startVariantObserver: no session that was decided gets more variants than it had.
LEMMA ObservedFits ==
  ASSUME NoneApart, NEW p, NEW h, NEW u, Fits(p, saved, h, u), NEW d \in Wrappers, NEW q, q = Live!Observed(p, d)
  PROVE  Fits(q, IF Live!More(p, d) THEN Live!Saved(q) ELSE saved, h, u)
  <1>1. CASE ~Live!More(p, d)
    BY <1>1 DEF Live!Observed
  <1>2. CASE Live!More(p, d)
    <2> DEFINE n == d[p.observer]
               mode == IF n >= Count THEN "CYCLING" ELSE p.mode
               visible == IF p.visible = 0 THEN 1 ELSE p.visible
    <2>1. p \in Pages /\ p.observer \in Ids /\ p.current = p.observer /\ n \in 0 .. Count /\ n > p.arrived /\ p.open
      BY <1>2 DEF Live!More, Fits, Pages, Wrappers
    <2>2. q = [p EXCEPT !.arrived = n, !.visible = visible, !.expected = Count, !.mode = mode]
      BY <1>2, Zenon DEF Live!Observed
    <2>3. mode \in Modes /\ visible \in 0 .. Count /\ visible > 0 /\ visible <= n
      BY <2>1 DEF Fits, Pages, Modes, NoneApart
    <2>4. mode \in {"GENERATING", "CYCLING"} => p.current # h
      BY <2>1 DEF Fits, Pages, NoneApart
    <2>5. (mode = "CYCLING" => n >= Count) /\ p.current # h
      BY <2>1 DEF Fits, Pages, NoneApart
    <2> HIDE DEF mode, visible
    <2>6. /\ q.arrived = n /\ q.visible = visible /\ q.expected = Count /\ q.mode = mode /\ q.current = p.current
          /\ q.observer = p.observer /\ q.open = p.open
      BY <2>1, <2>2 DEF Pages
    <2>7. q \in Pages
      BY <2>1, <2>2, <2>3 DEF Pages
    <2>8. Live!Saved(q) = [id |-> p.current, visible |-> visible] /\ Live!Saved(q) \in Saves /\ Live!Saved(q) # None
      BY <2>1, <2>3, <2>6 DEF Live!Saved, Saves, NoneApart
    <2> QED
      BY <1>2, <2>1, <2>3, <2>5, <2>6, <2>7, <2>8 DEF Fits, NoneApart
  <1> QED
    BY <1>1, <1>2
\* The scout and the observer, whatever wrappers they find.
LEMMA NoticedFits ==
  ASSUME NoneApart, LiveInv, dom' \in Wrappers, \A s \in unused : dom'[s] = None, Live!Noticed(dom')
  PROVE  Fits(page', saved', handled, unused)
  <1> DEFINE looked == [page EXCEPT !.scout = FALSE]
  <1>1. Fits(page, saved, handled, unused) /\ page \in Pages
    BY DEF LiveInv, Fits
  <1>2. looked \in Pages
    BY <1>1 DEF Pages
  <1>3. /\ looked.mode = page.mode /\ looked.current = page.current /\ looked.observer = page.observer
        /\ looked.expected = page.expected /\ looked.arrived = page.arrived /\ looked.visible = page.visible
        /\ looked.open = page.open
    BY <1>1 DEF Pages
  <1>4. Fits(looked, saved, handled, unused)
    <2> HIDE DEF looked
    <2> QED
      BY <1>1, <1>2, <1>3 DEF Fits
  <1> HIDE DEF looked
  <1>5. ASSUME NEW p, Fits(p, saved, handled, unused), page' = Live!Observed(p, dom'),
               saved' = IF Live!More(p, dom') THEN Live!Saved(page') ELSE saved
        PROVE  Fits(page', saved', handled, unused)
    BY <1>5, ObservedFits
  <1>6. CASE page.scout /\ Live!Present(dom') # {}
    <2>1. PICK first \in Live!Present(dom') :
            IF Live!IsHandled(first) THEN page' = Live!Observed(looked, dom')
                                          /\ saved' = IF Live!More(looked, dom') THEN Live!Saved(page') ELSE saved
            ELSE page' = Live!Resumed(looked, dom', first) /\ saved' = IF page.open THEN Live!Saved(page') ELSE saved
      BY <1>6 DEF Live!Noticed, looked
    <2>2. first \in Ids \ unused /\ dom'[first] # None
      BY <2>1 DEF Live!Present
    <2>3. CASE Live!IsHandled(first)
      BY <2>1, <2>3, <1>4, <1>5
    <2>4. CASE ~Live!IsHandled(first)
      <3>1. first # handled
        BY <2>4 DEF Live!IsHandled
      <3>2. page' = Live!Resumed(looked, dom', first) /\ saved' = IF page.open THEN Live!Saved(page') ELSE saved
        BY <2>1, <2>4
      <3>3. Fits(page', IF page'.open THEN Live!Saved(page') ELSE saved, handled, unused)
        BY <3>1, <3>2, <2>2, <1>4, ResumedFits
      <3>4. page'.open = page.open
        BY <3>2, <1>2, <1>3 DEF Live!Resumed, Pages
      <3> QED
        BY <3>2, <3>3, <3>4
    <2> QED
      BY <2>3, <2>4
  <1>7. CASE ~(page.scout /\ Live!Present(dom') # {})
    BY <1>1, <1>5, <1>7 DEF Live!Noticed
  <1> QED
    BY <1>6, <1>7

\* A step of the script alone.
LEMMA PageSteps ==
  ASSUME LiveInv, Fits(page', saved', handled', unused'),
         UNCHANGED <<posts, server, maker, source, dom, unused, verdicts>>
  PROVE  LiveInv'
  BY DEF LiveInv, LiveTypes, GivenOut, AllTruthful, Live!DecisionsKept

\* A step away from the script, but for the wrappers that it looks at.
LEMMA OtherSteps ==
  ASSUME LiveInv, UNCHANGED <<page, saved, handled, unused, verdicts>>, LiveTypes', GivenOut', AllTruthful', Live!DecisionsKept'
  PROVE  LiveInv'
  BY DEF LiveInv

\* A step that leaves the server's events as they are.
LEMMA ServerKeeps ==
  ASSUME LiveTypes, AllTruthful, UNCHANGED <<posts, verdicts, unused>>, server'.events = server.events
  PROVE  AllTruthful'
  BY DEF AllTruthful


\* A page that is not offering anything needs no session in the storage.
LEMMA ModeFits ==
  ASSUME NEW p, NEW k, NEW h, NEW u, Fits(p, k, h, u), NEW b \in BOOLEAN, NEW m \in Modes, NEW q,
         q = [p EXCEPT !.pick = b, !.mode = m], m = p.mode \/ m \notin {"GENERATING", "CYCLING"}
  PROVE  Fits(q, k, h, u)
  <1>1. p \in Pages
    BY DEF Fits
  <1>2. /\ q.mode = m /\ q.current = p.current /\ q.observer = p.observer /\ q.expected = p.expected
        /\ q.arrived = p.arrived /\ q.visible = p.visible /\ q.open = p.open
    BY <1>1 DEF Pages
  <1>3. q \in Pages
    BY <1>1 DEF Pages
  <1> QED
    BY <1>1, <1>2, <1>3 DEF Fits

\* A session that has ended needs nothing in the storage either.
LEMMA EndedFits ==
  ASSUME NoneApart, NEW p, NEW k, NEW h, NEW u, Fits(p, k, h, u), NEW j \in Saves, NEW g \in (Ids \ u) \union {None},
         NEW m \in {"IDLE", "PICKING"}, NEW l \in BOOLEAN, NEW o \in BOOLEAN, NEW q,
         q = [Live!Ended(p, m) EXCEPT !.linked = l, !.open = o], None \notin u
  PROVE  Fits(q, j, g, u)
  <1>1. p \in Pages
    BY DEF Fits
  <1>2. q = [p EXCEPT !.mode = m, !.current = None, !.observer = None, !.linked = l, !.open = o]
    BY DEF Live!Ended
  <1>3. /\ q.mode = m /\ q.current = None /\ q.observer = None /\ q.arrived = p.arrived /\ q.visible = p.visible
    BY <1>1, <1>2 DEF Pages
  <1>4. q \in Pages
    BY <1>1, <1>2 DEF Pages, Modes
  <1> QED
    BY <1>1, <1>3, <1>4 DEF Fits

\* cycleVariant and the dots.
LEMMA CycleFits ==
  ASSUME NoneApart, NEW k, NEW h, NEW u, Fits(page, k, h, u), page.open, page.mode = "CYCLING", NEW v \in 1 .. page.arrived,
         NEW q, q = [page EXCEPT !.visible = v]
  PROVE  Fits(q, k, h, u) /\ Fits(q, Live!Saved(q), h, u)
  <1>1. page \in Pages /\ page.current \in Ids /\ k # None /\ v \in 0 .. Count
    BY DEF Fits, Pages, NoneApart
  <1>2. /\ q.mode = page.mode /\ q.current = page.current /\ q.observer = page.observer /\ q.expected = page.expected
        /\ q.arrived = page.arrived /\ q.visible = v /\ q.open = page.open
    BY <1>1 DEF Pages
  <1>3. q \in Pages
    BY <1>1 DEF Pages
  <1>4. Live!Saved(q) = [id |-> page.current, visible |-> v] /\ Live!Saved(q) \in Saves /\ Live!Saved(q) # None
    BY <1>1, <1>2 DEF Live!Saved, Saves, NoneApart
  <1> QED
    BY <1>1, <1>2, <1>3, <1>4 DEF Fits

\* What the user does that makes no event.
LEMMA PageActions ==
  ASSUME NoneApart, LiveInv,
         \/ Live!Pick \/ Live!Unpick \/ Live!TogglePick \/ Live!Leave \/ Live!ServerLost
         \/ \E t \in timers : Live!End(t)
         \/ \E v \in 1 .. Count : Live!Cycle(v) \/ Live!Dot(v)
  PROVE  LiveInv'
  <1> USE DEF Live!pageVars
  <1>1. /\ Fits(page, saved, handled, unused) /\ page \in Pages /\ None \in Saves
        /\ page.pick \in BOOLEAN /\ page.mode \in Modes /\ handled \in (Ids \ unused) \union {None} /\ None \notin unused
    BY DEF LiveInv, LiveTypes, Fits, Pages, Saves, NoneApart
  <1>2. ASSUME NEW b \in BOOLEAN, NEW m \in Modes, page' = [page EXCEPT !.pick = b, !.mode = m],
               m = page.mode \/ m \notin {"GENERATING", "CYCLING"},
               UNCHANGED <<saved, handled, posts, server, maker, source, dom, unused, verdicts>>
        PROVE  LiveInv'
    BY <1>1, <1>2, ModeFits, PageSteps
  <1>3. page = [page EXCEPT !.pick = page.pick] /\ page.pick \in BOOLEAN
    BY <1>1 DEF Pages
  <1>4. CASE Live!Pick
    <2>1. page' = [page EXCEPT !.pick = page.pick, !.mode = "CONFIGURING"]
      BY <1>1, <1>4 DEF Live!Pick, Pages
    <2> QED
      BY <2>1, <1>1, <1>2, <1>4 DEF Live!Pick, Modes
  <1>5. CASE Live!Unpick
    <2>1. page' = [page EXCEPT !.pick = page.pick, !.mode = "PICKING"]
      BY <1>1, <1>5 DEF Live!Unpick, Pages
    <2> QED
      BY <2>1, <1>1, <1>2, <1>5 DEF Live!Unpick, Modes
  <1>6. CASE Live!TogglePick
    <2> DEFINE m == IF page.pick THEN IF page.mode \in {"PICKING", "CONFIGURING"} THEN "IDLE" ELSE page.mode
                    ELSE IF page.mode = "IDLE" THEN "PICKING" ELSE page.mode
    <2>1. page' = [page EXCEPT !.pick = ~page.pick, !.mode = m]
      BY <1>6 DEF Live!TogglePick
    <2>2. m \in Modes /\ (m = page.mode \/ m \notin {"GENERATING", "CYCLING"}) /\ (~page.pick) \in BOOLEAN
      BY <1>1 DEF Modes
    <2> HIDE DEF m
    <2> QED
      BY <2>1, <2>2, <1>2, <1>6 DEF Live!TogglePick
  <1>7. CASE Live!Leave
    <2>1. page' = [page EXCEPT !.pick = page.pick, !.mode = "IDLE"]
      BY <1>1, <1>7 DEF Live!Leave, Pages
    <2> QED
      BY <2>1, <1>1, <1>2, <1>7 DEF Live!Leave, Modes
  <1>8. CASE Live!ServerLost
    <2>1. page' = [Live!Ended(page, "IDLE") EXCEPT !.linked = FALSE, !.open = page.open] /\ page.open \in BOOLEAN
      BY <1>1, <1>8 DEF Live!ServerLost, Live!Ended, Pages
    <2>2. saved' = None /\ UNCHANGED <<handled, posts, server, maker, source, dom, unused, verdicts>>
      BY <1>8 DEF Live!ServerLost
    <2>3. Fits(page', None, handled, unused)
      BY <1>1, <2>1, EndedFits
    <2> QED
      BY <2>2, <2>3, PageSteps
  <1>9. ASSUME NEW t \in timers, Live!End(t) PROVE LiveInv'
    <2>1. page' = [Live!Ended(page, "PICKING") EXCEPT !.linked = page.linked, !.open = page.open]
          /\ page.open \in BOOLEAN /\ page.linked \in BOOLEAN
      BY <1>1, <1>9 DEF Live!End, Live!Ended, Pages
    <2>2. saved' = None /\ UNCHANGED <<handled, posts, server, maker, source, dom, unused, verdicts>>
      BY <1>9 DEF Live!End
    <2>3. Fits(page', None, handled, unused)
      BY <1>1, <2>1, EndedFits
    <2> QED
      BY <2>2, <2>3, PageSteps
  <1>10. ASSUME NEW v \in 1 .. Count, Live!Cycle(v) PROVE LiveInv'
    <2>1. /\ page.open /\ page.mode = "CYCLING" /\ v \in 1 .. page.arrived /\ page' = [page EXCEPT !.visible = v]
          /\ saved' = Live!Saved(page') /\ UNCHANGED <<handled, posts, server, maker, source, dom, unused, verdicts>>
      BY <1>10 DEF Live!Cycle
    <2>2. Fits(page', Live!Saved(page'), handled, unused)
      BY <1>1, <2>1, CycleFits
    <2> QED
      BY <2>1, <2>2, PageSteps
  <1>11. ASSUME NEW v \in 1 .. Count, Live!Dot(v) PROVE LiveInv'
    <2>1. /\ page.open /\ page.mode = "CYCLING" /\ v \in 1 .. page.arrived /\ page' = [page EXCEPT !.visible = v]
          /\ UNCHANGED <<saved, handled, posts, server, maker, source, dom, unused, verdicts>>
      BY <1>11 DEF Live!Dot
    <2>2. Fits(page', saved, handled, unused)
      BY <1>1, <2>1, CycleFits
    <2> QED
      BY <2>1, <2>2, PageSteps
  <1> QED
    BY <1>4, <1>5, <1>6, <1>7, <1>8, <1>9, <1>10, <1>11

\* handleGo: the session is new to the storage, the server and the source.
LEMMA GoKeeps == ASSUME NoneApart, LiveInv, Live!Go PROVE LiveInv'
  <1> DEFINE s == CHOOSE id \in unused : TRUE
  <1>1. /\ Fits(page, saved, handled, unused) /\ page \in Pages /\ s \in unused /\ s \in Ids /\ page.open
        /\ handled \notin unused /\ unused \subseteq Ids
    BY DEF LiveInv, LiveTypes, Fits, Live!Go
  <1>2. /\ page' = [page EXCEPT !.mode = "GENERATING", !.current = s, !.expected = Count, !.arrived = 0,
                                !.visible = 0, !.observer = s]
        /\ posts' = posts \union {Live!Event("generate", s, 0)} /\ unused' = unused \ {s} /\ saved' = Live!Saved(page')
        /\ UNCHANGED <<handled, server, maker, source, dom, verdicts>>
    BY DEF Live!Go
  <1> HIDE DEF s
  <1>3. /\ page'.mode = "GENERATING" /\ page'.current = s /\ page'.observer = s /\ page'.expected = Count
        /\ page'.arrived = 0 /\ page'.visible = 0 /\ page'.open
    BY <1>1, <1>2 DEF Pages
  <1>4. page' \in Pages
    <2>1. "GENERATING" \in Modes /\ s \in Ids \union {None} /\ Count \in {0, Count} /\ 0 \in 0 .. Count
      BY <1>1 DEF Modes, NoneApart
    <2> QED
      BY <2>1, <1>1, <1>2 DEF Pages
  <1>5. saved' = [id |-> s, visible |-> 0] /\ saved' \in Saves /\ saved' # None
    BY <1>1, <1>2, <1>3 DEF Live!Saved, Saves, NoneApart
  <1>6. Fits(page', saved', handled', unused')
    BY <1>1, <1>2, <1>3, <1>4, <1>5 DEF Fits, NoneApart
  <1>7. Live!Event("generate", s, 0) \in Posts /\ Truthful(Live!Event("generate", s, 0), verdicts', unused')
    BY <1>1, <1>2 DEF Live!Event, Posts, Truthful, NoneApart
  <1>8. LiveTypes' /\ GivenOut'
    BY <1>1, <1>2, <1>7 DEF LiveInv, LiveTypes, GivenOut
  <1>9. AllTruthful'
    BY <1>1, <1>2, <1>7 DEF LiveInv, AllTruthful, Truthful
  <1>10. Live!DecisionsKept'
    BY <1>2 DEF LiveInv, Live!DecisionsKept
  <1> QED
    BY <1>6, <1>8, <1>9, <1>10 DEF LiveInv

\* handleAccept and handleDiscard: the event tells of the decision that is noted.
LEMMA DecisionKeeps ==
  ASSUME LiveInv, NEW s \in Ids \ unused, NEW v \in 0 .. Count, NEW e \in Posts, Truthful(e, verdicts', unused),
         verdicts' = [verdicts EXCEPT ![s] = @ \union {v}], posts' = posts \union {e},
         UNCHANGED <<server, maker, source, dom, unused>>, Fits(page', saved', handled', unused)
  PROVE  LiveInv'
  <1>1. \A t \in Ids : verdicts[t] \subseteq verdicts'[t] /\ verdicts'[t] \in SUBSET (0 .. Count)
    BY DEF LiveInv, LiveTypes
  <1>2. verdicts' \in [Ids -> SUBSET (0 .. Count)]
    BY <1>1 DEF LiveInv, LiveTypes
  <1>3. LiveTypes' /\ GivenOut'
    BY <1>2 DEF LiveInv, LiveTypes, GivenOut
  <1>4. ASSUME NEW f \in Posts, Truthful(f, verdicts, unused) PROVE Truthful(f, verdicts', unused)
    BY <1>1, <1>4 DEF Truthful
  <1>5. \A i \in 1 .. Len(server.events) : server.events[i] \in Posts
    BY DEF LiveInv, LiveTypes
  <1>6. AllTruthful'
    BY <1>4, <1>5 DEF LiveInv, LiveTypes, AllTruthful
  <1>7. Live!DecisionsKept'
    BY <1>1 DEF LiveInv, Live!DecisionsKept
  <1> QED
    BY <1>3, <1>6, <1>7 DEF LiveInv

LEMMA AcceptKeeps == ASSUME NoneApart, LiveInv, Live!Accept PROVE LiveInv'
  <1> DEFINE e == Live!Event("accept", page.current, page.visible)
  <1>1. /\ Fits(page, saved, handled, unused) /\ page \in Pages /\ page.current \in Ids \ unused
        /\ page.mode = "CYCLING" /\ page.visible \in 0 .. Count /\ page.arrived >= Count /\ unused \subseteq Ids
    BY DEF LiveInv, LiveTypes, Fits, Pages, Live!Accept, NoneApart
  <1>2. /\ page' = [page EXCEPT !.mode = "CONFIRMED"] /\ handled' = page.current /\ posts' = posts \union {e}
        /\ verdicts' = [verdicts EXCEPT ![page.current] = @ \union {page.visible}]
        /\ UNCHANGED <<saved, server, source, dom, unused>> /\ maker' = maker
    BY DEF Live!Accept
  <1>3. e \in Posts /\ Truthful(e, verdicts', unused)
    BY <1>1, <1>2 DEF Live!Event, Posts, Truthful, LiveInv, LiveTypes
  <1>4. /\ page'.mode = "CONFIRMED" /\ page'.current = page.current /\ page'.observer = page.observer
        /\ page'.expected = page.expected /\ page'.arrived = page.arrived /\ page'.visible = page.visible
        /\ page'.open = page.open
    BY <1>1, <1>2 DEF Pages
  <1>5. page' \in Pages
    BY <1>1, <1>2 DEF Pages, Modes
  <1>6. Fits(page', saved', handled', unused)
    BY <1>1, <1>2, <1>4, <1>5 DEF Fits
  <1> QED
    BY <1>1, <1>2, <1>3, <1>6, DecisionKeeps

LEMMA DiscardKeeps == ASSUME NoneApart, LiveInv, Live!Discard PROVE LiveInv'
  <1> DEFINE e == Live!Event("discard", page.current, 0)
  <1>1. /\ Fits(page, saved, handled, unused) /\ page \in Pages /\ page.current \in Ids \ unused
        /\ page.open \in BOOLEAN /\ page.linked \in BOOLEAN /\ 0 \in 0 .. Count /\ None \notin unused /\ None \in Saves
    BY DEF LiveInv, LiveTypes, Fits, Pages, Saves, Live!Discard, NoneApart
  <1>2. /\ page' = Live!Ended(page, "PICKING") /\ saved' = None /\ handled' = page.current /\ posts' = posts \union {e}
        /\ verdicts' = [verdicts EXCEPT ![page.current] = @ \union {0}]
        /\ UNCHANGED <<server, source, dom, unused>> /\ maker' = maker
    BY DEF Live!Discard
  <1>3. e \in Posts /\ Truthful(e, verdicts', unused)
    BY <1>1, <1>2 DEF Live!Event, Posts, Truthful, LiveInv, LiveTypes
  <1>4. page' = [Live!Ended(page, "PICKING") EXCEPT !.linked = page.linked, !.open = page.open]
    BY <1>1, <1>2 DEF Live!Ended, Pages
  <1>5. Fits(page', saved', handled', unused)
    BY <1>1, <1>2, <1>4, EndedFits
  <1> QED
    BY <1>1, <1>2, <1>3, <1>5, DecisionKeeps

\* The close handler of the stream touches no event.
LEMMA ClosedKeeps ==
  ASSUME LiveTypes
  PROVE  /\ Live!Closed.events = server.events
         /\ Live!Closed \in [events : Seq(Posts), replies : Seq({"done", "error"}), client : BOOLEAN, leaving : BOOLEAN, up : BOOLEAN]
  <1> DEFINE S == [events : Seq(Posts), replies : Seq({"done", "error"}), client : BOOLEAN, leaving : BOOLEAN, up : BOOLEAN]
  <1>1. server \in S /\ <<>> \in Seq({"done", "error"}) /\ TRUE \in BOOLEAN /\ FALSE \in BOOLEAN
    BY DEF LiveTypes
  <1>2. CASE server.client
    <2>1. Live!Closed = [server EXCEPT !.client = FALSE, !.replies = <<>>, !.leaving = TRUE]
      BY <1>2 DEF Live!Closed
    <2> QED
      BY <1>1, <2>1
  <1>3. CASE ~server.client
    BY <1>1, <1>3 DEF Live!Closed
  <1> QED
    BY <1>2, <1>3

LEMMA ExitKeeps == ASSUME NoneApart, LiveInv, Live!ExitButton PROVE LiveInv'
  <1> DEFINE e == Live!Event("exit", None, 0)
  <1>1. /\ Fits(page, saved, handled, unused) /\ handled \in (Ids \ unused) \union {None} /\ None \notin unused
        /\ None \in Saves
    BY DEF LiveInv, LiveTypes, Fits, Saves, NoneApart
  <1>2. /\ page' = [Live!Ended(page, "IDLE") EXCEPT !.linked = FALSE, !.open = FALSE] /\ saved' = None
        /\ posts' = posts \union {e} /\ server' = Live!Closed /\ UNCHANGED <<handled, maker, source, dom, unused, verdicts>>
    BY DEF Live!ExitButton
  <1>3. e \in Posts /\ e.type = "exit"
    BY DEF Live!Event, Posts, NoneApart
  <1>4. Fits(page', saved', handled', unused')
    BY <1>1, <1>2, EndedFits
  <1>5. LiveTypes' /\ GivenOut'
    BY <1>2, <1>3, ClosedKeeps DEF LiveInv, LiveTypes, GivenOut
  <1>6. AllTruthful'
    BY <1>2, <1>3, ClosedKeeps DEF LiveInv, AllTruthful, Truthful
  <1>7. Live!DecisionsKept'
    BY <1>2 DEF LiveInv, Live!DecisionsKept
  <1> QED
    BY <1>4, <1>5, <1>6, <1>7 DEF LiveInv

\* connectSSE and onmessage: the mode follows the connection.
LEMMA StreamActions ==
  ASSUME NoneApart, LiveInv, Live!Connect \/ Live!Disconnect \/ Live!Reply
  PROVE  LiveInv'
  <1>1. /\ Fits(page, saved, handled, unused) /\ page \in Pages /\ page.mode \in Modes /\ page.pick \in BOOLEAN
    BY DEF LiveInv, Fits, Pages
  <1>2. /\ UNCHANGED <<saved, handled, posts, source, dom, unused, verdicts>> /\ maker' = maker
        /\ server'.events = server.events
        /\ server' \in [events : Seq(Posts), replies : Seq({"done", "error"}), client : BOOLEAN, leaving : BOOLEAN, up : BOOLEAN]
    <2>1. CASE Live!Connect
      BY <2>1 DEF Live!Connect, LiveInv, LiveTypes
    <2>2. CASE Live!Disconnect
      BY <2>2, ClosedKeeps DEF Live!Disconnect, Live!pageVars, LiveInv
    <2>3. CASE Live!Reply
      <3>1. server.replies \in Seq({"done", "error"}) /\ server.replies # <<>>
        BY <2>3 DEF Live!Reply, LiveInv, LiveTypes
      <3>2. Tail(server.replies) \in Seq({"done", "error"})
        BY <3>1
      <3> QED
        BY <2>3, <3>2 DEF Live!Reply, LiveInv, LiveTypes
    <2> QED
      BY <2>1, <2>2, <2>3
  <1>3. Fits(page', saved, handled, unused)
    <2>1. ASSUME NEW m \in Modes, page' = [page EXCEPT !.mode = m], m = page.mode \/ m \notin {"GENERATING", "CYCLING"}
          PROVE  Fits(page', saved, handled, unused)
      <3>1. page' = [page EXCEPT !.pick = page.pick, !.mode = m]
        BY <2>1, <1>1 DEF Pages
      <3> QED
        BY <3>1, <2>1, <1>1, ModeFits
    <2>2. CASE Live!Connect
      <3> DEFINE m == IF page.mode = "IDLE" THEN "PICKING" ELSE page.mode
      <3>1. m \in Modes /\ (m = page.mode \/ m \notin {"GENERATING", "CYCLING"})
        BY <1>1 DEF Modes
      <3>2. page' = [page EXCEPT !.mode = m]
        BY <2>2 DEF Live!Connect
      <3> HIDE DEF m
      <3> QED
        BY <3>1, <3>2, <2>1
    <2>3. CASE Live!Disconnect
      BY <2>3, <1>1 DEF Live!Disconnect, Live!pageVars
    <2>4. CASE Live!Reply
      <3>1. CASE page' = [page EXCEPT !.mode = "PICKING"]
        BY <3>1, <2>1 DEF Modes
      <3>2. CASE page' = page
        BY <3>2, <1>1
      <3>3. CASE page' = [page EXCEPT !.mode = "CYCLING"] /\ page.mode = "GENERATING" /\ page.arrived >= page.expected
        <4>1. /\ page'.mode = "CYCLING" /\ page'.current = page.current /\ page'.observer = page.observer
              /\ page'.expected = page.expected /\ page'.arrived = page.arrived /\ page'.visible = page.visible
              /\ page'.open = page.open
          BY <1>1, <3>3 DEF Pages
        <4>2. page' \in Pages
          BY <1>1, <3>3 DEF Pages, Modes
        <4> QED
          BY <1>1, <3>3, <4>1, <4>2 DEF Fits
      <3> QED
        BY <2>4, <3>1, <3>2, <3>3, Zenon DEF Live!Reply
    <2> QED
      BY <2>2, <2>3, <2>4
  <1>4. LiveTypes' /\ GivenOut' /\ AllTruthful' /\ Live!DecisionsKept'
    BY <1>2 DEF LiveInv, LiveTypes, GivenOut, AllTruthful, Live!DecisionsKept
  <1> QED
    BY <1>2, <1>3, <1>4 DEF LiveInv

\* The development server shows what the source has; the script looks.
LEMMA ShownIsGiven ==
  ASSUME NoneApart, LiveInv, NEW s \in Ids
  PROVE  Live!Shown(s) \in 0 .. Count \union {None} /\ (Live!Shown(s) # None => s \notin unused)
  BY DEF LiveInv, LiveTypes, GivenOut, Live!Shown, Live!Absent, NoneApart

LEMMA WatchKeeps ==
  ASSUME NoneApart, LiveInv, dom' \in Wrappers, \A s \in unused : dom'[s] = None, Live!Noticed(dom') \/ UNCHANGED <<page, saved>>,
         UNCHANGED <<handled, posts, server, maker, source, unused, verdicts>>
  PROVE  LiveInv'
  <1>1. Fits(page', saved', handled, unused)
    BY NoticedFits DEF LiveInv
  <1> QED
    BY <1>1 DEF LiveInv, LiveTypes, GivenOut, AllTruthful, Live!DecisionsKept

LEMMA MutationKeeps == ASSUME NoneApart, LiveInv, NEW s \in Ids, Live!Mutation(s) PROVE LiveInv'
  <1>1. dom \in Wrappers /\ \A t \in unused : dom[t] = None
    BY DEF LiveInv, LiveTypes, GivenOut
  <1>2. Live!Shown(s) \in 0 .. Count \union {None} /\ (Live!Shown(s) # None => s \notin unused)
    BY ShownIsGiven
  <1>3. dom' \in Wrappers /\ \A t \in unused : dom'[t] = None
    <2>1. CASE dom' = [dom EXCEPT ![s] = Live!Shown(s)]
      BY <2>1, <1>1, <1>2 DEF Wrappers
    <2>2. CASE dom' = dom
      BY <2>2, <1>1
    <2>3. ASSUME Live!Shown(s) # None, NEW n \in 1 .. Live!Shown(s) - 1, dom' = [dom EXCEPT ![s] = n]
          PROVE  dom' \in Wrappers /\ \A t \in unused : dom'[t] = None
      <3>1. n \in 0 .. Count /\ s \notin unused
        BY <1>2, <2>3 DEF NoneApart
      <3> QED
        BY <3>1, <2>3, <1>1 DEF Wrappers
    <2> QED
      BY <2>1, <2>2, <2>3 DEF Live!Mutation
  <1> QED
    BY <1>3, WatchKeeps DEF Live!Mutation

LEMMA SwapKeeps == ASSUME NoneApart, LiveInv, NEW t \in timers, Live!Swap(t) PROVE LiveInv'
  <1>1. dom \in Wrappers /\ (\A s \in unused : dom[s] = None) /\ unused \subseteq Ids
    BY DEF LiveInv, LiveTypes, GivenOut
  <1>2. CASE dom' = dom /\ UNCHANGED <<page, saved>>
    BY <1>1, <1>2, WatchKeeps DEF Live!Swap
  <1>3. CASE dom' = [dom EXCEPT ![t.id] = None] /\ Live!Noticed(dom')
    <2>1. dom' \in Wrappers /\ \A s \in unused : dom'[s] = None
      BY <1>1, <1>3 DEF Wrappers
    <2> QED
      BY <2>1, <1>3, WatchKeeps DEF Live!Swap
  <1> QED
    BY <1>2, <1>3 DEF Live!Swap

LEMMA ReloadKeeps == ASSUME NoneApart, LiveInv, Live!Reload PROVE LiveInv'
  <1>1. dom' \in Wrappers /\ \A s \in unused : dom'[s] = None
    <2>1. dom' \in [Ids -> {None, 0, Count}] /\ \A s \in Ids : dom'[s] \in {None, Live!Shown(s)}
      BY DEF Live!Reload
    <2>2. \A s \in unused : s \in Ids /\ dom'[s] = None
      BY <2>1, ShownIsGiven DEF LiveInv, LiveTypes
    <2> QED
      BY <2>1, <2>2 DEF Wrappers, NoneApart
  <1>2. /\ Fits(page, saved, handled, unused) /\ None \notin unused /\ None \in Saves /\ saved \in Saves
        /\ handled \in (Ids \ unused) \union {None} /\ unused \subseteq Ids
    BY DEF LiveInv, LiveTypes, Fits, Saves, NoneApart
  <1>3. /\ Live!Fresh \in Pages /\ Live!Fresh.current = None /\ Live!Fresh.observer = None /\ Live!Fresh.mode = "IDLE"
        /\ Live!Fresh.arrived = 0 /\ Live!Fresh.visible = 0 /\ Live!Fresh.open
    BY DEF Live!Fresh, Pages, Modes, NoneApart
  <1>4. \A k \in Saves, h \in (Ids \ unused) \union {None} :
          Fits(Live!Fresh, k, h, unused) /\ Fits([Live!Fresh EXCEPT !.scout = TRUE], k, h, unused)
    <2> SUFFICES ASSUME NEW k \in Saves, NEW h \in (Ids \ unused) \union {None}
                 PROVE  Fits(Live!Fresh, k, h, unused) /\ Fits([Live!Fresh EXCEPT !.scout = TRUE], k, h, unused)
      OBVIOUS
    <2>1. Fits(Live!Fresh, k, h, unused)
      BY <1>2, <1>3 DEF Fits
    <2> DEFINE q == [Live!Fresh EXCEPT !.scout = TRUE]
    <2>2. /\ q.current = None /\ q.observer = None /\ q.mode = "IDLE" /\ q.arrived = 0 /\ q.visible = 0 /\ q \in Pages
      BY <1>3 DEF Pages
    <2> HIDE DEF q
    <2>3. Fits(q, k, h, unused)
      BY <1>2, <2>2 DEF Fits
    <2> QED
      BY <2>1, <2>3 DEF q
  <1>5. Fits(page', saved', handled', unused)
    <2>1. CASE Live!Present(dom') = {}
      BY <2>1, <1>2, <1>4 DEF Live!Reload
    <2>2. CASE Live!Present(dom') # {}
      <3>1. PICK first \in Live!Present(dom') :
              IF Live!IsHandled(first) THEN page' = [Live!Fresh EXCEPT !.scout = TRUE] /\ UNCHANGED saved
              ELSE page' = Live!Resumed(Live!Fresh, dom', first) /\ saved' = Live!Saved(page')
        BY <2>2 DEF Live!Reload
      <3>2. handled' = handled /\ first \in Ids \ unused /\ dom'[first] # None
        BY <2>2, <3>1, <1>1 DEF Live!Reload, Live!Present
      <3>3. CASE Live!IsHandled(first)
        BY <3>1, <3>2, <3>3, <1>2, <1>4
      <3>4. CASE ~Live!IsHandled(first)
        <4>1. page' = Live!Resumed(Live!Fresh, dom', first) /\ saved' = Live!Saved(page') /\ first # handled
          BY <3>1, <3>4 DEF Live!IsHandled
        <4>2. Fits(Live!Fresh, saved, handled, unused)
          BY <1>2, <1>4
        <4>3. Fits(page', IF page'.open THEN Live!Saved(page') ELSE saved, handled, unused)
          BY <4>1, <4>2, <3>2, <1>1, ResumedFits
        <4>4. page'.open
          BY <4>1, <1>3 DEF Live!Resumed, Pages
        <4> QED
          BY <4>1, <4>3, <4>4, <3>2
      <3> QED
        BY <3>3, <3>4
    <2> QED
      BY <2>1, <2>2
  <1>6. posts' \in SUBSET posts /\ server' = Live!Closed /\ UNCHANGED <<source, unused, verdicts>> /\ maker' = maker
    BY DEF Live!Reload
  <1>7. LiveTypes' /\ GivenOut' /\ AllTruthful' /\ Live!DecisionsKept'
    BY <1>1, <1>6, ClosedKeeps DEF LiveInv, LiveTypes, GivenOut, AllTruthful, Live!DecisionsKept
  <1> QED
    BY <1>5, <1>6, <1>7 DEF LiveInv

\* enqueueEvent, for a post that arrives and for the exit timer; posts that are lost go nowhere.
LEMMA EnqueueKeeps ==
  ASSUME LiveInv, NEW e \in Posts, Truthful(e, verdicts, unused), posts' \in SUBSET posts,
         server'.events = Append(server.events, e), UNCHANGED <<page, saved, handled, maker, source, dom, unused, verdicts>>,
         server' \in [events : Seq(Posts), replies : Seq({"done", "error"}), client : BOOLEAN, leaving : BOOLEAN, up : BOOLEAN]
  PROVE  LiveInv'
  <1>1. server.events \in Seq(Posts)
    BY DEF LiveInv, LiveTypes
  <1>2. \A i \in 1 .. Len(server'.events) :
          server'.events[i] = e \/ (i \in 1 .. Len(server.events) /\ server'.events[i] = server.events[i])
    BY <1>1
  <1>3. AllTruthful'
    BY <1>2 DEF LiveInv, AllTruthful
  <1> QED
    BY <1>3 DEF LiveInv, LiveTypes, GivenOut, Live!DecisionsKept

LEMMA QueueActions ==
  ASSUME NoneApart, LiveInv, Live!Deserted \/ \E e \in posts : Live!Posted(e)
  PROVE  LiveInv'
  <1> DEFINE Servers ==
        [events : Seq(Posts), replies : Seq({"done", "error"}), client : BOOLEAN, leaving : BOOLEAN, up : BOOLEAN]
  <1>1. server \in Servers /\ server.events \in Seq(Posts) /\ posts \subseteq Posts
    BY DEF LiveInv, LiveTypes
  <1>2. CASE Live!Deserted
    <2> DEFINE e == Live!Event("exit", None, 0)
    <2>1. e \in Posts /\ Truthful(e, verdicts, unused)
      BY DEF Live!Event, Posts, Truthful, NoneApart
    <2>2. server' = [server EXCEPT !.leaving = FALSE, !.events = Append(@, e)] /\ Append(server.events, e) \in Seq(Posts)
      BY <1>1, <1>2, <2>1 DEF Live!Deserted
    <2> HIDE DEF e
    <2>3. server' \in Servers /\ server'.events = Append(server.events, e)
      BY <1>1, <2>2
    <2> QED
      BY <2>1, <2>3, <1>2, EnqueueKeeps DEF Live!Deserted, Live!pageVars
  <1>3. ASSUME NEW e \in posts, Live!Posted(e) PROVE LiveInv'
    <2>1. e \in Posts /\ Truthful(e, verdicts, unused)
      BY <1>1 DEF LiveInv, AllTruthful
    <2>2. posts' \in SUBSET posts /\ UNCHANGED <<page, saved, handled, maker, source, dom, unused, verdicts>>
      BY <1>3 DEF Live!Posted, Live!pageVars
    <2>3. CASE server' = [server EXCEPT !.events = Append(@, e)]
      <3>1. Append(server.events, e) \in Seq(Posts)
        BY <1>1, <2>1
      <3>2. server' \in Servers /\ server'.events = Append(server.events, e)
        BY <3>1, <2>3, <1>1
      <3> QED
        BY <2>1, <2>2, <3>2, EnqueueKeeps
    <2>4. CASE server' = server
      BY <2>2, <2>4 DEF LiveInv, LiveTypes, GivenOut, AllTruthful, Live!DecisionsKept
    <2> QED
      BY <1>3, <2>3, <2>4 DEF Live!Posted
  <1> QED
    BY <1>2, <1>3

\* The agent and its clients: the source changes for ids that were given out, and to what was decided.
LEMMA AgentKeeps ==
  ASSUME LiveInv, UNCHANGED <<page, saved, handled, posts, dom, unused, verdicts>>,
         maker' \in [id : Ids \union {None}, step : {"idle", "wrap", "write", "reply"}],
         maker' = Live!Idle \/ (maker'.step # "idle" /\ maker'.id \in Ids \ unused),
         server' \in [events : Seq(Posts), replies : Seq({"done", "error"}), client : BOOLEAN, leaving : BOOLEAN, up : BOOLEAN],
         \A i \in 1 .. Len(server'.events) : Truthful(server'.events[i], verdicts, unused),
         source' \in [Ids -> Sources],
         \A s \in Ids : \/ source'[s] = source[s]
                        \/ s \notin unused /\ (source'[s].is \in {"accepted", "restored"} => source'[s].variant \in verdicts[s])
  PROVE  LiveInv'
  <1>1. LiveTypes'
    BY DEF LiveInv, LiveTypes
  <1>2. GivenOut'
    BY DEF LiveInv, LiveTypes, GivenOut
  <1>3. AllTruthful'
    BY DEF LiveInv, AllTruthful
  <1>4. Live!DecisionsKept'
    BY DEF LiveInv, Live!DecisionsKept
  <1> QED
    BY <1>1, <1>2, <1>3, <1>4 DEF LiveInv

LEMMA PollKeeps == ASSUME NoneApart, LiveInv, Live!Poll PROVE LiveInv'
  <1> DEFINE Servers ==
        [events : Seq(Posts), replies : Seq({"done", "error"}), client : BOOLEAN, leaving : BOOLEAN, up : BOOLEAN]
             Makers == [id : Ids \union {None}, step : {"idle", "wrap", "write", "reply"}]
             e == Head(server.events)
             left == [server EXCEPT !.events = Tail(@)]
  <1>1. /\ server \in Servers /\ server.events \in Seq(Posts) /\ server.events # <<>> /\ source \in [Ids -> Sources]
        /\ maker = Live!Idle /\ UNCHANGED <<page, saved, handled, posts, dom, unused, verdicts>> /\ maker \in Makers
    BY DEF LiveInv, LiveTypes, Live!Poll, Live!pageVars
  <1>2. e \in Posts /\ Truthful(e, verdicts, unused) /\ Tail(server.events) \in Seq(Posts)
    BY <1>1 DEF LiveInv, AllTruthful
  <1>3. \A i \in 1 .. Len(Tail(server.events)) : Truthful(Tail(server.events)[i], verdicts, unused)
    BY <1>1 DEF LiveInv, AllTruthful
  <1>4. left \in Servers /\ left.events = Tail(server.events)
    BY <1>1, <1>2
  <1>5. Live!Stopped(server) \in Servers /\ Live!Stopped(server).events = <<>>
    <2>1. <<>> \in Seq(Posts) /\ <<>> \in Seq({"done", "error"}) /\ FALSE \in BOOLEAN
      OBVIOUS
    <2> QED
      BY <1>1, <2>1 DEF Live!Stopped
  <1>6. server' \in {left, Live!Stopped(server)}
    BY DEF Live!Poll
  <1>7. server' \in Servers /\ \A i \in 1 .. Len(server'.events) : Truthful(server'.events[i], verdicts, unused)
    <2> HIDE DEF left
    <2>1. CASE server' = left
      BY <2>1, <1>3, <1>4
    <2>2. CASE server' = Live!Stopped(server)
      BY <2>2, <1>5
    <2> QED
      BY <2>1, <2>2, <1>6
  <1>8. maker' \in Makers /\ (maker' = Live!Idle \/ (maker'.step # "idle" /\ maker'.id \in Ids \ unused))
    <2>1. maker' = maker \/ (e.type = "generate" /\ maker' = [id |-> e.id, step |-> "wrap"])
      BY DEF Live!Poll
    <2>2. e.type = "generate" => e.id \in Ids \ unused
      BY <1>2 DEF Truthful
    <2> HIDE DEF e
    <2> QED
      BY <2>1, <2>2, <1>1 DEF Live!Idle
  <1>9. /\ source' \in [Ids -> Sources]
        /\ \A s \in Ids : \/ source'[s] = source[s]
                          \/ s \notin unused /\ (source'[s].is \in {"accepted", "restored"} => source'[s].variant \in verdicts[s])
    <2>1. source' = source \/ (e.type \in {"accept", "discard"} /\ source' = Live!Resolved(e))
      BY DEF Live!Poll
    <2>2. CASE e.type \in {"accept", "discard"} /\ source' = Live!Resolved(e)
      <3>1. e.id \in Ids \ unused /\ e.variant \in verdicts[e.id] /\ e.variant \in 0 .. Count
        BY <1>2, <2>2 DEF Truthful, Posts
      <3> DEFINE to == [is |-> IF e.type = "discard" THEN "restored" ELSE "accepted", variant |-> e.variant]
      <3>2. to \in Sources /\ to.variant = e.variant
        BY <3>1 DEF Sources
      <3>3. source' = [source EXCEPT ![e.id] = to] \/ source' = source
        BY <2>2 DEF Live!Resolved
      <3> HIDE DEF to, e
      <3> QED
        BY <3>1, <3>2, <3>3, <1>1
    <2> QED
      BY <2>1, <2>2, <1>1
  <1> HIDE DEF e, left
  <1> QED
    BY <1>1, <1>7, <1>8, <1>9, AgentKeeps

\* Wrap, Write, Done and GiveUp.
LEMMA WorkKeeps ==
  ASSUME NoneApart, LiveInv, Live!Wrap \/ Live!Write \/ Live!Done \/ Live!GiveUp
  PROVE  LiveInv'
  <1> DEFINE Servers ==
        [events : Seq(Posts), replies : Seq({"done", "error"}), client : BOOLEAN, leaving : BOOLEAN, up : BOOLEAN]
             Makers == [id : Ids \union {None}, step : {"idle", "wrap", "write", "reply"}]
  <1>1. /\ UNCHANGED <<page, saved, handled, posts, dom, unused, verdicts>> /\ maker \in Makers /\ source \in [Ids -> Sources]
        /\ server \in Servers /\ unused \subseteq Ids /\ (maker = Live!Idle \/ (maker.step # "idle" /\ maker.id \in Ids \ unused))
    BY DEF LiveInv, LiveTypes, GivenOut, Live!Wrap, Live!Write, Live!Done, Live!GiveUp, Live!pageVars
  <1>2. Live!Idle \in Makers /\ Live!Idle.step = "idle" /\ Live!Absent \in Sources /\ Live!Absent.is = "none"
    BY DEF Live!Idle, Live!Absent, Sources, NoneApart
  <1>3. ASSUME NEW r \in {"done", "error"}
        PROVE  Live!Broadcast(r) \in Servers /\ Live!Broadcast(r).events = server.events
    <2>1. Append(server.replies, r) \in Seq({"done", "error"})
      BY <1>1
    <2> QED
      BY <1>1, <2>1 DEF Live!Broadcast
  <1>4. server' \in Servers /\ server'.events = server.events
    BY <1>1, <1>3 DEF Live!Wrap, Live!Write, Live!Done, Live!GiveUp
  <1>5. maker' \in Makers /\ (maker' = Live!Idle \/ (maker'.step # "idle" /\ maker'.id \in Ids \ unused))
    <2>1. CASE Live!Wrap \/ Live!Write
      BY <2>1, <1>1, <1>2 DEF Live!Wrap, Live!Write
    <2>2. CASE Live!Done \/ Live!GiveUp
      BY <2>2, <1>2 DEF Live!Done, Live!GiveUp
    <2> QED
      BY <2>1, <2>2
  <1>6. /\ source' \in [Ids -> Sources]
        /\ \A s \in Ids : \/ source'[s] = source[s]
                          \/ s \notin unused /\ (source'[s].is \in {"accepted", "restored"} => source'[s].variant \in verdicts[s])
    <2>1. ASSUME NEW w \in {"wrapped", "written"}, maker.step # "idle", source' = [source EXCEPT ![maker.id].is = w]
          PROVE  /\ source' \in [Ids -> Sources]
                 /\ \A s \in Ids : source'[s] = source[s] \/ (s \notin unused /\ source'[s].is \notin {"accepted", "restored"})
      <3>1. maker.id \in Ids \ unused
        BY <1>1, <1>2, <2>1
      <3>2. [source[maker.id] EXCEPT !.is = w] \in Sources /\ [source[maker.id] EXCEPT !.is = w].is = w
        BY <1>1, <3>1 DEF Sources
      <3> QED
        BY <3>1, <3>2, <2>1, <1>1
    <2>2. CASE source' = [source EXCEPT ![maker.id] = Live!Absent] /\ maker.step # "idle"
      BY <2>2, <1>1, <1>2
    <2>3. CASE source' = source
      BY <2>3, <1>1
    <2>4. Live!Wrap \/ Live!Write \/ Live!GiveUp => maker.step # "idle"
      BY <1>1 DEF Live!Wrap, Live!Write, Live!GiveUp
    <2> QED
      BY <2>1, <2>2, <2>3, <2>4 DEF Live!Wrap, Live!Write, Live!Done, Live!GiveUp
  <1> QED
    BY <1>1, <1>4, <1>5, <1>6, AgentKeeps DEF LiveInv, AllTruthful

LEMMA LiveStep == ASSUME NoneApart, LiveInv, [Live!Next]_Live!vars PROVE LiveInv'
  <1>1. CASE Live!Next
    BY <1>1, PageActions, GoKeeps, AcceptKeeps, DiscardKeeps, ExitKeeps, StreamActions, MutationKeeps, SwapKeeps, ReloadKeeps,
       QueueActions, PollKeeps, WorkKeeps DEF Live!Next
  <1>2. CASE UNCHANGED Live!vars
    BY <1>2 DEF Live!vars, LiveInv, LiveTypes, GivenOut, AllTruthful, Live!DecisionsKept
  <1> QED
    BY <1>1, <1>2

\* live-browser.js, live-server.mjs, live-accept.mjs: however the page is reloaded and posts are lost or
\* overtake each other, the source becomes what the user chose for that session; the variant that the
\* page offers is there, in the session that a reload would find; and no decided session is offered.
THEOREM DecisionsHold == ASSUME NoneApart PROVE Live!Spec => []Live!Sound
  <1>1. Live!Init => LiveInv
    BY LiveInit
  <1>2. LiveInv /\ [Live!Next]_Live!vars => LiveInv'
    BY LiveStep
  <1>3. LiveInv => Live!Sound
    BY LiveSound
  <1> QED
    BY <1>1, <1>2, <1>3, PTL DEF Live!Spec

-------------------------------------------------------------------------------
(* The persistent browsers                                                   *)

CONSTANTS MaxPages, MaxCalls
VARIABLES app, context, alive, pages, opened, active, queue, op, told, acted, ended, raced

Tabs == INSTANCE Browser

Numbers == Nat \ {0}
Moments == {"done", "start", "reset", "launching", "ready", "acting", "closing"}
Operating == [kind : Tabs!Kinds \union {"none", "switch", "close_tab"}, at : Moments, tab : Nat]

TabTypes ==
  /\ app \in BOOLEAN /\ context \in {"none", "open", "dead"} /\ alive \in Int /\ opened \in Nat
  /\ pages \in Seq(Numbers) /\ active \in Numbers /\ queue \in Seq(Tabs!Operations)
  /\ op \in Operating /\ (op.at = "closing" => op.tab \in Numbers)
  /\ told \in Nat /\ acted \in Nat /\ ended \in BOOLEAN /\ raced \in BOOLEAN

\* A browser runs when the runtime knows of one, and a launch begins when it knows of none.
BrowserKnown ==
  /\ alive = (IF context = "open" THEN 1 ELSE 0) /\ (context # "open" => pages = <<>>)
  /\ op.at = "launching" => context = "none"
  /\ ended /\ ~raced => op = Tabs!Idle /\ queue = <<>> /\ context = "none"

\* The index is at the tab that was reported, as long as none opened or closed by itself.
ReportHolds ==
  /\ told # 0 => active \in 1 .. Len(pages) /\ told = pages[active]
  /\ op.at = "acting" => acted # 0 /\ (told # 0 => acted = told)

TabInv == TabTypes /\ BrowserKnown /\ ReportHolds

LEMMA TabSound == ASSUME TabInv PROVE Tabs!Sound
  <1>1. Tabs!ActsOnActive
    BY DEF TabInv, TabTypes, ReportHolds, Tabs!ActsOnActive, Tabs!Range
  <1>2. Tabs!OneBrowser
    BY DEF TabInv, TabTypes, BrowserKnown, Tabs!OneBrowser
  <1> QED
    BY <1>1, <1>2 DEF Tabs!Sound

LEMMA TabInit == ASSUME Tabs!Init PROVE TabInv
  <1>1. op = [kind |-> "none", at |-> "done", tab |-> 0] /\ op \in Operating
    BY DEF Tabs!Init, Tabs!Idle, Operating, Moments
  <1>2. <<>> \in Seq(Numbers) /\ <<>> \in Seq(Tabs!Operations) /\ 1 \in Numbers
    BY DEF Numbers
  <1>4. TabTypes
    <2>1. app \in BOOLEAN /\ ended \in BOOLEAN /\ raced \in BOOLEAN
      BY Zenon DEF Tabs!Init
    <2>2. /\ context = "none" /\ alive = 0 /\ pages = <<>> /\ opened = 0 /\ active = 1 /\ queue = <<>> /\ told = 0
          /\ acted = 0 /\ op.at = "done"
      BY <1>1 DEF Tabs!Init
    <2> QED
      BY <1>1, <1>2, <2>1, <2>2 DEF TabTypes
  <1>3. BrowserKnown /\ ReportHolds
    BY <1>1 DEF Tabs!Init, BrowserKnown, ReportHolds
  <1> QED
    BY <1>3, <1>4 DEF TabInv

\* page.close leaves a list of tabs.
LEMMA WithoutType == ASSUME TabTypes, NEW x PROVE Tabs!Without(x) \in Seq(Numbers)
  <1>1. pages \in Seq(Numbers)
    BY DEF TabTypes
  <1>2. CASE x \in Tabs!Range(pages)
    <2> DEFINE k == CHOOSE i \in DOMAIN pages : pages[i] = x
    <2>1. k \in 1 .. Len(pages)
      BY <1>1, <1>2 DEF Tabs!Range
    <2> HIDE DEF k
    <2>2. SubSeq(pages, 1, k - 1) \in Seq(Numbers) /\ SubSeq(pages, k + 1, Len(pages)) \in Seq(Numbers)
      BY <1>1, <2>1
    <2>3. Tabs!RemoveAt(pages, k) \in Seq(Numbers)
      BY <2>2 DEF Tabs!RemoveAt
    <2> QED
      BY <1>2, <2>3 DEF Tabs!Without, k
  <1>3. CASE x \notin Tabs!Range(pages)
    BY <1>1, <1>3 DEF Tabs!Without
  <1> QED
    BY <1>2, <1>3

\* The operation may be anywhere; at a moment that asks nothing of the tabs.
LEMMA Moved ==
  ASSUME op \in Operating, NEW m \in Moments, NEW q, q = [op EXCEPT !.at = m]
  PROVE  q \in Operating /\ q.at = m /\ q.tab = op.tab /\ q.kind = op.kind
  BY DEF Operating

LEMMA IdleOperating == Tabs!Idle \in Operating /\ Tabs!Idle.at = "done" /\ Tabs!Idle.kind = "none"
  BY DEF Tabs!Idle, Operating, Moments

\* Tools that are called, and their turn.
LEMMA TurnKeeps == ASSUME TabInv, Tabs!Call \/ Tabs!Begin PROVE TabInv'
  <1> USE DEF Tabs!tabs, Tabs!report, Tabs!session
  <1>1. \A c \in Tabs!Operations : c \in Operating /\ c.at = "start"
    BY DEF Tabs!Operations, Operating, Moments, Tabs!Kinds
  <1>2. queue \in Seq(Tabs!Operations)
    BY DEF TabInv, TabTypes
  <1>3. CASE Tabs!Call
    <2>1. PICK c \in Tabs!Operations : queue' = Append(queue, c)
      BY <1>3 DEF Tabs!Call
    <2>2. queue' \in Seq(Tabs!Operations)
      BY <2>1, <1>2
    <2> QED
      BY <2>2, <1>3 DEF Tabs!Call, TabInv, TabTypes, BrowserKnown, ReportHolds
  <1>4. CASE Tabs!Begin
    <2>1. /\ queue # <<>> /\ op' = Head(queue) /\ queue' = Tail(queue) /\ queue' \in Seq(Tabs!Operations)
          /\ UNCHANGED <<app, context, alive, pages, opened, active, told, acted, ended, raced>>
      BY <1>2, <1>4 DEF Tabs!Begin
    <2>2. op' \in Tabs!Operations
      BY <1>2, <2>1
    <2>3. op' \in Operating /\ op'.at = "start"
      BY <1>1, <2>2
    <2>4. TabTypes'
      BY <2>1, <2>3 DEF TabInv, TabTypes
    <2>5. BrowserKnown' /\ ReportHolds'
      BY <2>1, <2>3 DEF TabInv, BrowserKnown, ReportHolds
    <2> QED
      BY <2>4, <2>5 DEF TabInv
  <1> QED
    BY <1>3, <1>4

\* shutdown.
LEMMA Forgotten ==
  ASSUME TabInv, Tabs!Forget
  PROVE  context' = "none" /\ alive' = 0 /\ pages' = <<>> /\ pages' \in Seq(Numbers) /\ active' \in Numbers /\ opened' = opened
  BY DEF TabInv, TabTypes, BrowserKnown, Tabs!Forget, Numbers

LEMMA EndKeeps == ASSUME TabInv, Tabs!Reset \/ Tabs!SessionEnds PROVE TabInv'
  <1>1. Tabs!Forget /\ told' = 0 /\ acted' = acted /\ app' = app /\ queue' = queue
    BY DEF Tabs!Reset, Tabs!SessionEnds, Tabs!session
  <1>2. CASE Tabs!Reset
    <2>1. /\ op' \in Operating /\ op'.at \in {"done", "reset"} /\ ended' = ended /\ raced' = raced /\ op # Tabs!Idle
          /\ (ended /\ ~raced => op = Tabs!Idle)
      <3>1. op' = Tabs!Idle \/ op' = [op EXCEPT !.at = "reset"]
        BY <1>2 DEF Tabs!Reset
      <3>2. "reset" \in Moments
        BY DEF Moments
      <3>3. op' \in Operating /\ op'.at \in {"done", "reset"}
        BY <3>1, <3>2, Moved, IdleOperating DEF TabInv, TabTypes
      <3> QED
        BY <3>3, <1>2, IdleOperating DEF Tabs!Reset, Tabs!session, TabInv, BrowserKnown
    <2>2. TabTypes'
      BY <1>1, <2>1, Forgotten DEF TabInv, TabTypes
    <2> QED
      BY <1>1, <2>1, <2>2, Forgotten DEF TabInv, BrowserKnown, ReportHolds
  <1>3. CASE Tabs!SessionEnds
    <2>1. op' = op /\ ended' = TRUE /\ raced' = (op # Tabs!Idle \/ queue # <<>>)
      BY <1>3 DEF Tabs!SessionEnds
    <2>2. ended' \in BOOLEAN /\ raced' \in BOOLEAN
      BY <2>1
    <2>3. TabTypes'
      BY <1>1, <2>1, <2>2, Forgotten DEF TabInv, TabTypes
    <2> QED
      BY <1>1, <2>1, <2>3, Forgotten DEF TabInv, BrowserKnown, ReportHolds
  <1> QED
    BY <1>2, <1>3

\* ensureContext.
LEMMA LaunchKeeps ==
  ASSUME TabInv, Tabs!Launch \/ Tabs!Launched \/ Tabs!LaunchFails \/ Tabs!Ready \/ Tabs!Gone \/ Tabs!TabLost \/ Tabs!Acted
  PROVE  TabInv'
  <1> USE DEF Tabs!tabs, Tabs!report, Tabs!session
  <1>1. op \in Operating /\ {"launching", "ready"} \subseteq Moments /\ Tabs!Idle.at = "done"
    BY IdleOperating DEF TabInv, TabTypes, Moments
  <1>2. CASE Tabs!Launch \/ Tabs!Ready
    <2>1. PICK m \in {"launching", "ready"} :
            op' = [op EXCEPT !.at = m] /\ op # Tabs!Idle /\ (m = "launching" => context = "none")
      BY <1>1, <1>2, IdleOperating DEF Tabs!Launch, Tabs!Ready, Tabs!NeedsBrowser
    <2>2. op' \in Operating /\ op'.at = m
      BY <1>1, <2>1, Moved
    <2>3. UNCHANGED <<app, context, alive, pages, opened, active, queue, told, acted, ended, raced>>
      BY <1>2 DEF Tabs!Launch, Tabs!Ready
    <2> QED
      BY <2>1, <2>2, <2>3 DEF TabInv, TabTypes, BrowserKnown, ReportHolds
  <1>3. CASE Tabs!Launched
    <2>1. op' = [op EXCEPT !.at = "ready"] /\ op.at = "launching" /\ op # Tabs!Idle
      BY <1>1, <1>3 DEF Tabs!Launched
    <2>2. op' \in Operating /\ op'.at = "ready"
      BY <1>1, <2>1, Moved
    <2>3. /\ context = "none" /\ alive = 0 /\ context' = "open" /\ alive' = 1 /\ opened' = opened + 1 /\ pages' = <<opened'>>
          /\ active' \in {active, 1} /\ UNCHANGED <<app, queue, told, acted, ended, raced>>
      BY <1>3 DEF Tabs!Launched, TabInv, BrowserKnown
    <2>6. told = 0
      BY <2>3 DEF TabInv, BrowserKnown, ReportHolds
    <2>4. opened' \in Numbers /\ pages' \in Seq(Numbers) /\ active' \in Numbers
      BY <2>3 DEF TabInv, TabTypes, Numbers
    <2>5. TabTypes'
      BY <2>2, <2>3, <2>4 DEF TabInv, TabTypes, Numbers
    <2> QED
      BY <2>1, <2>2, <2>3, <2>5, <2>6 DEF TabInv, BrowserKnown, ReportHolds
  <1>4. CASE Tabs!LaunchFails \/ Tabs!Gone \/ Tabs!TabLost \/ Tabs!Acted
    <2>1. op' = Tabs!Idle /\ acted' = 0 /\ told' = told /\ UNCHANGED <<app, context, alive, pages, opened, active, queue, ended, raced>>
      BY <1>4 DEF Tabs!LaunchFails, Tabs!Gone, Tabs!TabLost, Tabs!Acted, Tabs!Fails
    <2> QED
      BY <2>1, IdleOperating DEF TabInv, TabTypes, BrowserKnown, ReportHolds
  <1> QED
    BY <1>2, <1>3, <1>4

\* What an operation does with the tabs of an open browser.
LEMMA OperationKeeps ==
  ASSUME TabInv, context = "open", op # Tabs!Idle, UNCHANGED <<app, context, alive, queue, ended, raced>>,
         pages' \in Seq(Numbers), opened' \in Nat, active' \in Numbers, op' \in Operating, told' \in Nat, acted' \in Nat,
         op'.at = "closing" => op'.tab \in Numbers, op'.at # "launching", ReportHolds'
  PROVE  TabInv'
  <1>1. TabTypes'
    BY DEF TabInv, TabTypes
  <1> QED
    BY <1>1 DEF TabInv, BrowserKnown

\* activePage clamps the index to the tabs there are.
LEMMA ClampedTab ==
  ASSUME TabInv, pages # <<>>
  PROVE  /\ Tabs!Clamped \in 1 .. Len(pages) /\ Tabs!Clamped \in Numbers /\ pages[Tabs!Clamped] \in Numbers
         /\ (active \in 1 .. Len(pages) => Tabs!Clamped = active)
  <1>1. pages \in Seq(Numbers) /\ Len(pages) > 0 /\ active \in Numbers
    BY DEF TabInv, TabTypes
  <1>2. Tabs!Clamped \in 1 .. Len(pages) /\ (active \in 1 .. Len(pages) => Tabs!Clamped = active)
    BY <1>1 DEF Tabs!Clamped, Tabs!Smaller, Numbers
  <1> QED
    BY <1>1, <1>2 DEF Numbers

LEMMA ActKeeps == ASSUME TabInv, Tabs!Act PROVE TabInv'
  <1>1. /\ op \in Operating /\ "acting" \in Moments /\ op # Tabs!Idle
    BY IdleOperating DEF Tabs!Act, TabInv, TabTypes, Moments
  <1>2. op' \in Operating /\ op'.at = "acting"
    BY <1>1, Moved DEF Tabs!Act
  <1>3. /\ context = "open" /\ pages # <<>> /\ active' = Tabs!Clamped /\ acted' = pages[Tabs!Clamped]
        /\ told' = (IF told = 0 THEN acted' ELSE told) /\ UNCHANGED <<app, context, alive, pages, opened, queue, ended, raced>>
    BY DEF Tabs!Act, Tabs!ActivePage, Tabs!session
  <1>4. ReportHolds' /\ told' \in Nat /\ acted' \in Nat
    BY <1>3, ClampedTab DEF TabInv, TabTypes, ReportHolds, Numbers
  <1> QED
    BY <1>1, <1>2, <1>3, <1>4, ClampedTab, OperationKeeps DEF TabInv, TabTypes

\* A tab is added at the end.
LEMMA Opened ==
  ASSUME TabInv, Tabs!Opens
  PROVE  /\ opened' \in Numbers /\ pages' \in Seq(Numbers) /\ Len(pages') \in Numbers /\ pages'[Len(pages')] = opened'
         /\ UNCHANGED <<context, alive>>
  BY DEF TabInv, TabTypes, Tabs!Opens, Numbers

\* The operations on tabs, except for closing one.
LEMMA TabKeeps ==
  ASSUME TabInv, Tabs!NewPage \/ Tabs!NewTab \/ Tabs!List \/ Tabs!Switch \/ Tabs!ChooseTab
  PROVE  TabInv'
  <1> USE DEF Tabs!tabs, Tabs!report, Tabs!session
  <1>1. /\ op \in Operating /\ op.at = "ready" /\ op # Tabs!Idle /\ context = "open" /\ 1 \in Numbers
        /\ pages \in Seq(Numbers) /\ active \in Numbers /\ opened \in Nat /\ told \in Nat /\ acted \in Nat /\ op.tab \in Nat
        /\ Numbers \subseteq Nat /\ 0 \notin Numbers
    BY IdleOperating DEF Tabs!NewPage, Tabs!NewTab, Tabs!List, Tabs!Switch, Tabs!ChooseTab, TabInv, TabTypes, Operating, Numbers
  <1>2. CASE Tabs!NewPage
    <2>1. told = 0
      BY <1>2 DEF Tabs!NewPage, TabInv, ReportHolds
    <2>2. Tabs!Opens /\ active' = 1 /\ UNCHANGED <<app, queue, op, told, acted, ended, raced>>
      BY <1>2 DEF Tabs!NewPage
    <2>3. ReportHolds'
      BY <1>1, <2>1, <2>2 DEF ReportHolds
    <2> QED
      BY <1>1, <2>2, <2>3, Opened, OperationKeeps
  <1>3. CASE Tabs!NewTab
    <2>1. Tabs!Opens /\ active' = Len(pages') /\ op' = Tabs!Idle /\ told' = opened' /\ acted' = 0
          /\ UNCHANGED <<app, queue, ended, raced>>
      BY <1>3 DEF Tabs!NewTab, Tabs!Tells
    <2>2. ReportHolds'
      BY <2>1, Opened, IdleOperating DEF ReportHolds, Numbers
    <2> QED
      BY <1>1, <2>1, <2>2, Opened, IdleOperating, OperationKeeps
  <1>4. CASE Tabs!List
    <2>1. /\ op' = Tabs!Idle /\ told' = (IF active \in 1 .. Len(pages) THEN pages[active] ELSE 0) /\ acted' = 0
          /\ UNCHANGED <<app, context, alive, pages, opened, active, queue, ended, raced>>
      BY <1>1, <1>4 DEF Tabs!List, Tabs!Tells
    <2>2. told' \in Nat /\ (told' # 0 => active \in 1 .. Len(pages) /\ told' = pages[active])
      <3>1. CASE active \in 1 .. Len(pages)
        <4>1. pages[active] \in Numbers /\ told' = pages[active]
          BY <1>1, <2>1, <3>1
        <4> QED
          BY <1>1, <3>1, <4>1
      <3>2. CASE active \notin 1 .. Len(pages)
        BY <2>1, <3>2
      <3> QED
        BY <3>1, <3>2
    <2>3. ReportHolds'
      BY <2>1, <2>2, IdleOperating DEF ReportHolds
    <2> QED
      BY <1>1, <2>1, <2>2, <2>3, IdleOperating, OperationKeeps
  <1>5. CASE Tabs!Switch
    <2>1. op' = Tabs!Idle /\ acted' = 0 /\ UNCHANGED <<app, context, alive, pages, opened, queue, ended, raced>>
      BY <1>5 DEF Tabs!Switch, Tabs!Tells, Tabs!Fails
    <2>2. CASE op.tab \in 1 .. Len(pages)
      <3>1. active' = op.tab /\ told' = pages[op.tab]
        BY <1>1, <1>5, <2>2 DEF Tabs!Switch, Tabs!Tells
      <3>2. active' \in Numbers /\ told' \in Nat /\ ReportHolds'
        BY <1>1, <2>1, <2>2, <3>1, IdleOperating DEF ReportHolds, Numbers
      <3> QED
        BY <1>1, <2>1, <3>2, IdleOperating, OperationKeeps
    <2>3. CASE op.tab \notin 1 .. Len(pages)
      <3>1. active' = active /\ told' = told
        BY <1>1, <1>5, <2>3 DEF Tabs!Switch, Tabs!Fails
      <3>2. ReportHolds'
        BY <2>1, <3>1, IdleOperating DEF TabInv, ReportHolds
      <3> QED
        BY <1>1, <2>1, <3>1, <3>2, IdleOperating, OperationKeeps
    <2> QED
      BY <2>2, <2>3
  <1>6. CASE Tabs!ChooseTab
    <2> DEFINE target == IF op.tab = 0 THEN active ELSE op.tab
    <2>1. target \in Numbers
      BY <1>1 DEF Numbers
    <2>2. UNCHANGED <<app, context, alive, pages, opened, active, queue, ended, raced>> /\ told' = told
      BY <1>6 DEF Tabs!ChooseTab, Tabs!Fails
    <2>3. \/ op' = Tabs!Idle /\ acted' = 0
          \/ op' = [op EXCEPT !.at = "closing", !.tab = target] /\ target \in 1 .. Len(pages) /\ acted' = pages[target]
      BY <1>1, <1>6 DEF Tabs!ChooseTab, Tabs!Fails
    <2> HIDE DEF target
    <2>4. CASE op' = Tabs!Idle /\ acted' = 0
      <3>1. ReportHolds'
        BY <2>2, <2>4, IdleOperating DEF TabInv, ReportHolds
      <3> QED
        BY <1>1, <2>2, <2>4, <3>1, IdleOperating, OperationKeeps
    <2>5. CASE op' = [op EXCEPT !.at = "closing", !.tab = target] /\ target \in 1 .. Len(pages) /\ acted' = pages[target]
      <3>1. op' \in Operating /\ op'.at = "closing" /\ op'.tab \in Numbers
        BY <1>1, <2>1, <2>5 DEF Operating, Moments
      <3>2. ReportHolds' /\ acted' \in Nat
        BY <1>1, <2>2, <2>5, <3>1 DEF TabInv, ReportHolds
      <3> QED
        BY <1>1, <2>2, <3>1, <3>2, OperationKeeps
    <2> QED
      BY <2>3, <2>4, <2>5
  <1> QED
    BY <1>2, <1>3, <1>4, <1>5, <1>6

LEMMA TabClosedKeeps == ASSUME TabInv, Tabs!TabClosed PROVE TabInv'
  <1> DEFINE remaining == Tabs!Without(acted)
             k == IF app THEN active ELSE op.tab
  <1>1. /\ op.at = "closing" /\ context = "open" /\ remaining # <<>> /\ pages' = remaining
        /\ active' = Tabs!Smaller(k, Len(remaining)) /\ op' = Tabs!Idle /\ told' = remaining[active'] /\ acted' = 0
        /\ UNCHANGED <<app, context, alive, opened, queue, ended, raced>>
    BY DEF Tabs!TabClosed, Tabs!Tells, Tabs!session
  <1>2. remaining \in Seq(Numbers) /\ k \in Numbers /\ op # Tabs!Idle /\ opened \in Nat
    BY <1>1, WithoutType, IdleOperating DEF TabInv, TabTypes
  <1> HIDE DEF remaining, k
  <1>3. active' \in 1 .. Len(remaining) /\ active' \in Numbers /\ remaining[active'] \in Numbers
    BY <1>1, <1>2 DEF Tabs!Smaller, Numbers
  <1>4. ReportHolds' /\ told' \in Nat
    BY <1>1, <1>3, IdleOperating DEF ReportHolds, Numbers
  <1> QED
    BY <1>1, <1>2, <1>3, <1>4, IdleOperating, OperationKeeps

\* What pages and the browser do by themselves: no tab counts as reported any more.
LEMMA ByItselfKeeps ==
  ASSUME TabInv, Tabs!Popup \/ Tabs!Dies \/ \E i \in 1 .. MaxPages : Tabs!ClosesItself(i)
  PROVE  TabInv'
  <1>1. told' = 0 /\ acted' = acted /\ op' = op /\ UNCHANGED <<app, queue, ended, raced>> /\ context = "open"
    BY DEF Tabs!Popup, Tabs!Dies, Tabs!ClosesItself, Tabs!session
  <1>2. ReportHolds'
    BY <1>1 DEF TabInv, ReportHolds
  <1>3. pages \in Seq(Numbers) /\ active \in Numbers
    BY DEF TabInv, TabTypes
  <1>4. CASE Tabs!Popup
    <2>1. Tabs!Opens /\ active' = Len(pages')
      BY <1>4 DEF Tabs!Popup
    <2>2. TabTypes'
      BY <1>1, <2>1, Opened DEF TabInv, TabTypes, Numbers
    <2> QED
      BY <1>1, <1>2, <2>1, <2>2, Opened DEF TabInv, BrowserKnown
  <1>5. CASE Tabs!Dies
    <2>1. context' = "dead" /\ alive' = alive - 1 /\ pages' = <<>> /\ opened' = opened /\ active' = active
      BY <1>5 DEF Tabs!Dies
    <2>2. pages' \in Seq(Numbers) /\ alive' = 0 /\ op.at # "launching"
      BY <1>1, <2>1 DEF TabInv, BrowserKnown
    <2>3. TabTypes'
      BY <1>1, <2>1, <2>2 DEF TabInv, TabTypes
    <2> QED
      BY <1>1, <1>2, <2>1, <2>2, <2>3 DEF TabInv, BrowserKnown
  <1>6. ASSUME NEW i \in 1 .. MaxPages, Tabs!ClosesItself(i) PROVE TabInv'
    <2>1. /\ i \in 1 .. Len(pages) /\ pages' = Tabs!RemoveAt(pages, i) /\ context' = context /\ alive' = alive
          /\ opened' = opened /\ active' = active
      BY <1>3, <1>6 DEF Tabs!ClosesItself
    <2>2. SubSeq(pages, 1, i - 1) \in Seq(Numbers) /\ SubSeq(pages, i + 1, Len(pages)) \in Seq(Numbers)
      BY <1>3, <2>1
    <2>3. pages' \in Seq(Numbers)
      BY <2>1, <2>2 DEF Tabs!RemoveAt
    <2>4. TabTypes'
      BY <1>1, <2>1, <2>3 DEF TabInv, TabTypes
    <2> QED
      BY <1>1, <1>2, <2>1, <2>4 DEF TabInv, BrowserKnown
  <1> QED
    BY <1>4, <1>5, <1>6

LEMMA TabStep == ASSUME TabInv, [Tabs!Next]_Tabs!vars PROVE TabInv'
  <1>1. CASE Tabs!Next
    BY <1>1, TurnKeeps, EndKeeps, LaunchKeeps, ActKeeps, TabKeeps, TabClosedKeeps, ByItselfKeeps DEF Tabs!Next
  <1>2. CASE UNCHANGED Tabs!vars
    BY <1>2 DEF Tabs!vars, Tabs!tabs, Tabs!report, Tabs!session, TabInv, TabTypes, BrowserKnown, ReportHolds
  <1> QED
    BY <1>1, <1>2

\* activePage, closeTab, run and shutdown: whatever tabs open or close by themselves, an operation acts
\* on an open tab, and on the one last reported to be active while none did; one browser runs at a
\* time, and none after a session that ended between two operations.
THEOREM TabsAreRight == Tabs!Spec => []Tabs!Sound
  <1>1. Tabs!Init => TabInv
    BY TabInit
  <1>2. TabInv /\ [Tabs!Next]_Tabs!vars => TabInv'
    BY TabStep
  <1>3. TabInv => Tabs!Sound
    BY TabSound
  <1> QED
    BY <1>1, <1>2, <1>3, PTL DEF Tabs!Spec

-------------------------------------------------------------------------------
(* Summaries of tool results                                                 *)

CONSTANTS Results, Texts, Raw, MaxEntries, MaxEpochs
VARIABLES branch, mode, epoch, exposures, summaries, retries, skips, pending, jobs, swift, sent

Sums == INSTANCE ToolSummary WITH quick <- swift

\* A set of natural numbers has a first element, and a last one if it is bounded.
LEMMA FirstOf == ASSUME NEW S \in SUBSET Nat, S # {} PROVE \E x \in S : \A y \in S : x <= y
  <1>1. PICK x \in S : \A y \in S : ~ (<<y, x>> \in OpToRel(<, Nat))
    BY NatLessThanWellFounded, WFMin
  <1>2. \A y \in S : ~ (y < x)
    BY <1>1 DEF OpToRel
  <1> QED
    BY <1>2

LEMMA LastOf == ASSUME NEW n \in Nat, NEW S \in SUBSET (0 .. n), S # {} PROVE \E x \in S : \A y \in S : y <= x
  <1> DEFINE T == {n - s : s \in S}
  <1>1. T \in SUBSET Nat /\ T # {}
    <2>1. \A s \in S : n - s \in Nat
      OBVIOUS
    <2>2. PICK z \in S : TRUE
      OBVIOUS
    <2>3. n - z \in T
      OBVIOUS
    <2> QED
      BY <2>1, <2>3
  <1>2. PICK t \in T : \A y \in T : t <= y
    BY <1>1, FirstOf
  <1>3. PICK s \in S : t = n - s
    BY <1>2
  <1>4. \A y \in S : n - y \in T /\ n - s <= n - y
    BY <1>2, <1>3
  <1> QED
    BY <1>3, <1>4

\* SetToSeq lists each element once.
LEMMA Listed ==
  ASSUME NEW S, IsFiniteSet(S), NEW q, q = Sums!SetToSeq(S), NEW n, n = Cardinality(S)
  PROVE  /\ n \in Nat /\ q \in [1 .. n -> S]
         /\ \A i, j \in 1 .. n : q[i] = q[j] => i = j
         /\ \A x \in S : \E i \in 1 .. n : q[i] = x
  <1>1. n \in Nat /\ ExistsBijection(1 .. n, S)
    BY FS_CardinalityType
  <1>2. PICK f \in Bijection(1 .. n, S) : TRUE
    BY <1>1 DEF ExistsBijection
  <1>3. f \in [1 .. n -> S] /\ IsInjective(f)
    BY <1>2 DEF Bijection, Injection
  <1>4. Sums!Cardinality(S) = n
    BY Zenon DEF Cardinality, Sums!Cardinality
  <1>5. f \in [1 .. Sums!Cardinality(S) -> S] /\ Sums!IsInjective(f)
    BY <1>3, <1>4 DEF IsInjective, Sums!IsInjective
  <1>6. q \in [1 .. n -> S] /\ Sums!IsInjective(q)
    BY <1>4, <1>5 DEF Sums!SetToSeq
  <1>7. \A i, j \in 1 .. n : q[i] = q[j] => i = j
    BY <1>6 DEF Sums!IsInjective
  <1>8. q \in Injection(1 .. n, S)
    BY <1>6, <1>7 DEF Injection, IsInjective
  <1>9. IsFiniteSet(1 .. n) /\ Cardinality(1 .. n) = Cardinality(S)
    BY <1>1, FS_Interval
  <1>10. q \in Surjection(1 .. n, S)
    BY <1>8, <1>9, FS_Injection
  <1> QED
    BY <1>1, <1>6, <1>7, <1>10 DEF Surjection

-----------------------------------------------------------------------------
\* There are finitely many results, and the exact text of one is none of the summaries.
RawApart == Raw \notin Texts /\ IsFiniteSet(Results)

Switches == {"on", "pause", "off"}
Entries ==
  [kind : {"result", "exposure", "retry", "skip"}, key : Results, epoch : Nat]
  \union [kind : {"summary"}, key : Results, epoch : Nat, text : Texts]
  \union [kind : {"config"}, mode : Switches, epoch : Nat]
  \union [kind : {"response"}, raw : SUBSET Results, epoch : Nat]

\* What the entries of a branch say of each other: each is of the epoch that its branch had reached, and
\* behind an exposure or a summary is a response to a call that held the exact result.
Grounded(b) ==
  /\ \A i \in 1 .. Len(b) : b[i].epoch > 0 => \E j \in 1 .. i : b[j].kind = "config" /\ b[i].epoch <= b[j].epoch
  /\ \A j \in 1 .. Len(b) : b[j].kind = "config" => \A i \in 1 .. j : b[i].epoch <= b[j].epoch
  /\ \A i \in 1 .. Len(b) : b[i].kind \in {"exposure", "summary"} =>
       \E j \in 1 .. i : b[j].kind = "response" /\ b[i].key \in b[j].raw /\ b[j].epoch = b[i].epoch

\* c is b with more entries.
Grown(b, c) == c \in Seq(Entries) /\ Len(b) <= Len(c) /\ \A i \in 1 .. Len(b) : c[i] = b[i]
Added(b, c) == Len(b) + 1 .. Len(c)

LEMMA EntryEpoch == ASSUME NEW x \in Entries PROVE x.epoch \in Nat
  BY DEF Entries

LEMMA EntryKinds ==
  ASSUME NEW x \in Entries
  PROVE  /\ x.kind \in {"result", "exposure", "retry", "skip", "summary"} => x.key \in Results
         /\ x.kind = "summary" => x.text \in Texts
         /\ x.kind = "config" => x.mode \in Switches
         /\ x.kind = "response" => x.raw \subseteq Results
  BY DEF Entries

\* FirstEnd is the first of the entries that end the work on a result.
LEMMA FirstEndIs ==
  ASSUME NEW b \in Seq(Entries), NEW k, NEW e, Sums!Ends(b, k, e) # {}
  PROVE  /\ Sums!FirstEnd(b, k, e) \in Sums!Ends(b, k, e)
         /\ \A j \in Sums!Ends(b, k, e) : Sums!FirstEnd(b, k, e) <= j
  <1>1. Sums!Ends(b, k, e) \in SUBSET Nat
    BY DEF Sums!Ends
  <1>2. \E x \in Sums!Ends(b, k, e) : \A y \in Sums!Ends(b, k, e) : x <= y
    BY <1>1, FirstOf
  <1> QED
    BY <1>2 DEF Sums!FirstEnd

\* RestoredConfig is the last configuration.
LEMMA ConfigIs ==
  ASSUME NEW b \in Seq(Entries)
  PROVE  \/ /\ \A i \in 1 .. Len(b) : b[i].kind # "config"
            /\ Sums!RestoredConfig(b) = Sums!Config("on", 0)
         \/ \E i \in 1 .. Len(b) : /\ b[i].kind = "config" /\ Sums!RestoredConfig(b) = b[i]
                                   /\ \A j \in 1 .. Len(b) : b[j].kind = "config" => j <= i
  <1> DEFINE at == {i \in DOMAIN b : b[i].kind = "config"}
  <1>1. CASE at = {}
    BY <1>1 DEF Sums!RestoredConfig
  <1>2. CASE at # {}
    <2>1. at \in SUBSET (0 .. Len(b)) /\ Len(b) \in Nat
      OBVIOUS
    <2>2. \E i \in at : \A j \in at : j <= i
      <3> HIDE DEF at
      <3> QED
        BY <1>2, <2>1, LastOf
    <2> DEFINE last == CHOOSE i \in at : \A j \in at : j <= i
    <2>3. last \in at /\ \A j \in at : j <= last
      BY <2>2
    <2>4. Sums!RestoredConfig(b) = b[last]
      BY <1>2, Zenon DEF Sums!RestoredConfig
    <2> HIDE DEF last
    <2> QED
      BY <2>3, <2>4
  <1> QED
    BY <1>1, <1>2

\* No entry is of a later epoch than the configuration.
LEMMA EpochBound ==
  ASSUME NEW b \in Seq(Entries), Grounded(b)
  PROVE  /\ Sums!RestoredConfig(b).mode \in Switches /\ Sums!RestoredConfig(b).epoch \in Nat
         /\ \A i \in 1 .. Len(b) : b[i].epoch <= Sums!RestoredConfig(b).epoch
  <1>1. \A i \in 1 .. Len(b) : b[i] \in Entries /\ b[i].epoch \in Nat
    BY EntryEpoch
  <1>2. CASE /\ \A i \in 1 .. Len(b) : b[i].kind # "config"
             /\ Sums!RestoredConfig(b) = Sums!Config("on", 0)
    BY <1>1, <1>2 DEF Sums!Config, Grounded, Switches
  <1>3. ASSUME NEW l \in 1 .. Len(b), b[l].kind = "config", Sums!RestoredConfig(b) = b[l],
               \A j \in 1 .. Len(b) : b[j].kind = "config" => j <= l
        PROVE  /\ Sums!RestoredConfig(b).mode \in Switches /\ Sums!RestoredConfig(b).epoch \in Nat
               /\ \A i \in 1 .. Len(b) : b[i].epoch <= Sums!RestoredConfig(b).epoch
    <2>1. b[l].mode \in Switches /\ b[l].epoch \in Nat
      BY <1>1, <1>3, EntryKinds
    <2>2. ASSUME NEW i \in 1 .. Len(b) PROVE b[i].epoch <= b[l].epoch
      <3>1. CASE b[i].epoch = 0
        BY <3>1, <2>1
      <3>2. CASE b[i].epoch > 0
        <4>1. PICK j \in 1 .. i : b[j].kind = "config" /\ b[i].epoch <= b[j].epoch
          BY <3>2 DEF Grounded
        <4>2. j \in 1 .. Len(b) /\ j <= l
          BY <4>1, <1>3
        <4>3. b[j].epoch <= b[l].epoch
          BY <4>2, <1>3 DEF Grounded
        <4> QED
          BY <4>1, <4>2, <4>3, <1>1
      <3> QED
        BY <3>1, <3>2, <1>1
    <2> QED
      BY <2>1, <2>2, <1>3
  <1> QED
    BY <1>2, <1>3, ConfigIs

-----------------------------------------------------------------------------
\* More entries, of which none is a configuration, leave the configuration as it was.
LEMMA GrownConfig ==
  ASSUME NEW b \in Seq(Entries), NEW c, Grown(b, c), \A i \in Added(b, c) : c[i].kind # "config"
  PROVE  Sums!RestoredConfig(c) = Sums!RestoredConfig(b)
  <1>1. c \in Seq(Entries) /\ (\A i \in 1 .. Len(b) : i \in 1 .. Len(c) /\ c[i] = b[i])
        /\ \A i \in 1 .. Len(c) : i \in 1 .. Len(b) \/ c[i].kind # "config"
    BY DEF Grown, Added
  <1>2. CASE \A i \in 1 .. Len(b) : b[i].kind # "config"
    <2>1. \A i \in 1 .. Len(c) : c[i].kind # "config"
      BY <1>1, <1>2
    <2>2. Sums!RestoredConfig(c) = Sums!Config("on", 0) /\ Sums!RestoredConfig(b) = Sums!Config("on", 0)
      BY <1>1, <1>2, <2>1, ConfigIs
    <2> QED
      BY <2>2
  <1>3. CASE \E i \in 1 .. Len(b) : b[i].kind = "config"
    <2>1. PICK i \in 1 .. Len(b) : /\ b[i].kind = "config" /\ Sums!RestoredConfig(b) = b[i]
                                   /\ \A j \in 1 .. Len(b) : b[j].kind = "config" => j <= i
      BY <1>3, ConfigIs
    <2>2. PICK l \in 1 .. Len(c) : /\ c[l].kind = "config" /\ Sums!RestoredConfig(c) = c[l]
                                   /\ \A j \in 1 .. Len(c) : c[j].kind = "config" => j <= l
      BY <1>1, <2>1, ConfigIs
    <2>3. l \in 1 .. Len(b) /\ l <= i /\ i <= l
      BY <1>1, <2>1, <2>2
    <2>4. l = i
      BY <2>3
    <2> QED
      BY <2>1, <2>2, <2>3, <2>4, <1>1
  <1> QED
    BY <1>2, <1>3

\* A configuration at the end is the one that counts.
LEMMA NewConfig ==
  ASSUME NEW b \in Seq(Entries), NEW c \in Seq(Entries), Len(c) > 0, c[Len(c)].kind = "config"
  PROVE  Sums!RestoredConfig(c) = c[Len(c)]
  <1>1. PICK l \in 1 .. Len(c) : /\ c[l].kind = "config" /\ Sums!RestoredConfig(c) = c[l]
                                 /\ \A j \in 1 .. Len(c) : c[j].kind = "config" => j <= l
    BY ConfigIs
  <1>2. l = Len(c)
    BY <1>1
  <1> QED
    BY <1>1, <1>2

Ending(x, k, e) == x.kind \in {"summary", "skip"} /\ x.key = k /\ x.epoch = e

\* Entries about other results leave what is restored of a result.
LEMMA SameEnds ==
  ASSUME NEW b \in Seq(Entries), NEW c, Grown(b, c), NEW k \in Results, NEW e, \A i \in Added(b, c) : ~Ending(c[i], k, e)
  PROVE  /\ Sums!RestoredSummaries(c, e)[k] = Sums!RestoredSummaries(b, e)[k]
         /\ k \in Sums!RestoredSkips(c, e) <=> k \in Sums!RestoredSkips(b, e)
  <1>1. Sums!Ends(c, k, e) = Sums!Ends(b, k, e)
    BY DEF Sums!Ends, Grown, Added, Ending
  <1>2. Sums!FirstEnd(c, k, e) = Sums!FirstEnd(b, k, e)
    BY <1>1, Zenon DEF Sums!FirstEnd
  <1>3. Sums!Ends(b, k, e) # {} => c[Sums!FirstEnd(b, k, e)] = b[Sums!FirstEnd(b, k, e)]
    <2>1. SUFFICES ASSUME Sums!Ends(b, k, e) # {} PROVE c[Sums!FirstEnd(b, k, e)] = b[Sums!FirstEnd(b, k, e)]
      OBVIOUS
    <2>2. Sums!FirstEnd(b, k, e) \in 1 .. Len(b)
      BY <2>1, FirstEndIs DEF Sums!Ends
    <2> QED
      BY <2>2 DEF Grown
  <1> QED
    BY <1>1, <1>2, <1>3 DEF Sums!RestoredSummaries, Sums!RestoredSkips

\* The one entry that ends the work on a result is restored.
LEMMA NewEnd ==
  ASSUME NEW b \in Seq(Entries), NEW c, Grown(b, c), NEW k \in Results, NEW e, Sums!Ends(b, k, e) = {},
         NEW m \in Added(b, c), Ending(c[m], k, e), \A i \in Added(b, c) : Ending(c[i], k, e) => i = m
  PROVE  /\ Sums!RestoredSummaries(c, e)[k] = (IF c[m].kind = "summary" THEN c[m].text ELSE Raw)
         /\ k \in Sums!RestoredSkips(c, e) <=> c[m].kind = "skip"
  <1>1. Sums!Ends(c, k, e) = {m}
    BY DEF Sums!Ends, Grown, Added, Ending
  <1>2. Sums!FirstEnd(c, k, e) = m
    BY <1>1, FirstEndIs DEF Grown
  <1> QED
    BY <1>1, <1>2 DEF Sums!RestoredSummaries, Sums!RestoredSkips

LEMMA GrownHas ==
  ASSUME NEW b \in Seq(Entries), NEW c, Grown(b, c), NEW k, NEW e
  PROVE  Sums!Has(c, "exposure", k, e) <=>
           Sums!Has(b, "exposure", k, e) \/ \E i \in Added(b, c) : c[i].kind = "exposure" /\ c[i].key = k /\ c[i].epoch = e
  BY DEF Sums!Has, Grown, Added

\* Entries of the branch's epoch, behind responses where they need them, or a configuration of a later one.
LEMMA GrownGrounded ==
  ASSUME NEW b \in Seq(Entries), NEW c, Grown(b, c), Grounded(b),
         \A i \in Added(b, c) : c[i].kind # "config" /\ c[i].epoch <= Sums!RestoredConfig(b).epoch,
         \A i \in Added(b, c) : c[i].kind \in {"exposure", "summary"} =>
           \E j \in 1 .. i : c[j].kind = "response" /\ c[i].key \in c[j].raw /\ c[j].epoch = c[i].epoch
  PROVE  Grounded(c)
  <1>1. c \in Seq(Entries) /\ (\A i \in 1 .. Len(b) : i \in 1 .. Len(c) /\ c[i] = b[i])
        /\ \A i \in 1 .. Len(c) : i \in 1 .. Len(b) \/ i \in Added(b, c)
    BY DEF Grown, Added
  <1>2. ASSUME NEW i \in 1 .. Len(c), c[i].epoch > 0 PROVE \E j \in 1 .. i : c[j].kind = "config" /\ c[i].epoch <= c[j].epoch
    <2>1. CASE i \in 1 .. Len(b)
      BY <2>1, <1>1, <1>2 DEF Grounded
    <2>2. CASE i \in Added(b, c)
      <3>1. c[i].epoch <= Sums!RestoredConfig(b).epoch /\ c[i].epoch \in Nat /\ Sums!RestoredConfig(b).epoch \in Nat
        BY <2>2, <1>1, EntryEpoch, EpochBound
      <3>2. Sums!RestoredConfig(b) # Sums!Config("on", 0)
        BY <3>1, <1>2 DEF Sums!Config
      <3>3. PICK l \in 1 .. Len(b) : b[l].kind = "config" /\ Sums!RestoredConfig(b) = b[l]
        BY <3>2, ConfigIs
      <3>4. l \in 1 .. i /\ c[l] = b[l]
        BY <1>1, <2>2, <3>3 DEF Added
      <3> QED
        BY <3>1, <3>3, <3>4
    <2> QED
      BY <1>1, <2>1, <2>2
  <1>3. ASSUME NEW j \in 1 .. Len(c), c[j].kind = "config", NEW i \in 1 .. j PROVE c[i].epoch <= c[j].epoch
    <2>1. j \in 1 .. Len(b)
      BY <1>1, <1>3
    <2> QED
      BY <1>1, <1>3, <2>1 DEF Grounded
  <1>4. ASSUME NEW i \in 1 .. Len(c), c[i].kind \in {"exposure", "summary"}
        PROVE  \E j \in 1 .. i : c[j].kind = "response" /\ c[i].key \in c[j].raw /\ c[j].epoch = c[i].epoch
    <2>1. CASE i \in 1 .. Len(b)
      BY <2>1, <1>1, <1>4 DEF Grounded
    <2> QED
      BY <2>1, <1>1, <1>4
  <1> QED
    BY <1>2, <1>3, <1>4 DEF Grounded

LEMMA ConfigGrounded ==
  ASSUME NEW b \in Seq(Entries), Grounded(b), NEW x \in Entries, x.kind = "config", x.epoch >= Sums!RestoredConfig(b).epoch
  PROVE  Grounded(Append(b, x))
  <1> DEFINE c == Append(b, x)
             n == Len(b) + 1
  <1>1. c \in Seq(Entries) /\ Len(c) = n /\ c[n] = x /\ (\A i \in 1 .. Len(b) : c[i] = b[i]) /\ x.epoch \in Nat
        /\ \A i \in 1 .. Len(b) : b[i].epoch \in Nat
    BY EntryEpoch
  <1>2. \A i \in 1 .. n : c[i].epoch <= x.epoch
    <2>1. \A i \in 1 .. Len(b) : b[i].epoch <= x.epoch
      BY <1>1, EpochBound
    <2> QED
      BY <1>1, <2>1
  <1> HIDE DEF c
  <1>3. ASSUME NEW i \in 1 .. Len(c), c[i].epoch > 0 PROVE \E j \in 1 .. i : c[j].kind = "config" /\ c[i].epoch <= c[j].epoch
    <2>1. CASE i = n
      BY <2>1, <1>1
    <2>2. CASE i \in 1 .. Len(b)
      <3>1. PICK j \in 1 .. i : b[j].kind = "config" /\ b[i].epoch <= b[j].epoch
        BY <2>2, <1>1, <1>3 DEF Grounded
      <3> QED
        BY <2>2, <3>1, <1>1
    <2> QED
      BY <1>1, <2>1, <2>2
  <1>4. ASSUME NEW j \in 1 .. Len(c), c[j].kind = "config", NEW i \in 1 .. j PROVE c[i].epoch <= c[j].epoch
    <2>1. CASE j = n
      BY <2>1, <1>1, <1>2
    <2>2. CASE j \in 1 .. Len(b)
      BY <2>2, <1>1, <1>4 DEF Grounded
    <2> QED
      BY <1>1, <2>1, <2>2
  <1>5. ASSUME NEW i \in 1 .. Len(c), c[i].kind \in {"exposure", "summary"}
        PROVE  \E j \in 1 .. i : c[j].kind = "response" /\ c[i].key \in c[j].raw /\ c[j].epoch = c[i].epoch
    <2>1. i \in 1 .. Len(b)
      BY <1>1, <1>5
    <2> QED
      BY <1>1, <1>5, <2>1 DEF Grounded
  <1>6. Grounded(c)
    BY <1>3, <1>4, <1>5 DEF Grounded
  <1> QED
    BY <1>6 DEF c

-----------------------------------------------------------------------------
SumTypes ==
  /\ branch \in Seq(Entries) /\ mode \in Switches /\ epoch \in Nat
  /\ exposures \subseteq Results /\ skips \subseteq Results /\ pending \subseteq Results
  /\ summaries \in [Results -> Texts \union {Raw}] /\ jobs \subseteq [key : Results, current : BOOLEAN]

\* A call is of this epoch or an earlier one, and what is pending is in it with its exact result.
CallHolds ==
  sent # <<>> => sent[1].epoch \in Nat /\ sent[1].epoch <= epoch /\ DOMAIN sent[1].given \subseteq Results

PendingRaw ==
  \A k \in pending :
    /\ k \in Sums!ResultsOf(branch) /\ summaries[k] = Raw /\ k \notin exposures
    /\ sent # <<>> => sent[1].epoch = epoch /\ k \in DOMAIN sent[1].given /\ sent[1].given[k] = Raw

\* Only what was exposed is worked on.
JobsExposed == \A j \in jobs : j.current => j.key \in exposures

SumInv == SumTypes /\ Grounded(branch) /\ CallHolds /\ PendingRaw /\ JobsExposed /\ Sums!Sound

\* The model answered a call that held the exact result.
Answers(b, k, e) == \E i \in 1 .. Len(b) : b[i].kind = "response" /\ k \in b[i].raw /\ b[i].epoch = e

LEMMA ExposedAnswers == ASSUME SumInv, NEW k \in exposures PROVE Answers(branch, k, epoch)
  <1>1. Sums!Has(branch, "exposure", k, epoch) /\ branch \in Seq(Entries)
    BY DEF SumInv, SumTypes, Sums!Sound, Sums!ReloadAgrees
  <1>2. PICK i \in 1 .. Len(branch) : branch[i].kind = "exposure" /\ branch[i].key = k /\ branch[i].epoch = epoch
    BY <1>1 DEF Sums!Has
  <1> QED
    BY <1>2 DEF SumInv, Grounded, Answers

LEMMA SummaryAnswers ==
  ASSUME NEW b \in Seq(Entries), Grounded(b), NEW k \in Results, NEW e, Sums!RestoredSummaries(b, e)[k] # Raw
  PROVE  Answers(b, k, e)
  <1>1. Sums!Ends(b, k, e) # {} /\ b[Sums!FirstEnd(b, k, e)].kind = "summary"
    BY DEF Sums!RestoredSummaries
  <1>2. Sums!FirstEnd(b, k, e) \in Sums!Ends(b, k, e)
    BY <1>1, FirstEndIs
  <1>3. PICK i \in 1 .. Len(b) : b[i].kind = "summary" /\ b[i].key = k /\ b[i].epoch = e
    BY <1>1, <1>2 DEF Sums!Ends
  <1> QED
    BY <1>3 DEF Grounded, Answers

\* Nothing has ended the work on a result that has neither a summary nor a skip.
LEMMA NoEnds ==
  ASSUME RawApart, NEW b \in Seq(Entries), NEW k \in Results, NEW e,
         Sums!RestoredSummaries(b, e)[k] = Raw, k \notin Sums!RestoredSkips(b, e)
  PROVE  Sums!Ends(b, k, e) = {}
  <1> SUFFICES ASSUME Sums!Ends(b, k, e) # {} PROVE FALSE
    OBVIOUS
  <1> DEFINE i == Sums!FirstEnd(b, k, e)
  <1>1. i \in 1 .. Len(b) /\ b[i].kind \in {"summary", "skip"}
    BY FirstEndIs DEF Sums!Ends
  <1>2. b[i].kind = "summary" => b[i].text \in Texts
    BY <1>1, EntryKinds
  <1> QED
    BY <1>1, <1>2 DEF Sums!RestoredSummaries, Sums!RestoredSkips, RawApart

LEMMA AgreesGrown ==
  ASSUME RawApart, SumInv, Grown(branch, branch'), mode' = mode, epoch' = epoch,
         \A i \in Added(branch, branch') : branch'[i].kind # "config" /\ branch'[i].epoch <= epoch,
         \A i \in Added(branch, branch') : branch'[i].kind \in {"exposure", "summary"} =>
           \E j \in 1 .. i : branch'[j].kind = "response" /\ branch'[i].key \in branch'[j].raw /\ branch'[j].epoch = branch'[i].epoch,
         exposures' = exposures \union {k \in Results : \E i \in Added(branch, branch') :
                        branch'[i].kind = "exposure" /\ branch'[i].key = k /\ branch'[i].epoch = epoch},
         summaries' \in [Results -> Texts \union {Raw}], skips' \subseteq Results,
         \A k \in Results :
           \/ /\ \A i \in Added(branch, branch') : ~Ending(branch'[i], k, epoch)
              /\ summaries'[k] = summaries[k] /\ (k \in skips' <=> k \in skips)
           \/ /\ summaries[k] = Raw /\ k \notin skips
              /\ \E m \in Added(branch, branch') :
                   /\ Ending(branch'[m], k, epoch)
                   /\ \A i \in Added(branch, branch') : Ending(branch'[i], k, epoch) => i = m
                   /\ summaries'[k] = (IF branch'[m].kind = "summary" THEN branch'[m].text ELSE Raw)
                   /\ k \in skips' <=> branch'[m].kind = "skip"
  PROVE  Grounded(branch') /\ Sums!ReloadAgrees'
  <1>1. /\ branch \in Seq(Entries) /\ branch' \in Seq(Entries) /\ exposures \subseteq Results
        /\ Sums!RestoredConfig(branch).mode = mode /\ Sums!RestoredConfig(branch).epoch = epoch
        /\ summaries = Sums!RestoredSummaries(branch, epoch) /\ skips = Sums!RestoredSkips(branch, epoch)
        /\ exposures = {k \in Results : Sums!Has(branch, "exposure", k, epoch)}
    BY DEF SumInv, SumTypes, Grown, Sums!Sound, Sums!ReloadAgrees
  <1>2. Grounded(branch')
    BY <1>1, GrownGrounded DEF SumInv
  <1>3. Sums!RestoredConfig(branch') = Sums!RestoredConfig(branch)
    BY <1>1, GrownConfig
  <1>4. ASSUME NEW k \in Results
        PROVE  /\ summaries'[k] = Sums!RestoredSummaries(branch', epoch)[k]
               /\ k \in skips' <=> k \in Sums!RestoredSkips(branch', epoch)
    <2>1. CASE /\ \A i \in Added(branch, branch') : ~Ending(branch'[i], k, epoch)
               /\ summaries'[k] = summaries[k] /\ (k \in skips' <=> k \in skips)
      BY <2>1, <1>1, SameEnds
    <2>2. CASE /\ summaries[k] = Raw /\ k \notin skips
               /\ \E m \in Added(branch, branch') :
                    /\ Ending(branch'[m], k, epoch)
                    /\ \A i \in Added(branch, branch') : Ending(branch'[i], k, epoch) => i = m
                    /\ summaries'[k] = (IF branch'[m].kind = "summary" THEN branch'[m].text ELSE Raw)
                    /\ k \in skips' <=> branch'[m].kind = "skip"
      <3>1. Sums!Ends(branch, k, epoch) = {}
        BY <2>2, <1>1, NoEnds
      <3> QED
        BY <2>2, <3>1, <1>1, NewEnd
    <2> QED
      BY <2>1, <2>2
  <1>5. summaries' = Sums!RestoredSummaries(branch', epoch)
    <2>1. Sums!RestoredSummaries(branch', epoch) = [k \in Results |-> Sums!RestoredSummaries(branch', epoch)[k]]
      BY DEF Sums!RestoredSummaries
    <2>2. summaries' = [k \in Results |-> summaries'[k]]
      OBVIOUS
    <2> QED
      BY <2>1, <2>2, <1>4
  <1>6. skips' = Sums!RestoredSkips(branch', epoch)
    BY <1>4 DEF Sums!RestoredSkips
  <1>7. exposures' = {k \in Results : Sums!Has(branch', "exposure", k, epoch)}
    BY <1>1, GrownHas
  <1>8. Sums!ReloadAgrees'
    BY <1>1, <1>3, <1>5, <1>6, <1>7 DEF Sums!ReloadAgrees
  <1> QED
    BY <1>2, <1>8

\* The call in progress stays as truthful as it was while the branch grows.
LEMMA StillRaw ==
  ASSUME Sums!RawFirst, branch \in Seq(Entries), Grown(branch, branch'), sent' = sent
  PROVE  Sums!RawFirst'
  BY DEF Sums!RawFirst, Grown

LEMMA StillListed ==
  ASSUME branch \in Seq(Entries), Grown(branch, branch'), NEW k \in Sums!ResultsOf(branch)
  PROVE  k \in Sums!ResultsOf(branch)'
  BY DEF Sums!ResultsOf, Grown

-----------------------------------------------------------------------------
LEMMA SumInit == ASSUME RawApart, Sums!Init PROVE SumInv
  <1>1. /\ branch = <<>> /\ mode = "on" /\ epoch = 0 /\ exposures = {} /\ summaries = [k \in Results |-> Raw] /\ skips = {}
        /\ pending = {} /\ jobs = {} /\ sent = <<>>
    BY DEF Sums!Init, Sums!NoText
  <1>2. branch \in Seq(Entries) /\ Len(branch) = 0 /\ \A i \in 1 .. Len(branch) : FALSE
    BY <1>1
  <1>3. SumTypes /\ Grounded(branch) /\ CallHolds /\ PendingRaw /\ JobsExposed
    BY <1>1, <1>2 DEF SumTypes, Switches, Grounded, CallHolds, PendingRaw, JobsExposed
  <1>4. Sums!RestoredConfig(branch) = Sums!Config("on", 0)
    BY <1>2, ConfigIs
  <1>5. \A k, e : Sums!Ends(branch, k, e) = {} /\ ~Sums!Has(branch, "exposure", k, e)
    BY <1>2 DEF Sums!Ends, Sums!Has
  <1>6. summaries = Sums!RestoredSummaries(branch, epoch) /\ skips = Sums!RestoredSkips(branch, epoch)
    BY <1>1, <1>5 DEF Sums!RestoredSummaries, Sums!RestoredSkips
  <1>7. Sums!Sound
    BY <1>1, <1>4, <1>5, <1>6 DEF Sums!Sound, Sums!RawFirst, Sums!ReloadAgrees, Sums!Config
  <1> QED
    BY <1>3, <1>7 DEF SumInv

\* An entry that is neither an exposure nor the end of a job changes nothing that is restored.
LEMMA PlainEntry ==
  ASSUME RawApart, SumInv, NEW x \in Entries, x.kind \in {"result", "retry"}, x.epoch = epoch, branch' = Append(branch, x),
         UNCHANGED <<mode, epoch, exposures, summaries, skips, pending, sent>>, jobs' \subseteq jobs
  PROVE  SumInv'
  <1>1. branch \in Seq(Entries) /\ epoch \in Nat
    BY DEF SumInv, SumTypes
  <1>2. Grown(branch, branch') /\ \A i \in Added(branch, branch') : branch'[i] = x
    BY <1>1 DEF Grown, Added
  <1>3. \A i \in Added(branch, branch') : branch'[i].kind \in {"result", "retry"} /\ branch'[i].epoch <= epoch
    <2>1. epoch <= epoch
      BY <1>1
    <2> QED
      BY <1>2, <2>1
  <1>4. exposures = exposures \union {k \in Results : \E i \in Added(branch, branch') :
                        branch'[i].kind = "exposure" /\ branch'[i].key = k /\ branch'[i].epoch = epoch}
    BY <1>3
  <1>5. \A k \in Results, i \in Added(branch, branch') : ~Ending(branch'[i], k, epoch)
    BY <1>3 DEF Ending
  <1>6. summaries \in [Results -> Texts \union {Raw}] /\ skips \subseteq Results
    BY DEF SumInv, SumTypes
  <1>7. Grounded(branch') /\ Sums!ReloadAgrees'
    BY <1>2, <1>3, <1>4, <1>5, <1>6, AgreesGrown
  <1>8. Sums!RawFirst'
    BY <1>1, <1>2, StillRaw DEF SumInv, Sums!Sound
  <1>9. PendingRaw'
    BY <1>1, <1>2, StillListed DEF SumInv, PendingRaw
  <1>10. SumTypes' /\ CallHolds' /\ JobsExposed'
    BY <1>2 DEF SumInv, SumTypes, CallHolds, JobsExposed, Grown
  <1> QED
    BY <1>7, <1>8, <1>9, <1>10 DEF SumInv, Sums!Sound

LEMMA ResultKeeps == ASSUME RawApart, SumInv, NEW k \in Results, Sums!ToolResult(k) PROVE SumInv'
  <1> DEFINE x == [kind |-> "result", key |-> k, epoch |-> epoch]
  <1>1. x \in Entries
    BY DEF Entries, SumInv, SumTypes
  <1> QED
    BY <1>1, PlainEntry DEF Sums!ToolResult, Sums!memory

LEMMA CoolKeeps == ASSUME SumInv, NEW k \in Results, Sums!CoolsDown(k) PROVE SumInv'
  <1>1. UNCHANGED <<branch, mode, epoch, exposures, summaries, skips, pending, jobs, sent>>
    BY DEF Sums!CoolsDown
  <1>2. Sums!Sound'
    BY <1>1 DEF SumInv, Sums!Sound, Sums!RawFirst, Sums!ReloadAgrees
  <1> QED
    BY <1>1, <1>2 DEF SumInv, SumTypes, CallHolds, PendingRaw, JobsExposed, Sums!ResultsOf

\* A job that is over, whatever came of it, leaves fewer jobs.
LEMMA FewerJobs ==
  ASSUME SumInv, UNCHANGED <<branch, mode, epoch, exposures, summaries, skips, pending, sent>>, jobs' \subseteq jobs
  PROVE  SumInv'
  <1>1. Sums!Sound'
    BY DEF SumInv, Sums!Sound, Sums!RawFirst, Sums!ReloadAgrees
  <1> QED
    BY <1>1 DEF SumInv, SumTypes, CallHolds, PendingRaw, JobsExposed, Sums!ResultsOf

LEMMA FailKeeps == ASSUME RawApart, SumInv, NEW j \in jobs, Sums!JobFails(j) PROVE SumInv'
  <1>1. jobs' \subseteq jobs /\ UNCHANGED <<mode, epoch, exposures, summaries, skips, pending, sent>>
    BY DEF Sums!JobFails
  <1>2. CASE branch' = branch
    BY <1>1, <1>2, FewerJobs
  <1>3. CASE branch' = Append(branch, Sums!Entry("retry", j.key))
    <2> DEFINE x == Sums!Entry("retry", j.key)
    <2>1. j.key \in Results /\ epoch \in Nat
      BY DEF SumInv, SumTypes
    <2>2. x \in Entries /\ x.kind = "retry" /\ x.epoch = epoch
      BY <2>1 DEF Entries, Sums!Entry
    <2> HIDE DEF x
    <2> QED
      BY <1>1, <1>3, <2>2, PlainEntry DEF x
  <1> QED
    BY <1>2, <1>3 DEF Sums!JobFails

LEMMA EndKeepsWork == ASSUME RawApart, SumInv, NEW j \in jobs, Sums!JobEnds(j) PROVE SumInv'
  <1>1. /\ jobs' = jobs \ {j} /\ UNCHANGED <<mode, epoch, exposures, pending, sent>> /\ branch \in Seq(Entries) /\ epoch \in Nat
        /\ j.key \in Results /\ summaries \in [Results -> Texts \union {Raw}] /\ skips \subseteq Results
    BY DEF Sums!JobEnds, SumInv, SumTypes
  <1>2. CASE UNCHANGED <<branch, summaries, skips>>
    BY <1>1, <1>2, FewerJobs
  <1>3. ASSUME NEW e \in Sums!Outcomes(j.key), j.current, summaries[j.key] = Raw, j.key \notin skips, branch' = Append(branch, e),
               summaries' = (IF e.kind = "summary" THEN [summaries EXCEPT ![j.key] = e.text] ELSE summaries),
               skips' = (IF e.kind = "skip" THEN skips \union {j.key} ELSE skips)
        PROVE  SumInv'
    <2>1. /\ e \in Entries /\ Ending(e, j.key, epoch) /\ (\A k : Ending(e, k, epoch) => k = j.key)
          /\ (e.kind = "summary" => e.text \in Texts)
      BY <1>1 DEF Sums!Outcomes, Sums!Summary, Sums!Entry, Entries, Ending
    <2>2. Grown(branch, branch') /\ (\A i \in Added(branch, branch') : branch'[i] = e /\ i = Len(branch) + 1)
          /\ Len(branch) + 1 \in Added(branch, branch')
      BY <1>1, <1>3, <2>1 DEF Grown, Added
    <2>3. e.kind \in {"summary", "skip"} /\ e.epoch <= epoch /\ e.epoch = epoch /\ e.key = j.key
      BY <1>1, <2>1 DEF Ending
    <2>4. Answers(branch, j.key, epoch)
      BY <1>3, ExposedAnswers DEF SumInv, JobsExposed
    <2>5. \A i \in Added(branch, branch') : branch'[i].kind \in {"exposure", "summary"} =>
            \E m \in 1 .. i : branch'[m].kind = "response" /\ branch'[i].key \in branch'[m].raw /\ branch'[m].epoch = branch'[i].epoch
      <3>1. PICK m \in 1 .. Len(branch) : branch[m].kind = "response" /\ j.key \in branch[m].raw /\ branch[m].epoch = epoch
        BY <2>4 DEF Answers
      <3>2. branch'[m] = branch[m] /\ \A i \in Added(branch, branch') : m \in 1 .. i
        BY <1>1, <2>2, <3>1 DEF Grown
      <3> QED
        BY <2>2, <2>3, <3>1, <3>2
    <2>6. \A i \in Added(branch, branch') : branch'[i].kind # "config" /\ branch'[i].epoch <= epoch /\ branch'[i].kind # "exposure"
      BY <2>2, <2>3
    <2>7. summaries' \in [Results -> Texts \union {Raw}] /\ skips' \subseteq Results
      BY <1>1, <1>3, <2>1
    <2>8. ASSUME NEW k \in Results
          PROVE  \/ /\ \A i \in Added(branch, branch') : ~Ending(branch'[i], k, epoch)
                    /\ summaries'[k] = summaries[k] /\ (k \in skips' <=> k \in skips)
                 \/ /\ summaries[k] = Raw /\ k \notin skips
                    /\ \E m \in Added(branch, branch') :
                         /\ Ending(branch'[m], k, epoch)
                         /\ \A i \in Added(branch, branch') : Ending(branch'[i], k, epoch) => i = m
                         /\ summaries'[k] = (IF branch'[m].kind = "summary" THEN branch'[m].text ELSE Raw)
                         /\ k \in skips' <=> branch'[m].kind = "skip"
      <3>1. CASE k = j.key
        <4>1. summaries'[k] = (IF e.kind = "summary" THEN e.text ELSE Raw) /\ (k \in skips' <=> e.kind = "skip")
          BY <1>1, <1>3, <2>3, <3>1
        <4> QED
          BY <4>1, <1>3, <2>1, <2>2, <3>1
      <3>2. CASE k # j.key
        <4>1. summaries'[k] = summaries[k] /\ (k \in skips' <=> k \in skips)
          BY <1>1, <1>3, <3>2
        <4> QED
          BY <4>1, <2>1, <2>2, <3>2
      <3> QED
        BY <3>1, <3>2
    <2>9. exposures' = exposures \union {k \in Results : \E i \in Added(branch, branch') :
                           branch'[i].kind = "exposure" /\ branch'[i].key = k /\ branch'[i].epoch = epoch}
      BY <1>1, <2>6
    <2>10. Grounded(branch') /\ Sums!ReloadAgrees'
      BY <1>1, <2>2, <2>5, <2>6, <2>7, <2>8, <2>9, AgreesGrown
    <2>11. Sums!RawFirst'
      BY <1>1, <2>2, StillRaw DEF SumInv, Sums!Sound
    <2>12. PendingRaw'
      <3>1. \A k \in pending : k # j.key /\ k \in Results
        BY <1>3 DEF SumInv, SumTypes, PendingRaw, JobsExposed
      <3>2. \A k \in pending : summaries'[k] = summaries[k]
        BY <1>1, <1>3, <3>1
      <3> QED
        BY <1>1, <2>2, <3>2, StillListed DEF SumInv, PendingRaw
    <2>13. SumTypes' /\ CallHolds' /\ JobsExposed'
      BY <1>1, <2>2, <2>7 DEF SumInv, SumTypes, CallHolds, JobsExposed, Grown
    <2> QED
      BY <2>10, <2>11, <2>12, <2>13 DEF SumInv, Sums!Sound
  <1> QED
    BY <1>2, <1>3 DEF Sums!JobEnds

\* Commands and resets abort the jobs.
LEMMA Aborted == ASSUME SumInv, Sums!AbortJobs PROVE jobs' \subseteq [key : Results, current : BOOLEAN] /\ JobsExposed' /\ pending' = {}
  <1>1. \A j \in jobs : [j EXCEPT !.current = FALSE] \in [key : Results, current : BOOLEAN] /\ ~[j EXCEPT !.current = FALSE].current
    BY DEF SumInv, SumTypes
  <1> QED
    BY <1>1 DEF Sums!AbortJobs, JobsExposed

LEMMA CommandKeeps == ASSUME RawApart, SumInv, NEW m \in Switches, Sums!Command(m) PROVE SumInv'
  <1> DEFINE x == Sums!Config(m, epoch)
  <1>1. /\ branch \in Seq(Entries) /\ branch' = Append(branch, x) /\ mode' = m
        /\ UNCHANGED <<epoch, exposures, summaries, skips, sent>>
        /\ Sums!RestoredConfig(branch).epoch = epoch /\ epoch \in Nat /\ Grounded(branch)
    BY DEF Sums!Command, SumInv, SumTypes, Sums!Sound, Sums!ReloadAgrees
  <1>2. x \in Entries /\ x.kind = "config" /\ x.mode = m /\ x.epoch = epoch
    BY <1>1 DEF Entries, Sums!Config
  <1> HIDE DEF x
  <1>3. Grown(branch, branch') /\ Len(branch') = Len(branch) + 1 /\ branch'[Len(branch')] = x
        /\ \A i \in Added(branch, branch') : branch'[i] = x
    BY <1>1, <1>2 DEF Grown, Added
  <1>4. Grounded(branch')
    BY <1>1, <1>2, ConfigGrounded
  <1>5. Sums!RestoredConfig(branch') = x
    <2>1. branch' \in Seq(Entries) /\ Len(branch') > 0
      BY <1>1, <1>2
    <2> QED
      BY <1>1, <1>2, <1>3, <2>1, NewConfig
  <1>6. \A k \in Results : /\ Sums!RestoredSummaries(branch', epoch)[k] = Sums!RestoredSummaries(branch, epoch)[k]
                           /\ k \in Sums!RestoredSkips(branch', epoch) <=> k \in Sums!RestoredSkips(branch, epoch)
                           /\ Sums!Has(branch', "exposure", k, epoch) <=> Sums!Has(branch, "exposure", k, epoch)
    <2>0. branch \in Seq(Entries) /\ Grown(branch, branch')
      BY <1>1, <1>3
    <2>1. \A k \in Results, i \in Added(branch, branch') : ~Ending(branch'[i], k, epoch) /\ branch'[i].kind # "exposure"
      BY <1>2, <1>3 DEF Ending
    <2>2. ASSUME NEW k \in Results
          PROVE  /\ Sums!RestoredSummaries(branch', epoch)[k] = Sums!RestoredSummaries(branch, epoch)[k]
                 /\ k \in Sums!RestoredSkips(branch', epoch) <=> k \in Sums!RestoredSkips(branch, epoch)
      BY <2>0, <2>1, <2>2, SameEnds
    <2>3. ASSUME NEW k \in Results
          PROVE  Sums!Has(branch', "exposure", k, epoch) <=> Sums!Has(branch, "exposure", k, epoch)
      BY <2>0, <2>1, <2>3, GrownHas
    <2> QED
      BY <2>2, <2>3
  <1>7. Sums!RestoredSummaries(branch', epoch) = Sums!RestoredSummaries(branch, epoch)
        /\ Sums!RestoredSkips(branch', epoch) = Sums!RestoredSkips(branch, epoch)
    <2>1. \A b : Sums!RestoredSummaries(b, epoch) = [k \in Results |-> Sums!RestoredSummaries(b, epoch)[k]]
      BY DEF Sums!RestoredSummaries
    <2>2. [k \in Results |-> Sums!RestoredSummaries(branch', epoch)[k]] = [k \in Results |-> Sums!RestoredSummaries(branch, epoch)[k]]
      BY <1>6
    <2>3. Sums!RestoredSummaries(branch', epoch) = Sums!RestoredSummaries(branch, epoch)
      BY <2>1, <2>2
    <2> QED
      BY <1>6, <2>3 DEF Sums!RestoredSkips
  <1>8. Sums!ReloadAgrees'
    BY <1>1, <1>2, <1>5, <1>6, <1>7 DEF SumInv, Sums!Sound, Sums!ReloadAgrees
  <1>9. Sums!RawFirst'
    BY <1>1, <1>3, StillRaw DEF SumInv, Sums!Sound
  <1>10. CallHolds' /\ SumTypes' /\ JobsExposed' /\ PendingRaw'
    <2>1. CASE UNCHANGED <<jobs, pending>>
      <3>1. PendingRaw'
        BY <2>1, <1>1, <1>3, StillListed DEF SumInv, PendingRaw
      <3> QED
        BY <2>1, <3>1, <1>1, <1>3 DEF SumInv, SumTypes, CallHolds, JobsExposed, Grown
    <2>2. CASE Sums!AbortJobs
      BY <2>2, <1>1, <1>3, Aborted DEF SumInv, SumTypes, CallHolds, PendingRaw, Grown
    <2> QED
      BY <2>1, <2>2 DEF Sums!Command
  <1> QED
    BY <1>4, <1>8, <1>9, <1>10 DEF SumInv, Sums!Sound

LEMMA ResetKeeps == ASSUME RawApart, SumInv, Sums!Reset PROVE SumInv'
  <1> DEFINE x == Sums!Config(mode, epoch + 1)
  <1>1. /\ branch \in Seq(Entries) /\ branch' = Append(branch, x) /\ epoch' = epoch + 1
        /\ exposures' = {} /\ summaries' = [k \in Results |-> Raw] /\ skips' = {} /\ UNCHANGED <<mode, sent>> /\ mode \in Switches
        /\ Sums!RestoredConfig(branch).epoch = epoch /\ epoch \in Nat /\ epoch + 1 \in Nat /\ Grounded(branch)
    BY DEF Sums!Reset, Sums!NoText, SumInv, SumTypes, Sums!Sound, Sums!ReloadAgrees
  <1>2. x \in Entries /\ x.kind = "config" /\ x.mode = mode /\ x.epoch = epoch + 1
    BY <1>1 DEF Entries, Sums!Config
  <1> HIDE DEF x
  <1>3. Grown(branch, branch') /\ Len(branch') = Len(branch) + 1 /\ branch'[Len(branch')] = x /\ branch' \in Seq(Entries)
        /\ \A i \in 1 .. Len(branch') : i \in 1 .. Len(branch) \/ branch'[i] = x
    BY <1>1, <1>2 DEF Grown
  <1>4. Grounded(branch')
    BY <1>1, <1>2, ConfigGrounded
  <1>5. Sums!RestoredConfig(branch') = x
    <2>1. Len(branch') > 0
      BY <1>1, <1>3
    <2> QED
      BY <1>2, <1>3, <2>1, NewConfig
  <1>6. \A i \in 1 .. Len(branch') : branch'[i].kind = "config" \/ branch'[i].epoch # epoch + 1
    <2>1. \A i \in 1 .. Len(branch) : branch'[i] = branch[i] /\ branch[i].epoch <= epoch /\ branch[i].epoch \in Nat
      BY <1>1, <1>3, EpochBound, EntryEpoch DEF Grown
    <2> QED
      BY <1>1, <1>2, <1>3, <2>1
  <1>7. \A k \in Results : Sums!Ends(branch', k, epoch + 1) = {} /\ ~Sums!Has(branch', "exposure", k, epoch + 1)
    BY <1>3, <1>6 DEF Sums!Ends, Sums!Has
  <1>8. Sums!RestoredSummaries(branch', epoch + 1) = [k \in Results |-> Raw] /\ Sums!RestoredSkips(branch', epoch + 1) = {}
    BY <1>7 DEF Sums!RestoredSummaries, Sums!RestoredSkips
  <1>9. Sums!ReloadAgrees'
    BY <1>1, <1>2, <1>5, <1>7, <1>8 DEF Sums!ReloadAgrees
  <1>10. Sums!RawFirst'
    BY <1>1, <1>3, StillRaw DEF SumInv, Sums!Sound
  <1>11. jobs' \subseteq [key : Results, current : BOOLEAN] /\ JobsExposed' /\ pending' = {}
    BY Aborted DEF Sums!Reset
  <1>12. CallHolds' /\ SumTypes' /\ PendingRaw'
    BY <1>1, <1>3, <1>11 DEF SumInv, SumTypes, CallHolds, PendingRaw
  <1> QED
    BY <1>4, <1>9, <1>10, <1>11, <1>12 DEF SumInv, Sums!Sound

\* What is restored is of the types that are kept in memory.
LEMMA RestoredTypes ==
  ASSUME NEW b \in Seq(Entries), NEW e
  PROVE  Sums!RestoredSummaries(b, e) \in [Results -> Texts \union {Raw}] /\ Sums!RestoredSkips(b, e) \subseteq Results
  <1>1. ASSUME NEW k \in Results, Sums!Ends(b, k, e) # {}, b[Sums!FirstEnd(b, k, e)].kind = "summary"
        PROVE  b[Sums!FirstEnd(b, k, e)].text \in Texts
    <2>1. Sums!FirstEnd(b, k, e) \in 1 .. Len(b)
      BY <1>1, FirstEndIs DEF Sums!Ends
    <2> QED
      BY <1>1, <2>1, EntryKinds
  <1> QED
    BY <1>1 DEF Sums!RestoredSummaries, Sums!RestoredSkips

\* A shorter branch is as well grounded.
LEMMA PrefixGrounded ==
  ASSUME NEW b \in Seq(Entries), Grounded(b), NEW n \in 0 .. Len(b), NEW c, c = SubSeq(b, 1, n)
  PROVE  c \in Seq(Entries) /\ Grounded(c)
  <1>1. c \in Seq(Entries) /\ Len(c) = n /\ \A i \in 1 .. n : c[i] = b[i] /\ i \in 1 .. Len(b)
    OBVIOUS
  <1>2. ASSUME NEW i \in 1 .. Len(c), c[i].epoch > 0 PROVE \E j \in 1 .. i : c[j].kind = "config" /\ c[i].epoch <= c[j].epoch
    <2>1. PICK j \in 1 .. i : b[j].kind = "config" /\ b[i].epoch <= b[j].epoch
      BY <1>1, <1>2 DEF Grounded
    <2>2. j \in 1 .. n
      BY <1>1, <1>2
    <2> QED
      BY <1>1, <1>2, <2>1, <2>2
  <1>3. ASSUME NEW j \in 1 .. Len(c), c[j].kind = "config", NEW i \in 1 .. j PROVE c[i].epoch <= c[j].epoch
    <2>1. i \in 1 .. n
      BY <1>1
    <2> QED
      BY <1>1, <1>3, <2>1 DEF Grounded
  <1>4. ASSUME NEW i \in 1 .. Len(c), c[i].kind \in {"exposure", "summary"}
        PROVE  \E j \in 1 .. i : c[j].kind = "response" /\ c[i].key \in c[j].raw /\ c[j].epoch = c[i].epoch
    <2>1. PICK j \in 1 .. i : b[j].kind = "response" /\ b[i].key \in b[j].raw /\ b[j].epoch = b[i].epoch
      BY <1>1, <1>4 DEF Grounded
    <2>2. j \in 1 .. n
      BY <1>1
    <2> QED
      BY <1>1, <2>1, <2>2
  <1> QED
    BY <1>1, <1>2, <1>3, <1>4 DEF Grounded

LEMMA NavigateKeeps == ASSUME RawApart, SumInv, NEW n \in 0 .. Len(branch), Sums!Navigate(n) PROVE SumInv'
  <1> DEFINE config == Sums!RestoredConfig(branch')
  <1>1. branch \in Seq(Entries) /\ Grounded(branch) /\ branch' = SubSeq(branch, 1, n) /\ sent' = <<>>
    BY DEF Sums!Navigate, SumInv, SumTypes
  <1>2. branch' \in Seq(Entries) /\ Grounded(branch')
    BY <1>1, PrefixGrounded
  <1>3. /\ mode' = config.mode /\ epoch' = config.epoch
        /\ exposures' = {k \in Results : Sums!Has(branch', "exposure", k, config.epoch)}
        /\ summaries' = Sums!RestoredSummaries(branch', config.epoch) /\ skips' = Sums!RestoredSkips(branch', config.epoch)
    BY DEF Sums!Navigate, Sums!Restore
  <1> HIDE DEF config
  <1>4. config.mode \in Switches /\ config.epoch \in Nat
    BY <1>2, EpochBound DEF config
  <1>5. Sums!Sound'
    BY <1>1, <1>3 DEF Sums!Sound, Sums!RawFirst, Sums!ReloadAgrees, config
  <1>6. jobs' \subseteq [key : Results, current : BOOLEAN] /\ JobsExposed' /\ pending' = {}
    BY Aborted DEF Sums!Navigate
  <1>7. summaries' \in [Results -> Texts \union {Raw}] /\ skips' \subseteq Results
    BY <1>2, <1>3, RestoredTypes
  <1>8. SumTypes' /\ CallHolds' /\ PendingRaw'
    BY <1>1, <1>2, <1>3, <1>4, <1>6, <1>7 DEF SumTypes, CallHolds, PendingRaw
  <1> QED
    BY <1>2, <1>5, <1>6, <1>8 DEF SumInv

\* message_end: the response comes before what it exposes.
LEMMA MessageKeeps == ASSUME RawApart, SumInv, Sums!MessageEnd PROVE SumInv'
  <1>1. PICK ok \in BOOLEAN, written \in SUBSET pending : (mode = "on" \/ written = {}) /\ Sums!Answered(ok, written)
    BY DEF Sums!MessageEnd
  <1> DEFINE q == Sums!SetToSeq(written)
             n == Cardinality(written)
             first == IF ok THEN <<Sums!Response(sent[1])>> ELSE <<>>
             more == [i \in 1 .. n |-> Sums!Entry("exposure", q[i])]
  <1>2. /\ branch \in Seq(Entries) /\ epoch \in Nat /\ sent # <<>> /\ sent' = <<>> /\ written \subseteq Results
        /\ UNCHANGED <<mode, epoch, summaries, skips>> /\ summaries \in [Results -> Texts \union {Raw}] /\ skips \subseteq Results
        /\ exposures \subseteq Results /\ pending \subseteq Results
    BY DEF Sums!MessageEnd, SumInv, SumTypes
  <1>3. /\ ok \/ written = {}
        /\ exposures' = exposures \union written /\ pending' = pending \ written
        /\ jobs' = jobs \union {Sums!Job(k) : k \in {x \in written : Sums!Startable(x)}}
    BY <1>1 DEF Sums!Answered
  <1>4. Sums!Cardinality(written) = n
    BY Zenon DEF Cardinality, Sums!Cardinality
  <1>5. branch' = branch \o first \o more
    BY <1>1, <1>4 DEF Sums!Answered
  <1>6. IsFiniteSet(written)
    BY <1>2, FS_Subset DEF RawApart
  <1>7. /\ n \in Nat /\ q \in [1 .. n -> written] /\ (\A i, j \in 1 .. n : q[i] = q[j] => i = j)
        /\ \A x \in written : \E i \in 1 .. n : q[i] = x
    <2> HIDE DEF q, n
    <2> QED
      BY <1>6, Listed DEF q, n
  <1>8. \A k \in written : Sums!Entry("exposure", k) \in Entries /\ Sums!Entry("exposure", k).kind = "exposure"
                           /\ Sums!Entry("exposure", k).key = k /\ Sums!Entry("exposure", k).epoch = epoch
    BY <1>2 DEF Entries, Sums!Entry
  <1> DEFINE r == Sums!Response(sent[1])
  <1>9. /\ r \in Entries /\ r.kind = "response" /\ r.epoch = sent[1].epoch /\ r.epoch <= epoch
        /\ \A k \in pending : k \in r.raw /\ sent[1].epoch = epoch
    <2>1. sent[1].epoch \in Nat /\ sent[1].epoch <= epoch /\ DOMAIN sent[1].given \subseteq Results
      BY <1>2 DEF SumInv, CallHolds
    <2>2. r = [kind |-> "response", raw |-> {k \in DOMAIN sent[1].given : sent[1].given[k] = Raw}, epoch |-> sent[1].epoch]
      BY DEF Sums!Response
    <2>3. \A k \in pending : sent[1].epoch = epoch /\ k \in DOMAIN sent[1].given /\ sent[1].given[k] = Raw
      BY <1>2 DEF SumInv, PendingRaw
    <2> QED
      BY <2>1, <2>2, <2>3 DEF Entries
  <1> HIDE DEF q, n, r
  <1>10. first \in Seq(Entries) /\ more \in Seq(Entries) /\ Len(more) = n /\ (\A i \in 1 .. n : more[i] = Sums!Entry("exposure", q[i]))
    <2>1. \A i \in 1 .. n : Sums!Entry("exposure", q[i]) \in Entries
      BY <1>7, <1>8
    <2>2. first \in Seq(Entries)
      BY <1>9 DEF r
    <2>3. more \in Seq(Entries)
      BY <1>7, <2>1
    <2> QED
      BY <1>7, <2>2, <2>3
  <1>11. (ok => Len(first) = 1 /\ first[1] = r) /\ (~ok => Len(first) = 0)
    BY DEF r
  <1> HIDE DEF first, more
  <1> DEFINE a == Len(branch)
             f == Len(first)
  <1>12. /\ branch' \in Seq(Entries) /\ Len(branch') = a + f + n /\ a \in Nat /\ f \in Nat
         /\ \A i \in 1 .. a : branch'[i] = branch[i]
         /\ \A i \in 1 .. f : branch'[a + i] = first[i]
         /\ \A i \in 1 .. n : branch'[a + f + i] = more[i]
    BY <1>2, <1>5, <1>7, <1>10
  <1>13. Grown(branch, branch')
    BY <1>7, <1>12 DEF Grown
  <1>14. ASSUME NEW i \in Added(branch, branch')
         PROVE  \/ ok /\ i = a + 1 /\ branch'[i] = r
                \/ /\ ok /\ i > a + 1 /\ branch'[a + 1] = r
                   /\ \E k \in written : branch'[i] = Sums!Entry("exposure", k)
    <2>1. i \in a + 1 .. a + f + n
      BY <1>12 DEF Added
    <2>2. CASE i <= a + f
      <3>1. ok /\ f = 1 /\ i = a + 1
        BY <1>11, <1>12, <2>1, <2>2
      <3> QED
        BY <3>1, <1>11, <1>12
    <2>3. CASE i > a + f
      <3>1. i - a - f \in 1 .. n /\ branch'[i] = more[i - a - f]
        BY <1>7, <1>12, <2>1, <2>3
      <3>2. q[i - a - f] \in written /\ branch'[i] = Sums!Entry("exposure", q[i - a - f])
        BY <3>1, <1>7, <1>10
      <3>3. ok /\ f = 1
        BY <1>3, <1>11, <3>2
      <3>4. branch'[a + 1] = r
        BY <3>3, <1>11, <1>12
      <3> QED
        BY <3>2, <3>3, <3>4, <2>3, <1>12
    <2> QED
      BY <2>1, <2>2, <2>3, <1>12, <1>7
  <1> HIDE DEF a, f
  <1>15. ASSUME NEW i \in Added(branch, branch')
         PROVE  /\ branch'[i].kind \in {"response", "exposure"} /\ branch'[i].epoch <= epoch
                /\ branch'[i].kind = "exposure" => branch'[i].key \in written /\ branch'[i].epoch = epoch
    BY <1>2, <1>8, <1>9, <1>14
  <1>16. ASSUME NEW i \in Added(branch, branch'), branch'[i].kind \in {"exposure", "summary"}
         PROVE  \E j \in 1 .. i : branch'[j].kind = "response" /\ branch'[i].key \in branch'[j].raw /\ branch'[j].epoch = branch'[i].epoch
    <2>1. branch'[i].kind = "exposure" /\ branch'[i].key \in written /\ branch'[i].epoch = epoch
      BY <1>15, <1>16
    <2>2. i > a + 1 /\ branch'[a + 1] = r /\ a \in Nat
      BY <1>9, <1>12, <1>14, <2>1
    <2>3. a + 1 \in 1 .. i
      BY <2>2, <1>12 DEF Added
    <2>4. branch'[i].key \in r.raw /\ r.epoch = epoch
      BY <1>9, <2>1
    <2> QED
      BY <1>9, <2>1, <2>2, <2>3, <2>4
  <1>17. exposures' = exposures \union {k \in Results : \E i \in Added(branch, branch') :
                         branch'[i].kind = "exposure" /\ branch'[i].key = k /\ branch'[i].epoch = epoch}
    <2>1. ASSUME NEW k \in written
          PROVE  \E i \in Added(branch, branch') : branch'[i].kind = "exposure" /\ branch'[i].key = k /\ branch'[i].epoch = epoch
      <3>1. PICK i \in 1 .. n : q[i] = k
        BY <1>7
      <3>2. branch'[a + f + i] = Sums!Entry("exposure", k) /\ a + f + i \in Added(branch, branch')
        BY <3>1, <1>7, <1>10, <1>12 DEF Added, a, f
      <3> QED
        BY <3>2, <1>8
    <2> QED
      BY <2>1, <1>2, <1>3, <1>15
  <1>18. \A k \in Results, i \in Added(branch, branch') : ~Ending(branch'[i], k, epoch)
    BY <1>15 DEF Ending
  <1>19. Grounded(branch') /\ Sums!ReloadAgrees'
    BY <1>2, <1>13, <1>15, <1>16, <1>17, <1>18, AgreesGrown
  <1>20. Sums!RawFirst'
    BY <1>2 DEF Sums!RawFirst
  <1>21. PendingRaw'
    BY <1>2, <1>3, <1>13, StillListed DEF SumInv, PendingRaw
  <1>22. jobs' \subseteq [key : Results, current : BOOLEAN] /\ JobsExposed'
    <2>1. \A k \in written : Sums!Job(k) \in [key : Results, current : BOOLEAN] /\ Sums!Job(k).key \in exposures'
      BY <1>2, <1>3 DEF Sums!Job
    <2>2. \A j \in jobs' : j \in jobs \/ \E k \in written : j = Sums!Job(k)
      BY <1>3
    <2> QED
      BY <1>3, <2>1, <2>2 DEF SumInv, SumTypes, JobsExposed
  <1>23. SumTypes' /\ CallHolds'
    BY <1>2, <1>3, <1>12, <1>22 DEF SumInv, SumTypes, CallHolds
  <1> QED
    BY <1>19, <1>20, <1>21, <1>22, <1>23 DEF SumInv, Sums!Sound

\* The context handler: what it summarizes at once was exposed, and what it exposes is in the call exactly.
LEMMA ContextKeeps == ASSUME RawApart, SumInv, Sums!Context PROVE SumInv'
  <1> DEFINE known == {k \in Sums!ResultsOf(branch) : summaries[k] # Raw}
             open == IF mode = "on" THEN Sums!ResultsOf(branch) \ (known \union skips) ELSE {}
             due == open \intersect exposures
             atOnce == {k \in due \intersect swift : mode = "on" /\ k \notin retries}
             q == Sums!SetToSeq(atOnce)
             n == Cardinality(atOnce)
  <1>1. Sums!Cardinality(atOnce) = n
    BY Zenon DEF Cardinality, Sums!Cardinality
  <1>2. PICK ending \in [atOnce -> UNION {Sums!Outcomes(k) : k \in atOnce}] :
          /\ \A k \in atOnce : ending[k] \in Sums!Outcomes(k)
          /\ branch' = branch \o [i \in 1 .. n |-> ending[q[i]]]
          /\ summaries' = [k \in Results |-> IF k \in atOnce /\ ending[k].kind = "summary" THEN ending[k].text ELSE summaries[k]]
          /\ skips' = skips \union {k \in atOnce : ending[k].kind = "skip"}
          /\ sent' = <<[epoch |-> epoch,
                        given |-> [k \in Sums!ResultsOf(branch) |-> IF mode = "off" THEN Raw ELSE summaries'[k]]]>>
    BY <1>1 DEF Sums!Context
  <1>3. /\ sent = <<>> /\ pending' = pending \union (open \ exposures) /\ UNCHANGED <<mode, epoch, exposures>>
        /\ jobs' \subseteq jobs \union {Sums!Job(k) : k \in due}
    BY DEF Sums!Context
  <1>4. /\ branch \in Seq(Entries) /\ epoch \in Nat /\ exposures \subseteq Results /\ pending \subseteq Results
        /\ summaries \in [Results -> Texts \union {Raw}] /\ skips \subseteq Results /\ Sums!ResultsOf(branch) \subseteq Results
    BY DEF SumInv, SumTypes, Sums!ResultsOf
  <1>5. /\ open \subseteq Sums!ResultsOf(branch) /\ (\A k \in open : summaries[k] = Raw /\ k \notin skips)
        /\ atOnce \subseteq open /\ atOnce \subseteq exposures /\ due \subseteq exposures
    OBVIOUS
  <1>6. IsFiniteSet(atOnce) /\ atOnce \subseteq Results
    <2>1. atOnce \subseteq Results
      BY <1>4, <1>5
    <2> HIDE DEF atOnce
    <2> QED
      BY <2>1, FS_Subset DEF RawApart
  <1> HIDE DEF known, open, due, atOnce
  <1>7. /\ n \in Nat /\ q \in [1 .. n -> atOnce] /\ (\A i, j \in 1 .. n : q[i] = q[j] => i = j)
        /\ \A x \in atOnce : \E i \in 1 .. n : q[i] = x
    <2> HIDE DEF q, n
    <2> QED
      BY <1>6, Listed DEF q, n
  <1>8. ASSUME NEW k \in atOnce
        PROVE  /\ ending[k] \in Entries /\ ending[k].kind \in {"summary", "skip"} /\ ending[k].key = k /\ ending[k].epoch = epoch
               /\ ending[k].kind = "summary" => ending[k].text \in Texts
    <2>1. ending[k] \in Sums!Outcomes(k) /\ k \in Results
      BY <1>2, <1>6
    <2> QED
      BY <2>1, <1>4 DEF Sums!Outcomes, Sums!Summary, Sums!Entry, Entries
  <1> DEFINE more == [i \in 1 .. n |-> ending[q[i]]]
             a == Len(branch)
  <1> HIDE DEF q, n
  <1>9. more \in Seq(Entries) /\ Len(more) = n /\ \A i \in 1 .. n : more[i] = ending[q[i]]
    <2>1. \A i \in 1 .. n : ending[q[i]] \in Entries
      BY <1>7, <1>8
    <2>2. more \in Seq(Entries)
      BY <1>7, <2>1
    <2> QED
      BY <1>7, <2>2
  <1>10. branch' = branch \o more
    BY <1>2
  <1> HIDE DEF more
  <1>11. /\ branch' \in Seq(Entries) /\ Len(branch') = a + n /\ a \in Nat
         /\ \A i \in 1 .. a : branch'[i] = branch[i]
         /\ \A i \in 1 .. n : branch'[a + i] = ending[q[i]]
    <2>1. /\ branch' \in Seq(Entries) /\ Len(branch') = a + n /\ a \in Nat
          /\ \A i \in 1 .. a : branch'[i] = branch[i]
          /\ \A i \in 1 .. n : branch'[a + i] = more[i]
      <3>1. branch \in Seq(Entries) /\ more \in Seq(Entries) /\ Len(more) = n
        BY <1>4, <1>9
      <3> QED
        BY <3>1, <1>10
    <2> QED
      BY <1>9, <2>1
  <1>12. Grown(branch, branch')
    BY <1>7, <1>11 DEF Grown
  <1>13. ASSUME NEW i \in Added(branch, branch')
         PROVE  i - a \in 1 .. n /\ q[i - a] \in atOnce /\ branch'[i] = ending[q[i - a]]
    <2>1. i - a \in 1 .. n /\ a + (i - a) = i
      BY <1>7, <1>11 DEF Added
    <2>2. branch'[i] = ending[q[i - a]]
      BY <1>11, <2>1
    <2> QED
      BY <1>7, <2>1, <2>2
  <1>14. \A i \in 1 .. n : a + i \in Added(branch, branch')
    BY <1>7, <1>11 DEF Added
  <1> HIDE DEF a
  <1>15. ASSUME NEW i \in Added(branch, branch')
         PROVE  /\ branch'[i].kind \in {"summary", "skip"} /\ branch'[i].key \in atOnce /\ branch'[i].epoch = epoch /\ epoch <= epoch
    BY <1>4, <1>8, <1>13
  <1>16. ASSUME NEW i \in Added(branch, branch')
         PROVE  \E j \in 1 .. i : branch'[j].kind = "response" /\ branch'[i].key \in branch'[j].raw /\ branch'[j].epoch = branch'[i].epoch
    <2>1. Answers(branch, branch'[i].key, epoch)
      BY <1>5, <1>15, ExposedAnswers
    <2>2. PICK j \in 1 .. Len(branch) : branch[j].kind = "response" /\ branch'[i].key \in branch[j].raw /\ branch[j].epoch = epoch
      BY <2>1 DEF Answers
    <2>3. branch'[j] = branch[j] /\ j \in 1 .. i
      BY <1>4, <1>12, <2>2 DEF Grown, Added
    <2> QED
      BY <1>15, <2>2, <2>3
  <1>17. exposures' = exposures \union {k \in Results : \E i \in Added(branch, branch') :
                         branch'[i].kind = "exposure" /\ branch'[i].key = k /\ branch'[i].epoch = epoch}
    BY <1>3, <1>15
  <1>18. summaries' \in [Results -> Texts \union {Raw}] /\ skips' \subseteq Results
    BY <1>2, <1>4, <1>6, <1>8
  <1>19. ASSUME NEW k \in Results
         PROVE  \/ /\ \A i \in Added(branch, branch') : ~Ending(branch'[i], k, epoch)
                   /\ summaries'[k] = summaries[k] /\ (k \in skips' <=> k \in skips)
                \/ /\ summaries[k] = Raw /\ k \notin skips
                   /\ \E m \in Added(branch, branch') :
                        /\ Ending(branch'[m], k, epoch)
                        /\ \A i \in Added(branch, branch') : Ending(branch'[i], k, epoch) => i = m
                        /\ summaries'[k] = (IF branch'[m].kind = "summary" THEN branch'[m].text ELSE Raw)
                        /\ k \in skips' <=> branch'[m].kind = "skip"
    <2>1. CASE k \notin atOnce
      <3>1. summaries'[k] = summaries[k] /\ (k \in skips' <=> k \in skips)
        BY <1>2, <2>1
      <3>2. \A i \in Added(branch, branch') : ~Ending(branch'[i], k, epoch)
        BY <1>15, <2>1 DEF Ending
      <3> QED
        BY <3>1, <3>2
    <2>2. CASE k \in atOnce
      <3>1. PICK p \in 1 .. n : q[p] = k
        BY <1>7, <2>2
      <3> DEFINE m == a + p
      <3>2. m \in Added(branch, branch') /\ branch'[m] = ending[k]
        BY <3>1, <1>11, <1>14
      <3>3. summaries[k] = Raw /\ k \notin skips
        BY <1>5, <2>2
      <3>4. summaries'[k] = (IF ending[k].kind = "summary" THEN ending[k].text ELSE Raw) /\ (k \in skips' <=> ending[k].kind = "skip")
        BY <1>2, <2>2, <3>3
      <3>5. Ending(ending[k], k, epoch)
        BY <1>8, <2>2 DEF Ending
      <3>6. ASSUME NEW i \in Added(branch, branch'), Ending(branch'[i], k, epoch) PROVE i = m
        <4>1. i - a \in 1 .. n /\ q[i - a] = k
          BY <1>8, <1>13, <3>6 DEF Ending
        <4>2. i - a = p
          BY <4>1, <3>1, <1>7
        <4>3. i \in Int /\ p \in Int
          BY <1>11, <3>1 DEF Added
        <4> QED
          BY <4>2, <4>3, <1>11
      <3> HIDE DEF m
      <3> QED
        BY <3>2, <3>3, <3>4, <3>5, <3>6
    <2> QED
      BY <2>1, <2>2
  <1>20. \A i \in Added(branch, branch') : branch'[i].kind # "config" /\ branch'[i].epoch <= epoch
    BY <1>15
  <1>21. Grounded(branch') /\ Sums!ReloadAgrees'
    BY <1>3, <1>12, <1>16, <1>17, <1>18, <1>19, <1>20, AgreesGrown
  <1> DEFINE handed == [epoch |-> epoch,
                      given |-> [k \in Sums!ResultsOf(branch) |-> IF mode = "off" THEN Raw ELSE summaries'[k]]]
  <1>22. /\ sent' = <<handed>> /\ sent'[1] = handed /\ handed.epoch = epoch /\ DOMAIN handed.given = Sums!ResultsOf(branch)
         /\ \A k \in Sums!ResultsOf(branch) : handed.given[k] \in {Raw, summaries'[k]}
    BY <1>2
  <1> HIDE DEF handed
  <1>23. Sums!RawFirst'
    <2>1. ASSUME NEW k \in DOMAIN handed.given, handed.given[k] # Raw PROVE Answers(branch', k, epoch)
      <3>1. k \in Results /\ summaries'[k] # Raw
        BY <1>4, <1>22, <2>1
      <3>2. Sums!RestoredSummaries(branch', epoch)[k] # Raw
        BY <1>3, <1>21, <3>1 DEF Sums!ReloadAgrees
      <3> QED
        BY <3>1, <3>2, <1>11, <1>21, SummaryAnswers
    <2>2. DOMAIN branch' = 1 .. Len(branch')
      BY <1>11
    <2>3. \A k \in DOMAIN handed.given : handed.given[k] # Raw =>
            \E i \in DOMAIN branch' : branch'[i].kind = "response" /\ k \in branch'[i].raw /\ branch'[i].epoch = handed.epoch
      BY <1>22, <2>1, <2>2 DEF Answers
    <2> QED
      BY <1>22, <2>3 DEF Sums!RawFirst
  <1>24. PendingRaw'
    <2>1. \A k \in pending' : k \in Sums!ResultsOf(branch) /\ summaries[k] = Raw /\ k \notin exposures /\ k \in Results /\ k \notin atOnce
      BY <1>3, <1>4, <1>5 DEF SumInv, PendingRaw
    <2>2. \A k \in pending' : summaries'[k] = Raw
      BY <1>2, <2>1
    <2>3. \A k \in pending' : k \in DOMAIN handed.given /\ handed.given[k] = Raw
      BY <1>22, <2>1, <2>2
    <2> QED
      BY <1>3, <1>4, <1>12, <1>22, <2>1, <2>2, <2>3, StillListed DEF PendingRaw
  <1>25. jobs' \subseteq [key : Results, current : BOOLEAN] /\ JobsExposed'
    <2>1. \A k \in due : Sums!Job(k) \in [key : Results, current : BOOLEAN] /\ Sums!Job(k).key \in exposures
      BY <1>4, <1>5 DEF Sums!Job
    <2>2. \A j \in jobs' : j \in jobs \/ \E k \in due : j = Sums!Job(k)
      BY <1>3
    <2> QED
      BY <1>3, <2>1, <2>2 DEF SumInv, SumTypes, JobsExposed
  <1>26. SumTypes' /\ CallHolds'
    <2>1. pending' \subseteq Results
      BY <1>3, <1>4, <1>5
    <2>2. epoch <= epoch
      BY <1>4
    <2> QED
      BY <1>3, <1>4, <1>11, <1>18, <1>22, <1>25, <2>1, <2>2 DEF SumInv, SumTypes, CallHolds
  <1> QED
    BY <1>21, <1>23, <1>24, <1>25, <1>26 DEF SumInv, Sums!Sound

LEMMA SumStep == ASSUME RawApart, SumInv, [Sums!Next]_Sums!vars PROVE SumInv'
  <1>1. CASE Sums!Next
    <2>1. \A m : m \in {"on", "pause", "off"} <=> m \in Switches
      BY DEF Switches
    <2> QED
      BY <1>1, <2>1, ContextKeeps, MessageKeeps, ResetKeeps, ResultKeeps, CoolKeeps, EndKeepsWork, FailKeeps, CommandKeeps, NavigateKeeps
         DEF Sums!Next
  <1>2. CASE UNCHANGED Sums!vars
    <2>1. UNCHANGED <<branch, mode, epoch, exposures, summaries, skips, pending, jobs, sent>>
      BY <1>2 DEF Sums!vars, Sums!memory
    <2> QED
      BY <2>1, FewerJobs
  <1> QED
    BY <1>1, <1>2

\* tool-summary/index.ts and state.ts, for any number of results and texts and branches of any length: a
\* call is given a summary only if the model answered a call of this epoch that held the exact result,
\* and a reload of the branch gives the summaries, skips and exposures that the memory has.
THEOREM SummariesHold == ASSUME RawApart PROVE Sums!Spec => []Sums!Sound
  <1>1. Sums!Init => SumInv
    BY SumInit
  <1>2. SumInv /\ [Sums!Next]_Sums!vars => SumInv'
    BY SumStep
  <1>3. SumInv => Sums!Sound
    BY DEF SumInv
  <1> QED
    BY <1>1, <1>2, <1>3, PTL DEF Sums!Spec

-------------------------------------------------------------------------------
(* Integration bundles                                                       *)

CONSTANTS Tools, Discovery, Deferred, Bundles, ToolsOf, AlwaysLoad, Models, LoadsOf, CapOf, MaxChanges
VARIABLES registered, router, excluded, changes, reply

Router == INSTANCE Bundles WITH Pinned <- AlwaysLoad

\* The bundles are a list.
Listing == Bundles \in Seq(Router!Names)

Routers ==
  [active : SUBSET Tools, started : BOOLEAN, model : Models, eligible : SUBSET Tools, manual : SUBSET Tools,
   known : SUBSET Tools, indirect : SUBSET Tools, observed : SUBSET Tools, loaded : SUBSET Router!Names,
   older : SUBSET (Router!Names \X Router!Names), default : SUBSET Router!Names]

\* Two states that differ in what is loaded only.
SameView(a, b) ==
  /\ a.active = b.active /\ a.started = b.started /\ a.model = b.model /\ a.eligible = b.eligible
  /\ a.manual = b.manual /\ a.known = b.known /\ a.indirect = b.indirect /\ a.observed = b.observed

\* What was excluded is not active, and is taken for eligible only until the next refresh,
\* which sees that it was active before.
Clean(st) == st.active \intersect excluded = {} /\ st.eligible \intersect excluded \subseteq st.observed

Within(st) == st.loaded \ AlwaysLoad # {} => Cardinality(st.active) <= CapOf[st.model]

RouterTypes ==
  /\ registered \subseteq Tools /\ router \in Routers
  /\ excluded \subseteq registered /\ excluded \intersect Deferred = {}
  /\ router.indirect \subseteq Deferred

-----------------------------------------------------------------------------
LEMMA SizeIs == ASSUME NEW S PROVE Router!Cardinality(S) = Cardinality(S)
  BY Zenon DEF Cardinality, Router!Cardinality

LEMMA NamesFinite == ASSUME Listing PROVE IsFiniteSet(Router!Names)
  <1>1. Bundles \in [1 .. Len(Bundles) -> Router!Names] /\ Len(Bundles) \in Nat
    BY DEF Listing
  <1>2. IsFiniteSet(1 .. Len(Bundles)) /\ Router!Names = {Bundles[i] : i \in 1 .. Len(Bundles)}
    BY <1>1, FS_Interval DEF Router!Names
  <1>3. Bundles \in Surjection(1 .. Len(Bundles), Router!Names)
    BY <1>1, <1>2 DEF Surjection
  <1> QED
    BY <1>2, <1>3, FS_Surjection

\* What fits, and what may be loaded, is a question of the view.
LEMMA ViewDecides ==
  ASSUME NEW a, NEW b, SameView(a, b), NEW names
  PROVE  /\ Router!Desired(a, names) = Router!Desired(b, names)
         /\ Router!Fits(a, names) <=> Router!Fits(b, names)
  <1>1. Router!Desired(a, names) = Router!Desired(b, names)
    BY DEF SameView, Router!Desired, Router!Eligible
  <1> QED
    BY <1>1 DEF SameView, Router!Fits

LEMMA WithoutIs ==
  ASSUME NEW st \in Routers, NEW names
  PROVE  /\ Router!Without(st, names) \in Routers /\ SameView(Router!Without(st, names), st)
         /\ Router!Without(st, names).loaded = st.loaded \ names
  BY DEF Router!Without, Routers, SameView

LEMMA LoadedIs ==
  ASSUME NEW st \in Routers, NEW names
  PROVE  /\ Router!LoadBundles(st, names) \in Routers /\ SameView(Router!LoadBundles(st, names), st)
         /\ st.loaded \subseteq Router!LoadBundles(st, names).loaded
         /\ Router!LoadBundles(st, names).loaded \subseteq st.loaded \union names
  <1> DEFINE new == {b \in (names \intersect Router!Names) \ st.loaded : Router!Available(st, b)}
             grown == st.older \union (st.loaded \X new) \union {p \in new \X new : Router!Before(p[1], p[2])}
  <1>1. new \subseteq Router!Names /\ new \subseteq names
    OBVIOUS
  <1>2. st.loaded \subseteq Router!Names /\ st.older \subseteq Router!Names \X Router!Names /\ st.default \subseteq Router!Names
    BY DEF Routers
  <1>3. grown \in SUBSET (Router!Names \X Router!Names)
    BY <1>1, <1>2
  <1>4. Router!LoadBundles(st, names) =
          [st EXCEPT !.loaded = st.loaded \union new, !.default = st.default \union new, !.older = grown]
    BY DEF Router!LoadBundles
  <1> HIDE DEF new, grown
  <1> QED
    BY <1>1, <1>2, <1>3, <1>4 DEF Routers, SameView

LEMMA EvictedIs ==
  ASSUME Listing, NEW st \in Routers, NEW kept
  PROVE  /\ Router!Evict(st, kept) \in Routers /\ SameView(Router!Evict(st, kept), st)
         /\ Router!Evict(st, kept).loaded \subseteq st.loaded
         /\ st.loaded \intersect kept \subseteq Router!Evict(st, kept).loaded
         /\ Router!Fits(st, st.loaded) => Router!Evict(st, kept).loaded = st.loaded
         /\ \/ Router!Fits(st, Router!Evict(st, kept).loaded)
            \/ Router!Evict(st, kept).loaded \subseteq AlwaysLoad \union kept
  <1> DEFINE evictable == st.loaded \ (AlwaysLoad \union kept)
             oldest == {gone \in SUBSET evictable :
                          \A p \in st.older : p[2] \in gone /\ p[1] \in evictable => p[1] \in gone}
             enough == {gone \in oldest : Router!Fits(st, st.loaded \ gone)}
             least == CHOOSE gone \in enough : \A more \in enough : Router!Cardinality(gone) <= Router!Cardinality(more)
             gone1 == IF enough = {} THEN evictable ELSE least
  <1>1. Router!Evict(st, kept) = Router!Without(st, gone1)
    BY DEF Router!Evict
  <1>2. IsFiniteSet(evictable)
    <2>1. evictable \subseteq Router!Names
      BY DEF Routers
    <2> QED
      BY <2>1, NamesFinite, FS_Subset
  <1>3. \A gone \in enough : gone \subseteq evictable /\ IsFiniteSet(gone) /\ Cardinality(gone) \in Nat
    BY <1>2, FS_Subset, FS_CardinalityType
  <1>4. enough # {} => least \in enough /\ \A more \in enough : Cardinality(least) <= Cardinality(more)
    <2>0. \A S : Router!Cardinality(S) = Cardinality(S)
      BY SizeIs
    <2> SUFFICES ASSUME enough # {}
                 PROVE  \E gone \in enough : \A more \in enough : Router!Cardinality(gone) <= Router!Cardinality(more)
      BY <2>0
    <2> DEFINE sizes == {Cardinality(gone) : gone \in enough}
    <2>1. sizes \in SUBSET Nat /\ sizes # {}
      BY <1>3
    <2> HIDE DEF enough
    <2>2. PICK x \in sizes : \A y \in sizes : x <= y
      BY <2>1, FirstOf
    <2> QED
      BY <2>0, <2>2
  <1>5. gone1 \subseteq evictable
    BY <1>3, <1>4
  <1>6. Router!Fits(st, st.loaded) => gone1 = {}
    <2> SUFFICES ASSUME Router!Fits(st, st.loaded) PROVE gone1 = {}
      OBVIOUS
    <2>1. {} \in oldest /\ st.loaded \ {} = st.loaded
      OBVIOUS
    <2>2. {} \in enough
      BY <2>1
    <2>3. gone1 \in enough /\ Cardinality(gone1) <= Cardinality({})
      BY <2>2, <1>4
    <2>4. IsFiniteSet(gone1) /\ Cardinality(gone1) \in Nat
      BY <2>3, <1>3
    <2> HIDE DEF gone1
    <2> QED
      BY <2>3, <2>4, FS_EmptySet
  <1>7. Router!Fits(st, st.loaded \ gone1) \/ gone1 = evictable
    BY <1>4
  <1>8. /\ Router!Evict(st, kept) \in Routers /\ SameView(Router!Evict(st, kept), st)
        /\ Router!Evict(st, kept).loaded = st.loaded \ gone1
    <2> HIDE DEF gone1
    <2> QED
      BY <1>1, WithoutIs
  <1> HIDE DEF gone1
  <1> QED
    BY <1>5, <1>6, <1>7, <1>8

LEMMA AppliedIs ==
  ASSUME Listing, registered \subseteq Tools, NEW st \in Routers
  PROVE  LET new == Router!Applied(st) IN
         /\ new \in Routers /\ new.eligible = st.eligible /\ new.indirect = st.indirect /\ new.model = st.model
         /\ new.active = Router!Desired(st, new.loaded) /\ new.observed = new.active
         /\ Router!Fits(st, st.loaded) => new.loaded = st.loaded
         /\ Within(new)
  <1> DEFINE left == Router!Evict(st, {})
             desired == Router!Desired(st, left.loaded)
             new == Router!Applied(st)
  <1>1. /\ left \in Routers /\ SameView(left, st) /\ left.loaded \subseteq st.loaded
        /\ Router!Fits(st, st.loaded) => left.loaded = st.loaded
        /\ Router!Fits(st, left.loaded) \/ left.loaded \subseteq AlwaysLoad
    BY EvictedIs
  <1>2. new = [left EXCEPT !.active = desired, !.observed = desired]
    BY DEF Router!Applied
  <1>3. desired \in SUBSET Tools
    BY DEF Router!Desired, Router!Eligible
  <1>4. left.loaded \subseteq AlwaysLoad \/ Cardinality(desired) <= CapOf[st.model]
    BY <1>1, SizeIs DEF Router!Fits
  <1> HIDE DEF left, desired, new
  <1>5. /\ new \in Routers /\ new.eligible = left.eligible /\ new.indirect = left.indirect /\ new.model = left.model
        /\ new.active = desired /\ new.observed = desired /\ new.loaded = left.loaded
    BY <1>1, <1>2, <1>3 DEF Routers
  <1>6. new.eligible = st.eligible /\ new.indirect = st.indirect /\ new.model = st.model
    BY <1>1, <1>5 DEF SameView
  <1>7. Within(new)
    BY <1>4, <1>5, <1>6 DEF Within
  <1>8. desired = Router!Desired(st, new.loaded)
    BY <1>5 DEF desired
  <1> QED
    BY <1>1, <1>5, <1>6, <1>7, <1>8 DEF new

LEMMA RefreshedIs ==
  ASSUME registered \subseteq Tools, NEW st \in Routers
  PROVE  LET new == Router!Refreshed(st) IN
         /\ new \in Routers /\ new.active = st.active /\ new.observed = st.active /\ new.model = st.model
         /\ new.indirect \subseteq Deferred
         /\ st.loaded \subseteq new.loaded /\ new.loaded \subseteq st.loaded \union AlwaysLoad
         /\ excluded \subseteq registered /\ Clean(st) => new.eligible \intersect excluded = {}
  <1> DEFINE indirect == IF Discovery \intersect st.active # {} THEN Deferred \intersect registered ELSE {}
             removed == (st.observed \intersect registered) \ st.active # {}
             added == (st.active \intersect (st.known \ st.observed)) \ (Discovery \union indirect) # {}
             kept == {n \in st.eligible \intersect registered : removed \/ added => n \in st.active}
             chosen == (st.manual \union (st.known \ st.observed)) \intersect st.active
             given == IF st.started THEN chosen ELSE {}
             mid == [st EXCEPT !.started = TRUE, !.known = registered, !.observed = st.active,
                               !.indirect = indirect, !.eligible = kept \union st.active, !.manual = given]
             new == Router!Refreshed(st)
  <1>1. new = Router!LoadBundles(mid, AlwaysLoad)
    BY DEF Router!Refreshed
  <1>2. st.active \in SUBSET Tools /\ st.eligible \in SUBSET Tools
    BY DEF Routers
  <1>3. indirect \in SUBSET Tools /\ indirect \subseteq Deferred /\ kept \union st.active \in SUBSET Tools /\ given \in SUBSET Tools
    BY <1>2
  <1>4. excluded \subseteq registered /\ Clean(st) => (kept \union st.active) \intersect excluded = {}
    <2> SUFFICES ASSUME excluded \subseteq registered, Clean(st), NEW n \in kept \intersect excluded PROVE FALSE
      BY DEF Clean
    <2>1. n \in st.observed /\ n \in registered /\ n \notin st.active
      BY DEF Clean
    <2>2. removed
      BY <2>1
    <2> QED
      BY <2>1, <2>2
  <1> HIDE DEF indirect, removed, added, kept, chosen, given, new
  <1>5. /\ mid \in Routers /\ mid.active = st.active /\ mid.observed = st.active /\ mid.model = st.model
        /\ mid.indirect = indirect /\ mid.eligible = kept \union st.active /\ mid.loaded = st.loaded
    BY <1>2, <1>3 DEF Routers
  <1> HIDE DEF mid
  <1>6. /\ new \in Routers /\ SameView(new, mid)
        /\ mid.loaded \subseteq new.loaded /\ new.loaded \subseteq mid.loaded \union AlwaysLoad
    BY <1>1, <1>5, LoadedIs
  <1> QED
    BY <1>3, <1>4, <1>5, <1>6 DEF SameView, new

-----------------------------------------------------------------------------
\* What a refresh leaves, and the rest of a handler keeps: nothing excluded is taken for eligible.
Fresh(st) ==
  /\ st \in Routers /\ st.eligible \intersect excluded = {} /\ st.active \intersect excluded = {}
  /\ st.indirect \subseteq Deferred

Bounds == Listing /\ registered \subseteq Tools /\ excluded \subseteq registered /\ excluded \intersect Deferred = {}

LEMMA FreshIsClean == ASSUME NEW st, Fresh(st) PROVE st \in Routers /\ Clean(st)
  BY DEF Fresh, Clean

LEMMA SameViewFresh == ASSUME NEW a, NEW b \in Routers, SameView(b, a), Fresh(a) PROVE Fresh(b)
  BY DEF SameView, Fresh

LEMMA RefreshIsFresh ==
  ASSUME Bounds, NEW st \in Routers, Clean(st)
  PROVE  Fresh(Router!Refreshed(st)) /\ (Within(st) => Within(Router!Refreshed(st)))
  <1> DEFINE new == Router!Refreshed(st)
  <1>1. /\ new \in Routers /\ new.active = st.active /\ new.model = st.model /\ new.indirect \subseteq Deferred
        /\ new.loaded \subseteq st.loaded \union AlwaysLoad /\ new.eligible \intersect excluded = {}
    BY RefreshedIs DEF Bounds
  <1> HIDE DEF new
  <1>2. Fresh(new) /\ (Within(st) => Within(new))
    BY <1>1 DEF Fresh, Clean, Within
  <1> QED
    BY <1>2 DEF new

LEMMA AppliedIsFresh ==
  ASSUME Bounds, NEW st, Fresh(st)
  PROVE  Fresh(Router!Applied(st)) /\ Within(Router!Applied(st))
  <1> DEFINE new == Router!Applied(st)
  <1>1. /\ new \in Routers /\ new.eligible = st.eligible /\ new.indirect = st.indirect
        /\ new.active = Router!Desired(st, new.loaded) /\ Within(new)
    BY AppliedIs DEF Bounds, Fresh
  <1>2. Router!Desired(st, new.loaded) \subseteq st.eligible \union st.indirect
    BY DEF Router!Desired, Router!Eligible
  <1> HIDE DEF new
  <1>3. Fresh(new)
    BY <1>1, <1>2 DEF Fresh, Bounds
  <1> QED
    BY <1>1, <1>3 DEF new

\* requestLoad: the bundle is loaded among those that are left.
LEMMA RequestedIs ==
  ASSUME Listing, NEW st \in Routers, NEW b \in Router!Names
  PROVE  /\ Router!Requested(st, b) \in Routers /\ SameView(Router!Requested(st, b), st)
         /\ b \in Router!Requested(st, b).loaded
  <1> DEFINE off == Router!Without(st, {b})
             on == [off EXCEPT !.loaded = off.loaded \union {b}, !.older = off.older \union ((st.loaded \ {b}) \X {b})]
  <1>1. off \in Routers /\ SameView(off, st)
    BY WithoutIs
  <1>2. Router!Requested(st, b) = Router!Evict(on, {b})
    BY DEF Router!Requested
  <1>3. (st.loaded \ {b}) \X {b} \subseteq Router!Names \X Router!Names
    BY DEF Routers
  <1> HIDE DEF off
  <1>4. on \in Routers /\ SameView(on, off) /\ b \in on.loaded
    BY <1>1, <1>3 DEF Routers, SameView
  <1> HIDE DEF on
  <1>5. /\ Router!Evict(on, {b}) \in Routers /\ SameView(Router!Evict(on, {b}), on)
        /\ on.loaded \intersect {b} \subseteq Router!Evict(on, {b}).loaded
    BY <1>4, EvictedIs
  <1> QED
    BY <1>1, <1>2, <1>4, <1>5 DEF SameView

\* A load that is let through leaves the bundle loaded with all its tools active, within the cap.
LEMMA LoadSucceeds ==
  ASSUME Bounds, NEW st, Fresh(st), NEW b \in Router!Names, Router!Loadable(st, b)
  PROVE  LET new == Router!Applied(Router!Requested(st, b)) IN
         /\ Fresh(new) /\ Within(new) /\ b \in new.loaded /\ ToolsOf[b] \subseteq new.active
         /\ Cardinality(new.active) <= CapOf[new.model]
  <1> DEFINE mid == Router!Requested(st, b)
             new == Router!Applied(mid)
  <1>1. mid \in Routers /\ SameView(mid, st) /\ b \in mid.loaded
    BY RequestedIs DEF Bounds, Fresh
  <1>2. Router!Available(st, b) /\ Router!Fits(st, mid.loaded)
    BY DEF Router!Loadable
  <1> HIDE DEF mid
  <1>3. Fresh(mid)
    BY <1>1, SameViewFresh
  <1>4. Router!Fits(mid, mid.loaded) /\ ToolsOf[b] \subseteq Router!Eligible(mid)
    BY <1>1, <1>2, ViewDecides DEF Router!Available, Router!Eligible, SameView
  <1>5. Fresh(new) /\ Within(new)
    BY <1>3, AppliedIsFresh
  <1>6. /\ new.model = mid.model /\ new.active = Router!Desired(mid, new.loaded)
        /\ new.loaded = mid.loaded
    BY <1>1, <1>4, AppliedIs DEF Bounds
  <1> HIDE DEF new
  <1>7. ToolsOf[b] \subseteq new.active
    BY <1>1, <1>4, <1>6 DEF Router!Desired
  <1>8. Cardinality(new.active) <= CapOf[new.model]
    BY <1>4, <1>6, SizeIs DEF Router!Fits
  <1> QED
    BY <1>1, <1>5, <1>6, <1>7, <1>8 DEF new, mid

LEMMA RequestLoadIs ==
  ASSUME Bounds, NEW st \in Routers, Clean(st), NEW b \in Router!Names
  PROVE  Fresh(Router!RequestLoad(st, b)) /\ (Within(st) => Within(Router!RequestLoad(st, b)))
  <1> DEFINE new == Router!Refreshed(st)
  <1>1. Fresh(new) /\ (Within(st) => Within(new))
    BY RefreshIsFresh
  <1>2. Router!RequestLoad(st, b) = IF Router!Loadable(new, b) THEN Router!Applied(Router!Requested(new, b)) ELSE new
    BY DEF Router!RequestLoad
  <1> HIDE DEF new
  <1>3. CASE Router!Loadable(new, b)
    BY <1>1, <1>2, <1>3, LoadSucceeds
  <1>4. CASE ~Router!Loadable(new, b)
    BY <1>1, <1>2, <1>4
  <1> QED
    BY <1>3, <1>4

LEMMA LoadoutIs ==
  ASSUME NEW st, Fresh(st)
  PROVE  Fresh(Router!DefaultLoadout(st))
  <1> DEFINE names == AlwaysLoad \union LoadsOf[st.model]
             mid == Router!Without(st, st.default \ names)
  <1>1. mid \in Routers /\ SameView(mid, st)
    BY WithoutIs DEF Fresh
  <1>2. Router!DefaultLoadout(st) = Router!LoadBundles(mid, names)
    BY DEF Router!DefaultLoadout
  <1> HIDE DEF mid, names
  <1>3. Router!LoadBundles(mid, names) \in Routers /\ SameView(Router!LoadBundles(mid, names), mid)
    BY <1>1, LoadedIs
  <1> QED
    BY <1>1, <1>2, <1>3, SameViewFresh

\* autoLoadByTriggers, one bundle of the list after the other.
LEMMA AutoLoadIs ==
  ASSUME Bounds, NEW old, Fresh(old), Within(old), NEW triggered
  PROVE  Fresh(Router!AutoLoad(old, triggered)) /\ Within(Router!AutoLoad(old, triggered))
  <1> DEFINE Step(st, i) == IF Bundles[i] \in triggered THEN Router!RequestLoad(st, Bundles[i]) ELSE st
             Run(f, n) == f = [i \in 0 .. n |-> IF i = 0 THEN old ELSE Step(f[i - 1], i)]
             n == Len(Bundles)
  <1>1. n \in Nat /\ \A i \in 1 .. n : Bundles[i] \in Router!Names
    BY DEF Bounds, Listing
  <1>2. \A m \in Nat : \E f : Run(f, m)
    <2> DEFINE without == {m \in Nat : ~ \E f : Run(f, m)}
    <2>1. SUFFICES ASSUME without # {} PROVE FALSE
      OBVIOUS
    <2>2. PICK m \in without : \A k \in without : m <= k
      <3>1. without \in SUBSET Nat
        OBVIOUS
      <3> HIDE DEF without
      <3> QED
        BY <2>1, <3>1, FirstOf
    <2> HIDE DEF Step
    <2>3. m # 0
      <3>1. Run([i \in 0 .. 0 |-> old], 0)
        OBVIOUS
      <3> QED
        BY <3>1, <2>2
    <2>4. PICK f : Run(f, m - 1)
      <3> DEFINE k == m - 1
      <3>1. k \in Nat /\ ~(m <= k)
        BY <2>2, <2>3
      <3> HIDE DEF k
      <3>2. \E f : Run(f, k)
        BY <2>2, <3>1
      <3> QED
        BY <3>2 DEF k
    <2> DEFINE g == [i \in 0 .. m |-> IF i = m THEN Step(f[m - 1], m) ELSE f[i]]
    <2>5. m \in Nat /\ f = [i \in 0 .. m - 1 |-> IF i = 0 THEN old ELSE Step(f[i - 1], i)]
      BY <2>2, <2>4
    <2>6. \A i \in 0 .. m : g[i] = IF i = 0 THEN old ELSE Step(g[i - 1], i)
      <3> SUFFICES ASSUME NEW i \in 0 .. m PROVE g[i] = IF i = 0 THEN old ELSE Step(g[i - 1], i)
        OBVIOUS
      <3>1. CASE i = m
        <4>1. g[m] = Step(f[m - 1], m) /\ g[m - 1] = f[m - 1]
          BY <2>3, <2>5
        <4> HIDE DEF g
        <4> QED
          BY <4>1, <3>1, <2>3
      <3>2. CASE i # m
        <4>1. i \in 0 .. m - 1 /\ g[i] = f[i]
          BY <2>5, <3>2
        <4>2. i # 0 => g[i - 1] = f[i - 1]
          BY <4>1, <2>5
        <4>3. f[i] = IF i = 0 THEN old ELSE Step(f[i - 1], i)
          BY <4>1, <2>5
        <4> HIDE DEF g
        <4> QED
          BY <4>1, <4>2, <4>3
      <3> QED
        BY <3>1, <3>2
    <2>7. g = [i \in 0 .. m |-> g[i]]
      OBVIOUS
    <2>8. Run(g, m)
      <3> HIDE DEF g
      <3> QED
        BY <2>6, <2>7
    <2> QED
      BY <2>2, <2>8
  <1> DEFINE after == CHOOSE f : Run(f, n)
  <1>3. Router!AutoLoad(old, triggered) = after[n]
    BY DEF Router!AutoLoad
  <1>4. Run(after, n)
    BY <1>1, <1>2
  <1> HIDE DEF after
  <1> DEFINE bad == {i \in 0 .. n : ~(Fresh(after[i]) /\ Within(after[i]))}
  <1>5. bad = {}
    <2>1. SUFFICES ASSUME bad # {} PROVE FALSE
      OBVIOUS
    <2>2. PICK i \in bad : \A k \in bad : i <= k
      <3>1. bad \in SUBSET Nat
        BY <1>1
      <3> HIDE DEF bad
      <3> QED
        BY <2>1, <3>1, FirstOf
    <2> HIDE DEF Step
    <2>3. i \in 0 .. n /\ ~(Fresh(after[i]) /\ Within(after[i]))
      BY <2>2
    <2>4. after[i] = IF i = 0 THEN old ELSE Step(after[i - 1], i)
      BY <2>3, <1>4
    <2>5. i # 0
      BY <2>3, <2>4
    <2>6. i - 1 \in 0 .. n /\ i - 1 \notin bad /\ i \in 1 .. n
      BY <1>1, <2>2, <2>3, <2>5
    <2>7. Fresh(after[i - 1]) /\ Within(after[i - 1])
      BY <2>6
    <2>8. Fresh(Step(after[i - 1], i)) /\ Within(Step(after[i - 1], i))
      BY <1>1, <2>6, <2>7, FreshIsClean, RequestLoadIs DEF Step
    <2> QED
      BY <2>3, <2>4, <2>5, <2>8
  <1>6. Fresh(after[n]) /\ Within(after[n])
    BY <1>1, <1>5
  <1> QED
    BY <1>3, <1>6


-----------------------------------------------------------------------------
RouterInv == RouterTypes /\ Clean(router) /\ Router!Sound

LEMMA WithinIs == Within(router) <=> (router.loaded \ AlwaysLoad # {} => Router!Cardinality(router.active) <= CapOf[router.model])
  BY SizeIs DEF Within

LEMMA RouterBounds == ASSUME Listing, RouterInv PROVE Bounds
  BY DEF RouterInv, RouterTypes, Bounds

\* A handler that leaves a fresh state, and one that answers that it is done, within the cap.
LEMMA HandledKeeps ==
  ASSUME RouterInv, UNCHANGED <<registered, excluded>>, Fresh(router'), reply'.answer \in {"none", "done"},
         reply'.answer = "done" => Within(router')
  PROVE  RouterInv'
  <1>1. RouterTypes' /\ Clean(router')
    BY FreshIsClean DEF RouterInv, RouterTypes, Fresh
  <1>2. Clean(router)' 
    BY <1>1 DEF Clean
  <1>3. router'.active \intersect excluded' = {}
    BY DEF Fresh
  <1>4. reply'.answer = "done" /\ router'.loaded \ AlwaysLoad # {} => Router!Cardinality(router'.active) <= CapOf[router'.model]
    BY SizeIs DEF Within
  <1>5. Router!Sound'
    BY <1>3, <1>4 DEF Router!Sound, Router!ExclusionsHold, Router!LoadsTruthful, Router!WithinCap
  <1> QED
    BY <1>1, <1>2, <1>5 DEF RouterInv

\* What the user, extensions and Pi do between two handlers.
LEMMA ChangedKeeps ==
  ASSUME RouterTypes', Clean(router)', reply' = Router!Quiet
  PROVE  RouterInv'
  BY DEF RouterInv, Router!Quiet, Router!Sound, Router!ExclusionsHold, Router!LoadsTruthful, Router!WithinCap

LEMMA RouterInit == ASSUME Listing, Router!Init PROVE RouterInv
  <1>1. router \in Routers /\ router.eligible = {} /\ router.indirect = {}
    BY DEF Router!Init, Routers
  <1> QED
    BY <1>1 DEF Router!Init, Router!Quiet, RouterInv, RouterTypes, Clean, Router!Sound, Router!ExclusionsHold,
                Router!LoadsTruthful, Router!WithinCap

LEMMA ModelSelectKeeps == ASSUME Listing, RouterInv, NEW m \in Models, Router!ModelSelect(m) PROVE RouterInv'
  <1> DEFINE st == [router EXCEPT !.model = m]
  <1>1. st \in Routers /\ Clean(st)
    BY DEF RouterInv, RouterTypes, Routers, Clean
  <1>2. /\ router' = Router!Applied(Router!DefaultLoadout(Router!Refreshed(st)))
        /\ reply'.answer = "done" /\ UNCHANGED <<registered, excluded>>
    BY DEF Router!ModelSelect, Router!Quiet
  <1> HIDE DEF st
  <1>3. Fresh(router') /\ Within(router')
    BY <1>1, <1>2, RouterBounds, RefreshIsFresh, LoadoutIs, AppliedIsFresh
  <1> QED
    BY <1>2, <1>3, HandledKeeps

LEMMA PromptKeeps == ASSUME Listing, RouterInv, Router!Prompt PROVE RouterInv'
  <1> DEFINE st == Router!Applied(Router!Refreshed(router))
  <1>1. PICK triggered \in SUBSET (Router!Names \ st.loaded), b \in Router!Names \union {"none"} :
          router' = IF b = "none" THEN Router!AutoLoad(st, triggered) ELSE Router!Mention(Router!AutoLoad(st, triggered), b)
    BY DEF Router!Prompt
  <1>2. reply'.answer = "done" /\ UNCHANGED <<registered, excluded>>
    BY DEF Router!Prompt, Router!Quiet
  <1>3. Fresh(st) /\ Within(st)
    BY RouterBounds, RefreshIsFresh, AppliedIsFresh DEF RouterInv, RouterTypes
  <1> HIDE DEF st
  <1> DEFINE auto == Router!AutoLoad(st, triggered)
  <1>4. Fresh(auto) /\ Within(auto)
    BY <1>3, RouterBounds, AutoLoadIs
  <1> HIDE DEF auto
  <1>5. ASSUME b \in Router!Names PROVE Fresh(Router!Mention(auto, b)) /\ Within(Router!Mention(auto, b))
    BY <1>4, <1>5, RouterBounds, FreshIsClean, RequestLoadIs DEF Router!Mention
  <1>6. Fresh(router') /\ Within(router')
    BY <1>1, <1>4, <1>5 DEF auto
  <1> QED
    BY <1>2, <1>6, HandledKeeps

LEMMA LoadKeeps == ASSUME Listing, RouterInv, NEW b \in Router!Names, Router!Load(b) PROVE RouterInv'
  <1> DEFINE st == Router!Refreshed(router)
             done == Router!Loadable(st, b) /\ b \in router'.loaded /\ ToolsOf[b] \subseteq router'.active
  <1>1. /\ router' = IF Router!Loadable(st, b) THEN Router!Applied(Router!Requested(st, b)) ELSE st
        /\ reply' = [answer |-> IF done THEN "ok" ELSE "refused", bundle |-> b, lost |-> st.loaded \ router'.loaded]
        /\ UNCHANGED <<registered, excluded>>
    BY DEF Router!Load, Router!RequestLoad
  <1>2. Fresh(st) /\ Bounds
    BY RouterBounds, RefreshIsFresh DEF RouterInv, RouterTypes
  <1> HIDE DEF st
  <1>3. CASE Router!Loadable(st, b)
    <2>1. /\ Fresh(router') /\ b \in router'.loaded /\ ToolsOf[b] \subseteq router'.active
          /\ Cardinality(router'.active) <= CapOf[router'.model]
      BY <1>1, <1>2, <1>3, LoadSucceeds
    <2>2. reply'.answer = "ok" /\ Router!Cardinality(router'.active) <= CapOf[router'.model]
      BY <1>1, <1>3, <2>1, SizeIs
    <2>3. RouterTypes' /\ Clean(router)' /\ router'.active \intersect excluded' = {}
      BY <1>1, <2>1 DEF RouterInv, RouterTypes, Fresh, Clean
    <2> QED
      BY <2>2, <2>3 DEF RouterInv, Router!Sound, Router!ExclusionsHold, Router!LoadsTruthful, Router!WithinCap
  <1>4. CASE ~Router!Loadable(st, b)
    <2>1. Fresh(router') /\ reply'.answer = "refused" /\ reply'.lost = {}
      BY <1>1, <1>2, <1>4
    <2>2. RouterTypes' /\ Clean(router)' /\ router'.active \intersect excluded' = {}
      BY <1>1, <2>1 DEF RouterInv, RouterTypes, Fresh, Clean
    <2> QED
      BY <2>1, <2>2 DEF RouterInv, Router!Sound, Router!ExclusionsHold, Router!LoadsTruthful, Router!WithinCap
  <1> QED
    BY <1>3, <1>4

LEMMA UnloadKeeps == ASSUME Listing, RouterInv, NEW b \in Router!Names, Router!Unload(b) PROVE RouterInv'
  <1> DEFINE st == Router!Refreshed(router)
  <1>1. /\ router' = IF b \in AlwaysLoad THEN st ELSE Router!Applied(Router!Without(st, {b}))
        /\ reply'.answer = (IF b \in AlwaysLoad THEN "none" ELSE "done") /\ UNCHANGED <<registered, excluded>>
    BY DEF Router!Unload, Router!Quiet
  <1>2. Fresh(st) /\ Bounds
    BY RouterBounds, RefreshIsFresh DEF RouterInv, RouterTypes
  <1> HIDE DEF st
  <1>3. Fresh(Router!Without(st, {b}))
    BY <1>2, WithoutIs, SameViewFresh DEF Fresh
  <1>4. Fresh(router') /\ (reply'.answer = "done" => Within(router'))
    BY <1>1, <1>2, <1>3, AppliedIsFresh
  <1> QED
    BY <1>1, <1>4, HandledKeeps

LEMMA ResetKeepsCap == ASSUME Listing, RouterInv, Router!Reset PROVE RouterInv'
  <1> DEFINE st == Router!Refreshed(router)
             mid == Router!Without(st, Router!Names)
  <1>1. /\ router' = Router!Applied(Router!DefaultLoadout(mid))
        /\ reply'.answer = "done" /\ UNCHANGED <<registered, excluded>>
    BY DEF Router!Reset, Router!Quiet
  <1>2. Fresh(st) /\ Bounds
    BY RouterBounds, RefreshIsFresh DEF RouterInv, RouterTypes
  <1> HIDE DEF st
  <1>3. Fresh(mid)
    BY <1>2, WithoutIs, SameViewFresh DEF Fresh
  <1> HIDE DEF mid
  <1>4. Fresh(router') /\ Within(router')
    BY <1>1, <1>2, <1>3, LoadoutIs, AppliedIsFresh
  <1> QED
    BY <1>1, <1>4, HandledKeeps

LEMMA ListKeeps == ASSUME Listing, RouterInv, Router!ListBundles PROVE RouterInv'
  <1>1. router' = Router!Refreshed(router) /\ reply'.answer = "none" /\ UNCHANGED <<registered, excluded>>
    BY DEF Router!ListBundles, Router!Quiet
  <1>2. Fresh(router')
    BY <1>1, RouterBounds, RefreshIsFresh DEF RouterInv, RouterTypes
  <1> QED
    BY <1>1, <1>2, HandledKeeps

LEMMA SelectsKeeps ==
  ASSUME RouterInv, NEW selection \in SUBSET Tools, Router!UserSelects(selection)
  PROVE  RouterInv'
  <1>1. /\ router' = [router EXCEPT !.active = selection] /\ registered' = registered
        /\ excluded' = (excluded \union ((router.observed \intersect registered) \ Deferred)) \ selection
        /\ reply' = Router!Quiet
    BY DEF Router!UserSelects
  <1>2. RouterTypes' /\ Clean(router)'
    BY <1>1 DEF RouterInv, RouterTypes, Routers, Clean
  <1> QED
    BY <1>1, <1>2, ChangedKeeps

LEMMA RegistersKeeps == ASSUME RouterInv, NEW t \in Tools, Router!Registers(t) PROVE RouterInv'
  <1>1. /\ router' = [router EXCEPT !.active = router.active \union {t}] \/ router' = router
        /\ t \notin registered /\ registered' = registered \union {t} /\ excluded' = excluded /\ reply' = Router!Quiet
    BY DEF Router!Registers
  <1>2. RouterTypes' /\ Clean(router)'
    BY <1>1 DEF RouterInv, RouterTypes, Routers, Clean
  <1> QED
    BY <1>1, <1>2, ChangedKeeps

LEMMA UnregistersKeeps == ASSUME RouterInv, NEW t \in Tools, Router!Unregisters(t) PROVE RouterInv'
  <1>1. /\ router' = [router EXCEPT !.active = router.active \ {t}]
        /\ registered' = registered \ {t} /\ excluded' = excluded \ {t} /\ reply' = Router!Quiet
    BY DEF Router!Unregisters
  <1>2. RouterTypes' /\ Clean(router)'
    BY <1>1 DEF RouterInv, RouterTypes, Routers, Clean
  <1> QED
    BY <1>1, <1>2, ChangedKeeps

LEMMA ActivatesKeeps == ASSUME RouterInv, NEW t \in Tools, Router!PiActivates(t) PROVE RouterInv'
  <1>1. /\ router' = [router EXCEPT !.active = router.active \union {t}]
        /\ registered' = registered /\ excluded' = excluded \ {t} /\ reply' = Router!Quiet
    BY DEF Router!PiActivates
  <1>2. RouterTypes' /\ Clean(router)'
    BY <1>1 DEF RouterInv, RouterTypes, Routers, Clean
  <1> QED
    BY <1>1, <1>2, ChangedKeeps

LEMMA RouterStep == ASSUME Listing, RouterInv, [Router!Next]_Router!vars PROVE RouterInv'
  <1>1. CASE Router!Next
    BY <1>1, ModelSelectKeeps, PromptKeeps, LoadKeeps, UnloadKeeps, ResetKeepsCap, ListKeeps, SelectsKeeps,
       RegistersKeeps, UnregistersKeeps, ActivatesKeeps DEF Router!Next
  <1>2. CASE UNCHANGED Router!vars
    BY <1>2 DEF Router!vars, RouterInv, RouterTypes, Clean, Router!Sound, Router!ExclusionsHold,
                Router!LoadsTruthful, Router!WithinCap
  <1> QED
    BY <1>1, <1>2

\* integration-bundles, for any list of bundles, tools, models and caps and any number of changes:
\* what the user deselected stays inactive through every handler, a successful load is within the
\* cap and a refused one takes no bundle away, and no handler leaves more tools than the cap while
\* a bundle that is not pinned is loaded.
THEOREM ToolsStayChosen == ASSUME Listing PROVE Router!Spec => []Router!Sound
  <1>1. Router!Init => RouterInv
    BY RouterInit
  <1>2. RouterInv /\ [Router!Next]_Router!vars => RouterInv'
    BY RouterStep
  <1>3. RouterInv => Router!Sound
    BY DEF RouterInv
  <1> QED
    BY <1>1, <1>2, <1>3, PTL DEF Router!Spec
===============================================================================
