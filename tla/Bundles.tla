------------------------------- MODULE Bundles -------------------------------
(***************************************************************************)
(* Which tools of a session are active: extensions/integration-bundles.    *)
(* The router infers what it may activate from what it finds active (there *)
(* is no record of what the user excluded), hides the tools of bundles     *)
(* that are not loaded, and evicts bundles to stay within the model's cap. *)
(*                                                                         *)
(* Between two of its handlers the user selects tools, extensions register *)
(* and unregister them, and Pi activates a deferred tool that was found by *)
(* a discovery tool.  Each pattern of a bundle names one tool.             *)
(***************************************************************************)
EXTENDS Naturals, Sequences, FiniteSets

CONSTANTS Tools,
          Discovery,    \* tools that reach the deferred ones
          Deferred,
          Bundles,      \* in the order of the list
          ToolsOf,      \* bundle -> tools
          Pinned,       \* always_load
          Models, LoadsOf, CapOf, \* model -> model_always_load, and the cap
          MaxChanges    \* bound on what users, extensions and Pi change

VARIABLES
  registered,
  router,     \* its state, with Pi's active set
  excluded,   \* deselected by the user while the router had them active, and not selected since
  changes,
  reply       \* the latest answer: "none", "ok", "refused" or "done"; its bundle; what it unloaded

vars == <<registered, router, excluded, changes, reply>>

Names == {Bundles[i] : i \in DOMAIN Bundles}
Before(a, b) == \E i, j \in DOMAIN Bundles : i < j /\ Bundles[i] = a /\ Bundles[j] = b
Quiet == [answer |-> "none", bundle |-> "none", lost |-> {}]

Init ==
  /\ registered = Tools /\ excluded = {} /\ changes = 0 /\ reply = Quiet
  /\ \E a \in {Tools, Tools \ Deferred}, m \in Models :
       router = [active |-> a, started |-> FALSE, model |-> m,
                 eligible |-> {}, manual |-> {}, known |-> {}, indirect |-> {}, observed |-> {},
                 loaded |-> {},
                 older |-> {},       \* <<a, b>>: of two loaded bundles, a has the lower loadedAt
                 default |-> {}]     \* loaded bundles whose source is "default"

-----------------------------------------------------------------------------
\* isEligible, computeDesiredActiveSet: what should be active with the bundles in b loaded.
Eligible(st) == (st.eligible \union st.indirect) \cap registered
InBundles == UNION {ToolsOf[b] : b \in Names}

Desired(st, b) ==
  (st.eligible \cap registered \cap ((Tools \ InBundles) \union st.manual))
  \union UNION {ToolsOf[n] \cap Eligible(st) : n \in b}

Fits(st, b) == Cardinality(Desired(st, b)) <= CapOf[st.model]

\* unavailableReason.
Available(st, b) == ToolsOf[b] \subseteq st.known /\ ToolsOf[b] \subseteq Eligible(st)

Without(st, names) ==
  [st EXCEPT !.loaded = @ \ names, !.default = @ \ names,
             !.older = {p \in @ : p[1] \notin names /\ p[2] \notin names}]

\* What is left when, of the loaded bundles, the oldest that are neither pinned nor in kept
\* give way until the rest fits.
Evict(st, kept) ==
  LET evictable == st.loaded \ (Pinned \union kept)
      oldest == {gone \in SUBSET evictable :
                   \A p \in st.older : p[2] \in gone /\ p[1] \in evictable => p[1] \in gone}
      enough == {gone \in oldest : Fits(st, st.loaded \ gone)}
  IN Without(st, IF enough = {} THEN evictable
                 ELSE CHOOSE gone \in enough : \A more \in enough : Cardinality(gone) <= Cardinality(more))

\* loadBundle for each of these names.
LoadBundles(st, names) ==
  LET new == {b \in (names \cap Names) \ st.loaded : Available(st, b)} IN
  [st EXCEPT !.loaded = @ \union new, !.default = @ \union new,
             !.older = @ \union (st.loaded \X new) \union {p \in new \X new : Before(p[1], p[2])}]

\* refreshPolicy.
Refreshed(st) ==
  LET indirect == IF Discovery \cap st.active # {} THEN Deferred \cap registered ELSE {}
      removed == (st.observed \cap registered) \ st.active # {}
      added == (st.active \cap (st.known \ st.observed)) \ (Discovery \union indirect) # {}
      kept == {n \in st.eligible \cap registered : removed \/ added => n \in st.active}
      chosen == (st.manual \union (st.known \ st.observed)) \cap st.active
  IN LoadBundles([st EXCEPT !.started = TRUE, !.known = registered, !.observed = st.active,
                            !.indirect = indirect, !.eligible = kept \union st.active,
                            !.manual = IF st.started THEN chosen ELSE {}],
                 Pinned)

\* applyActiveSet, with enforceModelCap.
Applied(st) ==
  LET left == Evict(st, {})
      desired == Desired(st, left.loaded)
  IN [left EXCEPT !.active = desired, !.observed = desired]

\* applyDefaultLoadout.
DefaultLoadout(st) ==
  LET names == Pinned \union LoadsOf[st.model] IN
  LoadBundles(Without(st, st.default \ names), names)

\* requestLoad for b, from the state that a refresh leaves: the others that give way to it.
Requested(st, b) ==
  Evict([Without(st, {b}) EXCEPT !.loaded = @ \union {b}, !.older = @ \union ((st.loaded \ {b}) \X {b})], {b})
Loadable(st, b) == Available(st, b) /\ Fits(st, Requested(st, b).loaded)

RequestLoad(old, b) ==
  LET st == Refreshed(old) IN IF Loadable(st, b) THEN Applied(Requested(st, b)) ELSE st

\* autoLoadByTriggers: the bundles that were not loaded when the loop began, each in turn.
AutoLoad(old, triggered) ==
  LET after[i \in 0 .. Len(Bundles)] ==
        IF i = 0 THEN old
        ELSE IF Bundles[i] \in triggered THEN RequestLoad(after[i - 1], Bundles[i]) ELSE after[i - 1]
  IN after[Len(Bundles)]

\* autoLoadBySkillMention: a bundle that a mentioned skill requires, unless it is loaded by now.
Mention(st, b) == IF b \in st.loaded THEN st ELSE RequestLoad(st, b)

-----------------------------------------------------------------------------
\* session_start and model_select.
ModelSelect(m) ==
  /\ router' = Applied(DefaultLoadout(Refreshed([router EXCEPT !.model = m])))
  /\ reply' = [Quiet EXCEPT !.answer = "done"] /\ UNCHANGED <<registered, excluded, changes>>

\* before_agent_start: a prompt may match the triggers of any bundles, and mention a skill
\* that requires one (model_select told of the session's model before).
Prompt ==
  /\ router.started
  /\ LET st == Applied(Refreshed(router)) IN
     \E triggered \in SUBSET (Names \ st.loaded), b \in Names \union {"none"} :
       router' = IF b = "none" THEN AutoLoad(st, triggered) ELSE Mention(AutoLoad(st, triggered), b)
  /\ reply' = [Quiet EXCEPT !.answer = "done"] /\ UNCHANGED <<registered, excluded, changes>>

\* enterprise_load_bundle and /bundles load.
Load(b) ==
  /\ router.started /\ router' = RequestLoad(router, b)
  /\ LET st == Refreshed(router)
         done == Loadable(st, b) /\ b \in router'.loaded /\ ToolsOf[b] \subseteq router'.active
     IN reply' = [answer |-> IF done THEN "ok" ELSE "refused", bundle |-> b,
                  lost |-> st.loaded \ router'.loaded]
  /\ UNCHANGED <<registered, excluded, changes>>

\* enterprise_unload_bundle and /bundles unload.
Unload(b) ==
  /\ router.started
  /\ router' = IF b \in Pinned THEN Refreshed(router)
                ELSE Applied(Without(Refreshed(router), {b}))
  /\ reply' = [Quiet EXCEPT !.answer = IF b \in Pinned THEN "none" ELSE "done"]
  /\ UNCHANGED <<registered, excluded, changes>>

\* /bundles reset.
Reset ==
  /\ router.started
  /\ router' = Applied(DefaultLoadout(Without(Refreshed(router), Names)))
  /\ reply' = [Quiet EXCEPT !.answer = "done"] /\ UNCHANGED <<registered, excluded, changes>>

\* enterprise_list_bundles and /bundles status: what they read is refreshed.
ListBundles ==
  /\ router.started /\ router' = Refreshed(router) /\ reply' = Quiet
  /\ UNCHANGED <<registered, excluded, changes>>

-----------------------------------------------------------------------------
Changed == changes < MaxChanges /\ changes' = changes + 1

\* The user, or another extension, selects the active tools.
UserSelects(selection) ==
  /\ router.started /\ selection \subseteq registered
  /\ router' = [router EXCEPT !.active = selection]
  /\ excluded' = (excluded \union ((router.observed \cap registered) \ Deferred)) \ selection
  /\ reply' = Quiet /\ Changed /\ UNCHANGED registered

\* A tool is registered, which activates it or not, or unregistered.
Registers(t) ==
  /\ router.started /\ t \notin registered /\ registered' = registered \union {t}
  /\ \E a \in BOOLEAN : router' = IF a THEN [router EXCEPT !.active = @ \union {t}] ELSE router
  /\ reply' = Quiet /\ Changed /\ UNCHANGED excluded

Unregisters(t) ==
  /\ router.started /\ t \in registered /\ registered' = registered \ {t}
  /\ router' = [router EXCEPT !.active = @ \ {t}] /\ excluded' = excluded \ {t}
  /\ reply' = Quiet /\ Changed

\* tool_search activates a deferred tool.
PiActivates(t) ==
  /\ router.started /\ t \in registered \cap Deferred /\ router.active \cap Discovery # {}
  /\ router' = [router EXCEPT !.active = @ \union {t}] /\ excluded' = excluded \ {t}
  /\ reply' = Quiet /\ Changed /\ UNCHANGED registered

Next ==
  \/ \E m \in Models : ModelSelect(m)
  \/ Prompt
  \/ \E b \in Names : Load(b) \/ Unload(b)
  \/ Reset \/ ListBundles
  \/ \E selection \in SUBSET Tools : UserSelects(selection)
  \/ \E t \in Tools : Registers(t) \/ Unregisters(t) \/ PiActivates(t)

Spec == Init /\ [][Next]_vars

-----------------------------------------------------------------------------
\* The values the variables take.
TypeOK ==
  /\ registered \subseteq Tools /\ excluded \subseteq registered
  /\ router.active \subseteq registered /\ router.loaded \subseteq Names /\ router.model \in Models
  /\ reply.answer \in {"none", "ok", "refused", "done"}

\* refreshPolicy: a tool that the user deselected is not activated by the router, whatever
\* bundles are loaded, until the user selects it again.  (Deferred tools are no part of it: an inactive one counts
\* as selected while a discovery tool reaches it.)
ExclusionsHold == reply.answer # "none" => router.active \cap excluded = {}

\* requestLoad: a load that is answered with success is within the budget, and one that is
\* refused, be it only after it was applied, takes no bundle away.
LoadsTruthful ==
  /\ reply.answer = "ok" => Cardinality(router.active) <= CapOf[router.model]
  /\ reply.answer = "refused" => reply.lost = {}

\* enforceModelCap: a handler leaves more tools active than the cap only when no bundle
\* but the pinned ones is loaded.
WithinCap ==
  reply.answer = "done" /\ router.loaded \ Pinned # {} =>
    Cardinality(router.active) <= CapOf[router.model]

Sound == ExclusionsHold /\ LoadsTruthful /\ WithinCap
==============================================================================
