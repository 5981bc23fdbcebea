---------------------------- MODULE ChildProfile ----------------------------
(***************************************************************************)
(* The profile and the model a subagent runs with                          *)
(* (extensions/_shared/pi-agent-runner.ts, resolveSubagentModel and        *)
(* subagentEnv).  A model of the GPT family goes to a ChatGPT              *)
(* subscription, under whichever provider's name a profile is logged in,   *)
(* and its child never sees an API key.  The user logs in and out at any   *)
(* time; the profiles are read once for the directory and once more for    *)
(* the provider.                                                           *)
(***************************************************************************)
EXTENDS Naturals, Sequences

CONSTANTS Dirs,     \* profiles
          Default,  \* PI_CODING_AGENT_DIR
          Home,     \* ~/.pi/agent
          NoDir

Subscriptions == <<"openai", "openai-codex">>
Subscribed == {"openai", "openai-codex"}

\* A model: its provider, or "none", and whether its name is one of the GPT family.
Models == [provider : Subscribed \union {"none", "azure"}, gpt : BOOLEAN]
Unresolved == [provider |-> "none", gpt |-> FALSE]

VARIABLES
  login,  \* profile -> the providers its auth.json has an OAuth login for
  asked,  \* the model and the profile that a run asks for
  step,   \* "idle", "dir", "model" or "done"
  dir,    \* the profile it gets
  model   \* the model it gets

vars == <<login, asked, step, dir, model>>

Init ==
  /\ login \in [Dirs -> SUBSET Subscribed]
  /\ asked = [model |-> Unresolved, dir |-> NoDir]
  /\ step = "idle" /\ dir = NoDir /\ model = Unresolved

\* /login and /logout, in this or another process.
Login(d, p) ==
  /\ login' = [login EXCEPT ![d] = IF p \in @ THEN @ \ {p} ELSE @ \union {p}]
  /\ UNCHANGED <<asked, step, dir, model>>

\* gptSubscriptionProvider: the first of the names that the profile is logged in with.
LoginOf(d) ==
  LET has == {i \in DOMAIN Subscriptions : Subscriptions[i] \in login[IF d = NoDir THEN Default ELSE d]}
  IN  IF has = {} THEN "none" ELSE Subscriptions[CHOOSE i \in has : \A j \in has : i <= j]

\* gptSubscriptionAgentDir: the preferred profile, the session's own, the one at home.
Candidates(preferred) == (IF preferred = NoDir THEN <<>> ELSE <<preferred>>) \o <<Default, Home>>

SubscriptionDir(preferred) ==
  LET c == Candidates(preferred)
      at == {i \in DOMAIN c : login[c[i]] # {}}
  IN  IF at = {} THEN NoDir ELSE c[CHOOSE i \in at : \A j \in at : i <= j]

IsGptFamily(m) == m.provider = "openai-codex" \/ m.gpt

Ask(m, d) ==
  /\ step = "idle" /\ step' = "dir" /\ asked' = [model |-> m, dir |-> d]
  /\ UNCHANGED <<login, dir, model>>

\* subagentProfileForModel: without a login anywhere the profile that was asked for.
ResolveDir ==
  /\ step = "dir" /\ step' = "model"
  /\ dir' = IF IsGptFamily(asked.model) /\ SubscriptionDir(asked.dir) # NoDir
            THEN SubscriptionDir(asked.dir) ELSE asked.dir
  /\ UNCHANGED <<login, asked, model>>

\* preferGptSubscription: the provider's name is that of the login, or the old one, with
\* which a run that has no login fails.
ResolveModel ==
  /\ step = "model" /\ step' = "done"
  /\ model' = IF ~asked.model.gpt THEN asked.model
              ELSE [provider |-> IF LoginOf(dir) = "none" THEN "openai-codex" ELSE LoginOf(dir), gpt |-> TRUE]
  /\ UNCHANGED <<login, asked, dir>>

\* subagentEnv: OPENAI_API_KEY is taken from the environment of such a child.
KeyVisible(m) == m.provider \notin Subscribed

\* schedulerResourceKey: both names draw on one limit.
ResourceKey(m, limited) ==
  IF m.provider \notin Subscribed THEN m.provider
  ELSE LET named == {i \in DOMAIN Subscriptions : Subscriptions[i] \in limited}
       IN  IF named = {} THEN "openai" ELSE Subscriptions[CHOOSE i \in named : \A j \in named : i <= j]

\* The child is started with what was resolved.
Launch ==
  /\ step = "done" /\ step' = "idle"
  /\ asked' = [model |-> Unresolved, dir |-> NoDir] /\ dir' = NoDir /\ model' = Unresolved
  /\ UNCHANGED login

Next ==
  \/ ResolveDir \/ ResolveModel \/ Launch
  \/ \E m \in Models, d \in Dirs \union {NoDir} : Ask(m, d)
  \/ \E d \in Dirs, p \in Subscribed : Login(d, p)

Spec == Init /\ [][Next]_vars

-----------------------------------------------------------------------------
\* The values the variables take.
TypeOK ==
  /\ login \in [Dirs -> SUBSET Subscribed] /\ dir \in Dirs \union {NoDir} /\ model \in Models
  /\ asked \in [model : Models, dir : Dirs \union {NoDir}] /\ step \in {"idle", "dir", "model", "done"}

\* subagentEnv and preferGptSubscription ("a GPT subscription child never sees an OpenAI API
\* key"): whatever provider a model of the GPT family was asked for, and however logins
\* change between the two readings, the child has a subscription's provider and no key.
NeverByKey == step = "done" /\ IsGptFamily(asked.model) => ~KeyVisible(model)

\* schedulerResourceKey: runs that draw on one subscription wait for one pool, whichever
\* of its two names they and the limits use.
OnePool ==
  step = "done" /\ IsGptFamily(asked.model) =>
    \A limited \in SUBSET (Subscribed \union {"azure"}) :
      ResourceKey(model, limited) = ResourceKey([provider |-> "openai", gpt |-> TRUE], limited)

Sound == NeverByKey /\ OnePool
==============================================================================
