---------------------------- MODULE GoalOwnership ----------------------------
(***************************************************************************)
(* What /self-handoff (extensions/self-handoff) promises of a durable goal *)
(* that moves from session to session: one session holds it, only that     *)
(* session runs turns for it, no turn runs while it is on offer, and it    *)
(* changes hands only to the session it is offered to.  How two session    *)
(* files, their audit records and a lock file keep the promise is the      *)
(* subject of module SelfHandoff, which implements this specification.     *)
(***************************************************************************)

CONSTANTS Sessions,
          Root,      \* the session that starts the goal
          Nobody     \* the value of offer when the goal is on offer to none

VARIABLES holder,    \* the session that owns the goal
          offer,     \* the session it is being handed to, or Nobody
          working    \* the sessions that run a turn for the goal

vars == <<holder, offer, working>>

Init == holder = Root /\ offer = Nobody /\ working = {}

Offer(s) ==
  /\ offer = Nobody /\ working = {} /\ s # holder
  /\ offer' = s
  /\ UNCHANGED <<holder, working>>

Withdraw ==
  /\ offer # Nobody
  /\ offer' = Nobody
  /\ UNCHANGED <<holder, working>>

Accept ==
  /\ offer # Nobody
  /\ holder' = offer /\ offer' = Nobody
  /\ UNCHANGED working

Start ==
  /\ offer = Nobody /\ working = {}
  /\ working' = {holder}
  /\ UNCHANGED <<holder, offer>>

Stop ==
  /\ working # {}
  /\ working' = {}
  /\ UNCHANGED <<holder, offer>>

Next == (\E s \in Sessions : Offer(s)) \/ Withdraw \/ Accept \/ Start \/ Stop

Spec == Init /\ [][Next]_vars
===============================================================================
