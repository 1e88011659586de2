-------------------------- MODULE VerdictDelivery --------------------------
(***************************************************************************)
(* What the policy engine promises about interventions, without saying how *)
(* they are decided: a request of a session decides at most one, it is in  *)
(* the audit record before anybody is told, it stops an agent only where   *)
(* that was agreed to, it is told to its own requester, kept in the one    *)
(* slot of its session, and collected from there by at most one later      *)
(* request of the same session.  A restart may forget the slots.           *)
(***************************************************************************)
CONSTANTS
  Requests, Sessions,
  MayStop,        \* sessions of agents that opted in to being stopped
  None            \* an empty slot, nothing told

Stopping == {"block", "escalate"}
Verdicts == [action: {"nudge"} \cup Stopping, by: Requests]

VARIABLES
  home,           \* the session a request came for
  decided,        \* interventions in the audit record
  slot,           \* the intervention parked for a session
  told            \* the intervention a request was answered with

vars == <<home, decided, slot, told>>

Init ==
  /\ home = [r \in Requests |-> "none"]
  /\ decided = {}
  /\ slot = [s \in Sessions |-> None]
  /\ told = [r \in Requests |-> None]

Open(r, s) ==
  /\ home[r] = "none"
  /\ home' = [home EXCEPT ![r] = s]
  /\ UNCHANGED <<decided, slot, told>>

Decidable(r, v) ==
  /\ home[r] \in Sessions /\ told[r] = None
  /\ v.by = r /\ \A u \in decided : u.by # r
  /\ v.action \in Stopping => home[r] \in MayStop

Decide(r, v) ==
  /\ Decidable(r, v)
  /\ decided' = decided \cup {v}
  /\ UNCHANGED <<home, slot, told>>

(* Guidance at the start of a prompt is told at once and never parked. *)
Greet(r, v) ==
  /\ Decidable(r, v) /\ v.action \notin Stopping
  /\ decided' = decided \cup {v}
  /\ told' = [told EXCEPT ![r] = v]
  /\ UNCHANGED <<home, slot>>

Tell(r, v) ==
  /\ v \in decided /\ v.by = r /\ told[r] = None
  /\ \A q \in Requests : told[q] # v
  /\ told' = [told EXCEPT ![r] = v]
  /\ slot' = [slot EXCEPT ![home[r]] = v]
  /\ UNCHANGED <<home, decided>>

Collect(r, s) ==
  /\ home[r] \in {"none", s} /\ told[r] = None
  /\ slot[s] # None
  /\ home' = [home EXCEPT ![r] = s]
  /\ told' = [told EXCEPT ![r] = slot[s]]
  /\ slot' = [slot EXCEPT ![s] = None]
  /\ UNCHANGED decided

Forget ==
  /\ slot' = [s \in Sessions |-> None]
  /\ UNCHANGED <<home, decided, told>>

Next ==
  \/ \E r \in Requests, s \in Sessions : Open(r, s) \/ Collect(r, s)
  \/ \E r \in Requests, v \in Verdicts : Decide(r, v) \/ Greet(r, v) \/ Tell(r, v)
  \/ Forget

Spec == Init /\ [][Next]_vars
=============================================================================
