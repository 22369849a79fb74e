---------------------------- MODULE EventClaims ----------------------------
(***************************************************************************)
(* What the worker promises about the processing of budget events          *)
(* (README.md: "claims the event in Firestore so duplicate delivery is     *)
(* safe"), without leases, clocks, messages or store faults: every event   *)
(* has a lock, held by at most one invocation, and an outcome that only    *)
(* the invocation holding the lock decides.                                *)
(***************************************************************************)
CONSTANTS Events, Workers

VARIABLES
  holders,   \* the invocations that work on each event
  outcome    \* whether the event is still to be processed

claimVars == <<holders, outcome>>

Outcomes == {"open", "settled", "failed"}

ClaimsTypeOK ==
  /\ holders \in [Events -> SUBSET Workers]
  /\ outcome \in [Events -> Outcomes]

ClaimsInit ==
  /\ holders = [e \in Events |-> {}]
  /\ outcome = [e \in Events |-> "open"]

\* An event nobody works on, and that is open, is taken.
Take(w, e) ==
  /\ holders[e] = {} /\ outcome[e] = "open"
  /\ holders' = [holders EXCEPT ![e] = {w}]
  /\ UNCHANGED outcome

\* The holder decides the outcome, and is done with the event or not yet.  It
\* may take back that it settled the event, but not that it failed it.
Decide(w, e) ==
  /\ w \in holders[e] /\ outcome[e] # "failed"
  /\ \E o \in Outcomes : outcome' = [outcome EXCEPT ![e] = o]
  /\ \/ UNCHANGED holders
     \/ holders' = [holders EXCEPT ![e] = {}]

\* The holder gives up, or dies.
Release(w, e) ==
  /\ w \in holders[e]
  /\ holders' = [holders EXCEPT ![e] = {}]
  /\ UNCHANGED outcome

ClaimsNext ==
  \E w \in Workers, e \in Events : Take(w, e) \/ Decide(w, e) \/ Release(w, e)

ClaimsSpec == ClaimsInit /\ [][ClaimsNext]_claimVars

=============================================================================
