---------------------------- MODULE BudgetEvents ----------------------------
(***************************************************************************)
(* What the audit store, Compute Engine and the worker have in common: the *)
(* budget events and the instances.                                        *)
(*                                                                         *)
(* The policy decision of an event is a function of its payload and of the *)
(* worker's configuration, so DecisionOf is a constant, and with it the    *)
(* action of every request made for the event.  The action document id and *)
(* the requestId are both derived from eventId:action:instanceKey, so the  *)
(* pair <<event, instance>> stands for either.                             *)
(***************************************************************************)
EXTENDS Integers, FiniteSets

CONSTANTS
  Events,      \* event ids
  Instances,   \* instance keys, "zone/name"
  DecisionOf   \* the decision evaluateBudgetPolicy takes for each event

Decisions == {"STOP", "RECOVER", "NO_ACTION"}

ASSUME DecisionAssumption == DecisionOf \in [Events -> Decisions]

\* NO_ACTION never gets as far as an action.
ActionOf(e) == IF DecisionOf[e] = "STOP" THEN "stop" ELSE "start"

=============================================================================
