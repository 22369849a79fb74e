----------------------------- MODULE Decisions -----------------------------
(***************************************************************************)
(* From a budget notification to the instances it is about, as pure        *)
(* functions: event.js (parsing and source), policy.js (the decision),     *)
(* compute.js (the selection), the plan mode of handler.js, and what       *)
(* control/service.js makes of the same data for the operator.             *)
(*                                                                         *)
(* A JSON value is a record of its kind and, where Number() reads one from *)
(* it, the number.                                                         *)
(* Ratios are integers in units of 1/Scale.                                *)
(***************************************************************************)
EXTENDS Integers, FiniteSets

CONSTANTS
  Instances,
  OutOfScope,    \* instances in a zone that is not allowed, or excluded by name
  Threshold,     \* thresholdRatio * Scale
  Scale,
  BudgetLimit,   \* the limit for a notification without a budget amount
  MaxActions,    \* maxActionsPerEvent
  Recovery,      \* enableAutomaticRecovery
  MaxEventAge,   \* maxEventAgeSeconds
  ClockSkew      \* how far a publish time may lie in the future (300 seconds)

ASSUME ConfigAssumption ==
  /\ OutOfScope \subseteq Instances /\ IsFiniteSet(Instances)
  /\ Threshold \in Nat \ {0} /\ Scale \in Nat \ {0} /\ BudgetLimit \in Nat \ {0}
  /\ MaxActions \in Nat \ {0} /\ Recovery \in BOOLEAN
  /\ MaxEventAge \in Nat /\ ClockSkew \in Nat

\* A "numeral" is anything else that Number() reads a number from, as the text "120";
\* "blank" is what it takes for zero, as a text of spaces, false and the empty array;
\* "text" is what it makes NaN of.
Kinds == {"absent", "null", "empty", "blank", "numeral", "text", "number"}

JsonValues == [kind : Kinds, n : Int]

Absent == [kind |-> "absent", n |-> 0]

IsNumber(n) == [kind |-> "number", n |-> n]

\* finiteNumber: Number() finds no number in a value that is not there and in other
\* text, and takes null, the empty string and blanks for zero.
Finite(value) == value.kind \notin {"absent", "text"}

\* The value tells a number itself.
Numeric == {"number", "numeral"}

Measured(value) == value.kind \in Numeric

NumberOf(value) == IF Measured(value) THEN value.n ELSE 0

\* optionalFiniteNumber: null and the empty string count as not given.
Given(value) == value.kind \notin {"absent", "null", "empty"}

\* parseBudgetEvent, when it does not throw.
Parses(payload) ==
  /\ Finite(payload.cost) /\ NumberOf(payload.cost) >= 0
  /\ \A value \in {payload.budget, payload.forecast} : Given(value) => Finite(value)
  /\ Given(payload.budget) => NumberOf(payload.budget) > 0

\* Mutant of FromSource: a notification of any age.
FromSourceAnyAge(payload, now) == payload.published - now <= ClockSkew

\* validateEventSource: the age, for a notification of the budget and its currency.
FromSource(payload, now) ==
  now - payload.published <= MaxEventAge /\ payload.published - now <= ClockSkew

LimitOf(payload) == IF Given(payload.budget) THEN NumberOf(payload.budget) ELSE BudgetLimit

CostReached(payload) == NumberOf(payload.cost) * Scale >= Threshold * LimitOf(payload)

\* The alert and the forecast of the notification, which is the larger of the two.
ForecastReached(payload) == Given(payload.forecast) /\ NumberOf(payload.forecast) >= Threshold

\* evaluateBudgetPolicy.
DecisionFor(payload) ==
  IF CostReached(payload) \/ ForecastReached(payload) THEN "STOP"
  ELSE IF Recovery THEN "RECOVER" ELSE "NO_ACTION"

Inventories ==
  [Instances -> [status : {"RUNNING", "TERMINATED"}, managed : BOOLEAN, protected : BOOLEAN]]

\* selectManagedInstances.
Selected(inventory, status) ==
  {i \in Instances : /\ inventory[i].status = status
                     /\ inventory[i].managed /\ ~inventory[i].protected
                     /\ i \notin OutOfScope}

\* enforceActionLimit.
WithinLimit(plan) == Cardinality(plan) <= MaxActions

-----------------------------------------------------------------------------
(* What the operator is told.                                              *)

\* previewBudget: the instances that executePlan announces for a body that is dated now.
PreviewBudget(payload, inventory, now) ==
  IF /\ Parses(payload) /\ FromSource([payload EXCEPT !.published = now], now)
     /\ DecisionFor(payload) = "STOP" /\ WithinLimit(Selected(inventory, "RUNNING"))
  THEN Selected(inventory, "RUNNING")
  ELSE {}

\* Mutant of ScopeReason: the labels are looked at in another order.
ScopeReasonUnprotected(instance, i) ==
  IF ~instance.managed THEN "Not under budget protection"
  ELSE IF i \in OutOfScope THEN "Not allowed or excluded"
  ELSE "May stop at threshold"

\* describeInstance.
ScopeReason(instance, i) ==
  IF ~instance.managed THEN "Not under budget protection"
  ELSE IF instance.protected THEN "Marked never stop"
  ELSE IF i \in OutOfScope THEN "Not allowed or excluded"
  ELSE "May stop at threshold"

\* Mutant of ThresholdShown: the limit of the policy for every notification.
ThresholdOfPolicy(payload) == BudgetLimit * Threshold

\* summarizeBudget: thresholdAmount, in units of 1/Scale, of the latest notification.
ThresholdShown(payload) ==
  (IF NumberOf(payload.budget) # 0 THEN NumberOf(payload.budget) ELSE BudgetLimit) * Threshold

=============================================================================
