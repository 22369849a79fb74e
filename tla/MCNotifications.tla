-------------------------- MODULE MCNotifications --------------------------
(***************************************************************************)
(* Instances of Notifications for TLC.                                     *)
(***************************************************************************)
EXTENDS Notifications, TLC

CONSTANTS i1, i2, i3, i4

InstanceSymmetry == Permutations(Instances \ OutOfScope)

\* A cost with the limit of the policy; one with a limit of its own and a forecast that is
\* below the threshold; and a blank, which is taken for no cost.
SomeForms ==
  {[cost |-> "numeral", budget |-> [kind |-> "null", n |-> 0], forecast |-> Absent],
   [cost |-> "number", budget |-> IsNumber(2 * BudgetLimit), forecast |-> IsNumber(Threshold - 1)],
   [cost |-> "blank", budget |-> Absent, forecast |-> Absent]}

\* As many of those in scope as one event may stop, or one more, beside those out of scope.
AboutTheLimit ==
  {OutOfScope \cup some : some \in {s \in SUBSET (Instances \ OutOfScope) :
                                    Cardinality(s) \in {MaxActions, MaxActions + 1}}}

=============================================================================
