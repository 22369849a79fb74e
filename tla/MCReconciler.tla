---------------------------- MODULE MCReconciler ----------------------------
(***************************************************************************)
(* Instances of Reconciler for TLC.                                        *)
(***************************************************************************)
EXTENDS Reconciler, TLC

CONSTANTS e1, e2, e3, i1, w1

StopThenRecover == (e1 :> "STOP") @@ (e2 :> "RECOVER")

\* A stop, another one after the instance runs again, and a recovery.
StopTwiceThenRecover == (e1 :> "STOP") @@ (e2 :> "STOP") @@ (e3 :> "RECOVER")

SameStops == Permutations({e1, e2})

=============================================================================
