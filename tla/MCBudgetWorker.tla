--------------------------- MODULE MCBudgetWorker ---------------------------
(***************************************************************************)
(* Instances of BudgetWorker, and of the documented claims, for TLC.       *)
(***************************************************************************)
EXTENDS DocumentedClaims, TLC

CONSTANTS e1, e2, i1, i2, w1, w2

\* A stop followed, in whatever order they arrive, by a recovery.
StopThenRecover == (e1 :> "STOP") @@ (e2 :> "RECOVER")

TwoStops == (e1 :> "STOP") @@ (e2 :> "STOP")

StopAndNothing == (e1 :> "STOP") @@ (e2 :> "NO_ACTION")

OnlyStop == e1 :> "STOP"

Symmetry == Permutations(Workers)

=============================================================================
