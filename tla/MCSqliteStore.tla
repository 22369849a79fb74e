--------------------------- MODULE MCSqliteStore ---------------------------
(***************************************************************************)
(* Instances of SqliteStore for TLC.                                       *)
(***************************************************************************)
EXTENDS SqliteStore, TLC

CONSTANTS e1, e2, i1

\* A stop followed, in whatever order they arrive, by a recovery.
StopThenRecover == (e1 :> "STOP") @@ (e2 :> "RECOVER")

=============================================================================
