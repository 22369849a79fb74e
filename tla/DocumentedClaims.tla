-------------------------- MODULE DocumentedClaims --------------------------
(***************************************************************************)
(* Statements that the documentation makes about the worker and that the   *)
(* code does not keep in every behaviour of the model.  Each is refuted    *)
(* with a configuration of its own.                                        *)
(***************************************************************************)
EXTENDS BudgetWorkerInv

\* "Ambiguity retained for reconciliation" (docs/CRITICAL_PATH.md, stage
\* Audit): when an event is settled, an operation whose end was not recorded
\* is in the queue that the reconciliation command reviews.  Refuted: after a
\* lost response recordActionFailed overwrites STOP_INTENT with STOP_FAILED.
AmbiguityRetained ==
  \A e \in Events, i \in Instances :
    events[e].status \in Settled /\ ops[e][i] # "none"
      /\ actions[e][i] \notin {"COMPLETED", "FAILED"}
    => i \in AmbiguousInstances

\* "Manually stopped VMs ... are not eligible for automatic restart"
\* (README.md, Recovery ownership): no start is requested for an instance
\* that an operator stopped last.  Refuted: listRecoverableInstances looks at
\* the record of an older stop of the automation.
NoManualRestart ==
  [][\A e \in Events, i \in Instances :
       ops[e][i] = "none" /\ ops'[e][i] # "none" /\ ActionOf(e) = "start" =>
         vm[i].stoppedBy = "automation"]_vars

\* "Duplicate ignored; store outage retried" (docs/CRITICAL_PATH.md, stage
\* Claim): a message that is ready is settled in the end.  Refuted: when
\* failEvent fails with the store, the redelivered message meets the lease of
\* the dead attempt and is acknowledged as a duplicate.
StoreOutageRetried == EventuallySettled

\* "Operation ID and SUBMITTED state persisted: Timeout remains resumable"
\* (docs/CRITICAL_PATH.md, stage Submit): a submitted operation gets its
\* outcome recorded.  Refuted: the cooldown that another event of the same
\* decision started comes before listPendingActions, and settles the retry.
TimeoutRemainsResumable == SubmittedIsAudited

=============================================================================
