----------------------------- MODULE Reconciler -----------------------------
(***************************************************************************)
(* The reconciliation command, src/scripts/reconcile.js --apply, run by an *)
(* operator beside the worker.  It reads the inventory and the queue of    *)
(* ambiguous instances, and then, one write after the other, marks each    *)
(* instance of the queue with the state that it derives from what it read: *)
(* the worker may have gone on in between.                                 *)
(***************************************************************************)
EXTENDS BudgetWorker

CONSTANT MaxReviews   \* bound: runs of the command

ASSUME ReviewsAssumption == MaxReviews \in Nat

VARIABLES
  reviews,    \* how many runs have started
  inventory,  \* status of each instance as listed, "unread" before
  queue,      \* status of each instance to review, "unread" before, "NONE" if not in it
  lastStop    \* history: when each instance was stopped last

reviewVars == <<reviews, inventory, queue>>

Unread == [i \in Instances |-> "unread"]

ReconcilerTypeOK ==
  /\ reviews   \in 0..MaxReviews
  /\ inventory \in [Instances -> VmStatus \cup {"unread"}]
  /\ queue     \in [Instances -> ManagedStatus \cup {"unread"}]
  /\ lastStop  \in [Instances -> Nat]

ReconcilerInit ==
  /\ reviews = 0 /\ inventory = Unread /\ queue = Unread
  /\ lastStop = [i \in Instances |-> 0]

\* reconcileState.
ReconcileState(audit, status) ==
  CASE audit \in {"STOP_INTENT", "STOP_SUBMITTED"} /\ status = "TERMINATED" -> "STOP_COMPLETED"
    [] audit \in {"STOP_INTENT", "STOP_SUBMITTED"} /\ status = "RUNNING" -> "STOP_FAILED_NO_CHANGE"
    [] audit = "START_SUBMITTED" /\ status = "RUNNING" -> "START_COMPLETED"
    [] audit = "START_SUBMITTED" /\ status = "TERMINATED" -> "START_FAILED_NO_CHANGE"
    [] OTHER -> "MANUAL_REVIEW_REQUIRED"

Reviewing == reviews > 0 /\ (inventory # Unread \/ queue # Unread)

\* The two reads run side by side: Promise.all of listInstances and
\* listAmbiguousInstances.  The first of them starts a run.
Begin == reviews' = IF Reviewing THEN reviews ELSE reviews + 1

ListInventory ==
  /\ inventory = Unread
  /\ Reviewing \/ reviews < MaxReviews
  /\ Begin
  /\ inventory' = [i \in Instances |-> vm[i].status]
  /\ UNCHANGED <<vars, queue>>

\* Mutant of ListAmbiguous: the status of Compute Engine in place of the audit's.
ListAmbiguousSwapped ==
  /\ queue = Unread
  /\ Reviewing \/ reviews < MaxReviews
  /\ Begin
  /\ queue' = [i \in Instances |-> IF i \in AmbiguousInstances THEN vm[i].status ELSE "NONE"]
  /\ UNCHANGED <<vars, inventory>>

ListAmbiguous ==
  /\ queue = Unread
  /\ Reviewing \/ reviews < MaxReviews
  /\ Begin
  /\ queue' = [i \in Instances |-> IF i \in AmbiguousInstances THEN managed[i].status ELSE "NONE"]
  /\ UNCHANGED <<vars, inventory>>

BothRead == inventory # Unread /\ queue # Unread

\* Mutant of MarkManagedInstance: a stop that is found to have happened is dated.
MarkManagedDated(i) ==
  LET state == ReconcileState(queue[i], inventory[i])
  IN /\ BothRead
     /\ queue[i] # "NONE"
     /\ IF state = "STOP_COMPLETED" THEN SetStopCompleted(i, clock) ELSE SetManaged(i, state)
     /\ queue' = [queue EXCEPT ![i] = "NONE"]
     /\ UNCHANGED <<computeVars, topic, pc, job, clock, faults, reviews, inventory>>

\* markManagedInstance: a merge write of the status alone.
MarkManagedInstance(i) ==
  /\ BothRead
  /\ queue[i] # "NONE"
  /\ SetManaged(i, ReconcileState(queue[i], inventory[i]))
  /\ queue' = [queue EXCEPT ![i] = "NONE"]
  /\ UNCHANGED <<computeVars, topic, pc, job, clock, faults, reviews, inventory>>

\* The command ends, or a read or a write that fails ends it with the rest undone.
EndReview ==
  /\ Reviewing
  /\ inventory' = Unread /\ queue' = Unread
  /\ UNCHANGED <<vars, reviews>>

ReviewStep ==
  \/ ListInventory \/ ListAmbiguous
  \/ \E i \in Instances : MarkManagedInstance(i)
  \/ EndReview

ReconciledInit == Init /\ ReconcilerInit

ObserveStops ==
  lastStop' = [i \in Instances |->
                 IF vm[i].status # "TERMINATED" /\ vm'[i].status = "TERMINATED"
                 THEN clock ELSE lastStop[i]]

ReconciledNext ==
  \/ Next /\ UNCHANGED reviewVars /\ ObserveStops
  \/ ReviewStep /\ UNCHANGED lastStop

reconciledVars == <<vars, reviewVars, lastStop>>

ReconciledSpec == ReconciledInit /\ [][ReconciledNext]_reconciledVars

-----------------------------------------------------------------------------
(* Properties.                                                             *)

\* A review invents no stop: what it makes recoverable was stopped by the
\* automation at some time before (markManagedInstance leaves
\* stopCompletedAt, which listRecoverableInstances requires).
RecoverableWasStopped ==
  \A i \in RecoverableInstances(clock) :
    \E e \in Events : ActionOf(e) = "stop" /\ ops[e][i] = "done"

\* A claim of the documentation, refuted with a configuration of its own: "the recovery
\* delay must have elapsed" (README.md, Recovery ownership), that is, no start
\* is requested within RecoveryDelay of the automation's stop it undoes.  The review sets
\* STOP_COMPLETED and leaves stopCompletedAt as an earlier stop set it.
RecoveryDelayKept ==
  [][\A e \in Events, i \in Instances :
       ops[e][i] = "none" /\ ops'[e][i] # "none"
         /\ ActionOf(e) = "start" /\ vm[i].stoppedBy = "automation"
       => lastStop[i] + RecoveryDelay <= clock]_reconciledVars

=============================================================================
