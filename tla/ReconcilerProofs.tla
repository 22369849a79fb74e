-------------------------- MODULE ReconcilerProofs --------------------------
(***************************************************************************)
(* The worker beside any number of reviews: what is proved of the worker   *)
(* alone holds with them, for a review changes the status of an ownership  *)
(* document and never its date.                                            *)
(***************************************************************************)
EXTENDS Reconciler, BudgetWorkerProofs

ReconciledInv == IndInv /\ ReconcilerTypeOK

\* A review writes a status that the store has, and not that of an absent document.
LEMMA ReviewedStatus ==
  ASSUME NEW audit, NEW status
  PROVE  ReconcileState(audit, status) \in ManagedStatus \ {"NONE"}
BY DEF ReconcileState, ManagedStatus

\* A write of a review keeps every date of a stop, and no document disappears.
LEMMA MarkKeepsDates ==
  ASSUME TypeOK, NEW i \in Instances, MarkManagedInstance(i)
  PROVE  /\ UNCHANGED <<events, actions, control, computeVars, topic, pc, job, clock, faults>>
         /\ managed' \in [Instances -> [status : ManagedStatus, stopCompletedAt : Nat]]
         /\ \A k \in Instances : /\ managed'[k].stopCompletedAt = managed[k].stopCompletedAt
                                 /\ managed[k].status # "NONE" => managed'[k].status # "NONE"
<1> DEFINE state == ReconcileState(queue[i], inventory[i])
<1>1. managed' = [managed EXCEPT ![i].status = state]
  BY DEF MarkManagedInstance, SetManaged
<1>2. state \in ManagedStatus /\ state # "NONE"
  BY ReviewedStatus
<1>3. managed \in [Instances -> [status : ManagedStatus, stopCompletedAt : Nat]]
  BY DEF TypeOK, StoreTypeOK
<1> HIDE DEF state
<1>4. managed' \in [Instances -> [status : ManagedStatus, stopCompletedAt : Nat]]
  BY <1>1, <1>2, <1>3
<1>5. \A k \in Instances : /\ managed'[k].stopCompletedAt = managed[k].stopCompletedAt
                           /\ managed[k].status # "NONE" => managed'[k].status # "NONE"
  BY <1>1, <1>2, <1>3
<1> QED
  BY <1>4, <1>5 DEF MarkManagedInstance, SetManaged

\* So the worker's invariant does not notice it.
LEMMA MarkKeepsInv ==
  ASSUME IndInv, NEW i \in Instances, MarkManagedInstance(i)
  PROVE  IndInv'
<1>1. TypeOK
  BY DEF IndInv
<1>2. /\ UNCHANGED <<events, actions, control, computeVars, topic, pc, job, clock, faults>>
      /\ managed' \in [Instances -> [status : ManagedStatus, stopCompletedAt : Nat]]
      /\ \A k \in Instances : /\ managed'[k].stopCompletedAt = managed[k].stopCompletedAt
                              /\ managed[k].status # "NONE" => managed'[k].status # "NONE"
  BY <1>1, MarkKeepsDates
<1>3. UNCHANGED <<vm, ops>>
  BY <1>2 DEF computeVars
<1>4. TypeOK'
  BY <1>1, <1>2, <1>3 DEF TypeOK, StoreTypeOK, ComputeTypeOK, WorkerTypeOK
<1>5. OneHolder' /\ AuditIsTrue' /\ StartsOnlyOwned'
  BY <1>2, <1>3 DEF IndInv, OneHolder, AuditIsTrue, StartsOnlyOwned, Holding
<1>6. AuditBeforeAction'
  BY <1>2, <1>3 DEF IndInv, AuditBeforeAction
<1>7. WorkerInv'
  <2> SUFFICES ASSUME NEW w \in Workers
               PROVE  InvocationInv(w)' /\ LoopInv(w)' /\ ClaimInv(w)' /\ AuditInv(w)'
    BY DEF WorkerInv
  <2>1. InvocationInv(w) /\ LoopInv(w) /\ ClaimInv(w) /\ AuditInv(w)
    BY DEF IndInv, WorkerInv
  <2>2. InvocationInv(w)' /\ LoopInv(w)' /\ ClaimInv(w)'
    BY <1>2, <2>1 DEF InvocationInv, LoopInv, ClaimInv, Lock, Holding
  <2>3. pc[w] = "submit" => job[w].on \in Instances
    BY <2>1 DEF LoopInv, LoopSteps
  <2>4. AuditInv(w)'
    BY <1>2, <1>3, <2>1, <2>3 DEF AuditInv
  <2> QED
    BY <2>2, <2>4
<1>8. OwnershipInv'
  BY <1>2, <1>3 DEF IndInv, OwnershipInv, EverStopped
<1> QED
  BY <1>4, <1>5, <1>6, <1>7, <1>8 DEF IndInv

LEMMA ReconciledInit_Inv == ReconciledInit => ReconciledInv
BY InitIndInv, ReviewsAssumption
   DEF ReconciledInit, ReconciledInv, ReconcilerInit, ReconcilerTypeOK, Unread

\* The variables of a review keep their types.
LEMMA ReviewTypes ==
  ASSUME ReconciledInv, [ReconciledNext]_reconciledVars
  PROVE  ReconcilerTypeOK'
<1> USE ReviewsAssumption DEF ReconcilerTypeOK
<1>1. /\ vm \in [Instances -> [status : VmStatus, stoppedBy : Stoppers]]
      /\ managed \in [Instances -> [status : ManagedStatus, stopCompletedAt : Nat]]
      /\ clock \in Nat
  BY DEF ReconciledInv, IndInv, TypeOK, ComputeTypeOK, StoreTypeOK, WorkerTypeOK
<1>2. CASE Next /\ UNCHANGED reviewVars /\ ObserveStops
  BY <1>1, <1>2 DEF reviewVars, ObserveStops, ReconciledInv
<1>3. ASSUME Begin, reviews < MaxReviews \/ Reviewing
      PROVE  reviews' \in 0..MaxReviews
  BY <1>3 DEF Begin, ReconciledInv
<1>4. CASE ListInventory /\ UNCHANGED lastStop
  BY <1>1, <1>3, <1>4 DEF ListInventory, ReconciledInv
<1>5. CASE ListAmbiguous /\ UNCHANGED lastStop
  BY <1>1, <1>3, <1>5 DEF ListAmbiguous, ReconciledInv, ManagedStatus
<1>6. ASSUME NEW i \in Instances, MarkManagedInstance(i), UNCHANGED lastStop
      PROVE  ReconcilerTypeOK'
  BY <1>6 DEF MarkManagedInstance, ReconciledInv, ManagedStatus
<1>7. CASE EndReview /\ UNCHANGED lastStop
  BY <1>7 DEF EndReview, Unread, ReconciledInv
<1>8. CASE UNCHANGED reconciledVars
  BY <1>8 DEF reconciledVars, reviewVars, ReconciledInv
<1> QED
  BY <1>2, <1>4, <1>5, <1>6, <1>7, <1>8 DEF ReconciledNext, ReviewStep

LEMMA ReconciledStep == ReconciledInv /\ [ReconciledNext]_reconciledVars => ReconciledInv'
<1> SUFFICES ASSUME ReconciledInv, [ReconciledNext]_reconciledVars
             PROVE  IndInv'
  BY ReviewTypes DEF ReconciledInv
<1>1. CASE [Next]_vars
  BY <1>1, StepIndInv DEF ReconciledInv
<1>2. ASSUME NEW i \in Instances, MarkManagedInstance(i) PROVE IndInv'
  BY <1>2, MarkKeepsInv DEF ReconciledInv
<1> QED
  BY <1>1, <1>2 DEF ReconciledNext, ReviewStep, ListInventory, ListAmbiguous, EndReview,
     reconciledVars

\* The invariant of the worker holds beside the reviews.
THEOREM ReconciledInvariant == ReconciledSpec => []ReconciledInv
BY ReconciledInit_Inv, ReconciledStep, PTL DEF ReconciledSpec

\* The variables of a review have their types (ReconcilerTypeOK).
THEOREM ReviewTypesCorrect == ReconciledSpec => []ReconcilerTypeOK
<1>1. ReconciledInv => ReconcilerTypeOK
  BY DEF ReconciledInv
<1> QED
  BY <1>1, ReconciledInvariant, PTL

\* Recovery ownership holds beside any number of reviews, which read before the worker
\* goes on and write after it (StartsOnlyOwned).
THEOREM ReviewedRecoveryOwned == ReconciledSpec => []StartsOnlyOwned
<1>1. ReconciledInv => StartsOnlyOwned
  BY DEF ReconciledInv, IndInv
<1> QED
  BY <1>1, ReconciledInvariant, PTL

\* A review invents no stop: what can be recovered was stopped by the automation
\* (RecoverableWasStopped).
THEOREM ReviewInventsNoStop == ReconciledSpec => []RecoverableWasStopped
<1>1. ReconciledInv => RecoverableWasStopped
  BY DEF ReconciledInv, IndInv, OwnershipInv, EverStopped, RecoverableWasStopped,
     RecoverableInstances
<1> QED
  BY <1>1, ReconciledInvariant, PTL

=============================================================================
