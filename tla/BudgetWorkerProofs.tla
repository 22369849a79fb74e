------------------------- MODULE BudgetWorkerProofs -------------------------
(***************************************************************************)
(* Proofs of the safety properties of BudgetWorker, for every set of       *)
(* events, instances and workers, every decision, delay, limit and bound,  *)
(* and every kind of fault; and that it implements EventClaims.            *)
(***************************************************************************)
EXTENDS BudgetWorkerInv, TLAPS

-----------------------------------------------------------------------------
(* Type correctness.                                                       *)

\* What the assumptions on the constants say.
LEMMA ConstantTypes ==
  /\ Lease \in Nat \ {0} /\ RecoveryDelay \in Nat
  /\ DecisionOf \in [Events -> Decisions]
  /\ FunctionTimeout \in Nat \ {0} /\ FunctionTimeout < Lease
  /\ MaxTime \in Nat /\ MaxFaults \in Nat
  /\ None \notin Events /\ None \notin Instances
  /\ Eligible \subseteq Instances
BY LeaseAssumption, DelayAssumption, DecisionAssumption, LimitAssumption,
   TimeoutAssumption, NoneAssumption, ScopeAssumption

\* Every writer of the store keeps the types of its documents.
LEMMA StoreWriteTypes ==
  ASSUME StoreTypeOK
  PROVE  /\ UNCHANGED storeVars => StoreTypeOK'
         /\ \A e, l, s : l \in Nat /\ s \in EventStatus /\ SetEvent(e, s, l) => StoreTypeOK'
         /\ \A e, i, s : s \in ActionStatus /\ SetAction(e, i, s) => StoreTypeOK'
         /\ \A i, s : s \in ManagedStatus /\ SetManaged(i, s) => StoreTypeOK'
         /\ \A i, t : t \in Nat /\ SetStopCompleted(i, t) => StoreTypeOK'
         /\ \A d, t : d \in Decisions /\ t \in Nat /\ UpdateControlState(d, t) => StoreTypeOK'
<1> USE DEF StoreTypeOK
<1>1. UNCHANGED storeVars => StoreTypeOK'
  BY DEF storeVars
<1>2. ASSUME NEW e, NEW l \in Nat, NEW s \in EventStatus, SetEvent(e, s, l)
      PROVE  StoreTypeOK'
  BY <1>2 DEF SetEvent
<1>3. ASSUME NEW e, NEW i, NEW s \in ActionStatus, SetAction(e, i, s)
      PROVE  StoreTypeOK'
  BY <1>3 DEF SetAction
<1>4. ASSUME NEW i, NEW s \in ManagedStatus, SetManaged(i, s)
      PROVE  StoreTypeOK'
  BY <1>4 DEF SetManaged
<1>5. ASSUME NEW i, NEW t \in Nat, SetStopCompleted(i, t)
      PROVE  StoreTypeOK'
  BY <1>5 DEF SetStopCompleted, ManagedStatus
<1>6. ASSUME NEW d \in Decisions, NEW t \in Nat, UpdateControlState(d, t)
      PROVE  StoreTypeOK'
  BY <1>6 DEF UpdateControlState
<1> QED
  BY <1>1, <1>2, <1>3, <1>4, <1>5, <1>6

\* Every way to go on keeps the types of the workers.
LEMMA ControlTypes ==
  ASSUME pc \in [Workers -> Steps], job \in [Workers -> Jobs], NEW w \in Workers
  PROVE  /\ \A s \in Steps : Goto(w, s) =>
              pc' \in [Workers -> Steps] /\ job' \in [Workers -> Jobs]
         /\ \A r \in Errors, s \in Steps : Throw(w, r, s) =>
              pc' \in [Workers -> Steps] /\ job' \in [Workers -> Jobs]
         /\ \A r \in Errors : Reject(w, r) =>
              pc' \in [Workers -> Steps] /\ job' \in [Workers -> Jobs]
         /\ \A todo \in SUBSET Instances, b \in BOOLEAN : Proceed(w, todo, b) =>
              pc' \in [Workers -> Steps] /\ job' \in [Workers -> Jobs]
         /\ \A todo \in SUBSET Instances, b \in BOOLEAN : StartPlan(w, todo, b) =>
              pc' \in [Workers -> Steps] /\ job' \in [Workers -> Jobs]
         /\ EndInvocation(w) =>
              pc' \in [Workers -> Steps] /\ job' \in [Workers -> Jobs]
<1>1. ASSUME NEW s \in Steps, Goto(w, s)
      PROVE  pc' \in [Workers -> Steps] /\ job' \in [Workers -> Jobs]
  BY <1>1 DEF Goto
<1>2. ASSUME NEW r \in Errors, NEW s \in Steps, Throw(w, r, s)
      PROVE  pc' \in [Workers -> Steps] /\ job' \in [Workers -> Jobs]
  BY <1>2 DEF Throw, NoJob, Jobs
<1>3. ASSUME NEW r \in Errors, Reject(w, r)
      PROVE  pc' \in [Workers -> Steps] /\ job' \in [Workers -> Jobs]
  BY <1>3 DEF Reject, Jobs, Steps
<1>4. ASSUME NEW todo \in SUBSET Instances, NEW b \in BOOLEAN, Proceed(w, todo, b)
      PROVE  pc' \in [Workers -> Steps] /\ job' \in [Workers -> Jobs]
  <2>1. CASE /\ pc'  = [pc EXCEPT ![w] = "control"]
             /\ job' = [job EXCEPT ![w] = [@ EXCEPT !.todo = {}, !.on = None, !.at = 0]]
    BY <2>1 DEF Jobs, Steps
  <2>2. ASSUME NEW i \in todo,
               pc'  = [pc EXCEPT ![w] = IF b THEN "wait" ELSE "intent"],
               job' = [job EXCEPT ![w] = [@ EXCEPT !.todo = todo, !.resumed = b,
                                                   !.on = i, !.at = 0]]
        PROVE  pc' \in [Workers -> Steps] /\ job' \in [Workers -> Jobs]
    <3>1. pc' \in [Workers -> Steps]
      BY <2>2 DEF Steps
    <3>2. job' \in [Workers -> Jobs]
      BY <2>2 DEF Jobs
    <3> QED
      BY <3>1, <3>2
  <2> QED
    BY <1>4, <2>1, <2>2 DEF Proceed
<1>5. ASSUME NEW todo \in SUBSET Instances, NEW b \in BOOLEAN, StartPlan(w, todo, b)
      PROVE  pc' \in [Workers -> Steps] /\ job' \in [Workers -> Jobs]
  BY <1>2, <1>4, <1>5 DEF StartPlan, Errors, Steps
<1>6. ASSUME EndInvocation(w)
      PROVE  pc' \in [Workers -> Steps] /\ job' \in [Workers -> Jobs]
  BY <1>6 DEF EndInvocation, NoJob, Jobs, Steps, Errors
<1> QED
  BY <1>1, <1>2, <1>3, <1>4, <1>5, <1>6

\* A fault is counted within its bound.
LEMMA FaultTypes ==
  ASSUME faults \in 0..MaxFaults, NEW kind, Fault(kind) \/ UNCHANGED faults
  PROVE  faults' \in 0..MaxFaults
BY ConstantTypes DEF Fault

\* The requests and the operations of Compute Engine keep its types.
LEMMA ComputeTypes ==
  ASSUME ComputeTypeOK
  PROVE  /\ UNCHANGED computeVars => ComputeTypeOK'
         /\ \A e \in Events, i \in Instances :
              Submit(e, i) \/ FinishOperation(e, i) \/ FailOperation(e, i) => ComputeTypeOK'
         /\ \A i \in Instances : OperatorStop(i) \/ OperatorStart(i) => ComputeTypeOK'
<1> USE DEF ComputeTypeOK, VmStatus, OpStatus, Stoppers
<1>1. UNCHANGED computeVars => ComputeTypeOK'
  BY DEF computeVars
<1>2. ASSUME NEW e \in Events, NEW i \in Instances, Submit(e, i)
      PROVE  ComputeTypeOK'
  <2>1. CASE UNCHANGED computeVars
    BY <1>1, <2>1
  <2>2. CASE /\ ops' = [ops EXCEPT ![e][i] = "pending"]
             /\ vm'  = [vm EXCEPT ![i] = AfterAccept(e, i)]
    <3>1. AfterAccept(e, i) \in [status : VmStatus, stoppedBy : Stoppers]
      BY DEF AfterAccept
    <3>2. vm' \in [Instances -> [status : VmStatus, stoppedBy : Stoppers]]
      BY <2>2, <3>1
    <3>3. ops' \in [Events -> [Instances -> OpStatus]]
      BY <2>2
    <3> QED
      BY <3>2, <3>3
  <2> QED
    BY <1>2, <2>1, <2>2 DEF Submit
<1>3. ASSUME NEW e \in Events, NEW i \in Instances, FinishOperation(e, i)
      PROVE  ComputeTypeOK'
  BY <1>3 DEF FinishOperation
<1>4. ASSUME NEW e \in Events, NEW i \in Instances, FailOperation(e, i)
      PROVE  ComputeTypeOK'
  BY <1>4 DEF FailOperation
<1>5. ASSUME NEW i \in Instances, OperatorStop(i) \/ OperatorStart(i)
      PROVE  ComputeTypeOK'
  BY <1>5 DEF OperatorStop, OperatorStart
<1> QED
  BY <1>1, <1>2, <1>3, <1>4, <1>5

\* The types are kept by every step of an invocation.
LEMMA WorkerStepTypes ==
  ASSUME TypeOK, NEW w \in Workers, job[w].event \in Events, WorkerStep(w)
  PROVE  TypeOK'
<1>1. /\ StoreTypeOK /\ ComputeTypeOK
      /\ pc \in [Workers -> Steps] /\ job \in [Workers -> Jobs]
      /\ topic \in [Events -> [state : MessageState, publishedAt : Nat]]
      /\ clock \in Nat \ {0} /\ faults \in 0..MaxFaults
  BY DEF TypeOK, WorkerTypeOK
<1>2. /\ job[w].now \in Nat /\ job[w].at \in Nat
      /\ job[w].todo \in SUBSET Instances /\ job[w].resumed \in BOOLEAN
      /\ job[w].error \in Errors
  BY <1>1 DEF Jobs
<1>3. ASSUME StoreTypeOK', UNCHANGED <<computeVars, topic, clock>>,
             Fault("store") \/ Fault("provider") \/ UNCHANGED faults,
             pc' \in [Workers -> Steps], job' \in [Workers -> Jobs]
      PROVE  TypeOK'
  BY <1>1, <1>3, FaultTypes, ComputeTypes DEF TypeOK, WorkerTypeOK
\* A step that writes a document, or fails to, and goes on or throws.
<1>4. ASSUME NEW s \in Steps, NEW t \in {"failEvent", "respond"}, StoreTypeOK',
             \/ Goto(w, s) /\ UNCHANGED faults
             \/ Throw(w, "retryable", t) /\ Fault("store"),
             UNCHANGED <<computeVars, topic, clock>>
      PROVE  TypeOK'
  <2>1. t \in Steps /\ "retryable" \in Errors
    BY DEF Steps, Errors
  <2>2. pc' \in [Workers -> Steps] /\ job' \in [Workers -> Jobs]
    BY <1>1, <1>4, <2>1, ControlTypes
  <2> QED
    BY <1>3, <1>4, <2>2
<1>5. CASE Claim(w)
  <2>1. Gate(job[w].event) \in Steps /\ "respond" \in Steps
    BY DEF Gate, Steps
  <2>2. StoreTypeOK'
    <3>1. job[w].now + Lease \in Nat /\ "PROCESSING" \in EventStatus
      BY <1>2, ConstantTypes DEF EventStatus
    <3> QED
      BY <1>1, <1>5, <3>1, StoreWriteTypes DEF Claim, ClaimEvent, StoreFault
  <2>3. \/ Goto(w, Gate(job[w].event)) /\ UNCHANGED faults
        \/ Goto(w, "respond") /\ UNCHANGED faults
        \/ Throw(w, "retryable", "respond") /\ Fault("store")
    BY <1>5 DEF Claim, StoreFault
  <2> QED
    BY <1>4, <1>5, <2>1, <2>2, <2>3 DEF Claim
<1>6. CASE CheckCooldown(w)
  <2>1. StoreTypeOK'
    BY <1>1, <1>6, StoreWriteTypes DEF CheckCooldown, StoreFault
  <2>2. {"ignore", "pending"} \subseteq Steps
    BY DEF Steps
  <2> QED
    BY <1>4, <1>6, <2>1, <2>2 DEF CheckCooldown, StoreFault
<1>7. CASE ListPending(w)
  <2>1. StoreTypeOK'
    BY <1>1, <1>7, StoreWriteTypes DEF ListPending, StoreFault
  <2>2. CASE StartPlan(w, PendingActions(job[w].event), TRUE) /\ UNCHANGED faults
    <3>1. PendingActions(job[w].event) \in SUBSET Instances
      BY DEF PendingActions
    <3> QED
      BY <1>1, <1>3, <1>7, <2>1, <2>2, <3>1, ControlTypes DEF ListPending
  <2>3. CASE \/ Goto(w, "list") /\ UNCHANGED faults
             \/ Throw(w, "retryable", "failEvent") /\ Fault("store")
    <3>1. "list" \in Steps
      BY DEF Steps
    <3> QED
      BY <1>4, <1>7, <2>1, <2>3, <3>1 DEF ListPending
  <2> QED
    BY <1>7, <2>2, <2>3 DEF ListPending, StoreFault
<1>8. CASE ListInstances(w)
  <2>1. StoreTypeOK'
    BY <1>1, <1>8, StoreWriteTypes DEF ListInstances
  <2>2. \A status : Selected(status) \in SUBSET Instances
    BY ConstantTypes DEF Selected
  <2>3. {"recoverable", "failEvent"} \subseteq Steps /\ {"retryable", "terminal"} \subseteq Errors
    BY DEF Steps, Errors
  <2>4. pc' \in [Workers -> Steps] /\ job' \in [Workers -> Jobs]
    <3>1. CASE StartPlan(w, Selected("RUNNING"), FALSE)
      BY <1>1, <2>2, <3>1, ControlTypes
    <3>2. CASE /\ pc'  = [pc EXCEPT ![w] = "recoverable"]
               /\ job' = [job EXCEPT ![w].todo = Selected("TERMINATED")]
      BY <1>1, <2>2, <2>3, <3>2 DEF Jobs
    <3>3. CASE \E error \in {"retryable", "terminal"} : Throw(w, error, "failEvent")
      BY <1>1, <2>3, <3>3, ControlTypes
    <3> QED
      BY <1>8, <3>1, <3>2, <3>3 DEF ListInstances
  <2> QED
    BY <1>3, <1>8, <2>1, <2>4 DEF ListInstances
<1>9. CASE ListRecoverable(w)
  <2>1. StoreTypeOK'
    BY <1>1, <1>9, StoreWriteTypes DEF ListRecoverable, StoreFault
  <2>2. CASE StartPlan(w, job[w].todo \cap RecoverableInstances(job[w].now), FALSE)
             /\ UNCHANGED faults
    <3>1. job[w].todo \cap RecoverableInstances(job[w].now) \in SUBSET Instances
      BY <1>2
    <3> QED
      BY <1>1, <1>3, <1>9, <2>1, <2>2, <3>1, ControlTypes DEF ListRecoverable
  <2>3. CASE Throw(w, "retryable", "failEvent") /\ Fault("store")
    <3>1. "respond" \in Steps
      BY DEF Steps
    <3> QED
      BY <1>4, <1>9, <2>1, <2>3, <3>1 DEF ListRecoverable
  <2> QED
    BY <1>9, <2>2, <2>3 DEF ListRecoverable, StoreFault
<1>10. CASE RecordIntent(w)
  <2>1. {"intentManaged", "submit"} \subseteq Steps /\ "INTENT_RECORDED" \in ActionStatus
    BY DEF Steps, ActionStatus
  <2>2. StoreTypeOK'
    BY <1>1, <1>10, <2>1, StoreWriteTypes DEF RecordIntent, Write, StoreFault
  <2> QED
    BY <1>4, <1>10, <2>1, <2>2 DEF RecordIntent, Write, StoreFault
<1>11. CASE RecordStopIntent(w)
  <2>1. "submit" \in Steps /\ "STOP_INTENT" \in ManagedStatus
    BY DEF Steps, ManagedStatus
  <2>2. StoreTypeOK'
    BY <1>1, <1>11, <2>1, StoreWriteTypes DEF RecordStopIntent, Write, StoreFault
  <2> QED
    BY <1>4, <1>11, <2>1, <2>2 DEF RecordStopIntent, Write, StoreFault
<1>12. CASE RecordSubmitted(w)
  <2>1. "submittedManaged" \in Steps /\ "SUBMITTED" \in ActionStatus
    BY DEF Steps, ActionStatus
  <2>2. StoreTypeOK'
    BY <1>1, <1>12, <2>1, StoreWriteTypes DEF RecordSubmitted, Write, StoreFault
  <2> QED
    BY <1>4, <1>12, <2>1, <2>2 DEF RecordSubmitted, Write, StoreFault
<1>13. CASE RecordManagedSubmitted(w)
  <2>1. "wait" \in Steps /\ {"STOP_SUBMITTED", "START_SUBMITTED"} \subseteq ManagedStatus
    BY DEF Steps, ManagedStatus
  <2>2. StoreTypeOK'
    BY <1>1, <1>13, <2>1, StoreWriteTypes DEF RecordManagedSubmitted, Write, StoreFault
  <2> QED
    BY <1>4, <1>13, <2>1, <2>2 DEF RecordManagedSubmitted, Write, StoreFault
<1>14. CASE RecordCompleted(w)
  <2>1. "completedManaged" \in Steps /\ "COMPLETED" \in ActionStatus
    BY DEF Steps, ActionStatus
  <2>2. StoreTypeOK'
    BY <1>1, <1>14, <2>1, StoreWriteTypes DEF RecordCompleted, Write, StoreFault
  <2> QED
    BY <1>4, <1>14, <2>1, <2>2 DEF RecordCompleted, Write, StoreFault
<1>15. CASE RecordActionFailed(w)
  <2>1. "failManaged" \in Steps /\ {"FAILED", "FAILED_RETRYABLE"} \subseteq ActionStatus
    BY DEF Steps, ActionStatus
  <2>2. StoreTypeOK'
    BY <1>1, <1>15, <2>1, StoreWriteTypes DEF RecordActionFailed, Write, StoreFault
  <2> QED
    BY <1>4, <1>15, <2>1, <2>2 DEF RecordActionFailed, Write, StoreFault
<1>16. CASE Complete(w)
  <2>1. "respond" \in Steps /\ "COMPLETED" \in EventStatus /\ 0 \in Nat
    BY DEF Steps, EventStatus
  <2>2. StoreTypeOK'
    BY <1>1, <1>16, <2>1, StoreWriteTypes DEF Complete, Write, StoreFault, CompleteEvent
  <2> QED
    BY <1>4, <1>16, <2>1, <2>2 DEF Complete, Write, StoreFault
<1>17. CASE Ignore(w)
  <2>1. "respond" \in Steps /\ "IGNORED" \in EventStatus /\ 0 \in Nat
    BY DEF Steps, EventStatus
  <2>2. StoreTypeOK'
    BY <1>1, <1>17, <2>1, StoreWriteTypes DEF Ignore, Write, StoreFault, IgnoreEvent
  <2> QED
    BY <1>4, <1>17, <2>1, <2>2 DEF Ignore, Write, StoreFault
<1>18. CASE UpdateControl(w)
  <2>1. "complete" \in Steps
    BY DEF Steps
  <2>2. DecisionOf[job[w].event] \in Decisions
    BY ConstantTypes
  <2>3. StoreTypeOK'
    BY <1>1, <1>2, <1>18, <2>2, StoreWriteTypes DEF UpdateControl, Write, StoreFault
  <2> QED
    BY <1>4, <1>18, <2>1, <2>3 DEF UpdateControl, Write, StoreFault
<1>19. CASE SubmitAction(w)
  <2>1. StoreTypeOK'
    BY <1>1, <1>19, StoreWriteTypes DEF SubmitAction
  <2>2. "submitted" \in Steps /\ {"retryable", "terminal"} \subseteq Errors
    BY DEF Steps, Errors
  <2>3. pc' \in [Workers -> Steps] /\ job' \in [Workers -> Jobs]
    <3>1. Goto(w, "submitted") \/ Reject(w, "terminal") \/ Reject(w, "retryable")
      BY <1>19 DEF SubmitAction
    <3> QED
      BY <1>1, <2>2, <3>1, ControlTypes
  <2>4. ComputeTypeOK'
    <3>1. CASE UNCHANGED computeVars
      BY <1>1, <3>1, ComputeTypes
    <3>2. CASE Submit(job[w].event, job[w].on)
      <4>1. CASE job[w].on \in Instances
        BY <1>1, <3>2, <4>1, ComputeTypes
      <4>2. CASE job[w].on \notin Instances
        BY <1>1, <3>2, <4>2 DEF Submit, ComputeTypeOK, computeVars, OpStatus
      <4> QED
        BY <4>1, <4>2
    <3> QED
      BY <1>19, <3>1, <3>2 DEF SubmitAction
  <2>5. faults' \in 0..MaxFaults
    BY <1>1, <1>19, FaultTypes DEF SubmitAction
  <2> QED
    BY <1>1, <1>19, <2>1, <2>3, <2>4, <2>5 DEF SubmitAction, TypeOK, WorkerTypeOK
<1>20. CASE WaitForOperation(w)
  <2>1. StoreTypeOK'
    BY <1>1, <1>20, StoreWriteTypes DEF WaitForOperation
  <2>2. {"completed", "failEvent"} \subseteq Steps /\ {"retryable", "terminal"} \subseteq Errors
    BY DEF Steps, Errors
  <2>3. pc' \in [Workers -> Steps] /\ job' \in [Workers -> Jobs]
    <3>1. CASE /\ pc'  = [pc EXCEPT ![w] = "completed"]
               /\ job' = [job EXCEPT ![w].at = clock]
      BY <1>1, <2>2, <3>1 DEF Jobs
    <3>2. CASE Reject(w, "terminal") \/ Throw(w, "retryable", "failEvent")
      BY <1>1, <2>2, <3>2, ControlTypes
    <3> QED
      BY <1>20, <3>1, <3>2 DEF WaitForOperation
  <2> QED
    BY <1>3, <1>20, <2>1, <2>3 DEF WaitForOperation
<1>21. CASE RecordManagedCompleted(w)
  <2>1. /\ {"STOP_COMPLETED", "START_COMPLETED"} \subseteq ManagedStatus
        /\ "respond" \in Steps
    BY DEF ManagedStatus, Steps
  <2>2. MarkCompleted(w) => StoreTypeOK'
    BY <1>1, <1>2, <2>1, StoreWriteTypes DEF MarkCompleted
  <2>3. StoreTypeOK'
    BY <1>1, <1>21, <2>2, StoreWriteTypes DEF RecordManagedCompleted, StoreFault
  <2>4. CASE Proceed(w, job[w].todo \ {job[w].on}, job[w].resumed) /\ UNCHANGED faults
    <3>1. job[w].todo \ {job[w].on} \in SUBSET Instances
      BY <1>2
    <3> QED
      BY <1>1, <1>2, <1>3, <1>21, <2>3, <2>4, <3>1, ControlTypes DEF RecordManagedCompleted
  <2>5. CASE Throw(w, "retryable", "failEvent") /\ Fault("store")
    BY <1>4, <1>21, <2>1, <2>3, <2>5 DEF RecordManagedCompleted
  <2> QED
    BY <1>21, <2>4, <2>5 DEF RecordManagedCompleted, StoreFault
<1>22. CASE RecordManagedFailed(w)
  <2>1. /\ {"STOP_FAILED", "START_FAILED"} \subseteq ManagedStatus
        /\ {"failEvent"} \subseteq Steps /\ "retryable" \in Errors
    BY DEF ManagedStatus, Steps, Errors
  <2>2. MarkFailed(w) => StoreTypeOK'
    BY <1>1, <2>1, StoreWriteTypes DEF MarkFailed
  <2>3. StoreTypeOK'
    BY <1>1, <1>22, <2>2, StoreWriteTypes DEF RecordManagedFailed, StoreFault
  <2>4. pc' \in [Workers -> Steps] /\ job' \in [Workers -> Jobs]
    BY <1>1, <1>2, <1>22, <2>1, ControlTypes DEF RecordManagedFailed, StoreFault
  <2> QED
    BY <1>3, <1>22, <2>3, <2>4 DEF RecordManagedFailed, StoreFault
<1>23. CASE RecordFailure(w)
  <2>1. {"FAILED", "FAILED_RETRYABLE"} \subseteq EventStatus /\ 0 \in Nat /\ "respond" \in Steps
    BY DEF EventStatus, Steps
  <2>2. FailEvent(job[w].event, job[w].error = "retryable") => StoreTypeOK'
    BY <1>1, <2>1, StoreWriteTypes DEF FailEvent
  <2>3. StoreTypeOK'
    BY <1>1, <1>23, <2>2, StoreWriteTypes DEF RecordFailure
  <2>4. pc' \in [Workers -> Steps] /\ job' \in [Workers -> Jobs]
    BY <1>1, <1>23, <2>1, ControlTypes DEF RecordFailure
  <2> QED
    BY <1>3, <1>23, <2>3, <2>4 DEF RecordFailure
<1>24. CASE Respond(w)
  <2>1. StoreTypeOK' /\ ComputeTypeOK'
    BY <1>1, <1>24, StoreWriteTypes, ComputeTypes DEF Respond
  <2>2. pc' \in [Workers -> Steps] /\ job' \in [Workers -> Jobs]
    BY <1>1, <1>24, ControlTypes DEF Respond
  <2>3. topic' \in [Events -> [state : MessageState, publishedAt : Nat]]
    BY <1>1, <1>24 DEF Respond, Ack, Nack, MessageState
  <2> QED
    BY <1>1, <1>24, <2>1, <2>2, <2>3 DEF Respond, TypeOK, WorkerTypeOK
<1> QED
  BY <1>5, <1>6, <1>7, <1>8, <1>9, <1>10, <1>11, <1>12, <1>13, <1>14, <1>15, <1>16,
     <1>17, <1>18, <1>19, <1>20, <1>21, <1>22, <1>23, <1>24 DEF WorkerStep

\* The types are kept by every step of the system, given that an invocation has
\* an event.
LEMMA StepTypes ==
  ASSUME TypeOK, \A w \in Workers : pc[w] # "idle" => job[w].event \in Events,
         [Next]_vars
  PROVE  TypeOK'
<1>1. /\ StoreTypeOK /\ ComputeTypeOK
      /\ pc \in [Workers -> Steps] /\ job \in [Workers -> Jobs]
      /\ topic \in [Events -> [state : MessageState, publishedAt : Nat]]
      /\ clock \in Nat \ {0} /\ faults \in 0..MaxFaults
  BY DEF TypeOK, WorkerTypeOK
<1>2. CASE UNCHANGED vars
  <2>1. StoreTypeOK' /\ ComputeTypeOK'
    BY <1>1, <1>2, StoreWriteTypes, ComputeTypes DEF vars
  <2> QED
    BY <1>1, <1>2, <2>1 DEF vars, TypeOK, WorkerTypeOK
<1>3. ASSUME NEW e \in Events, Publish(e) \/ Duplicate(e)
      PROVE  TypeOK'
  <2>1. StoreTypeOK' /\ ComputeTypeOK'
    BY <1>1, <1>3, StoreWriteTypes, ComputeTypes DEF Publish, Duplicate
  <2>2. topic' \in [Events -> [state : MessageState, publishedAt : Nat]]
    BY <1>1, <1>3 DEF Publish, Duplicate, MessageState
  <2>3. faults' \in 0..MaxFaults
    BY <1>1, <1>3, FaultTypes DEF Publish, Duplicate
  <2> QED
    BY <1>1, <1>3, <2>1, <2>2, <2>3 DEF Publish, Duplicate, TypeOK, WorkerTypeOK
<1>4. ASSUME NEW w \in Workers, NEW e \in Events, Delivery(w, e)
      PROVE  TypeOK'
  <2>1. StoreTypeOK' /\ ComputeTypeOK'
    BY <1>1, <1>4, StoreWriteTypes, ComputeTypes DEF Delivery, Receive, RejectStale
  <2>2. topic' \in [Events -> [state : MessageState, publishedAt : Nat]]
    BY <1>1, <1>4 DEF Delivery, Receive, RejectStale, MessageState
  <2>3. pc' \in [Workers -> Steps]
    BY <1>1, <1>4 DEF Delivery, Receive, RejectStale, Steps
  <2>4. job' \in [Workers -> Jobs]
    <3>1. [NoJob EXCEPT !.event = e, !.now = clock] \in Jobs
      BY <1>1 DEF NoJob, Jobs, Errors
    <3> QED
      BY <1>1, <1>4, <3>1 DEF Delivery, Receive, RejectStale
  <2> QED
    BY <1>1, <1>4, <2>1, <2>2, <2>3, <2>4 DEF Delivery, Receive, RejectStale, TypeOK, WorkerTypeOK
<1>5. ASSUME NEW w \in Workers, WorkerStep(w)
      PROVE  TypeOK'
  <2>1. pc[w] # "idle"
    BY <1>5 DEF WorkerStep, Claim, CheckCooldown, ListPending, ListInstances,
         ListRecoverable, RecordIntent, RecordStopIntent, SubmitAction, RecordSubmitted,
         RecordManagedSubmitted, WaitForOperation, RecordCompleted, RecordManagedCompleted,
         RecordActionFailed, RecordManagedFailed, UpdateControl, Complete, Ignore,
         RecordFailure, Respond, Write
  <2> QED
    BY <1>5, <2>1, WorkerStepTypes
<1>6. ASSUME NEW w \in Workers, Crash(w) \/ Timeout(w)
      PROVE  TypeOK'
  <2>1. StoreTypeOK' /\ ComputeTypeOK'
    BY <1>1, <1>6, StoreWriteTypes, ComputeTypes DEF Crash, Timeout
  <2>2. pc' \in [Workers -> Steps] /\ job' \in [Workers -> Jobs]
    BY <1>1, <1>6, ControlTypes DEF Crash, Timeout
  <2>3. topic' \in [Events -> [state : MessageState, publishedAt : Nat]]
    BY <1>1, <1>6 DEF Crash, Timeout, Nack, MessageState
  <2>4. faults' \in 0..MaxFaults
    BY <1>1, <1>6, FaultTypes DEF Crash, Timeout
  <2> QED
    BY <1>1, <1>6, <2>1, <2>2, <2>3, <2>4 DEF Crash, Timeout, TypeOK, WorkerTypeOK
<1>7. ASSUME NEW e \in Events, NEW i \in Instances, Provider(e, i)
      PROVE  TypeOK'
  <2>1. StoreTypeOK' /\ ComputeTypeOK' /\ faults' \in 0..MaxFaults
    BY <1>1, <1>7, StoreWriteTypes, ComputeTypes, FaultTypes DEF Provider
  <2> QED
    BY <1>1, <1>7, <2>1 DEF Provider, TypeOK, WorkerTypeOK
<1>8. ASSUME NEW i \in Instances, Operator(i)
      PROVE  TypeOK'
  <2>1. StoreTypeOK' /\ ComputeTypeOK' /\ faults' \in 0..MaxFaults
    BY <1>1, <1>8, StoreWriteTypes, ComputeTypes, FaultTypes DEF Operator
  <2> QED
    BY <1>1, <1>8, <2>1 DEF Operator, TypeOK, WorkerTypeOK
<1>9. CASE Tick
  <2>1. StoreTypeOK' /\ ComputeTypeOK'
    BY <1>1, <1>9, StoreWriteTypes, ComputeTypes DEF Tick
  <2> QED
    BY <1>1, <1>9, <2>1 DEF Tick, TypeOK, WorkerTypeOK
<1> QED
  BY <1>2, <1>3, <1>4, <1>5, <1>6, <1>7, <1>8, <1>9 DEF Next

-----------------------------------------------------------------------------
(* What a step of an invocation does to the invocation itself.             *)

\* The other invocations and the clock are left alone.  The invocation ends, or
\* keeps its event and its start; in the loop it is at an instance of its plan.
ControlEffect(w) ==
  /\ pc[w] # "idle"
  /\ clock' = clock
  /\ \A v \in Workers : v # w => pc'[v] = pc[v] /\ job'[v] = job[v]
  /\ \/ pc'[w] = "idle"
     \/ job'[w].event = job[w].event /\ job'[w].now = job[w].now
  /\ LoopInv(w)'

\* The ways to go on have that effect.
LEMMA GoingOn ==
  ASSUME TypeOK, NEW w \in Workers, pc[w] # "idle", clock' = clock
  PROVE  /\ \A s \in Steps \ LoopSteps : Goto(w, s) => ControlEffect(w)
         /\ \A s \in Steps : pc[w] \in LoopSteps /\ LoopInv(w) /\ Goto(w, s) => ControlEffect(w)
         /\ \A r \in Errors, s \in {"failEvent", "respond"} : Throw(w, r, s) => ControlEffect(w)
         /\ \A r \in Errors : pc[w] \in LoopSteps /\ LoopInv(w) /\ Reject(w, r) => ControlEffect(w)
         /\ \A todo \in SUBSET Instances, b \in BOOLEAN :
              Proceed(w, todo, b) \/ StartPlan(w, todo, b) => ControlEffect(w)
<1> USE DEF ControlEffect, LoopInv
<1>1. pc \in [Workers -> Steps] /\ job \in [Workers -> Jobs] /\ job[w] \in Jobs
  BY DEF TypeOK, WorkerTypeOK
<1>2. ASSUME NEW s \in Steps \ LoopSteps, Goto(w, s)
      PROVE  ControlEffect(w)
  BY <1>1, <1>2 DEF Goto
<1>3. ASSUME NEW s \in Steps, pc[w] \in LoopSteps, LoopInv(w), Goto(w, s)
      PROVE  ControlEffect(w)
  BY <1>1, <1>3 DEF Goto
<1>4. ASSUME NEW r \in Errors, NEW s \in {"failEvent", "respond"}, Throw(w, r, s)
      PROVE  ControlEffect(w)
  BY <1>1, <1>4 DEF Throw, NoJob, LoopSteps
<1>5. ASSUME NEW r \in Errors, pc[w] \in LoopSteps, LoopInv(w), Reject(w, r)
      PROVE  ControlEffect(w)
  BY <1>1, <1>5 DEF Reject, Jobs
<1>6. ASSUME NEW todo \in SUBSET Instances, NEW b \in BOOLEAN, Proceed(w, todo, b)
      PROVE  ControlEffect(w)
  <2>1. CASE /\ pc'  = [pc EXCEPT ![w] = "control"]
             /\ job' = [job EXCEPT ![w] = [@ EXCEPT !.todo = {}, !.on = None, !.at = 0]]
    BY <1>1, <2>1 DEF Jobs, LoopSteps
  <2>2. ASSUME NEW i \in todo,
               pc'  = [pc EXCEPT ![w] = IF b THEN "wait" ELSE "intent"],
               job' = [job EXCEPT ![w] = [@ EXCEPT !.todo = todo, !.resumed = b,
                                                   !.on = i, !.at = 0]]
        PROVE  ControlEffect(w)
    BY <1>1, <2>2 DEF Jobs
  <2> QED
    BY <1>6, <2>1, <2>2 DEF Proceed
<1>7. ASSUME NEW todo \in SUBSET Instances, NEW b \in BOOLEAN, StartPlan(w, todo, b)
      PROVE  ControlEffect(w)
  BY <1>4, <1>6, <1>7 DEF StartPlan, Errors
<1> QED
  BY <1>2, <1>3, <1>4, <1>5, <1>6, <1>7

\* Every step of an invocation changes its control as ControlEffect says.
LEMMA WorkerStepControl ==
  ASSUME TypeOK, NEW w \in Workers, LoopInv(w), WorkerStep(w)
  PROVE  ControlEffect(w)
<1>1. /\ pc \in [Workers -> Steps] /\ job \in [Workers -> Jobs]
      /\ job[w].todo \in SUBSET Instances /\ job[w].resumed \in BOOLEAN
      /\ job[w].error \in Errors
  BY DEF TypeOK, WorkerTypeOK, Jobs
<1>2. \A s \in {"cooldown", "ignore", "pending", "list", "recoverable", "control",
               "complete", "failEvent", "respond"} : s \in Steps \ LoopSteps
  BY DEF Steps, LoopSteps
<1>3. LoopSteps \subseteq Steps
  BY DEF Steps, LoopSteps
<1>4. {"none", "retryable", "terminal"} \subseteq Errors
  BY DEF Errors
<1>5. CASE Claim(w)
  <2>1. Gate(job[w].event) \in Steps \ LoopSteps
    BY <1>2 DEF Gate
  <2> QED
    BY <1>2, <1>4, <1>5, <2>1, GoingOn DEF Claim, StoreFault
<1>6. CASE CheckCooldown(w)
  BY <1>2, <1>4, <1>6, GoingOn DEF CheckCooldown, StoreFault
<1>7. CASE ListPending(w)
  <2>1. PendingActions(job[w].event) \in SUBSET Instances
    BY DEF PendingActions
  <2> QED
    BY <1>2, <1>4, <1>7, <2>1, GoingOn DEF ListPending, StoreFault
<1>8. CASE ListInstances(w)
  <2>1. \A status : Selected(status) \in SUBSET Instances
    BY ConstantTypes DEF Selected
  <2>2. CASE /\ pc'  = [pc EXCEPT ![w] = "recoverable"]
             /\ job' = [job EXCEPT ![w].todo = Selected("TERMINATED")]
    BY <1>1, <1>8, <2>1, <2>2 DEF ListInstances, ControlEffect, LoopInv, LoopSteps, Jobs
  <2>3. CASE \/ StartPlan(w, Selected("RUNNING"), FALSE)
             \/ \E error \in {"retryable", "terminal"} : Throw(w, error, "failEvent")
    BY <1>4, <1>8, <2>1, <2>3, GoingOn DEF ListInstances
  <2> QED
    BY <1>8, <2>2, <2>3 DEF ListInstances
<1>9. CASE ListRecoverable(w)
  <2>1. job[w].todo \cap RecoverableInstances(job[w].now) \in SUBSET Instances
    BY <1>1
  <2> QED
    BY <1>4, <1>9, <2>1, GoingOn DEF ListRecoverable, StoreFault
<1>10. CASE RecordIntent(w)
  BY <1>2, <1>3, <1>4, <1>10, GoingOn DEF RecordIntent, Write, StoreFault, LoopSteps
<1>11. CASE RecordStopIntent(w)
  BY <1>2, <1>3, <1>4, <1>11, GoingOn DEF RecordStopIntent, Write, StoreFault, LoopSteps
<1>12. CASE RecordSubmitted(w)
  BY <1>2, <1>3, <1>4, <1>12, GoingOn DEF RecordSubmitted, Write, StoreFault, LoopSteps
<1>13. CASE RecordManagedSubmitted(w)
  BY <1>2, <1>3, <1>4, <1>13, GoingOn DEF RecordManagedSubmitted, Write, StoreFault, LoopSteps
<1>14. CASE RecordCompleted(w)
  BY <1>2, <1>3, <1>4, <1>14, GoingOn DEF RecordCompleted, Write, StoreFault, LoopSteps
<1>15. CASE RecordActionFailed(w)
  BY <1>2, <1>3, <1>4, <1>15, GoingOn DEF RecordActionFailed, Write, StoreFault, LoopSteps
<1>16. CASE Complete(w)
  BY <1>2, <1>4, <1>16, GoingOn DEF Complete, Write, StoreFault
<1>17. CASE Ignore(w)
  BY <1>2, <1>4, <1>17, GoingOn DEF Ignore, Write, StoreFault
<1>18. CASE UpdateControl(w)
  BY <1>2, <1>4, <1>18, GoingOn DEF UpdateControl, Write, StoreFault
<1>19. CASE SubmitAction(w)
  <2>1. Goto(w, "submitted") \/ Reject(w, "terminal") \/ Reject(w, "retryable")
    BY <1>19 DEF SubmitAction
  <2> QED
    BY <1>3, <1>4, <1>19, <2>1, GoingOn DEF SubmitAction, LoopSteps
<1>20. CASE WaitForOperation(w)
  <2>1. CASE /\ pc'  = [pc EXCEPT ![w] = "completed"]
             /\ job' = [job EXCEPT ![w].at = clock]
    BY <1>1, <1>20, <2>1 DEF WaitForOperation, ControlEffect, LoopInv, LoopSteps, Jobs
  <2>2. CASE Reject(w, "terminal") \/ Throw(w, "retryable", "failEvent")
    BY <1>4, <1>20, <2>2, GoingOn DEF WaitForOperation, LoopSteps
  <2> QED
    BY <1>20, <2>1, <2>2 DEF WaitForOperation
<1>21. CASE RecordManagedCompleted(w)
  <2>1. job[w].todo \ {job[w].on} \in SUBSET Instances
    BY <1>1
  <2> QED
    BY <1>1, <1>4, <1>21, <2>1, GoingOn DEF RecordManagedCompleted, StoreFault
<1>22. CASE RecordManagedFailed(w)
  BY <1>1, <1>4, <1>22, GoingOn DEF RecordManagedFailed, StoreFault
<1>23. CASE RecordFailure(w)
  BY <1>2, <1>23, GoingOn DEF RecordFailure
<1>24. CASE Respond(w)
  BY <1>1, <1>24 DEF Respond, EndInvocation, ControlEffect, LoopInv, LoopSteps
<1> QED
  BY <1>5, <1>6, <1>7, <1>8, <1>9, <1>10, <1>11, <1>12, <1>13, <1>14, <1>15, <1>16,
     <1>17, <1>18, <1>19, <1>20, <1>21, <1>22, <1>23, <1>24 DEF WorkerStep

-----------------------------------------------------------------------------
(* What a step of an invocation does to the events.                        *)

\* Only the event of the invocation is written: by the claim, which begins to
\* hold it, by completeEvent and ignoreEvent, after which it is held only for
\* failEvent, and by failEvent, after which it is not held.
EventEffect(w) ==
  LET e == job[w].event
  IN \/ /\ events' = events
        /\ Holding(w)' => Holding(w) /\ pc[w] # "failEvent"
     \/ /\ pc[w] = "claim" /\ Claimable(e, job[w].now)
        /\ ClaimEvent(e, job[w].now)
        /\ pc'[w] # "failEvent"
     \/ /\ pc[w] \in {"complete", "ignore"}
        /\ CompleteEvent(e) \/ IgnoreEvent(e)
        /\ \/ ~ Holding(w)'
           \/ pc'[w] = "failEvent" /\ job'[w].error = "retryable"
     \/ /\ pc[w] = "failEvent"
        /\ FailEvent(e, job[w].error = "retryable")
        /\ ~ Holding(w)'

\* Every step of an invocation changes the documents of events as EventEffect says.
LEMMA WorkerStepEvents ==
  ASSUME TypeOK, NEW w \in Workers, WorkerStep(w)
  PROVE  EventEffect(w)
<1> USE DEF EventEffect
<1>1. pc \in [Workers -> Steps] /\ job \in [Workers -> Jobs]
  BY DEF TypeOK, WorkerTypeOK
<1>2. \A s, r : Throw(w, r, s) => pc'[w] = s /\ job'[w].error = r
  BY <1>1 DEF Throw, NoJob
<1>3. \A s : Goto(w, s) => pc'[w] = s
  BY <1>1 DEF Goto
<1>4. CASE Claim(w)
  <2>1. Gate(job[w].event) # "failEvent"
    BY DEF Gate
  <2> QED
    BY <1>2, <1>3, <1>4, <2>1 DEF Claim, StoreFault, storeVars, Holding
<1>5. CASE CheckCooldown(w)
  BY <1>5 DEF CheckCooldown, Write, StoreFault, storeVars, Holding, SetAction, SetManaged,
     SetStopCompleted, MarkCompleted, MarkFailed, UpdateControlState
<1>6. CASE ListPending(w)
  BY <1>6 DEF ListPending, Write, StoreFault, storeVars, Holding, SetAction, SetManaged,
     SetStopCompleted, MarkCompleted, MarkFailed, UpdateControlState
<1>7. CASE ListRecoverable(w)
  BY <1>7 DEF ListRecoverable, Write, StoreFault, storeVars, Holding, SetAction, SetManaged,
     SetStopCompleted, MarkCompleted, MarkFailed, UpdateControlState
<1>8. CASE ListInstances(w)
  BY <1>8 DEF ListInstances, Write, StoreFault, storeVars, Holding, SetAction, SetManaged,
     SetStopCompleted, MarkCompleted, MarkFailed, UpdateControlState
<1>9. CASE SubmitAction(w)
  BY <1>9 DEF SubmitAction, Write, StoreFault, storeVars, Holding, SetAction, SetManaged,
     SetStopCompleted, MarkCompleted, MarkFailed, UpdateControlState
<1>10. CASE WaitForOperation(w)
  BY <1>10 DEF WaitForOperation, Write, StoreFault, storeVars, Holding, SetAction, SetManaged,
     SetStopCompleted, MarkCompleted, MarkFailed, UpdateControlState
<1>11. CASE RecordManagedCompleted(w)
  BY <1>11 DEF RecordManagedCompleted, Write, StoreFault, storeVars, Holding, SetAction, SetManaged,
     SetStopCompleted, MarkCompleted, MarkFailed, UpdateControlState
<1>12. CASE RecordManagedFailed(w)
  BY <1>12 DEF RecordManagedFailed, Write, StoreFault, storeVars, Holding, SetAction, SetManaged,
     SetStopCompleted, MarkCompleted, MarkFailed, UpdateControlState
<1>13. CASE RecordIntent(w)
  BY <1>13 DEF RecordIntent, Write, StoreFault, storeVars, Holding, SetAction, SetManaged,
     SetStopCompleted, MarkCompleted, MarkFailed, UpdateControlState
<1>14. CASE RecordStopIntent(w)
  BY <1>14 DEF RecordStopIntent, Write, StoreFault, storeVars, Holding, SetAction, SetManaged,
     SetStopCompleted, MarkCompleted, MarkFailed, UpdateControlState
<1>15. CASE RecordSubmitted(w)
  BY <1>15 DEF RecordSubmitted, Write, StoreFault, storeVars, Holding, SetAction, SetManaged,
     SetStopCompleted, MarkCompleted, MarkFailed, UpdateControlState
<1>16. CASE RecordManagedSubmitted(w)
  BY <1>16 DEF RecordManagedSubmitted, Write, StoreFault, storeVars, Holding, SetAction, SetManaged,
     SetStopCompleted, MarkCompleted, MarkFailed, UpdateControlState
<1>17. CASE RecordCompleted(w)
  BY <1>17 DEF RecordCompleted, Write, StoreFault, storeVars, Holding, SetAction, SetManaged,
     SetStopCompleted, MarkCompleted, MarkFailed, UpdateControlState
<1>18. CASE RecordActionFailed(w)
  BY <1>18 DEF RecordActionFailed, Write, StoreFault, storeVars, Holding, SetAction, SetManaged,
     SetStopCompleted, MarkCompleted, MarkFailed, UpdateControlState
<1>19. CASE UpdateControl(w)
  BY <1>19 DEF UpdateControl, Write, StoreFault, storeVars, Holding, SetAction, SetManaged,
     SetStopCompleted, MarkCompleted, MarkFailed, UpdateControlState
<1>20. CASE Complete(w)
  BY <1>2, <1>3, <1>20 DEF Complete, Write, StoreFault, storeVars, Holding
<1>21. CASE Ignore(w)
  BY <1>2, <1>3, <1>21 DEF Ignore, Write, StoreFault, storeVars, Holding
<1>22. CASE RecordFailure(w)
  BY <1>3, <1>22 DEF RecordFailure, storeVars, Holding
<1>23. CASE Respond(w)
  BY <1>1, <1>23 DEF Respond, EndInvocation, storeVars, Holding
<1> QED
  BY <1>4, <1>5, <1>6, <1>7, <1>8, <1>9, <1>10, <1>11, <1>12, <1>13, <1>14, <1>15, <1>16, <1>17, <1>18, <1>19, <1>20, <1>21, <1>22, <1>23 DEF WorkerStep

-----------------------------------------------------------------------------
(* Mutual exclusion of the invocations on an event.                        *)

\* The part of the inductive invariant that the exclusion rests on.
LockInv ==
  /\ OneHolder
  /\ \A w \in Workers : InvocationInv(w) /\ LoopInv(w) /\ ClaimInv(w)

\* A lease is active as long as the invocation that took it lives, so nobody
\* else can claim the event.
LEMMA HeldNotClaimable ==
  ASSUME TypeOK, LockInv, NEW v \in Workers, NEW w \in Workers,
         Holding(v), pc[w] # "idle", job[w].event = job[v].event
  PROVE  ~ Claimable(job[w].event, job[w].now)
<1>1. /\ job[v].now \in Nat /\ job[w].now \in Nat /\ clock \in Nat
      /\ job[v].event \in Events
  BY DEF TypeOK, WorkerTypeOK, Jobs, LockInv, InvocationInv, Holding
<1>2. CASE Lock(v)
  <2>1. clock <= job[v].now + FunctionTimeout /\ job[w].now <= clock
    BY DEF LockInv, InvocationInv, Holding
  <2> QED
    BY <1>1, <1>2, <2>1, ConstantTypes DEF Lock, Claimable
<1>3. CASE events[job[v].event].status \in {"COMPLETED", "IGNORED"}
  BY <1>3 DEF Claimable, Settled
<1> QED
  BY <1>2, <1>3 DEF LockInv, ClaimInv

\* The invariant is kept by an invocation.
LEMMA WorkerStepLock ==
  ASSUME TypeOK, LockInv, NEW w \in Workers, WorkerStep(w)
  PROVE  LockInv'
<1>1. /\ pc \in [Workers -> Steps] /\ job \in [Workers -> Jobs]
      /\ events \in [Events -> [status : EventStatus, leaseUntil : Nat]]
      /\ ControlEffect(w) /\ EventEffect(w)
      /\ pc[w] # "idle" /\ job[w].event \in Events
  <2>1. ControlEffect(w) /\ EventEffect(w)
    BY WorkerStepControl, WorkerStepEvents DEF LockInv
  <2> QED
    BY <2>1 DEF TypeOK, StoreTypeOK, WorkerTypeOK, LockInv, InvocationInv, ControlEffect
<1>2. Holding(w)' => Holding(w) \/ (pc[w] = "claim" /\ Claimable(job[w].event, job[w].now))
  BY <1>1 DEF EventEffect, Holding
<1>3. \A v \in Workers : v # w => pc'[v] = pc[v] /\ job'[v] = job[v]
  BY <1>1 DEF ControlEffect
<1>4. Holding(w)' => job'[w].event = job[w].event /\ job'[w].now = job[w].now
  BY <1>1 DEF ControlEffect, Holding
<1>5. OneHolder'
  <2>1. ASSUME NEW v \in Workers, v # w, Holding(v)', Holding(w)',
               job'[v].event = job'[w].event
        PROVE  FALSE
    <3>1. Holding(v) /\ job[v].event = job[w].event
      BY <1>3, <1>4, <2>1 DEF Holding
    <3>2. ~ Claimable(job[w].event, job[w].now)
      BY <1>1, <3>1, HeldNotClaimable
    <3> QED
      BY <1>2, <2>1, <3>1, <3>2 DEF LockInv, OneHolder
  <2>2. ASSUME NEW v \in Workers, NEW u \in Workers, v # w, u # w, Holding(v)', Holding(u)',
               job'[v].event = job'[u].event
        PROVE  v = u
    BY <1>3, <2>2 DEF LockInv, OneHolder, Holding
  <2> QED
    BY <2>1, <2>2 DEF OneHolder
<1>6. ASSUME NEW v \in Workers
      PROVE  InvocationInv(v)' /\ LoopInv(v)'
  <2>1. CASE v = w
    BY <1>1, <2>1 DEF ControlEffect, LockInv, InvocationInv
  <2>2. CASE v # w
    BY <1>1, <1>3, <2>2 DEF ControlEffect, LockInv, InvocationInv, LoopInv
  <2> QED
    BY <2>1, <2>2
<1>7. ASSUME NEW v \in Workers, v # w, Holding(v)'
      PROVE  ClaimInv(v)'
  <2>1. Holding(v) /\ ClaimInv(v)
    BY <1>3, <1>7 DEF Holding, LockInv
  <2>2. events'[job[v].event] = events[job[v].event]
    <3>1. CASE job[v].event # job[w].event
      <4>1. job[v].event \in Events
        BY <2>1 DEF LockInv, InvocationInv, Holding
      <4>2. \A s, l : SetEvent(job[w].event, s, l) =>
                        events'[job[v].event] = events[job[v].event]
        BY <1>1, <3>1, <4>1 DEF SetEvent
      <4> QED
        BY <1>1, <4>2 DEF EventEffect, ClaimEvent, CompleteEvent, IgnoreEvent, FailEvent
    <3>2. CASE job[v].event = job[w].event
      <4>1. ~ Holding(w) /\ ~ Claimable(job[w].event, job[w].now)
        BY <1>1, <1>7, <2>1, <3>2, HeldNotClaimable DEF LockInv, OneHolder
      <4> QED
        BY <1>1, <4>1 DEF EventEffect, Holding
    <3> QED
      BY <3>1, <3>2
  <2> QED
    BY <1>3, <1>7, <2>1, <2>2 DEF ClaimInv, Lock
<1>8. ASSUME Holding(w)'
      PROVE  ClaimInv(w)'
  <2>1. CASE events' = events /\ Holding(w) /\ pc[w] # "failEvent"
    BY <1>4, <1>8, <2>1 DEF LockInv, ClaimInv, Lock
  <2>2. CASE ClaimEvent(job[w].event, job[w].now)
    BY <1>1, <1>4, <1>8, <2>2 DEF ClaimEvent, SetEvent, ClaimInv, Lock
  <2>3. CASE /\ CompleteEvent(job[w].event) \/ IgnoreEvent(job[w].event)
             /\ pc'[w] = "failEvent" /\ job'[w].error = "retryable"
    BY <1>1, <1>4, <1>8, <2>3 DEF CompleteEvent, IgnoreEvent, SetEvent, ClaimInv
  <2> QED
    BY <1>1, <1>8, <2>1, <2>2, <2>3 DEF EventEffect
<1>9. ASSUME NEW v \in Workers
      PROVE  ClaimInv(v)'
  BY <1>7, <1>8 DEF ClaimInv
<1> QED
  BY <1>5, <1>6, <1>9 DEF LockInv

\* The invariant is kept by every step of the system.
LEMMA StepLock ==
  ASSUME TypeOK, LockInv, [Next]_vars
  PROVE  LockInv'
<1>1. /\ pc \in [Workers -> Steps] /\ job \in [Workers -> Jobs]
      /\ clock \in Nat
  BY DEF TypeOK, WorkerTypeOK
<1>2. ASSUME UNCHANGED <<events, pc, job, clock>>
      PROVE  LockInv'
  BY <1>2 DEF LockInv, OneHolder, Holding, InvocationInv, LoopInv, ClaimInv, Lock
<1>3. ASSUME NEW e \in Events, Publish(e) \/ Duplicate(e)
      PROVE  LockInv'
  BY <1>2, <1>3 DEF Publish, Duplicate, storeVars
<1>4. ASSUME NEW w \in Workers, NEW e \in Events, Delivery(w, e)
      PROVE  LockInv'
  <2>1. CASE RejectStale(w, e)
    BY <1>2, <2>1 DEF RejectStale, storeVars
  <2>2. CASE Receive(w, e)
    <3>1. /\ pc' = [pc EXCEPT ![w] = "claim"]
          /\ job' = [job EXCEPT ![w] = [NoJob EXCEPT !.event = e, !.now = clock]]
          /\ UNCHANGED <<events, clock>> /\ pc[w] = "idle"
      BY <2>2 DEF Receive, storeVars
    <3>2. job'[w].event = e /\ job'[w].now = clock
      BY <1>1, <3>1 DEF NoJob
    <3>3. ~ Holding(w)' /\ ~ Holding(w) /\ pc'[w] = "claim"
      BY <1>1, <3>1 DEF Holding
    <3>4. \A v \in Workers : v # w => pc'[v] = pc[v] /\ job'[v] = job[v]
      BY <1>1, <3>1
    <3>5. OneHolder'
      BY <3>3, <3>4 DEF LockInv, OneHolder, Holding
    <3>6. ASSUME NEW v \in Workers
          PROVE  InvocationInv(v)' /\ LoopInv(v)'
      BY <1>1, <3>1, <3>2, <3>3, <3>4, ConstantTypes
         DEF LockInv, InvocationInv, LoopInv, LoopSteps
    <3>7. ASSUME NEW v \in Workers
          PROVE  ClaimInv(v)'
      BY <3>1, <3>3, <3>4 DEF LockInv, ClaimInv, Lock, Holding
    <3> QED
      BY <3>5, <3>6, <3>7 DEF LockInv
  <2> QED
    BY <1>4, <2>1, <2>2 DEF Delivery
<1>5. ASSUME NEW w \in Workers, WorkerStep(w)
      PROVE  LockInv'
  BY <1>5, WorkerStepLock
<1>6. ASSUME NEW w \in Workers, Crash(w) \/ Timeout(w)
      PROVE  LockInv'
  <2>1. /\ pc' = [pc EXCEPT ![w] = "idle"] /\ job' = [job EXCEPT ![w] = NoJob]
        /\ UNCHANGED <<events, clock>>
    BY <1>6 DEF Crash, Timeout, EndInvocation, storeVars
  <2>2. pc'[w] = "idle" /\ \A v \in Workers : v # w => pc'[v] = pc[v] /\ job'[v] = job[v]
    BY <1>1, <2>1
  <2>3. OneHolder'
    BY <2>2 DEF LockInv, OneHolder, Holding
  <2>4. ASSUME NEW v \in Workers
        PROVE  InvocationInv(v)' /\ LoopInv(v)' /\ ClaimInv(v)'
    BY <2>1, <2>2 DEF LockInv, InvocationInv, LoopInv, LoopSteps, ClaimInv, Lock, Holding
  <2> QED
    BY <2>3, <2>4 DEF LockInv
<1>7. ASSUME NEW e \in Events, NEW i \in Instances, Provider(e, i)
      PROVE  LockInv'
  BY <1>2, <1>7 DEF Provider, storeVars
<1>8. ASSUME NEW i \in Instances, Operator(i)
      PROVE  LockInv'
  BY <1>2, <1>8 DEF Operator, storeVars
<1>9. CASE Tick
  <2>1. ASSUME NEW v \in Workers
        PROVE  InvocationInv(v)'
    <3>1. job[v].now \in Nat
      BY <1>1 DEF Jobs
    <3> QED
      BY <1>1, <1>9, <3>1, ConstantTypes DEF Tick, LockInv, InvocationInv
  <2> QED
    BY <1>9, <2>1 DEF Tick, LockInv, OneHolder, Holding, LoopInv, ClaimInv, Lock, storeVars
<1>10. CASE UNCHANGED vars
  BY <1>2, <1>10 DEF vars, storeVars
<1> QED
  BY <1>3, <1>4, <1>5, <1>6, <1>7, <1>8, <1>9, <1>10 DEF Next

-----------------------------------------------------------------------------
(* What a step of an invocation does to the audit and to Compute Engine.   *)

\* An action document never disappears, and gets SUBMITTED and COMPLETED only
\* after the calls that these record.
ActionsEffect(w) ==
  \/ actions' = actions
  \/ \E s \in ActionStatus \ {"NONE"} :
       /\ pc[w] \in LoopSteps
       /\ actions' = [actions EXCEPT ![job[w].event][job[w].on] = s]
       /\ s = "SUBMITTED" => pc[w] = "submitted"
       /\ s = "COMPLETED" => pc[w] = "completed"

\* A managed instance keeps its document; only a stop that is done dates it.
ManagedEffect(w) ==
  \/ managed' = managed
  \/ \E s \in ManagedStatus \ {"NONE"} :
       managed' = [managed EXCEPT ![job[w].on].status = s]
  \/ /\ pc[w] = "completedManaged" /\ Stopping(w)
     /\ managed' = [managed EXCEPT ![job[w].on] =
                      [status |-> "STOP_COMPLETED", stopCompletedAt |-> job[w].at]]

\* An operation is requested after its intent.
OpsEffect(w) ==
  \/ ops' = ops
  \/ /\ pc[w] = "submit"
     /\ ops[job[w].event][job[w].on] = "none"
     /\ ops' = [ops EXCEPT ![job[w].event][job[w].on] = "pending"]

\* What is left to do in the loop comes from the plan, and the plan from the
\* pending operations or, for a recovery, from the recoverable instances.
PlanEffect(w) ==
  pc'[w] \in LoopSteps /\ ActionOf(job[w].event) = "start" =>
    \/ pc[w] \in LoopSteps /\ job'[w].todo \subseteq job[w].todo
    \/ job'[w].todo \subseteq PendingActions(job[w].event)
    \/ job'[w].todo \subseteq RecoverableInstances(job[w].now)

AuditEffect(w) ==
  /\ ActionsEffect(w) /\ ManagedEffect(w) /\ OpsEffect(w) /\ PlanEffect(w)
  /\ AuditInv(w)'

\* What the ways to go on mean for the step and the plan of the invocation.
LEMMA NextStep ==
  ASSUME TypeOK, NEW w \in Workers
  PROVE  /\ \A s : Goto(w, s) => pc'[w] = s /\ job'[w] = job[w]
         /\ \A r, s : Throw(w, r, s) => pc'[w] = s /\ job'[w].event = job[w].event
         /\ \A r : Reject(w, r) => /\ pc'[w] = "failAction"
                                   /\ job'[w].event = job[w].event
                                   /\ job'[w].todo = job[w].todo
         /\ \A todo \in SUBSET Instances, b \in BOOLEAN :
              Proceed(w, todo, b) \/ StartPlan(w, todo, b) =>
                /\ pc'[w] \in {"control", "wait", "intent", "failEvent"}
                /\ job'[w].event = job[w].event
                /\ pc'[w] \in LoopSteps => job'[w].todo = todo
<1>1. /\ pc \in [Workers -> Steps] /\ job \in [Workers -> Jobs] /\ job[w] \in Jobs
  BY DEF TypeOK, WorkerTypeOK
<1>2. \A s : Goto(w, s) => pc'[w] = s /\ job'[w] = job[w]
  BY <1>1 DEF Goto
<1>3. \A r, s : Throw(w, r, s) => pc'[w] = s /\ job'[w].event = job[w].event
  BY <1>1 DEF Throw, NoJob
<1>4. \A r : Reject(w, r) => /\ pc'[w] = "failAction"
                             /\ job'[w].event = job[w].event
                             /\ job'[w].todo = job[w].todo
  BY <1>1 DEF Reject, Jobs
<1>5. ASSUME NEW todo \in SUBSET Instances, NEW b \in BOOLEAN, Proceed(w, todo, b)
      PROVE  /\ pc'[w] \in {"control", "wait", "intent", "failEvent"}
             /\ job'[w].event = job[w].event
             /\ pc'[w] \in LoopSteps => job'[w].todo = todo
  <2>1. CASE /\ pc'  = [pc EXCEPT ![w] = "control"]
             /\ job' = [job EXCEPT ![w] = [@ EXCEPT !.todo = {}, !.on = None, !.at = 0]]
    BY <1>1, <2>1 DEF Jobs, LoopSteps
  <2>2. ASSUME NEW i \in todo,
               pc'  = [pc EXCEPT ![w] = IF b THEN "wait" ELSE "intent"],
               job' = [job EXCEPT ![w] = [@ EXCEPT !.todo = todo, !.resumed = b,
                                                   !.on = i, !.at = 0]]
        PROVE  /\ pc'[w] \in {"control", "wait", "intent", "failEvent"}
               /\ job'[w].event = job[w].event
               /\ job'[w].todo = todo
    BY <1>1, <2>2 DEF Jobs
  <2> QED
    BY <1>5, <2>1, <2>2 DEF Proceed
<1>6. ASSUME NEW todo \in SUBSET Instances, NEW b \in BOOLEAN, StartPlan(w, todo, b)
      PROVE  /\ pc'[w] \in {"control", "wait", "intent", "failEvent"}
             /\ job'[w].event = job[w].event
             /\ pc'[w] \in LoopSteps => job'[w].todo = todo
  BY <1>3, <1>5, <1>6 DEF StartPlan, LoopSteps
<1> QED
  BY <1>2, <1>3, <1>4, <1>5, <1>6

\* Every step of an invocation does to the audit what AuditEffect says.
LEMMA WorkerStepAudit ==
  ASSUME TypeOK, NEW w \in Workers, InvocationInv(w), LoopInv(w), AuditInv(w), WorkerStep(w)
  PROVE  AuditEffect(w)
<1> USE DEF AuditEffect, ActionsEffect, ManagedEffect, OpsEffect, PlanEffect
<1>1. /\ pc \in [Workers -> Steps] /\ job \in [Workers -> Jobs] /\ job[w] \in Jobs
      /\ actions \in [Events -> [Instances -> ActionStatus]]
      /\ managed \in [Instances -> [status : ManagedStatus, stopCompletedAt : Nat]]
      /\ ops \in [Events -> [Instances -> OpStatus]]
  BY DEF TypeOK, StoreTypeOK, ComputeTypeOK, WorkerTypeOK
<1>2. pc[w] # "idle" /\ job[w].event \in Events
  BY DEF WorkerStep, Claim, CheckCooldown, ListPending, ListInstances, ListRecoverable,
     RecordIntent, RecordStopIntent, SubmitAction, RecordSubmitted, RecordManagedSubmitted,
     WaitForOperation, RecordCompleted, RecordManagedCompleted, RecordActionFailed,
     RecordManagedFailed, UpdateControl, Complete, Ignore, RecordFailure, Respond, Write,
     InvocationInv
\* A step that leaves the three and after which nothing is at stake.
<1>3. ASSUME UNCHANGED <<actions, managed, ops>>,
             pc'[w] \notin LoopSteps
      PROVE  AuditEffect(w)
  BY <1>3 DEF AuditInv, LoopSteps
<1>4. \A r, s : Throw(w, r, s) => pc'[w] = s
  BY NextStep
<1>5. \A s : Goto(w, s) => pc'[w] = s
  BY NextStep
<1>6. "failEvent" \notin LoopSteps /\ "respond" \notin LoopSteps
  BY DEF LoopSteps
<1>7. CASE Claim(w)
  <2>1. Gate(job[w].event) \notin LoopSteps
    BY DEF Gate, LoopSteps
  <2>2. UNCHANGED <<actions, managed, ops>>
    BY <1>7 DEF Claim, StoreFault, ClaimEvent, SetEvent, storeVars, computeVars
  <2> QED
    BY <1>3, <1>4, <1>5, <1>6, <1>7, <2>1, <2>2 DEF Claim, StoreFault
<1>8. CASE CheckCooldown(w)
  <2>1. pc'[w] \notin LoopSteps
    BY <1>4, <1>5, <1>8 DEF CheckCooldown, StoreFault, LoopSteps
  <2> QED
    BY <1>3, <1>8, <2>1 DEF CheckCooldown, StoreFault, storeVars, computeVars
<1>9. CASE ListPending(w)
  <2>1. PendingActions(job[w].event) \in SUBSET Instances
    BY DEF PendingActions
  <2>2. UNCHANGED <<actions, managed, ops>>
    BY <1>9 DEF ListPending, StoreFault, storeVars, computeVars
  <2>3. CASE StartPlan(w, PendingActions(job[w].event), TRUE)
    BY <2>1, <2>2, <2>3, NextStep DEF AuditInv
  <2>4. CASE Goto(w, "list") \/ \E r \in Errors : Throw(w, r, "failEvent")
    BY <1>3, <1>4, <1>5, <2>2, <2>4 DEF LoopSteps
  <2> QED
    BY <1>9, <2>3, <2>4 DEF ListPending, StoreFault, Errors
<1>10. CASE ListInstances(w)
  <2>1. \A status : Selected(status) \in SUBSET Instances
    BY ConstantTypes DEF Selected
  <2>2. UNCHANGED <<actions, managed, ops>>
    BY <1>10 DEF ListInstances, storeVars, computeVars
  <2>3. CASE DecisionOf[job[w].event] = "STOP" /\ StartPlan(w, Selected("RUNNING"), FALSE)
    BY <2>1, <2>2, <2>3, NextStep DEF AuditInv, ActionOf
  <2>4. CASE \/ pc' = [pc EXCEPT ![w] = "recoverable"]
             \/ \E r \in Errors : Throw(w, r, "failEvent")
    BY <1>1, <1>3, <1>4, <2>2, <2>4 DEF LoopSteps
  <2> QED
    BY <1>10, <2>3, <2>4 DEF ListInstances, Errors
<1>11. CASE ListRecoverable(w)
  <2>1. job[w].todo \cap RecoverableInstances(job[w].now) \in SUBSET Instances
    BY DEF RecoverableInstances
  <2>2. UNCHANGED <<actions, managed, ops>>
    BY <1>11 DEF ListRecoverable, StoreFault, storeVars, computeVars
  <2>3. CASE StartPlan(w, job[w].todo \cap RecoverableInstances(job[w].now), FALSE)
    <3>1. /\ pc'[w] \in {"control", "wait", "intent", "failEvent"}
          /\ pc'[w] \in LoopSteps =>
               job'[w].todo = job[w].todo \cap RecoverableInstances(job[w].now)
      BY <2>1, <2>3, NextStep
    <3>2. pc'[w] \in LoopSteps => job'[w].todo \subseteq RecoverableInstances(job[w].now)
      BY <3>1
    <3> QED
      BY <2>2, <3>1, <3>2 DEF AuditInv
  <2>4. CASE \E r \in Errors : Throw(w, r, "failEvent")
    BY <1>3, <1>4, <2>2, <2>4 DEF LoopSteps
  <2> QED
    BY <1>11, <2>3, <2>4 DEF ListRecoverable, StoreFault, Errors
<1>12. CASE RecordIntent(w)
  <2>1. /\ pc[w] = "intent" /\ UNCHANGED ops
        /\ \/ SetAction(job[w].event, job[w].on, "INTENT_RECORDED")
           \/ UNCHANGED <<actions, managed>>
    BY <1>12 DEF RecordIntent, Write, StoreFault, computeVars, storeVars
  <2>2. job[w].on \in Instances
    BY <2>1 DEF LoopInv, LoopSteps
  <2>3. ActionsEffect(w) /\ ManagedEffect(w) /\ OpsEffect(w)
    BY <2>1 DEF SetAction, ActionStatus, LoopSteps
  <2>4. CASE \E r \in Errors : Throw(w, r, "failEvent")
    BY <1>4, <2>3, <2>4 DEF LoopSteps, AuditInv
  <2>5. CASE /\ SetAction(job[w].event, job[w].on, "INTENT_RECORDED")
             /\ Goto(w, IF Stopping(w) THEN "intentManaged" ELSE "submit")
    <3>1. /\ job'[w] = job[w]
          /\ pc'[w] = "intentManaged" \/ (pc'[w] = "submit" /\ ~ Stopping(w))
      BY <2>5, NextStep
    <3>2. actions'[job[w].event][job[w].on] = "INTENT_RECORDED"
      BY <1>1, <1>2, <2>2, <2>5 DEF SetAction
    <3> QED
      BY <2>1, <2>3, <3>1, <3>2 DEF AuditInv, Stopping, ActionOf, LoopSteps
  <2> QED
    BY <1>12, <2>4, <2>5 DEF RecordIntent, Write, StoreFault, Errors
<1>13. CASE RecordStopIntent(w)
  <2>1. /\ pc[w] = "intentManaged" /\ UNCHANGED ops
        /\ \/ SetManaged(job[w].on, "STOP_INTENT")
           \/ UNCHANGED <<actions, managed>>
    BY <1>13 DEF RecordStopIntent, Write, StoreFault, computeVars, storeVars
  <2>2. job[w].on \in Instances
    BY <2>1 DEF LoopInv, LoopSteps
  <2>3. ActionsEffect(w) /\ ManagedEffect(w) /\ OpsEffect(w)
    BY <2>1 DEF SetManaged, ManagedStatus
  <2>4. CASE \E r \in Errors : Throw(w, r, "failEvent")
    BY <1>4, <2>3, <2>4 DEF LoopSteps, AuditInv
  <2>5. CASE SetManaged(job[w].on, "STOP_INTENT") /\ Goto(w, "submit")
    <3>1. job'[w] = job[w] /\ pc'[w] = "submit"
      BY <2>5, NextStep
    <3>2. managed'[job[w].on].status = "STOP_INTENT" /\ actions' = actions
      BY <1>1, <2>2, <2>5 DEF SetManaged
    <3> QED
      BY <2>1, <2>3, <3>1, <3>2 DEF AuditInv, LoopSteps
  <2> QED
    BY <1>13, <2>4, <2>5 DEF RecordStopIntent, Write, StoreFault, Errors
<1>14. CASE SubmitAction(w)
  <2>1. /\ pc[w] = "submit" /\ UNCHANGED <<actions, managed>>
        /\ UNCHANGED ops \/ Submit(job[w].event, job[w].on)
    BY <1>14 DEF SubmitAction, storeVars, computeVars
  <2>2. job[w].on \in Instances
    BY <2>1 DEF LoopInv, LoopSteps
  <2>3. ActionsEffect(w) /\ ManagedEffect(w) /\ OpsEffect(w)
    BY <2>1 DEF Submit, computeVars
  <2>4. CASE \E r \in Errors : Reject(w, r)
    BY <2>1, <2>3, <2>4, NextStep DEF LoopSteps, AuditInv
  <2>5. CASE Submit(job[w].event, job[w].on) /\ Goto(w, "submitted")
    <3>1. job'[w] = job[w] /\ pc'[w] = "submitted"
      BY <2>5, NextStep
    <3>2. ops'[job[w].event][job[w].on] # "none"
      BY <1>1, <1>2, <2>2, <2>5 DEF Submit, computeVars
    <3> QED
      BY <2>1, <2>3, <3>1, <3>2 DEF AuditInv, LoopSteps
  <2> QED
    BY <1>14, <2>4, <2>5 DEF SubmitAction, Errors
<1>15. CASE RecordSubmitted(w)
  <2>1. /\ pc[w] = "submitted" /\ UNCHANGED ops
        /\ \/ SetAction(job[w].event, job[w].on, "SUBMITTED")
           \/ UNCHANGED <<actions, managed>>
    BY <1>15 DEF RecordSubmitted, Write, StoreFault, computeVars, storeVars
  <2>3. ActionsEffect(w) /\ ManagedEffect(w) /\ OpsEffect(w)
    BY <2>1 DEF SetAction, ActionStatus, LoopSteps
  <2>4. (pc'[w] = "submittedManaged" /\ job'[w] = job[w]) \/ pc'[w] = "failEvent"
    BY <1>15, NextStep DEF RecordSubmitted, Write, StoreFault
  <2> QED
    BY <2>1, <2>3, <2>4 DEF AuditInv, LoopSteps
<1>16. CASE RecordManagedSubmitted(w)
  <2>1. /\ pc[w] = "submittedManaged" /\ UNCHANGED ops
        /\ \/ \E s \in {"STOP_SUBMITTED", "START_SUBMITTED"} : SetManaged(job[w].on, s)
           \/ UNCHANGED <<actions, managed>>
    BY <1>16 DEF RecordManagedSubmitted, Write, StoreFault, computeVars, storeVars
  <2>3. ActionsEffect(w) /\ ManagedEffect(w) /\ OpsEffect(w)
    BY <2>1 DEF SetManaged, ManagedStatus
  <2>4. (pc'[w] = "wait" /\ job'[w] = job[w]) \/ pc'[w] = "failEvent"
    BY <1>16, NextStep DEF RecordManagedSubmitted, Write, StoreFault
  <2> QED
    BY <2>1, <2>3, <2>4 DEF AuditInv, LoopSteps
<1>17. CASE WaitForOperation(w)
  <2>1. pc[w] = "wait" /\ UNCHANGED <<actions, managed, ops>>
    BY <1>17 DEF WaitForOperation, storeVars, computeVars
  <2>2. CASE \E r \in Errors : Reject(w, r) \/ Throw(w, r, "failEvent")
    BY <2>1, <2>2, NextStep DEF LoopSteps, AuditInv
  <2>3. CASE /\ ops[job[w].event][job[w].on] = "done"
             /\ pc'  = [pc EXCEPT ![w] = "completed"]
             /\ job' = [job EXCEPT ![w].at = clock]
    <3>1. /\ pc'[w] = "completed" /\ job'[w].event = job[w].event
          /\ job'[w].on = job[w].on /\ job'[w].todo = job[w].todo
      BY <1>1, <2>3 DEF Jobs
    <3> QED
      BY <2>1, <2>3, <3>1 DEF AuditInv, LoopSteps
  <2> QED
    BY <1>17, <2>2, <2>3 DEF WaitForOperation, Errors
<1>18. CASE RecordCompleted(w)
  <2>1. /\ pc[w] = "completed" /\ UNCHANGED ops
        /\ \/ SetAction(job[w].event, job[w].on, "COMPLETED")
           \/ UNCHANGED <<actions, managed>>
    BY <1>18 DEF RecordCompleted, Write, StoreFault, computeVars, storeVars
  <2>3. ActionsEffect(w) /\ ManagedEffect(w) /\ OpsEffect(w)
    BY <2>1 DEF SetAction, ActionStatus, LoopSteps
  <2>4. (pc'[w] = "completedManaged" /\ job'[w] = job[w]) \/ pc'[w] = "failEvent"
    BY <1>18, NextStep DEF RecordCompleted, Write, StoreFault
  <2> QED
    BY <2>1, <2>3, <2>4 DEF AuditInv, LoopSteps
<1>19. CASE RecordManagedCompleted(w)
  <2>1. /\ pc[w] = "completedManaged" /\ UNCHANGED ops
        /\ MarkCompleted(w) \/ UNCHANGED <<actions, managed>>
    BY <1>19 DEF RecordManagedCompleted, StoreFault, computeVars, storeVars
  <2>2. ActionsEffect(w) /\ ManagedEffect(w) /\ OpsEffect(w)
    BY <2>1 DEF MarkCompleted, SetStopCompleted, SetManaged, ManagedStatus
  <2>3. CASE \E r \in Errors : Throw(w, r, "failEvent")
    BY <1>4, <2>2, <2>3 DEF LoopSteps, AuditInv
  <2>4. CASE Proceed(w, job[w].todo \ {job[w].on}, job[w].resumed)
    <3>1. job[w].todo \ {job[w].on} \in SUBSET Instances /\ job[w].resumed \in BOOLEAN
      BY <1>1 DEF Jobs
    <3>2. /\ pc'[w] \in {"control", "wait", "intent", "failEvent"}
          /\ pc'[w] \in LoopSteps => job'[w].todo \subseteq job[w].todo
      BY <2>4, <3>1, NextStep
    <3> QED
      BY <2>1, <2>2, <3>2 DEF AuditInv, LoopSteps
  <2> QED
    BY <1>19, <2>3, <2>4 DEF RecordManagedCompleted, StoreFault, Errors
<1>20. CASE RecordActionFailed(w)
  <2>1. /\ pc[w] = "failAction" /\ UNCHANGED ops
        /\ \/ \E s \in {"FAILED", "FAILED_RETRYABLE"} : SetAction(job[w].event, job[w].on, s)
           \/ UNCHANGED <<actions, managed>>
    BY <1>20 DEF RecordActionFailed, Write, StoreFault, computeVars, storeVars
  <2>3. ActionsEffect(w) /\ ManagedEffect(w) /\ OpsEffect(w)
    BY <2>1 DEF SetAction, ActionStatus, LoopSteps
  <2>4. (pc'[w] = "failManaged" /\ job'[w] = job[w]) \/ pc'[w] = "failEvent"
    BY <1>20, NextStep DEF RecordActionFailed, Write, StoreFault
  <2> QED
    BY <2>1, <2>3, <2>4 DEF AuditInv, LoopSteps
<1>21. CASE RecordManagedFailed(w)
  <2>1. /\ pc[w] = "failManaged" /\ UNCHANGED ops
        /\ \/ \E s \in {"STOP_FAILED", "START_FAILED"} : SetManaged(job[w].on, s)
           \/ UNCHANGED <<actions, managed>>
    BY <1>21 DEF RecordManagedFailed, MarkFailed, StoreFault, computeVars, storeVars
  <2>3. ActionsEffect(w) /\ ManagedEffect(w) /\ OpsEffect(w)
    BY <2>1 DEF SetManaged, ManagedStatus
  <2>4. pc'[w] = "failEvent"
    BY <1>4, <1>21 DEF RecordManagedFailed, StoreFault
  <2> QED
    BY <2>3, <2>4 DEF AuditInv, LoopSteps
<1>22. CASE UpdateControl(w) \/ Complete(w) \/ Ignore(w) \/ RecordFailure(w)
  <2>1. UNCHANGED <<actions, managed, ops>>
    BY <1>22 DEF UpdateControl, Complete, Ignore, RecordFailure, Write, StoreFault,
       UpdateControlState, CompleteEvent, IgnoreEvent, FailEvent, SetEvent, storeVars,
       computeVars
  <2>2. pc'[w] \in {"complete", "respond", "failEvent"}
    BY <1>4, <1>5, <1>22 DEF UpdateControl, Complete, Ignore, RecordFailure, Write, StoreFault
  <2> QED
    BY <1>3, <2>1, <2>2 DEF LoopSteps
<1>23. CASE Respond(w)
  <2>1. pc'[w] = "idle"
    BY <1>1, <1>23 DEF Respond, EndInvocation
  <2> QED
    BY <1>3, <1>23, <2>1 DEF Respond, LoopSteps, storeVars, computeVars
<1> QED
  BY <1>7, <1>8, <1>9, <1>10, <1>11, <1>12, <1>13, <1>14, <1>15, <1>16, <1>17, <1>18,
     <1>19, <1>20, <1>21, <1>22, <1>23 DEF WorkerStep

-----------------------------------------------------------------------------
(* The audit and the ownership of recoveries.                              *)

\* The part of the inductive invariant about them.
RecordInv ==
  /\ AuditBeforeAction /\ AuditIsTrue /\ StartsOnlyOwned /\ OwnershipInv
  /\ \A w \in Workers : AuditInv(w)

\* Nothing that was recorded or done is undone.
Grows ==
  /\ \A e \in Events, i \in Instances :
       /\ actions[e][i] # "NONE" => actions'[e][i] # "NONE"
       /\ ops[e][i] # "none" => ops'[e][i] # "none"
       /\ ops[e][i] = "done" => ops'[e][i] = "done"
  /\ \A i \in Instances : managed[i].status # "NONE" => managed'[i].status # "NONE"

\* The effect on one document.
LEMMA EffectAt ==
  ASSUME TypeOK, NEW w \in Workers, AuditEffect(w)
  PROVE  /\ \A e \in Events, i \in Instances :
              \/ actions'[e][i] = actions[e][i]
              \/ /\ e = job[w].event /\ i = job[w].on
                 /\ actions'[e][i] # "NONE"
                 /\ actions'[e][i] = "SUBMITTED" => pc[w] = "submitted"
                 /\ actions'[e][i] = "COMPLETED" => pc[w] = "completed"
         /\ \A i \in Instances :
              \/ managed'[i] = managed[i]
              \/ /\ managed'[i].status # "NONE"
                 /\ \/ managed'[i].stopCompletedAt = managed[i].stopCompletedAt
                    \/ pc[w] = "completedManaged" /\ Stopping(w) /\ i = job[w].on
<1>1. /\ actions \in [Events -> [Instances -> ActionStatus]]
      /\ managed \in [Instances -> [status : ManagedStatus, stopCompletedAt : Nat]]
  BY DEF TypeOK, StoreTypeOK
<1>2. ASSUME NEW e \in Events, NEW i \in Instances
      PROVE  \/ actions'[e][i] = actions[e][i]
             \/ /\ e = job[w].event /\ i = job[w].on
                /\ actions'[e][i] # "NONE"
                /\ actions'[e][i] = "SUBMITTED" => pc[w] = "submitted"
                /\ actions'[e][i] = "COMPLETED" => pc[w] = "completed"
  <2>1. CASE actions' = actions
    BY <2>1
  <2>2. ASSUME NEW s \in ActionStatus \ {"NONE"},
               actions' = [actions EXCEPT ![job[w].event][job[w].on] = s],
               s = "SUBMITTED" => pc[w] = "submitted",
               s = "COMPLETED" => pc[w] = "completed"
        PROVE  \/ actions'[e][i] = actions[e][i]
               \/ /\ e = job[w].event /\ i = job[w].on
                  /\ actions'[e][i] # "NONE"
                  /\ actions'[e][i] = "SUBMITTED" => pc[w] = "submitted"
                  /\ actions'[e][i] = "COMPLETED" => pc[w] = "completed"
    <3>1. CASE e # job[w].event \/ i # job[w].on
      BY <1>1, <2>2, <3>1
    <3>2. CASE e = job[w].event /\ i = job[w].on
      <4>1. actions'[e][i] = s
        BY <1>1, <2>2, <3>2
      <4> QED
        BY <2>2, <3>2, <4>1
    <3> QED
      BY <3>1, <3>2
  <2> QED
    BY <2>1, <2>2 DEF AuditEffect, ActionsEffect
<1>3. ASSUME NEW i \in Instances
      PROVE  \/ managed'[i] = managed[i]
             \/ /\ managed'[i].status # "NONE"
                /\ \/ managed'[i].stopCompletedAt = managed[i].stopCompletedAt
                   \/ pc[w] = "completedManaged" /\ Stopping(w) /\ i = job[w].on
  <2>1. CASE managed' = managed
    BY <2>1
  <2>2. ASSUME NEW s \in ManagedStatus \ {"NONE"},
               managed' = [managed EXCEPT ![job[w].on].status = s]
        PROVE  \/ managed'[i] = managed[i]
               \/ /\ managed'[i].status # "NONE"
                  /\ managed'[i].stopCompletedAt = managed[i].stopCompletedAt
    BY <1>1, <2>2
  <2>3. CASE /\ pc[w] = "completedManaged" /\ Stopping(w)
             /\ managed' = [managed EXCEPT ![job[w].on] =
                              [status |-> "STOP_COMPLETED", stopCompletedAt |-> job[w].at]]
    BY <1>1, <2>3
  <2> QED
    BY <2>1, <2>2, <2>3 DEF AuditEffect, ManagedEffect
<1> QED
  BY <1>2, <1>3

\* No step of the system takes back an operation that is done or a first stop.
LEMMA StepGrows ==
  ASSUME TypeOK, \/ \E w \in Workers : AuditEffect(w)
                 \/ \E e \in Events, i \in Instances : Provider(e, i)
                 \/ UNCHANGED <<actions, managed, ops>>
  PROVE  Grows
<1> USE DEF Grows
<1>1. /\ actions \in [Events -> [Instances -> ActionStatus]]
      /\ managed \in [Instances -> [status : ManagedStatus, stopCompletedAt : Nat]]
      /\ ops \in [Events -> [Instances -> OpStatus]]
  BY DEF TypeOK, StoreTypeOK, ComputeTypeOK
<1>2. ASSUME NEW w \in Workers, AuditEffect(w)
      PROVE  Grows
  <2>1. \A e \in Events, i \in Instances : actions[e][i] # "NONE" => actions'[e][i] # "NONE"
    BY <1>2, EffectAt
  <2>2. \A e \in Events, i \in Instances :
           /\ ops[e][i] # "none" => ops'[e][i] # "none"
           /\ ops[e][i] = "done" => ops'[e][i] = "done"
    BY <1>1, <1>2 DEF AuditEffect, OpsEffect
  <2>3. \A i \in Instances : managed[i].status # "NONE" => managed'[i].status # "NONE"
    BY <1>2, EffectAt
  <2> QED
    BY <2>1, <2>2, <2>3
<1>3. ASSUME NEW e \in Events, NEW i \in Instances, Provider(e, i)
      PROVE  Grows
  BY <1>1, <1>3 DEF Provider, FinishOperation, FailOperation, storeVars
<1> QED
  BY <1>2, <1>3

\* An instance the automation has stopped stays one it has stopped.
LEMMA EverStoppedGrows ==
  ASSUME Grows, NEW i \in Instances, EverStopped(i)
  PROVE  EverStopped(i)'
BY DEF Grows, EverStopped

\* The invariant is kept by an invocation.
LEMMA WorkerStepRecords ==
  ASSUME TypeOK, LockInv, RecordInv, NEW w \in Workers, WorkerStep(w)
  PROVE  RecordInv'
<1>1. /\ pc \in [Workers -> Steps] /\ job \in [Workers -> Jobs]
      /\ actions \in [Events -> [Instances -> ActionStatus]]
      /\ managed \in [Instances -> [status : ManagedStatus, stopCompletedAt : Nat]]
      /\ ops \in [Events -> [Instances -> OpStatus]]
  BY DEF TypeOK, StoreTypeOK, ComputeTypeOK, WorkerTypeOK
<1>2. ControlEffect(w) /\ AuditEffect(w)
  BY WorkerStepControl, WorkerStepAudit DEF LockInv, RecordInv
<1>3. Grows
  BY <1>2, StepGrows
<1>4. /\ pc[w] # "idle" /\ job[w].event \in Events
      /\ AuditInv(w) /\ LoopInv(w)
      /\ \A v \in Workers : v # w => pc'[v] = pc[v] /\ job'[v] = job[v]
  BY <1>2 DEF ControlEffect, LockInv, InvocationInv, RecordInv
<1>5. AuditBeforeAction'
  <2> SUFFICES ASSUME NEW e \in Events, NEW i \in Instances, ops'[e][i] # "none"
               PROVE  /\ actions'[e][i] # "NONE"
                      /\ ActionOf(e) = "stop" => managed'[i].status # "NONE"
    BY DEF AuditBeforeAction
  <2>1. CASE ops[e][i] # "none"
    BY <1>3, <2>1 DEF Grows, RecordInv, AuditBeforeAction
  <2>2. CASE pc[w] = "submit" /\ e = job[w].event /\ i = job[w].on
    BY <1>3, <1>4, <2>2 DEF Grows, AuditInv
  <2> QED
    BY <1>1, <1>2, <2>1, <2>2 DEF AuditEffect, OpsEffect
<1>6. AuditIsTrue'
  <2> SUFFICES ASSUME NEW e \in Events, NEW i \in Instances
               PROVE  /\ actions'[e][i] = "SUBMITTED" => ops'[e][i] # "none"
                      /\ actions'[e][i] = "COMPLETED" => ops'[e][i] = "done"
    BY DEF AuditIsTrue
  <2>1. CASE actions'[e][i] = actions[e][i]
    BY <1>3, <2>1 DEF Grows, RecordInv, AuditIsTrue
  <2>2. CASE /\ e = job[w].event /\ i = job[w].on
             /\ actions'[e][i] = "SUBMITTED" => pc[w] = "submitted"
             /\ actions'[e][i] = "COMPLETED" => pc[w] = "completed"
    BY <1>3, <1>4, <2>2 DEF Grows, AuditInv
  <2> QED
    BY <1>2, <2>1, <2>2, EffectAt
<1>7. StartsOnlyOwned'
  <2> SUFFICES ASSUME NEW e \in Events, NEW i \in Instances,
                      ActionOf(e) = "start", ops'[e][i] # "none"
               PROVE  EverStopped(i)'
    BY DEF StartsOnlyOwned, EverStopped
  <2>1. EverStopped(i)
    <3>1. CASE ops[e][i] # "none"
      BY <3>1 DEF RecordInv, StartsOnlyOwned, EverStopped
    <3>2. CASE pc[w] = "submit" /\ e = job[w].event /\ i = job[w].on
      BY <1>4, <3>2 DEF RecordInv, OwnershipInv, LoopInv, LoopSteps
    <3> QED
      BY <1>1, <1>2, <3>1, <3>2 DEF AuditEffect, OpsEffect
  <2> QED
    BY <1>3, <2>1, EverStoppedGrows
<1>8. ASSUME NEW i \in Instances, managed'[i].stopCompletedAt # 0
      PROVE  EverStopped(i)'
  <2>1. EverStopped(i)
    <3>1. CASE managed'[i].stopCompletedAt = managed[i].stopCompletedAt
      BY <1>8, <3>1 DEF RecordInv, OwnershipInv
    <3>2. CASE pc[w] = "completedManaged" /\ Stopping(w) /\ i = job[w].on
      BY <1>4, <3>2 DEF AuditInv, Stopping, ActionOf, EverStopped
    <3> QED
      BY <1>2, <3>1, <3>2, EffectAt
  <2> QED
    BY <1>3, <2>1, EverStoppedGrows
<1>9. ASSUME NEW v \in Workers, pc'[v] \in LoopSteps, ActionOf(job'[v].event) = "start",
             NEW i \in job'[v].todo, i \in Instances
      PROVE  EverStopped(i)'
  <2>1. CASE v # w
    BY <1>3, <1>4, <1>9, <2>1, EverStoppedGrows DEF RecordInv, OwnershipInv
  <2>2. CASE v = w
    <3>1. job'[w].event = job[w].event
      BY <1>2, <1>9, <2>2 DEF ControlEffect, LoopSteps
    <3>2. CASE pc[w] \in LoopSteps /\ i \in job[w].todo
      BY <1>3, <1>9, <2>2, <3>1, <3>2, EverStoppedGrows DEF RecordInv, OwnershipInv
    <3>3. CASE i \in PendingActions(job[w].event)
      <4>1. ops[job[w].event][i] # "none"
        BY <1>4, <1>9, <3>3 DEF PendingActions, RecordInv, AuditIsTrue
      <4>2. EverStopped(i)
        BY <1>4, <1>9, <2>2, <3>1, <4>1 DEF RecordInv, StartsOnlyOwned, EverStopped
      <4> QED
        BY <1>3, <1>9, <4>2, EverStoppedGrows
    <3>4. CASE i \in RecoverableInstances(job[w].now)
      BY <1>3, <1>9, <3>4, EverStoppedGrows DEF RecoverableInstances, RecordInv, OwnershipInv
    <3> QED
      BY <1>2, <1>9, <2>2, <3>1, <3>2, <3>3, <3>4 DEF AuditEffect, PlanEffect
  <2> QED
    BY <2>1, <2>2
<1>10. \A v \in Workers : job'[v].todo \subseteq Instances
  BY WorkerStepTypes, <1>4 DEF TypeOK, WorkerTypeOK, Jobs
<1>11. ASSUME NEW v \in Workers
       PROVE  AuditInv(v)'
  <2>1. CASE v = w
    BY <1>2, <2>1 DEF AuditEffect
  <2>2. CASE v # w
    <3>1. pc'[v] = pc[v] /\ job'[v] = job[v] /\ AuditInv(v) /\ LoopInv(v) /\ InvocationInv(v)
      BY <1>4, <2>2 DEF RecordInv, LockInv
    <3>2. pc[v] \in LoopSteps => job[v].event \in Events /\ job[v].on \in Instances
      BY <3>1 DEF LoopInv, InvocationInv, LoopSteps
    <3> QED
      BY <1>3, <3>1, <3>2 DEF AuditInv, Grows, LoopSteps
  <2> QED
    BY <2>1, <2>2
<1> QED
  BY <1>5, <1>6, <1>7, <1>8, <1>9, <1>10, <1>11 DEF RecordInv, OwnershipInv

\* It is kept when nothing is written or requested, and no invocation gets on
\* with its loop.
LEMMA QuietStepRecords ==
  ASSUME TypeOK, LockInv, RecordInv, Grows, UNCHANGED <<actions, managed>>,
         \A e \in Events, i \in Instances : ops'[e][i] # "none" => ops[e][i] # "none",
         \A v \in Workers : \/ pc'[v] \notin LoopSteps
                            \/ pc'[v] = pc[v] /\ job'[v] = job[v]
  PROVE  RecordInv'
<1>1. \A v \in Workers : pc[v] \in LoopSteps =>
        /\ job[v].event \in Events /\ job[v].on \in Instances
        /\ job[v].todo \subseteq Instances
  BY DEF LockInv, LoopInv, InvocationInv, LoopSteps, TypeOK, WorkerTypeOK, Jobs
<1>2. AuditBeforeAction'
  BY DEF RecordInv, AuditBeforeAction
<1>3. AuditIsTrue'
  BY DEF RecordInv, AuditIsTrue, Grows
<1>4. StartsOnlyOwned'
  <2> SUFFICES ASSUME NEW e \in Events, NEW i \in Instances,
                      ActionOf(e) = "start", ops'[e][i] # "none"
               PROVE  EverStopped(i)'
    BY DEF StartsOnlyOwned, EverStopped
  <2>1. EverStopped(i)
    BY DEF RecordInv, StartsOnlyOwned, EverStopped
  <2> QED
    BY <2>1, EverStoppedGrows
<1>5. OwnershipInv'
  <2>1. ASSUME NEW i \in Instances, managed'[i].stopCompletedAt # 0
        PROVE  EverStopped(i)'
    BY <2>1, EverStoppedGrows DEF RecordInv, OwnershipInv
  <2>2. ASSUME NEW v \in Workers, pc'[v] \in LoopSteps, ActionOf(job'[v].event) = "start",
               NEW i \in job'[v].todo
        PROVE  EverStopped(i)'
    <3>1. pc'[v] = pc[v] /\ job'[v] = job[v]
      BY <2>2
    <3>2. EverStopped(i) /\ i \in Instances
      BY <1>1, <2>2, <3>1 DEF RecordInv, OwnershipInv
    <3> QED
      BY <3>2, EverStoppedGrows
  <2> QED
    BY <2>1, <2>2 DEF OwnershipInv
<1>6. ASSUME NEW v \in Workers
      PROVE  AuditInv(v)'
  <2>1. CASE pc'[v] \notin LoopSteps
    BY <2>1 DEF AuditInv, LoopSteps
  <2>2. CASE pc'[v] \in LoopSteps
    <3>1. /\ pc'[v] = pc[v] /\ job'[v] = job[v] /\ AuditInv(v)
          /\ job[v].event \in Events /\ job[v].on \in Instances
      BY <1>1, <2>2 DEF RecordInv
    <3> QED
      BY <3>1 DEF AuditInv, Grows
  <2> QED
    BY <2>1, <2>2
<1> QED
  BY <1>2, <1>3, <1>4, <1>5, <1>6 DEF RecordInv

\* A step that touches no record and no request, after which an invocation is
\* where it was in its loop or out of it.
Aside ==
  /\ UNCHANGED <<actions, managed, ops>>
  /\ \A v \in Workers : \/ pc'[v] \notin LoopSteps
                        \/ pc'[v] = pc[v] /\ job'[v] = job[v]

\* The invariant is kept by every step of the system.
LEMMA StepRecords ==
  ASSUME TypeOK, LockInv, RecordInv, [Next]_vars
  PROVE  RecordInv'
<1>1. /\ pc \in [Workers -> Steps] /\ job \in [Workers -> Jobs]
      /\ ops \in [Events -> [Instances -> OpStatus]]
  BY DEF TypeOK, ComputeTypeOK, WorkerTypeOK
<1>2. ASSUME Aside
      PROVE  RecordInv'
  BY <1>2, StepGrows, QuietStepRecords DEF Aside
<1>3. ASSUME NEW e \in Events, Publish(e) \/ Duplicate(e)
      PROVE  RecordInv'
  BY <1>2, <1>3 DEF Aside, Publish, Duplicate, storeVars, computeVars
<1>4. ASSUME NEW w \in Workers, NEW e \in Events, Delivery(w, e)
      PROVE  RecordInv'
  <2>1. CASE RejectStale(w, e)
    BY <1>2, <2>1 DEF Aside, RejectStale, storeVars, computeVars
  <2>2. CASE Receive(w, e)
    <3>1. /\ pc' = [pc EXCEPT ![w] = "claim"]
          /\ \A v \in Workers : v # w => job'[v] = job[v]
      BY <1>1, <2>2 DEF Receive
    <3>2. pc'[w] = "claim" /\ \A v \in Workers : v # w => pc'[v] = pc[v]
      BY <1>1, <3>1
    <3>3. UNCHANGED <<actions, managed, ops>>
      BY <2>2 DEF Receive, storeVars, computeVars
    <3>4. Aside
      BY <3>1, <3>2, <3>3 DEF Aside, LoopSteps
    <3> QED
      BY <1>2, <3>4
  <2> QED
    BY <1>4, <2>1, <2>2 DEF Delivery
<1>5. ASSUME NEW w \in Workers, WorkerStep(w)
      PROVE  RecordInv'
  BY <1>5, WorkerStepRecords
<1>6. ASSUME NEW w \in Workers, Crash(w) \/ Timeout(w)
      PROVE  RecordInv'
  <2>1. /\ pc' = [pc EXCEPT ![w] = "idle"]
        /\ \A v \in Workers : v # w => job'[v] = job[v]
    BY <1>1, <1>6 DEF Crash, Timeout, EndInvocation
  <2>2. pc'[w] = "idle" /\ \A v \in Workers : v # w => pc'[v] = pc[v]
    BY <1>1, <2>1
  <2>3. UNCHANGED <<actions, managed, ops>>
    BY <1>6 DEF Crash, Timeout, storeVars, computeVars
  <2>4. Aside
    BY <2>1, <2>2, <2>3 DEF Aside, LoopSteps
  <2> QED
    BY <1>2, <2>4
<1>7. ASSUME NEW e \in Events, NEW i \in Instances, Provider(e, i)
      PROVE  RecordInv'
  <2>1. /\ UNCHANGED <<actions, managed, pc, job>>
        /\ \A f \in Events, j \in Instances : ops'[f][j] # "none" => ops[f][j] # "none"
    BY <1>1, <1>7 DEF Provider, FinishOperation, FailOperation, storeVars
  <2> QED
    BY <1>7, <2>1, StepGrows, QuietStepRecords
<1>8. ASSUME NEW i \in Instances, Operator(i)
      PROVE  RecordInv'
  BY <1>2, <1>8 DEF Aside, Operator, OperatorStop, OperatorStart, storeVars
<1>9. CASE Tick
  BY <1>2, <1>9 DEF Aside, Tick, storeVars, computeVars
<1>10. CASE UNCHANGED vars
  BY <1>2, <1>10 DEF Aside, vars, storeVars, computeVars
<1> QED
  BY <1>3, <1>4, <1>5, <1>6, <1>7, <1>8, <1>9, <1>10 DEF Next

-----------------------------------------------------------------------------
(* The theorems.                                                           *)

\* The inductive invariant is its three parts, which are proved one by one.
LEMMA IndInvParts == IndInv <=> TypeOK /\ LockInv /\ RecordInv
BY DEF IndInv, LockInv, RecordInv, WorkerInv

\* At the start nothing is held, recorded or requested.
LEMMA InitIndInv == Init => IndInv
<1> SUFFICES ASSUME Init
             PROVE  TypeOK /\ LockInv /\ RecordInv
  BY IndInvParts
<1>1. TypeOK
  <2>1. StoreTypeOK
    BY DEF Init, StoreInit, StoreTypeOK, EventStatus, ActionStatus, ManagedStatus
  <2>2. ComputeTypeOK
    BY DEF Init, ComputeInit, ComputeTypeOK, VmStatus, Stoppers, OpStatus
  <2>3. WorkerTypeOK
    BY ConstantTypes DEF Init, WorkerTypeOK, MessageState, Steps, Jobs, NoJob, Errors
  <2> QED
    BY <2>1, <2>2, <2>3 DEF TypeOK
<1>2. \A w \in Workers : pc[w] = "idle"
  BY DEF Init
<1>3. LockInv
  BY <1>2 DEF LockInv, OneHolder, InvocationInv, LoopInv, LoopSteps, ClaimInv, Holding
<1>4. /\ \A e \in Events, i \in Instances : ops[e][i] = "none" /\ actions[e][i] = "NONE"
      /\ \A i \in Instances : managed[i].stopCompletedAt = 0
  BY DEF Init, StoreInit, ComputeInit
<1>5. RecordInv
  BY <1>2, <1>4 DEF RecordInv, AuditBeforeAction, AuditIsTrue, StartsOnlyOwned, OwnershipInv,
     AuditInv, LoopSteps
<1> QED
  BY <1>1, <1>3, <1>5

\* Every step of the system keeps the three parts.
LEMMA StepIndInv == IndInv /\ [Next]_vars => IndInv'
<1> SUFFICES ASSUME TypeOK, LockInv, RecordInv, [Next]_vars
             PROVE  TypeOK' /\ LockInv' /\ RecordInv'
  BY IndInvParts DEF IndInv, LockInv, RecordInv, WorkerInv
<1>1. TypeOK'
  BY StepTypes DEF LockInv, InvocationInv
<1>2. LockInv'
  BY StepLock
<1>3. RecordInv'
  BY StepRecords
<1> QED
  BY <1>1, <1>2, <1>3

\* The inductive invariant is one: every invocation acts inside the lease it
\* took and on what it recorded, whatever fails and however many there are.
THEOREM Inductive == Spec => []IndInv
BY InitIndInv, StepIndInv, PTL DEF Spec

\* Every document, local variable and operation has its type.
THEOREM TypeCorrect == Spec => []TypeOK
<1>1. IndInv => TypeOK
  BY DEF IndInv
<1> QED
  BY <1>1, Inductive, PTL

\* claimEvent keeps two invocations off one event, for every lease that is
\* longer than the timeout of the function.
THEOREM Exclusion == Spec => []OneHolder
<1>1. IndInv => OneHolder
  BY DEF IndInv
<1> QED
  BY <1>1, Inductive, PTL

\* recordActionIntent comes before submitAction: no operation without its audit.
THEOREM Audited == Spec => []AuditBeforeAction
<1>1. IndInv => AuditBeforeAction
  BY DEF IndInv
<1> QED
  BY <1>1, Inductive, PTL

\* SUBMITTED and COMPLETED documents tell what Compute Engine was asked and did.
THEOREM AuditHonest == Spec => []AuditIsTrue
<1>1. IndInv => AuditIsTrue
  BY DEF IndInv
<1> QED
  BY <1>1, Inductive, PTL

\* No recovery starts an instance the automation has never stopped.
THEOREM RecoveryOwned == Spec => []StartsOnlyOwned
<1>1. IndInv => StartsOnlyOwned
  BY DEF IndInv
<1> QED
  BY <1>1, Inductive, PTL

\* Requests are made and actions recorded only under the active lease of claimEvent,
\* for any number of invocations, redeliveries, timeouts and faults.
THEOREM LeasedActions == Spec => ActsUnderLease
<1> DEFINE A == \A e \in Events, i \in Instances :
                  (ops[e][i] = "none" /\ ops'[e][i] # "none") \/ actions'[e][i] # actions[e][i] =>
                    events[e].status = "PROCESSING" /\ events[e].leaseUntil > clock
<1>1. IndInv /\ [Next]_vars => [A]_vars
  <2> SUFFICES ASSUME TypeOK, LockInv, RecordInv, Next,
                      NEW e \in Events, NEW i \in Instances,
                      (ops[e][i] = "none" /\ ops'[e][i] # "none") \/ actions'[e][i] # actions[e][i]
               PROVE  events[e].status = "PROCESSING" /\ events[e].leaseUntil > clock
    BY IndInvParts
  <2>1. /\ ops \in [Events -> [Instances -> OpStatus]] /\ clock \in Nat
        /\ actions \in [Events -> [Instances -> ActionStatus]]
    BY DEF TypeOK, StoreTypeOK, ComputeTypeOK, WorkerTypeOK
  <2>2. ASSUME NEW w \in Workers, WorkerStep(w)
        PROVE  events[e].status = "PROCESSING" /\ events[e].leaseUntil > clock
    <3>1. AuditEffect(w)
      BY <2>2, WorkerStepAudit DEF LockInv, RecordInv
    <3>2. pc[w] \in LoopSteps /\ job[w].event = e
      <4>1. CASE ops[e][i] = "none" /\ ops'[e][i] # "none"
        BY <2>1, <3>1, <4>1 DEF AuditEffect, OpsEffect, LoopSteps
      <4>2. CASE actions'[e][i] # actions[e][i]
        BY <2>1, <3>1, <4>2 DEF AuditEffect, ActionsEffect
      <4> QED
        BY <4>1, <4>2
    <3>3. Lock(w) /\ clock <= job[w].now + FunctionTimeout
      BY <3>2 DEF LockInv, ClaimInv, InvocationInv, Holding, LoopSteps
    <3>4. job[w].now \in Nat
      BY DEF TypeOK, WorkerTypeOK, Jobs
    <3> QED
      BY <2>1, <3>2, <3>3, <3>4, ConstantTypes DEF Lock
  <2>3. CASE UNCHANGED <<ops, actions>>
    BY <2>3
  <2>4. ASSUME NEW f \in Events, NEW j \in Instances, Provider(f, j)
        PROVE  FALSE
    BY <2>1, <2>4 DEF Provider, FinishOperation, FailOperation, storeVars
  <2> QED
    BY <2>2, <2>3, <2>4 DEF Next, Publish, Duplicate, Delivery, Receive, RejectStale, Crash,
       Timeout, Operator, OperatorStop, OperatorStart, Tick, computeVars, storeVars
<1> QED
  BY <1>1, Inductive, PTL DEF Spec, ActsUnderLease

-----------------------------------------------------------------------------
(* The worker implements EventClaims.  Which event documents a step of an  *)
(* invocation writes is EventEffect; here each of its cases is a step of   *)
(* EventClaims or none.                                                    *)

\* The mapped state, event by event.
LEMMA MappedAt ==
  ASSUME NEW e \in Events
  PROVE  /\ \A v \in Workers : v \in Holders[e] <=> Holding(v) /\ job[v].event = e
         /\ \A v \in Workers : v \in Holders'[e] <=> Holding(v)' /\ job'[v].event = e
         /\ Holders[e] \subseteq Workers /\ Holders'[e] \subseteq Workers
BY DEF Holders

\* An event that the same invocations hold as before.
LEMMA SameHolders ==
  ASSUME NEW e \in Events,
         \A v \in Workers : Holding(v)' /\ job'[v].event = e <=> Holding(v) /\ job[v].event = e
  PROVE  Holders'[e] = Holders[e]
<1>1. \A v \in Workers : v \in Holders'[e] <=> v \in Holders[e]
  BY MappedAt
<1>2. Holders[e] \subseteq Workers /\ Holders'[e] \subseteq Workers
  BY MappedAt
<1> QED
  BY <1>1, <1>2

\* Whoever holds an event holds it alone.
LEMMA HeldAlone ==
  ASSUME LockInv, NEW w \in Workers, Holding(w), job[w].event \in Events
  PROVE  Holders[job[w].event] = {w}
BY MappedAt DEF LockInv, OneHolder

\* A step of an invocation changes, of the holders, whether it is one itself.
LEMMA OthersHold ==
  ASSUME NEW w \in Workers, job[w].event \in Events, ControlEffect(w)
  PROVE  Holders' = [Holders EXCEPT ![job[w].event] =
                       IF Holding(w)' THEN @ \cup {w} ELSE @ \ {w}]
<1> DEFINE e == job[w].event
<1>1. \A v \in Workers : v # w => (Holding(v)' <=> Holding(v)) /\ job'[v] = job[v]
  BY DEF ControlEffect, Holding
<1>2. Holding(w)' => job'[w].event = e
  BY DEF ControlEffect, Holding
<1>3. Holders'[e] = IF Holding(w)' THEN Holders[e] \cup {w} ELSE Holders[e] \ {w}
  <2>1. \A v \in Workers : v \in Holders'[e] <=> IF v = w THEN Holding(w)' ELSE v \in Holders[e]
    BY <1>1, <1>2, MappedAt
  <2>2. Holders[e] \subseteq Workers /\ Holders'[e] \subseteq Workers
    BY MappedAt
  <2> HIDE DEF e
  <2> QED
    BY <2>1, <2>2
<1>4. ASSUME NEW f \in Events, f # e PROVE Holders'[f] = Holders[f]
  BY <1>1, <1>2, <1>4, SameHolders
<1> QED
  BY <1>3, <1>4 DEF Holders

\* The write of one event document decides that event and no other.
LEMMA OutcomeWritten ==
  ASSUME TypeOK, NEW e \in Events, NEW status, NEW lease, SetEvent(e, status, lease)
  PROVE  Outcome' = [Outcome EXCEPT ![e] =
                       IF status \in {"COMPLETED", "IGNORED"} THEN "settled"
                       ELSE IF status = "FAILED" THEN "failed" ELSE "open"]
<1>1. /\ events'[e].status = status
      /\ \A f \in Events : f # e => events'[f] = events[f]
  BY DEF SetEvent, TypeOK, StoreTypeOK
<1> QED
  BY <1>1 DEF Outcome

\* An event that is held, or that can be claimed, has not failed.
LEMMA HeldHasNotFailed ==
  ASSUME LockInv, NEW w \in Workers, Holding(w), job[w].event \in Events
  PROVE  Outcome[job[w].event] # "failed"
BY DEF LockInv, ClaimInv, Lock, Outcome

-----------------------------------------------------------------------------
(* Each step.                                                              *)

LEMMA WorkerStepClaims ==
  ASSUME TypeOK, LockInv, NEW w \in Workers, WorkerStep(w)
  PROVE  [Claims!ClaimsNext]_(Claims!claimVars)
<1> DEFINE e == job[w].event
<1>1. ControlEffect(w) /\ EventEffect(w)
  BY WorkerStepControl, WorkerStepEvents DEF LockInv
<1>2. e \in Events /\ pc[w] # "idle"
  BY <1>1 DEF ControlEffect, LockInv, InvocationInv
<1>3. Holders' = [Holders EXCEPT ![e] = IF Holding(w)' THEN @ \cup {w} ELSE @ \ {w}]
  BY <1>1, <1>2, OthersHold
<1>4. Holders \in [Events -> SUBSET Workers] /\ Outcome \in [Events -> Claims!Outcomes]
  BY DEF Holders, Outcome, Claims!Outcomes
<1>5. Holding(w) => Holders[e] = {w} /\ Outcome[e] # "failed"
  BY <1>2, HeldAlone, HeldHasNotFailed
<1>6. ~Holding(w) => w \notin Holders[e]
  BY <1>2, MappedAt
<1> HIDE DEF e
<1>7. CASE events' = events /\ (Holding(w)' => Holding(w) /\ pc[w] # "failEvent")
  <2>1. Outcome' = Outcome
    BY <1>7 DEF Outcome
  <2>2. CASE Holding(w) /\ ~Holding(w)'
    <3>1. Holders' = [Holders EXCEPT ![e] = {}]
      BY <1>2, <1>3, <1>4, <1>5, <2>2
    <3>2. Claims!Release(w, e)
      BY <1>5, <2>1, <2>2, <3>1 DEF Claims!Release
    <3> QED
      BY <1>2, <3>2 DEF Claims!ClaimsNext
  <2>3. CASE ~(Holding(w) /\ ~Holding(w)')
    <3>1. Holders' = Holders
      BY <1>2, <1>3, <1>4, <1>5, <1>6, <1>7, <2>3
    <3> QED
      BY <2>1, <3>1 DEF Claims!claimVars
  <2> QED
    BY <2>2, <2>3
<1>8. CASE /\ pc[w] = "claim" /\ Claimable(e, job[w].now)
           /\ ClaimEvent(e, job[w].now)
  <2>1. Outcome[e] = "open"
    BY <1>2, <1>8 DEF Claimable, Settled, Outcome
  <2>2. Outcome' = Outcome
    BY <1>2, <1>4, <1>8, <2>1, OutcomeWritten DEF ClaimEvent
  <2>3. Holders[e] = {}
    <3>1. \A v \in Workers : ~(Holding(v) /\ job[v].event = e)
      BY <1>2, <1>8, HeldNotClaimable DEF e
    <3> QED
      BY <1>2, <3>1, MappedAt
  <2>4. CASE Holding(w)'
    <3>1. Holders' = [Holders EXCEPT ![e] = {w}]
      BY <1>2, <1>3, <1>4, <2>3, <2>4
    <3>2. Claims!Take(w, e)
      BY <2>1, <2>2, <2>3, <3>1 DEF Claims!Take
    <3> QED
      BY <1>2, <3>2 DEF Claims!ClaimsNext
  <2>5. CASE ~Holding(w)'
    <3>1. Holders' = Holders
      BY <1>2, <1>3, <1>4, <2>3, <2>5
    <3> QED
      BY <2>2, <3>1 DEF Claims!claimVars
  <2> QED
    BY <2>4, <2>5
<1>9. CASE /\ Holding(w)
           /\ \E status \in {"COMPLETED", "IGNORED", "FAILED", "FAILED_RETRYABLE"} :
                SetEvent(e, status, 0)
  <2>1. \E o \in Claims!Outcomes : Outcome' = [Outcome EXCEPT ![e] = o]
    BY <1>2, <1>9, OutcomeWritten DEF Claims!Outcomes
  <2>2. Holders' = Holders \/ Holders' = [Holders EXCEPT ![e] = {}]
    BY <1>2, <1>3, <1>4, <1>5, <1>9
  <2>3. Claims!Decide(w, e)
    BY <1>5, <1>9, <2>1, <2>2 DEF Claims!Decide
  <2> QED
    BY <1>2, <2>3 DEF Claims!ClaimsNext
<1> QED
  BY <1>1, <1>7, <1>8, <1>9
     DEF e, EventEffect, CompleteEvent, IgnoreEvent, FailEvent, Holding

\* An invocation that dies lets go of its event.
LEMMA DeathReleases ==
  ASSUME TypeOK, LockInv, NEW w \in Workers, Crash(w) \/ Timeout(w)
  PROVE  [Claims!ClaimsNext]_(Claims!claimVars)
<1> DEFINE e == job[w].event
<1>1. /\ pc \in [Workers -> Steps] /\ job \in [Workers -> Jobs]
      /\ pc' = [pc EXCEPT ![w] = "idle"] /\ job' = [job EXCEPT ![w] = NoJob]
      /\ pc[w] # "idle" /\ UNCHANGED events
  BY DEF Crash, Timeout, EndInvocation, storeVars, TypeOK, WorkerTypeOK
<1>2. e \in Events
  BY <1>1 DEF LockInv, InvocationInv
<1>3. ~Holding(w)' /\ \A v \in Workers : v # w => (Holding(v)' <=> Holding(v)) /\ job'[v] = job[v]
  BY <1>1 DEF Holding
<1>4. Outcome' = Outcome
  BY <1>1 DEF Outcome
<1>5. CASE Holding(w)
  <2>1. Holders[e] = {w}
    BY <1>2, <1>5, HeldAlone
  <2>2. Holders'[e] = {}
    BY <1>2, <1>3, <2>1, MappedAt
  <2>3. ASSUME NEW f \in Events, f # e PROVE Holders'[f] = Holders[f]
    BY <1>3, <2>3, SameHolders
  <2>4. Holders' = [Holders EXCEPT ![e] = {}]
    BY <2>2, <2>3 DEF Holders
  <2>5. Claims!Release(w, e)
    BY <1>4, <2>1, <2>4 DEF Claims!Release
  <2> QED
    BY <1>2, <2>5 DEF Claims!ClaimsNext
<1>6. CASE ~Holding(w)
  <2>1. Holders' = Holders
    BY <1>3, <1>6 DEF Holders
  <2> QED
    BY <1>4, <2>1 DEF Claims!claimVars
<1> QED
  BY <1>5, <1>6

\* The start of an invocation takes nothing yet.
LEMMA ReceiveTakesNothing ==
  ASSUME TypeOK, NEW w \in Workers, NEW e \in Events, Receive(w, e)
  PROVE  UNCHANGED <<Holders, Outcome>>
<1>1. /\ pc \in [Workers -> Steps] /\ job \in [Workers -> Jobs]
      /\ pc' = [pc EXCEPT ![w] = "claim"]
      /\ job' = [job EXCEPT ![w] = [NoJob EXCEPT !.event = e, !.now = clock]]
      /\ pc[w] = "idle" /\ UNCHANGED events
  BY DEF Receive, storeVars, TypeOK, WorkerTypeOK
<1>2. /\ ~Holding(w) /\ ~Holding(w)'
      /\ \A v \in Workers : v # w => (Holding(v)' <=> Holding(v)) /\ job'[v] = job[v]
  BY <1>1 DEF Holding
<1> QED
  BY <1>1, <1>2 DEF Holders, Outcome

LEMMA StepClaims ==
  ASSUME TypeOK, LockInv, [Next]_vars
  PROVE  [Claims!ClaimsNext]_(Claims!claimVars)
<1>1. ASSUME UNCHANGED <<events, pc, job>>
      PROVE  UNCHANGED Claims!claimVars
  BY <1>1 DEF Claims!claimVars, Holders, Outcome, Holding
<1>2. ASSUME NEW e \in Events, Publish(e) \/ Duplicate(e)
      PROVE  UNCHANGED Claims!claimVars
  BY <1>1, <1>2 DEF Publish, Duplicate, storeVars
<1>3. ASSUME NEW w \in Workers, NEW e \in Events, Delivery(w, e)
      PROVE  UNCHANGED Claims!claimVars
  <2>1. CASE Receive(w, e)
    BY <2>1, ReceiveTakesNothing DEF Claims!claimVars
  <2>2. CASE RejectStale(w, e)
    BY <1>1, <2>2 DEF RejectStale, storeVars
  <2> QED
    BY <1>3, <2>1, <2>2 DEF Delivery
<1>4. ASSUME NEW e \in Events, NEW i \in Instances, Provider(e, i)
      PROVE  UNCHANGED Claims!claimVars
  BY <1>1, <1>4 DEF Provider, storeVars
<1>5. ASSUME NEW i \in Instances, Operator(i)
      PROVE  UNCHANGED Claims!claimVars
  BY <1>1, <1>5 DEF Operator, storeVars
<1>6. CASE Tick \/ UNCHANGED vars
  BY <1>1, <1>6 DEF Tick, vars, storeVars
<1> QED
  BY <1>2, <1>3, <1>4, <1>5, <1>6, WorkerStepClaims, DeathReleases DEF Next

\* The worker implements EventClaims, with any number of invocations, redeliveries,
\* crashes and failing writes (ImplementsClaims; claimEvent, failEvent, the timeouts).
THEOREM WorkerImplementsClaims == Spec => ImplementsClaims
<1>1. Init => Claims!ClaimsInit
  BY DEF Init, StoreInit, Claims!ClaimsInit, Holders, Outcome, Holding
<1>2. IndInv /\ [Next]_vars => [Claims!ClaimsNext]_(Claims!claimVars)
  BY StepClaims, IndInvParts
<1> QED
  BY <1>1, <1>2, Inductive, PTL DEF Spec, ImplementsClaims, Claims!ClaimsSpec

=============================================================================
