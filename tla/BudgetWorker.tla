---------------------------- MODULE BudgetWorker ----------------------------
(***************************************************************************)
(* The budget worker, src/src/handler.js, in execute mode: function        *)
(* instances that receive budget events from an at-least-once Pub/Sub      *)
(* trigger, claim each event in the audit store, plan the stops or starts  *)
(* the decision of the event calls for, and execute them one instance      *)
(* after the other, each with a record of the intent, of the submission    *)
(* and of the end.                                                         *)
(*                                                                         *)
(* Every await of the code is a step: a read or a write of the store, a    *)
(* call of Compute Engine.  A call can fail, and a write that fails may    *)
(* have been applied.  An invocation can die between two steps, or is      *)
(* killed when it reaches the timeout of the function.  What can go wrong  *)
(* is named in FaultKinds and happens at most MaxFaults times.             *)
(***************************************************************************)
EXTENDS AuditStore, ComputeEngine

CONSTANTS
  Workers,             \* function instances that may run at a time
  Eligible,            \* instances inside the configured scope
  AutomationEnabled,   \* AUTOMATION_ENABLED
  Cooldown,            \* COOLDOWN_SECONDS
  MaxActions,          \* MAX_ACTIONS_PER_EVENT
  MaxEventAge,         \* MAX_EVENT_AGE_SECONDS
  FunctionTimeout,     \* timeout_seconds of the function
  FaultKinds,          \* what may go wrong in this instance of the model
  MaxFaults,           \* bound: how often
  MaxTime,             \* bound: the last time of the clock
  None                 \* no event, no instance

AllFaults == {"store", "provider", "operation", "crash", "duplicate", "operator"}

ASSUME ScopeAssumption  == Eligible \subseteq Instances
ASSUME FiniteAssumption == IsFiniteSet(Instances)
ASSUME NoneAssumption   == None \notin Events \cup Instances
ASSUME LimitAssumption  ==
  /\ AutomationEnabled \in BOOLEAN
  /\ Cooldown \in Nat /\ MaxActions \in Nat \ {0} /\ MaxEventAge \in Nat
  /\ FunctionTimeout \in Nat \ {0} /\ MaxTime \in Nat \ {0} /\ MaxFaults \in Nat
  /\ FaultKinds \subseteq AllFaults

(* The lease of an event outlives the invocation that took it: 600 against *)
(* 540 seconds in the deployment of the repository.                        *)
ASSUME TimeoutAssumption == FunctionTimeout < Lease

VARIABLES
  topic,     \* the message of each event: where it is, when it was published
  pc,        \* what each worker awaits next
  job,       \* the local variables of its invocation
  clock,     \* the time
  faults     \* how many things have gone wrong

vars == <<storeVars, computeVars, topic, pc, job, clock, faults>>

-----------------------------------------------------------------------------

MessageState == {"unpublished", "ready", "inflight", "acked"}

Steps ==
  {"idle", "claim", "cooldown", "ignore", "pending", "list", "recoverable",
   "intent", "intentManaged", "submit", "submitted", "submittedManaged",
   "wait", "completed", "completedManaged", "control", "complete",
   "failAction", "failManaged", "failEvent", "respond"}

Errors == {"none", "retryable", "terminal"}

\* event, now: the event of the invocation and the time it started.
\* todo: the planned instances that are left.  resumed: they are operations
\* an earlier attempt submitted.  on: the instance the loop is at.
\* at: completedAt.  error: what the invocation will throw.
Jobs == [event : Events \cup {None}, now : Nat, todo : SUBSET Instances,
         resumed : BOOLEAN, on : Instances \cup {None}, at : Nat, error : Errors]

NoJob == [event |-> None, now |-> 0, todo |-> {}, resumed |-> FALSE,
          on |-> None, at |-> 0, error |-> "none"]

WorkerTypeOK ==
  /\ topic  \in [Events -> [state : MessageState, publishedAt : Nat]]
  /\ pc     \in [Workers -> Steps]
  /\ job    \in [Workers -> Jobs]
  /\ clock  \in Nat \ {0}
  /\ faults \in 0..MaxFaults

TypeOK == StoreTypeOK /\ ComputeTypeOK /\ WorkerTypeOK

Init ==
  /\ StoreInit
  /\ ComputeInit
  /\ topic  = [e \in Events |-> [state |-> "unpublished", publishedAt |-> 0]]
  /\ pc     = [w \in Workers |-> "idle"]
  /\ job    = [w \in Workers |-> NoJob]
  /\ clock  = 1
  /\ faults = 0

-----------------------------------------------------------------------------
(* Helpers of the steps.                                                   *)

\* Something goes wrong.
Fault(kind) ==
  /\ kind \in FaultKinds
  /\ faults < MaxFaults
  /\ faults' = faults + 1

Goto(w, step) ==
  /\ pc' = [pc EXCEPT ![w] = step]
  /\ UNCHANGED job

\* The workflow throws this error and leaves its loop; the step is what
\* remains to be done.
Throw(w, error, step) ==
  /\ pc'  = [pc EXCEPT ![w] = step]
  /\ job' = [job EXCEPT ![w] = [NoJob EXCEPT !.event = job[w].event, !.now = job[w].now,
                                              !.error = error]]

\* The action on the instance of the loop failed: recordActionFailed is next.
Reject(w, error) ==
  /\ pc'  = [pc EXCEPT ![w] = "failAction"]
  /\ job' = [job EXCEPT ![w].error = error]

\* The loop goes on with one of the instances of todo, or is over.
Proceed(w, todo, resumed) ==
  \/ /\ todo = {}
     /\ pc'  = [pc EXCEPT ![w] = "control"]
     /\ job' = [job EXCEPT ![w] = [@ EXCEPT !.todo = {}, !.on = None, !.at = 0]]
  \/ \E i \in todo :
       /\ pc'  = [pc EXCEPT ![w] = IF resumed THEN "wait" ELSE "intent"]
       /\ job' = [job EXCEPT ![w] = [@ EXCEPT !.todo = todo, !.resumed = resumed,
                                                  !.on = i, !.at = 0]]

\* enforceActionLimit on a plan, then the loop.
StartPlan(w, todo, resumed) ==
  IF Cardinality(todo) > MaxActions
  THEN Throw(w, "terminal", "failEvent")
  ELSE Proceed(w, todo, resumed)

\* A call of the store failed: wrapStoreError makes it retryable, and the
\* write it stands for may have been applied all the same.
StoreFault(w, Applied, step) ==
  /\ Fault("store")
  /\ Applied \/ UNCHANGED storeVars
  /\ Throw(w, "retryable", step)

\* One document write, and the step after it.
Write(w, step, Doc, next) ==
  /\ pc[w] = step
  /\ \/ Doc /\ Goto(w, next) /\ UNCHANGED faults
     \/ StoreFault(w, Doc, "failEvent")
  /\ UNCHANGED <<computeVars, topic, clock>>

-----------------------------------------------------------------------------
(* The message of an event.                                                *)

Publish(e) ==
  /\ topic[e].state = "unpublished"
  /\ topic' = [topic EXCEPT ![e] = [state |-> "ready", publishedAt |-> clock]]
  /\ UNCHANGED <<storeVars, computeVars, pc, job, clock, faults>>

\* At-least-once delivery: a copy of a message that was delivered already.
Duplicate(e) ==
  /\ topic[e].state \in {"inflight", "acked"}
  /\ topic' = [topic EXCEPT ![e].state = "ready"]
  /\ Fault("duplicate")
  /\ UNCHANGED <<storeVars, computeVars, pc, job, clock>>

Stale(e) == clock - topic[e].publishedAt > MaxEventAge

\* An invocation starts: now is captured, the event is parsed and its age checked.
Receive(w, e) ==
  /\ pc[w] = "idle" /\ topic[e].state = "ready" /\ ~ Stale(e)
  /\ topic' = [topic EXCEPT ![e].state = "inflight"]
  /\ pc'  = [pc EXCEPT ![w] = "claim"]
  /\ job' = [job EXCEPT ![w] = [NoJob EXCEPT !.event = e, !.now = clock]]
  /\ UNCHANGED <<storeVars, computeVars, clock, faults>>

\* A stale event is a ValidationError, which is not retryable: acknowledged.
RejectStale(w, e) ==
  /\ pc[w] = "idle" /\ topic[e].state = "ready" /\ Stale(e)
  /\ topic' = [topic EXCEPT ![e].state = "acked"]
  /\ UNCHANGED <<storeVars, computeVars, pc, job, clock, faults>>

Ack(e)  == topic' = [topic EXCEPT ![e].state = "acked"]
Nack(e) == topic' = [topic EXCEPT ![e].state = IF @ = "inflight" THEN "ready" ELSE @]

EndInvocation(w) ==
  /\ pc'  = [pc EXCEPT ![w] = "idle"]
  /\ job' = [job EXCEPT ![w] = NoJob]

\* Mutant of Respond: whatever happened, the message is acknowledged.
RespondAcknowledged(w) ==
  /\ pc[w] = "respond"
  /\ Ack(job[w].event)
  /\ EndInvocation(w)
  /\ UNCHANGED <<storeVars, computeVars, clock, faults>>

\* A retryable error is thrown to the trigger, any other is acknowledged.
Respond(w) ==
  /\ pc[w] = "respond"
  /\ IF job[w].error = "retryable" THEN Nack(job[w].event) ELSE Ack(job[w].event)
  /\ EndInvocation(w)
  /\ UNCHANGED <<storeVars, computeVars, clock, faults>>

\* The function instance dies between two calls.
Crash(w) ==
  /\ pc[w] # "idle"
  /\ Nack(job[w].event)
  /\ EndInvocation(w)
  /\ Fault("crash")
  /\ UNCHANGED <<storeVars, computeVars, clock>>

\* The invocation is killed at the timeout of the function.
Timeout(w) ==
  /\ pc[w] # "idle"
  /\ clock = job[w].now + FunctionTimeout
  /\ Nack(job[w].event)
  /\ EndInvocation(w)
  /\ UNCHANGED <<storeVars, computeVars, clock, faults>>

-----------------------------------------------------------------------------
(* runBudgetWorkflow up to the plan.                                       *)

\* What follows the claim: the automation switch, NO_ACTION, the cooldown.
Gate(e) ==
  IF ~ AutomationEnabled THEN "ignore"
  ELSE IF DecisionOf[e] = "NO_ACTION" THEN "complete"
  ELSE IF Cooldown = 0 THEN "pending" ELSE "cooldown"

\* claimEvent.  An event that is settled, or that another invocation holds, is
\* a duplicate and is acknowledged.  A claim that fails is not undone.
Claim(w) ==
  LET e == job[w].event
      Take == Claimable(e, job[w].now) /\ ClaimEvent(e, job[w].now)
  IN /\ pc[w] = "claim"
     /\ \/ Take /\ Goto(w, Gate(e)) /\ UNCHANGED faults
        \/ /\ ~ Claimable(e, job[w].now)
           /\ Goto(w, "respond")
           /\ UNCHANGED <<storeVars, faults>>
        \/ StoreFault(w, Take, "respond")
     /\ UNCHANGED <<computeVars, topic, clock>>

CooldownActive(e, now) ==
  /\ control.lastActionAt # 0
  /\ control.lastDecision = DecisionOf[e]
  /\ control.lastActionAt + Cooldown > now

\* A read of the store, failing or deciding the next step.
CheckCooldown(w) ==
  /\ pc[w] = "cooldown"
  /\ \/ /\ Goto(w, IF CooldownActive(job[w].event, job[w].now) THEN "ignore" ELSE "pending")
        /\ UNCHANGED <<storeVars, faults>>
     \/ StoreFault(w, FALSE, "failEvent")
  /\ UNCHANGED <<computeVars, topic, clock>>

\* listPendingActions: operations an earlier attempt submitted are all the
\* plan there is; without any, the inventory is planned from.
ListPending(w) ==
  LET pending == PendingActions(job[w].event)
  IN /\ pc[w] = "pending"
     /\ \/ /\ pending # {}
           /\ StartPlan(w, pending, TRUE)
           /\ UNCHANGED <<storeVars, faults>>
        \/ /\ pending = {}
           /\ Goto(w, "list")
           /\ UNCHANGED <<storeVars, faults>>
        \/ StoreFault(w, FALSE, "failEvent")
     /\ UNCHANGED <<computeVars, topic, clock>>

\* selectManagedInstances on what the provider lists.
Selected(status) == {i \in Eligible : vm[i].status = status}

ListInstances(w) ==
  /\ pc[w] = "list"
  /\ \/ /\ DecisionOf[job[w].event] = "STOP"
        /\ StartPlan(w, Selected("RUNNING"), FALSE)
        /\ UNCHANGED faults
     \/ /\ DecisionOf[job[w].event] = "RECOVER"
        /\ pc'  = [pc EXCEPT ![w] = "recoverable"]
        /\ job' = [job EXCEPT ![w].todo = Selected("TERMINATED")]
        /\ UNCHANGED faults
     \/ /\ Fault("provider")
        /\ \E error \in {"retryable", "terminal"} : Throw(w, error, "failEvent")
  /\ UNCHANGED <<storeVars, computeVars, topic, clock>>

\* listRecoverableInstances, and the plan of a recovery.
ListRecoverable(w) ==
  /\ pc[w] = "recoverable"
  /\ \/ /\ StartPlan(w, job[w].todo \cap RecoverableInstances(job[w].now), FALSE)
        /\ UNCHANGED <<storeVars, faults>>
     \/ StoreFault(w, FALSE, "failEvent")
  /\ UNCHANGED <<computeVars, topic, clock>>

-----------------------------------------------------------------------------
(* executeActions, for the instance on of the loop.                        *)

Stopping(w) == DecisionOf[job[w].event] = "STOP"

\* Mutant of RecordIntent: the ownership of a stop is left to later writes.
RecordIntentAlone(w) ==
  Write(w, "intent", SetAction(job[w].event, job[w].on, "INTENT_RECORDED"), "submit")

\* recordActionIntent: the action document, and of a stop the ownership.  A
\* failure leaves no actionId, recordActionFailed(undefined) throws as well,
\* and nothing of the failure is recorded.
RecordIntent(w) ==
  Write(w, "intent",
        SetAction(job[w].event, job[w].on, "INTENT_RECORDED"),
        IF Stopping(w) THEN "intentManaged" ELSE "submit")

RecordStopIntent(w) ==
  Write(w, "intentManaged", SetManaged(job[w].on, "STOP_INTENT"), "submit")

\* submitAction.  A response that is lost leaves an operation the worker does
\* not know of.
SubmitAction(w) ==
  LET e == job[w].event
      i == job[w].on
  IN /\ pc[w] = "submit"
     /\ \/ Submit(e, i) /\ Goto(w, "submitted") /\ UNCHANGED faults
        \/ Conflict(e, i) /\ Reject(w, "terminal") /\ UNCHANGED <<computeVars, faults>>
        \/ Submit(e, i) /\ Reject(w, "retryable") /\ Fault("provider")
        \/ /\ \E error \in {"retryable", "terminal"} : Reject(w, error)
           /\ Fault("provider")
           /\ UNCHANGED computeVars
     /\ UNCHANGED <<storeVars, topic, clock>>

\* recordActionSubmitted.  Once an operation is known, a failing store is
\* not an action that failed.
RecordSubmitted(w) ==
  Write(w, "submitted",
        SetAction(job[w].event, job[w].on, "SUBMITTED"), "submittedManaged")

RecordManagedSubmitted(w) ==
  Write(w, "submittedManaged",
        SetManaged(job[w].on, IF Stopping(w) THEN "STOP_SUBMITTED" ELSE "START_SUBMITTED"),
        "wait")

\* Mutant of WaitForOperation: any answer of the poll is taken for the end.
WaitForAnyAnswer(w) ==
  /\ pc[w] = "wait"
  /\ pc'  = [pc EXCEPT ![w] = "completed"]
  /\ job' = [job EXCEPT ![w].at = clock]
  /\ UNCHANGED <<storeVars, computeVars, topic, clock, faults>>

\* waitForOperation.  A poll that times out, like one that cannot be read,
\* leaves the action as it is for the next attempt.
WaitForOperation(w) ==
  LET status == ops[job[w].event][job[w].on]
  IN /\ pc[w] = "wait"
     /\ \/ /\ status = "done"
           /\ pc'  = [pc EXCEPT ![w] = "completed"]
           /\ job' = [job EXCEPT ![w].at = clock]
           /\ UNCHANGED faults
        \/ status = "error" /\ Reject(w, "terminal") /\ UNCHANGED faults
        \/ Throw(w, "retryable", "failEvent") /\ Fault("provider")
        \/ Reject(w, "terminal") /\ Fault("provider")
     /\ UNCHANGED <<storeVars, computeVars, topic, clock>>

\* recordActionCompleted, then the next instance.
RecordCompleted(w) ==
  Write(w, "completed",
        SetAction(job[w].event, job[w].on, "COMPLETED"), "completedManaged")

MarkCompleted(w) ==
  IF Stopping(w)
  THEN SetStopCompleted(job[w].on, job[w].at)
  ELSE SetManaged(job[w].on, "START_COMPLETED")

RecordManagedCompleted(w) ==
  /\ pc[w] = "completedManaged"
  /\ \/ /\ MarkCompleted(w)
        /\ Proceed(w, job[w].todo \ {job[w].on}, job[w].resumed)
        /\ UNCHANGED faults
     \/ StoreFault(w, MarkCompleted(w), "failEvent")
  /\ UNCHANGED <<computeVars, topic, clock>>

\* recordActionFailed, which itself may fail and then decides the error.
RecordActionFailed(w) ==
  Write(w, "failAction",
        SetAction(job[w].event, job[w].on,
                  IF job[w].error = "retryable" THEN "FAILED_RETRYABLE" ELSE "FAILED"),
        "failManaged")

\* Mutant of MarkFailed: a stop that failed is dated like one that ended.
MarkFailedDated(w) ==
  IF Stopping(w) THEN SetStopCompleted(job[w].on, job[w].now)
                 ELSE SetManaged(job[w].on, "START_FAILED")

MarkFailed(w) == SetManaged(job[w].on, IF Stopping(w) THEN "STOP_FAILED" ELSE "START_FAILED")

RecordManagedFailed(w) ==
  /\ pc[w] = "failManaged"
  /\ \/ MarkFailed(w) /\ Throw(w, job[w].error, "failEvent") /\ UNCHANGED faults
     \/ StoreFault(w, MarkFailed(w), "failEvent")
  /\ UNCHANGED <<computeVars, topic, clock>>

-----------------------------------------------------------------------------
(* The end of runBudgetWorkflow.                                           *)

UpdateControl(w) ==
  Write(w, "control",
        UpdateControlState(DecisionOf[job[w].event], job[w].now), "complete")

Complete(w) == Write(w, "complete", CompleteEvent(job[w].event), "respond")

Ignore(w) == Write(w, "ignore", IgnoreEvent(job[w].event), "respond")

\* failEvent.  Its own failure is logged and swallowed.
RecordFailure(w) ==
  LET Record == FailEvent(job[w].event, job[w].error = "retryable")
  IN /\ pc[w] = "failEvent"
     /\ Goto(w, "respond")
     /\ \/ Record /\ UNCHANGED faults
        \/ (Record \/ UNCHANGED storeVars) /\ Fault("store")
     /\ UNCHANGED <<computeVars, topic, clock>>

-----------------------------------------------------------------------------
(* Compute Engine, its operators, and time.                                *)

Provider(e, i) ==
  /\ \/ FinishOperation(e, i) /\ UNCHANGED faults
     \/ FailOperation(e, i) /\ Fault("operation")
  /\ UNCHANGED <<storeVars, topic, pc, job, clock>>

Operator(i) ==
  /\ OperatorStop(i) \/ OperatorStart(i)
  /\ Fault("operator")
  /\ UNCHANGED <<storeVars, topic, pc, job, clock>>

\* An invocation is not there any more after the timeout of the function.
Tick ==
  /\ clock < MaxTime
  /\ \A w \in Workers : pc[w] # "idle" => clock < job[w].now + FunctionTimeout
  /\ clock' = clock + 1
  /\ UNCHANGED <<storeVars, computeVars, topic, pc, job, faults>>

-----------------------------------------------------------------------------

WorkerStep(w) ==
  \/ Claim(w) \/ CheckCooldown(w) \/ ListPending(w) \/ ListInstances(w)
  \/ ListRecoverable(w) \/ RecordIntent(w) \/ RecordStopIntent(w) \/ SubmitAction(w)
  \/ RecordSubmitted(w) \/ RecordManagedSubmitted(w) \/ WaitForOperation(w)
  \/ RecordCompleted(w) \/ RecordManagedCompleted(w) \/ RecordActionFailed(w)
  \/ RecordManagedFailed(w) \/ UpdateControl(w) \/ Complete(w) \/ Ignore(w)
  \/ RecordFailure(w) \/ Respond(w)

Delivery(w, e) == Receive(w, e) \/ RejectStale(w, e)

Next ==
  \/ \E e \in Events : Publish(e) \/ Duplicate(e)
  \/ \E w \in Workers, e \in Events : Delivery(w, e)
  \/ \E w \in Workers : WorkerStep(w) \/ Crash(w) \/ Timeout(w)
  \/ \E e \in Events, i \in Instances : Provider(e, i)
  \/ \E i \in Instances : Operator(i)
  \/ Tick

Spec == Init /\ [][Next]_vars

\* The trigger redelivers what is not acknowledged, an invocation goes on, and
\* Compute Engine ends its operations.  A worker may be busy with another
\* event whenever a message is ready, so delivery is strongly fair.
Fairness ==
  /\ \A w \in Workers : WF_vars(WorkerStep(w))
  /\ \A e \in Events : SF_vars(\E w \in Workers : Delivery(w, e))
  /\ \A e \in Events, i \in Instances : WF_vars(Provider(e, i))

FairSpec == Spec /\ Fairness

-----------------------------------------------------------------------------
(* Properties.                                                             *)

\* The steps of an invocation that holds the claim of its event.
Holding(w) == pc[w] \notin {"idle", "claim", "respond"}

\* At most one invocation works on an event at a time: the lease that
\* claimEvent takes outlives the invocation, whatever is redelivered, whatever
\* fails and whichever invocation dies (claimEvent, failEvent, the timeouts).
OneHolder ==
  \A w1, w2 \in Workers :
    Holding(w1) /\ Holding(w2) /\ job[w1].event = job[w2].event => w1 = w2

\* Audit before action: an operation exists in Compute Engine only if its
\* action document was written first, and of a stop the ownership document as
\* well, also when responses are lost and invocations die between the writes
\* (recordActionIntent before submitAction).
AuditBeforeAction ==
  \A e \in Events, i \in Instances :
    ops[e][i] # "none" =>
      /\ actions[e][i] # "NONE"
      /\ ActionOf(e) = "stop" => managed[i].status # "NONE"

\* The audit does not claim more than happened: a SUBMITTED action, which a
\* retry resumes, has an operation to poll, and a COMPLETED one has a finished
\* operation (recordActionSubmitted, recordActionCompleted, waitForOperation).
AuditIsTrue ==
  \A e \in Events, i \in Instances :
    /\ actions[e][i] = "SUBMITTED" => ops[e][i] # "none"
    /\ actions[e][i] = "COMPLETED" => ops[e][i] = "done"

\* Recovery ownership: an instance is started only if the automation itself
\* stopped it before, in an operation that finished (listRecoverableInstances
\* and everything that leads to STOP_COMPLETED).
StartsOnlyOwned ==
  \A e \in Events, i \in Instances :
    ActionOf(e) = "start" /\ ops[e][i] # "none" =>
      \E f \in Events : ActionOf(f) = "stop" /\ ops[f][i] = "done"

\* A new request is made, and a record of an action is written, only under a lease on
\* its event that is still active: an invocation that was slow never acts beside the
\* one that took over, nor over its records (claimEvent, submitAction, recordAction...).
ActsUnderLease ==
  [][\A e \in Events, i \in Instances :
       (ops[e][i] = "none" /\ ops'[e][i] # "none") \/ actions'[e][i] # actions[e][i] =>
         events[e].status = "PROCESSING" /\ events[e].leaseUntil > clock]_vars

\* Who works on each event, and what has become of it.
Holders == [e \in Events |-> {w \in Workers : Holding(w) /\ job[w].event = e}]

Outcome ==
  [e \in Events |-> IF events[e].status \in {"COMPLETED", "IGNORED"} THEN "settled"
                   ELSE IF events[e].status = "FAILED" THEN "failed" ELSE "open"]

Claims == INSTANCE EventClaims WITH holders <- Holders, outcome <- Outcome

\* The worker implements EventClaims: an event is taken only when no other
\* invocation works on it, only the invocation that works on it decides what
\* becomes of it, what it settled it alone can take back (a write that was
\* applied but reported as failed), and FAILED is final.
ImplementsClaims == Claims!ClaimsSpec

\* Liveness: a message that is ready is settled in the end, however often
\* Compute Engine fails, unless it gets too old for a retry first (the retries
\* of the trigger, failEvent, claimEvent, RejectStale).
EventuallySettled ==
  \A e \in Events : topic[e].state = "ready" ~> events[e].status \in Settled \/ Stale(e)

\* Liveness: an operation that was recorded as submitted gets its outcome
\* recorded, although polls time out, as long as its message is retried
\* (listPendingActions, waitForOperation).
SubmittedIsAudited ==
  \A e \in Events, i \in Instances :
    actions[e][i] = "SUBMITTED" ~> actions[e][i] \in {"COMPLETED", "FAILED"} \/ Stale(e)

=============================================================================
