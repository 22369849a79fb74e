----------------------------- MODULE AuditStore -----------------------------
(***************************************************************************)
(* The Firestore audit store of the worker, src/src/store.js: four         *)
(* collections of documents and the methods that write them.  Only         *)
(* claimEvent is a transaction; every other method is one document write,  *)
(* or two writes one after the other (the action document, then the        *)
(* document of the managed instance), so each document write is an         *)
(* operator of its own here and the worker decides what follows it.        *)
(***************************************************************************)
EXTENDS BudgetEvents

CONSTANTS
  Lease,          \* EVENT_LEASE_SECONDS
  RecoveryDelay   \* RECOVERY_DELAY_SECONDS

ASSUME LeaseAssumption == Lease \in Nat \ {0}
ASSUME DelayAssumption == RecoveryDelay \in Nat

VARIABLES
  events,    \* the events collection: status and lease of each event
  actions,   \* the actions collection: status of each action document
  managed,   \* the managed_instances collection
  control    \* the control document of the project

storeVars == <<events, actions, managed, control>>

-----------------------------------------------------------------------------
(* "NONE" is a document that does not exist.  A time is a natural number,  *)
(* the clock starts at 1, and 0 is an absent or null time.                 *)

EventStatus ==
  {"NONE", "PROCESSING", "COMPLETED", "IGNORED", "FAILED", "FAILED_RETRYABLE"}

ActionStatus ==
  {"NONE", "INTENT_RECORDED", "SUBMITTED", "COMPLETED", "FAILED", "FAILED_RETRYABLE"}

ManagedStatus ==
  {"NONE", "STOP_INTENT", "STOP_SUBMITTED", "STOP_COMPLETED", "STOP_FAILED",
   "START_SUBMITTED", "START_COMPLETED", "START_FAILED",
   "STOP_FAILED_NO_CHANGE", "START_FAILED_NO_CHANGE", "MANUAL_REVIEW_REQUIRED"}

StoreTypeOK ==
  /\ events  \in [Events -> [status : EventStatus, leaseUntil : Nat]]
  /\ actions \in [Events -> [Instances -> ActionStatus]]
  /\ managed \in [Instances -> [status : ManagedStatus, stopCompletedAt : Nat]]
  /\ control \in [lastDecision : Decisions \cup {"NONE"}, lastActionAt : Nat]

StoreInit ==
  /\ events  = [e \in Events |-> [status |-> "NONE", leaseUntil |-> 0]]
  /\ actions = [e \in Events |-> [i \in Instances |-> "NONE"]]
  /\ managed = [i \in Instances |-> [status |-> "NONE", stopCompletedAt |-> 0]]
  /\ control = [lastDecision |-> "NONE", lastActionAt |-> 0]

-----------------------------------------------------------------------------
(* claimEvent.                                                             *)

\* The statuses a later delivery is never processed again under.
Settled == {"COMPLETED", "IGNORED", "FAILED"}

\* Mutant of Claimable: the lease of a live attempt is not looked at.
ClaimableUnderLease(e, now) == events[e].status \notin Settled

\* Mutant of Claimable: an event that failed for good is processed again.
ClaimableAfterFailure(e, now) ==
  /\ events[e].status \notin {"COMPLETED", "IGNORED"}
  /\ ~ (events[e].status = "PROCESSING" /\ events[e].leaseUntil > now)

Claimable(e, now) ==
  /\ events[e].status \notin Settled
  /\ ~ (events[e].status = "PROCESSING" /\ events[e].leaseUntil > now)

SetEvent(e, status, leaseUntil) ==
  /\ events' = [events EXCEPT ![e] = [status |-> status, leaseUntil |-> leaseUntil]]
  /\ UNCHANGED <<actions, managed, control>>

\* Mutant of ClaimEvent: the seconds of the lease are not added.
ClaimEventBriefly(e, now) == SetEvent(e, "PROCESSING", now)

\* The write of the claim transaction, the caller having checked Claimable.
ClaimEvent(e, now) == SetEvent(e, "PROCESSING", now + Lease)

CompleteEvent(e) == SetEvent(e, "COMPLETED", 0)

IgnoreEvent(e) == SetEvent(e, "IGNORED", 0)

FailEvent(e, retryable) ==
  SetEvent(e, IF retryable THEN "FAILED_RETRYABLE" ELSE "FAILED", 0)

-----------------------------------------------------------------------------
(* The action documents and the documents of the managed instances.        *)

SetAction(e, i, status) ==
  /\ actions' = [actions EXCEPT ![e][i] = status]
  /\ UNCHANGED <<events, managed, control>>

\* A merge write that leaves the other fields, stopCompletedAt among them.
SetManaged(i, status) ==
  /\ managed' = [managed EXCEPT ![i].status = status]
  /\ UNCHANGED <<events, actions, control>>

\* Mutant of SetStopCompleted: a status no reader of the collection knows.
SetStopCompletedMisnamed(i, at) ==
  /\ managed' = [managed EXCEPT ![i] = [status |-> "COMPLETED", stopCompletedAt |-> at]]
  /\ UNCHANGED <<events, actions, control>>

\* The write that makes a stopped instance recoverable.
SetStopCompleted(i, at) ==
  /\ managed' = [managed EXCEPT ![i] = [status |-> "STOP_COMPLETED", stopCompletedAt |-> at]]
  /\ UNCHANGED <<events, actions, control>>

UpdateControlState(decision, at) ==
  /\ control' = [lastDecision |-> decision, lastActionAt |-> at]
  /\ UNCHANGED <<events, actions, managed>>

-----------------------------------------------------------------------------
(* Queries.                                                                *)

\* Mutant of PendingActions: the query is for the wrong status.
PendingIntents(e) == {i \in Instances : actions[e][i] = "INTENT_RECORDED"}

PendingActions(e) == {i \in Instances : actions[e][i] = "SUBMITTED"}

\* Mutant of RecoverableInstances: a document without a stop passes for old.
RecoverableUndated(now) ==
  {i \in Instances : managed[i].stopCompletedAt + RecoveryDelay <= now}

\* The caller passes now and the cutoff is now - RecoveryDelay.
RecoverableInstances(now) ==
  {i \in Instances : /\ managed[i].status = "STOP_COMPLETED"
                     /\ managed[i].stopCompletedAt # 0
                     /\ managed[i].stopCompletedAt + RecoveryDelay <= now}

\* The queue that the reconciliation command reviews.
AmbiguousInstances ==
  {i \in Instances : managed[i].status \in {"STOP_INTENT", "STOP_SUBMITTED", "START_SUBMITTED"}}

=============================================================================
