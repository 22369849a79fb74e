---------------------------- MODULE SqliteStore ----------------------------
(***************************************************************************)
(* The local SQLite store, src/control/sqlite-store.js: the tables of its  *)
(* schema, the statements of its methods, and the cleanup that deletes     *)
(* rows whose retention is over.  An UPDATE of a row that is not there     *)
(* changes nothing, a conflicting INSERT changes the columns it names, and *)
(* a stop and a start share the completed_at of their instance.            *)
(*                                                                         *)
(* Only claimEvent and cleanupExpired are transactions; of the two         *)
(* statements of recordAction... the second may be lost.  The callers      *)
(* follow StoreContract: what they know is what they were told, also of    *)
(* rows that are gone, and is kept in erased.                              *)
(*                                                                         *)
(* Left out are the tables control_states and settings, an upsert and a    *)
(* read of one row each (ControlService has the saved policy), and the     *)
(* bounded lists and counts that the dashboard reads.                      *)
(***************************************************************************)
EXTENDS BudgetEvents

CONSTANTS
  Lease,          \* eventLeaseSeconds
  RecoveryDelay,  \* recoveryDelaySeconds
  Retention,      \* auditRetentionDays, in ticks
  MaxEventAge, ClockSkew, PublishTimes, MaxTime   \* as in StoreContract

VARIABLES
  eventRows,    \* table events
  actionRows,   \* table actions; action_id stands for the event and the instance
  managedRows,  \* table managed_instances
  clock,
  published,    \* when the message of each event was published
  erased,       \* history: what the rows said that cleanupExpired deleted
  stoppedAt     \* history: when the last stop of each instance was recorded as completed

callVars == <<clock, published>>
vars == <<eventRows, actionRows, managedRows, callVars, erased, stoppedAt>>

-----------------------------------------------------------------------------
(* The tables.  "NONE" is a row that is not there, the time 0 is NULL.     *)

NoEvent  == [status |-> "NONE", leaseUntil |-> 0, expiresAt |-> 0]
NoAction == [status |-> "NONE", operation |-> FALSE, expiresAt |-> 0]

EventDocs ==
  [e \in Events |->
     IF eventRows[e].status = "NONE" THEN erased.events[e]
     ELSE [status |-> eventRows[e].status, leaseUntil |-> eventRows[e].leaseUntil]]

ActionDocs ==
  [e \in Events |-> [i \in Instances |->
     IF actionRows[e][i].status = "NONE" THEN erased.actions[e][i]
     ELSE actionRows[e][i].status]]

ManagedDocs ==
  [i \in Instances |-> [status |-> managedRows[i].status, stopCompletedAt |-> stoppedAt[i]]]

Contract == INSTANCE StoreContract
  WITH events <- EventDocs, actions <- ActionDocs, managed <- ManagedDocs,
       control <- [lastDecision |-> "NONE", lastActionAt |-> 0]

(* A row outlives the last delivery of its message that is accepted, and   *)
(* the lease this may take.  Neither config.js nor the schema sees to it:  *)
(* 90 days against one day in the configuration of the repository.         *)
ASSUME RetentionAssumption ==
  Retention \in Nat /\ Retention >= MaxEventAge + ClockSkew + Lease

ASSUME TimeAssumption ==
  /\ Lease \in Nat /\ RecoveryDelay \in Nat /\ MaxEventAge \in Nat
  /\ ClockSkew \in Nat /\ MaxTime \in Nat /\ PublishTimes \subseteq Nat

TypeOK ==
  /\ eventRows \in [Events -> [status : Contract!EventStatus, leaseUntil : Nat, expiresAt : Nat]]
  /\ actionRows \in [Events -> [Instances ->
       [status : Contract!ActionStatus, operation : BOOLEAN, expiresAt : Nat]]]
  /\ managedRows \in [Instances -> [status : Contract!ManagedStatus, completedAt : Nat]]
  /\ clock \in Nat /\ published \in [Events -> PublishTimes]
  /\ erased \in [events : [Events -> [status : Contract!EventStatus, leaseUntil : Nat]],
                 actions : [Events -> [Instances -> Contract!ActionStatus]]]
  /\ stoppedAt \in [Instances -> Nat]

Init ==
  /\ eventRows   = [e \in Events |-> NoEvent]
  /\ actionRows  = [e \in Events |-> [i \in Instances |-> NoAction]]
  /\ managedRows = [i \in Instances |-> [status |-> "NONE", completedAt |-> 0]]
  /\ clock = 1 /\ published \in [Events -> PublishTimes]
  /\ erased = [events  |-> [e \in Events |-> [status |-> "NONE", leaseUntil |-> 0]],
               actions |-> [e \in Events |-> [i \in Instances |-> "NONE"]]]
  /\ stoppedAt = [i \in Instances |-> 0]

-----------------------------------------------------------------------------
(* Events.                                                                 *)

Claimable(e) ==
  /\ eventRows[e].status \notin {"COMPLETED", "IGNORED", "FAILED"}
  /\ ~ (eventRows[e].status = "PROCESSING" /\ eventRows[e].leaseUntil > clock)

\* claimEventTransaction: a row that is there keeps only its key.
ClaimEvent(e) ==
  /\ Contract!Fresh(e) /\ Claimable(e)
  /\ eventRows' = [eventRows EXCEPT ![e] = [status     |-> "PROCESSING",
                                            leaseUntil |-> clock + Lease,
                                            expiresAt  |-> clock + Retention]]
  /\ UNCHANGED <<actionRows, managedRows, callVars, erased, stoppedAt>>

\* The row after finishEvent.
Finished(e, status) ==
  IF eventRows[e].status = "NONE" THEN eventRows[e]
  ELSE [eventRows[e] EXCEPT !.status = status, !.leaseUntil = 0]

\* completeEvent, ignoreEvent and failEvent.
FinishEvent(e) ==
  /\ Contract!Held(e)
  /\ \E status \in {"COMPLETED", "IGNORED", "FAILED", "FAILED_RETRYABLE"} :
       eventRows' = [eventRows EXCEPT ![e] = Finished(e, status)]
  /\ UNCHANGED <<actionRows, managedRows, callVars, erased, stoppedAt>>

-----------------------------------------------------------------------------
(* Actions and managed instances.                                          *)

\* upsertAction: a row that is there keeps its operation and its expiry.
UpsertAction(e, i) ==
  IF actionRows[e][i].status = "NONE"
  THEN [status |-> "INTENT_RECORDED", operation |-> FALSE, expiresAt |-> clock + Retention]
  ELSE [actionRows[e][i] EXCEPT !.status = "INTENT_RECORDED"]

\* updateActionLifecycle, with an operation name or with NULL for it.
UpdateAction(e, i, status, named) ==
  IF actionRows[e][i].status = "NONE" THEN actionRows[e][i]
  ELSE [actionRows[e][i] EXCEPT !.status = status, !.operation = @ \/ named]

\* upsertManaged: completed_at is not among the columns of the conflict.
UpsertManaged(i) == [managedRows[i] EXCEPT !.status = "STOP_INTENT"]

\* Mutant of UpdateManaged: the status is written, and NULL for the date.
UpdateManagedUndated(i, status, at) ==
  IF managedRows[i].status = "NONE" THEN managedRows[i]
  ELSE [status |-> status, completedAt |-> IF status = "STOP_COMPLETED" THEN 0 ELSE at]

\* updateManagedLifecycle, and COALESCE(at, completed_at).
UpdateManaged(i, status, at) ==
  IF managedRows[i].status = "NONE" THEN managedRows[i]
  ELSE [status |-> status, completedAt |-> IF at = 0 THEN managedRows[i].completedAt ELSE at]

\* The statement on the action, then that on its instance, or only the first.
Statements(e, i, action, instance, stopped) ==
  /\ actionRows' = [actionRows EXCEPT ![e][i] = action]
  /\ \/ /\ managedRows' = [managedRows EXCEPT ![i] = instance]
        /\ stoppedAt'   = [stoppedAt EXCEPT ![i] = stopped]
     \/ UNCHANGED <<managedRows, stoppedAt>>
  /\ UNCHANGED <<eventRows, callVars, erased>>

\* listPendingActions.
ListPending(e) ==
  {i \in Instances : actionRows[e][i].status = "SUBMITTED" /\ actionRows[e][i].operation}

\* Mutant of ListRecoverable: a row without a date passes for an old one.
ListRecoverableUndated ==
  {i \in Instances : /\ managedRows[i].status = "STOP_COMPLETED"
                     /\ managedRows[i].completedAt + RecoveryDelay <= clock}

\* listRecoverableInstances; a comparison with NULL is not true.
ListRecoverable ==
  {i \in Instances : /\ managedRows[i].status = "STOP_COMPLETED"
                     /\ managedRows[i].completedAt # 0
                     /\ managedRows[i].completedAt + RecoveryDelay <= clock}

RecordActionIntent(e, i) ==
  /\ Contract!Held(e) /\ DecisionOf[e] # "NO_ACTION" /\ ListPending(e) = {}
  /\ ActionOf(e) = "start" => i \in ListRecoverable
  /\ Statements(e, i, UpsertAction(e, i),
                IF ActionOf(e) = "stop" THEN UpsertManaged(i) ELSE managedRows[i],
                stoppedAt[i])

RecordActionSubmitted(e, i) ==
  /\ Contract!Recorded(e, i, {"INTENT_RECORDED"})
  /\ Statements(e, i, UpdateAction(e, i, "SUBMITTED", TRUE),
                UpdateManaged(i, IF ActionOf(e) = "stop" THEN "STOP_SUBMITTED"
                                                         ELSE "START_SUBMITTED", 0),
                stoppedAt[i])

RecordActionCompleted(e, i) ==
  /\ Contract!Recorded(e, i, {"SUBMITTED"})
  /\ Statements(e, i, UpdateAction(e, i, "COMPLETED", TRUE),
                UpdateManaged(i, IF ActionOf(e) = "stop" THEN "STOP_COMPLETED"
                                                         ELSE "START_COMPLETED", clock),
                IF ActionOf(e) = "stop" THEN clock ELSE stoppedAt[i])

RecordActionFailed(e, i) ==
  /\ Contract!Recorded(e, i, {"INTENT_RECORDED", "SUBMITTED"})
  /\ \E status \in {"FAILED", "FAILED_RETRYABLE"} :
       Statements(e, i, UpdateAction(e, i, status, FALSE),
                  UpdateManaged(i, IF ActionOf(e) = "stop" THEN "STOP_FAILED"
                                                           ELSE "START_FAILED", 0),
                  stoppedAt[i])

\* markManaged, with whatever a reconciliation found.
MarkManagedInstance(i) ==
  /\ managedRows[i].status # "NONE"
  /\ \E finding \in Contract!Findings :
       managedRows' = [managedRows EXCEPT ![i].status = finding]
  /\ UNCHANGED <<eventRows, actionRows, callVars, erased, stoppedAt>>

-----------------------------------------------------------------------------
(* Retention.                                                              *)

\* Mutant of Expired: the retention counts from the wrong end.
ExpiredEarly(row) == row.status # "NONE" /\ row.expiresAt < clock + Retention

Expired(row) == row.status # "NONE" /\ row.expiresAt < clock

\* cleanupExpired, at the start of the process and every six hours.
CleanupExpired ==
  /\ eventRows' = [e \in Events |-> IF Expired(eventRows[e]) THEN NoEvent ELSE eventRows[e]]
  /\ actionRows' = [e \in Events |-> [i \in Instances |->
       IF Expired(actionRows[e][i]) THEN NoAction ELSE actionRows[e][i]]]
  /\ erased' = [events |-> [e \in Events |->
                   IF Expired(eventRows[e]) THEN EventDocs[e] ELSE erased.events[e]],
                actions |-> [e \in Events |-> [i \in Instances |->
                   IF Expired(actionRows[e][i]) THEN ActionDocs[e][i] ELSE erased.actions[e][i]]]]
  /\ UNCHANGED <<managedRows, callVars, stoppedAt>>

Tick ==
  /\ clock < MaxTime
  /\ clock' = clock + 1
  /\ UNCHANGED <<eventRows, actionRows, managedRows, published, erased, stoppedAt>>

Next ==
  \/ \E e \in Events : ClaimEvent(e) \/ FinishEvent(e)
  \/ \E e \in Events, i \in Instances :
       \/ RecordActionIntent(e, i) \/ RecordActionSubmitted(e, i)
       \/ RecordActionCompleted(e, i) \/ RecordActionFailed(e, i)
  \/ \E i \in Instances : MarkManagedInstance(i)
  \/ CleanupExpired
  \/ Tick

Spec == Init /\ [][Next]_vars

-----------------------------------------------------------------------------
(* What the rows are worth.                                                *)

\* The end of the time in which a message is accepted, counted so that the
\* rows of its first delivery are still there.
KeptUntil(e) == published[e] + Retention - ClockSkew

\* A row expires after the last delivery of its event, and a row that is gone
\* was not needed any more; an event that was claimed, and so its lease, was
\* claimed by a delivery in time.
RetentionInv ==
  \A e \in Events :
    /\ EventDocs[e].status # "NONE" => published[e] <= clock + ClockSkew
    /\ eventRows[e].status # "NONE" => eventRows[e].expiresAt >= KeptUntil(e)
    /\ erased.events[e].status # "NONE" => clock > KeptUntil(e)
    /\ EventDocs[e].leaseUntil <= published[e] + MaxEventAge + Lease
    /\ \A i \in Instances :
         /\ actionRows[e][i].status # "NONE" => actionRows[e][i].expiresAt >= KeptUntil(e)
         /\ erased.actions[e][i] # "NONE" => clock > KeptUntil(e)

\* The date that a stop and a start share is not before that of the stop, an
\* instance that is started was stopped, and an operation has its name.
DatesInv ==
  /\ \A i \in Instances :
       /\ stoppedAt[i] <= managedRows[i].completedAt /\ stoppedAt[i] <= clock
       /\ managedRows[i].completedAt # 0 => stoppedAt[i] # 0
  /\ \A e \in Events, i \in Instances :
       /\ ActionDocs[e][i] # "NONE" /\ ActionOf(e) = "start" => stoppedAt[i] # 0
       /\ actionRows[e][i].status = "SUBMITTED" => actionRows[e][i].operation

StoreInv == TypeOK /\ clock > 0 /\ RetentionInv /\ DatesInv

-----------------------------------------------------------------------------
(* Properties.                                                             *)

\* The store keeps the contract of the audit store although rows are deleted,
\* updates can miss their row and dates are shared: it grants the same claims,
\* holds the same pending operations against a new plan, and offers only
\* instances for recovery that the contract offers (claimEventTransaction,
\* listPending, listRecoverable, cleanupExpired).
ImplementsContract == Contract!ContractSpec

\* A budget event that was settled is never worked on again, not even when its
\* row is gone (claimEvent, cleanupExpired).
SettledForGood ==
  [][\A e \in Events : EventDocs[e].status \in Contract!Settled
                         => EventDocs'[e] = EventDocs[e]]_vars

=============================================================================
