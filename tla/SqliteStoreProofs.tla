------------------------- MODULE SqliteStoreProofs -------------------------
(***************************************************************************)
(* The SQLite store keeps StoreContract for every number of events and     *)
(* instances, and every lease, delay and retention that RetentionAssumption *)
(* allows.                                                                 *)
(***************************************************************************)
EXTENDS SqliteStore, TLAPS

-----------------------------------------------------------------------------
(* Constants and documents.                                                *)

LEMMA ConstantTypes ==
  /\ Lease \in Nat /\ RecoveryDelay \in Nat /\ Retention \in Nat /\ MaxEventAge \in Nat
  /\ ClockSkew \in Nat /\ MaxTime \in Nat /\ PublishTimes \subseteq Nat
  /\ Retention >= MaxEventAge + ClockSkew + Lease
BY RetentionAssumption, TimeAssumption

\* The documents of the contract are documents.
LEMMA DocTypes ==
  ASSUME TypeOK
  PROVE  /\ EventDocs \in [Events -> [status : Contract!EventStatus, leaseUntil : Nat]]
         /\ ActionDocs \in [Events -> [Instances -> Contract!ActionStatus]]
         /\ ManagedDocs \in [Instances -> [status : Contract!ManagedStatus,
                                           stopCompletedAt : Nat]]
<1>1. EventDocs \in [Events -> [status : Contract!EventStatus, leaseUntil : Nat]]
  BY DEF TypeOK, EventDocs
<1>2. ActionDocs \in [Events -> [Instances -> Contract!ActionStatus]]
  BY DEF TypeOK, ActionDocs
<1>3. ManagedDocs \in [Instances -> [status : Contract!ManagedStatus, stopCompletedAt : Nat]]
  BY DEF TypeOK, ManagedDocs
<1> QED
  BY <1>1, <1>2, <1>3

\* While an invocation works on an event, none of the event's rows is gone.
LEMMA HeldIsKept ==
  ASSUME StoreInv, NEW e \in Events, Contract!Held(e)
  PROVE  /\ eventRows[e].status = "PROCESSING" /\ eventRows[e].leaseUntil > clock
         /\ published[e] <= clock + ClockSkew
         /\ clock + Retention >= KeptUntil(e)
         /\ \A i \in Instances : /\ erased.actions[e][i] = "NONE"
                                 /\ ActionDocs[e][i] = actionRows[e][i].status
<1>1. TypeOK /\ RetentionInv
  BY DEF StoreInv
<1>2. EventDocs[e].status = "PROCESSING" /\ EventDocs[e].leaseUntil > clock
  BY DEF Contract!Held
<1>3. clock \in Nat /\ published[e] \in Nat /\ EventDocs[e].leaseUntil \in Nat
  BY <1>1, DocTypes, ConstantTypes DEF TypeOK
<1>4. EventDocs[e].leaseUntil <= published[e] + MaxEventAge + Lease
  BY <1>1 DEF RetentionInv
<1>5. clock <= KeptUntil(e)
  BY <1>2, <1>3, <1>4, ConstantTypes DEF KeptUntil
<1>6. erased.events[e].status = "NONE" /\ \A i \in Instances : erased.actions[e][i] = "NONE"
  BY <1>1, <1>3, <1>5, ConstantTypes DEF RetentionInv, KeptUntil
<1>7. eventRows[e].status # "NONE" /\ EventDocs[e].leaseUntil = eventRows[e].leaseUntil
      /\ EventDocs[e].status = eventRows[e].status
  BY <1>2, <1>6 DEF EventDocs
<1>8. published[e] <= clock + ClockSkew
  BY <1>1, <1>2 DEF RetentionInv
<1>9. \A i \in Instances : ActionDocs[e][i] = actionRows[e][i].status
  BY <1>6 DEF ActionDocs
<1>10. clock + Retention >= KeptUntil(e)
  BY <1>3, <1>8, ConstantTypes DEF KeptUntil
<1> QED
  BY <1>2, <1>6, <1>7, <1>8, <1>9, <1>10

-----------------------------------------------------------------------------
(* The events.                                                             *)

\* Each statement on an event keeps the invariant and is a step of the contract
\* on that event's document.
LEMMA EventStep ==
  ASSUME StoreInv, NEW e \in Events,
         NEW row \in [status : Contract!EventStatus, leaseUntil : Nat, expiresAt : Nat],
         row.status # "NONE", row.expiresAt >= KeptUntil(e),
         row.leaseUntil <= published[e] + MaxEventAge + Lease,
         published[e] <= clock + ClockSkew,
         eventRows' = [eventRows EXCEPT ![e] = row],
         UNCHANGED <<actionRows, managedRows, callVars, erased, stoppedAt>>
  PROVE  /\ StoreInv'
         /\ EventDocs' = [EventDocs EXCEPT ![e] = [status |-> row.status,
                                                   leaseUntil |-> row.leaseUntil]]
         /\ UNCHANGED <<ActionDocs, ManagedDocs, clock, published>>
<1>1. TypeOK /\ RetentionInv /\ DatesInv /\ clock > 0
  BY DEF StoreInv
<1>2. UNCHANGED <<clock, published, actionRows, managedRows, erased, stoppedAt>>
  BY DEF callVars
<1>3. TypeOK'
  BY <1>1, <1>2 DEF TypeOK
<1>4. EventDocs' = [EventDocs EXCEPT ![e] = [status |-> row.status,
                                             leaseUntil |-> row.leaseUntil]]
  BY <1>1, <1>2 DEF TypeOK, EventDocs
<1>5. UNCHANGED <<ActionDocs, ManagedDocs>>
  BY <1>2 DEF ActionDocs, ManagedDocs
<1>6. ASSUME NEW f \in Events
      PROVE  /\ EventDocs'[f].status # "NONE" => published[f] <= clock + ClockSkew
             /\ eventRows'[f].status # "NONE" => eventRows'[f].expiresAt >= KeptUntil(f)
             /\ EventDocs'[f].leaseUntil <= published[f] + MaxEventAge + Lease
  <2>1. CASE f = e
    <3>1. EventDocs'[f] = [status |-> row.status, leaseUntil |-> row.leaseUntil]
      BY <1>4, <2>1 DEF EventDocs
    <3>2. eventRows'[f] = row
      BY <1>1, <2>1 DEF TypeOK
    <3> QED
      BY <2>1, <3>1, <3>2
  <2>2. CASE f # e
    <3>1. EventDocs'[f] = EventDocs[f] /\ eventRows'[f] = eventRows[f]
      BY <1>1, <1>4, <2>2 DEF TypeOK, EventDocs
    <3> QED
      BY <1>1, <3>1 DEF RetentionInv
  <2> QED
    BY <2>1, <2>2
<1>7. RetentionInv'
  BY <1>1, <1>2, <1>6 DEF RetentionInv, KeptUntil
<1>8. DatesInv'
  BY <1>1, <1>2, <1>5 DEF DatesInv
<1> QED
  BY <1>1, <1>2, <1>3, <1>4, <1>5, <1>7, <1>8 DEF StoreInv

\* A claim that the table grants is one that the contract grants: an event whose
\* row is gone is too old to arrive again.
LEMMA ClaimEventKeeps ==
  ASSUME StoreInv, NEW e \in Events, ClaimEvent(e)
  PROVE  StoreInv' /\ Contract!Claim(e)
<1> DEFINE row == [status |-> "PROCESSING", leaseUntil |-> clock + Lease,
                   expiresAt |-> clock + Retention]
<1>1. TypeOK /\ RetentionInv
  BY DEF StoreInv
<1>2. clock <= published[e] + MaxEventAge /\ published[e] <= clock + ClockSkew
  BY DEF ClaimEvent, Contract!Fresh
<1>3. clock \in Nat /\ published[e] \in Nat
  BY <1>1, ConstantTypes DEF TypeOK
<1>4. row \in [status : Contract!EventStatus, leaseUntil : Nat, expiresAt : Nat]
  BY <1>3, ConstantTypes DEF Contract!EventStatus
<1>5. row.expiresAt >= KeptUntil(e) /\ row.leaseUntil <= published[e] + MaxEventAge + Lease
  BY <1>2, <1>3, ConstantTypes DEF KeptUntil
<1>6. /\ StoreInv'
      /\ EventDocs' = [EventDocs EXCEPT ![e] = [status |-> "PROCESSING",
                                                leaseUntil |-> clock + Lease]]
      /\ UNCHANGED <<ActionDocs, ManagedDocs, clock, published>>
  BY <1>2, <1>4, <1>5, EventStep DEF ClaimEvent
<1>7. clock <= KeptUntil(e)
  BY <1>2, <1>3, ConstantTypes DEF KeptUntil
<1>8. erased.events[e].status = "NONE"
  BY <1>1, <1>3, <1>7, ConstantTypes DEF RetentionInv, KeptUntil
<1>9. Contract!Claimable(e, clock)
  BY <1>8 DEF ClaimEvent, Claimable, Contract!Claimable, Contract!Settled, EventDocs
<1>10. Contract!ClaimEvent(e, clock)
  BY <1>6 DEF Contract!ClaimEvent, Contract!SetEvent
<1> QED
  BY <1>2, <1>6, <1>9, <1>10 DEF Contract!Claim, Contract!Fresh

LEMMA FinishEventKeeps ==
  ASSUME StoreInv, NEW e \in Events, FinishEvent(e)
  PROVE  StoreInv' /\ Contract!Finish(e)
<1>1. TypeOK /\ RetentionInv
  BY DEF StoreInv
<1>2. Contract!Held(e)
  BY DEF FinishEvent
<1>3. eventRows[e].status = "PROCESSING" /\ published[e] <= clock + ClockSkew
  BY <1>2, HeldIsKept
<1>4. PICK status \in {"COMPLETED", "IGNORED", "FAILED", "FAILED_RETRYABLE"} :
        eventRows' = [eventRows EXCEPT ![e] = Finished(e, status)]
  BY DEF FinishEvent
<1> DEFINE row == Finished(e, status)
<1>5. row = [status |-> status, leaseUntil |-> 0, expiresAt |-> eventRows[e].expiresAt]
  BY <1>1, <1>3 DEF TypeOK, Finished
<1>6. published[e] \in Nat /\ eventRows[e].expiresAt \in Nat
  BY <1>1, ConstantTypes DEF TypeOK
<1>7. row \in [status : Contract!EventStatus, leaseUntil : Nat, expiresAt : Nat]
  BY <1>5, <1>6 DEF Contract!EventStatus
<1>8. row.status # "NONE" /\ row.expiresAt >= KeptUntil(e)
      /\ row.leaseUntil <= published[e] + MaxEventAge + Lease
  BY <1>1, <1>3, <1>5, <1>6, ConstantTypes DEF RetentionInv
<1> HIDE DEF row
<1>9. eventRows' = [eventRows EXCEPT ![e] = row]
  BY <1>4 DEF row
<1>10. UNCHANGED <<actionRows, managedRows, callVars, erased, stoppedAt>>
  BY DEF FinishEvent
<1>11. /\ StoreInv'
       /\ EventDocs' = [EventDocs EXCEPT ![e] = [status |-> row.status,
                                                 leaseUntil |-> row.leaseUntil]]
       /\ UNCHANGED <<ActionDocs, ManagedDocs, clock, published>>
  BY <1>3, <1>7, <1>8, <1>9, <1>10, EventStep
<1>12. Contract!SetEvent(e, status, 0)
  BY <1>5, <1>11 DEF Contract!SetEvent
<1>13. \/ Contract!CompleteEvent(e) \/ Contract!IgnoreEvent(e)
       \/ \E retryable \in BOOLEAN : Contract!FailEvent(e, retryable)
  <2>1. CASE status \in {"COMPLETED", "IGNORED"}
    BY <1>12, <2>1 DEF Contract!CompleteEvent, Contract!IgnoreEvent
  <2>2. CASE status = "FAILED"
    BY <1>12, <2>2 DEF Contract!FailEvent
  <2>3. CASE status = "FAILED_RETRYABLE"
    BY <1>12, <2>3 DEF Contract!FailEvent
  <2> QED
    BY <2>1, <2>2, <2>3
<1> QED
  BY <1>2, <1>11, <1>13 DEF Contract!Finish

-----------------------------------------------------------------------------
(* The actions and their instances.                                        *)

\* The pair of statements of a recordAction method keeps the invariant and is
\* the contract's pair of writes, whether or not the second one happens.
LEMMA StatementsStep ==
  ASSUME StoreInv, NEW e \in Events, NEW i \in Instances, Contract!Held(e),
         NEW action \in [status : Contract!ActionStatus, operation : BOOLEAN, expiresAt : Nat],
         action.status # "NONE", action.expiresAt >= KeptUntil(e),
         action.status = "SUBMITTED" => action.operation,
         ActionOf(e) = "start" => stoppedAt[i] # 0,
         NEW instance \in [status : Contract!ManagedStatus, completedAt : Nat],
         NEW stopped \in Nat,
         stopped <= clock, stopped <= instance.completedAt, instance.completedAt # 0 => stopped # 0,
         stoppedAt[i] # 0 => stopped # 0,
         Statements(e, i, action, instance, stopped)
  PROVE  /\ StoreInv'
         /\ Contract!Record(e, i, action.status,
                            [status |-> instance.status, stopCompletedAt |-> stopped])
<1>1. TypeOK /\ RetentionInv /\ DatesInv /\ clock > 0
  BY DEF StoreInv
<1>2. /\ UNCHANGED <<eventRows, clock, published, erased>>
      /\ actionRows' = [actionRows EXCEPT ![e][i] = action]
  BY DEF Statements, callVars
<1>3. \A j \in Instances : erased.actions[e][j] = "NONE"
  BY HeldIsKept
<1>4. /\ EventDocs' = EventDocs
      /\ ActionDocs' = [ActionDocs EXCEPT ![e][i] = action.status]
  <2>1. EventDocs' = EventDocs
    BY <1>2 DEF EventDocs
  <2>2. ASSUME NEW f \in Events, NEW j \in Instances
        PROVE  ActionDocs'[f][j] = IF f = e /\ j = i THEN action.status ELSE ActionDocs[f][j]
    <3>1. CASE f = e /\ j = i
      <4>1. actionRows'[f][j] = action
        BY <1>1, <1>2, <3>1 DEF TypeOK
      <4> QED
        BY <3>1, <4>1 DEF ActionDocs
    <3>2. CASE ~ (f = e /\ j = i)
      <4>1. actionRows'[f][j] = actionRows[f][j]
        BY <1>1, <1>2, <3>2 DEF TypeOK
      <4> QED
        BY <1>2, <3>2, <4>1 DEF ActionDocs
    <3> QED
      BY <3>1, <3>2
  <2>3. ActionDocs' = [f \in Events |-> [j \in Instances |-> ActionDocs'[f][j]]]
    BY DEF ActionDocs
  <2>4. [ActionDocs EXCEPT ![e][i] = action.status]
          = [f \in Events |-> [j \in Instances |->
               IF f = e /\ j = i THEN action.status ELSE ActionDocs[f][j]]]
    BY DEF ActionDocs
  <2> QED
    BY <2>1, <2>2, <2>3, <2>4
<1>5. actionRows' \in [Events -> [Instances ->
        [status : Contract!ActionStatus, operation : BOOLEAN, expiresAt : Nat]]]
  BY <1>1, <1>2 DEF TypeOK
<1>6. /\ managedRows' \in [Instances -> [status : Contract!ManagedStatus, completedAt : Nat]]
      /\ stoppedAt' \in [Instances -> Nat]
      /\ \A j \in Instances : /\ stoppedAt'[j] <= managedRows'[j].completedAt
                              /\ stoppedAt'[j] <= clock
                              /\ managedRows'[j].completedAt # 0 => stoppedAt'[j] # 0
                              /\ stoppedAt[j] # 0 => stoppedAt'[j] # 0
      /\ \/ ManagedDocs' = [ManagedDocs EXCEPT ![i] = [status |-> instance.status,
                                                       stopCompletedAt |-> stopped]]
         \/ UNCHANGED ManagedDocs
  <2>1. CASE UNCHANGED <<managedRows, stoppedAt>>
    BY <1>1, <2>1 DEF TypeOK, DatesInv, ManagedDocs
  <2>2. CASE /\ managedRows' = [managedRows EXCEPT ![i] = instance]
             /\ stoppedAt' = [stoppedAt EXCEPT ![i] = stopped]
    <3>1. /\ managedRows' \in [Instances ->
               [status : Contract!ManagedStatus, completedAt : Nat]]
          /\ stoppedAt' \in [Instances -> Nat]
      BY <1>1, <2>2 DEF TypeOK
    <3>2. ASSUME NEW j \in Instances
          PROVE  /\ stoppedAt'[j] <= managedRows'[j].completedAt
                 /\ stoppedAt'[j] <= clock
                 /\ managedRows'[j].completedAt # 0 => stoppedAt'[j] # 0
                 /\ stoppedAt[j] # 0 => stoppedAt'[j] # 0
      <4>1. CASE j = i
        BY <1>1, <2>2, <4>1 DEF TypeOK
      <4>2. CASE j # i
        BY <1>1, <2>2, <4>2 DEF TypeOK, DatesInv
      <4> QED
        BY <4>1, <4>2
    <3>3. ManagedDocs' = [ManagedDocs EXCEPT ![i] = [status |-> instance.status,
                                                     stopCompletedAt |-> stopped]]
      BY <1>1, <2>2 DEF TypeOK, ManagedDocs
    <3> QED
      BY <3>1, <3>2, <3>3
  <2> QED
    BY <2>1, <2>2 DEF Statements
<1>7. TypeOK'
  BY <1>1, <1>2, <1>5, <1>6 DEF TypeOK
<1>8. ASSUME NEW f \in Events, NEW j \in Instances
      PROVE  /\ actionRows'[f][j].status # "NONE" => actionRows'[f][j].expiresAt >= KeptUntil(f)
             /\ ActionDocs'[f][j] # "NONE" /\ ActionOf(f) = "start" => stoppedAt'[j] # 0
             /\ actionRows'[f][j].status = "SUBMITTED" => actionRows'[f][j].operation
  <2>1. CASE f = e /\ j = i
    <3>1. actionRows'[f][j] = action
      BY <1>1, <1>2, <2>1 DEF TypeOK
    <3>2. ActionOf(f) = "start" => stoppedAt'[j] # 0
      BY <1>6, <2>1
    <3> QED
      BY <2>1, <3>1, <3>2
  <2>2. CASE ~ (f = e /\ j = i)
    <3>1. actionRows'[f][j] = actionRows[f][j]
      BY <1>1, <1>2, <2>2 DEF TypeOK
    <3>2. ActionDocs'[f][j] = ActionDocs[f][j]
      BY <1>2, <3>1 DEF ActionDocs
    <3> QED
      BY <1>1, <1>6, <3>1, <3>2 DEF RetentionInv, DatesInv
  <2> QED
    BY <2>1, <2>2
<1>9. RetentionInv'
  BY <1>1, <1>2, <1>4, <1>8 DEF RetentionInv, KeptUntil
<1>10. DatesInv'
  BY <1>2, <1>6, <1>8 DEF DatesInv
<1>11. StoreInv'
  BY <1>1, <1>2, <1>7, <1>9, <1>10 DEF StoreInv
<1>12. Contract!Record(e, i, action.status,
                       [status |-> instance.status, stopCompletedAt |-> stopped])
  BY <1>2, <1>4, <1>6 DEF Contract!Record
<1> QED
  BY <1>11, <1>12

\* No operation of an event is forgotten by the query, and only what was stopped
\* long enough ago is offered.
LEMMA QueriesAreSound ==
  ASSUME StoreInv, NEW e \in Events, Contract!Held(e)
  PROVE  /\ ListPending(e) = Contract!PendingActions(e)
         /\ ListRecoverable \subseteq Contract!RecoverableInstances(clock)
         /\ \A i \in ListRecoverable : stoppedAt[i] # 0
<1>1. TypeOK /\ DatesInv
  BY DEF StoreInv
<1>2. ListPending(e) = Contract!PendingActions(e)
  BY <1>1, HeldIsKept DEF DatesInv, ListPending, Contract!PendingActions
<1>3. ASSUME NEW i \in ListRecoverable
      PROVE  i \in Contract!RecoverableInstances(clock) /\ stoppedAt[i] # 0
  <2>1. /\ i \in Instances /\ managedRows[i].status = "STOP_COMPLETED"
        /\ managedRows[i].completedAt # 0
        /\ managedRows[i].completedAt + RecoveryDelay <= clock
    BY DEF ListRecoverable
  <2>2. stoppedAt[i] # 0 /\ stoppedAt[i] + RecoveryDelay <= clock
    BY <1>1, <2>1, ConstantTypes DEF TypeOK, DatesInv
  <2>3. ManagedDocs[i] = [status |-> "STOP_COMPLETED", stopCompletedAt |-> stoppedAt[i]]
    BY <2>1 DEF ManagedDocs
  <2> QED
    BY <2>1, <2>2, <2>3 DEF Contract!RecoverableInstances
<1> QED
  BY <1>2, <1>3

LEMMA IntentKeeps ==
  ASSUME StoreInv, NEW e \in Events, NEW i \in Instances, RecordActionIntent(e, i)
  PROVE  StoreInv' /\ Contract!Intent(e, i)
<1> DEFINE instance == IF ActionOf(e) = "stop" THEN UpsertManaged(i) ELSE managedRows[i]
<1>1. TypeOK /\ RetentionInv /\ DatesInv
  BY DEF StoreInv
<1>2. /\ Contract!Held(e) /\ DecisionOf[e] # "NO_ACTION" /\ ListPending(e) = {}
      /\ ActionOf(e) = "start" => i \in ListRecoverable
      /\ Statements(e, i, UpsertAction(e, i), instance, stoppedAt[i])
  BY DEF RecordActionIntent
<1>3. /\ Contract!PendingActions(e) = {}
      /\ ActionOf(e) = "start" => /\ i \in Contract!RecoverableInstances(clock)
                                  /\ stoppedAt[i] # 0
  BY <1>2, QueriesAreSound
<1>4. /\ UpsertAction(e, i) \in [status : Contract!ActionStatus, operation : BOOLEAN,
                                 expiresAt : Nat]
      /\ UpsertAction(e, i).status = "INTENT_RECORDED"
      /\ UpsertAction(e, i).expiresAt >= KeptUntil(e)
  <2>1. clock \in Nat /\ clock + Retention >= KeptUntil(e)
    BY <1>1, <1>2, HeldIsKept DEF TypeOK
  <2>2. CASE actionRows[e][i].status = "NONE"
    BY <2>1, <2>2, ConstantTypes DEF UpsertAction, Contract!ActionStatus
  <2>3. CASE actionRows[e][i].status # "NONE"
    <3> DEFINE row == actionRows[e][i]
    <3>1. row \in [status : Contract!ActionStatus, operation : BOOLEAN, expiresAt : Nat]
      BY <1>1 DEF TypeOK
    <3>2. row.expiresAt >= KeptUntil(e)
      BY <1>1, <2>3 DEF RetentionInv
    <3>3. UpsertAction(e, i) = [row EXCEPT !.status = "INTENT_RECORDED"]
      BY <2>3 DEF UpsertAction
    <3> HIDE DEF row
    <3> QED
      BY <3>1, <3>2, <3>3 DEF Contract!ActionStatus
  <2> QED
    BY <2>2, <2>3
<1>5. /\ instance \in [status : Contract!ManagedStatus, completedAt : Nat]
      /\ instance.completedAt = managedRows[i].completedAt
      /\ instance.status = IF ActionOf(e) = "stop" THEN "STOP_INTENT" ELSE managedRows[i].status
  BY <1>1 DEF TypeOK, UpsertManaged, Contract!ManagedStatus
<1>6. /\ stoppedAt[i] \in Nat /\ stoppedAt[i] <= managedRows[i].completedAt
      /\ stoppedAt[i] <= clock
      /\ managedRows[i].completedAt # 0 => stoppedAt[i] # 0
  BY <1>1 DEF TypeOK, DatesInv
<1> HIDE DEF instance
<1>7. /\ StoreInv'
      /\ Contract!Record(e, i, "INTENT_RECORDED",
                         [status |-> instance.status, stopCompletedAt |-> stoppedAt[i]])
  BY <1>2, <1>3, <1>4, <1>5, <1>6, StatementsStep
<1>8. [status |-> instance.status, stopCompletedAt |-> stoppedAt[i]]
        = IF ActionOf(e) = "stop" THEN [ManagedDocs[i] EXCEPT !.status = "STOP_INTENT"]
                                  ELSE ManagedDocs[i]
  BY <1>5 DEF ManagedDocs
<1>9. Contract!Record(e, i, "INTENT_RECORDED",
        IF ActionOf(e) = "stop" THEN [ManagedDocs[i] EXCEPT !.status = "STOP_INTENT"]
                                ELSE ManagedDocs[i])
  BY <1>7, <1>8
<1> QED
  BY <1>2, <1>3, <1>7, <1>9 DEF Contract!Intent, Contract!ActionOf, ActionOf

\* What the methods after the intent have in common: the action's row is there
\* and keeps its expiry, and the instance's row keeps a date in order.
LEMMA LifecycleStep ==
  ASSUME StoreInv, NEW e \in Events, NEW i \in Instances,
         NEW before \in SUBSET (Contract!ActionStatus \ {"NONE"}),
         Contract!Recorded(e, i, before),
         NEW status \in Contract!ActionStatus \ {"NONE"}, NEW named \in BOOLEAN,
         status = "SUBMITTED" => named,
         NEW outcome \in Contract!ManagedStatus, NEW at \in {0, clock},
         NEW stopped \in {stoppedAt[i], clock},
         stopped = clock => at = clock \/ stopped = stoppedAt[i],
         at = clock => stopped = clock \/ ActionOf(e) = "start",
         Statements(e, i, UpdateAction(e, i, status, named), UpdateManaged(i, outcome, at), stopped)
  PROVE  /\ StoreInv'
         /\ Contract!Record(e, i, status, [status |-> outcome, stopCompletedAt |-> stopped])
<1>1. TypeOK /\ RetentionInv /\ DatesInv /\ clock > 0
  BY DEF StoreInv
<1>2. Contract!Held(e) /\ ActionDocs[e][i] \in before /\ ManagedDocs[i].status # "NONE"
  BY DEF Contract!Recorded
<1>3. actionRows[e][i].status # "NONE" /\ ActionDocs[e][i] # "NONE"
  BY <1>2, HeldIsKept
<1>4. /\ UpdateAction(e, i, status, named)
           \in [status : Contract!ActionStatus, operation : BOOLEAN, expiresAt : Nat]
      /\ UpdateAction(e, i, status, named).status = status
      /\ UpdateAction(e, i, status, named).expiresAt >= KeptUntil(e)
      /\ status = "SUBMITTED" => UpdateAction(e, i, status, named).operation
  <2> DEFINE row == actionRows[e][i]
             operation == row.operation \/ named
  <2>1. row \in [status : Contract!ActionStatus, operation : BOOLEAN, expiresAt : Nat]
    BY <1>1 DEF TypeOK
  <2>2. row.expiresAt >= KeptUntil(e)
    BY <1>1, <1>3 DEF RetentionInv
  <2>3. UpdateAction(e, i, status, named)
          = [row EXCEPT !.status = status, !.operation = operation]
    BY <1>3 DEF UpdateAction
  <2>4. operation \in BOOLEAN /\ (status = "SUBMITTED" => operation)
    OBVIOUS
  <2> HIDE DEF row, operation
  <2> QED
    BY <2>1, <2>2, <2>3, <2>4
<1>5. UpdateManaged(i, outcome, at)
        = [status |-> outcome, completedAt |-> IF at = 0 THEN managedRows[i].completedAt ELSE at]
  BY <1>2 DEF UpdateManaged, ManagedDocs
<1>6. /\ clock \in Nat /\ stoppedAt[i] \in Nat /\ managedRows[i].completedAt \in Nat
      /\ stoppedAt[i] <= managedRows[i].completedAt /\ stoppedAt[i] <= clock
      /\ managedRows[i].completedAt # 0 => stoppedAt[i] # 0
  BY <1>1 DEF TypeOK, DatesInv
<1>7. ActionOf(e) = "start" => stoppedAt[i] # 0
  BY <1>1, <1>3 DEF DatesInv
<1>8. /\ UpdateManaged(i, outcome, at) \in [status : Contract!ManagedStatus, completedAt : Nat]
      /\ UpdateManaged(i, outcome, at).status = outcome
      /\ stopped \in Nat /\ stopped <= clock
      /\ stopped <= UpdateManaged(i, outcome, at).completedAt
      /\ UpdateManaged(i, outcome, at).completedAt # 0 => stopped # 0
      /\ stoppedAt[i] # 0 => stopped # 0
  BY <1>1, <1>5, <1>6, <1>7
<1> QED
  BY <1>2, <1>4, <1>7, <1>8, StatementsStep

LEMMA SubmittedKeeps ==
  ASSUME StoreInv, NEW e \in Events, NEW i \in Instances, RecordActionSubmitted(e, i)
  PROVE  StoreInv' /\ Contract!Submitted(e, i)
<1> DEFINE outcome == IF ActionOf(e) = "stop" THEN "STOP_SUBMITTED" ELSE "START_SUBMITTED"
<1>1. /\ Contract!Recorded(e, i, {"INTENT_RECORDED"})
      /\ Statements(e, i, UpdateAction(e, i, "SUBMITTED", TRUE), UpdateManaged(i, outcome, 0),
                    stoppedAt[i])
  BY DEF RecordActionSubmitted
<1>2. outcome \in Contract!ManagedStatus
  BY DEF Contract!ManagedStatus
<1> HIDE DEF outcome
<1>3. /\ {"INTENT_RECORDED"} \in SUBSET (Contract!ActionStatus \ {"NONE"})
      /\ "SUBMITTED" \in Contract!ActionStatus \ {"NONE"}
      /\ clock # 0
  BY DEF Contract!ActionStatus, StoreInv
<1>4. /\ StoreInv'
      /\ Contract!Record(e, i, "SUBMITTED", [status |-> outcome, stopCompletedAt |-> stoppedAt[i]])
  BY <1>1, <1>2, <1>3, LifecycleStep
<1>5. [ManagedDocs[i] EXCEPT !.status = outcome]
        = [status |-> outcome, stopCompletedAt |-> stoppedAt[i]]
  BY DEF ManagedDocs
<1>6. Contract!Record(e, i, "SUBMITTED", [ManagedDocs[i] EXCEPT !.status = outcome])
  BY <1>4, <1>5
<1> QED
  BY <1>1, <1>4, <1>6 DEF Contract!Submitted, Contract!ActionOf, ActionOf, outcome

LEMMA CompletedKeeps ==
  ASSUME StoreInv, NEW e \in Events, NEW i \in Instances, RecordActionCompleted(e, i)
  PROVE  StoreInv' /\ Contract!Completed(e, i)
<1> DEFINE outcome == IF ActionOf(e) = "stop" THEN "STOP_COMPLETED" ELSE "START_COMPLETED"
           stopped == IF ActionOf(e) = "stop" THEN clock ELSE stoppedAt[i]
<1>1. /\ Contract!Recorded(e, i, {"SUBMITTED"})
      /\ Statements(e, i, UpdateAction(e, i, "COMPLETED", TRUE),
                    UpdateManaged(i, outcome, clock), stopped)
  BY DEF RecordActionCompleted
<1>2. /\ outcome \in Contract!ManagedStatus /\ stopped \in {stoppedAt[i], clock}
      /\ stopped = clock \/ ActionOf(e) = "start"
  BY DEF Contract!ManagedStatus, ActionOf
<1>3. /\ {"SUBMITTED"} \in SUBSET (Contract!ActionStatus \ {"NONE"})
      /\ "COMPLETED" \in Contract!ActionStatus \ {"NONE"}
  BY DEF Contract!ActionStatus
<1> HIDE DEF outcome, stopped
<1>4. /\ StoreInv'
      /\ Contract!Record(e, i, "COMPLETED", [status |-> outcome, stopCompletedAt |-> stopped])
  BY <1>1, <1>2, <1>3, LifecycleStep
<1>5. [status |-> outcome, stopCompletedAt |-> stopped]
        = IF ActionOf(e) = "stop" THEN [status |-> "STOP_COMPLETED", stopCompletedAt |-> clock]
                                  ELSE [ManagedDocs[i] EXCEPT !.status = "START_COMPLETED"]
  BY DEF ManagedDocs, outcome, stopped
<1>6. Contract!Record(e, i, "COMPLETED",
        IF ActionOf(e) = "stop" THEN [status |-> "STOP_COMPLETED", stopCompletedAt |-> clock]
                                ELSE [ManagedDocs[i] EXCEPT !.status = "START_COMPLETED"])
  BY <1>4, <1>5
<1> QED
  BY <1>1, <1>4, <1>6 DEF Contract!Completed, Contract!ActionOf, ActionOf

LEMMA FailedKeeps ==
  ASSUME StoreInv, NEW e \in Events, NEW i \in Instances, RecordActionFailed(e, i)
  PROVE  StoreInv' /\ Contract!Failed(e, i)
<1> DEFINE outcome == IF ActionOf(e) = "stop" THEN "STOP_FAILED" ELSE "START_FAILED"
<1>1. Contract!Recorded(e, i, {"INTENT_RECORDED", "SUBMITTED"})
  BY DEF RecordActionFailed
<1>2. PICK status \in {"FAILED", "FAILED_RETRYABLE"} :
        Statements(e, i, UpdateAction(e, i, status, FALSE), UpdateManaged(i, outcome, 0),
                   stoppedAt[i])
  BY DEF RecordActionFailed
<1>3. outcome \in Contract!ManagedStatus
  BY DEF Contract!ManagedStatus
<1> HIDE DEF outcome
<1>4. /\ {"INTENT_RECORDED", "SUBMITTED"} \in SUBSET (Contract!ActionStatus \ {"NONE"})
      /\ status \in Contract!ActionStatus \ {"NONE"} /\ status # "SUBMITTED"
      /\ clock # 0
  BY DEF Contract!ActionStatus, StoreInv
<1>5. /\ StoreInv'
      /\ Contract!Record(e, i, status, [status |-> outcome, stopCompletedAt |-> stoppedAt[i]])
  BY <1>1, <1>2, <1>3, <1>4, LifecycleStep
<1>6. [ManagedDocs[i] EXCEPT !.status = outcome]
        = [status |-> outcome, stopCompletedAt |-> stoppedAt[i]]
  BY DEF ManagedDocs
<1>7. Contract!Record(e, i, status, [ManagedDocs[i] EXCEPT !.status = outcome])
  BY <1>5, <1>6
<1> QED
  BY <1>1, <1>5, <1>7 DEF Contract!Failed, Contract!ActionOf, ActionOf, outcome

LEMMA MarkKeeps ==
  ASSUME StoreInv, NEW i \in Instances, MarkManagedInstance(i)
  PROVE  StoreInv' /\ Contract!Mark(i)
<1>1. TypeOK /\ RetentionInv /\ DatesInv /\ clock > 0
  BY DEF StoreInv
<1>2. PICK finding \in Contract!Findings :
        managedRows' = [managedRows EXCEPT ![i].status = finding]
  BY DEF MarkManagedInstance
<1>3. UNCHANGED <<eventRows, actionRows, clock, published, erased, stoppedAt>>
  BY DEF MarkManagedInstance, callVars
<1>4. finding \in Contract!ManagedStatus
  BY DEF Contract!Findings, Contract!ManagedStatus
<1>5. UNCHANGED <<EventDocs, ActionDocs>>
  BY <1>3 DEF EventDocs, ActionDocs
<1>6. managedRows' = [managedRows EXCEPT ![i] =
                       [status |-> finding, completedAt |-> managedRows[i].completedAt]]
  <2>1. managedRows \in [Instances -> [status : Contract!ManagedStatus, completedAt : Nat]]
    BY <1>1 DEF TypeOK
  <2>2. [managedRows EXCEPT ![i].status = finding]
          = [managedRows EXCEPT ![i] = [managedRows[i] EXCEPT !.status = finding]]
    OBVIOUS
  <2>3. [managedRows[i] EXCEPT !.status = finding]
          = [status |-> finding, completedAt |-> managedRows[i].completedAt]
    BY <2>1
  <2> QED
    BY <1>2, <2>2, <2>3
<1>7. ManagedDocs' = [ManagedDocs EXCEPT ![i] =
                       [status |-> finding, stopCompletedAt |-> stoppedAt[i]]]
  BY <1>1, <1>3, <1>6 DEF TypeOK, ManagedDocs
<1>8. ManagedDocs' = [ManagedDocs EXCEPT ![i].status = finding]
  <2>1. ManagedDocs \in [Instances -> [status : Contract!ManagedStatus, stopCompletedAt : Nat]]
        /\ ManagedDocs[i].stopCompletedAt = stoppedAt[i]
    BY <1>1, DocTypes DEF ManagedDocs
  <2> QED
    BY <1>7, <2>1
<1>9. StoreInv'
  <2>1. TypeOK'
    BY <1>1, <1>3, <1>4, <1>6 DEF TypeOK
  <2>2. RetentionInv'
    BY <1>1, <1>3, <1>5 DEF RetentionInv, KeptUntil
  <2>3. \A j \in Instances : managedRows'[j].completedAt = managedRows[j].completedAt
    BY <1>1, <1>6 DEF TypeOK
  <2>4. DatesInv'
    BY <1>1, <1>3, <1>5, <2>3 DEF DatesInv
  <2> QED
    BY <1>1, <1>3, <2>1, <2>2, <2>4 DEF StoreInv
<1>10. Contract!SetManaged(i, finding)
  BY <1>5, <1>8 DEF Contract!SetManaged
<1> QED
  BY <1>3, <1>9, <1>10 DEF MarkManagedInstance, Contract!Mark, ManagedDocs

-----------------------------------------------------------------------------
(* Retention and time.                                                     *)

\* The cleanup deletes only rows of events that are over, and what they said is
\* still what the callers know: the contract does not see it.
LEMMA CleanupKeeps ==
  ASSUME StoreInv, CleanupExpired
  PROVE  StoreInv' /\ UNCHANGED <<EventDocs, ActionDocs, ManagedDocs, clock, published>>
<1>1. TypeOK /\ RetentionInv /\ DatesInv /\ clock > 0
  BY DEF StoreInv
<1>2. UNCHANGED <<managedRows, clock, published, stoppedAt>>
  BY DEF CleanupExpired, callVars
<1>3. /\ eventRows' = [e \in Events |->
           IF Expired(eventRows[e]) THEN NoEvent ELSE eventRows[e]]
      /\ actionRows' = [e \in Events |-> [i \in Instances |->
           IF Expired(actionRows[e][i]) THEN NoAction ELSE actionRows[e][i]]]
      /\ erased'.events = [e \in Events |->
           IF Expired(eventRows[e]) THEN EventDocs[e] ELSE erased.events[e]]
      /\ erased'.actions = [e \in Events |-> [i \in Instances |->
           IF Expired(actionRows[e][i]) THEN ActionDocs[e][i] ELSE erased.actions[e][i]]]
  BY DEF CleanupExpired
<1>4. EventDocs' = EventDocs
  <2>1. ASSUME NEW e \in Events
        PROVE  EventDocs'[e] = EventDocs[e]
    <3>1. CASE Expired(eventRows[e])
      BY <1>3, <3>1 DEF EventDocs, NoEvent
    <3>2. CASE ~ Expired(eventRows[e])
      BY <1>3, <3>2 DEF EventDocs
    <3> QED
      BY <3>1, <3>2
  <2>2. /\ EventDocs = [e \in Events |-> EventDocs[e]]
        /\ EventDocs' = [e \in Events |-> EventDocs'[e]]
    BY DEF EventDocs
  <2> QED
    BY <2>1, <2>2
<1>5. ActionDocs' = ActionDocs
  <2>1. ASSUME NEW e \in Events, NEW i \in Instances
        PROVE  ActionDocs'[e][i] = ActionDocs[e][i]
    <3>1. CASE Expired(actionRows[e][i])
      BY <1>3, <3>1 DEF ActionDocs, NoAction
    <3>2. CASE ~ Expired(actionRows[e][i])
      BY <1>3, <3>2 DEF ActionDocs
    <3> QED
      BY <3>1, <3>2
  <2>2. /\ ActionDocs = [e \in Events |-> [i \in Instances |-> ActionDocs[e][i]]]
        /\ ActionDocs' = [e \in Events |-> [i \in Instances |-> ActionDocs'[e][i]]]
    BY DEF ActionDocs
  <2> QED
    BY <2>1, <2>2
<1>6. TypeOK'
  <2>1. eventRows' \in [Events -> [status : Contract!EventStatus, leaseUntil : Nat, expiresAt : Nat]]
    BY <1>1, <1>3 DEF TypeOK, NoEvent, Contract!EventStatus
  <2>2. actionRows' \in [Events -> [Instances ->
          [status : Contract!ActionStatus, operation : BOOLEAN, expiresAt : Nat]]]
    BY <1>1, <1>3 DEF TypeOK, NoAction, Contract!ActionStatus
  <2>3. erased'.events \in [Events -> [status : Contract!EventStatus, leaseUntil : Nat]]
    BY <1>1, <1>3, DocTypes DEF TypeOK
  <2>4. erased'.actions \in [Events -> [Instances -> Contract!ActionStatus]]
    BY <1>1, <1>3, DocTypes DEF TypeOK
  <2>5. erased' = [events |-> erased'.events, actions |-> erased'.actions]
    BY DEF CleanupExpired
  <2>6. erased' \in [events : [Events -> [status : Contract!EventStatus, leaseUntil : Nat]],
                     actions : [Events -> [Instances -> Contract!ActionStatus]]]
    BY <2>3, <2>4, <2>5
  <2> QED
    BY <1>1, <1>2, <2>1, <2>2, <2>6 DEF TypeOK
<1>7. RetentionInv'
  <2>1. ASSUME NEW e \in Events
        PROVE  /\ eventRows'[e].status # "NONE" => eventRows'[e].expiresAt >= KeptUntil(e)
               /\ erased'.events[e].status # "NONE" => clock > KeptUntil(e)
    <3>1. CASE Expired(eventRows[e])
      <4>1. eventRows[e].expiresAt < clock /\ eventRows[e].expiresAt >= KeptUntil(e)
        BY <1>1, <3>1 DEF RetentionInv, Expired
      <4>2. eventRows[e].expiresAt \in Nat /\ clock \in Nat /\ published[e] \in Nat
        BY <1>1, ConstantTypes DEF TypeOK
      <4>3. clock > KeptUntil(e)
        BY <4>1, <4>2, ConstantTypes DEF KeptUntil
      <4> QED
        BY <1>3, <3>1, <4>3 DEF NoEvent
    <3>2. CASE ~ Expired(eventRows[e])
      BY <1>1, <1>3, <3>2 DEF RetentionInv
    <3> QED
      BY <3>1, <3>2
  <2>2. ASSUME NEW e \in Events, NEW i \in Instances
        PROVE  /\ actionRows'[e][i].status # "NONE" => actionRows'[e][i].expiresAt >= KeptUntil(e)
               /\ erased'.actions[e][i] # "NONE" => clock > KeptUntil(e)
    <3>1. CASE Expired(actionRows[e][i])
      <4>1. actionRows[e][i].expiresAt < clock /\ actionRows[e][i].expiresAt >= KeptUntil(e)
        BY <1>1, <3>1 DEF RetentionInv, Expired
      <4>2. actionRows[e][i].expiresAt \in Nat /\ clock \in Nat /\ published[e] \in Nat
        BY <1>1, ConstantTypes DEF TypeOK
      <4>3. clock > KeptUntil(e)
        BY <4>1, <4>2, ConstantTypes DEF KeptUntil
      <4> QED
        BY <1>3, <3>1, <4>3 DEF NoAction
    <3>2. CASE ~ Expired(actionRows[e][i])
      BY <1>1, <1>3, <3>2 DEF RetentionInv
    <3> QED
      BY <3>1, <3>2
  <2> QED
    BY <1>1, <1>2, <1>4, <2>1, <2>2 DEF RetentionInv, KeptUntil
<1>8. DatesInv'
  BY <1>1, <1>2, <1>3, <1>5 DEF DatesInv, NoAction
<1>9. ManagedDocs' = ManagedDocs
  BY <1>2 DEF ManagedDocs
<1> QED
  BY <1>1, <1>2, <1>4, <1>5, <1>6, <1>7, <1>8, <1>9 DEF StoreInv

LEMMA TickKeeps ==
  ASSUME StoreInv, Tick
  PROVE  StoreInv' /\ Contract!Tick
<1>1. TypeOK /\ RetentionInv /\ DatesInv /\ clock > 0
  BY DEF StoreInv
<1>2. /\ clock < MaxTime /\ clock' = clock + 1
      /\ UNCHANGED <<eventRows, actionRows, managedRows, published, erased, stoppedAt>>
  BY DEF Tick
<1>3. clock \in Nat /\ clock' \in Nat /\ clock' > 0 /\ clock' > clock
  BY <1>1, <1>2 DEF TypeOK
<1>4. UNCHANGED <<EventDocs, ActionDocs, ManagedDocs>>
  BY <1>2 DEF EventDocs, ActionDocs, ManagedDocs
<1>5. TypeOK'
  BY <1>1, <1>2, <1>3 DEF TypeOK
<1>6. \A e \in Events : published[e] \in Nat
  BY <1>1, ConstantTypes DEF TypeOK
<1>7. RetentionInv'
  BY <1>1, <1>2, <1>3, <1>4, <1>6, ConstantTypes DEF RetentionInv, KeptUntil
<1>8. DatesInv'
  BY <1>1, <1>2, <1>3, <1>4 DEF DatesInv, TypeOK
<1>9. Contract!Tick
  BY <1>2, <1>4 DEF Contract!Tick, Contract!storeVars
<1> QED
  BY <1>3, <1>5, <1>7, <1>8, <1>9 DEF StoreInv

-----------------------------------------------------------------------------
(* The theorems.                                                           *)

LEMMA InitKeeps ==
  ASSUME Init
  PROVE  StoreInv /\ Contract!ContractInit
<1>1. EventDocs = [e \in Events |-> [status |-> "NONE", leaseUntil |-> 0]]
  BY DEF Init, EventDocs, NoEvent
<1>2. ActionDocs = [e \in Events |-> [i \in Instances |-> "NONE"]]
  BY DEF Init, ActionDocs, NoAction
<1>3. ManagedDocs = [i \in Instances |-> [status |-> "NONE", stopCompletedAt |-> 0]]
  BY DEF Init, ManagedDocs
<1>4. Contract!ContractInit
  BY <1>1, <1>2, <1>3 DEF Init, Contract!ContractInit, Contract!StoreInit
<1>5. TypeOK
  BY DEF Init, TypeOK, NoEvent, NoAction, Contract!EventStatus, Contract!ActionStatus,
         Contract!ManagedStatus
<1>6. \A e \in Events : published[e] \in Nat
  BY <1>5, ConstantTypes DEF TypeOK
<1>7. RetentionInv
  BY <1>1, <1>6, ConstantTypes DEF Init, RetentionInv, NoEvent, NoAction
<1>8. DatesInv
  BY <1>2 DEF Init, DatesInv, NoAction
<1> QED
  BY <1>4, <1>5, <1>7, <1>8 DEF Init, StoreInv

\* Each step keeps the invariant, and is a step of the contract or none.
LEMMA NextKeeps ==
  ASSUME StoreInv, [Next]_vars
  PROVE  StoreInv' /\ [Contract!ContractNext]_(Contract!contractVars)
<1>1. ASSUME NEW e \in Events, ClaimEvent(e) \/ FinishEvent(e)
      PROVE  StoreInv' /\ (Contract!Claim(e) \/ Contract!Finish(e))
  BY <1>1, ClaimEventKeeps, FinishEventKeeps
<1>2. ASSUME NEW e \in Events, NEW i \in Instances,
             \/ RecordActionIntent(e, i) \/ RecordActionSubmitted(e, i)
             \/ RecordActionCompleted(e, i) \/ RecordActionFailed(e, i)
      PROVE  /\ StoreInv'
             /\ \/ Contract!Intent(e, i) \/ Contract!Submitted(e, i)
                \/ Contract!Completed(e, i) \/ Contract!Failed(e, i)
  BY <1>2, IntentKeeps, SubmittedKeeps, CompletedKeeps, FailedKeeps
<1>3. ASSUME NEW i \in Instances, MarkManagedInstance(i)
      PROVE  StoreInv' /\ Contract!Mark(i)
  BY <1>3, MarkKeeps
<1>4. CASE CleanupExpired
  BY <1>4, CleanupKeeps DEF Contract!contractVars, Contract!storeVars
<1>5. CASE Tick
  BY <1>5, TickKeeps DEF Contract!ContractNext
<1>6. CASE UNCHANGED vars
  <2>1. UNCHANGED <<eventRows, actionRows, managedRows, clock, published, erased, stoppedAt>>
    BY <1>6 DEF vars, callVars
  <2>2. UNCHANGED <<EventDocs, ActionDocs, ManagedDocs>>
    BY <2>1 DEF EventDocs, ActionDocs, ManagedDocs
  <2>3. StoreInv'
    BY <2>1, <2>2 DEF StoreInv, TypeOK, RetentionInv, DatesInv, KeptUntil
  <2> QED
    BY <2>1, <2>2, <2>3 DEF Contract!contractVars, Contract!storeVars
<1> QED
  BY <1>1, <1>2, <1>3, <1>4, <1>5, <1>6 DEF Next, Contract!ContractNext

\* The rows outlive the messages and the dates keep their order, whatever is
\* deleted, lost between two statements or repeated.
THEOREM StoreInvariant == Spec => []StoreInv
<1>1. Init => StoreInv
  BY InitKeeps
<1>2. StoreInv /\ [Next]_vars => StoreInv'
  BY NextKeeps
<1> QED
  BY <1>1, <1>2, PTL DEF Spec

\* The SQLite store is an implementation of the contract of the audit store.
THEOREM StoreImplementsContract == Spec => ImplementsContract
<1>1. Init => Contract!ContractInit
  BY InitKeeps
<1>2. StoreInv /\ [Next]_vars => [Contract!ContractNext]_(Contract!contractVars)
  BY NextKeeps
<1> QED
  BY <1>1, <1>2, StoreInvariant, PTL DEF Spec, ImplementsContract, Contract!ContractSpec

\* An event that was settled stays settled, when its row is deleted as well.
THEOREM StoreSettledForGood == Spec => SettledForGood
<1>1. ASSUME StoreInv, [Next]_vars, NEW e \in Events, EventDocs[e].status \in Contract!Settled
      PROVE  EventDocs'[e] = EventDocs[e]
  <2>1. EventDocs \in [Events -> [status : Contract!EventStatus, leaseUntil : Nat]]
    BY <1>1, DocTypes DEF StoreInv
  <2>2. [Contract!ContractNext]_(Contract!contractVars)
    BY <1>1, NextKeeps
  <2>3. ASSUME NEW f \in Events, Contract!Claim(f) \/ Contract!Finish(f)
        PROVE  EventDocs'[e] = EventDocs[e]
    <3>1. EventDocs[f].status \notin Contract!Settled
      BY <2>3 DEF Contract!Claim, Contract!Claimable, Contract!Finish, Contract!Held,
                  Contract!Settled
    <3>2. f # e
      BY <1>1, <3>1
    <3>3. \E doc : EventDocs' = [EventDocs EXCEPT ![f] = doc]
      BY <2>3 DEF Contract!Claim, Contract!ClaimEvent, Contract!Finish, Contract!CompleteEvent,
                  Contract!IgnoreEvent, Contract!FailEvent, Contract!SetEvent
    <3> QED
      BY <2>1, <3>2, <3>3
  <2>4. ASSUME NEW f \in Events, NEW i \in Instances,
               \/ Contract!Intent(f, i) \/ Contract!Submitted(f, i)
               \/ Contract!Completed(f, i) \/ Contract!Failed(f, i)
        PROVE  EventDocs' = EventDocs
    BY <2>4 DEF Contract!Intent, Contract!Submitted, Contract!Completed, Contract!Failed,
                Contract!Record
  <2>5. ASSUME NEW i \in Instances, Contract!Mark(i)
        PROVE  EventDocs' = EventDocs
    BY <2>5 DEF Contract!Mark, Contract!SetManaged
  <2>6. CASE Contract!Tick \/ UNCHANGED Contract!contractVars
    BY <2>6 DEF Contract!Tick, Contract!contractVars, Contract!storeVars
  <2> QED
    BY <2>2, <2>3, <2>4, <2>5, <2>6 DEF Contract!ContractNext
<1>2. StoreInv /\ [Next]_vars
        => [\A e \in Events : EventDocs[e].status \in Contract!Settled
                                => EventDocs'[e] = EventDocs[e]]_vars
  BY <1>1
<1> QED
  BY <1>2, StoreInvariant, PTL DEF Spec, SettledForGood

=============================================================================
