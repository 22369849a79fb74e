------------------------ MODULE NotificationsProofs ------------------------
(***************************************************************************)
(* What a start may undo, that a stop was foretold, and that the preview   *)
(* and the overview agree with the worker: the invariant of Notifications  *)
(* and what follows from it.                                               *)
(***************************************************************************)
EXTENDS Notifications, TLAPS

USE ConfigAssumption, NotificationAssumption

Statuses == {"NONE", "PROCESSING", "FAILED_RETRYABLE", "FAILED", "IGNORED", "COMPLETED"}

LEMMA TypeInit == Init => TypeOK
BY DEF Init, TypeOK, Messages, Payloads, NoPayload, NoEvent, NoAttempt, NotStopped, Stops, Events, Attempts,
       JsonValues, Absent, Kinds, Inventories

\* A plan is a set of instances.
LEMMA PlanType ==
  ASSUME TypeOK, NEW m \in Messages
  PROVE  Plan(m) \in SUBSET Instances
BY DEF Plan, Selected, TypeOK

\* The attempt that has planned, written out.
LEMMA PlannedIs ==
  ASSUME TypeOK, NEW m \in Messages, BuildPlan(m)
  PROVE  /\ attempt[m].stage = "claimed" /\ attempt[m].now \in Nat
         /\ attempt' = [attempt EXCEPT ![m] =
              [stage |-> "acting", now |-> attempt[m].now, left |-> Plan(m)]]
<1>1. attempt[m] \in Attempts
  BY DEF TypeOK
<1> QED
  BY <1>1 DEF Attempts, BuildPlan, MayPlan

\* An attempt that goes on with one instance less.
LEMMA WaitedIs ==
  ASSUME TypeOK, NEW m \in Messages, NEW i \in Instances, WaitEnds(m, i)
  PROVE  /\ attempt[m].stage = "acting" /\ attempt[m].now \in Nat
         /\ attempt' = [attempt EXCEPT ![m] =
              [stage |-> "acting", now |-> attempt[m].now, left |-> attempt[m].left \ {i}]]
<1>1. attempt[m] \in Attempts
  BY DEF TypeOK
<1> QED
  BY <1>1 DEF Attempts, WaitEnds, Awaits

\* The end of an attempt keeps the types of what it changes.
LEMMA EndsType ==
  ASSUME TypeOK, NEW m \in Messages, NEW status \in Statuses, EndsWith(m, status)
  PROVE  event' \in [Messages -> Events] /\ attempt' \in [Messages -> Attempts]
<1>1. [event[m] EXCEPT !.status = status] \in Events
  <2>1. event[m] \in Events
    BY DEF TypeOK
  <2> QED
    BY <2>1 DEF Events, Statuses
<1>2. event' = [event EXCEPT ![m] = [event[m] EXCEPT !.status = status]]
  BY DEF EndsWith
<1>3. NoAttempt \in Attempts
  BY DEF NoAttempt, Attempts
<1> QED
  BY <1>1, <1>2, <1>3 DEF TypeOK, EndsWith

\* The request of an instance, and the stop that a step may leave of it.
LEMMA RequestType ==
  ASSUME TypeOK, NEW m \in Messages, NEW i \in Instances
  PROVE  /\ Requested(m, i) \in [Messages -> [Instances -> {"NONE", "RUNNING", "DONE"}]]
         /\ [stopped EXCEPT ![i] = NotStopped] \in [Instances -> Stops]
         /\ [stopped EXCEPT ![i] = Completed(m)] \in [Instances -> Stops]
<1>1. Requested(m, i) \in [Messages -> [Instances -> {"NONE", "RUNNING", "DONE"}]]
  BY DEF Requested, TypeOK
<1>2. NotStopped \in Stops /\ Completed(m) \in Stops
  BY DEF NotStopped, Completed, Stops, Messages, TypeOK
<1> QED
  BY <1>1, <1>2 DEF TypeOK

\* Every step of an attempt keeps the types.
LEMMA AttemptType ==
  ASSUME TypeOK, NEW m \in Messages, Accepted(m), Attempt(m)
  PROVE  TypeOK'
<1> USE DEF billing
<1>0. Fault => faults' \in 0..MaxFaults
  BY DEF Fault, TypeOK
<1>1. CASE Claim(m)
  <2>1. Decision(m) \in {"STOP", "RECOVER", "NO_ACTION"}
    BY DEF Decision, DecisionFor
  <2>2. [status |-> "PROCESSING", decision |-> Decision(m)] \in Events
    BY <2>1 DEF Events
  <2>3. [stage |-> "claimed", now |-> clock, left |-> {}] \in Attempts
    BY DEF TypeOK, Attempts
  <2>4. event' \in [Messages -> Events] /\ attempt' \in [Messages -> Attempts]
    BY <1>1, <2>2, <2>3 DEF Claim, TypeOK
  <2> QED
    BY <1>1, <2>4 DEF Claim, TypeOK
<1>2. CASE SettleWithoutAction(m)
  <2>1. PICK status \in Statuses : EndsWith(m, status)
    BY <1>2 DEF SettleWithoutAction, Statuses
  <2> QED
    BY <1>2, <2>1, EndsType DEF SettleWithoutAction, TypeOK, Statuses
<1>3. CASE BuildPlan(m)
  <2>1. attempt' \in [Messages -> Attempts]
    <3>1. [stage |-> "acting", now |-> attempt[m].now, left |-> Plan(m)] \in Attempts
      BY <1>3, PlannedIs, PlanType DEF Attempts
    <3> QED
      <4>1. attempt \in [Messages -> Attempts]
        BY DEF TypeOK
      <4>2. attempt' = [attempt EXCEPT ![m] =
              [stage |-> "acting", now |-> attempt[m].now, left |-> Plan(m)]]
        BY <1>3, PlannedIs
      <4> QED
        BY <3>1, <4>1, <4>2
  <2>2. found' \in [Messages -> [Instances -> Stops]]
    <3>1. [i \in Instances |->
            IF pending[m] = {} /\ Decision(m) = "RECOVER" /\ i \in Plan(m)
            THEN stopped[i] ELSE found[m][i]] \in [Instances -> Stops]
      BY DEF TypeOK
    <3> QED
      BY <1>3, <3>1 DEF BuildPlan, TypeOK
  <2>3. announced' \in [Messages -> SUBSET Instances]
    <3>1. PreviewBudget(message[m], inventory, clock) \in SUBSET Instances
      BY DEF PreviewBudget, Selected
    <3>2. announced[m] \in SUBSET Instances
      BY DEF TypeOK
    <3> QED
      BY <1>3, <3>1, <3>2 DEF BuildPlan, TypeOK
  <2> QED
    BY <1>3, <2>1, <2>2, <2>3 DEF BuildPlan, TypeOK
<1>4. CASE PlanTooLarge(m)
  BY <1>4, EndsType DEF PlanTooLarge, TypeOK, Statuses
<1>5. CASE Complete(m)
  <2>1. Decision(m) \in {"STOP", "RECOVER", "NO_ACTION"}
    BY DEF Decision, DecisionFor
  <2>2. Decision(m) # "NO_ACTION" => control' \in [decision : {"NONE", "STOP", "RECOVER"}, at : Nat]
    BY <1>5, <2>1 DEF Complete, TypeOK, Attempts
  <2>3. Decision(m) # "NO_ACTION"
    BY <1>5 DEF Complete, Accepted
  <2> QED
    BY <1>5, <2>2, <2>3, EndsType DEF Complete, TypeOK, Statuses
<1>6. CASE Fails(m)
  <2>1. PICK status \in Statuses : EndsWith(m, status)
    <3>1. event[m].status \in Statuses
      BY DEF TypeOK, Events, Statuses
    <3> QED
      BY <1>6, <3>1 DEF Fails, Statuses
  <2> QED
    BY <1>0, <1>6, <2>1, EndsType DEF Fails, TypeOK, Statuses
<1>7. ASSUME NEW i \in Instances, Submit(m, i) PROVE TypeOK'
  BY <1>7, RequestType DEF Submit, TypeOK
<1>8. ASSUME NEW i \in Instances, SubmitFails(m, i) PROVE TypeOK'
  <2>1. PICK status \in Statuses : EndsWith(m, status)
    BY <1>8 DEF SubmitFails, Statuses
  <2>2. operation' \in [Messages -> [Instances -> {"NONE", "RUNNING", "DONE"}]]
    BY <1>8, RequestType DEF SubmitFails, TypeOK
  <2>3. stopped' \in [Instances -> Stops]
    <3>1. stopped' \in {stopped, [stopped EXCEPT ![i] = NotStopped]}
      BY <1>8 DEF SubmitFails
    <3>2. stopped \in [Instances -> Stops] /\ [stopped EXCEPT ![i] = NotStopped] \in [Instances -> Stops]
      BY RequestType DEF TypeOK
    <3> QED
      BY <3>1, <3>2
  <2>4. pending' \in [Messages -> SUBSET Instances]
    <3>1. pending' \in {pending, [pending EXCEPT ![m] = pending[m] \cup {i}]}
      BY <1>8 DEF SubmitFails
    <3>2. pending \in [Messages -> SUBSET Instances] /\ pending[m] \cup {i} \in SUBSET Instances
      BY DEF TypeOK
    <3> QED
      BY <3>1, <3>2
  <2> QED
    BY <1>0, <1>8, <2>1, <2>2, <2>3, <2>4, EndsType DEF SubmitFails, TypeOK, Statuses
<1>9. ASSUME NEW i \in Instances, WaitEnds(m, i) PROVE TypeOK'
  <2>1. attempt[m].left \ {i} \in SUBSET Instances /\ pending[m] \ {i} \in SUBSET Instances
    BY DEF TypeOK, Attempts
  <2>2. attempt' \in [Messages -> Attempts]
    <3>1. [stage |-> "acting", now |-> attempt[m].now, left |-> attempt[m].left \ {i}] \in Attempts
      BY <1>9, <2>1, WaitedIs DEF Attempts
    <3> QED
      <4>1. attempt \in [Messages -> Attempts]
        BY DEF TypeOK
      <4>2. attempt' = [attempt EXCEPT ![m] =
              [stage |-> "acting", now |-> attempt[m].now, left |-> attempt[m].left \ {i}]]
        BY <1>9, WaitedIs
      <4> QED
        BY <3>1, <4>1, <4>2
  <2>3. pending' \in [Messages -> SUBSET Instances]
    BY <1>9, <2>1 DEF WaitEnds, TypeOK
  <2> QED
    BY <1>9, <2>2, <2>3, RequestType DEF WaitEnds, TypeOK
<1>10. ASSUME NEW i \in Instances, WaitFails(m, i) PROVE TypeOK'
  <2>1. PICK status \in Statuses : EndsWith(m, status)
    BY <1>10 DEF WaitFails, Statuses
  <2>2. pending' \in [Messages -> SUBSET Instances]
    <3>1. pending[m] \ {i} \in SUBSET Instances
      BY DEF TypeOK
    <3>2. pending' \in {pending, [pending EXCEPT ![m] = pending[m] \ {i}]}
      BY <1>10 DEF WaitFails
    <3> QED
      BY <3>1, <3>2 DEF TypeOK
  <2>3. stopped' \in [Instances -> Stops]
    <3>1. stopped' \in {stopped, [stopped EXCEPT ![i] = NotStopped]}
      BY <1>10 DEF WaitFails
    <3> QED
      <4>1. stopped \in [Instances -> Stops] /\ [stopped EXCEPT ![i] = NotStopped] \in [Instances -> Stops]
        BY RequestType DEF TypeOK
      <4> QED
        BY <3>1, <4>1
  <2> QED
    BY <1>0, <1>10, <2>1, <2>2, <2>3, EndsType DEF WaitFails, TypeOK, Statuses
<1> QED
  BY <1>1, <1>2, <1>3, <1>4, <1>5, <1>6, <1>7, <1>8, <1>9, <1>10 DEF Attempt

LEMMA StatusType ==
  ASSUME TypeOK, NEW i \in Instances, NEW status \in {"RUNNING", "TERMINATED"}
  PROVE  [inventory[i] EXCEPT !.status = status] \in
           [status : {"RUNNING", "TERMINATED"}, managed : BOOLEAN, protected : BOOLEAN]
<1>1. inventory[i] \in [status : {"RUNNING", "TERMINATED"}, managed : BOOLEAN, protected : BOOLEAN]
  BY DEF TypeOK, Inventories
<1> QED
  BY <1>1

\* Every step keeps the types (TypeOK).
LEMMA TypeStep == TypeOK /\ (\A m \in Messages : Accepted(m)) /\ [Next]_vars => TypeOK'
<1> SUFFICES ASSUME TypeOK, \A m \in Messages : Accepted(m), [Next]_vars PROVE TypeOK'
  OBVIOUS
<1> USE DEF billing, worker
<1>1. CASE Publish
  <2>1. sent' \in Messages /\ sent' \in 0..MaxMessages
    BY <1>1 DEF Publish, TypeOK, Messages
  <2>2. spend' \in Nat /\ interval' \in Nat
    BY <1>1 DEF Publish, TypeOK
  <2>3. PICK form \in Forms : message' = [message EXCEPT ![sent'] =
          [cost |-> [kind |-> form.cost, n |-> IF form.cost \in Numeric THEN spend' ELSE 0],
           budget |-> form.budget, forecast |-> form.forecast, published |-> clock, interval |-> interval']]
    BY <1>1 DEF Publish
  <2>4. [kind |-> form.cost, n |-> IF form.cost \in Numeric THEN spend' ELSE 0] \in JsonValues
    BY <2>2 DEF JsonValues
  <2>5. message' \in [Messages -> Payloads]
    BY <2>1, <2>2, <2>3, <2>4 DEF Payloads, TypeOK
  <2> QED
    BY <1>1, <2>1, <2>2, <2>5 DEF Publish, TypeOK
<1>2. ASSUME NEW m \in Messages, NEW i \in Instances, Operate(m, i) PROVE TypeOK'
  <2>1. inventory' \in Inventories
    <3>1. PICK status \in {"RUNNING", "TERMINATED"} :
            inventory' = [inventory EXCEPT ![i] = [inventory[i] EXCEPT !.status = status]]
      BY <1>2 DEF Operate, TypeOK, Inventories
    <3> QED
      BY <3>1, StatusType DEF TypeOK, Inventories
  <2>2. operation' \in [Messages -> [Instances -> {"NONE", "RUNNING", "DONE"}]]
    BY <1>2 DEF Operate, TypeOK
  <2> QED
    BY <1>2, <2>1, <2>2 DEF Operate, TypeOK
<1>3. ASSUME NEW i \in Instances, Edit(i) PROVE TypeOK'
  <2>1. inventory' \in Inventories
    <3>1. CASE inventory' = [inventory EXCEPT ![i].managed = ~@]
      <4>1. [inventory[i] EXCEPT !.managed = ~inventory[i].managed] \in
              [status : {"RUNNING", "TERMINATED"}, managed : BOOLEAN, protected : BOOLEAN]
        <5>1. inventory[i] \in [status : {"RUNNING", "TERMINATED"}, managed : BOOLEAN, protected : BOOLEAN]
          BY DEF TypeOK, Inventories
        <5> QED
          BY <5>1
      <4>2. inventory' = [inventory EXCEPT ![i] = [inventory[i] EXCEPT !.managed = ~inventory[i].managed]]
        BY <3>1
      <4> QED
        BY <4>1, <4>2 DEF TypeOK, Inventories
    <3>2. CASE inventory' = [inventory EXCEPT ![i].protected = ~@]
      <4>1. [inventory[i] EXCEPT !.protected = ~inventory[i].protected] \in
              [status : {"RUNNING", "TERMINATED"}, managed : BOOLEAN, protected : BOOLEAN]
        <5>1. inventory[i] \in [status : {"RUNNING", "TERMINATED"}, managed : BOOLEAN, protected : BOOLEAN]
          BY DEF TypeOK, Inventories
        <5> QED
          BY <5>1
      <4>2. inventory' = [inventory EXCEPT ![i] = [inventory[i] EXCEPT !.protected = ~inventory[i].protected]]
        BY <3>2
      <4> QED
        BY <4>1, <4>2 DEF TypeOK, Inventories
    <3>3. CASE inventory' = [inventory EXCEPT ![i].status = IF @ = "RUNNING" THEN "TERMINATED" ELSE "RUNNING"]
      <4>1. PICK status \in {"RUNNING", "TERMINATED"} :
              inventory' = [inventory EXCEPT ![i] = [inventory[i] EXCEPT !.status = status]]
        BY <3>3 DEF TypeOK, Inventories
      <4> QED
        BY <4>1, StatusType DEF TypeOK, Inventories
    <3> QED
      BY <1>3, <3>1, <3>2, <3>3 DEF Edit
  <2> QED
    BY <1>3, <2>1 DEF Edit, TypeOK
<1>4. CASE Tick
  BY <1>4 DEF Tick, TypeOK
<1>5. CASE UNCHANGED vars
  BY <1>5 DEF vars, TypeOK
<1> QED
  BY <1>1, <1>2, <1>3, <1>4, <1>5, AttemptType DEF Next

-----------------------------------------------------------------------------
(* What the steps keep.                                                    *)

\* What is true of the notifications while none is published and no time passes.
LEMMA BillingKeeps ==
  ASSUME NotificationsInv, UNCHANGED billing
  PROVE  /\ clock' > 0 /\ PublishedInPast' /\ PublishedInOrder'
         /\ \A m : Decision(m)' = Decision(m)
         /\ \A stop \in Stops : Dated(stop) => Dated(stop)'
BY DEF NotificationsInv, billing, PublishedInPast, PublishedInOrder, Dated, Decision

\* Another message is as accepted as it was.
LEMMA AcceptedOther ==
  ASSUME NotificationsInv, UNCHANGED billing, NEW n \in Messages,
         event'[n] = event[n], attempt'[n] = attempt[n], pending'[n] = pending[n],
         operation'[n] = operation[n]
  PROVE  Accepted(n)'
<1>1. Accepted(n)
  BY DEF NotificationsInv
<1> QED
  BY <1>1 DEF Accepted, Decision, billing

\* An attempt that ends leaves its message accepted.
LEMMA AcceptedEnds ==
  ASSUME NotificationsInv, UNCHANGED billing, NEW m \in Messages, NEW status, EndsWith(m, status),
         attempt[m].stage # "none", \A i \in pending'[m] : operation'[m][i] # "NONE"
  PROVE  Accepted(m)'
<1>1. Accepted(m) /\ m \in 1..sent /\ Parses(message[m])
  BY DEF NotificationsInv, Accepted
<1>2. attempt'[m] = NoAttempt
  BY DEF EndsWith, NotificationsInv, TypeOK
<1>3. event'[m].decision = event[m].decision /\ event[m].decision = Decision(m)
  BY <1>1 DEF EndsWith, NotificationsInv, TypeOK, Events, Accepted
<1> QED
  BY <1>1, <1>2, <1>3 DEF Accepted, Decision, billing, NoAttempt

\* A step of an attempt leaves what the others have alone.
LEMMA AttemptAlone ==
  ASSUME TypeOK, NEW m \in Messages, Attempt(m), NEW n \in Messages, n # m
  PROVE  /\ event'[n] = event[n] /\ attempt'[n] = attempt[n] /\ pending'[n] = pending[n]
         /\ operation'[n] = operation[n] /\ found'[n] = found[n] /\ announced'[n] = announced[n]
<1>0. UNCHANGED <<event, attempt, pending, operation, found, announced>> =>
        /\ event'[n] = event[n] /\ attempt'[n] = attempt[n] /\ pending'[n] = pending[n]
        /\ operation'[n] = operation[n] /\ found'[n] = found[n] /\ announced'[n] = announced[n]
  OBVIOUS
<1>1. ASSUME NEW status, EndsWith(m, status) PROVE event'[n] = event[n] /\ attempt'[n] = attempt[n]
  BY <1>1 DEF EndsWith, TypeOK
<1>2. ASSUME NEW i \in Instances PROVE Requested(m, i)[n] = operation[n]
  BY DEF Requested, TypeOK
<1>3. CASE Claim(m)
  BY <1>3 DEF Claim, TypeOK
<1>4. CASE SettleWithoutAction(m)
  BY <1>1, <1>4 DEF SettleWithoutAction
<1>5. CASE BuildPlan(m)
  BY <1>5 DEF BuildPlan, TypeOK
<1>6. CASE PlanTooLarge(m)
  BY <1>1, <1>6 DEF PlanTooLarge
<1>7. CASE Complete(m)
  BY <1>1, <1>7 DEF Complete
<1>8. CASE Fails(m)
  BY <1>1, <1>8 DEF Fails
<1>9. ASSUME NEW i \in Instances, Submit(m, i)
      PROVE  /\ event'[n] = event[n] /\ attempt'[n] = attempt[n] /\ pending'[n] = pending[n]
             /\ operation'[n] = operation[n] /\ found'[n] = found[n] /\ announced'[n] = announced[n]
  BY <1>2, <1>9 DEF Submit, TypeOK
<1>10. ASSUME NEW i \in Instances, SubmitFails(m, i)
       PROVE  /\ event'[n] = event[n] /\ attempt'[n] = attempt[n] /\ pending'[n] = pending[n]
              /\ operation'[n] = operation[n] /\ found'[n] = found[n] /\ announced'[n] = announced[n]
  <2>1. event'[n] = event[n] /\ attempt'[n] = attempt[n] /\ operation'[n] = operation[n]
    BY <1>1, <1>2, <1>10 DEF SubmitFails
  <2>2. pending' \in {pending, [pending EXCEPT ![m] = pending[m] \cup {i}]}
    BY <1>10 DEF SubmitFails
  <2>3. pending'[n] = pending[n]
    BY <2>2 DEF TypeOK
  <2> QED
    BY <1>10, <2>1, <2>3 DEF SubmitFails
<1>11. ASSUME NEW i \in Instances, WaitEnds(m, i)
       PROVE  /\ event'[n] = event[n] /\ attempt'[n] = attempt[n] /\ pending'[n] = pending[n]
              /\ operation'[n] = operation[n] /\ found'[n] = found[n] /\ announced'[n] = announced[n]
  BY <1>11 DEF WaitEnds, TypeOK
<1>12. ASSUME NEW i \in Instances, WaitFails(m, i)
       PROVE  /\ event'[n] = event[n] /\ attempt'[n] = attempt[n] /\ pending'[n] = pending[n]
              /\ operation'[n] = operation[n] /\ found'[n] = found[n] /\ announced'[n] = announced[n]
  BY <1>1, <1>12 DEF WaitFails, TypeOK
<1> QED
  BY <1>3, <1>4, <1>5, <1>6, <1>7, <1>8, <1>9, <1>10, <1>11, <1>12 DEF Attempt

\* A step of an attempt neither publishes nor waits, and keeps its message accepted.
LEMMA AttemptAccepted ==
  ASSUME NotificationsInv, NEW m \in Messages, Attempt(m)
  PROVE  UNCHANGED billing /\ Accepted(m)'
<1>1. UNCHANGED billing
  BY DEF Attempt, Claim, SettleWithoutAction, BuildPlan, PlanTooLarge, Complete, Fails,
         Submit, SubmitFails, WaitEnds, WaitFails
<1>2. TypeOK /\ Accepted(m) /\ Decision(m)' = Decision(m) /\ UNCHANGED <<clock, sent, message>>
  BY <1>1 DEF NotificationsInv, Decision, billing
<1>3. /\ event[m] \in Events /\ attempt[m] \in Attempts /\ pending[m] \subseteq Instances
      /\ \A i \in pending[m] : operation[m][i] # "NONE"
  BY <1>2 DEF TypeOK, Accepted
<1>4. ASSUME NEW i \in Instances
      PROVE  /\ Requested(m, i)[m][i] # "NONE"
             /\ \A j \in Instances : operation[m][j] # "NONE" => Requested(m, i)[m][j] # "NONE"
  BY <1>2 DEF Requested, TypeOK
<1>5. CASE Claim(m)
  <2>1. /\ event'[m].status = "PROCESSING" /\ event'[m].decision = Decision(m)
        /\ attempt'[m] = [stage |-> "claimed", now |-> clock, left |-> {}]
        /\ UNCHANGED <<pending, operation>>
    BY <1>2, <1>5 DEF Claim, TypeOK
  <2>2. m \in 1..sent /\ Parses(message[m]) /\ clock <= message[m].published + MaxEventAge
    BY <1>2, <1>5 DEF Claim, TypeOK, FromSource, Messages, Payloads
  <2>3. clock \in Nat
    BY <1>2 DEF TypeOK
  <2> QED
    BY <1>1, <1>2, <2>1, <2>2, <2>3 DEF Accepted
<1>6. CASE SettleWithoutAction(m)
  BY <1>1, <1>3, <1>6, AcceptedEnds DEF SettleWithoutAction
<1>7. CASE BuildPlan(m)
  <2>1. /\ attempt'[m] = [stage |-> "acting", now |-> attempt[m].now, left |-> Plan(m)]
        /\ attempt[m].stage = "claimed" /\ Decision(m) # "NO_ACTION"
        /\ UNCHANGED <<event, pending, operation>>
    BY <1>2, <1>7, PlannedIs DEF BuildPlan, MayPlan, TypeOK
  <2> QED
    BY <1>1, <1>2, <2>1 DEF Accepted
<1>8. CASE PlanTooLarge(m)
  BY <1>1, <1>3, <1>8, AcceptedEnds DEF PlanTooLarge, MayPlan
<1>9. CASE Complete(m)
  BY <1>1, <1>3, <1>9, AcceptedEnds DEF Complete
<1>10. CASE Fails(m)
  BY <1>1, <1>3, <1>10, AcceptedEnds DEF Fails, MayPlan
<1>11. ASSUME NEW i \in Instances, Submit(m, i) PROVE Accepted(m)'
  <2>1. /\ attempt[m].stage = "acting" /\ operation' = Requested(m, i)
        /\ pending'[m] = pending[m] \cup {i} /\ UNCHANGED <<event, attempt>>
    BY <1>2, <1>11 DEF Submit, IsNext, TypeOK
  <2> QED
    BY <1>2, <1>3, <1>4, <2>1 DEF Accepted
<1>12. ASSUME NEW i \in Instances, SubmitFails(m, i) PROVE Accepted(m)'
  <2>1. \A j \in Instances : operation[m][j] # "NONE" => operation'[m][j] # "NONE"
    BY <1>4, <1>12 DEF SubmitFails
  <2>2. \/ pending' = pending
        \/ operation' = Requested(m, i) /\ pending' = [pending EXCEPT ![m] = pending[m] \cup {i}]
    BY <1>12 DEF SubmitFails
  <2>3. \A j \in pending'[m] : operation'[m][j] # "NONE"
    BY <1>2, <1>3, <1>4, <2>1, <2>2 DEF TypeOK
  <2>4. attempt[m].stage # "none" /\ \E status : EndsWith(m, status)
    BY <1>12 DEF SubmitFails, IsNext
  <2> QED
    BY <1>1, <2>3, <2>4, AcceptedEnds
<1>13. ASSUME NEW i \in Instances, WaitEnds(m, i) PROVE Accepted(m)'
  <2>1. /\ attempt'[m] = [stage |-> "acting", now |-> attempt[m].now, left |-> attempt[m].left \ {i}]
        /\ attempt[m].stage = "acting"
    <3>1. attempt \in [Messages -> Attempts]
      BY <1>2 DEF TypeOK
    <3> QED
      BY <1>2, <1>13, <3>1, WaitedIs
  <2>2. pending'[m] = pending[m] \ {i} /\ UNCHANGED <<event, operation>>
    BY <1>2, <1>13 DEF WaitEnds, TypeOK
  <2> QED
    BY <1>2, <2>1, <2>2 DEF Accepted
<1>14. ASSUME NEW i \in Instances, WaitFails(m, i) PROVE Accepted(m)'
  <2>1. pending'[m] \subseteq pending[m] /\ operation' = operation
    BY <1>2, <1>14 DEF WaitFails, TypeOK
  <2> QED
    BY <1>1, <1>3, <1>14, <2>1, AcceptedEnds DEF WaitFails, Awaits
<1> QED
  BY <1>1, <1>5, <1>6, <1>7, <1>8, <1>9, <1>10, <1>11, <1>12, <1>13, <1>14 DEF Attempt

\* A stop that an attempt leaves is one that was there, or the one that it completed.
LEMMA AttemptDates ==
  ASSUME NotificationsInv, NEW m \in Messages, Attempt(m), NEW i \in Instances
  PROVE  Dated(stopped[i])'
<1>1. TypeOK /\ Accepted(m) /\ UNCHANGED billing /\ \A j \in Instances : Dated(stopped[j])
  BY AttemptAccepted DEF NotificationsInv
<1>2. stopped[i] \in Stops /\ NotStopped \in Stops /\ Dated(NotStopped)
  BY <1>1 DEF TypeOK, Stops, NotStopped, Dated
<1>3. CASE stopped'[i] \in {stopped[i], NotStopped}
  <2>1. \A stop \in Stops : Dated(stop) => Dated(stop)'
    BY <1>1, BillingKeeps
  <2>2. stopped'[i] \in Stops /\ Dated(stopped'[i])
    BY <1>1, <1>2, <1>3
  <2> QED
    BY <1>1, <2>2 DEF Dated, Decision, billing
<1>4. CASE stopped'[i] \notin {stopped[i], NotStopped}
  <2>1. PICK j \in Instances : WaitEnds(m, j)
    BY <1>1, <1>4 DEF Attempt, Claim, SettleWithoutAction, BuildPlan, PlanTooLarge, Complete, Fails,
                      Submit, SubmitFails, WaitFails, TypeOK
  <2>2. stopped'[i] = [at |-> clock, by |-> m] /\ Decision(m) = "STOP"
    BY <1>1, <1>4, <2>1 DEF WaitEnds, Completed, TypeOK
  <2>3. m \in 1..sent
    BY <1>1, <2>1 DEF WaitEnds, Awaits, Accepted
  <2>4. message[m].published <= clock
    BY <2>3 DEF NotificationsInv, PublishedInPast
  <2> QED
    BY <1>1, <2>2, <2>3, <2>4 DEF Dated, Decision, billing
<1> QED
  BY <1>3, <1>4

\* What was planned stays planned while nothing is added to it.
LEMMA PlannedSame ==
  ASSUME NotificationsInv, UNCHANGED billing, NEW m \in Messages, NEW i \in Instances,
         found'[m] = found[m], announced'[m] = announced[m],
         i \in attempt'[m].left \/ operation'[m][i] # "NONE" =>
           i \in attempt[m].left \/ operation[m][i] # "NONE"
  PROVE  Planned(m, i)'
<1>1. Planned(m, i) /\ Decision(m)' = Decision(m)
  BY DEF NotificationsInv, Decision, billing
<1> QED
  BY <1>1 DEF Planned, Dated, Decision, billing

\* The preview of a notification that parses announces what is selected, if that is
\* within the limit, whatever its age.
LEMMA PreviewIs ==
  ASSUME TypeOK, NEW m \in Messages, Parses(message[m]), Decision(m) = "STOP",
         WithinLimit(Selected(inventory, "RUNNING"))
  PROVE  PreviewBudget(message[m], inventory, clock) = Selected(inventory, "RUNNING")
<1>1. message[m] \in Payloads /\ clock \in Nat
  BY DEF TypeOK
<1>2. [message[m] EXCEPT !.published = clock].published = clock
  BY <1>1 DEF Payloads
<1>3. FromSource([message[m] EXCEPT !.published = clock], clock)
  BY <1>1, <1>2 DEF FromSource
<1> QED
  BY <1>3 DEF PreviewBudget, Decision

\* A plan has what was asked for before, what the preview announces, or what was
\* stopped long enough before.
LEMMA BuildPlanned ==
  ASSUME NotificationsInv, NEW m \in Messages, BuildPlan(m), NEW i \in Instances
  PROVE  Planned(m, i)'
<1>1. TypeOK /\ Accepted(m) /\ Planned(m, i) /\ UNCHANGED billing
  BY DEF NotificationsInv, BuildPlan
<1>2. /\ attempt'[m].left = Plan(m) /\ attempt[m].stage = "claimed"
      /\ operation' = operation /\ WithinLimit(Plan(m))
  BY <1>1, PlannedIs DEF BuildPlan, TypeOK
<1>3. found'[m][i] = IF pending[m] = {} /\ Decision(m) = "RECOVER" /\ i \in Plan(m)
                     THEN stopped[i] ELSE found[m][i]
  BY <1>1 DEF BuildPlan, TypeOK
<1>4. announced'[m] = IF pending[m] = {} /\ Decision(m) = "STOP"
                      THEN announced[m] \cup PreviewBudget(message[m], inventory, clock)
                      ELSE announced[m]
  BY <1>1 DEF BuildPlan, TypeOK
<1>5. /\ m \in 1..sent /\ Parses(message[m]) /\ attempt[m].now <= message[m].published + MaxEventAge
      /\ Dated(stopped[i]) /\ \A j \in pending[m] : operation[m][j] # "NONE"
  BY <1>1, <1>2 DEF Accepted, NotificationsInv
<1>6. /\ attempt[m].now \in Nat /\ message[m].published \in Nat /\ stopped[i].at \in Nat
  BY <1>1 DEF TypeOK, Attempts, Payloads, Stops
<1>7. CASE pending[m] # {}
  <2>1. Plan(m) = pending[m] /\ found'[m][i] = found[m][i] /\ announced'[m] = announced[m]
    BY <1>3, <1>4, <1>7 DEF Plan
  <2>2. i \in attempt'[m].left \/ operation'[m][i] # "NONE" => operation[m][i] # "NONE"
    BY <1>2, <1>5, <2>1
  <2> QED
    BY <1>1, <2>1, <2>2 DEF Planned, Dated, Decision, billing
<1>8. CASE pending[m] = {} /\ Decision(m) = "STOP"
  <2>1. Plan(m) = Selected(inventory, "RUNNING")
    BY <1>8 DEF Plan
  <2>2. announced'[m] = announced[m] \cup Plan(m)
    BY <1>1, <1>2, <1>4, <1>5, <1>8, <2>1, PreviewIs
  <2>3. found'[m][i] = found[m][i]
    BY <1>3, <1>8
  <2> QED
    BY <1>1, <1>2, <1>8, <2>2, <2>3 DEF Planned, Dated, Decision, billing
<1>9. CASE pending[m] = {} /\ Decision(m) # "STOP"
  <2>1. Decision(m) = "RECOVER"
    BY <1>9 DEF BuildPlan, MayPlan, Decision, DecisionFor
  <2>2. i \in Plan(m) => stopped[i].at # 0 /\ stopped[i].at + RecoveryDelay <= attempt[m].now
    BY <1>9 DEF Plan, Recoverable
  <2>3. i \in Plan(m) => stopped[i].at + RecoveryDelay <= message[m].published + MaxEventAge
    BY <1>5, <1>6, <2>2
  <2>4. CASE i \in Plan(m)
    <3>1. found'[m][i] = stopped[i]
      BY <1>3, <1>9, <2>1, <2>4
    <3> QED
      BY <1>1, <1>5, <2>1, <2>2, <2>3, <2>4, <3>1 DEF Planned, Dated, Decision, billing
  <2>5. CASE i \notin Plan(m)
    <3>1. found'[m][i] = found[m][i]
      BY <1>3, <2>5
    <3> QED
      BY <1>1, <1>2, <2>1, <2>5, <3>1 DEF Planned, Dated, Decision, billing
  <2> QED
    BY <2>4, <2>5
<1> QED
  BY <1>7, <1>8, <1>9

\* The steps of an attempt ask only for what was planned.
LEMMA AttemptPlanned ==
  ASSUME NotificationsInv, NEW m \in Messages, Attempt(m), NEW i \in Instances
  PROVE  Planned(m, i)'
<1>1. TypeOK /\ UNCHANGED billing /\ attempt[m] \in Attempts
  BY AttemptAccepted DEF NotificationsInv, TypeOK
<1>2. CASE BuildPlan(m)
  BY <1>2, BuildPlanned
<1>3. ASSUME UNCHANGED <<operation, found, announced>>, attempt'[m].left \subseteq attempt[m].left
      PROVE  Planned(m, i)'
  BY <1>1, <1>3, PlannedSame
<1>4. ASSUME NEW status, EndsWith(m, status) PROVE attempt'[m].left = {}
  BY <1>1, <1>4 DEF EndsWith, NoAttempt, TypeOK
<1>5. CASE Claim(m)
  <2>1. attempt'[m].left = {}
    BY <1>1, <1>5 DEF Claim, TypeOK
  <2> QED
    BY <1>3, <1>5, <2>1 DEF Claim
<1>6. CASE SettleWithoutAction(m) \/ PlanTooLarge(m) \/ Complete(m) \/ Fails(m)
  BY <1>3, <1>4, <1>6 DEF SettleWithoutAction, PlanTooLarge, Complete, Fails
<1>7. ASSUME NEW j \in Instances, Submit(m, j) \/ SubmitFails(m, j) PROVE Planned(m, i)'
  <2>1. j \in attempt[m].left /\ operation' \in {operation, Requested(m, j)}
    BY <1>7 DEF Submit, SubmitFails, IsNext
  <2>2. operation'[m][i] # "NONE" => i = j \/ operation[m][i] # "NONE"
    BY <1>1, <2>1 DEF Requested, TypeOK
  <2>3. attempt'[m].left \subseteq attempt[m].left /\ UNCHANGED <<found, announced>>
    BY <1>4, <1>7 DEF Submit, SubmitFails
  <2> QED
    BY <1>1, <2>1, <2>2, <2>3, PlannedSame
<1>8. ASSUME NEW j \in Instances, WaitEnds(m, j) \/ WaitFails(m, j) PROVE Planned(m, i)'
  <2>1. attempt'[m].left \subseteq attempt[m].left
    <3>1. WaitEnds(m, j) => attempt'[m].left = attempt[m].left \ {j}
      BY <1>1, WaitedIs DEF TypeOK
    <3> QED
      BY <1>4, <1>8, <3>1 DEF WaitFails
  <2> QED
    BY <1>3, <1>8, <2>1 DEF WaitEnds, WaitFails
<1> QED
  BY <1>2, <1>5, <1>6, <1>7, <1>8 DEF Attempt

LEMMA AttemptKeeps ==
  ASSUME NotificationsInv, TypeOK', NEW m \in Messages, Attempt(m)
  PROVE  NotificationsInv'
<1>1. UNCHANGED billing /\ TypeOK /\ Accepted(m)'
  BY AttemptAccepted DEF NotificationsInv
<1>2. ASSUME NEW n \in Messages, n # m PROVE Accepted(n)' /\ \A i \in Instances : Planned(n, i)'
  <2>1. /\ event'[n] = event[n] /\ attempt'[n] = attempt[n] /\ pending'[n] = pending[n]
        /\ operation'[n] = operation[n] /\ found'[n] = found[n] /\ announced'[n] = announced[n]
    BY <1>1, <1>2, AttemptAlone
  <2> QED
    BY <1>1, <2>1, AcceptedOther, PlannedSame
<1>3. \A i \in Instances : Planned(m, i)' /\ Dated(stopped[i])'
  BY AttemptPlanned, AttemptDates
<1>4. \A n \in Messages : Accepted(n)' /\ \A i \in Instances : Planned(n, i)'
  BY <1>1, <1>2, <1>3
<1> QED
  BY <1>1, <1>3, <1>4, BillingKeeps DEF NotificationsInv

\* Compute Engine and whoever edits change nothing that the invariant is about.
LEMMA OutsideKeeps ==
  ASSUME NotificationsInv, TypeOK',
         UNCHANGED <<billing, event, attempt, pending, stopped, found, announced>>,
         \A m \in Messages, i \in Instances : operation'[m][i] = "NONE" <=> operation[m][i] = "NONE"
  PROVE  NotificationsInv'
<1>1. ASSUME NEW m \in Messages PROVE Accepted(m)'
  <2>1. Accepted(m) /\ pending[m] \subseteq Instances
    BY DEF NotificationsInv, TypeOK
  <2> QED
    BY <2>1 DEF Accepted, Decision, billing
<1>2. \A m \in Messages, i \in Instances : Planned(m, i)'
  BY PlannedSame
<1>3. \A i \in Instances : Dated(stopped[i])'
  BY DEF NotificationsInv, Dated, Decision, billing
<1> QED
  BY <1>1, <1>2, <1>3, BillingKeeps DEF NotificationsInv

LEMMA OperateKeeps ==
  ASSUME NotificationsInv, TypeOK', NEW m \in Messages, NEW i \in Instances, Operate(m, i)
  PROVE  NotificationsInv'
<1>1. operation[m][i] = "RUNNING" /\ operation' = [operation EXCEPT ![m][i] = "DONE"]
  BY DEF Operate
<1>2. \A n \in Messages, j \in Instances : operation'[n][j] = "NONE" <=> operation[n][j] = "NONE"
  BY <1>1 DEF NotificationsInv, TypeOK
<1> QED
  BY <1>2, OutsideKeeps DEF Operate

\* Time passes.
LEMMA TickKeeps ==
  ASSUME NotificationsInv, TypeOK', Tick
  PROVE  NotificationsInv'
<1>1. /\ clock \in Nat /\ clock' = clock + 1 /\ UNCHANGED <<spend, interval, sent, message>>
      /\ UNCHANGED <<event, attempt, pending, operation, stopped, found, announced>>
  BY DEF Tick, worker, NotificationsInv, TypeOK
<1>2. PublishedInPast' /\ PublishedInOrder' /\ clock' > 0
  BY <1>1 DEF NotificationsInv, TypeOK, PublishedInPast, PublishedInOrder, Messages, Payloads
<1>3. ASSUME NEW m \in Messages PROVE Accepted(m)'
  <2>1. Accepted(m) /\ attempt[m].now \in Nat /\ pending[m] \subseteq Instances
    BY DEF NotificationsInv, TypeOK, Attempts
  <2> QED
    BY <1>1, <2>1 DEF Accepted, Decision
<1>4. ASSUME NEW m \in Messages, NEW i \in Instances PROVE Planned(m, i)'
  BY <1>1 DEF NotificationsInv, Planned, Dated, Decision
<1>5. ASSUME NEW i \in Instances PROVE Dated(stopped[i])'
  BY <1>1 DEF NotificationsInv, Dated, Decision
<1> QED
  BY <1>2, <1>3, <1>4, <1>5 DEF NotificationsInv

\* A new notification is of now and has the cost of now.
LEMMA PublishedKeeps ==
  ASSUME NotificationsInv, Publish
  PROVE  /\ sent \in Nat /\ sent' = sent + 1 /\ sent' \in Messages /\ clock' = clock
         /\ \A m \in 1..sent : m \in Messages /\ message'[m] = message[m]
         /\ PublishedInPast' /\ PublishedInOrder'
<1>1. /\ sent \in Nat /\ sent' = sent + 1 /\ sent' \in Messages /\ clock' = clock
      /\ clock \in Nat /\ clock > 0 /\ spend \in Nat /\ interval \in Nat
      /\ spend' \in Nat /\ interval' \in Nat /\ interval' >= interval
      /\ interval' = interval => spend' >= spend
  BY DEF Publish, NotificationsInv, TypeOK, Messages
<1>2. PICK cost \in JsonValues, budget \in JsonValues, forecast \in JsonValues :
        /\ Measured(cost) => cost.n = spend'
        /\ message' = [message EXCEPT ![sent'] =
             [cost |-> cost, budget |-> budget, forecast |-> forecast,
              published |-> clock, interval |-> interval']]
  <2>1. PICK form \in Forms : message' = [message EXCEPT ![sent'] =
          [cost |-> [kind |-> form.cost, n |-> IF form.cost \in Numeric THEN spend' ELSE 0],
           budget |-> form.budget, forecast |-> form.forecast, published |-> clock, interval |-> interval']]
    BY DEF Publish
  <2>2. [kind |-> form.cost, n |-> IF form.cost \in Numeric THEN spend' ELSE 0] \in JsonValues
    BY <1>1 DEF JsonValues
  <2> QED
    BY <2>1, <2>2 DEF Measured
<1> DEFINE new == [cost |-> cost, budget |-> budget, forecast |-> forecast,
                   published |-> clock, interval |-> interval']
<1>3. message \in [Messages -> Payloads] /\ sent \in 0..MaxMessages
  BY DEF NotificationsInv, TypeOK
<1>4. \A m \in 1..sent : m \in Messages /\ message'[m] = message[m]
  BY <1>1, <1>2, <1>3 DEF Messages
<1>5. message'[sent'] = new /\ \A m \in 1..sent' : m \in 1..sent \/ m = sent'
  BY <1>1, <1>2, <1>3
<1>6. ASSUME NEW m \in 1..sent
      PROVE  /\ message[m].published \in Nat /\ message[m].published \in 1..clock
             /\ message[m].interval \in Nat /\ message[m].interval <= interval
             /\ message[m].cost.n \in Int
             /\ Measured(message[m].cost) =>
                  /\ message[m].cost.n >= 0
                  /\ message[m].interval = interval => message[m].cost.n <= spend
  <2>1. m \in Messages /\ message[m] \in Payloads
    BY <1>3, <1>4
  <2> QED
    BY <2>1 DEF NotificationsInv, PublishedInPast, Payloads, JsonValues
<1>7. PublishedInPast'
  <2>1. ASSUME NEW m \in 1..sent'
        PROVE  /\ message'[m].published \in 1..clock /\ message'[m].interval <= interval'
               /\ Measured(message'[m].cost) =>
                    /\ message'[m].cost.n >= 0
                    /\ message'[m].interval = interval' => message'[m].cost.n <= spend'
    <3>1. CASE m \in 1..sent
      BY <1>1, <1>4, <1>6, <3>1
    <3>2. CASE m = sent'
      BY <1>1, <1>2, <1>5, <3>2
    <3> QED
      BY <1>5, <3>1, <3>2
  <2> QED
    BY <1>1, <2>1 DEF PublishedInPast, Measured
<1>8. PublishedInOrder'
  <2>1. ASSUME NEW m \in 1..sent', NEW n \in 1..sent', m < n
        PROVE  /\ message'[m].published <= message'[n].published
               /\ message'[m].interval <= message'[n].interval
               /\ Measured(message'[m].cost) /\ Measured(message'[n].cost)
                    /\ message'[m].interval = message'[n].interval
                  => message'[m].cost.n <= message'[n].cost.n
    <3>1. m \in 1..sent
      BY <1>1, <2>1
    <3>2. CASE n \in 1..sent
      BY <1>4, <2>1, <3>1, <3>2 DEF NotificationsInv, PublishedInOrder
    <3>3. CASE n = sent'
      BY <1>1, <1>2, <1>4, <1>5, <1>6, <3>1, <3>3
    <3> QED
      BY <1>5, <3>2, <3>3
  <2> QED
    BY <2>1 DEF PublishedInOrder, Measured
<1> QED
  BY <1>1, <1>4, <1>7, <1>8

LEMMA PublishKeeps ==
  ASSUME NotificationsInv, TypeOK', Publish
  PROVE  NotificationsInv'
<1>1. /\ sent \in Nat /\ sent' = sent + 1 /\ sent' \in Messages /\ clock' = clock
      /\ \A m \in 1..sent : m \in Messages /\ message'[m] = message[m]
      /\ PublishedInPast' /\ PublishedInOrder'
  BY PublishedKeeps
<1>2. UNCHANGED <<event, attempt, pending, operation, stopped, found, announced>>
  BY DEF Publish, worker
<1>3. ASSUME NEW stop, Dated(stop) PROVE Dated(stop)'
  BY <1>1, <1>3 DEF Dated, Decision
<1>4. \A m \in 1..sent : m \in 1..sent' /\ Decision(m)' = Decision(m)
  BY <1>1 DEF Decision
<1>5. ASSUME NEW m \in Messages, m \notin 1..sent
      PROVE  /\ event[m].status = "NONE" /\ attempt[m].stage = "none" /\ attempt[m].left = {}
             /\ pending[m] = {} /\ \A i \in Instances : operation[m][i] = "NONE" /\ found[m][i].at = 0
  <2>1. Accepted(m) /\ (\A i \in Instances : Planned(m, i)) /\ pending[m] \subseteq Instances
    BY DEF NotificationsInv, TypeOK
  <2> QED
    BY <1>5, <2>1 DEF Accepted, Planned
<1>6. ASSUME NEW m \in Messages PROVE Accepted(m)'
  <2>1. Accepted(m)
    BY DEF NotificationsInv
  <2>2. CASE m \in 1..sent
    BY <1>1, <1>2, <1>4, <2>1, <2>2 DEF Accepted
  <2>3. CASE m \notin 1..sent
    BY <1>2, <1>5, <2>3 DEF Accepted
  <2> QED
    BY <2>2, <2>3
<1>7. ASSUME NEW m \in Messages, NEW i \in Instances PROVE Planned(m, i)'
  <2>1. Planned(m, i)
    BY DEF NotificationsInv
  <2>2. CASE m \in 1..sent
    <3>1. Dated(found[m][i]) => Dated(found[m][i])'
      BY <1>2, <1>3 DEF Dated
    <3> QED
      BY <1>1, <1>2, <1>4, <2>1, <2>2, <3>1 DEF Planned
  <2>3. CASE m \notin 1..sent
    BY <1>2, <1>5, <2>3 DEF Planned
  <2> QED
    BY <2>2, <2>3
<1>8. ASSUME NEW i \in Instances PROVE Dated(stopped[i])'
  BY <1>1, <1>2 DEF NotificationsInv, Dated, Decision
<1>9. clock' > 0
  BY <1>1 DEF NotificationsInv
<1> QED
  BY <1>1, <1>6, <1>7, <1>8, <1>9 DEF NotificationsInv

LEMMA InvInit == Init => NotificationsInv
<1> SUFFICES ASSUME Init PROVE NotificationsInv
  OBVIOUS
<1>1. /\ sent = 0 /\ clock = 1 /\ \A i \in Instances : stopped[i].at = 0
      /\ \A m \in Messages : event[m] = NoEvent /\ attempt[m] = NoAttempt /\ pending[m] = {}
      /\ \A m \in Messages, i \in Instances : operation[m][i] = "NONE" /\ found[m][i].at = 0
  BY DEF Init, NotStopped
<1>2. PublishedInPast /\ PublishedInOrder /\ \A i \in Instances : Dated(stopped[i])
  BY <1>1 DEF PublishedInPast, PublishedInOrder, Dated
<1>3. \A m \in Messages : Accepted(m) /\ \A i \in Instances : Planned(m, i)
  BY <1>1 DEF Accepted, Planned, NoEvent, NoAttempt
<1> QED
  BY <1>1, <1>2, <1>3, TypeInit DEF NotificationsInv

LEMMA InvStep == NotificationsInv /\ [Next]_vars => NotificationsInv'
<1> SUFFICES ASSUME NotificationsInv, [Next]_vars PROVE NotificationsInv'
  OBVIOUS
<1>1. TypeOK'
  BY TypeStep DEF NotificationsInv
<1>2. ASSUME NEW i \in Instances, Edit(i) PROVE NotificationsInv'
  BY <1>1, <1>2, OutsideKeeps DEF Edit
<1>3. CASE UNCHANGED vars
  BY <1>1, <1>3, OutsideKeeps DEF vars
<1> QED
  BY <1>1, <1>2, <1>3, PublishKeeps, AttemptKeeps, OperateKeeps, TickKeeps DEF Next

\* The records of the worker are dated after the notifications they are about, and
\* nothing is planned on less, for every configuration (NotificationsInv).
THEOREM NotificationsInvariant == Spec => []NotificationsInv
BY InvInit, InvStep, PTL DEF Spec

\* A smaller cost cannot reach the threshold of a limit that is no smaller.
LEMMA ReachedMonotone ==
  ASSUME NEW cost \in Int, NEW smaller \in Int, smaller <= cost,
         NEW limit \in Int, NEW smallerLimit \in Int, smallerLimit <= limit,
         smaller * Scale >= Threshold * limit
  PROVE  cost * Scale >= Threshold * smallerLimit
<1>1. cost * Scale >= smaller * Scale
  <2>1. PICK d \in Nat : cost = smaller + d
    <3> WITNESS cost - smaller \in Nat
    <3> QED OBVIOUS
  <2>2. Scale \in Nat
    OBVIOUS
  <2>3. (smaller + d) * Scale = smaller * Scale + d * Scale /\ d * Scale >= 0
    BY <2>2
  <2> QED
    BY <2>1, <2>3
<1>2. Threshold * limit >= Threshold * smallerLimit
  <2>1. PICK d \in Nat : limit = smallerLimit + d
    <3> WITNESS limit - smallerLimit \in Nat
    <3> QED OBVIOUS
  <2>2. Threshold \in Nat
    OBVIOUS
  <2>3. Threshold * (smallerLimit + d) = Threshold * smallerLimit + Threshold * d /\ Threshold * d >= 0
    BY <2>2
  <2> QED
    BY <2>1, <2>3
<1>3. /\ cost * Scale \in Int /\ smaller * Scale \in Int
      /\ Threshold * limit \in Int /\ Threshold * smallerLimit \in Int
  OBVIOUS
<1> QED
  BY <1>1, <1>2, <1>3

\* A start goes back to a stop that was as old as the delay when the attempt began, and
\* no notification acts on a date before its own interval has cost less.
LEMMA StartsLater ==
  ASSUME NotificationsInv, NEW m \in Messages, NEW i \in Instances,
         Decision(m) = "RECOVER", operation[m][i] # "NONE"
  PROVE  LET stop == found[m][i]
             by   == message[stop.by]
         IN  /\ stop.at # 0 /\ stop.at + RecoveryDelay <= message[m].published + MaxEventAge
             /\ /\ message[m].published > by.published \/ RecoveryDelay > MaxEventAge
                /\ Measured(message[m].cost) /\ Measured(by.cost)
                /\ CostReached(by) /\ LimitOf(message[m]) <= LimitOf(by)
                => message[m].interval > by.interval
<1> DEFINE stop == found[m][i]
           by   == stop.by
<1>1. Planned(m, i) /\ Accepted(m) /\ TypeOK
  BY DEF NotificationsInv
<1>2. /\ stop.at # 0 /\ stop.at + RecoveryDelay <= message[m].published + MaxEventAge
      /\ m \in 1..sent /\ by \in 1..sent /\ message[by].published <= stop.at
  BY <1>1 DEF Planned, Dated
<1>3. message[m] \in Payloads /\ message[by] \in Payloads /\ stop.at \in Nat
  BY <1>1, <1>2 DEF TypeOK, Messages, Stops
<1>4. message[m].published \in Nat /\ message[by].published \in Nat
  BY <1>3 DEF Payloads
<1>5. ASSUME message[m].published > message[by].published \/ RecoveryDelay > MaxEventAge,
             Measured(message[m].cost), Measured(message[by].cost),
             CostReached(message[by]), LimitOf(message[m]) <= LimitOf(message[by])
      PROVE  message[m].interval > message[by].interval
  <2>1. message[m].published > message[by].published
    BY <1>2, <1>3, <1>4, <1>5
  <2>2. by < m
    BY <1>2, <1>4, <2>1 DEF NotificationsInv, PublishedInOrder, Messages
  <2>3. message[by].interval <= message[m].interval
    BY <1>2, <2>2 DEF NotificationsInv, PublishedInOrder
  <2>4. message[by].interval \in Nat /\ message[m].interval \in Nat
    BY <1>3 DEF Payloads
  <2>5. /\ message[m].cost.n \in Int /\ message[by].cost.n \in Int
        /\ message[m].budget.n \in Int /\ message[by].budget.n \in Int
    BY <1>3 DEF Payloads, JsonValues
  <2>6. LimitOf(message[m]) \in Int /\ LimitOf(message[by]) \in Int
    BY <2>5 DEF LimitOf, NumberOf
  <2>7. ~CostReached(message[m])
    BY DEF Decision, DecisionFor
  <2>8. SUFFICES ASSUME message[m].interval = message[by].interval PROVE FALSE
    BY <2>3, <2>4
  <2>9. message[by].cost.n <= message[m].cost.n
    BY <1>2, <1>5, <2>2, <2>8 DEF NotificationsInv, PublishedInOrder
  <2>10. message[by].cost.n * Scale >= Threshold * LimitOf(message[by])
    BY <1>5 DEF CostReached, NumberOf
  <2>11. message[m].cost.n * Scale >= Threshold * LimitOf(message[m])
    BY <1>5, <2>5, <2>6, <2>9, <2>10, ReachedMonotone
  <2> QED
    BY <1>5, <2>7, <2>11 DEF CostReached, NumberOf
<1> QED
  BY <1>2, <1>5

\* No start without a completed stop, none on a notification that is older than the stop
\* by more than what the age exceeds the delay, and none in the interval whose cost was
\* the reason, if the notification is the later one: for all amounts, dates, delays and
\* ages, orders of processing, overlaps and retries (StartsInLaterInterval).
THEOREM NoStaleRecovery == Spec => []StartsInLaterInterval
<1>1. NotificationsInv => StartsInLaterInterval
  BY StartsLater DEF StartsInLaterInterval
<1> QED
  BY <1>1, NotificationsInvariant, PTL

\* Whatever is stopped for a notification was announced by a preview of it, however many
\* attempts it took and whatever they found (StopsWereForetold).
THEOREM NoSurpriseStop == Spec => []StopsWereForetold
<1>1. NotificationsInv => StopsWereForetold
  BY DEF NotificationsInv, Planned, StopsWereForetold
<1> QED
  BY <1>1, NotificationsInvariant, PTL

-----------------------------------------------------------------------------
(* What the operator is shown.                                             *)

\* For a notification that parses the overview's threshold is the policy's.
LEMMA ShownIsThreshold ==
  ASSUME NEW payload \in Payloads, Parses(payload)
  PROVE  ThresholdShown(payload) = Threshold * LimitOf(payload)
<1>1. payload.budget \in JsonValues
  BY DEF Payloads
<1>2. CASE Given(payload.budget)
  <2>1. NumberOf(payload.budget) \in Int /\ NumberOf(payload.budget) > 0
    BY <1>1, <1>2 DEF Parses, NumberOf, JsonValues
  <2>2. ThresholdShown(payload) = NumberOf(payload.budget) * Threshold
    BY <2>1 DEF ThresholdShown
  <2>3. LimitOf(payload) = NumberOf(payload.budget)
    BY <1>2 DEF LimitOf
  <2> QED
    BY <2>1, <2>2, <2>3
<1>3. CASE ~Given(payload.budget)
  <2>1. NumberOf(payload.budget) = 0
    BY <1>3 DEF NumberOf, Given, Measured, Numeric
  <2>2. ThresholdShown(payload) = BudgetLimit * Threshold /\ LimitOf(payload) = BudgetLimit
    BY <1>3, <2>1 DEF ThresholdShown, LimitOf
  <2> QED
    BY <2>2
<1> QED
  BY <1>2, <1>3

\* The overview shows a cost at or above its threshold exactly if the worker decided
\* to stop for the cost: for all amounts and limits (ShownRatioDecides).
THEOREM ShownRatioIsDecision == Spec => []ShownRatioDecides
<1>1. NotificationsInv => ShownRatioDecides
  <2> SUFFICES ASSUME NotificationsInv, NEW m \in Messages, event[m].status # "NONE"
               PROVE  LET reached == NumberOf(message[m].cost) * Scale >= ThresholdShown(message[m])
                      IN  /\ reached => event[m].decision = "STOP"
                          /\ event[m].decision = "STOP" /\ ~ForecastReached(message[m]) => reached
    BY DEF ShownRatioDecides
  <2>1. message[m] \in Payloads /\ Parses(message[m]) /\ event[m].decision = DecisionFor(message[m])
    BY DEF NotificationsInv, Accepted, TypeOK, Decision
  <2>2. ThresholdShown(message[m]) = Threshold * LimitOf(message[m])
    BY <2>1, ShownIsThreshold
  <2> QED
    BY <2>1, <2>2 DEF DecisionFor, CostReached
<1> QED
  BY <1>1, NotificationsInvariant, PTL

\* Only building the plan takes an attempt from its claim to its actions.
LEMMA PlansByBuilding ==
  ASSUME NotificationsInv, [Next]_vars, NEW m \in Messages,
         attempt[m].stage = "claimed", attempt'[m].stage = "acting"
  PROVE  BuildPlan(m)
<1>1. TypeOK /\ attempt' # attempt /\ attempt'[m] # attempt[m]
  BY DEF NotificationsInv
<1>2. PICK n \in Messages : Attempt(n)
  BY <1>1 DEF Next, Publish, Operate, Edit, Tick, worker, vars
<1>3. n = m
  BY <1>1, <1>2, AttemptAlone
<1>4. ASSUME NEW status, EndsWith(m, status) PROVE FALSE
  BY <1>1, <1>4 DEF EndsWith, NoAttempt, TypeOK
<1>5. ~SettleWithoutAction(m) /\ ~PlanTooLarge(m) /\ ~Complete(m) /\ ~Fails(m)
  BY <1>4 DEF SettleWithoutAction, PlanTooLarge, Complete, Fails
<1>6. \A i \in Instances : ~Submit(m, i) /\ ~SubmitFails(m, i) /\ ~WaitEnds(m, i) /\ ~WaitFails(m, i)
  BY DEF Submit, SubmitFails, IsNext, WaitEnds, WaitFails, Awaits
<1> QED
  BY <1>2, <1>3, <1>5, <1>6 DEF Attempt, Claim

\* An attempt to stop sets out to do what the preview of its notification announces, or
\* goes on with what was asked for before.
LEMMA PlanIsForetold ==
  ASSUME NotificationsInv, [Next]_vars, NEW m \in Messages,
         attempt[m].stage = "claimed", attempt'[m].stage = "acting", Decision(m) = "STOP"
  PROVE  IF pending[m] # {}
         THEN \A i \in attempt'[m].left : operation[m][i] # "NONE"
         ELSE /\ attempt'[m].left = PreviewBudget(message[m], inventory, clock)
              /\ attempt'[m].left = {i \in Instances :
                   /\ inventory[i].status = "RUNNING"
                   /\ ScopeReason(inventory[i], i) = "May stop at threshold"}
<1>1. TypeOK /\ BuildPlan(m) /\ Accepted(m) /\ pending[m] \subseteq Instances
  BY PlansByBuilding DEF NotificationsInv, TypeOK
<1>2. attempt'[m].left = Plan(m) /\ WithinLimit(Plan(m))
  BY <1>1, PlannedIs DEF BuildPlan, TypeOK
<1>3. CASE pending[m] # {}
  BY <1>1, <1>2, <1>3 DEF Plan, Accepted
<1>4. CASE pending[m] = {}
  <2>1. Plan(m) = Selected(inventory, "RUNNING")
    BY <1>4 DEF Plan
  <2>2. Parses(message[m])
    BY <1>1 DEF Accepted
  <2>3. PreviewBudget(message[m], inventory, clock) = Selected(inventory, "RUNNING")
    BY <1>1, <1>2, <2>1, <2>2, PreviewIs
  <2>4. Selected(inventory, "RUNNING") = {i \in Instances :
          /\ inventory[i].status = "RUNNING"
          /\ ScopeReason(inventory[i], i) = "May stop at threshold"}
    BY <1>1 DEF Selected, ScopeReason, TypeOK, Inventories
  <2> QED
    BY <1>2, <1>4, <2>1, <2>3, <2>4
<1> QED
  BY <1>3, <1>4

\* What an attempt to stop plans is what the preview of its notification announces, for
\* every inventory, limit and age (PreviewForetells).
THEOREM PreviewIsPlan == Spec => PreviewForetells
<1>1. NotificationsInv /\ [Next]_vars =>
        [\A m \in Messages :
           attempt[m].stage = "claimed" /\ attempt'[m].stage = "acting" /\ Decision(m) = "STOP" =>
             IF pending[m] # {}
             THEN \A i \in attempt'[m].left : operation[m][i] # "NONE"
             ELSE /\ attempt'[m].left = PreviewBudget(message[m], inventory, clock)
                  /\ attempt'[m].left = {i \in Instances :
                       /\ inventory[i].status = "RUNNING"
                       /\ ScopeReason(inventory[i], i) = "May stop at threshold"}]_vars
  BY PlanIsForetold
<1> QED
  BY <1>1, NotificationsInvariant, PTL DEF Spec, PreviewForetells

=============================================================================
