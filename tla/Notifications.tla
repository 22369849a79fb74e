--------------------------- MODULE Notifications ---------------------------
(***************************************************************************)
(* The spend, the notifications about it in whatever order they are        *)
(* processed, and what the worker does about each: handler.js with the     *)
(* functions of Decisions.  An attempt claims its event, plans, and takes  *)
(* the instances of the plan one after the other; attempts of different    *)
(* events overlap, and one that ends early, with part of its plan done,    *)
(* may be repeated.  BudgetWorker has the awaits, the leases and the       *)
(* writes of an attempt one by one.                                        *)
(***************************************************************************)
EXTENDS Decisions

CONSTANTS
  RecoveryDelay,   \* recoveryDelaySeconds
  Cooldown,        \* cooldownSeconds
  Forms,           \* the kind of cost, the budget and the forecast of notifications
  Labelled,        \* sets of instances that may carry the managed label at first
  MaxMessages,     \* bound: notifications
  MaxSpend,        \* bound: the spend of an interval
  MaxIntervals,    \* bound: billing intervals
  MaxEdits,        \* bound: label edits and manual starts and stops
  MaxFaults,       \* bound: calls that fail and invocations that die
  MaxTime          \* bound: the clock

ASSUME NotificationAssumption ==
  /\ RecoveryDelay \in Nat /\ Cooldown \in Nat
  /\ Forms \subseteq [cost : Kinds, budget : JsonValues, forecast : JsonValues]
  /\ Labelled \subseteq SUBSET Instances
  /\ MaxMessages \in Nat /\ MaxSpend \in Nat /\ MaxIntervals \in Nat /\ MaxEdits \in Nat
  /\ MaxFaults \in Nat /\ MaxTime \in Nat

Messages == 1..MaxMessages

VARIABLES
  clock,
  spend, interval,   \* of the billing account
  sent,              \* notifications published so far
  message,           \* the payload of each; nobody looks at its interval
  event,             \* the audit record of each
  attempt,           \* the attempt in progress at each: when it began, what is left of its plan
  pending,           \* the instances of each whose action record is SUBMITTED
  operation,         \* Compute Engine: the operation of each request
  inventory,         \* Compute Engine: the instances
  stopped,           \* the completed stop that an instance may be restarted after,
                     \* and the notification it was for
  control,           \* control state: the last decision acted upon, and when
  edits, faults,
  found,             \* not in the code: the stop that the last plan to start an instance found
  announced          \* not in the code: what previews announced when stops were planned

billing == <<clock, spend, interval, sent, message>>

vars == <<billing, event, attempt, pending, operation, inventory, stopped, control, edits, faults,
          found, announced>>

NoPayload == [cost |-> Absent, budget |-> Absent, forecast |-> Absent, published |-> 0, interval |-> 0]

NoEvent == [status |-> "NONE", decision |-> "NONE"]

NoAttempt == [stage |-> "none", now |-> 0, left |-> {}]

NotStopped == [at |-> 0, by |-> 0]

Payloads ==
  [cost : JsonValues, budget : JsonValues, forecast : JsonValues, published : Nat, interval : Nat]

Events ==
  [status : {"NONE", "PROCESSING", "FAILED_RETRYABLE", "FAILED", "IGNORED", "COMPLETED"},
   decision : {"NONE", "STOP", "RECOVER", "NO_ACTION"}]

Attempts == [stage : {"none", "claimed", "acting"}, now : Nat, left : SUBSET Instances]

Stops == [at : Nat, by : 0..MaxMessages]

TypeOK ==
  /\ clock \in Nat /\ spend \in Nat /\ interval \in Nat /\ sent \in 0..MaxMessages
  /\ edits \in 0..MaxEdits /\ faults \in 0..MaxFaults
  /\ message \in [Messages -> Payloads]
  /\ event \in [Messages -> Events]
  /\ attempt \in [Messages -> Attempts]
  /\ pending \in [Messages -> SUBSET Instances]
  /\ operation \in [Messages -> [Instances -> {"NONE", "RUNNING", "DONE"}]]
  /\ inventory \in Inventories
  /\ stopped \in [Instances -> Stops]
  /\ control \in [decision : {"NONE", "STOP", "RECOVER"}, at : Nat]
  /\ found \in [Messages -> [Instances -> Stops]]
  /\ announced \in [Messages -> SUBSET Instances]

Init ==
  /\ clock = 1 /\ spend = 0 /\ interval = 1 /\ sent = 0 /\ edits = 0 /\ faults = 0
  /\ message = [m \in Messages |-> NoPayload] /\ event = [m \in Messages |-> NoEvent]
  /\ attempt = [m \in Messages |-> NoAttempt] /\ pending = [m \in Messages |-> {}]
  /\ operation = [m \in Messages |-> [i \in Instances |-> "NONE"]]
  /\ \E managed \in Labelled : inventory =
       [i \in Instances |-> [status |-> "RUNNING", managed |-> i \in managed, protected |-> FALSE]]
  /\ stopped = [i \in Instances |-> NotStopped]
  /\ control = [decision |-> "NONE", at |-> 0]
  /\ found = [m \in Messages |-> [i \in Instances |-> NotStopped]]
  /\ announced = [m \in Messages |-> {}]

-----------------------------------------------------------------------------
(* Billing.                                                                *)

worker == <<event, attempt, pending, operation, inventory, stopped, control, found, announced>>

\* Since the last notification the spend may have grown, or an interval have begun; the
\* intervals are counted from that of the first.
Publish ==
  /\ sent < MaxMessages
  /\ sent' = sent + 1
  /\ interval' \in interval..MaxIntervals /\ (sent = 0 => interval' = interval)
  /\ spend' \in 0..MaxSpend
  /\ interval' = interval => spend' >= spend
  /\ \E form \in Forms :
       message' = [message EXCEPT ![sent'] =
         [cost |-> [kind |-> form.cost, n |-> IF form.cost \in Numeric THEN spend' ELSE 0],
          budget |-> form.budget, forecast |-> form.forecast, published |-> clock, interval |-> interval']]
  /\ UNCHANGED <<clock, edits, faults, worker>>

-----------------------------------------------------------------------------
(* The worker, in execute mode with automation enabled.                    *)

Decision(m) == DecisionFor(message[m])

\* claimEvent, for a message that was parsed and whose source was looked at; what is
\* rejected leaves no trace.  An event that is PROCESSING without an attempt can be
\* claimed when the lease of the one that died is over.
Claim(m) ==
  /\ m <= sent /\ Parses(message[m]) /\ FromSource(message[m], clock)
  /\ attempt[m].stage = "none" /\ event[m].status \in {"NONE", "PROCESSING", "FAILED_RETRYABLE"}
  /\ event' = [event EXCEPT ![m] = [status |-> "PROCESSING", decision |-> Decision(m)]]
  /\ attempt' = [attempt EXCEPT ![m] = [stage |-> "claimed", now |-> clock, left |-> {}]]
  /\ UNCHANGED <<billing, pending, operation, inventory, stopped, control, edits, faults, found, announced>>

Fault == faults < MaxFaults /\ faults' = faults + 1

\* The end of an attempt, with or without a record of how it ended.
EndsWith(m, status) ==
  /\ event' = [event EXCEPT ![m].status = status]
  /\ attempt' = [attempt EXCEPT ![m] = NoAttempt]

\* checkCooldown.
Cooling(m) == /\ Cooldown # 0 /\ control.decision = Decision(m)
              /\ attempt[m].now < control.at + Cooldown

\* completeEvent for NO_ACTION, ignoreEvent during the cooldown.
SettleWithoutAction(m) ==
  /\ attempt[m].stage = "claimed"
  /\ \/ Decision(m) = "NO_ACTION" /\ EndsWith(m, "COMPLETED")
     \/ Decision(m) # "NO_ACTION" /\ Cooling(m) /\ EndsWith(m, "IGNORED")
  /\ UNCHANGED <<billing, pending, operation, inventory, stopped, control, edits, faults, found, announced>>

\* listRecoverableInstances with the cutoff.
Recoverable(now) == {i \in Instances : stopped[i].at # 0 /\ stopped[i].at + RecoveryDelay <= now}

\* Mutant of Plan: what may never be stopped is planned too.
PlanProtected(m) ==
  IF pending[m] # {} THEN pending[m]
  ELSE IF Decision(m) = "STOP"
  THEN {i \in Instances \ OutOfScope : inventory[i].status = "RUNNING" /\ inventory[i].managed}
  ELSE Selected(inventory, "TERMINATED") \cap Recoverable(attempt[m].now)

\* buildActionPlan: an attempt that finds submitted actions of its event resumes these
\* and plans no others.
Plan(m) ==
  IF pending[m] # {} THEN pending[m]
  ELSE IF Decision(m) = "STOP" THEN Selected(inventory, "RUNNING")
  ELSE Selected(inventory, "TERMINATED") \cap Recoverable(attempt[m].now)

MayPlan(m) == attempt[m].stage = "claimed" /\ Decision(m) # "NO_ACTION" /\ ~Cooling(m)

\* buildActionPlan; found and announced remember what a plan that resumes nothing saw.
BuildPlan(m) ==
  /\ MayPlan(m) /\ WithinLimit(Plan(m))
  /\ attempt' = [attempt EXCEPT ![m] = [stage |-> "acting", now |-> @.now, left |-> Plan(m)]]
  /\ found' = [found EXCEPT ![m] = [i \in Instances |->
       IF pending[m] = {} /\ Decision(m) = "RECOVER" /\ i \in Plan(m) THEN stopped[i] ELSE @[i]]]
  /\ announced' = [announced EXCEPT ![m] =
       IF pending[m] = {} /\ Decision(m) = "STOP"
       THEN @ \cup PreviewBudget(message[m], inventory, clock) ELSE @]
  /\ UNCHANGED <<billing, event, pending, operation, inventory, stopped, control, edits, faults>>

\* enforceActionLimit.
PlanTooLarge(m) ==
  /\ MayPlan(m) /\ ~WithinLimit(Plan(m))
  /\ EndsWith(m, "FAILED")
  /\ UNCHANGED <<billing, pending, operation, inventory, stopped, control, edits, faults, found, announced>>

\* The next instance of the loop, when none is being waited for.
IsNext(m, i) ==
  attempt[m].stage = "acting" /\ i \in attempt[m].left /\ attempt[m].left \cap pending[m] = {}

\* A repeated request gets the operation that it had begun before.
Requested(m, i) ==
  IF operation[m][i] = "NONE" THEN [operation EXCEPT ![m][i] = "RUNNING"] ELSE operation

\* recordActionIntent, submitAction, recordActionSubmitted: whatever the ownership
\* document said of a completed stop is replaced.
Submit(m, i) ==
  /\ IsNext(m, i)
  /\ operation' = Requested(m, i)
  /\ pending' = [pending EXCEPT ![m] = @ \cup {i}]
  /\ stopped' = [stopped EXCEPT ![i] = NotStopped]
  /\ UNCHANGED <<billing, event, attempt, inventory, control, edits, faults, found, announced>>

\* The request is turned away for good; or for now, or its answer is lost, and
\* recordActionFailed writes that down; or recordActionSubmitted fails at one of its two
\* documents, and a start leaves the ownership document as it was.
SubmitFails(m, i) ==
  /\ IsNext(m, i) /\ Fault
  /\ \/ /\ operation' = operation /\ EndsWith(m, "FAILED")
        /\ stopped' = [stopped EXCEPT ![i] = NotStopped] /\ UNCHANGED pending
     \/ /\ operation' \in {operation, Requested(m, i)} /\ EndsWith(m, "FAILED_RETRYABLE")
        /\ stopped' = [stopped EXCEPT ![i] = NotStopped] /\ UNCHANGED pending
     \/ /\ operation' = Requested(m, i) /\ EndsWith(m, "FAILED_RETRYABLE")
        /\ stopped' = IF Decision(m) = "STOP" THEN [stopped EXCEPT ![i] = NotStopped] ELSE stopped
        /\ pending' \in {pending, [pending EXCEPT ![m] = @ \cup {i}]}
  /\ UNCHANGED <<billing, inventory, control, edits, found, announced>>

\* Compute Engine carries an operation out, whether or not anyone waits for it.  One that
\* fails stays as it is, and so does its instance; an instance that is changing is shown
\* as what it was.
Operate(m, i) ==
  /\ operation[m][i] = "RUNNING"
  /\ operation' = [operation EXCEPT ![m][i] = "DONE"]
  /\ inventory' = [inventory EXCEPT ![i].status =
       IF Decision(m) = "STOP" THEN "TERMINATED" ELSE "RUNNING"]
  /\ UNCHANGED <<billing, event, attempt, pending, stopped, control, edits, faults, found, announced>>

\* Mutant of Completed: the date is written whatever the action was.
CompletedAlways(m) == [at |-> clock, by |-> m]

\* What recordActionCompleted leaves in the ownership document.
Completed(m) == IF Decision(m) = "STOP" THEN [at |-> clock, by |-> m] ELSE NotStopped

Awaits(m, i) == attempt[m].stage = "acting" /\ i \in attempt[m].left \cap pending[m]

\* waitForOperation and recordActionCompleted.
WaitEnds(m, i) ==
  /\ Awaits(m, i) /\ operation[m][i] = "DONE"
  /\ attempt' = [attempt EXCEPT ![m] = [stage |-> "acting", now |-> @.now, left |-> @.left \ {i}]]
  /\ pending' = [pending EXCEPT ![m] = @ \ {i}]
  /\ stopped' = [stopped EXCEPT ![i] = Completed(m)]
  /\ UNCHANGED <<billing, event, operation, inventory, control, edits, faults, found, announced>>

\* The operation failed, or the poll was refused: the action has failed, and the event
\* with it.  Or the operation takes too long, or a poll fails for now, and the action stays
\* submitted; or recordActionCompleted fails at one of its two documents.
WaitFails(m, i) ==
  /\ Awaits(m, i) /\ Fault
  /\ \/ /\ EndsWith(m, "FAILED") /\ pending' = [pending EXCEPT ![m] = @ \ {i}]
        /\ stopped' = [stopped EXCEPT ![i] = NotStopped]
     \/ EndsWith(m, "FAILED_RETRYABLE") /\ UNCHANGED <<pending, stopped>>
     \/ /\ operation[m][i] = "DONE" /\ EndsWith(m, "FAILED_RETRYABLE")
        /\ pending' = [pending EXCEPT ![m] = @ \ {i}] /\ UNCHANGED stopped
  /\ UNCHANGED <<billing, operation, inventory, control, edits, found, announced>>

\* updateControlState and completeEvent.
Complete(m) ==
  /\ attempt[m].stage = "acting" /\ attempt[m].left = {}
  /\ EndsWith(m, "COMPLETED")
  /\ control' = [decision |-> Decision(m), at |-> attempt[m].now]
  /\ UNCHANGED <<billing, pending, operation, inventory, stopped, edits, faults, found, announced>>

\* The invocation dies, the store fails, or the inventory cannot be read, for now or for good.
Fails(m) ==
  /\ Fault
  /\ \/ attempt[m].stage # "none" /\ EndsWith(m, event[m].status)
     \/ attempt[m].stage # "none" /\ EndsWith(m, "FAILED_RETRYABLE")
     \/ MayPlan(m) /\ pending[m] = {} /\ EndsWith(m, "FAILED")
  /\ UNCHANGED <<billing, pending, operation, inventory, stopped, control, edits, found, announced>>

-----------------------------------------------------------------------------

\* Someone edits a label, or starts or stops an instance.
Edit(i) ==
  /\ edits < MaxEdits
  /\ edits' = edits + 1
  /\ \/ inventory' = [inventory EXCEPT ![i].managed = ~@]
     \/ inventory' = [inventory EXCEPT ![i].protected = ~@]
     \/ inventory' = [inventory EXCEPT ![i].status = IF @ = "RUNNING" THEN "TERMINATED" ELSE "RUNNING"]
  /\ UNCHANGED <<billing, event, attempt, pending, operation, stopped, control, faults, found, announced>>

Tick ==
  /\ clock < MaxTime
  /\ clock' = clock + 1
  /\ UNCHANGED <<spend, interval, sent, message, edits, faults, worker>>

Attempt(m) ==
  \/ Claim(m) \/ SettleWithoutAction(m) \/ BuildPlan(m) \/ PlanTooLarge(m) \/ Complete(m) \/ Fails(m)
  \/ \E i \in Instances : Submit(m, i) \/ SubmitFails(m, i) \/ WaitEnds(m, i) \/ WaitFails(m, i)

Next ==
  \/ Publish
  \/ \E m \in Messages : Attempt(m) \/ \E i \in Instances : Operate(m, i)
  \/ \E i \in Instances : Edit(i)
  \/ Tick

Spec == Init /\ [][Next]_vars

-----------------------------------------------------------------------------
(* Properties.                                                             *)

\* What has been published is of the past, and its cost is part of the spend.
PublishedInPast ==
  \A m \in 1..sent :
    /\ message[m].published \in 1..clock /\ message[m].interval <= interval
    /\ Measured(message[m].cost) =>
         /\ message[m].cost.n >= 0
         /\ message[m].interval = interval => message[m].cost.n <= spend

\* Within an interval later notifications have no smaller cost.
PublishedInOrder ==
  \A m, n \in 1..sent : m < n =>
    /\ message[m].published <= message[n].published
    /\ message[m].interval <= message[n].interval
    /\ Measured(message[m].cost) /\ Measured(message[n].cost)
         /\ message[m].interval = message[n].interval
       => message[m].cost.n <= message[n].cost.n

\* A stop that may be undone was decided on, and is dated after its notification.
Dated(stop) ==
  stop.at # 0 => /\ stop.by \in 1..sent /\ Decision(stop.by) = "STOP"
                 /\ message[stop.by].published <= stop.at

\* Nothing is done about what was not published or does not parse; an attempt began
\* when its notification was young enough; what is submitted was asked for.
Accepted(m) ==
  /\ event[m].status # "NONE" \/ attempt[m].stage # "none" => event[m].decision = Decision(m)
  /\ event[m].status # "NONE" \/ attempt[m].stage # "none" \/ (\E i \in Instances : operation[m][i] # "NONE")
     => m \in 1..sent /\ Parses(message[m])
  /\ attempt[m].stage # "none" =>
       attempt[m].now <= clock /\ attempt[m].now <= message[m].published + MaxEventAge
  /\ IF attempt[m].stage = "acting" THEN Decision(m) # "NO_ACTION" ELSE attempt[m].left = {}
  /\ \A i \in pending[m] : operation[m][i] # "NONE"

\* What is left of an attempt, or was ever asked for, was planned: a start because of
\* a stop that was old enough for the notification, a stop as the preview had it.
Planned(m, i) ==
  /\ found[m][i].at # 0 => /\ m \in 1..sent /\ Dated(found[m][i])
                           /\ found[m][i].at + RecoveryDelay <= message[m].published + MaxEventAge
  /\ i \in attempt[m].left \/ operation[m][i] # "NONE" =>
       /\ Decision(m) = "RECOVER" => found[m][i].at # 0
       /\ Decision(m) = "STOP" => i \in announced[m]

\* The order in which the worker's records and the notifications were made, whatever
\* the order of processing, the overlap of attempts and their retries (claimEvent,
\* buildActionPlan, executeActions, recordActionCompleted).
NotificationsInv ==
  /\ TypeOK /\ clock > 0 /\ PublishedInPast /\ PublishedInOrder
  /\ \A i \in Instances : Dated(stopped[i])
  /\ \A m \in Messages : Accepted(m) /\ \A i \in Instances : Planned(m, i)

\* A start is asked for, in whatever attempt, only because of a stop that the worker had
\* completed.  The notification may be older than that stop only by what the age it may
\* have exceeds the recovery delay; and if it was published after the one of the stop,
\* then what was stopped for the cost of an interval is not started in that interval,
\* unless another budget was given (validateEventSource, buildActionPlan).
StartsInLaterInterval ==
  \A m \in Messages, i \in Instances :
    Decision(m) = "RECOVER" /\ operation[m][i] # "NONE" =>
      LET stop == found[m][i]
          by   == message[stop.by]
      IN  /\ stop.at # 0 /\ stop.at + RecoveryDelay <= message[m].published + MaxEventAge
          /\ /\ message[m].published > by.published \/ RecoveryDelay > MaxEventAge
             /\ Measured(message[m].cost) /\ Measured(by.cost)
             /\ CostReached(by) /\ LimitOf(message[m]) <= LimitOf(by)
             => message[m].interval > by.interval

\* Whatever an event stops, in all its attempts, after edits, partial failures and
\* resumed operations, a preview had announced when one of them planned (previewBudget,
\* buildActionPlan, executeActions).
StopsWereForetold ==
  \A m \in Messages, i \in Instances :
    Decision(m) = "STOP" /\ operation[m][i] # "NONE" => i \in announced[m]

\* What the operator is told before is what the worker sets out to do: an attempt to stop
\* that resumes nothing plans the instances that a preview of the same notification
\* announces, which are the running ones that the overview shows as "May stop at
\* threshold"; one that resumes plans only what was asked for before
\* (previewBudget, describeInstance, buildActionPlan).
PreviewForetells ==
  [][\A m \in Messages :
       attempt[m].stage = "claimed" /\ attempt'[m].stage = "acting" /\ Decision(m) = "STOP" =>
         IF pending[m] # {}
         THEN \A i \in attempt'[m].left : operation[m][i] # "NONE"
         ELSE /\ attempt'[m].left = PreviewBudget(message[m], inventory, clock)
              /\ attempt'[m].left = {i \in Instances :
                   /\ inventory[i].status = "RUNNING"
                   /\ ScopeReason(inventory[i], i) = "May stop at threshold"}]_vars

\* The overview shows the cost of a notification at or above the threshold only if
\* the worker decided to stop for it, and then always unless it was for the
\* forecast (summarizeBudget, evaluateBudgetPolicy).
ShownRatioDecides ==
  \A m \in Messages : event[m].status # "NONE" =>
    LET reached == NumberOf(message[m].cost) * Scale >= ThresholdShown(message[m]) IN
    /\ reached => event[m].decision = "STOP"
    /\ event[m].decision = "STOP" /\ ~ForecastReached(message[m]) => reached

=============================================================================
