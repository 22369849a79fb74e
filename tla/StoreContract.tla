--------------------------- MODULE StoreContract ---------------------------
(***************************************************************************)
(* What the callers of an audit store rely on, in terms of the documents   *)
(* of src/src/store.js: the calls one after the other, each with the order *)
(* the worker makes them in, and nothing is ever forgotten.  A call that   *)
(* writes an action writes the managed instance after it, and may be cut   *)
(* short between the two.  The control document, which no other call here  *)
(* looks at, stays as it is.                                               *)
(***************************************************************************)
EXTENDS AuditStore

CONSTANTS
  MaxEventAge,    \* MAX_EVENT_AGE_SECONDS
  ClockSkew,      \* how far in the future a message may be published: 300 seconds
  PublishTimes,   \* when the messages are published
  MaxTime         \* bound: the clock

VARIABLES
  clock,
  published   \* when the message of each event was published

contractVars == <<storeVars, clock, published>>

ContractInit ==
  /\ StoreInit
  /\ clock = 1
  /\ published \in [Events -> PublishTimes]

\* validateEventSource: an event reaches the store only while its age is in range.
Fresh(e) ==
  /\ clock <= published[e] + MaxEventAge
  /\ published[e] <= clock + ClockSkew

\* An invocation works on the event under the lease that it took.
Held(e) == events[e].status = "PROCESSING" /\ events[e].leaseUntil > clock

-----------------------------------------------------------------------------

\* claimEvent, answered with claimed.
Claim(e) ==
  /\ Fresh(e) /\ Claimable(e, clock)
  /\ ClaimEvent(e, clock)
  /\ UNCHANGED <<clock, published>>

\* completeEvent, ignoreEvent, failEvent.
Finish(e) ==
  /\ Held(e)
  /\ CompleteEvent(e) \/ IgnoreEvent(e) \/ \E retryable \in BOOLEAN : FailEvent(e, retryable)
  /\ UNCHANGED <<clock, published>>

\* An action's document, and after it that of its instance.
Record(e, i, status, instance) ==
  /\ actions' = [actions EXCEPT ![e][i] = status]
  /\ managed' = [managed EXCEPT ![i] = instance] \/ UNCHANGED managed
  /\ UNCHANGED <<events, control, clock, published>>

\* recordActionIntent: no operation of the event is pending, and a start is of
\* an instance that listRecoverableInstances offered.
Intent(e, i) ==
  /\ Held(e) /\ DecisionOf[e] # "NO_ACTION" /\ PendingActions(e) = {}
  /\ ActionOf(e) = "start" => i \in RecoverableInstances(clock)
  /\ Record(e, i, "INTENT_RECORDED",
            IF ActionOf(e) = "stop" THEN [managed[i] EXCEPT !.status = "STOP_INTENT"]
                                    ELSE managed[i])

\* What a recorded action goes on with.
Recorded(e, i, statuses) == Held(e) /\ actions[e][i] \in statuses /\ managed[i].status # "NONE"

Submitted(e, i) ==
  /\ Recorded(e, i, {"INTENT_RECORDED"})
  /\ Record(e, i, "SUBMITTED",
            [managed[i] EXCEPT !.status = IF ActionOf(e) = "stop" THEN "STOP_SUBMITTED"
                                                                  ELSE "START_SUBMITTED"])

Completed(e, i) ==
  /\ Recorded(e, i, {"SUBMITTED"})
  /\ Record(e, i, "COMPLETED",
            IF ActionOf(e) = "stop" THEN [status |-> "STOP_COMPLETED", stopCompletedAt |-> clock]
                                    ELSE [managed[i] EXCEPT !.status = "START_COMPLETED"])

Failed(e, i) ==
  /\ Recorded(e, i, {"INTENT_RECORDED", "SUBMITTED"})
  /\ \E status \in {"FAILED", "FAILED_RETRYABLE"} :
       Record(e, i, status,
              [managed[i] EXCEPT !.status = IF ActionOf(e) = "stop" THEN "STOP_FAILED"
                                                                    ELSE "START_FAILED"])

\* What reconcileState finds of an instance.
Findings ==
  {"STOP_COMPLETED", "STOP_FAILED_NO_CHANGE", "START_COMPLETED",
   "START_FAILED_NO_CHANGE", "MANUAL_REVIEW_REQUIRED"}

\* markManagedInstance.
Mark(i) ==
  /\ managed[i].status # "NONE"
  /\ \E finding \in Findings : SetManaged(i, finding)
  /\ UNCHANGED <<clock, published>>

Tick ==
  /\ clock < MaxTime
  /\ clock' = clock + 1
  /\ UNCHANGED <<storeVars, published>>

ContractNext ==
  \/ \E e \in Events : Claim(e) \/ Finish(e)
  \/ \E e \in Events, i \in Instances :
       Intent(e, i) \/ Submitted(e, i) \/ Completed(e, i) \/ Failed(e, i)
  \/ \E i \in Instances : Mark(i)
  \/ Tick

ContractSpec == ContractInit /\ [][ContractNext]_contractVars

=============================================================================
