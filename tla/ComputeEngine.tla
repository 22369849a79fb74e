--------------------------- MODULE ComputeEngine ---------------------------
(***************************************************************************)
(* Compute Engine as the gateway src/src/compute.js uses it: the instances *)
(* with their status, and the zone operations that a start or stop request *)
(* creates.  The service itself is not in the repository; what is here is  *)
(* what the gateway relies on: a request is identified by its requestId,   *)
(* which the worker derives from event, action and instance, so the        *)
(* operations are indexed by event and instance, and a repeated request    *)
(* returns the operation it already created.                               *)
(***************************************************************************)
EXTENDS BudgetEvents

VARIABLES
  vm,     \* status of each instance, and who last had it stopped
  ops     \* status of the operation of each request, "none" before it exists

computeVars == <<vm, ops>>

VmStatus == {"RUNNING", "STOPPING", "TERMINATED", "STAGING"}
OpStatus == {"none", "pending", "done", "error"}
Stoppers == {"nobody", "automation", "operator"}

ComputeTypeOK ==
  /\ vm  \in [Instances -> [status : VmStatus, stoppedBy : Stoppers]]
  /\ ops \in [Events -> [Instances -> OpStatus]]

ComputeInit ==
  /\ vm  = [i \in Instances |-> [status |-> "RUNNING", stoppedBy |-> "nobody"]]
  /\ ops = [e \in Events |-> [i \in Instances |-> "none"]]

-----------------------------------------------------------------------------
(* Requests of the gateway.                                                *)

Busy(i) == \E e \in Events : ops[e][i] = "pending"

\* The instance once a request is accepted.  Stopping a stopped instance, or
\* starting a running one, is accepted and leaves its status.
AfterAccept(e, i) ==
  IF ActionOf(e) = "stop"
  THEN [status |-> IF vm[i].status = "RUNNING" THEN "STOPPING" ELSE vm[i].status,
        stoppedBy |-> "automation"]
  ELSE [vm[i] EXCEPT !.status = IF @ = "TERMINATED" THEN "STAGING" ELSE @]

\* A new request, or one whose requestId the service has seen: the latter
\* returns its operation and has no further effect.
Submit(e, i) ==
  \/ /\ ops[e][i] # "none"
     /\ UNCHANGED computeVars
  \/ /\ ops[e][i] = "none"
     /\ ~ Busy(i)
     /\ ops' = [ops EXCEPT ![e][i] = "pending"]
     /\ vm'  = [vm EXCEPT ![i] = AfterAccept(e, i)]

\* Another operation holds the instance: HTTP 400, not retryable.
Conflict(e, i) == ops[e][i] = "none" /\ Busy(i)

-----------------------------------------------------------------------------
(* What the service and the owner of the project do on their own.          *)

FinishOperation(e, i) ==
  /\ ops[e][i] = "pending"
  /\ ops' = [ops EXCEPT ![e][i] = "done"]
  /\ vm'  = [vm EXCEPT ![i].status = IF ActionOf(e) = "stop" THEN "TERMINATED" ELSE "RUNNING"]

\* The operation ends in an error and the instance is back where it was.
FailOperation(e, i) ==
  /\ ops[e][i] = "pending"
  /\ ops' = [ops EXCEPT ![e][i] = "error"]
  /\ vm'  = [vm EXCEPT ![i].status = CASE @ = "STOPPING" -> "RUNNING"
                                       [] @ = "STAGING"  -> "TERMINATED"
                                       [] OTHER          -> @]

\* An operator starts or stops the instance outside the program.
OperatorStop(i) ==
  /\ vm[i].status = "RUNNING" /\ ~ Busy(i)
  /\ vm' = [vm EXCEPT ![i] = [status |-> "TERMINATED", stoppedBy |-> "operator"]]
  /\ UNCHANGED ops

OperatorStart(i) ==
  /\ vm[i].status = "TERMINATED" /\ ~ Busy(i)
  /\ vm' = [vm EXCEPT ![i].status = "RUNNING"]
  /\ UNCHANGED ops

=============================================================================
