-------------------------- MODULE BudgetWorkerInv --------------------------
(***************************************************************************)
(* The inductive invariant behind the safety properties of BudgetWorker.   *)
(* A run checks it on a small instance, BudgetWorkerProofs proves it.      *)
(***************************************************************************)
EXTENDS BudgetWorker

\* The steps of the loop of executeActions, when the loop is at an instance.
LoopSteps ==
  {"intent", "intentManaged", "submit", "submitted", "submittedManaged", "wait",
   "completed", "completedManaged", "failAction", "failManaged"}

\* An invocation has an event, started in the past, and has not reached the
\* timeout of the function.
InvocationInv(w) ==
  pc[w] # "idle" =>
    /\ job[w].event \in Events
    /\ job[w].now <= clock
    /\ clock <= job[w].now + FunctionTimeout

LoopInv(w) ==
  pc[w] \in LoopSteps => job[w].on \in Instances /\ job[w].on \in job[w].todo

Lock(w) ==
  /\ events[job[w].event].status = "PROCESSING"
  /\ events[job[w].event].leaseUntil = job[w].now + Lease

\* The one way to hold an event without its lease is a completeEvent or an
\* ignoreEvent that was applied and failed: then failEvent is next.
ClaimInv(w) ==
  Holding(w) =>
    \/ Lock(w)
    \/ /\ pc[w] = "failEvent" /\ job[w].error = "retryable"
       /\ events[job[w].event].status \in {"COMPLETED", "IGNORED"}

\* What the documents say at each step of the loop.
AuditInv(w) ==
  LET e == job[w].event
      i == job[w].on
  IN /\ pc[w] \in {"intentManaged", "submit"} => actions[e][i] # "NONE"
     /\ pc[w] = "submit" /\ ActionOf(e) = "stop" => managed[i].status # "NONE"
     /\ pc[w] = "submitted" => ops[e][i] # "none"
     /\ pc[w] \in {"completed", "completedManaged"} => ops[e][i] = "done"

\* The automation stopped the instance once.
EverStopped(i) == \E f \in Events : ActionOf(f) = "stop" /\ ops[f][i] = "done"

OwnershipInv ==
  /\ \A i \in Instances : managed[i].stopCompletedAt # 0 => EverStopped(i)
  /\ \A w \in Workers :
       pc[w] \in LoopSteps /\ ActionOf(job[w].event) = "start" =>
         \A i \in job[w].todo : EverStopped(i)

WorkerInv ==
  \A w \in Workers : InvocationInv(w) /\ LoopInv(w) /\ ClaimInv(w) /\ AuditInv(w)

\* The inductive invariant: the properties proved, and what they rest on, that
\* every invocation acts inside the lease it took and on what it recorded.
IndInv ==
  /\ TypeOK
  /\ OneHolder
  /\ AuditBeforeAction
  /\ AuditIsTrue
  /\ StartsOnlyOwned
  /\ WorkerInv
  /\ OwnershipInv

=============================================================================
