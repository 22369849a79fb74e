# Verification of GCC Budget Hardcap

TLA+ models of the program in this repository, the TLC runs that check them on
small instances, and TLAPS proofs of what they promise for every size. File
names below are relative to the repository; `handler.js` is `src/handler.js`,
`store.js` is `src/store.js`, and so on.

## 1. Inventory

### The worker (cloud side)

| Part | State | Operations | Interacts with |
| --- | --- | --- | --- |
| Budget worker, `src/handler.js` | none beyond the local variables of an invocation | one invocation per delivered message: parse, decide, claim, gate, plan, execute, settle | everything below, by awaited calls |
| Event parser and source validation, `src/event.js` | none | `parseBudgetEvent`, `validateEventSource` | called by the worker |
| Budget policy, `src/policy.js` | none | `evaluateBudgetPolicy` | called by the worker |
| Audit store, `src/store.js` | four Firestore collections: events, actions, managed instances, control | `claimEvent` (a transaction), single-document merge writes, queries | worker, reconciliation, dashboard |
| Compute gateway, `src/compute.js` | none; Compute Engine has the instances and the zone operations | `listInstances`, `submitAction`, `waitForOperation`, `selectManagedInstances` | worker, reconciliation, control service |
| Reconciliation, `scripts/reconcile.js` | none | one run: two reads in parallel, then one write per ambiguous instance | audit store, gateway, concurrently with the worker |
| Notifier, `src/notifier.js` | none | publish; its failures are swallowed | after the audit is complete |
| Trigger, `infra/terraform/main.tf` | Pub/Sub subscription | at-least-once delivery, retry until acknowledged, 540 s timeout, at most 3 function instances | starts and kills invocations |

What is hard here: redelivery and duplicates of a message, several function
instances on one event or on events of opposite decisions, a process that dies
between a call and the record of it, a response that is lost, a write that is
applied although it fails, a lease against a timeout, the cooldown of one event
against the retry of another, and a reconciliation that writes from old reads.

What makes it correct: one invocation per event; nothing is asked of Compute
Engine that is not in the audit first; the audit claims only what happened; only
instances that the automation stopped are started; events get settled and
submitted operations get their outcome.

What a notification may do is a matter of its own. It carries a cost of some
earlier time, may arrive in any order and be repeated, and the worker keeps no
record of the newest one. Its cost is what JavaScript's `Number()` makes of it. It
is correct when a start has a completed stop behind it that is old enough, when a
later notification undoes a stop only in a later billing interval, and when the
preview and the overview tell the operator what the worker will do.

### The control plane (local side)

| Part | State | Operations | Hard behaviour | Correct when |
| --- | --- | --- | --- | --- |
| Control service, `src/control/service.js` | a cache of the provider snapshot with one pending load; the saved policy | `getOverview`, `updatePolicy`, `previewBudget`, `getHaiContext` | loads that end out of order or after `clear`; read-merge-write of the policy across awaits; a second and a third copy of the worker's rules | what is served has an age limit, a refresh reads again, automation in execute mode has been confirmed, preview and scope agree with the worker |
| Authentication, `src/control/auth.js` | sessions and login attempts, each capped | `authenticate`, `login`, `logout`, pruning | expiry and eviction at the limits | a session in use lives, the tables are bounded, only wrong tokens throttle |
| MCP connector, `src/control/mcp.js` | sessions, capped | initialise, touch, end, `close` | the cap is tested before an asynchronous insertion; `close` awaits | the cap is passed by the overlap at most, idle sessions go first, `close` leaves nothing that it could see |
| SQLite store, `src/control/sqlite-store.js` | the store's tables plus settings | the store's contract in SQL, with expiry | rows deleted while messages can still arrive; a column shared by stop and start; an UPDATE that finds no row | it keeps the contract of the audit store |
| Dashboard, `web/src/App.jsx` | cookie, CSRF token, overview, screen | load, sign in and out, save | answers in any order, lost answers, restarts of the server | the token is that of the session, no endless loading, a sign-out holds |
| Server, configuration, start-up (`server.js`, `config.js`, `main.js`), scripts, Windows launcher | little or none | routing, packaging | I/O | |

## 2. Modules

| Module | Models | How it corresponds |
| --- | --- | --- |
| `BudgetEvents` | events, instances and the decision of each event | `DecisionOf` stands for `evaluateBudgetPolicy` of the event's payload under one configuration; the pair (event, instance) stands for the action id and the request id, which are both derived from it |
| `AuditStore` | `store.js` | the variables `events`, `actions`, `managed`, `control` are the collections; one operator per document write, because the two writes of `recordAction...` can be separated by a crash; `SetEvent`, `SetAction` and `SetManaged` are the merge writes |
| `ComputeEngine` | what `compute.js` needs of Compute Engine (external) | `vm` is the status of an instance and who stopped it, `ops` the operation of each request; a repeated request id returns its operation |
| `BudgetWorker` | `handler.js` in execute mode, the trigger, the clock | `pc[w]` is the await the invocation is at and `job[w]` its local variables; one action per await |
| `EventClaims` | the promise of the claims: per event a lock and an outcome | implemented by `BudgetWorker` under the mapping `Claims` |
| `Reconciler` | `scripts/reconcile.js --apply` beside the worker | `ListInventory` and `ListAmbiguous` are the branches of `Promise.all`, `MarkManagedInstance` one turn of the loop |
| `ReconcilerProofs` | theorems and proofs about the worker with `Reconciler` | section 5 |
| `BudgetWorkerInv` | the inductive invariant | checked by TLC, proved in `BudgetWorkerProofs` |
| `BudgetWorkerProofs` | theorems and proofs about `BudgetWorker`, and that it implements `EventClaims` | section 5 |
| `DocumentedClaims` | statements of the documentation that the code does not keep | one run each, section 4 |
| `ControlService` | the cache and the policy of `control/service.js` | `load`, `pending` and `cache` are the variables of `createCache` and the loads in progress, each named after the client that began it; `update` is an `updatePolicy` in progress, `saved` the setting in the store, `env` what the process read when it started |
| `ControlServiceProofs` | theorems and proofs about `ControlService` | section 5 |
| `Decisions` | `event.js`, `policy.js`, `selectManagedInstances`, `enforceActionLimit`, plan mode; of `control/service.js` the preview, the scope of an instance and the limit of the overview | pure operators on a payload and an inventory; a JSON value is its kind and the number that `Number()` reads from it: a "numeral" is numeric text and the like, a "blank" whatever is taken for zero (a text of spaces, `false`, `[]`), a "text" what becomes NaN; a ratio is an integer in units of 1/`Scale` |
| `Notifications` | the spend, the notifications about it and what the worker does with each | extends `Decisions`; `message` is what was published, `event` the audit record, `attempt` an invocation that has claimed it with what is left of its plan, `pending` the action records that are `SUBMITTED`, `operation` what Compute Engine was asked for, `stopped` the ownership document of a completed stop; the steps are `Claim`, `BuildPlan` and, per instance, `Submit` and `WaitEnds`, each of which may fail |
| `NotificationsProofs` | theorems and proofs about `Notifications` | section 5 |
| `StoreContract` | what the callers of the local audit store rely on | the actions of `AuditStore` with any caller: claims, settlements, records and reads |
| `SqliteStore` | `control/sqlite-store.js` | `eventRows`, `actionRows`, `managedRows` are the tables; `CleanupExpired` deletes; implements `StoreContract` under the mapping `Contract`, which remembers what was deleted (`erased`) |
| `SqliteStoreProofs` | theorems and proofs about `SqliteStore` | section 5 |
| `Sessions` | `control/auth.js` | `sessions` and `attempts` are the two Maps; each call is a step, because `auth.js` never awaits |
| `SessionsProofs` | theorems and proofs about `Sessions` | section 5 |
| `McpSessions`, `McpSessionsProofs` | the session table of `control/mcp.js` and proofs of its bound, its evictions and its shutdown | `transport` is the state of each transport; an initialize request is two steps, `Initialize` and `SessionInitialized`, `close` is `BeginClose`, `CloseSession`, `EndClose` |
| `Dashboard` | `App.jsx` and `api.js` over the routes of `server.js` | extends `Sessions`; `calls` are the requests whose continuation is to come, `ui` the state of `App`; `Serve` is the server, `Receive` the continuation |
| `DashboardProofs` | theorems and proofs about `Dashboard`; extends `SessionsProofs`, whose lemmas hold for the sessions under the page | section 5 |
| `MCBudgetWorker`, `MCReconciler`, `MCControlService`, `MCSqliteStore`, `MCSessions`, `MCDashboard`, `MCNotifications` | instances for TLC | decisions of the events, inputs of updates, payloads, symmetry sets; `MCSessions` joins `Sessions` and `McpSessions`, which share no state, as alternatives |

`BudgetWorker` EXTENDS `AuditStore` and `ComputeEngine` and joins their actions
with its own control; `Reconciler` adds its reads and writes to the `Next` of
`BudgetWorker`.

The awaits of `handler.js` and the values of `pc`:

| `pc` | Code |
| --- | --- |
| `claim` | `store.claimEvent`; `Gate` is what follows it: automation switch, `NO_ACTION`, cooldown |
| `cooldown` | `checkCooldown` |
| `pending`, `list`, `recoverable` | `buildActionPlan`: `listPendingActions`, `listInstances`, `listRecoverableInstances`; `StartPlan` adds `enforceActionLimit` |
| `intent`, `intentManaged` | the two writes of `recordActionIntent` |
| `submit` | `compute.submitAction` |
| `submitted`, `submittedManaged` | the two writes of `recordActionSubmitted` |
| `wait` | `compute.waitForOperation`, the loop of polls as one step that ends it |
| `completed`, `completedManaged` | the two writes of `recordActionCompleted` |
| `failAction`, `failManaged` | the two writes of `recordActionFailed` in the `catch` of the loop |
| `control`, `complete`, `ignore` | `updateControlState`, `completeEvent`, `ignoreEvent` |
| `failEvent` | the outer `catch`, whose own failure is swallowed |
| `respond` | the error is thrown to the trigger (retryable) or the message is acknowledged |

Abstractions. A failing store call is retryable (`wrapStoreError`), and a write
that fails may have been applied. A failing provider call is retryable or
terminal, freely chosen. A time is a number of ticks; `now` is captured when an
invocation starts, as in the code, and 0 is an absent time. The order in which
`executeActions` takes the instances of the plan is free. The delays between
requests and the polls inside `waitForOperation` are not steps. An invocation is
gone at the latest `FunctionTimeout` ticks after it started. Labels, zones and
exclusions are the constant set `Eligible`.

In `ControlService` a snapshot is the time its reading began, and a failed one
is a snapshot like the others, as it is for the cache. Of the policy's fields it
keeps the mode and the automation, the only ones that a check relates to each
other; the numbers are range-checked one by one. `consent`, `answer` and
`bounds` are not in the code: what was asked for, what was answered and when, and
the counters of the bounds. The deadline of a probe is a timer that fires when it
is due, so the clock does not pass it, nor the few microtasks of `Describe`. The
two halves meet in `FinishUpdate`, which clears the cache, and in `Restart`,
after which only the store is left.

In `Notifications` the spend only grows within a billing interval and starts
anew in the next. A notification tells the cost of the moment it was published,
and is dated then. The interval is in the payload, but nothing looks at it. A
preview takes the configuration of the control service and the worker that of
its deployment; the models give both the same, as the documentation asks for.
Automation is enabled. The reads that a plan is made of, of the control state, the
pending actions, the inventory and the ownership documents, are one step; so is a
call to Compute Engine with the record of it, except where the record fails. An
event is claimed only when no attempt at it is in progress, which is what the lease
of `BudgetWorker` is for (`OneHolder`). An instance that is being started or stopped
is shown as what it was until the operation is done. An attempt may end at any
point: for good (`FAILED`, when Compute Engine refuses a request or a poll, an
operation fails, or the plan is too large), for now (`FAILED_RETRYABLE`), or without
a record; what was done until then stays, and the next attempt resumes what is
`SUBMITTED` and nothing else. `found` and `announced` are not in the code: the stop
that a plan to start an instance was based on, and what the preview of the
notification said when a stop was planned.

In `SqliteStore` a call is a step, and of the two statements of a
`recordAction...` the second may be lost. Messages are accepted within
`MaxEventAge` of their publication; `RetentionAssumption` says that rows outlive
that. In `Sessions` an id is the number of its login; in `Dashboard` a token is
as good as the id it is for, a policy is the number of its last save and the
overview the policy it shows.

## 3. Passing runs

| Run | Instance | What it shows |
| --- | --- | --- |
| `worker_safety` | 2 workers, a stop and a recovery, 1 instance, one fault of any kind, 3 ticks, timeout 1, lease 2 | `OneHolder`, `AuditBeforeAction`, `AuditIsTrue`, `StartsOnlyOwned`, `ActsUnderLease`, that `IndInv` holds where it can be checked, and that the worker implements `EventClaims` under the mapping `Claims` |
| `worker_liveness` | 1 worker, a stop and a recovery, 2 instances, a provider fault, 3 ticks, messages that are too old after 1 | `EventuallySettled`, `SubmittedIsAudited` |
| `reconciler_safety` | 1 worker and one review, a stop and a recovery, one fault of any kind but duplicates | `StartsOnlyOwned` also with the reviews, `RecoverableWasStopped` |
| `control_cache` | 2 clients, time to live 1, deadline 1, 3 ticks, one update | `ServedIsRecent`, `RefreshReadsAgain`, `ControlInv`, and under fairness `OverviewAnswered` |
| `control_policy` | 3 clients, 3 updates with any patch, one restart with any settings, no loads | `ArmedByConsent` |
| `notifications` | 4 instances, one out of scope, 2 or all of the others managed at first, 2 notifications over 2 intervals, with a numeral and a null budget, a number with a budget and a forecast, or a blank, one edit, one failure, 2 ticks, age 0, recovery delay and cooldown 1 | `StartsInLaterInterval`, `StopsWereForetold`, `PreviewForetells`, `ShownRatioDecides`, and that `NotificationsInv` holds where it can be checked |
| `sqlite_store` | a stop and a recovery, 1 instance, retention 3, 5 ticks | the store implements `StoreContract` (`ImplementsContract`), `SettledForGood`, `StoreInv` |
| `sessions` | 2 clients, tables of 2, 3 logins, up to 5 wrong tokens remembered of a client for a limit of 2, one restart; and 5 initialize requests, 2 at a time, for a limit of 2 | `AliveWhileUsed`, `TablesBounded`, `ThrottledForCause`; `SessionsBounded`, `ReplacedWereIdle`, `SurvivorsWereLate` |
| `dashboard` | 2 requests at a time, 2 logins, one save, one lost request, one restart, 2 ticks | `TokenIsCurrent`, `SignOutHolds`, and under fairness `LoadingEnds` |

Bounds of the control plane. Two clients are a load and a refresh, or a load and
a request that shares it; three ticks let a snapshot outlive its time to live by
more than one deadline. Three updates are what it takes to arrive at automation
in execute mode step by step with another update in between; loads are left out
of that run (`MaxTime` 0) because the two halves only share the clearing.

Bounds of the notifications. Two notifications are one that stops and one that
is processed out of order, or beside it, or in the next interval; two instances of
a plan are what it takes to fail between them, and a third is one more than the
limit of two actions. Two ticks are a stop and a recovery after the delay. One edit
changes a label between a plan and its requests, or starts by hand what was
stopped. One failure ends an attempt at any of its steps, and the event is then
claimed again. A delay beyond the age is the case in which every start is of a
later interval; the other one, which the defaults are in, needs longer histories
and is covered by the theorem. Automatic recovery is enabled, so no notification of the
run ends in `NO_ACTION`; the theorems hold for both settings.
Three logins and five initialize requests are
one more than what fills a table of two and then replaces an entry twice. The
store's instance lets rows expire within its five ticks. Two requests of the page
are a load and whatever overtakes it.

Bounds of the worker. `MaxFaults` counts what goes wrong: store, provider and operation
failures, crashes, duplicates and operator actions. A kill at the timeout, an
expired lease and a redelivery after it need no fault, so one fault on top of
them already yields a redelivery that overlaps a failing attempt, and an attempt
that resumes one that died. `MaxTime` is at least 3 where a lease of 2 ticks has to run
out between two attempts and a recovery delay of 1 has to elapse; the clock then
stops, which only removes later behaviour. Two workers are what a race between
invocations needs, one instance what the record of an action needs; the loop
over several instances, the action limit and messages that are rejected for their
age are in `worker_liveness`. Workers
are symmetric and never compared or ordered, so `worker_safety` uses their
permutations; it checks no liveness. Events are not symmetric, as their decisions
differ.

Deadlock is not checked: when every message is acknowledged and the clock is at
its bound, the system rests, as the deployed one does between notifications.

Fairness (`FairSpec`). An invocation goes on (`WF` of `WorkerStep`): JavaScript
resumes it after each await, and each call has a deadline. Compute Engine ends
its operations (`WF` of `Provider`). The trigger delivers a message that is not
acknowledged (`SF` of `Delivery`, since all workers may be busy with other
messages whenever it is retried): `RETRY_POLICY_RETRY` in `main.tf`. Nothing is
assumed of faults. A message that is older than `MaxEventAge` is rejected
(`RejectStale`) and promised nothing more, so both properties of
`worker_liveness` end at that age: what was submitted then stays `SUBMITTED` for
the reconciliation. The run allows no store fault and kills only what is then too
old, because both properties fail otherwise: see `store_outage` and section 4. In
`ControlService` timers fire and updates go on (`WF` of `LoadStep` and
`UpdateStep`); time passes (`SF` of `Tick`, because other loads may be about to
end again and again); the provider need not answer at all. In `Dashboard` a
request is answered or fails (`WF` of `Serve` and `Receive`), because every call
of the control service has a deadline; nobody has to press a button.

## 4. Refuted claims

Each is a statement of the documentation; the counterexample is a behaviour of
the code. The first three are runs of the project:

| Run | Statement | What happens |
| --- | --- | --- |
| `manual_restart` | `README.md`, Recovery ownership: "Manually stopped VMs ... are not eligible for automatic restart" | the document of an older stop of the automation is still `STOP_COMPLETED` |
| `store_outage` | `docs/CRITICAL_PATH.md`, Claim: "store outage retried" | `failEvent` fails too; the redelivery meets the lease and is acknowledged as a duplicate. A kill at 540 seconds, inside the lease of 600, has the same effect |
| `save_without_token` | `docs/UI_ACTION_AUDIT.md`: Save is a "CSRF-protected PUT", and "no visible command is a placeholder" | when the request for the session fails, Retry loads the overview but never the token: every save is answered 403 |

The others have a configuration beside the runs, to be checked by hand
(`tlc -config X.cfg M`, with `M` as named):

| Configuration | Module | Statement | What happens |
| --- | --- | --- | --- |
| `ambiguity_retained` | `MCBudgetWorker` | `docs/CRITICAL_PATH.md`, Audit: "Ambiguity retained for reconciliation" | after a lost response `recordActionFailed` turns `STOP_INTENT` into `STOP_FAILED`, which `listAmbiguousInstances` does not select, and the retry settles the event |
| `cooldown_strands` | `MCBudgetWorker` | `docs/CRITICAL_PATH.md`, Submit: "Timeout remains resumable" | the cooldown another event began is checked before the pending operations are listed |
| `recovery_delay` | `MCReconciler` | `README.md`, Recovery ownership: "the recovery delay must have elapsed" | `markManagedInstance` sets `STOP_COMPLETED` and keeps the `stopCompletedAt` of an earlier stop |
| `refresh_undone` | `MCControlService` | `docs/UI_ACTION_AUDIT.md`, Refresh: "Invalidates provider cache and reloads live overview" | a load that began before the refresh ends after it and caches its older reading |
| `sign_out_undone` | `MCDashboard` | `docs/UI_ACTION_AUDIT.md`, Sign out: "immediate return to login" | a load that was served before the sign-out is answered after it and shows the dashboard again; `SignOutHolds` is what remains |
| `save_undone` | `MCDashboard` | `docs/UI_ACTION_AUDIT.md`: "immediate threshold update" | a load that was served before the save is answered after it and shows the old policy |

`StoreOutageRetried` and `TimeoutRemainsResumable` are the liveness properties
of section 3 under the faults, or with the second event, that these statements
are about.

Two more observations without a configuration. `summarizeBudget`
(`service.js:245`) sorts by a `publishTime` that no stored event has (the record
has `publishedAt`), so the "latest observed budget state" of `README.md` is the
last event that was updated, which need not be the last one published. And the
age that a notification may have is compared with no recovery delay: by
`StartsInLaterInterval` a start may be for a notification that is older than the
stop by what the age exceeds the delay, with the defaults (86400 and 3600 seconds)
almost a day. Only a delay longer than the age makes each start one for a newer
cost.

## 5. Proofs

`BudgetWorkerProofs` proves for `Spec`, that is for any number of events,
instances, workers, faults and ticks, and without fairness:

| Theorem | States |
| --- | --- |
| `Inductive` | `[]IndInv` |
| `TypeCorrect` | `[]TypeOK` |
| `Exclusion` | `[]OneHolder` |
| `Audited` | `[]AuditBeforeAction` |
| `AuditHonest` | `[]AuditIsTrue` |
| `RecoveryOwned` | `[]StartsOnlyOwned` |
| `LeasedActions` | `ActsUnderLease` |

They rest on the named assumptions of the modules: the types of the constants,
and `TimeoutAssumption`, that the lease is longer than the timeout of the
function. Without the latter `OneHolder` is false; `config.js` allows it to be
configured away (`EVENT_LEASE_SECONDS` from 30), the deployment keeps it.

None of the properties is inductive. `IndInv` adds what an invocation may rely
on at each await:

- `InvocationInv`: a live invocation has an event and is at most
  `FunctionTimeout` old.
- `ClaimInv`: while it holds the event, the event's document carries the lease
  of this very invocation (`Lock`). The one exception is an invocation that
  settled the event by a write that was reported as failed: then it is about to
  call `failEvent`. With `InvocationInv` the lease is active, so `Claimable` is
  false for everyone else (`HeldNotClaimable`), which is `OneHolder`; at
  every step of the loop it is `ActsUnderLease`.
- `AuditInv`: the documents that were written before each await of the loop
  exist, and an operation exists, or is done, where its record comes next.
- `OwnershipInv`: a document with a date of a stop, and every instance that is
  left in the loop of a recovery, has a finished stop operation. An instance may
  also get into that loop as a pending start of an earlier attempt; then its
  operation exists by `AuditIsTrue` and `StartsOnlyOwned` says the rest.

The argument is split so that each action is looked at once per question.
`WorkerStepTypes`, `WorkerStepControl`, `WorkerStepEvents` and `WorkerStepAudit`
go through the actions and reduce each to an effect (`ControlEffect`,
`EventEffect`, `AuditEffect`); `StepLock` and `StepRecords` then preserve the two
halves of the invariant, `LockInv` and `RecordInv`, from the effects alone.

`BudgetWorkerProofs` also proves that the worker implements `EventClaims`
(`WorkerImplementsClaims`, the property `ImplementsClaims`). It needs nothing
beyond `IndInv`: each case of `EventEffect` is a `Take`, a `Decide`, a `Release`
or a stutter, an event is taken only when `HeldNotClaimable` says that nobody
holds it, and `OneHolder` makes the one who lets go the only holder.

`ReconcilerProofs` proves for `ReconciledSpec`, the worker beside any number of
reviews: `ReviewTypesCorrect` (`[]ReconcilerTypeOK`), `ReviewedRecoveryOwned`
(`[]StartsOnlyOwned`) and `ReviewInventsNoStop` (`[]RecoverableWasStopped`). A
review writes long after it has read, but only the status of an ownership
document, never that of an absent one and never its date (`MarkKeepsDates`), and
`IndInv` looks at no more than that; so the worker's invariant is kept, and with
it `OwnershipInv`, which says that a date means a finished stop.

`ControlServiceProofs` proves for its `Spec`, for any number of clients, time to
live, deadline and bounds, with the assumptions on the types of the constants:
`ControlInductive` (`[]ControlInv`), and from it `ControlTypes`, `Recent`
(`[]ServedIsRecent`), `RefreshedAgain` (`[]RefreshReadsAgain`) and `Consented`
(`[]ArmedByConsent`). `CacheInv` adds that a client awaits a load in progress,
that a refresh awaits its own, and that no load is past its deadline, which
carries the age of a reading from the start of the load to its end and into
`expiresAt`. `PolicyInv` adds that the policy an update has read was not armed
without consent either, so that a stale merge cannot do what a fresh one cannot.
There is one lemma per action.

`NotificationsProofs` proves for any spend, amounts, thresholds, delays, ages,
instances and bounds, and for every order, overlap, failure and repetition of the
attempts:

| Theorem | States |
| --- | --- |
| `NotificationsInvariant` | `[]NotificationsInv` |
| `NoStaleRecovery` | `[]StartsInLaterInterval` |
| `NoSurpriseStop` | `[]StopsWereForetold` |
| `ShownRatioIsDecision` | `[]ShownRatioDecides` |
| `PreviewIsPlan` | `PreviewForetells` |

The properties relate a request to notifications, stops and previews that may lie
far back, in other attempts of the event. `NotificationsInv` is what connects them:

- notifications are published in the order of their intervals and, within one, of
  their cost (`PublishedInOrder`), and none has more cost than was spent
  (`PublishedInPast`);
- a stop that may be undone was decided on and is dated no earlier than its
  notification (`Dated`);
- an attempt began when its notification was young enough, a record is of a
  notification that parses and has its decision, and what is pending was asked for
  (`Accepted`);
- what an attempt has left to do, and whatever was ever asked for, was in a plan:
  a start because of a stop that was old enough for the notification, a stop as
  the preview had it (`Planned`). A resumed plan has only what was asked for
  before, by `Accepted`, so it adds nothing (`BuildPlanned`).

A start is then tied to the stop that its plan found, and that stop to its
notification. If the notification of the start is the later one, a smaller cost
is one of a later interval (`ReachedMonotone`); and if the delay exceeds the age,
it is the later one (`StartsLater`). No relation between delay and age is assumed.
The overview computes the threshold of a notification that parses as the policy
does, also where the amount is null, empty or missing (`ShownIsThreshold`).
`PreviewIsPlan` is about the step that plans: only `BuildPlan` takes an attempt from
its claim to its actions (`PlansByBuilding`), and for a notification that parses and
a plan within the limit the preview is what is selected (`PreviewIs`). What then
becomes of the plan, completed, failed or resumed, is `NoSurpriseStop`: no more than
was announced is stopped, though it may be less. `AttemptAlone` says that an attempt
touches only what belongs to its own event.

`SqliteStoreProofs` proves `StoreInvariant` (`[]StoreInv`), and from it that every
step of the store is a step of the contract or a stutter
(`StoreImplementsContract`), and `StoreSettledForGood`; with
`RetentionAssumption`, that rows outlive the messages they are about. Neither
`config.js` nor the schema sees to it: the retention may be 1 day, the age of a
message 30. `StoreInv` adds to the types that a row that was deleted was not
needed any more (`RetentionInv`) and how the shared date relates to the stop
(`DatesInv`).

`McpSessionsProofs` proves `McpBounded` (`[]SessionsBounded`) for every limit and
every number of overlapping requests, by induction together with the types: an
initialize request either finds room or makes it before it counts. It also proves
`McpReplacesIdle` (`[]ReplacedWereIdle`) and `McpSurvivorsLate`
(`[]SurvivorsWereLate`). `IdleInv` says that no use is dated after now, so a use
never takes a session out of those that are as recent as a replaced one, and
that a replaced session stays closed, so its own date stays (`UseKeepsIdle`); at
the replacement itself the count is that of a full table (`OldestIsIdle`).
`LateInv` says what `close` knows while it awaits: every session that is open is
one that it is about to close or one of a request that it could not see.

`SessionsProofs` proves `AuthTypes` (`[]AuthTypeOK`), `UsedSessionsLive`
(`[]AliveWhileUsed`) and `AuthTablesBounded` (`[]TablesBounded`) together, because
they need each other: a login drops sessions only when the table is full, so the
ones that stay are all newer and as many as the limit less one (`PruneMakesRoom`),
which is why the session that is dropped has that many logins after it.
`SessionsAreUsed` adds that a session in the Map expires a time to live after its
last use and has not ended.

The throttle is `AuthThrottles` (`[]ThrottledForCause`). Its two halves are about
any stretch of the wrong tokens of a client, of which the code keeps a count and
an end. `WindowHolds` relates the two: the tokens that the entry counts are the
last ones, the first of them came a `Window` before `resetAt`, and of those before
it the last `MaxFailures` had begun a `Window` earlier. A window that is over keeps
that (`ExpiredHolds`), and so do the token that begins the next one (`FirstHolds`)
and each that is counted after it (`OneMoreHolds`).
That an entry is dropped early, when the Map is full, is the one way to be
forgiven, and `failures` forgets with it.

`DashboardProofs` proves for any number of requests under way, sign-ins, saves and
losses, with `PageAssumption` on the types of the bounds: `PageTypesCorrect`
(`[]TypeOK`), `TokensCurrent` (`[]TokenIsCurrent`) and `SignOutStays`
(`[]SignOutHolds`). None is inductive; `PageInv` adds what each continuation finds:

- the token of the page is none or that of its cookie, and so is the token of
  every request that carries a cookie, because both are sent, taken and dropped
  together (`CallHolds`); hence the server rejects only requests without one;
- an answer is of the kind of its request;
- the first request of the page is alone and its cookie is the page's
  (`FirstAlone`), so that the token it brings is that of the cookie;
- after a sign-out that found nothing under way nothing is under way
  (`QuietAfterSignOut`), so that no late answer can leave the login.

It proves two more results about the page. `PageSessionsLive` is `AliveWhileUsed`
under the page's `Spec`: `ServeIsSessionStep` shows that a request, also one with
the cookie of a session that ended, is a step of `Sessions` or changes nothing,
and the lemmas of `SessionsProofs` do the rest. `LoadingAwaited` says that the
loading screen always has a request under way whose continuation takes it off,
which is `LoadingEnds` without the fairness that brings the answer.

Every safety property that a passing run checks is the statement of a theorem.
Only model-checked is liveness (`EventuallySettled`, `SubmittedIsAudited`,
`OverviewAnswered`, `LoadingEnds`), which the prover cannot do, and the refuted
claims of section 4, which have no proof. That `BudgetWorker` calls the store only
as `StoreContract` allows is neither, and is not so: a write of the worker is one
document and one await, a call of the contract is both documents, and another
invocation may write the same instance in between; and Firestore may apply a
write that it reports as failed, so that `failEvent` follows a `completeEvent`
that was applied, which the contract, written for the local store, rules out.

## 6. Not modelled

The envelopes of a message, its base64 JSON and the fingerprint (data without
control), the delays between requests, notifications (best effort, after the
audit, their failure is swallowed), logging, the HTTP client, health and support
scripts, packaging, the Windows launcher, the schema and the counts of the SQLite
store, static files and headers of the server, the presentation of the web page,
the protocol of the MCP SDK and its two read-only tools. `config.js` is read once:
its values are the constants, its ranges the assumptions. `PROJECT.json` lists
every component with the reason, and every hazard that was found, covered or not.

The definitions called "Mutant of ..." are not part of the models: each is a
plausible slip in the code that one property detects.

## 7. Plan

1. The worker's retries: what is due to the instances that a resumed plan leaves
   out, the action limit over several attempts.
2. The `BudgetWorker` over the `SqliteStore`, with the retention, instead of
   `AuditStore`.
3. A contract with one document per step, and with writes that are applied
   although they fail, that `BudgetWorker` could be shown to keep to.
