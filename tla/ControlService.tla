--------------------------- MODULE ControlService ---------------------------
(***************************************************************************)
(* The operator control plane, src/control/service.js: the cache of the    *)
(* provider snapshot with its shared load, and the saved policy with its   *)
(* read, merge and write.  A client is an HTTP request in progress.  Each  *)
(* await is a place where the other requests may go on.                    *)
(***************************************************************************)
EXTENDS Naturals, FiniteSets

CONSTANTS
  Clients,        \* requests that can be in progress at once
  None,           \* no load, no snapshot, a field that is not given
  Ttl,            \* controlConfig.providerCacheMs, in ticks
  ProbeTimeout,   \* providerRequestTimeoutMs + 1000, in ticks
  Inputs,         \* what the updates ask for
  MaxTime,        \* bound: the clock
  MaxRestarts,    \* bound: restarts of the process
  MaxUpdates      \* bound: policy updates

Modes == {"plan", "execute"}

\* What an update may ask for; a field that is not given is None.
Patches == [mode : Modes \cup {None}, automation : BOOLEAN \cup {None}]

ASSUME NoneAssumption ==
  None \notin Clients /\ None \notin BOOLEAN /\ None \notin Modes /\ None \notin Nat
ASSUME InputAssumption == Inputs \subseteq Patches
ASSUME TimeAssumption == Ttl \in Nat \ {0} /\ ProbeTimeout \in Nat \ {0} /\ MaxTime \in Nat
ASSUME BoundAssumption == MaxRestarts \in Nat /\ MaxUpdates \in Nat

VARIABLES
  clock,
  env,        \* what the process read at its start: a policy, and whether the
              \* settings that execute mode requires are there
  saved,      \* the setting "policy" in the store; None before the first update
  consent,    \* history: automatic execution was asked for, and confirmed
  update,     \* updatePolicy in progress, per client
  cache,      \* value (the time of its reading, or None) and expiresAt
  pending,    \* the load that is shared, named after the client that began it
  load,       \* the loads in progress
  waiting,    \* the load a client awaits, and the request it came with
  answer,     \* the last snapshot a client was given
  bounds      \* restarts and updates so far

policyVars == <<saved, consent, update>>
cacheVars  == <<cache, pending, load, waiting, answer>>
vars       == <<clock, env, policyVars, cacheVars, bounds>>

-----------------------------------------------------------------------------
(* State.                                                                  *)

Policies == [mode : Modes, automation : BOOLEAN]

\* readConfig refuses execute mode without the production settings.
Environments ==
  {e \in [policy : Policies, configured : BOOLEAN] :
     e.policy.mode = "execute" => e.configured}

Armed(p) == p.mode = "execute" /\ p.automation

NoUpdate == [phase |-> "none", base |-> [mode |-> "plan", automation |-> FALSE],
             patch |-> [mode |-> None, automation |-> None], confirmed |-> FALSE]
NoLoad   == [phase |-> "none", startedAt |-> 0]
NoWait   == [on |-> None, askedAt |-> 0, refresh |-> FALSE]
NoAnswer == [readAt |-> 0, askedAt |-> 0, at |-> 0, refresh |-> FALSE]
Empty    == [value |-> None, expiresAt |-> 0]

TypeOK ==
  /\ clock \in 0..MaxTime
  /\ env \in Environments
  /\ saved \in Policies \cup {None} /\ consent \in BOOLEAN
  /\ update \in [Clients -> [phase : {"none", "merging", "clearing"}, base : Policies,
                             patch : Patches, confirmed : BOOLEAN]]
  /\ cache \in [value : Nat \cup {None}, expiresAt : Nat]
  /\ pending \in Clients \cup {None}
  /\ load \in [Clients -> [phase : {"none", "probing", "describing"}, startedAt : Nat]]
  /\ waiting \in [Clients -> [on : Clients \cup {None}, askedAt : Nat, refresh : BOOLEAN]]
  /\ answer \in [Clients -> [readAt : Nat, askedAt : Nat, at : Nat, refresh : BOOLEAN]]
  /\ bounds \in [restarts : 0..MaxRestarts, updates : 0..MaxUpdates]

\* The memory of a new process.
Booted ==
  /\ update'  = [c \in Clients |-> NoUpdate]
  /\ cache'   = Empty /\ pending' = None
  /\ load'    = [c \in Clients |-> NoLoad]
  /\ waiting' = [c \in Clients |-> NoWait]
  /\ answer'  = [c \in Clients |-> NoAnswer]

Init ==
  /\ clock = 0 /\ bounds = [restarts |-> 0, updates |-> 0]
  /\ env \in Environments
  /\ saved = None /\ consent = Armed(env.policy)
  /\ update  = [c \in Clients |-> NoUpdate]
  /\ cache   = Empty /\ pending = None
  /\ load    = [c \in Clients |-> NoLoad]
  /\ waiting = [c \in Clients |-> NoWait]
  /\ answer  = [c \in Clients |-> NoAnswer]

Idle(c) == update[c].phase = "none" /\ waiting[c].on = None

\* validateConfig: execute mode fails closed.
Valid(p) == p.mode = "execute" => env.configured

\* effectiveConfig, when it does not throw.
EffectivePolicy == IF saved = None THEN env.policy ELSE saved

-----------------------------------------------------------------------------
(* The provider snapshot.                                                  *)

\* Mutant of Hit: a snapshot is served whatever its age.
HitForever(refresh) == ~refresh /\ cache.value # None

\* A request that need not load.
Hit(refresh) == ~refresh /\ cache.value # None /\ clock < cache.expiresAt

\* Mutant of Join: a refresh, too, makes do with the load in progress.
JoinAlways(refresh) == ~Hit(refresh) /\ pending # None

\* A request that shares the load in progress.
Join(refresh) == ~Hit(refresh) /\ ~refresh /\ pending # None

\* The shape of an answer that is given now.
Answer(readAt, w) ==
  [readAt |-> readAt, askedAt |-> w.askedAt, at |-> clock, refresh |-> w.refresh]

\* The provider part of getOverview: createCache's get.  The last loads begin
\* early enough to end within the bound of the clock.
Overview(c, refresh) ==
  LET asked == [on |-> None, askedAt |-> clock, refresh |-> refresh] IN
  /\ Idle(c) /\ Valid(EffectivePolicy)
  /\ \/ /\ Hit(refresh)
        /\ answer' = [answer EXCEPT ![c] = Answer(cache.value, asked)]
        /\ UNCHANGED <<cache, pending, load, waiting>>
     \/ /\ Join(refresh)
        /\ waiting' = [waiting EXCEPT ![c] = [asked EXCEPT !.on = pending]]
        /\ UNCHANGED <<cache, pending, load, answer>>
     \/ /\ ~Hit(refresh) /\ ~Join(refresh) /\ clock + ProbeTimeout <= MaxTime
        /\ load'    = [load EXCEPT ![c] = [phase |-> "probing", startedAt |-> clock]]
        /\ pending' = c
        /\ waiting' = [waiting EXCEPT ![c] = [asked EXCEPT !.on = c]]
        /\ UNCHANGED <<cache, answer>>
  /\ UNCHANGED <<clock, env, policyVars, bounds>>

\* Mutant of EndLoad: the load stays the shared one.
EndLoadStillPending(c) ==
  /\ cache'   = [value |-> load[c].startedAt, expiresAt |-> clock + Ttl]
  /\ load'    = [load EXCEPT ![c] = NoLoad]
  /\ answer'  = [d \in Clients |-> IF waiting[d].on = c
                                   THEN Answer(load[c].startedAt, waiting[d])
                                   ELSE answer[d]]
  /\ waiting' = [d \in Clients |-> IF waiting[d].on = c THEN NoWait ELSE waiting[d]]
  /\ UNCHANGED <<clock, env, policyVars, pending, bounds>>

\* A load ends: its snapshot is cached and given to everyone who awaits it.  A
\* failure is a snapshot too.
EndLoad(c) ==
  /\ cache'   = [value |-> load[c].startedAt, expiresAt |-> clock + Ttl]
  /\ pending' = None
  /\ load'    = [load EXCEPT ![c] = NoLoad]
  /\ answer'  = [d \in Clients |-> IF waiting[d].on = c
                                   THEN Answer(load[c].startedAt, waiting[d])
                                   ELSE answer[d]]
  /\ waiting' = [d \in Clients |-> IF waiting[d].on = c THEN NoWait ELSE waiting[d]]
  /\ UNCHANGED <<clock, env, policyVars, bounds>>

\* Both provider calls answered in time.
ProbeAnswers(c) ==
  /\ load[c].phase = "probing"
  /\ load' = [load EXCEPT ![c].phase = "describing"]
  /\ UNCHANGED <<clock, env, policyVars, cache, pending, waiting, answer, bounds>>

\* A provider call failed.
ProbeFails(c) == load[c].phase = "probing" /\ EndLoad(c)

Overdue(c) == load[c].phase = "probing" /\ clock >= load[c].startedAt + ProbeTimeout

\* Mutant of ProbeExpires: a probe without a deadline.
ProbeNeverExpires(c) == FALSE /\ EndLoad(c)

\* withTimeout: the deadline ends the probe; late answers are ignored.
ProbeExpires(c) == Overdue(c) /\ EndLoad(c)

\* The second effectiveConfig, describeInstance, and the end of the load.
Describe(c) == load[c].phase = "describing" /\ EndLoad(c)

-----------------------------------------------------------------------------
(* The policy.                                                             *)

\* Mutant of PolicyPatch: only what was asked for.
PatchAsAsked(input) == input

\* policyPatch: execute mode comes without automation unless both are given.
PolicyPatch(input) ==
  IF input.mode = "execute" /\ input.automation # TRUE
  THEN [input EXCEPT !.automation = FALSE]
  ELSE input

\* Mutant of Merge: a field that is not given still replaces the current one.
MergeUngiven(base, patch) == [base EXCEPT !.mode = patch.mode, !.automation = patch.automation]

Merge(base, patch) ==
  [mode       |-> IF patch.mode = None THEN base.mode ELSE patch.mode,
   automation |-> IF patch.automation = None THEN base.automation ELSE patch.automation]

Candidate(c) == Merge(update[c].base, PolicyPatch(update[c].patch))

\* updatePolicy reads the current policy.
BeginUpdate(c, input, confirmed) ==
  /\ Idle(c) /\ Valid(EffectivePolicy) /\ bounds.updates < MaxUpdates
  /\ update' = [update EXCEPT ![c] = [phase |-> "merging", base |-> EffectivePolicy,
                                      patch |-> input, confirmed |-> confirmed]]
  /\ bounds' = [bounds EXCEPT !.updates = @ + 1]
  /\ UNCHANGED <<clock, env, saved, consent, cacheVars>>

\* The candidate passes and all of its fields are written.
SavePolicy(c) ==
  /\ update[c].phase = "merging"
  /\ Valid(Candidate(c))
  /\ Candidate(c).mode = "execute" => update[c].confirmed
  /\ saved'   = Candidate(c)
  /\ consent' = (consent \/ (Armed(Candidate(c)) /\ update[c].patch.automation = TRUE))
  /\ update'  = [update EXCEPT ![c] = [NoUpdate EXCEPT !.phase = "clearing"]]
  /\ UNCHANGED <<clock, env, cacheVars, bounds>>

\* The candidate is refused, or the store fails.
RejectUpdate(c) ==
  /\ update[c].phase = "merging"
  /\ update' = [update EXCEPT ![c] = NoUpdate]
  /\ UNCHANGED <<clock, env, saved, consent, cacheVars, bounds>>

\* The cache is cleared after the write; a load in progress is left alone.
FinishUpdate(c) ==
  /\ update[c].phase = "clearing"
  /\ update' = [update EXCEPT ![c] = NoUpdate]
  /\ cache'  = Empty
  /\ UNCHANGED <<clock, env, saved, consent, pending, load, waiting, answer, bounds>>

-----------------------------------------------------------------------------
(* The process.                                                            *)

\* The process ends in whatever state it is, and is started with the settings
\* of then.  Only the store survives.
Restart ==
  /\ bounds.restarts < MaxRestarts
  /\ bounds' = [bounds EXCEPT !.restarts = @ + 1]
  /\ env' \in Environments
  /\ consent' = (consent \/ Armed(env'.policy))
  /\ Booted
  /\ UNCHANGED <<clock, saved>>

\* Timers fire when they are due, and what needs no provider takes no time.
Tick ==
  /\ clock < MaxTime
  /\ \A c \in Clients : ~Overdue(c) /\ load[c].phase # "describing"
  /\ clock' = clock + 1
  /\ UNCHANGED <<env, policyVars, cacheVars, bounds>>

LoadStep(c)   == ProbeExpires(c) \/ Describe(c)
UpdateStep(c) == SavePolicy(c) \/ RejectUpdate(c) \/ FinishUpdate(c)

Next ==
  \/ \E c \in Clients :
       \/ \E refresh \in BOOLEAN : Overview(c, refresh)
       \/ ProbeAnswers(c) \/ ProbeFails(c) \/ LoadStep(c)
       \/ \E input \in Inputs, confirmed \in BOOLEAN : BeginUpdate(c, input, confirmed)
       \/ UpdateStep(c)
  \/ Restart
  \/ Tick

Spec == Init /\ [][Next]_vars

\* A request goes on, a timer fires, and time passes although other loads end
\* again and again.  The provider need not answer.
FairSpec ==
  Spec /\ SF_vars(Tick) /\ \A c \in Clients : WF_vars(LoadStep(c)) /\ WF_vars(UpdateStep(c))

-----------------------------------------------------------------------------
(* What a request relies on across its awaits.                             *)

\* A client awaits a load in progress, its own or one it shares, and a refresh
\* its own; a load is never past its deadline, nor a cached reading past the
\* time to live that was counted from the end of its load.
CacheInv ==
  /\ pending # None => load[pending].phase # "none"
  /\ cache.value # None => cache.expiresAt <= cache.value + ProbeTimeout + Ttl
  /\ \A c \in Clients :
       /\ load[c].phase # "none" => /\ waiting[c].on = c
                                   /\ load[c].startedAt <= clock
                                   /\ clock <= load[c].startedAt + ProbeTimeout
       /\ waiting[c].on # None => load[waiting[c].on].phase # "none"
       /\ waiting[c].refresh =>
            waiting[c].on = c /\ waiting[c].askedAt = load[c].startedAt

\* No update in progress merges into an armed policy nobody consented to.
PolicyInv ==
  /\ Armed(env.policy) => consent
  /\ \A c \in Clients : update[c].phase = "merging" /\ Armed(update[c].base) => consent

-----------------------------------------------------------------------------
(* Properties.                                                             *)

\* No snapshot is older, when it is given, than the time to live and one probe
\* together: expiresAt counts from the end of a load, its data from the start.
ServedIsRecent ==
  \A c \in Clients : answer[c].at <= answer[c].readAt + Ttl + ProbeTimeout

\* A refresh is answered with a reading that was begun for it, whatever loads
\* were in progress: get(loader, force) shares neither the value nor the load.
RefreshReadsAgain ==
  \A c \in Clients : answer[c].refresh => answer[c].readAt >= answer[c].askedAt

\* The saved policy executes automatically only after someone asked for
\* automation in execute mode, in one confirmed update, or the process was
\* started so; no merge of updates and no restart gets there otherwise.
ArmedByConsent ==
  saved # None => (Armed(saved) => consent)

\* The inductive invariant: the types, what every await of a request relies on
\* (get, updatePolicy), and the three properties above.
ControlInv ==
  /\ TypeOK /\ CacheInv /\ PolicyInv
  /\ ServedIsRecent /\ RefreshReadsAgain /\ ArmedByConsent

\* Whatever the provider does, and whoever refreshes or saves meanwhile, every
\* request for the overview is answered.
OverviewAnswered ==
  \A c \in Clients : waiting[c].on # None ~> waiting[c].on = None

=============================================================================
