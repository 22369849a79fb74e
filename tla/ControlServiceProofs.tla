------------------------ MODULE ControlServiceProofs ------------------------
(***************************************************************************)
(* Proofs of the safety properties of ControlService, for every number of  *)
(* clients, every time to live, deadline and bound.                        *)
(***************************************************************************)
EXTENDS ControlService, TLAPS

-----------------------------------------------------------------------------
(* Types.                                                                  *)

\* What the assumptions on the constants say.
LEMMA ConstantTypes ==
  /\ Ttl \in Nat /\ ProbeTimeout \in Nat /\ MaxTime \in Nat
  /\ MaxRestarts \in Nat /\ MaxUpdates \in Nat
  /\ Inputs \subseteq Patches
  /\ None \notin Clients /\ None \notin Nat
BY NoneAssumption, TimeAssumption, BoundAssumption, InputAssumption

\* A policy is in force, whether saved or from the environment.
LEMMA EffectiveType ==
  ASSUME TypeOK
  PROVE  EffectivePolicy \in Policies
BY DEF TypeOK, EffectivePolicy, Environments

\* updatePolicy merges a policy and a patch into a policy.
LEMMA CandidateType ==
  ASSUME TypeOK, NEW c \in Clients
  PROVE  Candidate(c) \in Policies
<1> DEFINE patch == PolicyPatch(update[c].patch)
<1>1. update[c].base \in Policies /\ update[c].patch \in Patches
  BY DEF TypeOK
<1>2. patch \in Patches
  BY <1>1 DEF PolicyPatch, Patches
<1>3. patch.mode # None => patch.mode \in Modes
  BY <1>2 DEF Patches
<1>4. patch.automation # None => patch.automation \in BOOLEAN
  BY <1>2 DEF Patches
<1>5. Merge(update[c].base, patch) \in Policies
  BY <1>1, <1>3, <1>4 DEF Merge, Policies
<1> QED
  BY <1>5 DEF Candidate

-----------------------------------------------------------------------------
(* The cache.                                                              *)

\* What the policy part of the invariant depends on.
LEMMA PolicyKept ==
  ASSUME PolicyInv, ArmedByConsent, UNCHANGED <<env, policyVars>>
  PROVE  PolicyInv' /\ ArmedByConsent'
BY DEF PolicyInv, ArmedByConsent, Armed, policyVars

\* What the cache part depends on, apart from the answers.
LEMMA CacheKept ==
  ASSUME ControlInv, UNCHANGED <<clock, cacheVars>>
  PROVE  CacheInv' /\ ServedIsRecent' /\ RefreshReadsAgain'
BY DEF ControlInv, CacheInv, ServedIsRecent, RefreshReadsAgain, cacheVars

\* A request for the overview is answered from a fresh snapshot, joins a load in
\* progress, or begins one.
LEMMA OverviewKeeps ==
  ASSUME ControlInv, NEW c \in Clients, NEW refresh \in BOOLEAN, Overview(c, refresh)
  PROVE  ControlInv'
<1> DEFINE asked == [on |-> None, askedAt |-> clock, refresh |-> refresh]
<1>1. TypeOK /\ CacheInv /\ ServedIsRecent /\ RefreshReadsAgain
  BY DEF ControlInv
<1>2. clock \in Nat /\ UNCHANGED <<clock, env, policyVars, bounds>>
  BY <1>1, ConstantTypes DEF TypeOK, Overview
<1>3. PolicyInv' /\ ArmedByConsent'
  BY <1>2, PolicyKept DEF ControlInv
<1>4. load[c].phase = "none" /\ waiting[c].on = None /\ ~waiting[c].refresh
  BY <1>1, ConstantTypes DEF Overview, Idle, CacheInv, TypeOK
<1>5. CASE /\ Hit(refresh)
           /\ answer' = [answer EXCEPT ![c] = Answer(cache.value, asked)]
           /\ UNCHANGED <<cache, pending, load, waiting>>
  <2>1. cache.value \in Nat /\ cache.expiresAt \in Nat /\ ~refresh /\ clock < cache.expiresAt
    BY <1>1, <1>5 DEF Hit, TypeOK
  <2>2. cache.expiresAt <= cache.value + ProbeTimeout + Ttl
    BY <1>1, <1>5 DEF Hit, CacheInv
  <2>3. TypeOK'
    BY <1>1, <1>2, <1>5, <2>1 DEF TypeOK, Answer, policyVars
  <2>4. CacheInv'
    BY <1>1, <1>2, <1>5 DEF CacheInv
  <2>5. clock <= cache.value + Ttl + ProbeTimeout
    BY <1>2, <2>1, <2>2, ConstantTypes
  <2>6. ServedIsRecent'
    BY <1>1, <1>2, <1>5, <2>5 DEF ServedIsRecent, Answer, TypeOK
  <2>7. RefreshReadsAgain'
    BY <1>1, <1>2, <1>5, <2>1 DEF RefreshReadsAgain, Answer, TypeOK
  <2> QED
    BY <1>3, <2>3, <2>4, <2>6, <2>7 DEF ControlInv
<1>6. CASE /\ Join(refresh)
           /\ waiting' = [waiting EXCEPT ![c] = [asked EXCEPT !.on = pending]]
           /\ UNCHANGED <<cache, pending, load, answer>>
  <2>1. pending \in Clients /\ ~refresh /\ load[pending].phase # "none" /\ pending # c
    BY <1>1, <1>4, <1>6 DEF Join, TypeOK, CacheInv
  <2>2. TypeOK'
    BY <1>1, <1>2, <1>6, <2>1 DEF TypeOK, policyVars
  <2>3. CacheInv'
    BY <1>1, <1>2, <1>4, <1>6, <2>1 DEF CacheInv, TypeOK
  <2>4. ServedIsRecent' /\ RefreshReadsAgain'
    BY <1>1, <1>6 DEF ServedIsRecent, RefreshReadsAgain
  <2> QED
    BY <1>3, <2>2, <2>3, <2>4 DEF ControlInv
<1>7. CASE /\ load'    = [load EXCEPT ![c] = [phase |-> "probing", startedAt |-> clock]]
           /\ pending' = c
           /\ waiting' = [waiting EXCEPT ![c] = [asked EXCEPT !.on = c]]
           /\ UNCHANGED <<cache, answer>>
  <2>1. TypeOK'
    BY <1>1, <1>2, <1>7 DEF TypeOK, policyVars
  <2>2. CacheInv'
    BY <1>1, <1>2, <1>4, <1>7, ConstantTypes DEF CacheInv, TypeOK
  <2>3. ServedIsRecent' /\ RefreshReadsAgain'
    BY <1>1, <1>7 DEF ServedIsRecent, RefreshReadsAgain
  <2> QED
    BY <1>3, <2>1, <2>2, <2>3 DEF ControlInv
<1> QED
  BY <1>5, <1>6, <1>7 DEF Overview

\* The end of a load answers everyone who awaits it, and nobody is left with it.
LEMMA EndLoadKeeps ==
  ASSUME ControlInv, NEW c \in Clients, load[c].phase # "none", EndLoad(c)
  PROVE  ControlInv'
<1>1. TypeOK /\ CacheInv /\ ServedIsRecent /\ RefreshReadsAgain
  BY DEF ControlInv
<1>2. clock \in Nat /\ UNCHANGED <<clock, env, policyVars, bounds>>
  BY <1>1, ConstantTypes DEF TypeOK, EndLoad
<1>3. PolicyInv' /\ ArmedByConsent'
  BY <1>2, PolicyKept DEF ControlInv
<1>4. /\ load[c].startedAt \in Nat /\ waiting[c].on = c
      /\ load[c].startedAt <= clock /\ clock <= load[c].startedAt + ProbeTimeout
  BY <1>1 DEF TypeOK, CacheInv
<1>5. ASSUME NEW d \in Clients
      PROVE  /\ waiting[d].on = c => /\ waiting'[d] = NoWait
                                     /\ answer'[d] = Answer(load[c].startedAt, waiting[d])
             /\ waiting[d].on # c => waiting'[d] = waiting[d] /\ answer'[d] = answer[d]
             /\ load'[d] = IF d = c THEN NoLoad ELSE load[d]
  BY <1>1 DEF EndLoad, TypeOK
<1>6. TypeOK'
  <2>1. \A d \in Clients : Answer(load[c].startedAt, waiting[d])
                             \in [readAt : Nat, askedAt : Nat, at : Nat, refresh : BOOLEAN]
    BY <1>1, <1>2, <1>4 DEF Answer, TypeOK
  <2>2. answer' \in [Clients -> [readAt : Nat, askedAt : Nat, at : Nat, refresh : BOOLEAN]]
    BY <1>1, <2>1 DEF EndLoad, TypeOK
  <2>3. waiting' \in [Clients -> [on : Clients \cup {None}, askedAt : Nat, refresh : BOOLEAN]]
    BY <1>1 DEF EndLoad, TypeOK, NoWait
  <2>4. load' \in [Clients -> [phase : {"none", "probing", "describing"}, startedAt : Nat]]
    BY <1>1 DEF EndLoad, TypeOK, NoLoad
  <2>5. cache' \in [value : Nat \cup {None}, expiresAt : Nat] /\ pending' \in Clients \cup {None}
    BY <1>2, <1>4, ConstantTypes DEF EndLoad
  <2> QED
    BY <1>1, <1>2, <2>2, <2>3, <2>4, <2>5 DEF TypeOK, policyVars
<1>7. CacheInv'
  <2>1. cache'.value # None => cache'.expiresAt <= cache'.value + ProbeTimeout + Ttl
    BY <1>2, <1>4, ConstantTypes DEF EndLoad
  <2>2. pending' = None
    BY DEF EndLoad
  <2>3. ASSUME NEW d \in Clients, load'[d].phase # "none"
        PROVE  /\ waiting'[d].on = d /\ load'[d].startedAt <= clock'
               /\ clock' <= load'[d].startedAt + ProbeTimeout
    <3>1. d # c /\ load'[d] = load[d] /\ load[d].phase # "none"
      BY <1>5, <2>3 DEF NoLoad
    <3>2. /\ waiting[d].on = d /\ load[d].startedAt <= clock
          /\ clock <= load[d].startedAt + ProbeTimeout
      BY <1>1, <3>1 DEF CacheInv
    <3>3. waiting'[d] = waiting[d]
      BY <1>5, <3>1, <3>2
    <3> QED
      BY <1>2, <3>1, <3>2, <3>3
  <2>4. ASSUME NEW d \in Clients, waiting'[d].on # None
        PROVE  load'[waiting'[d].on].phase # "none"
    <3>1. waiting'[d] = waiting[d] /\ waiting[d].on # c /\ waiting[d].on \in Clients
      BY <1>1, <1>5, <2>4 DEF NoWait, TypeOK
    <3>2. load'[waiting[d].on] = load[waiting[d].on]
      BY <1>5, <3>1
    <3> QED
      BY <1>1, <2>4, <3>1, <3>2 DEF CacheInv
  <2>5. ASSUME NEW d \in Clients, waiting'[d].refresh
        PROVE  waiting'[d].on = d /\ waiting'[d].askedAt = load'[d].startedAt
    <3>1. waiting'[d] = waiting[d] /\ waiting[d].on # c
      BY <1>5, <2>5 DEF NoWait
    <3>2. waiting[d].on = d /\ waiting[d].askedAt = load[d].startedAt
      BY <1>1, <2>5, <3>1 DEF CacheInv
    <3> QED
      BY <1>5, <3>1, <3>2
  <2> QED
    BY <2>1, <2>2, <2>3, <2>4, <2>5 DEF CacheInv
<1>8. ServedIsRecent' /\ RefreshReadsAgain'
  <2>1. ASSUME NEW d \in Clients
        PROVE  /\ answer'[d].at <= answer'[d].readAt + Ttl + ProbeTimeout
               /\ answer'[d].refresh => answer'[d].readAt >= answer'[d].askedAt
    <3>1. CASE waiting[d].on # c
      BY <1>1, <1>5, <3>1 DEF ServedIsRecent, RefreshReadsAgain
    <3>2. CASE waiting[d].on = c
      <4>1. answer'[d] = Answer(load[c].startedAt, waiting[d])
        BY <1>5, <3>2
      <4>2. clock <= load[c].startedAt + Ttl + ProbeTimeout
        BY <1>2, <1>4, ConstantTypes
      <4>3. waiting[d].refresh => d = c /\ waiting[d].askedAt = load[c].startedAt
        BY <1>1, <3>2 DEF CacheInv
      <4>4. load[c].startedAt >= load[c].startedAt
        BY <1>4
      <4> QED
        BY <4>1, <4>2, <4>3, <4>4 DEF Answer
    <3> QED
      BY <3>1, <3>2
  <2> QED
    BY <2>1 DEF ServedIsRecent, RefreshReadsAgain
<1> QED
  BY <1>3, <1>6, <1>7, <1>8 DEF ControlInv

\* A probe that is answered leaves its load to be described.
LEMMA ProbeAnswersKeeps ==
  ASSUME ControlInv, NEW c \in Clients, ProbeAnswers(c)
  PROVE  ControlInv'
<1>1. TypeOK /\ CacheInv /\ ServedIsRecent /\ RefreshReadsAgain
  BY DEF ControlInv
<1>2. PolicyInv' /\ ArmedByConsent'
  BY PolicyKept DEF ControlInv, ProbeAnswers
<1>3. TypeOK'
  <2>1. load' \in [Clients -> [phase : {"none", "probing", "describing"}, startedAt : Nat]]
    BY <1>1 DEF TypeOK, ProbeAnswers
  <2>2. UNCHANGED <<clock, env, saved, consent, update, cache, pending, waiting, answer, bounds>>
    BY DEF ProbeAnswers, policyVars
  <2> QED
    BY <1>1, <2>1, <2>2 DEF TypeOK
<1>4. ASSUME NEW d \in Clients
      PROVE  load'[d].startedAt = load[d].startedAt
             /\ (load'[d].phase # "none" <=> load[d].phase # "none")
  BY <1>1 DEF ProbeAnswers, TypeOK
<1>5. CacheInv'
  <2>1. pending' # None => load'[pending'].phase # "none"
    BY <1>1, <1>4 DEF CacheInv, TypeOK, ProbeAnswers
  <2>2. cache'.value # None => cache'.expiresAt <= cache'.value + ProbeTimeout + Ttl
    BY <1>1 DEF CacheInv, ProbeAnswers
  <2>3. \A d \in Clients : load'[d].phase # "none" =>
           /\ waiting'[d].on = d /\ load'[d].startedAt <= clock'
           /\ clock' <= load'[d].startedAt + ProbeTimeout
    BY <1>1, <1>4 DEF CacheInv, ProbeAnswers
  <2>4. \A d \in Clients : waiting'[d].on # None => load'[waiting'[d].on].phase # "none"
    BY <1>1, <1>4 DEF CacheInv, TypeOK, ProbeAnswers
  <2>5. \A d \in Clients : waiting'[d].refresh =>
           waiting'[d].on = d /\ waiting'[d].askedAt = load'[d].startedAt
    BY <1>1, <1>4 DEF CacheInv, ProbeAnswers
  <2> QED
    BY <2>1, <2>2, <2>3, <2>4, <2>5 DEF CacheInv
<1>6. ServedIsRecent' /\ RefreshReadsAgain'
  BY <1>1 DEF ServedIsRecent, RefreshReadsAgain, ProbeAnswers
<1> QED
  BY <1>2, <1>3, <1>5, <1>6 DEF ControlInv

\* Time passes only when no load is overdue or about to end.
LEMMA TickKeeps ==
  ASSUME ControlInv, Tick
  PROVE  ControlInv'
<1>1. TypeOK /\ CacheInv /\ ServedIsRecent /\ RefreshReadsAgain
  BY DEF ControlInv
<1>2. PolicyInv' /\ ArmedByConsent'
  BY PolicyKept DEF ControlInv, Tick
<1>3. clock \in Nat /\ clock' = clock + 1 /\ clock' <= MaxTime
  BY <1>1, ConstantTypes DEF Tick, TypeOK
<1>4. TypeOK'
  BY <1>1, <1>3, ConstantTypes DEF TypeOK, Tick, policyVars, cacheVars
<1>5. ASSUME NEW c \in Clients, load[c].phase # "none"
      PROVE  load[c].startedAt <= clock + 1 /\ clock + 1 <= load[c].startedAt + ProbeTimeout
  <2>1. load[c].phase = "probing" /\ ~Overdue(c)
    BY <1>1, <1>5 DEF Tick, TypeOK
  <2>2. load[c].startedAt \in Nat /\ load[c].startedAt <= clock
    BY <1>1, <1>5 DEF TypeOK, CacheInv
  <2> QED
    BY <1>3, <2>1, <2>2, ConstantTypes DEF Overdue
<1>6. CacheInv' /\ ServedIsRecent' /\ RefreshReadsAgain'
  BY <1>1, <1>3, <1>5 DEF CacheInv, ServedIsRecent, RefreshReadsAgain, Tick, cacheVars
<1> QED
  BY <1>2, <1>4, <1>6 DEF ControlInv

-----------------------------------------------------------------------------
(* The policy.                                                             *)

\* An update starts from the policy in force.
LEMMA BeginUpdateKeeps ==
  ASSUME ControlInv, NEW c \in Clients, NEW input \in Inputs, NEW confirmed \in BOOLEAN,
         BeginUpdate(c, input, confirmed)
  PROVE  ControlInv'
<1>1. TypeOK /\ PolicyInv /\ ArmedByConsent
  BY DEF ControlInv
<1>2. EffectivePolicy \in Policies /\ (Armed(EffectivePolicy) => consent)
  BY <1>1, EffectiveType DEF EffectivePolicy, PolicyInv, ArmedByConsent
<1>3. TypeOK'
  BY <1>1, <1>2, ConstantTypes DEF TypeOK, BeginUpdate, cacheVars
<1>4. PolicyInv' /\ ArmedByConsent'
  BY <1>1, <1>2 DEF PolicyInv, ArmedByConsent, BeginUpdate, TypeOK, Armed
<1>5. CacheInv' /\ ServedIsRecent' /\ RefreshReadsAgain'
  BY CacheKept DEF BeginUpdate
<1> QED
  BY <1>3, <1>4, <1>5 DEF ControlInv

\* An armed candidate comes from an armed policy or from a consent.
LEMMA SavePolicyKeeps ==
  ASSUME ControlInv, NEW c \in Clients, SavePolicy(c)
  PROVE  ControlInv'
<1>1. TypeOK /\ PolicyInv /\ ArmedByConsent
  BY DEF ControlInv
<1>2. Candidate(c) \in Policies
  BY <1>1, CandidateType
<1>3. Armed(Candidate(c)) => Armed(update[c].base) \/ update[c].patch.automation = TRUE
  <2>1. update[c].base \in Policies /\ update[c].patch \in Patches
    BY <1>1 DEF TypeOK
  <2>2. CASE update[c].patch.mode = "execute" /\ update[c].patch.automation # TRUE
    <3>1. PolicyPatch(update[c].patch).automation = FALSE
      BY <2>1, <2>2 DEF PolicyPatch, Patches
    <3>2. Candidate(c).automation = FALSE
      BY <3>1, NoneAssumption DEF Candidate, Merge
    <3> QED
      BY <3>2 DEF Armed
  <2>3. CASE update[c].patch.mode # "execute" /\ update[c].patch.automation # TRUE
    <3>1. PolicyPatch(update[c].patch) = update[c].patch
      BY <2>3 DEF PolicyPatch
    <3>2. Candidate(c).mode = "execute" => update[c].base.mode = "execute"
      BY <2>3, <3>1 DEF Candidate, Merge
    <3>3. update[c].patch.automation = FALSE \/ update[c].patch.automation = None
      BY <2>1, <2>3 DEF Patches
    <3>4. CASE update[c].patch.automation = FALSE
      <4>1. Candidate(c).automation = FALSE
        BY <3>1, <3>4, NoneAssumption DEF Candidate, Merge
      <4> QED
        BY <4>1 DEF Armed
    <3>5. CASE update[c].patch.automation = None
      <4>1. Candidate(c).automation = update[c].base.automation
        BY <3>1, <3>5 DEF Candidate, Merge
      <4> QED
        BY <3>2, <4>1 DEF Armed
    <3> QED
      BY <3>3, <3>4, <3>5
  <2> QED
    BY <2>2, <2>3
<1>4. consent \in BOOLEAN /\ consent' \in BOOLEAN /\ (consent => consent')
  BY <1>1 DEF TypeOK, SavePolicy
<1>5. TypeOK'
  BY <1>1, <1>2, <1>4 DEF TypeOK, SavePolicy, NoUpdate, Policies, Modes, Patches, cacheVars
<1>6. Armed(Candidate(c)) => consent'
  BY <1>1, <1>3 DEF PolicyInv, SavePolicy
<1>7. PolicyInv'
  BY <1>1, <1>4 DEF PolicyInv, SavePolicy, TypeOK, NoUpdate, Armed
<1>8. ArmedByConsent'
  BY <1>6 DEF ArmedByConsent, SavePolicy, Armed
<1>9. CacheInv' /\ ServedIsRecent' /\ RefreshReadsAgain'
  BY CacheKept DEF SavePolicy
<1> QED
  BY <1>5, <1>7, <1>8, <1>9 DEF ControlInv

\* A refused update changes no policy.
LEMMA RejectUpdateKeeps ==
  ASSUME ControlInv, NEW c \in Clients, RejectUpdate(c)
  PROVE  ControlInv'
<1>1. TypeOK /\ PolicyInv /\ ArmedByConsent
  BY DEF ControlInv
<1>2. TypeOK'
  BY <1>1 DEF TypeOK, RejectUpdate, NoUpdate, Policies, Modes, Patches, cacheVars
<1>3. PolicyInv' /\ ArmedByConsent'
  BY <1>1 DEF PolicyInv, ArmedByConsent, RejectUpdate, TypeOK, NoUpdate, Armed
<1>4. CacheInv' /\ ServedIsRecent' /\ RefreshReadsAgain'
  BY CacheKept DEF RejectUpdate
<1> QED
  BY <1>2, <1>3, <1>4 DEF ControlInv

\* Clearing the cache leaves the loads and those who await them.
LEMMA FinishUpdateKeeps ==
  ASSUME ControlInv, NEW c \in Clients, FinishUpdate(c)
  PROVE  ControlInv'
<1>1. TypeOK /\ PolicyInv /\ ArmedByConsent /\ CacheInv /\ ServedIsRecent /\ RefreshReadsAgain
  BY DEF ControlInv
<1>2. TypeOK'
  BY <1>1 DEF TypeOK, FinishUpdate, NoUpdate, Policies, Modes, Patches, Empty
<1>3. PolicyInv' /\ ArmedByConsent'
  BY <1>1 DEF PolicyInv, ArmedByConsent, FinishUpdate, TypeOK, NoUpdate, Armed
<1>4. CacheInv'
  BY <1>1 DEF CacheInv, FinishUpdate, Empty
<1>5. ServedIsRecent' /\ RefreshReadsAgain'
  BY <1>1 DEF ServedIsRecent, RefreshReadsAgain, FinishUpdate
<1> QED
  BY <1>2, <1>3, <1>4, <1>5 DEF ControlInv

\* A new process knows the saved policy and nothing of the old one's requests.
LEMMA RestartKeeps ==
  ASSUME ControlInv, Restart
  PROVE  ControlInv'
<1>1. TypeOK /\ PolicyInv /\ ArmedByConsent
  BY DEF ControlInv
<1>2. consent \in BOOLEAN /\ consent' \in BOOLEAN /\ (consent => consent')
      /\ (Armed(env'.policy) => consent')
  BY <1>1 DEF TypeOK, Restart
<1>3. TypeOK'
  <2>1. env' \in Environments /\ clock' \in 0..MaxTime /\ saved' \in Policies \cup {None}
    BY <1>1 DEF TypeOK, Restart
  <2>2. bounds' \in [restarts : 0..MaxRestarts, updates : 0..MaxUpdates]
    BY <1>1, ConstantTypes DEF TypeOK, Restart
  <2>3. update' \in [Clients -> [phase : {"none", "merging", "clearing"}, base : Policies,
                                patch : Patches, confirmed : BOOLEAN]]
    BY DEF Restart, Booted, NoUpdate, Policies, Modes, Patches
  <2>4. /\ cache' \in [value : Nat \cup {None}, expiresAt : Nat]
        /\ pending' \in Clients \cup {None}
        /\ load' \in [Clients -> [phase : {"none", "probing", "describing"}, startedAt : Nat]]
        /\ waiting' \in [Clients -> [on : Clients \cup {None}, askedAt : Nat,
                                     refresh : BOOLEAN]]
        /\ answer' \in [Clients -> [readAt : Nat, askedAt : Nat, at : Nat,
                                    refresh : BOOLEAN]]
    BY DEF Restart, Booted, NoLoad, NoWait, NoAnswer, Empty
  <2> QED
    BY <1>2, <2>1, <2>2, <2>3, <2>4 DEF TypeOK
<1>4. PolicyInv'
  BY <1>2 DEF PolicyInv, Restart, Booted, NoUpdate
<1>5. ArmedByConsent'
  BY <1>1, <1>2 DEF ArmedByConsent, Restart, Armed
<1>6. CacheInv'
  BY DEF CacheInv, Restart, Booted, NoLoad, NoWait, Empty
<1>7. ServedIsRecent' /\ RefreshReadsAgain'
  BY ConstantTypes DEF ServedIsRecent, RefreshReadsAgain, Restart, Booted, NoAnswer
<1> QED
  BY <1>3, <1>4, <1>5, <1>6, <1>7 DEF ControlInv

-----------------------------------------------------------------------------
(* The theorems.                                                           *)

\* A process starts with no request, no snapshot and the environment's policy.
LEMMA InitControlInv == Init => ControlInv
<1> SUFFICES ASSUME Init PROVE ControlInv
  OBVIOUS
<1>1. TypeOK
  BY ConstantTypes DEF Init, TypeOK, NoUpdate, NoLoad, NoWait, NoAnswer, Empty, Policies,
     Modes, Patches, Armed, Environments
<1>2. PolicyInv /\ ArmedByConsent
  BY DEF Init, PolicyInv, ArmedByConsent, NoUpdate
<1>3. CacheInv
  BY DEF Init, CacheInv, NoLoad, NoWait, Empty
<1>4. ServedIsRecent /\ RefreshReadsAgain
  BY ConstantTypes DEF Init, ServedIsRecent, RefreshReadsAgain, NoAnswer
<1> QED
  BY <1>1, <1>2, <1>3, <1>4 DEF ControlInv

\* Every step of a request, of a timer and of the process keeps the invariant.
LEMMA StepControlInv == ControlInv /\ [Next]_vars => ControlInv'
<1> SUFFICES ASSUME ControlInv, [Next]_vars PROVE ControlInv'
  OBVIOUS
<1>1. ASSUME NEW c \in Clients, NEW refresh \in BOOLEAN, Overview(c, refresh)
      PROVE  ControlInv'
  BY <1>1, OverviewKeeps
<1>2. ASSUME NEW c \in Clients, ProbeAnswers(c)
      PROVE  ControlInv'
  BY <1>2, ProbeAnswersKeeps
<1>3. ASSUME NEW c \in Clients, ProbeFails(c) \/ LoadStep(c)
      PROVE  ControlInv'
  BY <1>3, EndLoadKeeps DEF ProbeFails, LoadStep, ProbeExpires, Overdue, Describe
<1>4. ASSUME NEW c \in Clients, NEW input \in Inputs, NEW confirmed \in BOOLEAN,
             BeginUpdate(c, input, confirmed)
      PROVE  ControlInv'
  BY <1>4, BeginUpdateKeeps
<1>5. ASSUME NEW c \in Clients, UpdateStep(c)
      PROVE  ControlInv'
  BY <1>5, SavePolicyKeeps, RejectUpdateKeeps, FinishUpdateKeeps DEF UpdateStep
<1>6. CASE Restart
  BY <1>6, RestartKeeps
<1>7. CASE Tick
  BY <1>7, TickKeeps
<1>8. CASE UNCHANGED vars
  <2>1. TypeOK'
    BY <1>8 DEF ControlInv, TypeOK, vars, policyVars, cacheVars
  <2>2. PolicyInv' /\ ArmedByConsent'
    BY <1>8, PolicyKept DEF ControlInv, vars
  <2>3. CacheInv' /\ ServedIsRecent' /\ RefreshReadsAgain'
    BY <1>8, CacheKept DEF vars
  <2> QED
    BY <2>1, <2>2, <2>3 DEF ControlInv
<1> QED
  BY <1>1, <1>2, <1>3, <1>4, <1>5, <1>6, <1>7, <1>8 DEF Next

\* The inductive invariant: no request finds, after an await, a load or a policy
\* other than the one it relies on.
THEOREM ControlInductive == Spec => []ControlInv
BY InitControlInv, StepControlInv, PTL DEF Spec

\* Every variable of the control plane keeps its type.
THEOREM ControlTypes == Spec => []TypeOK
<1>1. ControlInv => TypeOK
  BY DEF ControlInv
<1> QED
  BY <1>1, ControlInductive, PTL

\* createCache and withTimeout bound the age of every snapshot that is served.
THEOREM Recent == Spec => []ServedIsRecent
<1>1. ControlInv => ServedIsRecent
  BY DEF ControlInv
<1> QED
  BY <1>1, ControlInductive, PTL

\* getOverview with refresh never makes do with a reading begun before it.
THEOREM RefreshedAgain == Spec => []RefreshReadsAgain
<1>1. ControlInv => RefreshReadsAgain
  BY DEF ControlInv
<1> QED
  BY <1>1, ControlInductive, PTL

\* updatePolicy arms the saved policy only with consent, however updates
\* interleave and the process restarts.
THEOREM Consented == Spec => []ArmedByConsent
<1>1. ControlInv => ArmedByConsent
  BY DEF ControlInv
<1> QED
  BY <1>1, ControlInductive, PTL

=============================================================================
