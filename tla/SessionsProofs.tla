--------------------------- MODULE SessionsProofs ---------------------------
(***************************************************************************)
(* The operator sessions for any limits, time to live, clients and bounds: *)
(* what AliveWhileUsed says of the one session a request comes with rests  *)
(* on how many there are, and that on what a login leaves of them.  What   *)
(* ThrottledForCause says of any stretch of the wrong tokens of a client   *)
(* rests on where its entry in the Map began to count.                     *)
(***************************************************************************)
EXTENDS Sessions, FiniteSetTheorems, TLAPS

USE LimitAssumption, BoundAssumption

Held == {id \in Ids : sessions[id] # 0}

Attempting == {c \in Clients : attempts[c].count > 0}

\* A session in the Map was created, has not ended, and expires a time to live after
\* its last use; what has ended was created.
SessionsAreUsed ==
  /\ endedBy \subseteq 1..logins
  /\ \A id \in Held : /\ id \in 1..logins /\ id \notin endedBy
                      /\ sessions[id] = lastUse[id] + SessionTtl

\* What failures remembers of a client.
Times == {times \in Seq(1..MaxTime) : Len(times) <= MaxWrong}

Entries == [count : 0..MaxFailures, resetAt : Nat]

\* The clients with an attempt are finitely many, however many clients there are.
AuthInv ==
  /\ AuthTypeOK
  /\ SessionsAreUsed
  /\ AliveWhileUsed
  /\ Cardinality(Held) <= MaxSessions
  /\ IsFiniteSet(Attempting) /\ Cardinality(Attempting) <= MaxAttempts

-----------------------------------------------------------------------------
(* Finite sets.                                                            *)

LEMMA MaxOfTwo == ASSUME NEW n \in Int PROVE Max({0, n}) = IF n > 0 THEN n ELSE 0
<1>1. CASE n > 0
  BY <1>1 DEF Max
<1>2. CASE ~(n > 0)
  BY <1>2 DEF Max
<1> QED
  BY <1>1, <1>2

\* Any part of the ids is finite.
LEMMA FiniteIds == ASSUME NEW S \in SUBSET Ids PROVE IsFiniteSet(S) /\ Cardinality(S) \in Nat
<1>1. IsFiniteSet(Ids)
  BY FS_Interval DEF Ids
<1> QED
  BY <1>1, FS_Subset, FS_CardinalityType

-----------------------------------------------------------------------------
(* What a login leaves of the sessions.                                    *)

\* There is room for one more, and for each session that is dropped there are as many
\* newer ones as the limit, with the new one.
LEMMA PruneMakesRoom ==
  ASSUME AuthTypeOK, SessionsAreUsed, NEW gone \in SUBSET Unexpired, PruneSessions(gone)
  PROVE  /\ Cardinality(Unexpired \ gone) <= MaxSessions - 1
         /\ \A old \in gone : old + MaxSessions <= logins + 1
<1> DEFINE kept == Unexpired \ gone
           u    == Cardinality(Unexpired)
<1>1. /\ IsFiniteSet(Unexpired) /\ u \in Nat
      /\ IsFiniteSet(gone) /\ Cardinality(gone) \in Nat
      /\ IsFiniteSet(kept) /\ Cardinality(kept) \in Nat
  <2>1. Unexpired \in SUBSET Ids /\ gone \in SUBSET Ids /\ kept \in SUBSET Ids
    BY DEF Unexpired
  <2> QED
    BY <2>1, FiniteIds
<1>2. Cardinality(kept) = u - Cardinality(gone)
  <2>1. Unexpired \cap gone = gone
    OBVIOUS
  <2> QED
    BY <1>1, <2>1, FS_Difference
<1>3. Cardinality(gone) = IF u - MaxSessions + 1 > 0 THEN u - MaxSessions + 1 ELSE 0
  BY <1>1, MaxOfTwo DEF PruneSessions
<1>4. Cardinality(kept) <= MaxSessions - 1
  BY <1>1, <1>2, <1>3
<1>5. ASSUME NEW old \in gone PROVE old + MaxSessions <= logins + 1
  <2>1. Cardinality(gone) # 0
    BY <1>1, FS_EmptySet
  <2>2. Cardinality(kept) = MaxSessions - 1
    BY <1>1, <1>2, <1>3, <2>1
  <2>3. old \in 1..logins /\ logins \in Nat
    BY DEF Unexpired, Ids, SessionsAreUsed, Held, AuthTypeOK
  <2>4. kept \in SUBSET ((old + 1)..logins)
    <3>1. ASSUME NEW k \in kept PROVE k \in (old + 1)..logins
      <4>1. k \in Ids /\ sessions[k] > clock /\ k \in 1..logins
        BY DEF Unexpired, Ids, SessionsAreUsed, Held, AuthTypeOK
      <4>2. old < k
        BY DEF PruneSessions
      <4> QED
        BY <2>3, <4>1, <4>2
    <3> QED
      BY <3>1
  <2>5. /\ IsFiniteSet((old + 1)..logins)
        /\ Cardinality((old + 1)..logins) = logins - old
    BY <2>3, FS_Interval
  <2>6. Cardinality(kept) <= logins - old
    BY <2>4, <2>5, FS_Subset
  <2> QED
    BY <2>2, <2>3, <2>6
<1> QED
  BY <1>4, <1>5

-----------------------------------------------------------------------------
(* The sessions, one lemma per call.                                       *)

SessionsHold == SessionsAreUsed /\ AliveWhileUsed /\ Cardinality(Held) <= MaxSessions

LEMMA CreateTypes ==
  ASSUME AuthTypeOK, CreateSession, UNCHANGED clock
  PROVE  /\ logins' \in 0..MaxLogins /\ logins' = logins + 1
         /\ sessions' \in [Ids -> Nat] /\ lastUse' \in [Ids -> Nat] /\ endedBy' \subseteq Ids
BY DEF CreateSession, AuthTypeOK, Ids

LEMMA CreateHolds ==
  ASSUME AuthTypeOK, SessionsHold, CreateSession, UNCHANGED clock
  PROVE  SessionsHold'
<1> USE DEF SessionsHold
<1>1. PICK gone \in SUBSET Unexpired :
        /\ PruneSessions(gone)
        /\ sessions' = [id \in Ids |-> IF id = logins' THEN clock + SessionTtl
                                       ELSE IF id \in Unexpired \ gone THEN sessions[id]
                                       ELSE 0]
  BY DEF CreateSession
<1>2. /\ Cardinality(Unexpired \ gone) <= MaxSessions - 1
      /\ \A old \in gone : old + MaxSessions <= logins + 1
  BY <1>1, PruneMakesRoom
<1>3. /\ logins \in Nat /\ logins' = logins + 1 /\ logins' \in Ids /\ clock \in Nat \ {0}
      /\ lastUse' = [lastUse EXCEPT ![logins'] = clock] /\ endedBy' = endedBy /\ clock' = clock
  BY DEF CreateSession, AuthTypeOK, Ids
<1>4. Unexpired \subseteq Held /\ Held \subseteq 1..logins /\ Held \subseteq Ids
  <2>1. \A id \in Unexpired : id \in Held
    BY <1>3 DEF Unexpired, Held, AuthTypeOK
  <2>2. \A id \in Held : id \in 1..logins
    BY DEF SessionsAreUsed
  <2> QED
    BY <2>1, <2>2 DEF Held
<1>5. Held' = (Unexpired \ gone) \cup {logins'}
  <2>1. \A id \in Ids : sessions'[id] # 0 <=> id = logins' \/ id \in Unexpired \ gone
    BY <1>1, <1>3 DEF Unexpired
  <2> QED
    BY <1>3, <1>4, <2>1 DEF Held
<1>6. Cardinality(Held') <= MaxSessions
  <2>1. logins' \notin Unexpired \ gone
    BY <1>3, <1>4
  <2>2. Unexpired \ gone \in SUBSET Ids
    BY DEF Unexpired
  <2>3. IsFiniteSet(Unexpired \ gone) /\ Cardinality(Unexpired \ gone) \in Nat
    BY <2>2, FiniteIds
  <2>4. Cardinality((Unexpired \ gone) \cup {logins'}) = Cardinality(Unexpired \ gone) + 1
    BY <2>1, <2>3, FS_AddElement
  <2> QED
    BY <1>2, <1>5, <2>3, <2>4
<1>7. SessionsAreUsed'
  <2>1. endedBy' \subseteq 1..logins'
    BY <1>3 DEF SessionsAreUsed
  <2>2. ASSUME NEW id \in Held'
        PROVE  /\ id \in 1..logins' /\ id \notin endedBy'
               /\ sessions'[id] = lastUse'[id] + SessionTtl
    <3>1. CASE id = logins'
      BY <1>1, <1>3, <3>1 DEF SessionsAreUsed, AuthTypeOK
    <3>2. CASE id \in Unexpired \ gone /\ id # logins'
      BY <1>1, <1>3, <1>4, <3>2 DEF SessionsAreUsed, AuthTypeOK
    <3> QED
      BY <1>5, <2>2, <3>1, <3>2
  <2> QED
    BY <2>1, <2>2 DEF SessionsAreUsed
<1>8. AliveWhileUsed'
  <2> SUFFICES ASSUME NEW id \in 1..logins'
               PROVE  /\ Alive(id)' => id \notin endedBy' /\ lastUse'[id] + SessionTtl > clock'
                      /\ ~Alive(id)' => \/ id \in endedBy'
                                        \/ lastUse'[id] + SessionTtl <= clock'
                                        \/ id + MaxSessions <= logins'
    BY DEF AliveWhileUsed
  <2>1. id \in Ids
    BY <1>3 DEF Ids, AuthTypeOK
  <2>2. Alive(id)' => id \in Held'
    BY <1>3, <2>1 DEF Alive, Held
  <2>3. Alive(id)' => id \notin endedBy' /\ lastUse'[id] + SessionTtl > clock'
    BY <1>3, <1>7, <2>2 DEF SessionsAreUsed, Alive
  <2>4. CASE id = logins'
    BY <1>1, <1>3, <2>1, <2>3, <2>4 DEF Alive
  <2>5. CASE id # logins' /\ id \in gone
    BY <1>2, <1>3, <2>3, <2>5
  <2>6. CASE id # logins' /\ id \in Unexpired \ gone
    BY <1>1, <1>3, <2>1, <2>3, <2>6 DEF Alive, Unexpired
  <2>7. CASE id # logins' /\ id \notin Unexpired
    <3>1. id \in 1..logins /\ ~Alive(id)
      BY <1>3, <2>1, <2>7 DEF Alive, Unexpired
    <3>2. \/ id \in endedBy
          \/ lastUse[id] + SessionTtl <= clock
          \/ id + MaxSessions <= logins
      BY <3>1 DEF AliveWhileUsed
    <3>3. lastUse'[id] = lastUse[id]
      BY <1>3, <2>1, <2>7 DEF AuthTypeOK
    <3> QED
      BY <1>3, <2>3, <3>1, <3>2, <3>3
  <2> QED
    BY <2>4, <2>5, <2>6, <2>7
<1> QED
  BY <1>6, <1>7, <1>8

\* What only ends sessions and uses others keeps them within their limit.
LEMMA FewerHeld ==
  ASSUME SessionsHold, AuthTypeOK, Held' \subseteq Held
  PROVE  Cardinality(Held') <= MaxSessions
<1>1. Held \in SUBSET Ids /\ Held' \in SUBSET Held
  BY DEF Held
<1>2. IsFiniteSet(Held) /\ Cardinality(Held) \in Nat /\ IsFiniteSet(Held') /\ Cardinality(Held') \in Nat
  BY <1>1, FiniteIds
<1>3. Cardinality(Held') <= Cardinality(Held)
  BY <1>1, <1>2, FS_Subset
<1> QED
  BY <1>2, <1>3 DEF SessionsHold

LEMMA RequestHolds ==
  ASSUME AuthTypeOK, SessionsHold, NEW id \in 1..logins, Request(id)
  PROVE  /\ sessions' \in [Ids -> Nat] /\ lastUse' \in [Ids -> Nat]
         /\ SessionsHold'
<1> USE DEF SessionsHold
<1>1. /\ id \in Ids /\ logins \in Nat /\ clock \in Nat \ {0}
      /\ UNCHANGED <<clock, logins, endedBy>>
  BY DEF Request, Authenticate, AuthTypeOK, Ids
<1>2. CASE /\ Alive(id) /\ sessions' = Extended(id)
           /\ lastUse' = [lastUse EXCEPT ![id] = clock]
  <2>1. sessions' \in [Ids -> Nat] /\ lastUse' \in [Ids -> Nat]
    BY <1>1, <1>2 DEF Extended, AuthTypeOK
  <2>2. \A k \in Ids : /\ sessions'[k] = IF k = id THEN clock + SessionTtl ELSE sessions[k]
                       /\ lastUse'[k] = IF k = id THEN clock ELSE lastUse[k]
    BY <1>1, <1>2 DEF Extended, AuthTypeOK
  <2>3. Held' = Held /\ id \in Held
    <3>1. sessions[id] # 0 /\ sessions'[id] # 0
      BY <1>1, <1>2, <2>2 DEF Alive, AuthTypeOK
    <3> QED
      BY <1>1, <2>2, <3>1 DEF Held
  <2>4. SessionsAreUsed'
    BY <1>1, <2>2, <2>3 DEF SessionsAreUsed, Held
  <2>5. \A k \in 1..logins : k \in Ids
    BY DEF AuthTypeOK, Ids
  <2>6. AliveWhileUsed'
    BY <1>1, <1>2, <2>2, <2>5 DEF AliveWhileUsed, Alive
  <2> QED
    BY <2>1, <2>3, <2>4, <2>6, FewerHeld
<1>3. CASE /\ ~Alive(id) /\ UNCHANGED lastUse
           /\ sessions' = [s \in Ids |-> IF s = id THEN 0 ELSE sessions[s]]
  <2>1. sessions' \in [Ids -> Nat] /\ lastUse' \in [Ids -> Nat]
    BY <1>1, <1>3 DEF AuthTypeOK
  <2>2. \A k \in Ids : sessions'[k] = IF k = id THEN 0 ELSE sessions[k]
    BY <1>3
  <2>3. Held' = Held \ {id}
    BY <2>2 DEF Held
  <2>4. SessionsAreUsed'
    BY <1>1, <1>3, <2>2, <2>3 DEF SessionsAreUsed, Held
  <2>5. \A k \in Ids : Alive(k)' <=> Alive(k)
    BY <1>1, <1>3, <2>2 DEF Alive
  <2>6. AliveWhileUsed'
    BY <1>1, <1>3, <2>5 DEF AliveWhileUsed, AuthTypeOK, Ids
  <2> QED
    BY <2>1, <2>3, <2>4, <2>6, FewerHeld
<1> QED
  BY <1>2, <1>3 DEF Request, Authenticate

LEMMA LogoutHolds ==
  ASSUME AuthTypeOK, SessionsHold, NEW id \in 1..logins, Logout(id)
  PROVE  /\ sessions' \in [Ids -> Nat] /\ lastUse' \in [Ids -> Nat] /\ endedBy' \subseteq Ids
         /\ SessionsHold'
<1> USE DEF SessionsHold
<1>1. /\ id \in Ids /\ logins \in Nat /\ clock \in Nat \ {0}
      /\ UNCHANGED <<clock, logins>> /\ endedBy' = endedBy \cup {id}
  BY DEF Logout, EndSession, AuthTypeOK, Ids
<1>2. /\ sessions' \in [Ids -> Nat] /\ lastUse' \in [Ids -> Nat]
      /\ \A k \in Ids : /\ sessions'[k] = IF k = id THEN 0 ELSE sessions[k]
                        /\ k # id => lastUse'[k] = lastUse[k]
  BY <1>1 DEF Logout, EndSession, AuthTypeOK
<1>3. Held' = Held \ {id}
  BY <1>2 DEF Held
<1>4. SessionsAreUsed'
  <2>1. endedBy' \subseteq 1..logins'
    BY <1>1 DEF SessionsAreUsed
  <2>2. \A k \in Held' : /\ k \in 1..logins' /\ k \notin endedBy'
                         /\ sessions'[k] = lastUse'[k] + SessionTtl
    BY <1>1, <1>2, <1>3 DEF SessionsAreUsed, Held
  <2> QED
    BY <2>1, <2>2 DEF SessionsAreUsed
<1>5. \A k \in Ids : k # id => (Alive(k)' <=> Alive(k))
  BY <1>1, <1>2 DEF Alive
<1>6. ~Alive(id)'
  BY <1>1, <1>2 DEF Alive
<1>7. AliveWhileUsed'
  BY <1>1, <1>2, <1>5, <1>6 DEF AliveWhileUsed, AuthTypeOK, Ids
<1> QED
  BY <1>1, <1>2, <1>3, <1>4, <1>7, FewerHeld DEF AuthTypeOK

LEMMA RestartHolds ==
  ASSUME AuthTypeOK, SessionsHold, Restart
  PROVE  sessions' \in [Ids -> Nat] /\ endedBy' \subseteq Ids /\ SessionsHold'
<1>1. /\ sessions' = [id \in Ids |-> 0] /\ endedBy' = 1..logins
      /\ logins' = logins /\ clock' = clock /\ logins \in 0..MaxLogins /\ clock \in Nat
  BY DEF Restart, AuthTypeOK
<1>2. Held' = {}
  BY <1>1 DEF Held
<1>3. SessionsAreUsed'
  BY <1>1, <1>2 DEF SessionsAreUsed
<1>4. AliveWhileUsed'
  BY <1>1 DEF AliveWhileUsed, Alive
<1>5. Cardinality(Held') <= MaxSessions
  BY <1>2, FS_EmptySet
<1> QED
  BY <1>1, <1>3, <1>4, <1>5 DEF SessionsHold, Ids

\* Time passes: a session that expires had its last use a time to live ago.
LEMMA TickHolds == ASSUME AuthTypeOK, SessionsHold, Tick PROVE SessionsHold'
<1>1. clock' = clock + 1 /\ clock \in Nat \ {0} /\ UNCHANGED sessionVars
  BY DEF Tick, AuthTypeOK
<1>2. Held' = Held /\ SessionsAreUsed'
  BY <1>1 DEF Held, SessionsAreUsed, SessionsHold, sessionVars
<1>3. AliveWhileUsed'
  <2> SUFFICES ASSUME NEW id \in 1..logins
               PROVE  /\ Alive(id)' => id \notin endedBy /\ lastUse[id] + SessionTtl > clock'
                      /\ ~Alive(id)' => \/ id \in endedBy
                                        \/ lastUse[id] + SessionTtl <= clock'
                                        \/ id + MaxSessions <= logins
    BY <1>1 DEF AliveWhileUsed, sessionVars
  <2>1. /\ id \in Ids /\ sessions[id] \in Nat /\ lastUse[id] \in Nat
        /\ Alive(id)' <=> sessions[id] > clock + 1
        /\ Alive(id) <=> sessions[id] > clock
    BY <1>1 DEF Alive, sessionVars, AuthTypeOK, Ids
  <2>2. sessions[id] # 0 => sessions[id] = lastUse[id] + SessionTtl /\ id \notin endedBy
    BY <2>1 DEF SessionsHold, SessionsAreUsed, Held
  <2>3. ~Alive(id) => \/ id \in endedBy
                      \/ lastUse[id] + SessionTtl <= clock
                      \/ id + MaxSessions <= logins
    BY DEF SessionsHold, AliveWhileUsed
  <2> QED
    BY <1>1, <2>1, <2>2, <2>3
<1> QED
  BY <1>2, <1>3 DEF SessionsHold

-----------------------------------------------------------------------------
(* The attempts.                                                           *)

\* A login leaves no more attempts than the limit, its own among them.
LEMMA AttemptsBounded ==
  ASSUME AuthTypeOK, IsFiniteSet(Attempting), Cardinality(Attempting) <= MaxAttempts,
         NEW c \in Clients, NEW kept \in SUBSET Counted, PruneAttempts(kept),
         NEW state, NEW times, Keep(kept, c, state, times)
  PROVE  IsFiniteSet(Attempting') /\ Cardinality(Attempting') <= MaxAttempts
<1>1. Counted \subseteq Attempting
  BY DEF Counted, Attempting
<1>2. /\ IsFiniteSet(Counted) /\ Cardinality(Counted) \in Nat
      /\ Cardinality(Counted) <= MaxAttempts
  BY <1>1, FS_Subset, FS_CardinalityType
<1>3. IsFiniteSet(kept) /\ Cardinality(kept) \in Nat
  BY <1>2, FS_Subset, FS_CardinalityType
<1>4. Cardinality(kept) <= MaxAttempts - 1
  <2>1. CASE Cardinality(Counted) < MaxAttempts
    BY <1>2, <2>1 DEF PruneAttempts
  <2>2. CASE ~(Cardinality(Counted) < MaxAttempts)
    <3>1. PICK oldest \in Counted : kept = Counted \ {oldest}
      BY <2>2 DEF PruneAttempts
    <3>2. Cardinality(Counted \ {oldest}) = Cardinality(Counted) - 1
      BY <1>2, FS_RemoveElement
    <3> QED
      BY <1>2, <3>1, <3>2
  <2> QED
    BY <2>1, <2>2
<1>5. IsFiniteSet(kept \cup {c}) /\ Cardinality(kept \cup {c}) <= MaxAttempts
  BY <1>3, <1>4, FS_AddElement
<1>6. Attempting' \subseteq kept \cup {c}
  BY DEF Keep, Attempting, NoAttempt
<1>7. IsFiniteSet(Attempting') /\ Cardinality(Attempting') <= Cardinality(kept \cup {c})
  BY <1>5, <1>6, FS_Subset
<1>8. Cardinality(Attempting') \in Nat /\ Cardinality(kept \cup {c}) \in Nat
  BY <1>5, <1>7, FS_CardinalityType
<1> QED
  BY <1>5, <1>7, <1>8

LEMMA TypesOfAttempts ==
  AuthTypeOK => attempts \in [Clients -> Entries] /\ failures \in [Clients -> Times]
BY DEF AuthTypeOK, Entries, Times

\* An entry a login leaves is one of the Map, a fresh one or one counted once more.
LEMMA KeepTypes ==
  ASSUME AuthTypeOK, NEW c \in Clients, NEW kept, NEW state \in Entries, NEW times \in Times,
         Keep(kept, c, state, times)
  PROVE  attempts' \in [Clients -> Entries] /\ failures' \in [Clients -> Times]
<1>1. NoAttempt \in Entries
  BY DEF NoAttempt, Entries
<1>2. NoFailure \in Times
  BY DEF NoFailure, Times
<1>3. \A d \in Clients : FailuresOf(d, kept) \in Times
  BY <1>2, TypesOfAttempts DEF FailuresOf
<1> HIDE DEF NoAttempt, NoFailure, FailuresOf, Entries, Times
<1> QED
  BY <1>1, <1>3, TypesOfAttempts DEF Keep

LEMMA LoginStep ==
  ASSUME AuthInv, NEW c \in Clients, Login(c)
  PROVE  AuthInv'
<1> USE DEF AuthInv
<1>1. PICK kept \in SUBSET Counted :
        LET state == StateOf(c, kept)
            times == FailuresOf(c, kept)
        IN  /\ PruneAttempts(kept)
            /\ \/ /\ Limited(state)
                  /\ Keep(kept, c, state, times)
                  /\ UNCHANGED sessionVars
               \/ /\ ~Limited(state) /\ Len(times) < MaxWrong
                  /\ Keep(kept, c, [state EXCEPT !.count = @ + 1], Append(times, clock))
                  /\ UNCHANGED sessionVars
               \/ /\ ~Limited(state)
                  /\ Keep(kept, c, NoAttempt, NoFailure)
                  /\ CreateSession
  BY DEF Login
<1> DEFINE state == StateOf(c, kept)
           times == FailuresOf(c, kept)
<1>2. UNCHANGED <<clock, restarts>> /\ clock \in 1..MaxTime
  BY DEF Login, AuthTypeOK
<1>3. NoAttempt \in Entries /\ NoFailure \in Times
  BY DEF NoAttempt, NoFailure, Entries, Times
<1>4. state \in Entries
  BY DEF StateOf, Counted, AuthTypeOK, Entries
<1>5. times \in Times
  BY <1>3, TypesOfAttempts DEF FailuresOf
<1> HIDE DEF state, times
<1>6. PICK entry \in Entries, when \in Times : Keep(kept, c, entry, when)
  <2>1. CASE Keep(kept, c, state, times)
    BY <1>4, <1>5, <2>1
  <2>2. CASE /\ ~Limited(state) /\ Len(times) < MaxWrong
             /\ Keep(kept, c, [state EXCEPT !.count = @ + 1], Append(times, clock))
    <3>1. [state EXCEPT !.count = @ + 1] \in Entries
      BY <1>4, <2>2 DEF Limited, Entries
    <3>2. Append(times, clock) \in Times
      BY <1>2, <1>5, <2>2 DEF Times
    <3> QED
      BY <2>2, <3>1, <3>2
  <2>3. CASE Keep(kept, c, NoAttempt, NoFailure)
    BY <1>3, <2>3
  <2> QED
    BY <1>1, <2>1, <2>2, <2>3 DEF state, times
<1>7. /\ attempts' \in [Clients -> Entries] /\ failures' \in [Clients -> Times]
  BY <1>6, KeepTypes
<1>8. IsFiniteSet(Attempting') /\ Cardinality(Attempting') <= MaxAttempts
  BY <1>1, <1>6, AttemptsBounded
<1>9. CASE UNCHANGED sessionVars
  <2>1. AuthTypeOK'
    BY <1>2, <1>7, <1>9 DEF AuthTypeOK, sessionVars, Entries, Times
  <2>2. SessionsAreUsed' /\ AliveWhileUsed' /\ Held' = Held
    BY <1>2, <1>9 DEF SessionsAreUsed, AliveWhileUsed, Alive, Held, sessionVars
  <2> QED
    BY <1>8, <2>1, <2>2
<1>10. CASE CreateSession
  <2>1. AuthTypeOK'
    BY <1>2, <1>7, <1>10, CreateTypes DEF AuthTypeOK, Entries, Times
  <2>2. SessionsHold'
    BY <1>2, <1>10, CreateHolds DEF SessionsHold
  <2> QED
    BY <1>8, <2>1, <2>2 DEF SessionsHold
<1> QED
  BY <1>1, <1>9, <1>10

-----------------------------------------------------------------------------

LEMMA AuthInit_Inv == AuthInit => AuthInv
<1> SUFFICES ASSUME AuthInit PROVE AuthInv
  OBVIOUS
<1>1. AuthTypeOK
  BY DEF AuthInit, AuthTypeOK, NoAttempt, NoFailure
<1>2. Held = {} /\ Attempting = {}
  BY DEF AuthInit, Held, Attempting, NoAttempt
<1>3. SessionsAreUsed /\ AliveWhileUsed
  BY <1>2 DEF AuthInit, SessionsAreUsed, AliveWhileUsed
<1> QED
  BY <1>1, <1>2, <1>3, FS_EmptySet DEF AuthInv

LEMMA AuthStep == AuthInv /\ [AuthNext]_authVars => AuthInv'
<1> SUFFICES ASSUME AuthInv, [AuthNext]_authVars PROVE AuthInv'
  OBVIOUS
<1>0. AuthTypeOK /\ SessionsHold
  BY DEF AuthInv, SessionsHold
<1>1. ASSUME UNCHANGED attemptVars
      PROVE  IsFiniteSet(Attempting') /\ Cardinality(Attempting') <= MaxAttempts
  BY <1>1 DEF AuthInv, Attempting, attemptVars
<1>2. ASSUME NEW c \in Clients, Login(c) PROVE AuthInv'
  BY <1>2, LoginStep
<1>3. ASSUME NEW id \in 1..logins, Request(id) PROVE AuthInv'
  <2>1. UNCHANGED <<clock, attemptVars, restarts, logins, endedBy>>
    BY <1>3 DEF Request, Authenticate
  <2>2. AuthTypeOK' /\ SessionsHold'
    BY <1>0, <1>3, <2>1, RequestHolds DEF AuthTypeOK, attemptVars
  <2> QED
    BY <1>1, <2>1, <2>2 DEF AuthInv, SessionsHold
<1>4. ASSUME NEW id \in 1..logins, Logout(id) PROVE AuthInv'
  <2>1. UNCHANGED <<clock, attemptVars, restarts, logins>>
    BY <1>4 DEF Logout, EndSession
  <2>2. AuthTypeOK' /\ SessionsHold'
    BY <1>0, <1>4, <2>1, LogoutHolds DEF AuthTypeOK, attemptVars
  <2> QED
    BY <1>1, <2>1, <2>2 DEF AuthInv, SessionsHold
<1>5. CASE Restart
  <2>1. /\ attempts' \in [Clients -> [count : 0..MaxFailures, resetAt : Nat]]
        /\ failures' \in [Clients -> Seq(1..MaxTime)]
        /\ \A c \in Clients : Len(failures'[c]) <= MaxWrong
    BY <1>5 DEF Restart, NoAttempt, NoFailure
  <2>2. sessions' \in [Ids -> Nat] /\ endedBy' \subseteq Ids /\ SessionsHold'
    BY <1>0, <1>5, RestartHolds
  <2>3. AuthTypeOK'
    BY <1>0, <1>5, <2>1, <2>2 DEF AuthTypeOK, Restart
  <2>4. Attempting' = {}
    BY <1>5 DEF Restart, Attempting, NoAttempt
  <2> QED
    BY <2>2, <2>3, <2>4, FS_EmptySet DEF AuthInv, SessionsHold
<1>6. CASE Tick
  <2>1. AuthTypeOK'
    BY <1>0, <1>6 DEF Tick, AuthTypeOK, sessionVars, attemptVars
  <2> QED
    BY <1>0, <1>1, <1>6, <2>1, TickHolds DEF AuthInv, SessionsHold, Tick
<1>7. CASE UNCHANGED authVars
  BY <1>7 DEF AuthInv, AuthTypeOK, SessionsAreUsed, AliveWhileUsed, Alive, Held, Attempting,
              authVars, sessionVars, attemptVars
<1> QED
  BY <1>2, <1>3, <1>4, <1>5, <1>6, <1>7 DEF AuthNext

\* Types, limits and the life of each session together, by induction.
THEOREM AuthInvariant == AuthSpec => []AuthInv
BY AuthInit_Inv, AuthStep, PTL DEF AuthSpec

\* The Maps and the clock have their types, and no count passes MaxFailures (AuthTypeOK).
THEOREM AuthTypes == AuthSpec => []AuthTypeOK
<1>1. AuthInv => AuthTypeOK
  BY DEF AuthInv
<1> QED
  BY <1>1, AuthInvariant, PTL

\* A session in use is lost only to a logout, a restart or enough newer logins, and
\* none outlives its end, for any limits and any time to live (AliveWhileUsed).
THEOREM UsedSessionsLive == AuthSpec => []AliveWhileUsed
<1>1. AuthInv => AliveWhileUsed
  BY DEF AuthInv
<1> QED
  BY <1>1, AuthInvariant, PTL

\* Both Maps keep to their limits for any number of clients and logins (TablesBounded).
THEOREM AuthTablesBounded == AuthSpec => []TablesBounded
<1>1. AuthInv => TablesBounded
  BY DEF AuthInv, TablesBounded, Held, Attempting
<1> QED
  BY <1>1, AuthInvariant, PTL

-----------------------------------------------------------------------------
(* The throttle.                                                           *)

\* The wrong tokens of a client, up to now, and its entry of the Map.  Those that the
\* entry counts are the last ones, from the beginning of its window on; MaxFailures
\* and more before them began a window before that.
WindowHolds(times, entry, now) ==
  LET n == Len(times)
      c == entry.count
  IN  /\ \A j, k \in 1..n : j <= k => times[j] <= times[k]
      /\ \A k \in 1..n : times[k] <= now
      /\ \A first \in 1..n : first + 2 * MaxFailures - 1 <= n =>
           times[first + 2 * MaxFailures - 1] >= times[first] + Window
      /\ c > 0 => /\ c <= n /\ times[n - c + 1] + Window = entry.resetAt
                  /\ n - c >= MaxFailures =>
                       times[n - c - MaxFailures + 1] + Window <= times[n - c + 1]
      /\ c = 0 /\ n >= MaxFailures => times[n - MaxFailures + 1] + Window <= now

ThrottleInv == AuthInv /\ \A c \in Clients : WindowHolds(failures[c], attempts[c], clock)

\* Nothing has been counted.
LEMMA NoneHolds == ASSUME NEW now \in Nat PROVE WindowHolds(NoFailure, NoAttempt, now)
BY DEF WindowHolds, NoFailure, NoAttempt

\* Time passes.
LEMMA LaterHolds ==
  ASSUME NEW times \in Seq(Nat), NEW entry \in Entries, NEW now \in Nat, NEW later \in Nat,
         now <= later, WindowHolds(times, entry, now)
  PROVE  WindowHolds(times, entry, later)
BY DEF WindowHolds, Entries

\* A window is over, and its entry is gone from the Map.
LEMMA ExpiredHolds ==
  ASSUME NEW times \in Seq(Nat), NEW entry \in Entries, NEW now \in Nat,
         entry.count = 0 \/ entry.resetAt <= now, WindowHolds(times, entry, now),
         NEW none \in Entries, none.count = 0
  PROVE  WindowHolds(times, none, now)
<1> DEFINE n == Len(times)
           c == entry.count
<1>1. n \in Nat /\ c \in Nat /\ c <= MaxFailures /\ \A k \in 1..n : times[k] \in Nat
  BY DEF Entries
<1>2. /\ c > 0 => c <= n /\ times[n - c + 1] + Window <= now
      /\ c = 0 /\ n >= MaxFailures => times[n - MaxFailures + 1] + Window <= now
      /\ \A j, k \in 1..n : j <= k => times[j] <= times[k]
  BY DEF WindowHolds, Entries
<1> HIDE DEF n, c
<1>3. ASSUME n >= MaxFailures PROVE times[n - MaxFailures + 1] + Window <= now
  <2>1. CASE c = 0
    BY <1>2, <1>3, <2>1
  <2>2. CASE c > 0
    <3>1. c <= n /\ times[n - c + 1] + Window <= now
      BY <1>2, <2>2
    <3>2. /\ n - MaxFailures + 1 \in 1..n /\ n - c + 1 \in 1..n
          /\ n - MaxFailures + 1 <= n - c + 1
      BY <1>1, <1>3, <2>2, <3>1
    <3>3. times[n - MaxFailures + 1] <= times[n - c + 1]
      BY <1>2, <3>2
    <3>4. times[n - MaxFailures + 1] \in Nat /\ times[n - c + 1] \in Nat
      BY <1>1, <3>2
    <3> QED
      BY <3>1, <3>3, <3>4
  <2> QED
    BY <1>1, <2>1, <2>2
<1> QED
  BY <1>3 DEF WindowHolds, n

\* What is common to the two ways of counting one more.
LEMMA AppendHolds ==
  ASSUME NEW times \in Seq(Nat), NEW now \in Nat,
         \A j, k \in 1..Len(times) : j <= k => times[j] <= times[k],
         \A k \in 1..Len(times) : times[k] <= now,
         \A first \in 1..Len(times) : first + 2 * MaxFailures - 1 <= Len(times) =>
           times[first + 2 * MaxFailures - 1] >= times[first] + Window,
         Len(times) + 1 >= 2 * MaxFailures =>
           times[Len(times) - 2 * MaxFailures + 2] + Window <= now
  PROVE  LET longer == Append(times, now) IN
         /\ Len(longer) = Len(times) + 1 /\ longer[Len(longer)] = now
         /\ \A k \in 1..Len(times) : longer[k] = times[k]
         /\ \A j, k \in 1..Len(longer) : j <= k => longer[j] <= longer[k]
         /\ \A k \in 1..Len(longer) : longer[k] <= now
         /\ \A first \in 1..Len(longer) : first + 2 * MaxFailures - 1 <= Len(longer) =>
              longer[first + 2 * MaxFailures - 1] >= longer[first] + Window
<1> DEFINE longer == Append(times, now)
           n      == Len(times)
<1>1. /\ n \in Nat /\ Len(longer) = n + 1 /\ longer[n + 1] = now
      /\ \A k \in 1..n : longer[k] = times[k] /\ times[k] \in Nat
  OBVIOUS
<1>0. /\ \A j, k \in 1..n : j <= k => times[j] <= times[k]
      /\ \A k \in 1..n : times[k] <= now
      /\ \A first \in 1..n : first + 2 * MaxFailures - 1 <= n =>
           times[first + 2 * MaxFailures - 1] >= times[first] + Window
      /\ n + 1 >= 2 * MaxFailures => times[n - 2 * MaxFailures + 2] + Window <= now
  OBVIOUS
<1> HIDE DEF longer, n
<1>2. \A k \in 1..(n + 1) : k \in 1..n \/ k = n + 1
  BY <1>1
<1>3. \A j, k \in 1..(n + 1) : j <= k => longer[j] <= longer[k]
  BY <1>0, <1>1, <1>2
<1>4. \A k \in 1..(n + 1) : longer[k] <= now
  BY <1>0, <1>1, <1>2
<1>5. ASSUME NEW first \in 1..(n + 1), first + 2 * MaxFailures - 1 <= n + 1
      PROVE  longer[first + 2 * MaxFailures - 1] >= longer[first] + Window
  <2>1. first \in 1..n /\ first + 2 * MaxFailures - 1 \in 1..(n + 1)
    BY <1>1, <1>5
  <2>2. CASE first + 2 * MaxFailures - 1 <= n
    <3>1. first + 2 * MaxFailures - 1 \in 1..n
      BY <1>1, <2>1, <2>2
    <3> QED
      BY <1>0, <1>1, <2>1, <2>2, <3>1
  <2>3. CASE first + 2 * MaxFailures - 1 = n + 1
    <3>1. first = n - 2 * MaxFailures + 2 /\ n + 1 >= 2 * MaxFailures
      BY <1>1, <2>1, <2>3
    <3>2. times[first] + Window <= now
      BY <1>0, <3>1
    <3>3. longer[first] = times[first] /\ longer[first + 2 * MaxFailures - 1] = now
      BY <1>1, <2>1, <2>3
    <3> QED
      BY <1>1, <2>1, <3>2, <3>3
  <2>4. first + 2 * MaxFailures - 1 <= n \/ first + 2 * MaxFailures - 1 = n + 1
    BY <1>1, <2>1
  <2> QED
    BY <2>2, <2>3, <2>4
<1> QED
  BY <1>1, <1>3, <1>4, <1>5 DEF longer, n

\* A wrong token within the window of its entry.
LEMMA OneMoreHolds ==
  ASSUME NEW times \in Seq(Nat), NEW entry \in Entries, NEW now \in Nat,
         0 < entry.count, entry.count < MaxFailures, WindowHolds(times, entry, now)
  PROVE  WindowHolds(Append(times, now), [entry EXCEPT !.count = @ + 1], now)
<1> DEFINE n      == Len(times)
           c      == entry.count
           longer == Append(times, now)
<1>1. /\ n \in Nat /\ c \in Nat /\ c > 0 /\ c < MaxFailures /\ c <= n
      /\ \A k \in 1..n : times[k] \in Nat /\ times[k] <= now
      /\ times[n - c + 1] + Window = entry.resetAt
  BY DEF WindowHolds, Entries
<1>0. /\ \A j, k \in 1..n : j <= k => times[j] <= times[k]
      /\ n - c >= MaxFailures => times[n - c - MaxFailures + 1] + Window <= times[n - c + 1]
  BY <1>1 DEF WindowHolds
<1>10. /\ [entry EXCEPT !.count = @ + 1].count = c + 1
      /\ [entry EXCEPT !.count = @ + 1].resetAt = entry.resetAt
  BY DEF Entries
<1> HIDE DEF n, c
<1>2. ASSUME n + 1 >= 2 * MaxFailures PROVE times[n - 2 * MaxFailures + 2] + Window <= now
  <2>1. /\ n - 2 * MaxFailures + 2 \in 1..n /\ n - c - MaxFailures + 1 \in 1..n
        /\ n - c + 1 \in 1..n /\ n - c >= MaxFailures
        /\ n - 2 * MaxFailures + 2 <= n - c - MaxFailures + 1
    BY <1>1, <1>2
  <2>2. times[n - c - MaxFailures + 1] + Window <= times[n - c + 1]
    BY <1>0, <2>1
  <2>3. times[n - 2 * MaxFailures + 2] <= times[n - c - MaxFailures + 1]
    BY <1>0, <2>1
  <2>4. /\ times[n - 2 * MaxFailures + 2] \in Nat /\ times[n - c - MaxFailures + 1] \in Nat
        /\ times[n - c + 1] \in Nat /\ times[n - c + 1] <= now
    BY <1>1, <2>1
  <2> QED
    BY <2>2, <2>3, <2>4
<1>3. /\ Len(longer) = n + 1 /\ \A k \in 1..n : longer[k] = times[k]
      /\ \A j, k \in 1..Len(longer) : j <= k => longer[j] <= longer[k]
      /\ \A k \in 1..Len(longer) : longer[k] <= now
      /\ \A first \in 1..Len(longer) : first + 2 * MaxFailures - 1 <= Len(longer) =>
           longer[first + 2 * MaxFailures - 1] >= longer[first] + Window
  BY <1>2, AppendHolds DEF WindowHolds, n
<1> HIDE DEF longer
<1>4. longer[n - c + 1] + Window = entry.resetAt
  BY <1>1, <1>3
<1>5. ASSUME n - c >= MaxFailures
      PROVE  longer[n - c - MaxFailures + 1] + Window <= longer[n - c + 1]
  <2>1. n - c - MaxFailures + 1 \in 1..n /\ n - c + 1 \in 1..n
    BY <1>1, <1>5
  <2>2. times[n - c - MaxFailures + 1] + Window <= times[n - c + 1]
    BY <1>0, <1>5
  <2> QED
    BY <1>3, <2>1, <2>2
<1>6. c + 1 > 0 /\ c + 1 <= n + 1 /\ (n + 1) - (c + 1) = n - c
  BY <1>1
<1> DEFINE more == [entry EXCEPT !.count = @ + 1]
<1> HIDE DEF more
<1>7. more.count = c + 1 /\ more.resetAt = entry.resetAt
  BY <1>10 DEF more
<1>8. /\ more.count <= Len(longer) /\ more.count > 0
      /\ longer[Len(longer) - more.count + 1] + Window = more.resetAt
  BY <1>1, <1>3, <1>4, <1>6, <1>7
<1>9. ASSUME Len(longer) - more.count >= MaxFailures
      PROVE  longer[Len(longer) - more.count - MaxFailures + 1] + Window
               <= longer[Len(longer) - more.count + 1]
  BY <1>1, <1>3, <1>5, <1>6, <1>7, <1>9
<1>11. WindowHolds(longer, more, now)
  BY <1>3, <1>8, <1>9 DEF WindowHolds
<1> QED
  BY <1>11 DEF longer, more

\* A wrong token that begins a window.
LEMMA FirstHolds ==
  ASSUME NEW times \in Seq(Nat), NEW none \in Entries, none.count = 0, NEW now \in Nat,
         WindowHolds(times, none, now), none.resetAt = now + Window
  PROVE  WindowHolds(Append(times, now), [none EXCEPT !.count = @ + 1], now)
<1> DEFINE n      == Len(times)
           longer == Append(times, now)
<1>1. n \in Nat /\ \A k \in 1..n : times[k] \in Nat /\ times[k] <= now
  BY DEF WindowHolds
<1>2. n >= MaxFailures => times[n - MaxFailures + 1] + Window <= now
  BY DEF WindowHolds
<1>0. \A j, k \in 1..n : j <= k => times[j] <= times[k]
  BY DEF WindowHolds
<1> HIDE DEF n
<1>3. ASSUME n + 1 >= 2 * MaxFailures PROVE times[n - 2 * MaxFailures + 2] + Window <= now
  <2>1. /\ n - 2 * MaxFailures + 2 \in 1..n /\ n - MaxFailures + 1 \in 1..n
        /\ n - 2 * MaxFailures + 2 <= n - MaxFailures + 1 /\ n >= MaxFailures
    BY <1>1, <1>3
  <2>2. times[n - 2 * MaxFailures + 2] <= times[n - MaxFailures + 1]
    BY <1>0, <2>1
  <2>3. times[n - 2 * MaxFailures + 2] \in Nat /\ times[n - MaxFailures + 1] \in Nat
    BY <1>1, <2>1
  <2> QED
    BY <1>2, <2>1, <2>2, <2>3
<1>4. /\ Len(longer) = n + 1 /\ longer[n + 1] = now /\ \A k \in 1..n : longer[k] = times[k]
      /\ \A j, k \in 1..Len(longer) : j <= k => longer[j] <= longer[k]
      /\ \A k \in 1..Len(longer) : longer[k] <= now
      /\ \A first \in 1..Len(longer) : first + 2 * MaxFailures - 1 <= Len(longer) =>
           longer[first + 2 * MaxFailures - 1] >= longer[first] + Window
  BY <1>3, AppendHolds DEF WindowHolds, n
<1> HIDE DEF longer
<1>5. ASSUME n >= MaxFailures PROVE longer[n - MaxFailures + 1] + Window <= longer[n + 1]
  <2>1. n - MaxFailures + 1 \in 1..n
    BY <1>1, <1>5
  <2> QED
    BY <1>2, <1>4, <1>5, <2>1
<1>6. /\ [none EXCEPT !.count = @ + 1].count = 1
      /\ [none EXCEPT !.count = @ + 1].resetAt = now + Window
  BY DEF Entries
<1>8. (n + 1) - 1 = n /\ n - 1 + 1 = n /\ (n + 1) - 1 + 1 = n + 1 /\ 1 <= n + 1
  BY <1>1
<1>7. WindowHolds(longer, [none EXCEPT !.count = @ + 1], now)
  BY <1>1, <1>4, <1>5, <1>6, <1>8 DEF WindowHolds
<1> QED
  BY <1>7 DEF longer

\* What the login of another client, or the end of its window, leaves of a client.
LEMMA OthersHold ==
  ASSUME ThrottleInv, NEW kept \in SUBSET Counted, NEW d \in Clients, d \notin kept,
         NEW none \in Entries, none.count = 0
  PROVE  WindowHolds(FailuresOf(d, kept), none, clock)
<1>1. /\ attempts[d] \in Entries /\ failures[d] \in Seq(Nat) /\ clock \in Nat
      /\ WindowHolds(failures[d], attempts[d], clock)
  BY DEF ThrottleInv, AuthInv, AuthTypeOK, Entries
<1>2. CASE d \in Counted
  BY <1>1, <1>2 DEF FailuresOf, NoFailure, WindowHolds
<1>3. CASE d \notin Counted
  <2>1. attempts[d].count = 0 \/ attempts[d].resetAt <= clock
    BY <1>1, <1>3 DEF Counted, Entries
  <2> QED
    BY <1>1, <1>3, <2>1, ExpiredHolds DEF FailuresOf
<1> QED
  BY <1>2, <1>3

\* A login keeps it, for its own client and for the others.
LEMMA LoginThrottles ==
  ASSUME ThrottleInv, NEW c \in Clients, Login(c)
  PROVE  \A d \in Clients : WindowHolds(failures[d], attempts[d], clock)'
<1>1. PICK kept \in SUBSET Counted :
        LET state == StateOf(c, kept)
            times == FailuresOf(c, kept)
        IN  /\ PruneAttempts(kept)
            /\ \/ /\ Limited(state)
                  /\ Keep(kept, c, state, times)
                  /\ UNCHANGED sessionVars
               \/ /\ ~Limited(state) /\ Len(times) < MaxWrong
                  /\ Keep(kept, c, [state EXCEPT !.count = @ + 1], Append(times, clock))
                  /\ UNCHANGED sessionVars
               \/ /\ ~Limited(state)
                  /\ Keep(kept, c, NoAttempt, NoFailure)
                  /\ CreateSession
  BY DEF Login
<1> DEFINE state == StateOf(c, kept)
           times == FailuresOf(c, kept)
<1>2. clock \in Nat /\ clock' = clock
  BY DEF Login, ThrottleInv, AuthInv, AuthTypeOK
<1>3. NoAttempt \in Entries /\ NoAttempt.count = 0
  BY DEF NoAttempt, Entries
<1>4. /\ c \in kept  => state = attempts[c] /\ times = failures[c]
      /\ c \notin kept => state = [count |-> 0, resetAt |-> clock + Window]
  BY DEF StateOf, FailuresOf
<1>5. attempts[c] \in Entries /\ failures[c] \in Seq(Nat)
  BY DEF ThrottleInv, AuthInv, AuthTypeOK, Entries
<1>6. state \in Entries /\ times \in Seq(Nat)
  <2>1. NoFailure \in Seq(Nat) /\ [count |-> 0, resetAt |-> clock + Window] \in Entries
    BY <1>2 DEF NoFailure, Entries
  <2> QED
    BY <1>4, <1>5, <2>1 DEF FailuresOf
<1>7. WindowHolds(times, state, clock)
  <2>1. CASE c \in kept
    BY <1>4, <2>1 DEF ThrottleInv
  <2>2. CASE c \notin kept
    <3>1. state.count = 0
      BY <1>4, <2>2
    <3> QED
      BY <1>6, <2>2, <3>1, OthersHold
  <2> QED
    BY <2>1, <2>2
<1>8. c \in kept => state.count > 0
  BY <1>4, <1>5 DEF Counted, Entries
<1>9. ~Limited(state) => WindowHolds(Append(times, clock), [state EXCEPT !.count = @ + 1], clock)
  <2> SUFFICES ASSUME state.count < MaxFailures
               PROVE  WindowHolds(Append(times, clock), [state EXCEPT !.count = @ + 1], clock)
    BY <1>6 DEF Limited, Entries
  <2>1. CASE c \in kept
    BY <1>2, <1>6, <1>7, <1>8, <2>1, OneMoreHolds
  <2>2. CASE c \notin kept
    BY <1>2, <1>4, <1>6, <1>7, <2>2, FirstHolds
  <2> QED
    BY <2>1, <2>2
<1> HIDE DEF state, times
<1>10. PICK entry, when : Keep(kept, c, entry, when) /\ WindowHolds(when, entry, clock)
  <2>1. WindowHolds(NoFailure, NoAttempt, clock)
    BY <1>2, NoneHolds
  <2> QED
    BY <1>1, <1>7, <1>9, <2>1 DEF state, times
<1> SUFFICES ASSUME NEW d \in Clients PROVE WindowHolds(failures'[d], attempts'[d], clock)
  BY <1>2
<1>11. CASE d = c
  BY <1>10, <1>11 DEF Keep
<1>12. CASE d # c /\ d \in kept
  <2>1. failures'[d] = failures[d] /\ attempts'[d] = attempts[d]
    BY <1>10, <1>12 DEF Keep, FailuresOf
  <2> QED
    BY <2>1 DEF ThrottleInv
<1>13. CASE d # c /\ d \notin kept
  <2>1. failures'[d] = FailuresOf(d, kept) /\ attempts'[d] = NoAttempt
    BY <1>10, <1>13 DEF Keep
  <2> QED
    BY <1>3, <1>13, <2>1, OthersHold
<1> QED
  BY <1>11, <1>12, <1>13

LEMMA ThrottleStep == ThrottleInv /\ [AuthNext]_authVars => ThrottleInv'
<1> SUFFICES ASSUME ThrottleInv, [AuthNext]_authVars PROVE ThrottleInv'
  OBVIOUS
<1>1. AuthInv'
  BY AuthStep DEF ThrottleInv
<1>2. ASSUME NEW c \in Clients, Login(c) PROVE ThrottleInv'
  BY <1>1, <1>2, LoginThrottles DEF ThrottleInv
<1>3. CASE Restart
  <2>1. /\ clock' \in Nat
        /\ \A c \in Clients : failures'[c] = NoFailure /\ attempts'[c] = NoAttempt
    BY <1>3 DEF Restart, ThrottleInv, AuthInv, AuthTypeOK
  <2> QED
    BY <1>1, <2>1, NoneHolds DEF ThrottleInv
<1>4. CASE UNCHANGED attemptVars /\ clock' \in {clock, clock + 1}
  <2> SUFFICES ASSUME NEW c \in Clients PROVE WindowHolds(failures[c], attempts[c], clock')
    BY <1>1, <1>4 DEF ThrottleInv, attemptVars
  <2>1. /\ attempts[c] \in Entries /\ failures[c] \in Seq(Nat) /\ clock \in Nat /\ clock' \in Nat
        /\ WindowHolds(failures[c], attempts[c], clock) /\ clock <= clock'
    BY <1>4 DEF ThrottleInv, AuthInv, AuthTypeOK, Entries
  <2> QED
    BY <2>1, LaterHolds
<1> QED
  BY <1>2, <1>3, <1>4 DEF AuthNext, Request, Logout, Tick, authVars

\* The entry of every client counts the last of its wrong tokens, and its windows
\* do not overlap (ThrottleInv).
THEOREM ThrottleInvariant == AuthSpec => []ThrottleInv
<1>1. AuthInit => ThrottleInv
  <2> SUFFICES ASSUME AuthInit PROVE ThrottleInv
    OBVIOUS
  <2>1. clock \in Nat /\ \A c \in Clients : failures[c] = NoFailure /\ attempts[c] = NoAttempt
    BY DEF AuthInit
  <2> QED
    BY <2>1, AuthInit_Inv, NoneHolds DEF ThrottleInv
<1> QED
  BY <1>1, ThrottleStep, PTL DEF AuthSpec

\* For every window and limit a client is turned away only for as many wrong tokens of
\* its own within the window, and twice as many take longer than one, whatever the
\* other clients do and whatever is pruned (ThrottledForCause).
THEOREM AuthThrottles == AuthSpec => []ThrottledForCause
<1>1. ThrottleInv => ThrottledForCause
  <2> SUFFICES ASSUME ThrottleInv, NEW c \in Clients
               PROVE  LET times == failures[c]
                          n     == Len(times)
                      IN  /\ c \in Counted /\ Limited(attempts[c]) =>
                               n >= MaxFailures /\ times[n - MaxFailures + 1] > clock - Window
                          /\ \A first \in 1..n : first + 2 * MaxFailures - 1 <= n =>
                               times[first + 2 * MaxFailures - 1] >= times[first] + Window
    BY DEF ThrottledForCause
  <2> DEFINE n == Len(failures[c])
  <2>1. /\ attempts[c] \in Entries /\ failures[c] \in Seq(Nat) /\ clock \in Nat
        /\ WindowHolds(failures[c], attempts[c], clock)
    BY DEF ThrottleInv, AuthInv, AuthTypeOK, Entries
  <2>2. ASSUME c \in Counted, Limited(attempts[c])
        PROVE  n >= MaxFailures /\ failures[c][n - MaxFailures + 1] > clock - Window
    <3>1. /\ attempts[c].count = MaxFailures /\ attempts[c].resetAt > clock
          /\ attempts[c].resetAt \in Nat
      BY <2>1, <2>2 DEF Counted, Limited, Entries
    <3>2. n >= MaxFailures /\ failures[c][n - MaxFailures + 1] + Window = attempts[c].resetAt
      BY <2>1, <3>1 DEF WindowHolds
    <3> DEFINE first == failures[c][n - MaxFailures + 1]
    <3>3. n \in Nat /\ \A k \in 1..n : failures[c][k] \in Nat
      BY <2>1
    <3> HIDE DEF n
    <3>4. n - MaxFailures + 1 \in 1..n
      BY <3>2, <3>3
    <3>5. first \in Nat /\ clock \in Nat
      BY <2>1, <3>3, <3>4
    <3>6. first + Window > clock
      BY <3>1, <3>2
    <3> HIDE DEF first
    <3>7. first > clock - Window
      BY <3>5, <3>6
    <3> QED
      BY <3>2, <3>7 DEF first
  <2> QED
    BY <2>1, <2>2 DEF WindowHolds
<1> QED
  BY <1>1, ThrottleInvariant, PTL

=============================================================================
