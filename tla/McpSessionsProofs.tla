-------------------------- MODULE McpSessionsProofs --------------------------
(***************************************************************************)
(* The bound on the connector's sessions, for every limit and every number *)
(* of overlapping requests; who makes room; and what close() leaves open.  *)
(* Each of the three is inductive together with the types.                 *)
(***************************************************************************)
EXTENDS McpSessions, FiniteSetTheorems, TLAPS

McpInv == McpTypeOK /\ SessionsBounded

\* The sessions and the requests under way are finite sets.
LEMMA Finite ==
  /\ IsFiniteSet(Listed) /\ Cardinality(Listed) \in Nat
  /\ IsFiniteSet(Connecting) /\ Cardinality(Connecting) \in Nat
<1>1. IsFiniteSet(Transports)
  BY McpAssumption, FS_Interval DEF Transports
<1>2. Listed \subseteq Transports /\ Connecting \subseteq Transports
  BY DEF Listed, Connecting, In
<1> QED
  BY <1>1, <1>2, FS_Subset, FS_CardinalityType

\* The type invariant (McpTypeOK) is kept by every action.
LEMMA McpTypeStep == McpTypeOK /\ [McpNext]_mcpVars => McpTypeOK'
<1> SUFFICES ASSUME McpTypeOK, [McpNext]_mcpVars PROVE McpTypeOK'
  OBVIOUS
<1> USE McpAssumption DEF McpTypeOK
<1>1. ASSUME NEW t \in Transports, Initialize(t) PROVE McpTypeOK'
  BY <1>1 DEF Initialize, Oldest, Listed, In
<1>2. ASSUME NEW t \in Transports, SessionInitialized(t) PROVE McpTypeOK'
  BY <1>2 DEF SessionInitialized
<1>3. ASSUME NEW t \in Transports, InitializeRefused(t) PROVE McpTypeOK'
  BY <1>3 DEF InitializeRefused
<1>4. ASSUME NEW t \in Transports, Use(t) PROVE McpTypeOK'
  BY <1>4 DEF Use
<1>5. ASSUME NEW t \in Transports, EndedByClient(t) PROVE McpTypeOK'
  BY <1>5 DEF EndedByClient
<1>6. ASSUME NEW t \in Transports, CloseSession(t) PROVE McpTypeOK'
  BY <1>6 DEF CloseSession
<1>7. CASE BeginClose
  BY <1>7 DEF BeginClose, Listed, Connecting, In
<1>8. CASE EndClose
  BY <1>8 DEF EndClose
<1>9. CASE McpTick
  BY <1>9 DEF McpTick
<1>10. CASE UNCHANGED mcpVars
  BY <1>10 DEF mcpVars
<1> QED
  BY <1>1, <1>2, <1>3, <1>4, <1>5, <1>6, <1>7, <1>8, <1>9, <1>10 DEF McpNext

\* An initialize request passes the limit by no more than the overlap: it makes room
\* for itself, or there is room for it.
LEMMA InitializeBounded ==
  ASSUME McpInv, NEW t \in Transports, Initialize(t)
  PROVE  SessionsBounded'
<1> USE McpAssumption, Finite DEF McpInv, McpTypeOK, SessionsBounded
<1>1. t \notin Connecting /\ t \notin Listed /\ Cardinality(Connecting) < MaxConnecting
  BY DEF Initialize, Connecting, Listed, In
<1>2. Cardinality(Connecting \cup {t}) = Cardinality(Connecting) + 1
  BY <1>1, FS_AddElement
<1>3. CASE ~NoRoom /\ transport' = [transport EXCEPT ![t] = "connecting"]
  <2>1. Listed' = Listed /\ Connecting' = Connecting \cup {t}
    BY <1>1, <1>3 DEF Listed, Connecting, In
  <2>2. Cardinality(Listed) <= MaxMcpSessions - 1
    BY <1>3 DEF NoRoom
  <2> QED
    BY <1>1, <1>2, <2>1, <2>2
<1>4. ASSUME NEW old \in Oldest,
             transport' = [transport EXCEPT ![t] = "connecting", ![old] = "closed"]
      PROVE  SessionsBounded'
  <2>1. old \in Listed /\ old # t
    BY <1>1 DEF Oldest
  <2>2. Listed' = Listed \ {old} /\ Connecting' = Connecting \cup {t}
    BY <1>1, <1>4, <2>1 DEF Listed, Connecting, In
  <2>3. Cardinality(Listed \ {old}) = Cardinality(Listed) - 1
    BY <2>1, FS_RemoveElement
  <2> QED
    BY <1>2, <2>2, <2>3
<1> QED
  BY <1>3, <1>4 DEF Initialize

\* A step in which a transport only moves from the requests under way to the sessions,
\* or out of both, keeps the bound.
LEMMA LeavingBounded ==
  ASSUME McpInv, NEW t \in Transports, transport[t] \in {"connecting", "listed"},
         NEW s \in {"listed", "closed"}, transport' = [transport EXCEPT ![t] = s]
  PROVE  SessionsBounded'
<1> USE Finite DEF McpInv, McpTypeOK, SessionsBounded
<1>1. CASE transport[t] = "connecting" /\ s = "listed"
  <2>1. Listed' = Listed \cup {t} /\ Connecting' = Connecting \ {t}
    BY <1>1 DEF Listed, Connecting, In
  <2>2. t \in Connecting /\ t \notin Listed
    BY <1>1 DEF Listed, Connecting, In
  <2>3. Cardinality(Listed \cup {t}) = Cardinality(Listed) + 1
    BY <2>2, FS_AddElement
  <2>4. Cardinality(Connecting \ {t}) = Cardinality(Connecting) - 1
    BY <2>2, FS_RemoveElement
  <2> QED
    BY <2>1, <2>3, <2>4
<1>2. CASE transport[t] = "connecting" /\ s = "closed"
  <2>1. Listed' = Listed /\ Connecting' = Connecting \ {t} /\ t \in Connecting
    BY <1>2 DEF Listed, Connecting, In
  <2>2. Cardinality(Connecting \ {t}) = Cardinality(Connecting) - 1
    BY <2>1, FS_RemoveElement
  <2> QED
    BY <2>1, <2>2, McpAssumption
<1>3. CASE transport[t] = "listed" /\ s = "listed"
  <2>1. Listed' = Listed /\ Connecting' = Connecting
    BY <1>3 DEF Listed, Connecting, In
  <2> QED
    BY <2>1
<1>4. CASE transport[t] = "listed" /\ s = "closed"
  <2>1. Listed' = Listed \ {t} /\ Connecting' = Connecting /\ t \in Listed
    BY <1>4 DEF Listed, Connecting, In
  <2>2. Cardinality(Listed \ {t}) = Cardinality(Listed) - 1
    BY <2>1, FS_RemoveElement
  <2> QED
    BY <2>1, <2>2, McpAssumption
<1> QED
  BY <1>1, <1>2, <1>3, <1>4

\* CloseSession closes a transport whatever its state has become.
LEMMA ClosingBounded ==
  ASSUME McpInv, NEW t \in Transports, transport' = [transport EXCEPT ![t] = "closed"]
  PROVE  SessionsBounded'
<1>1. CASE transport[t] \in {"connecting", "listed"}
  BY <1>1, LeavingBounded
<1>2. CASE transport[t] \notin {"connecting", "listed"}
  <2>1. Listed' = Listed /\ Connecting' = Connecting
    BY <1>2 DEF McpInv, McpTypeOK, Listed, Connecting, In
  <2> QED
    BY <2>1 DEF McpInv, SessionsBounded
<1> QED
  BY <1>1, <1>2

\* The bound (SessionsBounded) is kept by every action.
LEMMA McpBoundStep == McpInv /\ [McpNext]_mcpVars => SessionsBounded'
<1> SUFFICES ASSUME McpInv, [McpNext]_mcpVars PROVE SessionsBounded'
  OBVIOUS
<1>1. ASSUME NEW t \in Transports, Initialize(t) PROVE SessionsBounded'
  BY <1>1, InitializeBounded
<1>2. ASSUME NEW t \in Transports, SessionInitialized(t) PROVE SessionsBounded'
  BY <1>2, LeavingBounded DEF SessionInitialized
<1>3. ASSUME NEW t \in Transports,
             InitializeRefused(t) \/ EndedByClient(t) \/ CloseSession(t)
      PROVE  SessionsBounded'
  BY <1>3, ClosingBounded DEF InitializeRefused, EndedByClient, CloseSession
<1>4. CASE EndClose
  <2>1. Listed' = {} /\ Connecting' = Connecting
    BY <1>4 DEF EndClose, McpInv, McpTypeOK, Listed, Connecting, In
  <2>2. Cardinality(Listed') = 0
    BY <2>1, FS_EmptySet
  <2> QED
    BY <2>1, <2>2, Finite, McpAssumption DEF McpInv, SessionsBounded
<1>5. ASSUME transport' = transport PROVE SessionsBounded'
  BY <1>5 DEF McpInv, SessionsBounded, Listed, Connecting, In
<1> QED
  BY <1>1, <1>2, <1>3, <1>4, <1>5 DEF McpNext, mcpVars, Use, BeginClose, McpTick

\* For every limit and every overlap, the sessions of the connector and the requests
\* for one are together fewer than the limit and the overlap (handle, close).
THEOREM McpBounded == McpSpec => []SessionsBounded
<1>1. McpInit => McpInv
  <2> SUFFICES ASSUME McpInit PROVE McpInv
    OBVIOUS
  <2>1. McpTypeOK
    BY DEF McpInit, McpTypeOK
  <2>2. Listed = {} /\ Connecting = {}
    BY DEF McpInit, Listed, Connecting, In
  <2> QED
    BY <2>1, <2>2, FS_EmptySet, McpAssumption DEF McpInv, SessionsBounded
<1>2. McpInv /\ [McpNext]_mcpVars => McpInv'
  BY McpTypeStep, McpBoundStep DEF McpInv
<1>3. McpInv => SessionsBounded
  BY DEF McpInv
<1> QED
  BY <1>1, <1>2, <1>3, PTL DEF McpSpec

\* The type invariant alone (McpTypeOK).
LEMMA McpTypeInit == McpInit => McpTypeOK
BY DEF McpInit, McpTypeOK

-----------------------------------------------------------------------------
(* Who makes room.                                                         *)

\* The transports other than old that were used no earlier than it.
AsRecent(old) == {t \in Transports \ {old} : touchedAt[t] >= touchedAt[old]}

\* A session that made room is closed, so it is never used again; no use is of the
\* future, so every later use is no earlier than its own.
IdleInv ==
  /\ McpTypeOK
  /\ \A t \in Transports : touchedAt[t] <= mcpClock
  /\ \A old \in replaced :
       transport[old] = "closed" /\ Cardinality(AsRecent(old)) >= MaxMcpSessions - 1

LEMMA RecentFinite ==
  ASSUME NEW old PROVE IsFiniteSet(AsRecent(old)) /\ Cardinality(AsRecent(old)) \in Nat
<1>1. IsFiniteSet(Transports) /\ AsRecent(old) \subseteq Transports
  BY McpAssumption, FS_Interval DEF Transports, AsRecent
<1> QED
  BY <1>1, FS_Subset, FS_CardinalityType

\* As long as the others are only used more and old is not, no fewer are as recent.
LEMMA RecentGrows ==
  ASSUME McpTypeOK, McpTypeOK', NEW old \in Transports, touchedAt'[old] = touchedAt[old],
         \A t \in Transports : touchedAt'[t] >= touchedAt[t]
  PROVE  Cardinality(AsRecent(old)') >= Cardinality(AsRecent(old))
<1>1. AsRecent(old) \subseteq AsRecent(old)'
  BY DEF AsRecent, McpTypeOK
<1>2. IsFiniteSet(AsRecent(old)')
  <2>1. IsFiniteSet(Transports) /\ AsRecent(old)' \subseteq Transports
    BY McpAssumption, FS_Interval DEF Transports, AsRecent
  <2> QED
    BY <2>1, FS_Subset
<1> QED
  BY <1>1, <1>2, FS_Subset

\* A step that uses at most sessions that are not closed, at the time of the clock, and
\* replaces none, keeps what was replaced where it is.
LEMMA UseKeepsIdle ==
  ASSUME IdleInv, McpTypeOK', UNCHANGED replaced, mcpClock' >= mcpClock,
         \A t \in Transports : touchedAt'[t] \in {touchedAt[t], mcpClock},
         \A t \in Transports : transport[t] = "closed" =>
           transport'[t] = "closed" /\ touchedAt'[t] = touchedAt[t]
  PROVE  IdleInv'
<1>1. /\ \A t \in Transports : touchedAt'[t] <= mcpClock'
      /\ \A t \in Transports : touchedAt'[t] >= touchedAt[t]
  BY DEF IdleInv, McpTypeOK
<1>2. ASSUME NEW old \in replaced
      PROVE  transport'[old] = "closed" /\ Cardinality(AsRecent(old)') >= MaxMcpSessions - 1
  <2>1. old \in Transports /\ transport[old] = "closed"
    BY DEF IdleInv, McpTypeOK
  <2>2. transport'[old] = "closed" /\ touchedAt'[old] = touchedAt[old]
    BY <2>1
  <2>3. Cardinality(AsRecent(old)') >= Cardinality(AsRecent(old))
    BY <1>1, <2>1, <2>2, RecentGrows DEF IdleInv
  <2>4. Cardinality(AsRecent(old)') \in Nat /\ Cardinality(AsRecent(old)) \in Nat
    <3>1. IsFiniteSet(Transports) /\ AsRecent(old)' \subseteq Transports
      BY McpAssumption, FS_Interval DEF Transports, AsRecent
    <3> QED
      BY <3>1, RecentFinite, FS_Subset, FS_CardinalityType
  <2> QED
    BY <2>2, <2>3, <2>4, McpAssumption DEF IdleInv
<1> QED
  BY <1>1, <1>2 DEF IdleInv

\* The one that makes room for a request was used no later than all the others listed.
LEMMA OldestIsIdle ==
  ASSUME IdleInv, NoRoom, NEW old \in Oldest
  PROVE  old \in Listed /\ Cardinality(AsRecent(old)) >= MaxMcpSessions - 1
<1>1. old \in Listed /\ Listed \subseteq Transports
  BY DEF Oldest, Listed, In
<1>2. Listed \ {old} \subseteq AsRecent(old)
  BY <1>1 DEF Oldest, AsRecent, IdleInv, McpTypeOK
<1>3. Cardinality(Listed \ {old}) = Cardinality(Listed) - 1
  BY <1>1, Finite, FS_RemoveElement
<1>4. Cardinality(Listed \ {old}) <= Cardinality(AsRecent(old))
  BY <1>2, RecentFinite, FS_Subset
<1> QED
  BY <1>1, <1>3, <1>4, Finite, RecentFinite, McpAssumption DEF NoRoom

\* A request that makes room adds to the replaced one that was as idle as any.
LEMMA InitializeKeepsIdle ==
  ASSUME IdleInv, McpTypeOK', NEW t \in Transports, Initialize(t)
  PROVE  IdleInv'
<1>1. UNCHANGED <<mcpClock, touchedAt>> /\ transport[t] = "none"
  BY DEF Initialize
<1>2. CASE transport' = [transport EXCEPT ![t] = "connecting"] /\ UNCHANGED replaced
  BY <1>1, <1>2, UseKeepsIdle DEF IdleInv, McpTypeOK
<1>3. ASSUME NoRoom, NEW old \in Oldest, replaced' = replaced \cup {old},
             transport' = [transport EXCEPT ![t] = "connecting", ![old] = "closed"]
      PROVE  IdleInv'
  <2>1. /\ old \in Listed /\ old \in Transports /\ old # t
        /\ Cardinality(AsRecent(old)) >= MaxMcpSessions - 1
    BY <1>1, <1>3, OldestIsIdle DEF Listed, In
  <2>2. transport'[old] = "closed"
    BY <1>3, <2>1 DEF IdleInv, McpTypeOK
  <2>3. ASSUME NEW other \in replaced PROVE transport'[other] = "closed"
    BY <1>1, <1>3, <2>1 DEF IdleInv, McpTypeOK
  <2>4. \A other \in Transports : AsRecent(other)' = AsRecent(other)
    BY <1>1 DEF AsRecent
  <2>5. \A other \in replaced' : other \in Transports /\ (other \in replaced \/ other = old)
    BY <1>3 DEF McpTypeOK
  <2>6. \A other \in replaced' :
          transport'[other] = "closed" /\ Cardinality(AsRecent(other)') >= MaxMcpSessions - 1
    BY <2>1, <2>2, <2>3, <2>4, <2>5 DEF IdleInv
  <2> QED
    BY <1>1, <2>6 DEF IdleInv
<1> QED
  BY <1>2, <1>3 DEF Initialize

\* Every action keeps the idle ones behind (IdleInv).
LEMMA IdleStep == IdleInv /\ [McpNext]_mcpVars => IdleInv'
<1> SUFFICES ASSUME IdleInv, [McpNext]_mcpVars PROVE IdleInv'
  OBVIOUS
<1>1. McpTypeOK'
  BY McpTypeStep DEF IdleInv
<1>2. ASSUME NEW t \in Transports, Initialize(t) PROVE IdleInv'
  BY <1>1, <1>2, InitializeKeepsIdle
<1>3. ASSUME NEW t \in Transports,
             SessionInitialized(t) \/ InitializeRefused(t) \/ Use(t) \/ EndedByClient(t)
             \/ CloseSession(t)
      PROVE  IdleInv'
  <2>1. UNCHANGED <<replaced, mcpClock>>
    BY <1>3 DEF SessionInitialized, InitializeRefused, Use, EndedByClient, CloseSession
  <2>2. \A u \in Transports : touchedAt'[u] \in {touchedAt[u], mcpClock}
    BY <1>3 DEF SessionInitialized, InitializeRefused, Use, EndedByClient, CloseSession,
                IdleInv, McpTypeOK
  <2>3. \A u \in Transports : transport[u] = "closed" =>
          transport'[u] = "closed" /\ touchedAt'[u] = touchedAt[u]
    BY <1>3 DEF SessionInitialized, InitializeRefused, Use, EndedByClient, CloseSession,
                IdleInv, McpTypeOK
  <2> QED
    BY <1>1, <2>1, <2>2, <2>3, UseKeepsIdle DEF IdleInv, McpTypeOK
<1>4. CASE EndClose
  <2>1. \A u \in Transports : transport[u] = "closed" => transport'[u] = "closed"
    BY <1>4 DEF EndClose, Listed, In
  <2> QED
    BY <1>1, <1>4, <2>1, UseKeepsIdle DEF EndClose, IdleInv, McpTypeOK
<1>5. CASE BeginClose \/ McpTick \/ UNCHANGED mcpVars
  BY <1>1, <1>5, UseKeepsIdle DEF BeginClose, McpTick, mcpVars, IdleInv, McpTypeOK
<1> QED
  BY <1>2, <1>3, <1>4, <1>5 DEF McpNext

\* For every limit a session that is closed to make room was used no later than as many
\* others as there is room for beside it, however requests and uses interleave
\* (ReplacedWereIdle).
THEOREM McpReplacesIdle == McpSpec => []ReplacedWereIdle
<1>1. McpInit => IdleInv
  BY McpTypeInit DEF McpInit, IdleInv
<1>2. IdleInv => ReplacedWereIdle
  BY DEF IdleInv, ReplacedWereIdle, AsRecent
<1> QED
  BY <1>1, <1>2, IdleStep, PTL DEF McpSpec

-----------------------------------------------------------------------------
(* What close() leaves.                                                    *)

\* Once close() has begun, what is under way is late, and what is open is late or is
\* still to be closed; nothing is to be closed before it begins and after it ends.
LateInv ==
  /\ McpTypeOK
  /\ stage # "closing" => closing = {}
  /\ stage = "open" => \A t \in Transports : transport[t] # "stray"
  /\ stage # "open" =>
       \A t \in Transports :
         /\ transport[t] = "connecting" => t \in late
         /\ transport[t] \in {"listed", "stray"} => t \in late \cup closing

\* Every action keeps it (LateInv).
LEMMA LateStep == LateInv /\ [McpNext]_mcpVars => LateInv'
<1> SUFFICES ASSUME LateInv, [McpNext]_mcpVars PROVE LateInv'
  OBVIOUS
<1>1. McpTypeOK'
  BY McpTypeStep DEF LateInv
<1>2. ASSUME NEW t \in Transports, Initialize(t) PROVE LateInv'
  BY <1>1, <1>2 DEF Initialize, LateInv, McpTypeOK, Oldest, Listed, In
<1>3. ASSUME NEW t \in Transports,
             SessionInitialized(t) \/ InitializeRefused(t) \/ Use(t) \/ EndedByClient(t)
      PROVE  LateInv'
  BY <1>1, <1>3 DEF SessionInitialized, InitializeRefused, Use, EndedByClient, LateInv, McpTypeOK
<1>4. ASSUME NEW t \in Transports, CloseSession(t) PROVE LateInv'
  BY <1>1, <1>4 DEF CloseSession, LateInv, McpTypeOK
<1>5. CASE BeginClose
  BY <1>1, <1>5 DEF BeginClose, LateInv, McpTypeOK, Listed, Connecting, In
<1>6. CASE EndClose
  BY <1>1, <1>6 DEF EndClose, LateInv, McpTypeOK, Listed, In
<1>7. CASE McpTick \/ UNCHANGED mcpVars
  BY <1>1, <1>7 DEF McpTick, mcpVars, LateInv
<1> QED
  BY <1>2, <1>3, <1>4, <1>5, <1>6, <1>7 DEF McpNext

\* Whatever close() leaves open had its initialize request under way when close()
\* began, or made it later: no session that was listed survives (SurvivorsWereLate).
THEOREM McpSurvivorsLate == McpSpec => []SurvivorsWereLate
<1>1. McpInit => LateInv
  BY McpTypeInit DEF McpInit, LateInv
<1>2. LateInv => SurvivorsWereLate
  BY DEF LateInv, SurvivorsWereLate
<1> QED
  BY <1>1, <1>2, LateStep, PTL DEF McpSpec

=============================================================================
