---------------------------- MODULE McpSessions ----------------------------
(***************************************************************************)
(* The sessions of the HAI connector, src/src/control/mcp.js.              *)
(*                                                                         *)
(* An initialize request compares the number of sessions with the limit    *)
(* before its transport is connected, and joins the Map when the transport *)
(* calls onsessioninitialized, with other requests in between.  close()    *)
(* closes the sessions it finds at its start and clears the Map at its     *)
(* end.  A transport is the number of its request.  Date.now() may be the  *)
(* same for several sessions, and then any of the oldest is closed.        *)
(***************************************************************************)
EXTENDS Integers, FiniteSets

CONSTANTS
  MaxMcpSessions,   \* maxSessions
  MaxConnecting,    \* initialize requests that are under way at one time
  MaxTransports,    \* bound: initialize requests
  MaxMcpTime        \* bound: the clock

ASSUME McpAssumption ==
  /\ MaxMcpSessions \in Nat \ {0} /\ MaxConnecting \in Nat \ {0}
  /\ MaxTransports \in Nat /\ MaxMcpTime \in Nat

Transports == 1..MaxTransports

VARIABLES
  mcpClock,
  transport,    \* state of each: "listed" is one that is in the Map, "stray" a
                \* session that is neither in the Map nor closed
  touchedAt,    \* the last use of each, also of those that are no longer listed
  closing,      \* the sessions that close() has yet to close
  stage,        \* "open", "closing" or "closed"
  replaced,     \* history: the sessions closed to make room
  late          \* history: the requests that close() could not see

mcpVars == <<mcpClock, transport, touchedAt, closing, stage, replaced, late>>

In(state) == {t \in Transports : transport[t] = state}

Listed     == In("listed")
Connecting == In("connecting")

McpTypeOK ==
  /\ mcpClock \in Nat
  /\ transport \in [Transports -> {"none", "connecting", "listed", "closed", "stray"}]
  /\ touchedAt \in [Transports -> Nat]
  /\ closing \subseteq Transports /\ replaced \subseteq Transports /\ late \subseteq Transports
  /\ stage \in {"open", "closing", "closed"}

McpInit ==
  /\ mcpClock = 1 /\ stage = "open" /\ closing = {} /\ replaced = {} /\ late = {}
  /\ transport = [t \in Transports |-> "none"]
  /\ touchedAt = [t \in Transports |-> 0]

-----------------------------------------------------------------------------

\* Mutant of Oldest: the order of the Map instead of the use.
OldestFirst == {t \in Listed : \A other \in Listed : t <= other}

\* closeOldestSession.
Oldest == {t \in Listed : \A other \in Listed : touchedAt[t] <= touchedAt[other]}

\* Mutant of NoRoom: the limit is reached when it is exceeded.
NoRoomLate == Cardinality(Listed) > MaxMcpSessions

NoRoom == Cardinality(Listed) >= MaxMcpSessions

\* handle of an initialize request, up to the transport's own work.
Initialize(t) ==
  /\ stage # "closed" /\ Cardinality(Connecting) < MaxConnecting
  /\ transport[t] = "none" /\ \A u \in 1..(t - 1) : transport[u] # "none"
  /\ \/ /\ ~NoRoom
        /\ transport' = [transport EXCEPT ![t] = "connecting"]
        /\ UNCHANGED replaced
     \/ /\ NoRoom
        /\ \E old \in Oldest :
             /\ transport' = [transport EXCEPT ![t] = "connecting", ![old] = "closed"]
             /\ replaced' = replaced \cup {old}
  /\ late' = IF stage = "open" THEN late ELSE late \cup {t}
  /\ UNCHANGED <<mcpClock, touchedAt, closing, stage>>

\* onsessioninitialized.
SessionInitialized(t) ==
  /\ transport[t] = "connecting"
  /\ transport' = [transport EXCEPT ![t] = "listed"]
  /\ touchedAt' = [touchedAt EXCEPT ![t] = mcpClock]
  /\ UNCHANGED <<mcpClock, closing, stage, replaced, late>>

\* The transport refuses the request, which may have cost a session its place.
InitializeRefused(t) ==
  /\ transport[t] = "connecting"
  /\ transport' = [transport EXCEPT ![t] = "closed"]
  /\ UNCHANGED <<mcpClock, touchedAt, closing, stage, replaced, late>>

\* handle of a request with the id of a session.
Use(t) ==
  /\ transport[t] = "listed" /\ stage # "closed"
  /\ touchedAt' = [touchedAt EXCEPT ![t] = mcpClock]
  /\ UNCHANGED <<mcpClock, transport, closing, stage, replaced, late>>

\* DELETE with the id of a session: the transport closes and calls onclose.
EndedByClient(t) ==
  /\ transport[t] = "listed" /\ stage # "closed"
  /\ transport' = [transport EXCEPT ![t] = "closed"]
  /\ touchedAt' = [touchedAt EXCEPT ![t] = mcpClock]
  /\ UNCHANGED <<mcpClock, closing, stage, replaced, late>>

\* close: every session of the Map, at once, each with its onclose.
BeginClose ==
  /\ stage = "open"
  /\ stage' = "closing" /\ closing' = Listed /\ late' = Connecting
  /\ UNCHANGED <<mcpClock, transport, touchedAt, replaced>>

CloseSession(t) ==
  /\ t \in closing
  /\ closing' = closing \ {t}
  /\ transport' = [transport EXCEPT ![t] = "closed"]
  /\ UNCHANGED <<mcpClock, touchedAt, stage, replaced, late>>

\* Mutant of EndClose: the Map is cleared before the transports are closed.
EndCloseAtOnce ==
  /\ stage = "closing"
  /\ stage' = "closed"
  /\ transport' = [t \in Transports |-> IF t \in Listed THEN "stray" ELSE transport[t]]
  /\ UNCHANGED <<mcpClock, touchedAt, closing, replaced, late>>

\* sessions.clear(), when all of them are closed.
EndClose ==
  /\ stage = "closing" /\ closing = {}
  /\ stage' = "closed"
  /\ transport' = [t \in Transports |-> IF t \in Listed THEN "stray" ELSE transport[t]]
  /\ UNCHANGED <<mcpClock, touchedAt, closing, replaced, late>>

McpTick ==
  /\ mcpClock < MaxMcpTime
  /\ mcpClock' = mcpClock + 1
  /\ UNCHANGED <<transport, touchedAt, closing, stage, replaced, late>>

McpNext ==
  \/ \E t \in Transports :
       \/ Initialize(t) \/ SessionInitialized(t) \/ InitializeRefused(t)
       \/ Use(t) \/ EndedByClient(t) \/ CloseSession(t)
  \/ BeginClose \/ EndClose \/ McpTick

McpSpec == McpInit /\ [][McpNext]_mcpVars

-----------------------------------------------------------------------------
(* Properties.                                                             *)

\* "A bounded session count" (docs/API_USAGE_AUDIT.md): the limit is passed by no
\* more than the initialize requests that overlap, less one, and what passed it
\* once does not add to what passes it later (handle).
SessionsBounded ==
  Cardinality(Listed) + Cardinality(Connecting) <= MaxMcpSessions + MaxConnecting - 1

\* A session that is closed to make room was used no later than as many others as
\* there is room for beside it (closeOldestSession with the touch of every request).
ReplacedWereIdle ==
  \A old \in replaced :
    Cardinality({t \in Transports \ {old} : touchedAt[t] >= touchedAt[old]}) >= MaxMcpSessions - 1

\* What close() leaves open is a session whose initialize request was not answered
\* when close() began: it took the place of none that was to be closed (close).
SurvivorsWereLate ==
  stage = "closed" => \A t \in Transports : transport[t] \in {"listed", "stray"} => t \in late

=============================================================================
