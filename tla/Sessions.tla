------------------------------ MODULE Sessions ------------------------------
(***************************************************************************)
(* Operator sessions and login attempts, src/src/control/auth.js.          *)
(*                                                                         *)
(* Both tables are Maps in the memory of the process, pruned at a login    *)
(* and nowhere else, and capped: when one is full its oldest entry makes   *)
(* room.  A session id is random; here it is the number of its login, so   *)
(* the order of the ids is that of the Map.  An attempt keeps the end of   *)
(* its window from its insertion on, so the oldest attempt is one whose    *)
(* window ends first.  Each call is one step: auth.js never awaits.        *)
(***************************************************************************)
EXTENDS Integers, Sequences, FiniteSets, FiniteSetsExt

CONSTANTS
  Clients,       \* keys of clientKey
  SessionTtl,    \* sessionTtlMs
  Window,        \* the 60 seconds of an attempt
  MaxFailures,   \* 5
  MaxSessions,   \* 100
  MaxAttempts,   \* 1000
  MaxLogins,     \* bound: sessions ever created
  MaxWrong,      \* bound: wrong tokens of a client that failures remembers
  MaxRestarts,   \* bound: restarts of the process
  MaxTime        \* bound: the clock

ASSUME LimitAssumption ==
  /\ SessionTtl \in Nat \ {0} /\ Window \in Nat \ {0} /\ MaxFailures \in Nat \ {0}
  /\ MaxSessions \in Nat \ {0} /\ MaxAttempts \in Nat \ {0}

ASSUME BoundAssumption ==
  MaxLogins \in Nat /\ MaxWrong \in Nat /\ MaxRestarts \in Nat /\ MaxTime \in Nat \ {0}

Ids == 1..MaxLogins

VARIABLES
  clock,
  sessions,    \* expiresAt of each session; 0 is one that is not in the Map
  attempts,    \* count and resetAt of each client; count 0 is none
  logins,      \* sessions created so far
  restarts,
  lastUse,     \* history: when each session was last authenticated
  endedBy,     \* history: the sessions that ended by a logout or a restart
  failures     \* history: the times of the wrong tokens of each client, since it
               \* last gave the right one or was dropped from the Map

sessionVars == <<sessions, logins, lastUse, endedBy>>
attemptVars == <<attempts, failures>>
authVars == <<clock, sessionVars, attemptVars, restarts>>

NoAttempt == [count |-> 0, resetAt |-> 0]

NoFailure == <<>>

AuthTypeOK ==
  /\ clock \in 1..MaxTime /\ logins \in 0..MaxLogins /\ restarts \in 0..MaxRestarts
  /\ sessions \in [Ids -> Nat] /\ lastUse \in [Ids -> Nat] /\ endedBy \subseteq Ids
  /\ attempts \in [Clients -> [count : 0..MaxFailures, resetAt : Nat]]
  /\ failures \in [Clients -> Seq(1..MaxTime)]
  /\ \A c \in Clients : Len(failures[c]) <= MaxWrong

AuthInit ==
  /\ clock = 1 /\ logins = 0 /\ restarts = 0
  /\ sessions = [id \in Ids |-> 0] /\ lastUse = [id \in Ids |-> 0] /\ endedBy = {}
  /\ attempts = [c \in Clients |-> NoAttempt] /\ failures = [c \in Clients |-> NoFailure]

-----------------------------------------------------------------------------
(* Sessions.                                                               *)

Alive(id) == id \in Ids /\ sessions[id] > clock

\* Mutant of Extended: the expiry stays that of the login.
ExtendedNever(id) == sessions

Extended(id) == [sessions EXCEPT ![id] = clock + SessionTtl]

\* authenticate with a session cookie: it lives on for another time to live, or is
\* taken out of the Map.
Authenticate(id) ==
  /\ \/ /\ Alive(id)
        /\ sessions' = Extended(id)
        /\ lastUse'  = [lastUse EXCEPT ![id] = clock]
     \/ /\ ~Alive(id)
        /\ sessions' = [s \in Ids |-> IF s = id THEN 0 ELSE sessions[s]]
        /\ UNCHANGED lastUse
  /\ UNCHANGED <<logins, endedBy>>

\* logout, after authenticate.
EndSession(id) ==
  /\ sessions' = [sessions EXCEPT ![id] = 0]
  /\ lastUse'  = [lastUse EXCEPT ![id] = clock]
  /\ endedBy'  = endedBy \cup {id}
  /\ UNCHANGED logins

Unexpired == {id \in Ids : sessions[id] > clock}

\* Mutant of PruneSessions: the room for the new session is not made.
PruneSessionsFull(gone) ==
  /\ gone \subseteq Unexpired
  /\ \A old \in gone, kept \in Unexpired \ gone : old < kept
  /\ Cardinality(gone) = Max({0, Cardinality(Unexpired) - MaxSessions})

\* pruneSessions: what has expired goes, and the oldest of the rest, until there is
\* room for one more.
PruneSessions(gone) ==
  /\ gone \subseteq Unexpired
  /\ \A old \in gone, kept \in Unexpired \ gone : old < kept
  /\ Cardinality(gone) = Max({0, Cardinality(Unexpired) - MaxSessions + 1})

CreateSession ==
  /\ logins < MaxLogins
  /\ logins' = logins + 1
  /\ \E gone \in SUBSET Unexpired :
       /\ PruneSessions(gone)
       /\ sessions' = [id \in Ids |-> IF id = logins' THEN clock + SessionTtl
                                      ELSE IF id \in Unexpired \ gone THEN sessions[id]
                                      ELSE 0]
  /\ lastUse' = [lastUse EXCEPT ![logins'] = clock]
  /\ UNCHANGED endedBy

-----------------------------------------------------------------------------
(* Login attempts.                                                         *)

Counted == {c \in Clients : attempts[c].count > 0 /\ attempts[c].resetAt > clock}

\* pruneAttempts: windows that are over, and the oldest entry when the Map is full.
PruneAttempts(kept) ==
  IF Cardinality(Counted) < MaxAttempts THEN kept = Counted
  ELSE \E oldest \in Counted :
         /\ \A c \in Counted : attempts[oldest].resetAt <= attempts[c].resetAt
         /\ kept = Counted \ {oldest}

\* Mutant of StateOf: a window that is over is found again.
StateOfStale(c, kept) ==
  IF attempts[c].count > 0 THEN attempts[c] ELSE [count |-> 0, resetAt |-> clock + Window]

\* The entry that a login starts from.
StateOf(c, kept) ==
  IF c \in kept THEN attempts[c] ELSE [count |-> 0, resetAt |-> clock + Window]

\* Dropping an entry before its window is over forgets the failures it stood for.
FailuresOf(c, kept) == IF c \in Counted \ kept THEN NoFailure ELSE failures[c]

\* What is left of the attempts, and the entry of one client.
Keep(kept, c, state, times) ==
  /\ attempts' = [d \in Clients |-> IF d = c THEN state
                                    ELSE IF d \in kept THEN attempts[d] ELSE NoAttempt]
  /\ failures' = [d \in Clients |-> IF d = c THEN times ELSE FailuresOf(d, kept)]

\* Mutant of Limited: the count is compared one too late.
LimitedLate(state) == state.count > MaxFailures

Limited(state) == state.count >= MaxFailures

Login(c) ==
  \E kept \in SUBSET Counted :
    LET state == StateOf(c, kept)
        times == FailuresOf(c, kept)
    IN  /\ PruneAttempts(kept)
        /\ \/ \* Too many login attempts.
              /\ Limited(state)
              /\ Keep(kept, c, state, times)
              /\ UNCHANGED sessionVars
           \/ \* Invalid access token.
              /\ ~Limited(state) /\ Len(times) < MaxWrong
              /\ Keep(kept, c, [state EXCEPT !.count = @ + 1], Append(times, clock))
              /\ UNCHANGED sessionVars
           \/ \* The token is right.
              /\ ~Limited(state)
              /\ Keep(kept, c, NoAttempt, NoFailure)
              /\ CreateSession
  /\ UNCHANGED <<clock, restarts>>

-----------------------------------------------------------------------------

Request(id) == Authenticate(id) /\ UNCHANGED <<clock, attemptVars, restarts>>

\* DELETE /api/v1/session with the token of its session.
Logout(id) == Alive(id) /\ EndSession(id) /\ UNCHANGED <<clock, attemptVars, restarts>>

\* Both Maps are lost.
Restart ==
  /\ restarts < MaxRestarts
  /\ restarts' = restarts + 1
  /\ sessions' = [id \in Ids |-> 0]
  /\ endedBy'  = 1..logins
  /\ attempts' = [c \in Clients |-> NoAttempt] /\ failures' = [c \in Clients |-> NoFailure]
  /\ UNCHANGED <<clock, logins, lastUse>>

Tick ==
  /\ clock < MaxTime
  /\ clock' = clock + 1
  /\ UNCHANGED <<sessionVars, attemptVars, restarts>>

AuthNext ==
  \/ \E c \in Clients : Login(c)
  \/ \E id \in 1..logins : Request(id) \/ Logout(id)
  \/ Restart
  \/ Tick

AuthSpec == AuthInit /\ [][AuthNext]_authVars

-----------------------------------------------------------------------------
(* Properties.                                                             *)

\* A session that an operator goes on using is only ever taken from him by a
\* logout, a restart or as many newer logins as there are sessions; and none
\* lives on after a logout, a restart or a time to live without a request
\* (authenticate, pruneSessions).
AliveWhileUsed ==
  \A id \in 1..logins :
    /\ Alive(id) => id \notin endedBy /\ lastUse[id] + SessionTtl > clock
    /\ ~Alive(id) => \/ id \in endedBy
                     \/ lastUse[id] + SessionTtl <= clock
                     \/ id + MaxSessions <= logins

\* Both Maps keep to their limits although what has expired leaves them late
\* (pruneSessions, pruneAttempts).
TablesBounded ==
  /\ Cardinality({id \in Ids : sessions[id] # 0}) <= MaxSessions
  /\ Cardinality({c \in Clients : attempts[c].count > 0}) <= MaxAttempts

\* A client is turned away only after MaxFailures wrong tokens of its own within
\* the window that ends now; and of 2 * MaxFailures wrong tokens that were looked at,
\* wherever they begin, the first and the last are at least a window apart (login).
ThrottledForCause ==
  \A c \in Clients :
    LET times == failures[c]
        n     == Len(times)
    IN  /\ c \in Counted /\ Limited(attempts[c]) =>
             n >= MaxFailures /\ times[n - MaxFailures + 1] > clock - Window
        /\ \A first \in 1..n : first + 2 * MaxFailures - 1 <= n =>
             times[first + 2 * MaxFailures - 1] >= times[first] + Window

=============================================================================
