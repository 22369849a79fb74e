--------------------------- MODULE DashboardProofs ---------------------------
(***************************************************************************)
(* The page and its requests, for any number of requests under way, of     *)
(* sign-ins and of losses, and any order of the answers: what the page     *)
(* shows after a sign-out, and the token that its requests carry.          *)
(***************************************************************************)
EXTENDS Dashboard, SessionsProofs

USE LimitAssumption, BoundAssumption, PageAssumption

CallRecords ==
  [kind : {"none", "session", "load", "login", "logout", "save"},
   cookie : 0..MaxLogins, token : 0..MaxLogins, mounted : BOOLEAN,
   status : {"none", "sent", "ok", "unauthorized", "forbidden", "failed"},
   data : Nat]

PageTypes ==
  /\ AuthTypeOK
  /\ cookie \in [id : 0..MaxLogins, until : Nat] /\ token \in 0..MaxLogins
  /\ ui \in [authenticated : BOOLEAN, overview : 0..(MaxSaves + 1), error : BOOLEAN,
             mode : {"local", "session"}, crashed : BOOLEAN]
  /\ calls \in [Calls -> CallRecords]
  /\ policy \in 1..(MaxSaves + 1) /\ lost \in 0..MaxLost
  /\ signedOut \in {"no", "alone", "overlapped"}

\* The token of a request is none or that of its cookie, if it has one; only one without
\* a token was turned away for it; and its answer is of its kind.
CallHolds(call) ==
  /\ call.cookie = 0 \/ call.token \in {0, call.cookie}
  /\ call.status = "forbidden" => call.token = 0
  /\ call.status = "ok" =>
       /\ call.kind \in {"load", "save"} => call.data \in 1..(MaxSaves + 1)
       /\ call.kind = "login" => call.data \in Ids
       /\ call.kind = "session" => call.data = call.cookie

\* A form that waits is on the screen.
OnScreen(call, screen) ==
  call.mounted => /\ call.kind = "save"  => screen = "dashboard"
                  /\ call.kind = "login" => screen = "login"

CallsHold == \A c \in Calls : CallHolds(calls[c]) /\ OnScreen(calls[c], Screen)

\* The first request of the page is answered before there is another one, and with the
\* cookie that the page has.
FirstAlone ==
  \A c \in Calls : calls[c].kind = "session" =>
    /\ Screen = "loading" /\ calls[c].cookie = cookie.id
    /\ \A other \in Calls \ {c} : calls[other] = NoCall

\* After a sign-out on its own nothing is under way until the next sign-in.
QuietAfterSignOut == signedOut = "alone" => Screen = "login" /\ \A c \in Calls : calls[c] = NoCall

PageInv == PageTypes /\ CallsHold /\ token \in {0, cookie.id} /\ FirstAlone /\ QuietAfterSignOut

-----------------------------------------------------------------------------
(* The sessions under the requests of the page.                            *)

\* A request leaves the sessions typed, whoever it comes from.
LEMMA AuthenticateTypes ==
  ASSUME AuthTypeOK, NEW id \in 0..MaxLogins, Authenticate(id)
  PROVE  /\ sessions' \in [Ids -> Nat] /\ lastUse' \in [Ids -> Nat]
         /\ UNCHANGED <<logins, endedBy>>
<1>1. clock \in Nat
  BY DEF AuthTypeOK
<1>2. CASE Alive(id) /\ sessions' = Extended(id) /\ lastUse' = [lastUse EXCEPT ![id] = clock]
  BY <1>1, <1>2 DEF Authenticate, Alive, Extended, AuthTypeOK
<1>3. CASE sessions' = [s \in Ids |-> IF s = id THEN 0 ELSE sessions[s]] /\ UNCHANGED lastUse
  BY <1>3 DEF Authenticate, AuthTypeOK
<1> QED
  BY <1>2, <1>3 DEF Authenticate

LEMMA EndSessionTypes ==
  ASSUME AuthTypeOK, NEW id \in Ids, EndSession(id)
  PROVE  /\ sessions' \in [Ids -> Nat] /\ lastUse' \in [Ids -> Nat]
         /\ endedBy' \subseteq Ids /\ logins' = logins
BY DEF EndSession, AuthTypeOK

LEMMA SessionStepTypes ==
  ASSUME AuthTypeOK, UNCHANGED <<clock, attemptVars, restarts>>,
         \/ UNCHANGED sessionVars
         \/ CreateSession
         \/ \E id \in 0..MaxLogins : Authenticate(id)
         \/ \E id \in Ids : EndSession(id)
  PROVE  AuthTypeOK'
<1>1. CASE UNCHANGED sessionVars
  BY <1>1 DEF AuthTypeOK, sessionVars, attemptVars
<1>2. CASE CreateSession
  BY <1>2, CreateTypes DEF AuthTypeOK, attemptVars
<1>3. CASE \E id \in 0..MaxLogins : Authenticate(id)
  BY <1>3, AuthenticateTypes DEF AuthTypeOK, attemptVars
<1>4. CASE \E id \in Ids : EndSession(id)
  BY <1>4, EndSessionTypes DEF AuthTypeOK, attemptVars
<1> QED
  BY <1>1, <1>2, <1>3, <1>4

\* What happens elsewhere keeps the types.
LEMMA ElsewhereTypes == ASSUME AuthTypeOK, Elsewhere PROVE AuthTypeOK'
<1>1. CASE CreateSession /\ UNCHANGED <<clock, attemptVars, restarts>>
  BY <1>1, SessionStepTypes
<1>2. CASE Restart
  BY <1>2 DEF Restart, AuthTypeOK, Ids, NoAttempt, NoFailure
<1>3. CASE Tick
  BY <1>3 DEF Tick, AuthTypeOK, sessionVars, attemptVars
<1> QED
  BY <1>1, <1>2, <1>3 DEF Elsewhere

-----------------------------------------------------------------------------
(* The requests.                                                           *)

LEMMA NoCallHolds == NoCall \in CallRecords /\ CallHolds(NoCall) /\ ~NoCall.mounted /\ NoCall.kind = "none"
BY DEF NoCall, CallRecords, CallHolds

\* A request that is sent with the token of its cookie, or without one of them.
LEMMA NewCallHolds ==
  ASSUME NEW kind \in {"session", "load", "login", "logout", "save"},
         NEW id \in 0..MaxLogins, NEW csrf \in 0..MaxLogins, id = 0 \/ csrf \in {0, id}
  PROVE  /\ Call(kind, id, csrf) \in CallRecords /\ CallHolds(Call(kind, id, csrf))
         /\ Call(kind, id, csrf).kind = kind /\ Call(kind, id, csrf).cookie = id
BY DEF Call, NoCall, CallRecords, CallHolds

\* The cookie that is carried is the page's, if it is kept that long.
LEMMA CarriedIsCookie == ASSUME PageTypes PROVE Carried \in 0..MaxLogins /\ Carried \in {0, cookie.id}
BY DEF Carried, PageTypes

\* A command sends a request from the dashboard, from the page that tells an error, or
\* from the login, and leaves the one as it is.
LEMMA SendHolds ==
  ASSUME PageInv, NEW c \in Calls, NEW kind \in {"load", "login", "logout", "save"}, Send(c, kind),
         Screen \in {"dashboard", "fatal", "login"},
         Screen \in {"dashboard", "login"} => Screen' = Screen,
         kind = "save" => Screen = "dashboard", kind = "login" => Screen = "login",
         signedOut' = "no" \/ (signedOut' = signedOut /\ Screen # "login")
  PROVE  /\ calls' \in [Calls -> CallRecords] /\ CallsHold'
         /\ token' \in {0, cookie'.id} /\ FirstAlone' /\ QuietAfterSignOut'
<1> DEFINE new == Call(kind, Carried, token)
<1>1. /\ calls' = [calls EXCEPT ![c] = new] /\ UNCHANGED <<cookie, token>>
  BY DEF Send
<1>2. new \in CallRecords /\ CallHolds(new) /\ new.kind = kind
  BY CarriedIsCookie, NewCallHolds DEF PageInv, PageTypes
<1> HIDE DEF new
<1>3. calls' \in [Calls -> CallRecords]
  BY <1>1, <1>2 DEF PageInv, PageTypes
<1>4. ASSUME NEW e \in Calls PROVE CallHolds(calls'[e]) /\ OnScreen(calls'[e], Screen')
  <2>1. CASE e = c
    BY <1>1, <1>2, <2>1 DEF PageInv, PageTypes, OnScreen
  <2>2. CASE e # c
    BY <1>1, <2>2 DEF PageInv, PageTypes, CallsHold, OnScreen
  <2> QED
    BY <2>1, <2>2
<1>5. \A e \in Calls : calls'[e].kind # "session"
  BY <1>1, <1>2 DEF PageInv, PageTypes, FirstAlone
<1>6. CallsHold'
  BY <1>4 DEF CallsHold
<1>7. FirstAlone'
  BY <1>5 DEF FirstAlone
<1>8. QuietAfterSignOut'
  BY DEF PageInv, QuietAfterSignOut
<1> QED
  BY <1>1, <1>3, <1>6, <1>7, <1>8 DEF PageInv

\* An answer arrives, or the loss of one: nothing on the page changes yet.
LEMMA AnsweredHolds ==
  ASSUME PageInv, NEW c \in Calls, calls[c] # NoCall,
         NEW status \in {"ok", "unauthorized", "forbidden", "failed"}, NEW data \in Nat,
         Answered(c, status, data),
         status = "forbidden" => calls[c].token = 0,
         status = "ok" =>
           /\ calls[c].kind \in {"load", "save"} => data \in 1..(MaxSaves + 1)
           /\ calls[c].kind = "login" => data \in Ids
           /\ calls[c].kind = "session" => data = calls[c].cookie,
         UNCHANGED <<cookie, token, ui, signedOut>>
  PROVE  /\ calls' \in [Calls -> CallRecords] /\ CallsHold'
         /\ token' \in {0, cookie'.id} /\ FirstAlone' /\ QuietAfterSignOut'
<1>1. Screen' = Screen
  BY DEF Screen
<1>2. calls \in [Calls -> CallRecords]
  BY DEF PageInv, PageTypes
<1>3. /\ \A e \in Calls \ {c} : calls'[e] = calls[e]
      /\ calls'[c] \in CallRecords
      /\ calls'[c].kind = calls[c].kind /\ calls'[c].cookie = calls[c].cookie
      /\ calls'[c].token = calls[c].token /\ calls'[c].mounted = calls[c].mounted
      /\ calls'[c].status = status /\ calls'[c].data = data
  BY <1>2 DEF Answered, CallRecords
<1>4. calls' \in [Calls -> CallRecords]
  BY <1>2, <1>3 DEF Answered
<1>5. ASSUME NEW e \in Calls PROVE CallHolds(calls'[e]) /\ OnScreen(calls'[e], Screen')
  <2>1. CASE e = c
    BY <1>1, <1>3, <2>1 DEF PageInv, CallsHold, CallHolds, OnScreen
  <2>2. CASE e # c
    BY <1>1, <1>3, <2>2 DEF PageInv, CallsHold, OnScreen
  <2> QED
    BY <2>1, <2>2
<1>6. CallsHold'
  BY <1>5 DEF CallsHold
<1>7. FirstAlone'
  BY <1>1, <1>3 DEF PageInv, FirstAlone
<1>8. QuietAfterSignOut'
  BY <1>1 DEF PageInv, QuietAfterSignOut
<1> QED
  BY <1>4, <1>6, <1>7, <1>8 DEF PageInv

\* A continuation ends its request, or follows it with a load, and takes forms off the
\* screen with their state.
LEMMA UnmountedHolds ==
  ASSUME PageInv, NEW c \in Calls, calls[c] # NoCall,
         NEW new \in CallRecords, CallHolds(new), new.kind \in {"none", "load"},
         calls' = Unmounted([calls EXCEPT ![c] = new])
  PROVE  /\ calls' \in [Calls -> CallRecords] /\ CallsHold' /\ FirstAlone'
<1> DEFINE others == [calls EXCEPT ![c] = new]
<1>1. calls \in [Calls -> CallRecords] /\ others \in [Calls -> CallRecords]
  BY DEF PageInv, PageTypes
<1>2. \A e \in Calls : CallHolds(others[e])
  BY <1>1 DEF PageInv, CallsHold
<1>3. \A e \in Calls : others[e].kind # "session"
  <2>1. \A e \in Calls \ {c} : calls[e].kind # "session"
    BY DEF PageInv, FirstAlone
  <2> QED
    BY <1>1, <2>1
<1> HIDE DEF others
<1>4. ASSUME NEW e \in Calls
      PROVE  /\ calls'[e] \in CallRecords
             /\ calls'[e].kind = others[e].kind /\ calls'[e].cookie = others[e].cookie
             /\ calls'[e].token = others[e].token /\ calls'[e].status = others[e].status
             /\ calls'[e].data = others[e].data
             /\ calls'[e].mounted => /\ others[e].kind = "save"  => Screen' = "dashboard"
                                     /\ others[e].kind = "login" => Screen' = "login"
  <2>1. calls'[e] = [others[e] EXCEPT !.mounted =
                       @ /\ (others[e].kind = "save"  => Screen' = "dashboard")
                         /\ (others[e].kind = "login" => Screen' = "login")]
    BY DEF Unmounted, others
  <2>2. others[e] \in CallRecords
    BY <1>1
  <2> QED
    BY <2>1, <2>2 DEF CallRecords
<1>5. calls' \in [Calls -> CallRecords]
  BY <1>4 DEF Unmounted
<1>6. ASSUME NEW e \in Calls PROVE CallHolds(calls'[e]) /\ OnScreen(calls'[e], Screen')
  BY <1>2, <1>4 DEF CallHolds, OnScreen
<1>7. CallsHold'
  BY <1>6 DEF CallsHold
<1>8. FirstAlone'
  BY <1>3, <1>4 DEF FirstAlone
<1> QED
  BY <1>5, <1>7, <1>8

-----------------------------------------------------------------------------
(* The steps.                                                              *)

LEMMA PageInit == Init => PageInv
<1> SUFFICES ASSUME Init PROVE PageInv
  OBVIOUS
<1>1. /\ logins \in {0, 1} /\ logins \in 0..MaxLogins /\ clock = 1
      /\ cookie = [id |-> logins, until |-> IF logins = 0 THEN 0 ELSE clock + SessionTtl]
      /\ token = 0 /\ policy = 1 /\ lost = 0 /\ signedOut = "no"
      /\ ui = [authenticated |-> TRUE, overview |-> 0, error |-> FALSE, mode |-> "local",
               crashed |-> FALSE]
  BY DEF Init
<1>2. Screen = "loading"
  BY <1>1 DEF Screen
<1>3. AuthTypeOK
  BY <1>1 DEF Init, AuthTypeOK, NoAttempt, NoFailure, Ids
<1>4. PICK c \in Calls : calls = [e \in Calls |-> IF e = c THEN Call("session", logins, 0) ELSE NoCall]
  BY DEF Init
<1> DEFINE first == Call("session", logins, 0)
<1>5. first \in CallRecords /\ CallHolds(first) /\ first.kind = "session" /\ first.cookie = logins
  BY <1>1, NewCallHolds
<1> HIDE DEF first
<1>6. \A e \in Calls : calls[e] = IF e = c THEN first ELSE NoCall
  BY <1>4 DEF first
<1>7. calls \in [Calls -> CallRecords]
  BY <1>4, <1>5, NoCallHolds DEF first
<1>8. CallsHold
  BY <1>5, <1>6, NoCallHolds DEF CallsHold, OnScreen
<1>9. FirstAlone
  BY <1>1, <1>2, <1>5, <1>6, NoCallHolds DEF FirstAlone
<1>10. PageTypes
  BY <1>1, <1>3, <1>7 DEF PageTypes
<1> QED
  BY <1>1, <1>8, <1>9, <1>10 DEF PageInv, QuietAfterSignOut

\* The commands of the page.
LEMMA CommandHolds ==
  ASSUME PageInv, NEW c \in Calls, Refresh(c) \/ SignOut(c) \/ Save(c) \/ SignIn(c)
  PROVE  PageInv'
<1>1. /\ ui \in [authenticated : BOOLEAN, overview : 0..(MaxSaves + 1), error : BOOLEAN,
                 mode : {"local", "session"}, crashed : BOOLEAN]
      /\ UNCHANGED <<authVars, cookie, token, policy, lost>>
  BY DEF PageInv, PageTypes, Refresh, SignOut, Save, SignIn, Send
<1>2. AuthTypeOK'
  BY <1>1, SessionStepTypes DEF PageInv, PageTypes, authVars
<1>3. ASSUME /\ calls' \in [Calls -> CallRecords] /\ CallsHold'
             /\ token' \in {0, cookie'.id} /\ FirstAlone' /\ QuietAfterSignOut',
             ui' = ui \/ ui' = [ui EXCEPT !.error = FALSE],
             signedOut' \in {signedOut, "no"}
      PROVE  PageInv'
  BY <1>1, <1>2, <1>3 DEF PageInv, PageTypes
<1>4. CASE Refresh(c)
  <2>1. /\ Screen \in {"dashboard", "fatal"} /\ ui' = [ui EXCEPT !.error = FALSE]
        /\ Send(c, "load") /\ signedOut' = signedOut
    BY <1>4 DEF Refresh
  <2>2. Screen = "dashboard" => Screen' = "dashboard"
    BY <1>1, <2>1 DEF Screen
  <2> QED
    BY <1>3, <2>1, <2>2, SendHolds
<1>5. CASE SignOut(c)
  <2>1. Screen = "dashboard" /\ ui' = ui /\ Send(c, "logout") /\ signedOut' = signedOut
    BY <1>5 DEF SignOut
  <2>2. Screen' = Screen
    BY <2>1 DEF Screen
  <2> QED
    BY <1>3, <2>1, <2>2, SendHolds
<1>6. CASE Save(c)
  <2>1. Screen = "dashboard" /\ ui' = ui /\ Send(c, "save") /\ signedOut' = signedOut
    BY <1>6 DEF Save
  <2>2. Screen' = Screen
    BY <2>1 DEF Screen
  <2> QED
    BY <1>3, <2>1, <2>2, SendHolds
<1>7. CASE SignIn(c)
  <2>1. Screen = "login" /\ ui' = ui /\ Send(c, "login") /\ signedOut' = "no"
    BY <1>7 DEF SignIn
  <2>2. Screen' = Screen
    BY <2>1 DEF Screen
  <2> QED
    BY <1>3, <2>1, <2>2, SendHolds
<1> QED
  BY <1>4, <1>5, <1>6, <1>7

\* What neither sends nor answers a request nor changes what is on the screen.
LEMMA ScreenKeeps ==
  ASSUME PageInv, UNCHANGED <<cookie, token, calls, signedOut>>, Screen' = Screen
  PROVE  CallsHold' /\ token' \in {0, cookie'.id} /\ FirstAlone' /\ QuietAfterSignOut'
BY DEF PageInv, CallsHold, FirstAlone, QuietAfterSignOut

LEMMA DismissHolds == ASSUME PageInv, Dismiss PROVE PageInv'
<1>1. /\ Screen = "dashboard" /\ ui' = [ui EXCEPT !.error = FALSE]
      /\ UNCHANGED <<authVars, cookie, token, calls, policy, lost, signedOut>>
  BY DEF Dismiss
<1>2. Screen' = Screen
  BY <1>1 DEF PageInv, PageTypes, Screen
<1>3. AuthTypeOK'
  BY <1>1, SessionStepTypes DEF PageInv, PageTypes, authVars
<1>4. PageTypes'
  BY <1>1, <1>3 DEF PageInv, PageTypes
<1> QED
  BY <1>1, <1>2, <1>4, ScreenKeeps DEF PageInv

LEMMA ElsewhereHolds == ASSUME PageInv, Elsewhere PROVE PageInv'
<1>1. UNCHANGED <<cookie, token, ui, calls, signedOut, policy, lost>>
  BY DEF Elsewhere, pageVars
<1>2. Screen' = Screen
  BY <1>1 DEF Screen
<1>3. PageTypes'
  BY <1>1, ElsewhereTypes DEF PageInv, PageTypes
<1> QED
  BY <1>1, <1>2, <1>3, ScreenKeeps DEF PageInv

\* The server answers with what is of the request's kind, and turns away for the token
\* only what has none: a token that is there is that of the cookie.
LEMMA ServeAnswers ==
  ASSUME PageInv, NEW c \in Calls, Serve(c)
  PROVE  \E status \in {"ok", "unauthorized", "forbidden", "failed"}, data \in Nat :
           /\ Answered(c, status, data)
           /\ status = "forbidden" => calls[c].token = 0
           /\ status = "ok" =>
                /\ calls[c].kind \in {"load", "save"} => data \in 1..(MaxSaves + 1)
                /\ calls[c].kind = "login" => data \in Ids
                /\ calls[c].kind = "session" => data = calls[c].cookie
<1>1. /\ calls[c] \in CallRecords /\ CallHolds(calls[c]) /\ policy \in 1..(MaxSaves + 1)
      /\ calls[c].cookie \in Nat
  BY DEF PageInv, PageTypes, CallsHold, CallRecords
<1>2. CASE Refused(c)
  BY <1>2 DEF Refused
<1>3. CASE ServeRead(c)
  <2>1. CASE calls[c].kind = "session"
    BY <1>1, <1>3, <2>1 DEF ServeRead
  <2>2. CASE calls[c].kind = "load"
    <3>1. Answered(c, "ok", policy) /\ policy \in Nat
      BY <1>1, <1>3, <2>2 DEF ServeRead
    <3> QED
      BY <1>1, <2>2, <3>1
  <2> QED
    BY <1>3, <2>1, <2>2 DEF ServeRead
<1>4. CASE RejectCsrf(c)
  <2>1. /\ calls[c].cookie # 0 /\ calls[c].token # calls[c].cookie
        /\ Answered(c, "forbidden", 0)
    BY <1>4 DEF RejectCsrf, ValidCsrf, Alive, Ids
  <2>2. calls[c].token = 0
    BY <1>1, <2>1 DEF CallHolds
  <2> QED
    BY <2>1, <2>2
<1>5. CASE ServeLogout(c)
  BY <1>5 DEF ServeLogout
<1>6. CASE ServeSave(c)
  <2>1. calls[c].kind = "save"
    BY <1>6 DEF ServeSave
  <2>2. CASE policy <= MaxSaves /\ Answered(c, "ok", policy + 1)
    <3>1. policy + 1 \in Nat /\ policy + 1 \in 1..(MaxSaves + 1)
      BY <1>1, <2>2
    <3> QED
      BY <2>1, <2>2, <3>1
  <2>3. CASE Answered(c, "failed", 0)
    BY <2>3
  <2> QED
    BY <1>6, <2>2, <2>3 DEF ServeSave
<1>7. CASE ServeLogin(c)
  <2>1. calls[c].kind = "login"
    BY <1>7 DEF ServeLogin
  <2>2. CASE CreateSession /\ Answered(c, "ok", logins')
    <3>1. logins' \in Ids /\ logins' \in Nat
      BY <2>2 DEF CreateSession, PageInv, PageTypes, AuthTypeOK, Ids
    <3> QED
      BY <2>1, <2>2, <3>1
  <2>3. CASE Answered(c, "unauthorized", 0)
    BY <2>3
  <2> QED
    BY <1>7, <2>2, <2>3 DEF ServeLogin
<1> QED
  BY <1>2, <1>3, <1>4, <1>5, <1>6, <1>7 DEF Serve

LEMMA ServeHolds == ASSUME PageInv, NEW c \in Calls, Serve(c) PROVE PageInv'
<1>1. /\ UNCHANGED <<clock, attemptVars, restarts, cookie, token, ui, lost, signedOut>>
      /\ calls[c] # NoCall /\ calls[c].cookie \in 0..MaxLogins
  BY DEF Serve, NoCall, PageInv, PageTypes, CallRecords
<1>2. /\ calls' \in [Calls -> CallRecords] /\ CallsHold'
      /\ token' \in {0, cookie'.id} /\ FirstAlone' /\ QuietAfterSignOut'
  BY <1>1, ServeAnswers, AnsweredHolds
<1>3. \/ UNCHANGED sessionVars
      \/ CreateSession
      \/ \E id \in 0..MaxLogins : Authenticate(id)
      \/ \E id \in Ids : EndSession(id)
  BY <1>1 DEF Serve, Refused, ServeRead, RejectCsrf, ServeLogout, ServeSave, ServeLogin, Alive
<1>4. AuthTypeOK'
  BY <1>1, <1>3, SessionStepTypes DEF PageInv, PageTypes
<1>5. policy' \in 1..(MaxSaves + 1)
  BY DEF Serve, Refused, ServeRead, RejectCsrf, ServeLogout, ServeSave, ServeLogin, PageInv, PageTypes
<1> QED
  BY <1>1, <1>2, <1>4, <1>5 DEF PageInv, PageTypes

LEMMA LoseHolds == ASSUME PageInv, NEW c \in Calls, Lose(c) PROVE PageInv'
<1>1. /\ calls[c] # NoCall /\ Answered(c, "failed", 0) /\ lost' \in 0..MaxLost
      /\ UNCHANGED <<authVars, cookie, token, ui, policy, signedOut>>
  BY DEF Lose, NoCall, PageInv, PageTypes
<1>2. /\ calls' \in [Calls -> CallRecords] /\ CallsHold'
      /\ token' \in {0, cookie'.id} /\ FirstAlone' /\ QuietAfterSignOut'
  BY <1>1, AnsweredHolds
<1>3. AuthTypeOK'
  BY <1>1, SessionStepTypes DEF PageInv, PageTypes, authVars
<1> QED
  BY <1>1, <1>2, <1>3 DEF PageInv, PageTypes

\* The page learns its token with its cookie, and loses both at once.
LEMMA EnterHolds ==
  ASSUME PageInv, NEW c \in Calls, calls[c] # NoCall, NEW id \in 0..MaxLogins, Enter(c, id),
         calls[c].data \in 0..MaxLogins, id \in {0, calls[c].data},
         cookie' \in [id : 0..MaxLogins, until : Nat], cookie'.id = calls[c].data,
         UNCHANGED <<authVars, policy, lost, signedOut>>
  PROVE  PageInv'
<1>1. ui' \in [authenticated : BOOLEAN, overview : 0..(MaxSaves + 1), error : BOOLEAN,
               mode : {"local", "session"}, crashed : BOOLEAN]
  BY DEF Enter, PageInv, PageTypes
<1>2. /\ token' = calls[c].data
      /\ calls' = Unmounted([calls EXCEPT ![c] = Call("load", id, calls[c].data)])
  BY DEF Enter
<1> DEFINE new == Call("load", id, calls[c].data)
<1>3. new \in CallRecords /\ CallHolds(new) /\ new.kind = "load"
  BY NewCallHolds
<1> HIDE DEF new
<1>4. calls' \in [Calls -> CallRecords] /\ CallsHold' /\ FirstAlone'
  BY <1>2, <1>3, UnmountedHolds DEF new
<1>5. QuietAfterSignOut'
  BY DEF PageInv, QuietAfterSignOut
<1>6. AuthTypeOK'
  BY SessionStepTypes DEF PageInv, PageTypes, authVars
<1> QED
  BY <1>1, <1>2, <1>4, <1>5, <1>6 DEF PageInv, PageTypes

\* A continuation that ends its request and leaves the cookie and the token, or drops
\* both.
LEMMA DoneHolds ==
  ASSUME PageInv, NEW c \in Calls, calls[c] # NoCall, Done(c),
         ui' \in [authenticated : BOOLEAN, overview : 0..(MaxSaves + 1), error : BOOLEAN,
                  mode : {"local", "session"}, crashed : BOOLEAN],
         UNCHANGED <<authVars, policy, lost>>,
         \/ UNCHANGED <<cookie, token, signedOut>>
         \/ /\ cookie' = [id |-> 0, until |-> 0] /\ token' = 0 /\ EndVisit(c)
            /\ Screen' = "login"
  PROVE  PageInv'
<1>1. calls' \in [Calls -> CallRecords] /\ CallsHold' /\ FirstAlone'
  BY NoCallHolds, UnmountedHolds DEF Done
<1>2. /\ cookie' \in [id : 0..MaxLogins, until : Nat] /\ token' \in 0..MaxLogins
      /\ token' \in {0, cookie'.id} /\ signedOut' \in {"no", "alone", "overlapped"}
  BY DEF EndVisit, PageInv, PageTypes
<1>3. QuietAfterSignOut'
  <2>1. CASE UNCHANGED <<cookie, token, signedOut>>
    BY <2>1 DEF PageInv, QuietAfterSignOut
  <2>2. CASE EndVisit(c) /\ Screen' = "login"
    <3>1. CASE \E other \in Calls \ {c} : calls[other] # NoCall
      BY <2>2, <3>1 DEF EndVisit, QuietAfterSignOut
    <3>2. CASE \A other \in Calls \ {c} : calls[other] = NoCall
      <4>1. \A e \in Calls : [calls EXCEPT ![c] = NoCall][e] = NoCall
        BY <3>2 DEF PageInv, PageTypes
      <4>2. ASSUME NEW e \in Calls PROVE calls'[e] = NoCall
        <5>1. calls'[e] = [NoCall EXCEPT !.mounted =
                             @ /\ (NoCall.kind = "save"  => Screen' = "dashboard")
                               /\ (NoCall.kind = "login" => Screen' = "login")]
          BY <4>1 DEF Done, Unmounted
        <5> QED
          BY <5>1 DEF NoCall
      <4> QED
        BY <2>2, <4>2 DEF QuietAfterSignOut
    <3> QED
      BY <3>1, <3>2
  <2> QED
    BY <2>1, <2>2
<1>4. AuthTypeOK'
  BY SessionStepTypes DEF PageInv, PageTypes, authVars
<1> QED
  BY <1>1, <1>2, <1>3, <1>4 DEF PageInv, PageTypes

LEMMA ReceiveHolds == ASSUME PageInv, NEW c \in Calls, Receive(c) PROVE PageInv'
<1>1. /\ calls[c] # NoCall /\ calls[c] \in CallRecords /\ CallHolds(calls[c]) /\ ~ui.crashed
      /\ UNCHANGED <<authVars, policy, lost>>
      /\ ui \in [authenticated : BOOLEAN, overview : 0..(MaxSaves + 1), error : BOOLEAN,
                 mode : {"local", "session"}, crashed : BOOLEAN]
  BY DEF Receive, NoCall, PageInv, PageTypes, CallsHold
<1>2. CASE calls[c].status = "ok" /\ SessionKnown(c)
  <2>1. calls[c].data = cookie.id /\ cookie.id \in 0..MaxLogins
    BY <1>1, <1>2 DEF SessionKnown, CallHolds, PageInv, PageTypes, FirstAlone
  <2>2. Carried \in 0..MaxLogins /\ Carried \in {0, cookie.id}
    BY CarriedIsCookie DEF PageInv
  <2> QED
    BY <1>1, <1>2, <2>1, <2>2, EnterHolds DEF SessionKnown, PageInv, PageTypes
<1>3. CASE calls[c].status = "ok" /\ SignedIn(c)
  <2>1. calls[c].data \in 0..MaxLogins /\ clock + SessionTtl \in Nat
    BY <1>1, <1>3 DEF SignedIn, CallHolds, Ids, PageInv, PageTypes, AuthTypeOK
  <2>2. cookie' \in [id : 0..MaxLogins, until : Nat] /\ cookie'.id = calls[c].data
    BY <1>3, <2>1 DEF SignedIn
  <2> QED
    BY <1>1, <1>3, <2>1, <2>2, EnterHolds DEF SignedIn
<1>4. CASE calls[c].status = "ok" /\ Loaded(c)
  <2>1. calls[c].data \in 0..(MaxSaves + 1)
    BY <1>1, <1>4 DEF Loaded, CallHolds
  <2> QED
    BY <1>1, <1>4, <2>1, DoneHolds DEF Loaded
<1>5. CASE calls[c].status = "ok" /\ SignedOut(c)
  <2>1. Screen' = "login"
    BY <1>1, <1>5 DEF SignedOut, Screen
  <2>2. ui' \in [authenticated : BOOLEAN, overview : 0..(MaxSaves + 1), error : BOOLEAN,
                 mode : {"local", "session"}, crashed : BOOLEAN]
    <3>1. ui' = [ui EXCEPT !.overview = 0, !.authenticated = FALSE]
      BY <1>5 DEF SignedOut
    <3>2. 0 \in 0..(MaxSaves + 1)
      OBVIOUS
    <3> QED
      BY <1>1, <3>1, <3>2
  <2> QED
    BY <1>1, <1>5, <2>1, <2>2, DoneHolds DEF SignedOut
<1>6. CASE calls[c].status = "ok" /\ Saved(c)
  <2>1. calls[c].data \in 0..(MaxSaves + 1)
    BY <1>1, <1>6 DEF Saved, CallHolds
  <2>2. ui' \in [authenticated : BOOLEAN, overview : 0..(MaxSaves + 1), error : BOOLEAN,
                 mode : {"local", "session"}, crashed : BOOLEAN]
    BY <1>1, <1>6, <2>1 DEF Saved
  <2> QED
    BY <1>1, <1>6, <2>2, DoneHolds DEF Saved
<1>7. CASE Fail(c)
  <2>1. ui' \in [authenticated : BOOLEAN, overview : 0..(MaxSaves + 1), error : BOOLEAN,
                 mode : {"local", "session"}, crashed : BOOLEAN]
    BY <1>1, <1>7 DEF Fail
  <2> QED
    BY <1>1, <1>7, <2>1, DoneHolds DEF Fail
<1> QED
  BY <1>2, <1>3, <1>4, <1>5, <1>6, <1>7 DEF Receive

LEMMA PageStep == PageInv /\ [Next]_vars => PageInv'
<1> SUFFICES ASSUME PageInv, [Next]_vars PROVE PageInv'
  OBVIOUS
<1>1. ASSUME NEW c \in Calls, Refresh(c) \/ SignOut(c) \/ Save(c) \/ SignIn(c) PROVE PageInv'
  BY <1>1, CommandHolds
<1>2. ASSUME NEW c \in Calls, Serve(c) \/ Lose(c) \/ Receive(c) PROVE PageInv'
  BY <1>2, ServeHolds, LoseHolds, ReceiveHolds
<1>3. CASE Dismiss
  BY <1>3, DismissHolds
<1>4. CASE Elsewhere
  BY <1>4, ElsewhereHolds
<1>5. CASE UNCHANGED vars
  <2>1. /\ UNCHANGED <<authVars, cookie, token, ui, calls, signedOut, policy, lost>>
        /\ Screen' = Screen
    BY <1>5 DEF vars, pageVars, Screen
  <2>2. AuthTypeOK'
    BY <2>1, SessionStepTypes DEF PageInv, PageTypes, authVars
  <2>3. PageTypes'
    BY <2>1, <2>2 DEF PageInv, PageTypes
  <2> QED
    BY <2>1, <2>3, ScreenKeeps DEF PageInv
<1> QED
  BY <1>1, <1>2, <1>3, <1>4, <1>5 DEF Next

\* Types, tokens, the first request and the quiet after a sign-out, by one induction.
THEOREM PageInvariant == Spec => []PageInv
BY PageInit, PageStep, PTL DEF Spec

\* The state of the page has its types, the answers are of the kind of their requests,
\* and a form that waits is on the screen (TypeOK).
THEOREM PageTypesCorrect == Spec => []TypeOK
<1>1. PageInv => TypeOK
  BY DEF PageInv, PageTypes, CallRecords, CallsHold, OnScreen, TypeOK
<1> QED
  BY <1>1, PageInvariant, PTL

\* However sign-ins, sign-outs and answers overlap, no request that carries a token is
\* turned away for it, for any number of requests and sessions (TokenIsCurrent).
THEOREM TokensCurrent == Spec => []TokenIsCurrent
<1>1. PageInv => TokenIsCurrent
  BY DEF PageInv, CallsHold, CallHolds, TokenIsCurrent
<1> QED
  BY <1>1, PageInvariant, PTL

\* A sign-out with nothing else under way holds until the next sign-in, whatever the
\* server and other operators do (SignOutHolds).
THEOREM SignOutStays == Spec => []SignOutHolds
<1>1. PageInv => SignOutHolds
  BY DEF PageInv, QuietAfterSignOut, SignOutHolds
<1> QED
  BY <1>1, PageInvariant, PTL

-----------------------------------------------------------------------------
(* The sessions of the page's operator and of the others.                  *)

\* What a page asks of the server is to its sessions a request, a logout or a sign-in
\* of some session that exists, or nothing.
LEMMA ServeIsSessionStep ==
  ASSUME PageInv, SessionsHold, NEW c \in Calls, Serve(c)
  PROVE  \/ (UNCHANGED sessionVars /\ UNCHANGED clock)
         \/ (CreateSession /\ UNCHANGED clock)
         \/ \E id \in 1..logins : Request(id) \/ Logout(id)
<1>1. /\ UNCHANGED <<clock, attemptVars, restarts>>
      /\ AuthTypeOK /\ calls[c].cookie \in 0..MaxLogins
  BY DEF Serve, PageInv, PageTypes, CallRecords
<1>2. ASSUME NEW id \in 0..MaxLogins, Alive(id) PROVE id \in 1..logins
  BY <1>1, <1>2 DEF Alive, SessionsHold, SessionsAreUsed, Held, AuthTypeOK
<1>3. ASSUME NEW id \in 0..MaxLogins, Authenticate(id)
      PROVE  UNCHANGED sessionVars \/ (Request(id) /\ id \in 1..logins)
  <2>1. CASE id \in 1..logins
    BY <1>1, <1>3, <2>1 DEF Request
  <2>2. CASE id \notin 1..logins
    <3>1. ~Alive(id) /\ \A s \in Ids : s = id => sessions[s] = 0
      BY <1>2, <2>2 DEF SessionsHold, SessionsAreUsed, Held
    <3>2. sessions' = [s \in Ids |-> IF s = id THEN 0 ELSE sessions[s]]
      BY <1>3, <3>1 DEF Authenticate
    <3>3. sessions' = sessions
      BY <1>1, <3>1, <3>2 DEF AuthTypeOK
    <3> QED
      BY <1>3, <3>1, <3>3 DEF Authenticate, sessionVars
  <2> QED
    BY <2>1, <2>2
<1>4. CASE \E id \in 0..MaxLogins : Authenticate(id)
  BY <1>1, <1>3, <1>4
<1>5. CASE ServeLogout(c)
  <2>1. Logout(calls[c].cookie) /\ calls[c].cookie \in 1..logins
    BY <1>1, <1>2, <1>5 DEF ServeLogout, Logout
  <2> QED
    BY <2>1
<1>6. CASE ServeLogin(c)
  BY <1>1, <1>6 DEF ServeLogin
<1> QED
  BY <1>1, <1>4, <1>5, <1>6 DEF Serve, Refused, ServeRead, RejectCsrf, ServeSave

LEMMA PageKeepsSessions ==
  PageInv /\ SessionsHold /\ [Next]_vars => SessionsHold'
<1> SUFFICES ASSUME PageInv, SessionsHold, [Next]_vars PROVE SessionsHold'
  OBVIOUS
<1>1. AuthTypeOK
  BY DEF PageInv, PageTypes
<1>2. CASE UNCHANGED sessionVars /\ UNCHANGED clock
  BY <1>2 DEF SessionsHold, SessionsAreUsed, AliveWhileUsed, Alive, Held, sessionVars
<1>3. CASE CreateSession /\ UNCHANGED clock
  BY <1>1, <1>3, CreateHolds
<1>4. CASE \E id \in 1..logins : Request(id) \/ Logout(id)
  BY <1>1, <1>4, RequestHolds, LogoutHolds
<1>5. CASE Elsewhere
  <2>1. CASE Restart
    BY <1>1, <2>1, RestartHolds
  <2>2. CASE Tick
    BY <1>1, <2>2, TickHolds
  <2> QED
    BY <1>3, <1>5, <2>1, <2>2 DEF Elsewhere
<1>6. ASSUME NEW c \in Calls, Serve(c) PROVE SessionsHold'
  BY <1>2, <1>3, <1>4, <1>6, ServeIsSessionStep
<1>7. CASE UNCHANGED authVars
  BY <1>2, <1>7 DEF authVars
<1>8. CASE \E c \in Calls : Refresh(c) \/ SignOut(c) \/ Save(c) \/ SignIn(c) \/ Lose(c) \/ Receive(c)
  BY <1>7, <1>8 DEF Refresh, SignOut, Save, SignIn, Send, Lose, Receive
<1>9. CASE Dismiss \/ UNCHANGED vars
  BY <1>7, <1>9 DEF Dismiss, vars
<1> QED
  BY <1>5, <1>6, <1>8, <1>9 DEF Next

\* In the server that the page talks to, with the cookies it may still send after a
\* sign-out, an expiry or a restart, a session that is used is lost for the reasons
\* of AliveWhileUsed only, and one that has ended is never alive again.
THEOREM PageSessionsLive == Spec => []AliveWhileUsed
<1>1. Init => SessionsHold
  <2> SUFFICES ASSUME Init PROVE SessionsHold
    OBVIOUS
  <2>1. /\ clock = 1 /\ endedBy = {} /\ logins \in {0, 1}
        /\ \A id \in Ids : /\ sessions[id] = IF id <= logins THEN clock + SessionTtl ELSE 0
                           /\ lastUse[id] = IF id <= logins THEN clock ELSE 0
    BY DEF Init
  <2>2. Held = 1..logins /\ 1..logins \subseteq Ids
    BY <2>1 DEF Held, Ids
  <2>3. Cardinality(Held) = logins
    <3>1. Cardinality(1..logins) = IF 1 > logins THEN 0 ELSE logins - 1 + 1
      BY <2>1, FS_Interval
    <3> QED
      BY <2>1, <2>2, <3>1
  <2>4. SessionsAreUsed
    BY <2>1, <2>2 DEF SessionsAreUsed
  <2>5. AliveWhileUsed
    BY <2>1, <2>2 DEF AliveWhileUsed, Alive
  <2> QED
    BY <2>1, <2>3, <2>4, <2>5 DEF SessionsHold
<1>2. SessionsHold => AliveWhileUsed
  BY DEF SessionsHold
<1> QED
  BY <1>1, <1>2, PageInit, PageStep, PageKeepsSessions, PTL DEF Spec

-----------------------------------------------------------------------------
(* The loading screen.                                                     *)

\* While the page shows "Loading control plane", a request is under way whose
\* continuation takes it off: the part of LoadingEnds that needs no fairness.
LoadingIsAwaited == Screen = "loading" => \E c \in Calls : calls[c].kind \in {"session", "load"}

\* A continuation leaves no loading screen, or another load with it.
LEMMA ReceiveIsAwaited ==
  ASSUME PageInv, LoadingIsAwaited, NEW c \in Calls, Receive(c)
  PROVE  LoadingIsAwaited'
<1>1. /\ calls \in [Calls -> CallRecords] /\ CallHolds(calls[c]) /\ calls[c] # NoCall
      /\ calls[c].status # "none"
      /\ ui \in [authenticated : BOOLEAN, overview : 0..(MaxSaves + 1), error : BOOLEAN,
                 mode : {"local", "session"}, crashed : BOOLEAN]
  BY DEF Receive, NoCall, PageInv, PageTypes, CallsHold
<1>2. CASE \E id \in 0..MaxLogins : Enter(c, id)
  <2>1. PICK id \in 0..MaxLogins : Enter(c, id)
    BY <1>2
  <2>2. calls'[c].kind = "load"
    BY <1>1, <2>1 DEF Enter, Unmounted, Call, NoCall
  <2> QED
    BY <2>2 DEF LoadingIsAwaited
<1>3. CASE calls[c].status = "ok" /\ Loaded(c)
  BY <1>1, <1>3 DEF Loaded, CallHolds, Screen, LoadingIsAwaited
<1>4. CASE calls[c].status = "ok" /\ SignedOut(c)
  BY <1>1, <1>4 DEF SignedOut, Screen, LoadingIsAwaited
<1>5. CASE calls[c].status = "ok" /\ Saved(c)
  BY <1>1, <1>5 DEF Saved, CallHolds, Screen, LoadingIsAwaited
<1>6. CASE Fail(c)
  <2>1. CASE calls[c].kind \in {"session", "load", "logout"}
    <3>1. ~ui'.authenticated \/ ui'.error
      BY <1>1, <1>6, <2>1 DEF Fail
    <3> QED
      BY <3>1 DEF Screen, LoadingIsAwaited
  <2>2. CASE calls[c].kind \notin {"session", "load", "logout"}
    <3>1. ui' = ui /\ Done(c)
      BY <1>6, <2>2 DEF Fail
    <3>2. \A d \in Calls \ {c} : calls'[d].kind = calls[d].kind
      BY <1>1, <3>1 DEF Done, Unmounted, CallRecords
    <3> QED
      BY <2>2, <3>1, <3>2 DEF Screen, LoadingIsAwaited
  <2> QED
    BY <2>1, <2>2
<1>7. CASE calls[c].status = "ok" /\ SessionKnown(c)
  <2>1. Carried \in 0..MaxLogins
    BY CarriedIsCookie DEF PageInv
  <2> QED
    BY <1>2, <1>7, <2>1 DEF SessionKnown
<1>8. CASE calls[c].status = "ok" /\ SignedIn(c)
  <2>1. calls[c].data \in 0..MaxLogins
    BY <1>1, <1>8 DEF SignedIn, CallHolds, Ids
  <2> QED
    BY <1>2, <1>8, <2>1 DEF SignedIn
<1> QED
  BY <1>3, <1>4, <1>5, <1>6, <1>7, <1>8 DEF Receive

LEMMA LoadingStep == PageInv /\ LoadingIsAwaited /\ [Next]_vars => LoadingIsAwaited'
<1> SUFFICES ASSUME PageInv, LoadingIsAwaited, [Next]_vars PROVE LoadingIsAwaited'
  OBVIOUS
<1>1. /\ calls \in [Calls -> CallRecords]
      /\ ui \in [authenticated : BOOLEAN, overview : 0..(MaxSaves + 1), error : BOOLEAN,
                 mode : {"local", "session"}, crashed : BOOLEAN]
  BY DEF PageInv, PageTypes
<1>2. ASSUME ui' = ui, \A c \in Calls : calls'[c].kind = calls[c].kind
      PROVE  LoadingIsAwaited'
  BY <1>2 DEF LoadingIsAwaited, Screen
<1>3. ASSUME NEW c \in Calls, Refresh(c) PROVE LoadingIsAwaited'
  <2>1. calls'[c].kind = "load"
    BY <1>1, <1>3 DEF Refresh, Send, Call, NoCall
  <2> QED
    BY <2>1 DEF LoadingIsAwaited
<1>4. ASSUME NEW c \in Calls, SignOut(c) \/ Save(c) \/ SignIn(c) PROVE LoadingIsAwaited'
  <2>1. Screen # "loading" /\ ui' = ui
    BY <1>4 DEF SignOut, Save, SignIn
  <2> QED
    BY <2>1 DEF LoadingIsAwaited, Screen
<1>5. ASSUME NEW c \in Calls, NEW status, NEW data, Answered(c, status, data), ui' = ui
      PROVE  LoadingIsAwaited'
  <2>1. \A d \in Calls : calls'[d].kind = calls[d].kind
    BY <1>1, <1>5 DEF Answered, CallRecords
  <2> QED
    BY <1>2, <1>5, <2>1
<1>6. ASSUME NEW c \in Calls, Serve(c) PROVE LoadingIsAwaited'
  <2>1. ui' = ui
    BY <1>6 DEF Serve
  <2> QED
    BY <1>5, <1>6, <2>1, ServeAnswers
<1>7. ASSUME NEW c \in Calls, Lose(c) PROVE LoadingIsAwaited'
  <2>1. Answered(c, "failed", 0) /\ ui' = ui
    BY <1>7 DEF Lose
  <2> QED
    BY <1>5, <2>1
<1>8. CASE Dismiss
  <2>1. Screen = "dashboard" /\ ui' = [ui EXCEPT !.error = FALSE]
    BY <1>8 DEF Dismiss
  <2>2. Screen' = "dashboard"
    BY <1>1, <2>1 DEF Screen
  <2> QED
    BY <2>2 DEF LoadingIsAwaited
<1>9. CASE Elsewhere \/ UNCHANGED vars
  BY <1>2, <1>9 DEF Elsewhere, vars, pageVars
<1> QED
  BY <1>3, <1>4, <1>6, <1>7, <1>8, <1>9, ReceiveIsAwaited DEF Next

\* However answers, losses, sign-ins and sign-outs overlap, the page never waits at
\* "Loading control plane" for nothing (load, login, logout, onSaved).
THEOREM LoadingAwaited == Spec => []LoadingIsAwaited
<1>1. Init => LoadingIsAwaited
  <2> SUFFICES ASSUME Init PROVE \E c \in Calls : calls[c].kind \in {"session", "load"}
    BY DEF LoadingIsAwaited
  <2>1. PICK c \in Calls : calls = [d \in Calls |-> IF d = c THEN Call("session", logins, 0) ELSE NoCall]
    BY DEF Init
  <2> QED
    BY <2>1 DEF Call, NoCall
<1> QED
  BY <1>1, PageInit, PageStep, LoadingStep, PTL DEF Spec

=============================================================================
