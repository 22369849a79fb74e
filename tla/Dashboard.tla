----------------------------- MODULE Dashboard -----------------------------
(***************************************************************************)
(* The web dashboard in public mode, src/web/src/App.jsx and api.js, over  *)
(* the routes of src/src/control/server.js: one page whose requests are    *)
(* answered in any order, and lost, while other operators sign in and the  *)
(* server restarts.                                                        *)
(*                                                                         *)
(* A session's CSRF token is as good as its id and is written as that.     *)
(* The policy is the number of its last save, the overview the policy it   *)
(* shows.  A continuation of a request is one step: React applies the      *)
(* updates of one in the order they were made, those of a transition too.  *)
(***************************************************************************)
EXTENDS Sessions

CONSTANTS
  Calls,       \* bound: the requests of the page at a time
  MaxSaves,    \* bound: policies saved
  MaxLost      \* bound: requests that fail on the network

ASSUME PageAssumption == MaxLogins > 0 /\ MaxSaves \in Nat /\ MaxLost \in Nat

VARIABLES
  cookie,      \* gcc_session of the browser, and until when it is kept
  token,       \* csrfToken of api.js; 0 is none
  ui,          \* the state of App
  calls,       \* the requests whose continuation is to come
  policy,      \* of the control service: saves so far
  lost,
  signedOut    \* history: "alone" or "overlapped" after a sign-out that was confirmed
               \* without, or with, other requests under way; "no" from a sign-in on

pageVars == <<cookie, token, ui, calls, signedOut>>
vars == <<authVars, pageVars, policy, lost>>

NoCall == [kind |-> "none", cookie |-> 0, token |-> 0, mounted |-> FALSE,
           status |-> "none", data |-> 0]

\* What App renders.
Screen ==
  IF ui.crashed THEN "blank"
  ELSE IF ~ui.authenticated THEN "login"
  ELSE IF ui.overview # 0 THEN "dashboard"
  ELSE IF ui.error THEN "fatal"
  ELSE "loading"

TypeOK ==
  /\ AuthTypeOK
  /\ cookie \in [id : 0..MaxLogins, until : Nat] /\ token \in 0..MaxLogins
  /\ ui \in [authenticated : BOOLEAN, overview : 0..(MaxSaves + 1), error : BOOLEAN,
             mode : {"local", "session"}, crashed : BOOLEAN]
  /\ calls \in [Calls ->
       [kind : {"none", "session", "load", "login", "logout", "save"},
        cookie : 0..MaxLogins, token : 0..MaxLogins, mounted : BOOLEAN,
        status : {"none", "sent", "ok", "unauthorized", "forbidden", "failed"},
        data : Nat]]
  /\ policy \in 1..(MaxSaves + 1) /\ lost \in 0..MaxLost
  /\ signedOut \in {"no", "alone", "overlapped"}
  /\ \A c \in Calls :   \* a form that waits is on the screen
       calls[c].mounted => /\ calls[c].kind = "save"  => Screen = "dashboard"
                           /\ calls[c].kind = "login" => Screen = "login"

-----------------------------------------------------------------------------
(* The page.                                                               *)

\* The cookie that goes with a request.
Carried == IF clock < cookie.until THEN cookie.id ELSE 0

\* fetch, with the cookie and the token of the moment.
Call(kind, id, csrf) ==
  [NoCall EXCEPT !.kind = kind, !.cookie = id, !.token = csrf, !.mounted = TRUE,
                 !.status = "sent"]

Send(c, kind) ==
  /\ calls[c] = NoCall
  /\ calls' = [calls EXCEPT ![c] = Call(kind, Carried, token)]
  /\ UNCHANGED <<authVars, cookie, token, policy, lost>>

\* A form that waits for its own request is not submitted again.
Waiting(kind) == \E c \in Calls : calls[c].kind = kind /\ calls[c].mounted

\* load: Refresh, or Retry on the page that says what is wrong.
Refresh(c) ==
  /\ Screen \in {"dashboard", "fatal"}
  /\ ui' = [ui EXCEPT !.error = FALSE]
  /\ Send(c, "load") /\ UNCHANGED signedOut

Dismiss ==
  /\ Screen = "dashboard" /\ ui.error
  /\ ui' = [ui EXCEPT !.error = FALSE]
  /\ UNCHANGED <<authVars, cookie, token, calls, policy, lost, signedOut>>

SignOut(c) ==
  /\ Screen = "dashboard" /\ ui.mode = "session"
  /\ Send(c, "logout") /\ UNCHANGED <<ui, signedOut>>

Save(c) ==
  /\ Screen = "dashboard" /\ ~Waiting("save")
  /\ Send(c, "save") /\ UNCHANGED <<ui, signedOut>>

SignIn(c) ==
  /\ Screen = "login" /\ ~Waiting("login")
  /\ signedOut' = "no"
  /\ Send(c, "login") /\ UNCHANGED ui

-----------------------------------------------------------------------------
(* The server.                                                             *)

Answered(c, status, data) ==
  calls' = [calls EXCEPT ![c].status = status, ![c].data = data]

\* requireIdentity.
Refused(c) ==
  /\ ~Alive(calls[c].cookie)
  /\ Authenticate(calls[c].cookie)
  /\ Answered(c, "unauthorized", 0) /\ UNCHANGED policy

ServeRead(c) ==
  /\ calls[c].kind \in {"session", "load"} /\ Alive(calls[c].cookie)
  /\ Authenticate(calls[c].cookie)
  /\ Answered(c, "ok", IF calls[c].kind = "session" THEN calls[c].cookie ELSE policy)
  /\ UNCHANGED policy

\* validCsrf.
ValidCsrf(c) == calls[c].token = calls[c].cookie

RejectCsrf(c) ==
  /\ calls[c].kind \in {"logout", "save"} /\ Alive(calls[c].cookie) /\ ~ValidCsrf(c)
  /\ Authenticate(calls[c].cookie)
  /\ Answered(c, "forbidden", 0) /\ UNCHANGED policy

ServeLogout(c) ==
  /\ calls[c].kind = "logout" /\ Alive(calls[c].cookie) /\ ValidCsrf(c)
  /\ EndSession(calls[c].cookie)
  /\ Answered(c, "ok", 0) /\ UNCHANGED policy

\* PUT /api/v1/policy, saved or found invalid.
ServeSave(c) ==
  /\ calls[c].kind = "save" /\ Alive(calls[c].cookie) /\ ValidCsrf(c)
  /\ Authenticate(calls[c].cookie)
  /\ \/ /\ policy <= MaxSaves
        /\ policy' = policy + 1
        /\ Answered(c, "ok", policy + 1)
     \/ Answered(c, "failed", 0) /\ UNCHANGED policy

\* POST /api/v1/session; Sessions has the attempts.
ServeLogin(c) ==
  /\ calls[c].kind = "login"
  /\ \/ CreateSession /\ Answered(c, "ok", logins')
     \/ Answered(c, "unauthorized", 0) /\ UNCHANGED sessionVars
  /\ UNCHANGED policy

Serve(c) ==
  /\ calls[c].status = "sent"
  /\ \/ calls[c].kind # "login" /\ Refused(c)
     \/ ServeRead(c) \/ RejectCsrf(c) \/ ServeLogout(c) \/ ServeSave(c) \/ ServeLogin(c)
  /\ UNCHANGED <<clock, attemptVars, restarts, cookie, token, ui, lost, signedOut>>

\* The connection fails, before or after the server has done its part.
Lose(c) ==
  /\ calls[c].kind # "none" /\ lost < MaxLost
  /\ lost' = lost + 1
  /\ Answered(c, "failed", 0)
  /\ UNCHANGED <<authVars, cookie, token, ui, policy, signedOut>>

-----------------------------------------------------------------------------
(* The continuations.                                                      *)

\* Mutant of Unmounted: a form goes on waiting after it was taken off the screen.
UnmountedNever(others) == others

\* A form that is no longer on the screen has lost its state.
Unmounted(others) ==
  [c \in Calls |->
     [others[c] EXCEPT !.mounted =
        @ /\ (others[c].kind = "save"  => Screen' = "dashboard")
          /\ (others[c].kind = "login" => Screen' = "login")]]

Done(c) == calls' = Unmounted([calls EXCEPT ![c] = NoCall])

\* Mutant of Fail: a refused session is noticed, any other error is not shown.
FailSilently(c) ==
  /\ ui' = IF calls[c].status = "unauthorized" /\ calls[c].kind \in {"session", "load"}
           THEN [ui EXCEPT !.authenticated = FALSE] ELSE ui
  /\ Done(c) /\ UNCHANGED <<cookie, token, signedOut>>

Fail(c) ==
  /\ ui' = IF calls[c].status = "unauthorized" /\ calls[c].kind \in {"session", "load"}
           THEN [ui EXCEPT !.authenticated = FALSE]
           ELSE IF calls[c].kind \in {"session", "load", "logout"}
           THEN [ui EXCEPT !.error = TRUE]
           ELSE ui
  /\ Done(c) /\ UNCHANGED <<cookie, token, signedOut>>

\* Mutant of Enter: a page that has a token does not take another one.
EnterWithFirstToken(c, id) ==
  /\ token' = IF token = 0 THEN calls[c].data ELSE token
  /\ ui' = [ui EXCEPT !.mode = "session", !.error = FALSE,
                      !.authenticated = @ \/ calls[c].kind = "login"]
  /\ calls' = Unmounted([calls EXCEPT ![c] = Call("load", id, token')])

\* The session is known: by the page's first request, which leaves authenticated
\* alone, or by a sign-in.  load() follows.
Enter(c, id) ==
  /\ token' = calls[c].data
  /\ ui' = [ui EXCEPT !.mode = "session", !.error = FALSE,
                      !.authenticated = @ \/ calls[c].kind = "login"]
  /\ calls' = Unmounted([calls EXCEPT ![c] = Call("load", id, token')])

SessionKnown(c) ==
  /\ calls[c].kind = "session"
  /\ Enter(c, Carried) /\ UNCHANGED <<cookie, signedOut>>

SignedIn(c) ==
  /\ calls[c].kind = "login"
  /\ cookie' = [id |-> calls[c].data, until |-> clock + SessionTtl]
  /\ Enter(c, calls[c].data) /\ UNCHANGED signedOut

Loaded(c) ==
  /\ calls[c].kind = "load"
  /\ ui' = [ui EXCEPT !.overview = calls[c].data, !.authenticated = TRUE]
  /\ Done(c) /\ UNCHANGED <<cookie, token, signedOut>>

EndVisit(c) ==
  signedOut' = IF \E other \in Calls \ {c} : calls[other] # NoCall THEN "overlapped" ELSE "alone"

\* Mutant of SignedOut: the overview is gone, and nothing asks for the login.
SignedOutToLoading(c) ==
  /\ calls[c].kind = "logout"
  /\ cookie' = [id |-> 0, until |-> 0] /\ token' = 0 /\ EndVisit(c)
  /\ ui' = [ui EXCEPT !.overview = 0]
  /\ Done(c)

SignedOut(c) ==
  /\ calls[c].kind = "logout"
  /\ cookie' = [id |-> 0, until |-> 0] /\ token' = 0 /\ EndVisit(c)
  /\ ui' = [ui EXCEPT !.overview = 0, !.authenticated = FALSE]
  /\ Done(c)

\* onSaved: without an overview there is no budget to put the threshold in.
Saved(c) ==
  /\ calls[c].kind = "save"
  /\ ui' = IF ui.overview = 0 THEN [ui EXCEPT !.crashed = TRUE]
           ELSE [ui EXCEPT !.overview = calls[c].data]
  /\ Done(c) /\ UNCHANGED <<cookie, token, signedOut>>

Receive(c) ==
  /\ calls[c].status \notin {"none", "sent"} /\ ~ui.crashed
  /\ IF calls[c].status = "ok"
     THEN SessionKnown(c) \/ SignedIn(c) \/ Loaded(c) \/ SignedOut(c) \/ Saved(c)
     ELSE Fail(c)
  /\ UNCHANGED <<authVars, policy, lost>>

-----------------------------------------------------------------------------

\* The page is opened, without a cookie or with one of an earlier visit.
Init ==
  /\ clock = 1 /\ restarts = 0 /\ endedBy = {}
  /\ attempts = [c \in Clients |-> NoAttempt] /\ failures = [c \in Clients |-> NoFailure]
  /\ logins \in {0, 1}
  /\ sessions = [id \in Ids |-> IF id <= logins THEN clock + SessionTtl ELSE 0]
  /\ lastUse  = [id \in Ids |-> IF id <= logins THEN clock ELSE 0]
  /\ cookie = [id |-> logins, until |-> IF logins = 0 THEN 0 ELSE clock + SessionTtl]
  /\ token = 0 /\ policy = 1 /\ lost = 0 /\ signedOut = "no"
  /\ ui = [authenticated |-> TRUE, overview |-> 0, error |-> FALSE, mode |-> "local",
           crashed |-> FALSE]
  /\ \E c \in Calls : calls = [d \in Calls |-> IF d = c THEN Call("session", logins, 0) ELSE NoCall]

\* Another operator signs in, the server restarts, time passes.
Elsewhere ==
  /\ \/ CreateSession /\ UNCHANGED <<clock, attemptVars, restarts>>
     \/ Restart
     \/ Tick
  /\ UNCHANGED <<pageVars, policy, lost>>

Next ==
  \/ \E c \in Calls : \/ Refresh(c) \/ SignOut(c) \/ Save(c) \/ SignIn(c)
                      \/ Serve(c) \/ Lose(c) \/ Receive(c)
  \/ Dismiss
  \/ Elsewhere

Spec == Init /\ [][Next]_vars

\* A request is answered or fails: every call of the service has a deadline.
FairSpec == Spec /\ \A c \in Calls : WF_vars(Serve(c)) /\ WF_vars(Receive(c))

-----------------------------------------------------------------------------
(* Properties.                                                             *)

\* A token that the page has is that of the session its cookie is for, however
\* sign-outs and sign-ins overlap: no request with a token is turned away for it
\* (api.js, validCsrf).
TokenIsCurrent ==
  \A c \in Calls : calls[c].status = "forbidden" => calls[c].token = 0

\* The page does not stay at "Loading control plane": every path that clears the
\* error or the overview has a request under way, or leads to the login (App).
LoadingEnds == Screen = "loading" ~> Screen # "loading"

\* A sign-out that finds no other request under way leaves the page at the login
\* until the next sign-in, whatever else happens (logout, load, onSaved).
SignOutHolds == signedOut = "alone" => Screen = "login"

-----------------------------------------------------------------------------
(* What the documentation says of the page.                                *)

\* docs/UI_ACTION_AUDIT.md, Sign out: "CSRF-protected session deletion and
\* immediate return to login".
SignOutReturnsToLogin == signedOut # "no" => Screen = "login"

\* docs/UI_ACTION_AUDIT.md: "a real policy save and immediate threshold update".
\* What was saved is not replaced on the page by an older policy.
ShownPolicyNotOlder ==
  [][ui'.overview # 0 => ui'.overview >= ui.overview]_vars

\* docs/UI_ACTION_AUDIT.md: "No visible command is a placeholder", and Save is a
\* "CSRF-protected PUT /api/v1/policy": the page sends what the server asks for.
CommandsCarryToken == \A c \in Calls : calls[c].status # "forbidden"

=============================================================================
