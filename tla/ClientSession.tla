--------------------------- MODULE ClientSession ----------------------------
(***************************************************************************)
(* The web client on top of the session service: one page that keeps the   *)
(* access token in memory, and the browser that keeps the refresh cookie.  *)
(* Every call of the page goes through request(), which on a 401 refreshes *)
(* once and repeats the call; nothing keeps two calls from doing so at the *)
(* same time.  The server is Sessions: a call of the page uses the handler *)
(* of the same name, one exchange after the other, and what the server     *)
(* answers travels back as a message that may be delayed or lost.          *)
(***************************************************************************)
EXTENDS Sessions

CONSTANT
  MaxCalls   \* bounds the calls the page makes

ASSUME MaxCallsAssumption == MaxCalls \in Nat

VARIABLES
  cookie,   \* the session whose refresh token is in the cookie jar
  token,    \* the session named by accessToken
  user,     \* does AuthProvider hold a user?
  call,     \* what each call of the page is doing
  calls,    \* the number of calls made
  resp,     \* the answer on its way to each call
  history   \* what happened that can explain the loss of the session

clientVars == <<cookie, token, user, call, calls, resp, history>>
allVars == <<vars, clientVars>>

(* "load" is the page load, "fetch" any request of a page; loadMe follows  *)
(* a page load and a login.                                                *)
Me == {"loadMe", "loginMe"}
Path == {"load", "login", "fetch", "logout"} \cup Me
NoCall == [path |-> "none", stage |-> "none"]
Call == [path: Path, stage: {"first", "refresh", "second"}] \cup {NoCall}

(* status: 2xx (and the refusals that are no 401), 401, 5xx, no answer.    *)
NoAnswer == [status |-> "none", sets |-> FALSE, sid |-> None]
Response == [status: {"none", "ok", "denied", "error", "lost"},
             sets: BOOLEAN, sid: SessionId \cup {None}]

(* Calls overlapped; a call or an answer failed; the page revoked sessions *)
(* other than its own; the cookie's session expired.                       *)
Cause == {"overlap", "fault", "revoked", "expired"}

ClientTypeOK ==
  /\ TypeOK
  /\ cookie \in SessionId \cup {None}
  /\ token \in SessionId \cup {None}
  /\ user \in BOOLEAN
  /\ call \in [Request -> Call]
  /\ calls \in 0 .. MaxCalls
  /\ resp \in [Request -> Response]
  /\ history \in SUBSET Cause

ClientInit ==
  /\ Init
  /\ cookie = None /\ token = None /\ user = FALSE
  /\ call = [r \in Request |-> NoCall] /\ calls = 0
  /\ resp = [r \in Request |-> NoAnswer]
  /\ history = {}

Idle(r) == call[r].path = "none"

-----------------------------------------------------------------------------
(* The server's side: which answer a handler gives when it ends.           *)

Answer(status) == [NoAnswer EXCEPT !.status = status]
SetCookie(status, s) == [status |-> status, sets |-> TRUE, sid |-> s]

(* Mutant: Refresh answers with the user instead of the new session.       *)
OutcomeSwapped(r) ==
  IF pc[r] = "respond" THEN SetCookie("ok", req[r].user) ELSE Answer("ok")

(* Mutant: the rotated token is not put in the cookie.                     *)
OutcomeKeepingCookie(r) ==
  CASE pc[r] = "respond" ->
         [status |-> "ok", sets |-> req[r].op = "login", sid |-> req[r].target]
    [] pc[r] \in {"findUser", "findAny", "purge"} -> SetCookie("denied", None)
    [] pc[r] \in {"logoutFind", "logoutRevoke"} -> SetCookie("ok", None)
    [] pc[r] \in {"findByEmail", "authUser", "touch"} -> Answer("denied")
    [] OTHER -> Answer("ok")

(* Login and Refresh set the cookie; a refused Refresh and every Logout    *)
(* clear it; the middleware and a refused login leave it.                  *)
Outcome(r) ==
  CASE pc[r] = "respond" -> SetCookie("ok", req[r].target)
    [] pc[r] \in {"findUser", "findAny", "purge"} -> SetCookie("denied", None)
    [] pc[r] \in {"logoutFind", "logoutRevoke"} -> SetCookie("ok", None)
    [] pc[r] \in {"findByEmail", "authUser", "touch"} -> Answer("denied")
    [] OTHER -> Answer("ok")

Serve(r) ==
  /\ IF pc[r] = "handler" /\ call[r].path \in Me THEN ReadOnly(r) ELSE Handle(r)
  /\ resp' = IF pc'[r] = "idle" THEN [resp EXCEPT ![r] = Outcome(r)] ELSE resp
  /\ history' = IF pc[r] \in {"handler", "revokeTarget"} /\ sessions' # sessions
                THEN history \cup {"revoked"} ELSE history
  /\ UNCHANGED <<cookie, token, user, call, calls>>

(* The handler fails.  The middleware and Refresh take an error of the     *)
(* user's or the session's statement for a refusal, and a purge that fails *)
(* is only logged; every other error is left to errorHandler, which        *)
(* answers 500.                                                            *)
Failure(r) ==
  IF pc[r] \in {"findUser", "purge", "authUser", "touch"} THEN Outcome(r)
                                                          ELSE Answer("error")

ServeError(r) ==
  /\ Abort(r)
  /\ resp' = [resp EXCEPT ![r] = Failure(r)]
  /\ history' = history \cup {"fault"}
  /\ UNCHANGED <<cookie, token, user, call, calls>>

(* The connection breaks: fetch rejects, whatever the server did.          *)
Lose(r) ==
  /\ Failures
  /\ resp[r].status \notin {"none", "lost"}
  /\ resp' = [resp EXCEPT ![r] = Answer("lost")]
  /\ history' = history \cup {"fault"}
  /\ UNCHANGED <<vars, cookie, token, user, call, calls>>

-----------------------------------------------------------------------------
(* The client's side.  Send is the fetch of rawRequest or tryRefresh, with *)
(* the access token and the cookie of the moment.                          *)

(* The browser drops a cookie past its Expires.                            *)
Jar(ck) == IF ck # None /\ sessions[ck].expires_at > clock THEN ck ELSE None

(* Answered without touching a table.                                      *)
AtOnce(r, status) ==
  resp' = [resp EXCEPT ![r] = Answer(status)] /\ UNCHANGED vars

Accepted(r) == resp' = [resp EXCEPT ![r] = NoAnswer]

(* Bound: with no row left, the INSERT would fail.                         *)
SendRefresh(r, ck) ==
  IF Jar(ck) = None THEN AtOnce(r, "denied")
  ELSE IF ~RoomForSession THEN AtOnce(r, "error")
  ELSE RefreshArrive(r, ck) /\ Accepted(r)

(* Mutant: a logout that goes out without credentials: "include".          *)
SendPathWithoutCookie(r, path, tok, ck) ==
  CASE path = "login" ->
         IF RoomForSession
         THEN (\E u \in User : LoginArrive(r, u)) /\ Accepted(r)
         ELSE AtOnce(r, "error")
    [] path = "logout" -> AtOnce(r, "ok")
    [] OTHER ->
         IF tok # None /\ clock < sessions[tok].jwt_exp
         THEN AuthArrive(r, tok) /\ Accepted(r)
         ELSE AtOnce(r, "denied")

SendPath(r, path, tok, ck) ==
  CASE path = "login" ->
         IF RoomForSession
         THEN (\E u \in User : LoginArrive(r, u)) /\ Accepted(r)
         ELSE AtOnce(r, "error")
    [] path = "logout" ->
         IF Jar(ck) = None THEN AtOnce(r, "ok")
                           ELSE LogoutArrive(r, ck) /\ Accepted(r)
    [] OTHER ->
         IF tok # None /\ clock < sessions[tok].jwt_exp
         THEN AuthArrive(r, tok) /\ Accepted(r)
         ELSE AtOnce(r, "denied")

Becomes(r, path, stage) ==
  call' = [call EXCEPT ![r] = [path |-> path, stage |-> stage]]

(* History of a step that sends.                                           *)
Note(r) ==
  history' = history
    \cup (IF resp'[r].status = "error" THEN {"fault"} ELSE {})
    \cup (IF \E q \in Request \ {r} : ~Idle(q) THEN {"overlap"} ELSE {})

-----------------------------------------------------------------------------
(* Calls begin.  RequireAuth shows the pages, and the logout button, only  *)
(* to a user, and the login page, one login at a time, only to nobody.     *)

Begin(r, path) ==
  /\ Idle(r)
  /\ calls < MaxCalls /\ calls' = calls + 1
  /\ path = "login" => ~user /\ \A q \in Request : call[q].path \notin {"login", "loginMe"}
  /\ path \in {"fetch", "logout"} => user
  /\ SendPath(r, path, token, cookie)
  /\ Becomes(r, path, "first")
  /\ Note(r)
  /\ UNCHANGED <<cookie, token, user>>

(* A page load forgets what was in memory and calls tryRefresh.            *)
PageLoad(r) ==
  /\ \A q \in Request : Idle(q)
  /\ calls < MaxCalls /\ calls' = calls + 1
  /\ SendRefresh(r, cookie)
  /\ Becomes(r, "load", "refresh")
  /\ Note(r)
  /\ token' = None /\ user' = FALSE
  /\ UNCHANGED cookie

-----------------------------------------------------------------------------
(* Answers arrive.  The browser stores the cookie; then request() goes on. *)

NewCookie(r) == IF resp[r].sets THEN resp[r].sid ELSE cookie

Return(r) ==
  /\ call' = [call EXCEPT ![r] = NoCall]
  /\ resp' = [resp EXCEPT ![r] = NoAnswer]
  /\ UNCHANGED <<vars, history>>

(* A 401 to the first attempt: refresh.                                    *)
Refuse(r) ==
  /\ call[r].stage = "first" /\ resp[r].status = "denied"
  /\ SendRefresh(r, NewCookie(r))
  /\ Becomes(r, call[r].path, "refresh")
  /\ Note(r)
  /\ cookie' = NewCookie(r)
  /\ UNCHANGED <<token, user>>

(* Mutant: the call is repeated whether or not the refresh succeeded.      *)
RepeatAnyway(r) ==
  /\ call[r].stage = "refresh" /\ resp[r].status \in {"ok", "denied", "error"}
  /\ SendPath(r, call[r].path, resp[r].sid, NewCookie(r))
  /\ Becomes(r, call[r].path, "first")
  /\ Note(r)
  /\ token' = resp[r].sid
  /\ cookie' = NewCookie(r)
  /\ UNCHANGED user

(* tryRefresh succeeded: repeat the call, or go on with loadMe.            *)
Repeat(r) ==
  /\ call[r].stage = "refresh" /\ resp[r].status = "ok"
  /\ LET next == IF call[r].path = "load" THEN [path |-> "loadMe", stage |-> "first"]
                 ELSE [call[r] EXCEPT !.stage = "second"]
     IN  /\ SendPath(r, next.path, resp[r].sid, NewCookie(r))
         /\ Becomes(r, next.path, next.stage)
  /\ Note(r)
  /\ token' = resp[r].sid
  /\ cookie' = NewCookie(r)
  /\ UNCHANGED user

(* tryRefresh failed: the page goes on without a token.                    *)
GiveUp(r) ==
  /\ call[r].stage = "refresh" /\ resp[r].status \in {"denied", "error"}
  /\ Return(r)
  /\ token' = None
  /\ cookie' = NewCookie(r)
  /\ UNCHANGED user

Final(r) ==
  \/ call[r].stage = "first" /\ resp[r].status \in {"ok", "error"}
  \/ call[r].stage = "second" /\ resp[r].status \in {"ok", "denied", "error"}

(* login() stores the token and goes on with loadMe.                       *)
LoggedIn(r) ==
  /\ Final(r) /\ call[r].path = "login" /\ resp[r].status = "ok"
  /\ SendPath(r, "loginMe", resp[r].sid, NewCookie(r))
  /\ Becomes(r, "loginMe", "first")
  /\ Note(r)
  /\ token' = resp[r].sid
  /\ cookie' = NewCookie(r)
  /\ UNCHANGED user

(* The promise of the call settles; rejected when there was no answer.     *)
(* The finally of logout() runs in every case.                             *)
Settle(r) ==
  /\ Final(r) \/ resp[r].status = "lost"
  /\ ~(call[r].path = "login" /\ resp[r].status = "ok")
  /\ Return(r)
  /\ token' = IF call[r].path = "logout" THEN None ELSE token
  /\ user' = CASE call[r].path = "logout" -> FALSE
              [] call[r].path \in Me /\ resp[r].status = "ok" -> TRUE
              [] OTHER -> user
  /\ cookie' = NewCookie(r)

Receive(r) ==
  /\ resp[r].status # "none"
  /\ Refuse(r) \/ Repeat(r) \/ GiveUp(r) \/ LoggedIn(r) \/ Settle(r)
  /\ UNCHANGED calls

-----------------------------------------------------------------------------
(* Time passes.                                                            *)
ClientTick ==
  /\ Tick
  /\ history' = IF cookie # None /\ sessions[cookie].expires_at <= clock'
                THEN history \cup {"expired"} ELSE history
  /\ UNCHANGED <<cookie, token, user, call, calls, resp>>

-----------------------------------------------------------------------------
ClientNext ==
  \/ ClientTick
  \/ \E r \in Request :
       \/ PageLoad(r)
       \/ \E path \in {"login", "fetch", "logout"} : Begin(r, path)
       \/ Receive(r)
       \/ Lose(r)
       \/ Serve(r)
       \/ ServeError(r)

ClientSpec == ClientInit /\ [][ClientNext]_allVars

-----------------------------------------------------------------------------
(* Properties.                                                             *)

(* The page shows a user and nothing is under way: then its cookie still   *)
(* works, or is past its time.                                             *)
SignedIn ==
  user /\ (\A r \in Request : Idle(r))
    => cookie # None /\ (Usable(cookie) \/ sessions[cookie].expires_at <= clock)

(* A page whose calls never overlapped, on a connection and a server that  *)
(* never failed it, is never signed out by the renewals of request(): the  *)
(* access token and the cookie always name the same, newest session, so    *)
(* neither the rotation nor the reuse detection turns against it.          *)
SequentialPageStaysSignedIn == history \subseteq {"revoked"} => SignedIn

(* docs/frontend.md says of the renewal that the user never notices, and   *)
(* that it fails only when the session was revoked or has expired.         *)
PageStaysSignedIn == history \subseteq {"overlap"} => SignedIn

(* When logout() settles on such a page, nothing is left of the login it   *)
(* ends: no token in memory, no cookie, and no session of its lineage that *)
(* a refresh would accept, although the cookie names the last one only.    *)
(* A login that was repeated because loadMe took longer than two access    *)
(* tokens last is another lineage, whose session logout() does not end.    *)
LogoutLeavesNothing ==
  [][\A r \in Request :
       call[r].path = "logout" /\ call'[r].path = "none"
         /\ history' \subseteq {"revoked"} =>
         /\ token' = None /\ cookie' = None
         /\ \A s \in SessionId :
              sessions[s].root = sessions[cookie].root => ~Usable(s)' ]_allVars

(* No call loops: whatever the answers to it and to other calls are, lost  *)
(* and late ones included, each one consumed takes the call closer to its  *)
(* end, so request() sends at most three fetches and loadMe three more.    *)
Distance(c) ==
  (IF c.path \in {"load", "login"} THEN 3 ELSE 0)
  + (CASE c.stage = "none" -> 0 [] c.stage = "second" -> 1
       [] c.stage = "refresh" -> 2 [] c.stage = "first" -> 3)

CallsAdvance ==
  [][\A r \in Request :
       ~Idle(r) => \/ call'[r] = call[r] /\ (resp[r] # NoAnswer => resp'[r] # NoAnswer)
                  \/ Distance(call'[r]) < Distance(call[r])]_allVars

=============================================================================
