------------------------ MODULE ClientSessionProofs ------------------------
(***************************************************************************)
(* Proofs about ClientSession, for any number of users, rows, calls in     *)
(* flight and calls made, and any times to live: every step of the page or *)
(* its server is a step of Sessions, whose invariant is used here, and a   *)
(* page whose calls do not overlap and never fail keeps its session.       *)
(***************************************************************************)
EXTENDS ClientSession, SessionsSafetyProofs

-----------------------------------------------------------------------------
(* The inductive invariant.                                                *)

(* The operation a call asks of the server.                                *)
Asks(c) ==
  IF c.stage = "refresh" THEN "refresh"
  ELSE IF c.path \in {"login", "logout"} THEN c.path ELSE "protected"

(* A call under way is with its handler or has an answer on its way.       *)
Exchange(r) ==
  /\ resp[r].status = "none" => resp[r] = NoAnswer
  /\ Idle(r) => pc[r] = "idle" /\ resp[r] = NoAnswer
  /\ ~Idle(r) => (pc[r] = "idle" <=> resp[r].status # "none")
  /\ pc[r] # "idle" => req[r].op = Asks(call[r])

(* The page changes no account, and no row outlives one minted now.        *)
Server ==
  /\ \A u \in User : active[u]
  /\ \A s \in Used : sessions[s].expires_at <= clock + RefreshTTL

-----------------------------------------------------------------------------
(* The page while its calls did not overlap and nothing failed.            *)
Sequential == history \subseteq {"revoked"}

(* s is the only live session of its lineage; the lineage of s has none.   *)
Sole(s) ==
  /\ s \in Used /\ sessions[s].state = "live"
  /\ \A t \in SessionId :
       sessions[t].state = "live" /\ sessions[t].root = sessions[s].root => t = s

Gone(s) ==
  \A t \in SessionId : sessions[t].root = sessions[s].root => sessions[t].state # "live"

(* The cookie, if any, is the one session left of its lineage; and it has  *)
(* not expired.                                                            *)
Kept == cookie # None => Sole(cookie)
Fresh == cookie \in Used /\ sessions[cookie].expires_at > clock

(* s takes the place of the cookie, and lasts at least as long.            *)
Renews(s) ==
  Fresh /\ Sole(s) /\ sessions[cookie].expires_at <= sessions[s].expires_at

(* A call with its handler.                                                *)
Handled(r) ==
  /\ req[r].op # "login" => Fresh /\ req[r].sid = cookie
  /\ pc[r] # "createSession" /\ pc[r] # "respond" => Kept
  /\ pc[r] \in {"createSession", "respond"} =>
       IF req[r].op = "login"
       THEN Kept /\ (pc[r] = "respond" => Sole(req[r].target))
       ELSE IF pc[r] = "respond" THEN Renews(req[r].target) ELSE Gone(cookie)
  /\ pc[r] \notin {"findAny", "purge"}

(* A call with its answer.                                                 *)
Answered(r) ==
  CASE call[r].stage = "refresh" ->
         \/ resp[r].status = "ok" /\ resp[r].sets /\ Renews(resp[r].sid)
         \/ resp[r].status = "denied" /\ ~resp[r].sets /\ Kept /\ ~Fresh
    [] call[r].stage # "refresh" /\ call[r].path = "login" ->
         \/ resp[r].status = "ok" /\ resp[r].sets /\ Kept /\ Sole(resp[r].sid)
         \/ resp[r].status = "denied" /\ ~resp[r].sets /\ Kept
    [] call[r].stage # "refresh" /\ call[r].path = "logout" ->
         resp[r] = SetCookie("ok", None) /\ Fresh /\ Gone(cookie)
    [] OTHER ->
         /\ resp[r].status \in {"ok", "denied"} /\ ~resp[r].sets /\ Kept
         /\ resp[r].status = "ok" => Fresh

Page ==
  /\ \A r, q \in Request : ~Idle(r) /\ ~Idle(q) => r = q
  /\ token \in {None, cookie}
  /\ user => Fresh
  /\ (\A r \in Request : Idle(r)) => Kept
  /\ \A r \in Request : ~Idle(r) =>
       /\ IF pc[r] = "idle" THEN Answered(r) ELSE Handled(r)
       /\ call[r].path = "login" => ~user
       /\ call[r].path = "logout" => user /\ call[r].stage = "first"

ClientInv ==
  /\ SafetyInv
  /\ ClientTypeOK
  /\ \A r \in Request : Exchange(r)
  /\ Server
  /\ Sequential => Page

LEMMA ClientStart == ClientInit => ClientInv
<1> SUFFICES ASSUME ClientInit PROVE ClientInv
  OBVIOUS
<1>1. SafetyInv /\ TypeOK
  BY SafetyInit DEF ClientInit, SafetyInv, LineageInv
<1>2. NoAnswer \in Response /\ NoCall \in Call /\ 0 \in 0 .. MaxCalls
  BY MaxCallsAssumption DEF NoAnswer, Response, NoCall, Call
<1>3. ClientTypeOK
  BY <1>1, <1>2 DEF ClientInit, ClientTypeOK
<1>4. \A r \in Request : Idle(r) /\ Exchange(r)
  BY DEF ClientInit, Init, Idle, NoCall, Exchange, NoAnswer
<1>5. Server
  BY DEF ClientInit, Init, Server, Used, NoSession
<1>6. Page
  BY <1>4 DEF ClientInit, Page, Kept
<1> QED
  BY <1>1, <1>3, <1>4, <1>5, <1>6 DEF ClientInv

-----------------------------------------------------------------------------
(* What a call sends: answered without touching a table, or a handler.     *)

Told(r, status) ==
  UNCHANGED vars /\ resp' = [resp EXCEPT ![r] = Answer(status)]

Arrived(r, op, s) ==
  /\ Arrive(r) /\ resp' = [resp EXCEPT ![r] = NoAnswer]
  /\ UNCHANGED <<clock, active, sessions, issued, cleaner, ended>>
  /\ pc[r] = "idle"
  /\ pc'[r] \in {"findByEmail", "findActive", "logoutFind", "authUser"}
  /\ req'[r].op = op
  /\ op # "login" => req'[r].sid = s
  /\ op = "protected" => clock < sessions[s].jwt_exp
  /\ \A q \in Request \ {r} : pc'[q] = pc[q] /\ req'[q] = req[q]

LEMMA ArrivedWith ==
  ASSUME TypeOK, NEW r \in Request, NEW l \in Pc, NEW x \in Local, Start(r, l, x),
         l \in {"findByEmail", "findActive", "logoutFind", "authUser"},
         UNCHANGED <<clock, active, sessions, issued, cleaner, ended>>,
         Arrive(r), resp' = [resp EXCEPT ![r] = NoAnswer],
         NEW op, NEW s, x.op = op, op # "login" => x.sid = s,
         op = "protected" => clock < sessions[s].jwt_exp
  PROVE  Arrived(r, op, s)
<1>1. pc[r] = "idle"
  BY DEF Start
<1> QED
  BY <1>1, StartFacts DEF Arrived

LEMMA LoginArrives ==
  ASSUME LineageInv, NEW r \in Request, NEW u \in User, LoginArrive(r, u), Accepted(r)
  PROVE  Arrived(r, "login", None)
<1> DEFINE x == [NoRequest EXCEPT !.op = "login", !.user = u,
                                  !.sawLive = TRUE, !.sawActive = active[u]]
<1>1. x \in Local /\ x.op = "login"
  BY DEF NoRequest, Local, Op, LineageInv, TypeOK
<1>2. Start(r, "findByEmail", x)
      /\ UNCHANGED <<clock, active, sessions, issued, cleaner, ended>>
  BY DEF LoginArrive
<1>3. Arrive(r) /\ "findByEmail" \in Pc
  BY DEF Arrive, Pc
<1> HIDE DEF x
<1> QED
  BY <1>1, <1>2, <1>3, ArrivedWith DEF LineageInv, Accepted

LEMMA RefreshArrives ==
  ASSUME LineageInv, NEW r \in Request, NEW s \in SessionId, RefreshArrive(r, s),
         Accepted(r)
  PROVE  Arrived(r, "refresh", s)
<1> DEFINE x == [NoRequest EXCEPT !.op = "refresh", !.sid = s,
                                  !.user = sessions[s].user_id,
                                  !.sawLive = Usable(s),
                                  !.sawActive = active[sessions[s].user_id]]
<1>0. sessions[s].user_id \in User
  BY DEF RefreshArrive, LineageInv, RowsOK
<1>1. x \in Local /\ x.op = "refresh" /\ x.sid = s
  BY <1>0 DEF NoRequest, Local, Op, LineageInv, TypeOK, Usable
<1>2. Start(r, "findActive", x)
      /\ UNCHANGED <<clock, active, sessions, issued, cleaner, ended>>
  BY DEF RefreshArrive
<1>3. Arrive(r) /\ "findActive" \in Pc
  BY DEF Arrive, Pc
<1> HIDE DEF x
<1> QED
  BY <1>1, <1>2, <1>3, ArrivedWith DEF LineageInv, Accepted

LEMMA LogoutArrives ==
  ASSUME LineageInv, NEW r \in Request, NEW s \in SessionId, LogoutArrive(r, s),
         Accepted(r)
  PROVE  Arrived(r, "logout", s)
<1> DEFINE x == [NoRequest EXCEPT !.op = "logout", !.sid = s,
                                  !.user = sessions[s].user_id]
<1>0. sessions[s].user_id \in User
  BY DEF LogoutArrive, LineageInv, RowsOK
<1>1. x \in Local /\ x.op = "logout" /\ x.sid = s
  BY <1>0 DEF NoRequest, Local, Op, LineageInv, TypeOK
<1>2. Start(r, "logoutFind", x)
      /\ UNCHANGED <<clock, active, sessions, issued, cleaner, ended>>
  BY DEF LogoutArrive
<1>3. Arrive(r) /\ "logoutFind" \in Pc
  BY DEF Arrive, Pc
<1> HIDE DEF x
<1> QED
  BY <1>1, <1>2, <1>3, ArrivedWith DEF LineageInv, Accepted

LEMMA AuthArrives ==
  ASSUME LineageInv, NEW r \in Request, NEW s \in SessionId, AuthArrive(r, s),
         Accepted(r)
  PROVE  Arrived(r, "protected", s)
<1> DEFINE x == [NoRequest EXCEPT !.op = "protected", !.sid = s,
                                  !.user = sessions[s].user_id,
                                  !.sawLive = Usable(s),
                                  !.sawActive = active[sessions[s].user_id]]
<1>0. sessions[s].user_id \in User /\ clock < sessions[s].jwt_exp
  BY DEF AuthArrive, LineageInv, RowsOK
<1>1. x \in Local /\ x.op = "protected" /\ x.sid = s
  BY <1>0 DEF NoRequest, Local, Op, LineageInv, TypeOK, Usable
<1>2. Start(r, "authUser", x)
      /\ UNCHANGED <<clock, active, sessions, issued, cleaner, ended>>
  BY DEF AuthArrive
<1>3. Arrive(r) /\ "authUser" \in Pc
  BY DEF Arrive, Pc
<1> HIDE DEF x
<1> QED
  BY <1>0, <1>1, <1>2, <1>3, ArrivedWith DEF LineageInv, Accepted

LEMMA RefreshSent ==
  ASSUME LineageInv, NEW r \in Request, NEW ck \in SessionId \cup {None},
         SendRefresh(r, ck)
  PROVE  \/ Told(r, "denied") /\ Jar(ck) = None
         \/ Told(r, "error")
         \/ Arrived(r, "refresh", ck) /\ Jar(ck) = ck /\ ck # None
<1>1. CASE Jar(ck) = None
  BY <1>1 DEF SendRefresh, AtOnce, Told
<1>2. CASE Jar(ck) # None /\ ~RoomForSession
  BY <1>2 DEF SendRefresh, AtOnce, Told
<1>3. CASE Jar(ck) # None /\ RoomForSession
  <2>1. ck \in SessionId /\ ck # None /\ Jar(ck) = ck
    BY <1>3 DEF Jar
  <2> QED
    BY <1>3, <2>1, RefreshArrives DEF SendRefresh
<1> QED
  BY <1>1, <1>2, <1>3

LEMMA PathSent ==
  ASSUME LineageInv, NEW r \in Request, NEW path \in Path,
         NEW tok \in SessionId \cup {None}, NEW ck \in SessionId \cup {None},
         SendPath(r, path, tok, ck)
  PROVE  CASE path = "login" -> Told(r, "error") \/ Arrived(r, "login", None)
           [] path = "logout" -> \/ Told(r, "ok") /\ Jar(ck) = None
                                 \/ Arrived(r, "logout", ck) /\ ck # None
           [] OTHER -> \/ Told(r, "denied")
                       \/ Arrived(r, "protected", tok) /\ tok # None
<1>1. CASE path = "login"
  BY <1>1, LoginArrives DEF SendPath, AtOnce, Told
<1>2. CASE path = "logout"
  <2>1. CASE Jar(ck) = None
    BY <1>2, <2>1 DEF SendPath, AtOnce, Told
  <2>2. CASE Jar(ck) # None
    <3>1. ck \in SessionId /\ ck # None
      BY <2>2 DEF Jar
    <3> QED
      BY <1>2, <2>2, <3>1, LogoutArrives DEF SendPath
  <2> QED
    BY <1>2, <2>1, <2>2
<1>3. CASE path # "login" /\ path # "logout"
  BY <1>3, AuthArrives DEF SendPath, AtOnce, Told
<1> QED
  BY <1>1, <1>2, <1>3

(* Told, or with a handler for what the call c asks.                       *)
Sends(r, c) ==
  \/ \E status \in {"ok", "denied", "error"} : Told(r, status)
  \/ \E s \in SessionId \cup {None} : Arrived(r, Asks(c), s)

LEMMA RefreshSends ==
  ASSUME LineageInv, NEW r \in Request, NEW ck \in SessionId \cup {None},
         NEW c \in Call, c.stage = "refresh", SendRefresh(r, ck)
  PROVE  Sends(r, c)
  BY RefreshSent DEF Sends, Asks

LEMMA PathSends ==
  ASSUME LineageInv, NEW r \in Request, NEW path \in Path,
         NEW tok \in SessionId \cup {None}, NEW ck \in SessionId \cup {None},
         NEW c \in Call, c.stage # "refresh", c.path = path,
         SendPath(r, path, tok, ck)
  PROVE  Sends(r, c)
<1>1. CASE path = "login"
  BY <1>1, PathSent DEF Sends, Asks
<1>2. CASE path = "logout"
  BY <1>2, PathSent DEF Sends, Asks
<1>3. CASE path # "login" /\ path # "logout"
  BY <1>3, PathSent DEF Sends, Asks
<1> QED
  BY <1>1, <1>2, <1>3

(* A statement of a handler moves that handler alone, and keeps what it    *)
(* was given.                                                              *)
LEMMA HandleMoves ==
  ASSUME LineageInv, NEW r \in Request, Handle(r),
         pc[r] \notin {"writeUser", "revokeAll"}
  PROVE  /\ pc[r] # "idle"
         /\ UNCHANGED <<clock, active, cleaner>>
         /\ \A q \in Request \ {r} : pc'[q] = pc[q] /\ req'[q] = req[q]
         /\ pc'[r] # "idle" => req'[r].op = req[r].op /\ req'[r].sid = req[r].sid
<1>t. TypeOK
  BY DEF LineageInv
<1>m. pc[r] # "idle" /\ UNCHANGED <<clock, active, cleaner>>
  BY DEF Handle, FindByEmail, CreateSession, Respond, FindActive, FindUser,
         RevokeOld, FindAny, Purge, LogoutFind, LogoutRevoke, AuthUser,
         TouchSession, ReadOnly, RevokeOthers, RevokeTarget, RevokeSession,
         WriteUser, RevokeAll
<1> DEFINE Moved == /\ \A q \in Request \ {r} : pc'[q] = pc[q] /\ req'[q] = req[q]
                    /\ pc'[r] # "idle" =>
                         req'[r].op = req[r].op /\ req'[r].sid = req[r].sid
<1>1. ASSUME Finish(r) PROVE Moved
  BY <1>t, <1>1, FinishFacts DEF Moved
<1>2. ASSUME NEW l \in {"createSession", "findUser", "findAny", "revokeOld",
                        "purge", "logoutRevoke", "touch", "handler"}, Goto(r, l)
      PROVE  Moved
  BY <1>t, <1>2, GotoFacts DEF Pc, RefreshWindow, Moved
<1>3. ASSUME NEW s \in SessionId, CreateSession(r, s) PROVE Moved
  BY <1>t, <1>3 DEF CreateSession, TypeOK, Local, Moved
<1>4. ASSUME NEW s \in SessionId, RevokeSession(r, s) PROVE Moved
  <2>1. CASE Finish(r)
    BY <1>1, <2>1
  <2>2. CASE /\ pc' = [pc EXCEPT ![r] = "revokeTarget"]
             /\ req' = [req EXCEPT ![r].target = s]
    BY <1>t, <2>2 DEF TypeOK, Local, Moved
  <2> QED
    BY <1>4, <2>1, <2>2 DEF RevokeSession
<1>5. Moved
  <2> HIDE DEF Moved
  <2> QED
    BY <1>1, <1>2, <1>3, <1>4
       DEF Handle, FindByEmail, Respond, FindActive, FindUser,
           RevokeOld, FindAny, Purge, LogoutFind, LogoutRevoke, AuthUser,
           TouchSession, ReadOnly, RevokeOthers, RevokeTarget,
           WriteUser, RevokeAll
<1> QED
  BY <1>m, <1>5 DEF Moved

(* What the page sends never makes a handler of UserService.Update.        *)
LEMMA ServeFacts ==
  ASSUME ClientInv, NEW r \in Request, Serve(r)
  PROVE  /\ Handle(r) /\ ~Idle(r)
         /\ pc[r] \notin {"idle", "writeUser", "revokeAll"}
         /\ UNCHANGED <<clock, active, cleaner>>
         /\ \A q \in Request \ {r} : pc'[q] = pc[q] /\ req'[q] = req[q]
         /\ pc'[r] # "idle" => req'[r].op = req[r].op /\ req'[r].sid = req[r].sid
<1>1. Handle(r)
  BY DEF Serve, Handle
<1>2. pc[r] \notin {"writeUser", "revokeAll"}
  <2>1. pc[r] # "idle" => req[r].op # "update"
    BY DEF ClientInv, Exchange, Asks
  <2> QED
    BY <2>1 DEF ClientInv, SafetyInv, SeenInv, Seen, SeenAt
<1>3. LineageInv
  BY DEF ClientInv, SafetyInv
<1>4. pc[r] # "idle" => ~Idle(r)
  BY DEF ClientInv, Exchange
<1> QED
  BY <1>1, <1>2, <1>3, <1>4, HandleMoves

-----------------------------------------------------------------------------
(* The page's steps: a call sends, or it ends.                             *)

Acts(r) ==
  \/ PageLoad(r)
  \/ \E path \in {"login", "fetch", "logout"} : Begin(r, path)
  \/ Receive(r)

LocalTypes ==
  /\ cookie \in SessionId \cup {None}
  /\ token \in SessionId \cup {None}
  /\ user \in BOOLEAN
  /\ calls \in 0 .. MaxCalls
  /\ history \in SUBSET Cause

LEMMA NoteFacts ==
  ASSUME ClientInv, NEW r \in Request, Note(r)
  PROVE  history \subseteq history' /\ history' \in SUBSET Cause
  BY DEF ClientInv, ClientTypeOK, Note, Cause

LEMMA CallTypes ==
  ASSUME ClientTypeOK, NEW r \in Request
  PROVE  /\ call[r] \in Call /\ resp[r] \in Response
         /\ NewCookie(r) \in SessionId \cup {None}
         /\ resp[r].sid \in SessionId \cup {None}
         /\ cookie \in SessionId \cup {None} /\ token \in SessionId \cup {None}
         /\ call[r].stage # "none" => call[r].path \in Path
  BY DEF ClientTypeOK, NewCookie, Response, Call, NoCall

LEMMA Calls ==
  ASSUME NEW path \in Path, NEW stage \in {"first", "refresh", "second"}
  PROVE  LET c == [path |-> path, stage |-> stage]
         IN  c \in Call \ {NoCall} /\ c.path = path /\ c.stage = stage
  BY DEF Call, NoCall, Path, Me

LEMMA ActsFacts ==
  ASSUME ClientInv, NEW r \in Request, Acts(r)
  PROVE  /\ pc[r] = "idle"
         /\ \/ \E c \in Call \ {NoCall} :
                 call' = [call EXCEPT ![r] = c] /\ Sends(r, c)
            \/ Return(r)
         /\ LocalTypes' /\ history \subseteq history'
<1>t. ClientTypeOK /\ LineageInv /\ Exchange(r)
  BY DEF ClientInv, SafetyInv
<1>u. /\ user \in BOOLEAN /\ calls \in 0 .. MaxCalls /\ history \in SUBSET Cause
  BY <1>t DEF ClientTypeOK
<1> DEFINE Goal == /\ pc[r] = "idle"
                   /\ \/ \E c \in Call \ {NoCall} :
                           call' = [call EXCEPT ![r] = c] /\ Sends(r, c)
                      \/ Return(r)
                   /\ LocalTypes' /\ history \subseteq history'
<1>1. ASSUME NEW path \in {"login", "fetch", "logout"}, Begin(r, path)
      PROVE  Goal
  <2> DEFINE c == [path |-> path, stage |-> "first"]
  <2>0. path \in Path
    BY DEF Path
  <2>1. c \in Call \ {NoCall} /\ c.path = path /\ c.stage = "first"
    BY <2>0, Calls
  <2>2. call' = [call EXCEPT ![r] = c]
    BY <1>1 DEF Begin, Becomes
  <2>3. Sends(r, c)
    <3> HIDE DEF c
    <3> QED
      BY <1>1, <1>t, <2>0, <2>1, CallTypes, PathSends DEF Begin
  <2>4. LocalTypes' /\ history \subseteq history'
    BY <1>1, <1>t, <1>u, CallTypes, NoteFacts, MaxCallsAssumption DEF Begin, LocalTypes
  <2>5. pc[r] = "idle"
    BY <1>1, <1>t DEF Begin, Exchange
  <2> QED
    BY <2>1, <2>2, <2>3, <2>4, <2>5
<1>2. ASSUME PageLoad(r) PROVE Goal
  <2> DEFINE c == [path |-> "load", stage |-> "refresh"]
  <2>1. c \in Call \ {NoCall} /\ c.stage = "refresh"
    BY Calls DEF Path
  <2>2. call' = [call EXCEPT ![r] = c]
    BY <1>2 DEF PageLoad, Becomes
  <2>3. Sends(r, c)
    <3> HIDE DEF c
    <3> QED
      BY <1>2, <1>t, <2>1, CallTypes, RefreshSends DEF PageLoad
  <2>4. LocalTypes' /\ history \subseteq history'
    <3>1. history \subseteq history' /\ history' \in SUBSET Cause
      BY <1>2, NoteFacts DEF PageLoad
    <3>2. /\ cookie' = cookie /\ token' = None /\ user' = FALSE
          /\ calls < MaxCalls /\ calls' = calls + 1
      BY <1>2 DEF PageLoad
    <3>3. cookie \in SessionId \cup {None}
      BY <1>t, CallTypes
    <3>4. user' \in BOOLEAN
      BY <3>2
    <3>5. calls' \in 0 .. MaxCalls
      BY <1>u, <3>2, MaxCallsAssumption
    <3> QED
      BY <3>1, <3>2, <3>3, <3>4, <3>5 DEF LocalTypes
  <2>5. pc[r] = "idle"
    BY <1>2, <1>t DEF PageLoad, Exchange
  <2> QED
    BY <2>1, <2>2, <2>3, <2>4, <2>5
<1>3. ASSUME Receive(r) PROVE Goal
  <2>0. pc[r] = "idle" /\ UNCHANGED calls
    <3>1. resp[r].status # "none" => ~Idle(r)
      BY <1>t DEF Exchange, NoAnswer
    <3> QED
      BY <1>3, <1>t, <3>1 DEF Receive, Exchange
  <2>1. CASE Refuse(r)
    <3> DEFINE c == [path |-> call[r].path, stage |-> "refresh"]
    <3>1. c \in Call \ {NoCall} /\ c.stage = "refresh"
      BY <1>t, <2>1, CallTypes, Calls DEF Refuse
    <3>2. call' = [call EXCEPT ![r] = c]
      BY <2>1 DEF Refuse, Becomes
    <3>3. Sends(r, c)
      <4> HIDE DEF c
      <4> QED
        BY <1>t, <2>1, <3>1, CallTypes, RefreshSends DEF Refuse
    <3>4. LocalTypes' /\ history \subseteq history'
      <4>1. cookie' = NewCookie(r) /\ UNCHANGED <<token, user, calls>> /\ Note(r)
        BY <2>0, <2>1 DEF Refuse
      <4>2. NewCookie(r) \in SessionId \cup {None} /\ token \in SessionId \cup {None}
        BY <1>t, CallTypes
      <4> QED
        <5>1. history \subseteq history' /\ history' \in SUBSET Cause
          BY <4>1, NoteFacts
        <5> QED
          BY <1>u, <4>1, <4>2, <5>1 DEF LocalTypes
    <3> QED
      BY <2>0, <3>1, <3>2, <3>3, <3>4
  <2>2. CASE Repeat(r)
    <3> DEFINE c == IF call[r].path = "load" THEN [path |-> "loadMe", stage |-> "first"]
                    ELSE [call[r] EXCEPT !.stage = "second"]
    <3>1. c \in Call \ {NoCall} /\ c.stage # "refresh" /\ c.path \in Path
      BY <1>t, <2>2, CallTypes DEF Repeat, Call, NoCall, Path, Me
    <3>2. call' = [call EXCEPT ![r] = c]
      <4>1. c = [path |-> c.path, stage |-> c.stage]
        BY <3>1 DEF Call, NoCall
      <4> QED
        BY <2>2, <4>1 DEF Repeat, Becomes
    <3>3. Sends(r, c)
      <4>1. SendPath(r, c.path, resp[r].sid, NewCookie(r))
        BY <2>2 DEF Repeat
      <4> HIDE DEF c
      <4> QED
        BY <1>t, <3>1, <4>1, CallTypes, PathSends
    <3>4. LocalTypes' /\ history \subseteq history'
      BY <1>t, <1>u, <2>0, <2>2, CallTypes, NoteFacts DEF Repeat, LocalTypes
    <3> HIDE DEF c
    <3> QED
      BY <2>0, <3>1, <3>2, <3>3, <3>4
  <2>3. CASE GiveUp(r)
    BY <1>t, <1>u, <2>0, <2>3, CallTypes, NoteFacts DEF GiveUp, Return, LocalTypes
  <2>4. CASE LoggedIn(r)
    <3> DEFINE c == [path |-> "loginMe", stage |-> "first"]
    <3>0. "loginMe" \in Path
      BY DEF Path, Me
    <3>1. c \in Call \ {NoCall} /\ c.stage # "refresh" /\ c.path = "loginMe"
      BY <3>0, Calls
    <3>2. call' = [call EXCEPT ![r] = c]
      BY <2>4 DEF LoggedIn, Becomes
    <3>3. Sends(r, c)
      <4>1. SendPath(r, "loginMe", resp[r].sid, NewCookie(r))
        BY <2>4 DEF LoggedIn
      <4>2. resp[r].sid \in SessionId \cup {None} /\ NewCookie(r) \in SessionId \cup {None}
        BY <1>t, CallTypes
      <4> HIDE DEF c
      <4> QED
        BY <1>t, <3>0, <3>1, <4>1, <4>2, PathSends
    <3>4. LocalTypes' /\ history \subseteq history'
      BY <1>t, <1>u, <2>0, <2>4, CallTypes, NoteFacts DEF LoggedIn, LocalTypes
    <3> QED
      BY <2>0, <3>1, <3>2, <3>3, <3>4
  <2>5. CASE Settle(r)
    BY <1>t, <1>u, <2>0, <2>5, CallTypes, NoteFacts DEF Settle, Return, LocalTypes
  <2> QED
    BY <1>3, <2>1, <2>2, <2>3, <2>4, <2>5 DEF Receive
<1> QED
  BY <1>1, <1>2, <1>3 DEF Acts

-----------------------------------------------------------------------------
(* Every step of the page or its server is a step of Sessions.             *)
LEMMA VarsStep ==
  ASSUME ClientInv, [ClientNext]_allVars
  PROVE  [Next]_vars
<1>1. ASSUME NEW r \in Request, Acts(r) PROVE [Next]_vars
  <2>1. UNCHANGED vars \/ Arrive(r)
    BY <1>1, ActsFacts DEF Sends, Told, Arrived, Return
  <2> QED
    BY <2>1 DEF Next
<1>2. ASSUME NEW r \in Request, Serve(r) PROVE [Next]_vars
  BY <1>2, ServeFacts DEF Next
<1>3. ASSUME NEW r \in Request, Lose(r) \/ ServeError(r) PROVE [Next]_vars
  BY <1>3 DEF Lose, ServeError, Next
<1> QED
  BY <1>1, <1>2, <1>3 DEF ClientNext, Acts, ClientTick, Next, allVars, vars

LEMMA Answers ==
  /\ \A status \in {"ok", "denied", "error", "lost"} :
       /\ Answer(status) \in Response /\ Answer(status).status = status
       /\ Answer(status).sets = FALSE /\ Answer(status).sid = None
  /\ \A status \in {"ok", "denied"}, s \in SessionId \cup {None} :
       /\ SetCookie(status, s) \in Response /\ SetCookie(status, s).status = status
       /\ SetCookie(status, s).sets = TRUE /\ SetCookie(status, s).sid = s
  /\ NoAnswer \in Response /\ NoAnswer.status = "none"
  BY DEF Answer, SetCookie, NoAnswer, Response

LEMMA CallHasPath ==
  ASSUME NEW c \in Call \ {NoCall}
  PROVE  c.path # "none"
  BY DEF Call, Path, Me, NoCall

LEMMA OutcomeFacts ==
  ASSUME ClientInv, NEW r \in Request
  PROVE  Outcome(r) \in Response /\ Outcome(r).status \in {"ok", "denied"}
<1>1. pc[r] = "respond" => req[r].target \in SessionId
  BY DEF ClientInv, SafetyInv, LineageInv, RequestsOK, RequestOK, Used
<1>2. CASE pc[r] = "respond"
  BY <1>1, <1>2, Answers DEF Outcome
<1>3. CASE pc[r] \in {"findUser", "findAny", "purge"}
  BY <1>3, Answers DEF Outcome
<1>4. CASE pc[r] \in {"logoutFind", "logoutRevoke"}
  BY <1>4, Answers DEF Outcome
<1>5. CASE pc[r] \in {"findByEmail", "authUser", "touch"}
  BY <1>5, Answers DEF Outcome
<1>6. CASE pc[r] \notin {"respond", "findUser", "findAny", "purge", "logoutFind",
                        "logoutRevoke", "findByEmail", "authUser", "touch"}
  BY <1>6, Answers DEF Outcome
<1> QED
  BY <1>2, <1>3, <1>4, <1>5, <1>6

LEMMA FailureFacts ==
  ASSUME ClientInv, NEW r \in Request
  PROVE  Failure(r) \in Response /\ Failure(r).status \in {"ok", "denied", "error"}
  BY OutcomeFacts, Answers DEF Failure

LEMMA TypesNext ==
  ASSUME ClientInv, [ClientNext]_allVars, TypeOK'
  PROVE  ClientTypeOK'
<1>t. /\ ClientTypeOK /\ LocalTypes /\ call \in [Request -> Call]
      /\ resp \in [Request -> Response]
  BY DEF ClientInv, ClientTypeOK, LocalTypes
<1>n. NoCall \in Call /\ NoAnswer \in Response
  BY Answers DEF Call
<1>a. \A status \in {"ok", "denied", "error", "lost"} : Answer(status) \in Response
  BY Answers
<1>q. ASSUME call' \in [Request -> Call], resp' \in [Request -> Response], LocalTypes'
      PROVE  ClientTypeOK'
  BY <1>q DEF ClientTypeOK, LocalTypes
<1>1. ASSUME NEW r \in Request, Acts(r) PROVE ClientTypeOK'
  <2>1. LocalTypes'
    BY <1>1, ActsFacts
  <2>2. CASE Return(r)
    BY <1>t, <1>n, <1>q, <2>1, <2>2 DEF Return
  <2>3. ASSUME NEW c \in Call, call' = [call EXCEPT ![r] = c], Sends(r, c)
        PROVE  ClientTypeOK'
    <3>1. \E x \in Response : resp' = [resp EXCEPT ![r] = x]
      BY <1>n, <1>a, <2>3 DEF Sends, Told, Arrived
    <3> QED
      BY <1>t, <1>q, <2>1, <2>3, <3>1
  <2> QED
    BY <1>1, <2>2, <2>3, ActsFacts
<1>2. ASSUME NEW r \in Request, Serve(r) \/ ServeError(r) \/ Lose(r)
      PROVE  ClientTypeOK'
  <2>1. resp' \in [Request -> Response]
    BY <1>t, <1>a, <1>2, OutcomeFacts, FailureFacts DEF Serve, ServeError, Lose
  <2>2. history' \in SUBSET Cause
    BY <1>t, <1>2 DEF Serve, ServeError, Lose, Cause, LocalTypes
  <2>3. UNCHANGED <<cookie, token, user, call, calls>>
    BY <1>2 DEF Serve, ServeError, Lose
  <2> QED
    BY <1>t, <1>q, <2>1, <2>2, <2>3 DEF LocalTypes
<1>3. CASE ClientTick
  BY <1>t, <1>q, <1>3 DEF ClientTick, LocalTypes, Cause
<1>4. CASE UNCHANGED allVars
  BY <1>t, <1>q, <1>4 DEF allVars, clientVars, LocalTypes
<1> QED
  BY <1>1, <1>2, <1>3, <1>4 DEF ClientNext, Acts

(* A call whose exchange with the server goes on as it was.                *)
LEMMA SameExchange ==
  ASSUME NEW q \in Request, Exchange(q), call'[q] = call[q], resp'[q] = resp[q],
         pc'[q] = pc[q], req'[q] = req[q]
  PROVE  Exchange(q)'
  BY DEF Exchange, Idle

LEMMA ExchangeNext ==
  ASSUME ClientInv, [ClientNext]_allVars, NEW q \in Request
  PROVE  Exchange(q)'
<1>t. /\ call \in [Request -> Call] /\ resp \in [Request -> Response]
      /\ LineageInv /\ TypeOK
      /\ \A r \in Request : Exchange(r)
  BY DEF ClientInv, ClientTypeOK, SafetyInv, LineageInv
<1>1. ASSUME NEW r \in Request, Acts(r) PROVE Exchange(q)'
  <2>0. pc[r] = "idle"
    BY <1>1, ActsFacts
  <2>1. CASE Return(r)
    BY <1>t, <2>0, <2>1, SameExchange DEF Return, vars, Exchange, Idle, NoCall, NoAnswer
  <2>2. ASSUME NEW c \in Call \ {NoCall}, call' = [call EXCEPT ![r] = c],
               NEW status \in {"ok", "denied", "error"}, Told(r, status)
        PROVE  Exchange(q)'
    <3>1. Answer(status).status = status /\ c.path # "none"
      BY CallHasPath, Answers
    <3> QED
      BY <1>t, <2>0, <2>2, <3>1, SameExchange DEF Told, vars, Exchange, Idle
  <2>3. ASSUME NEW c \in Call \ {NoCall}, call' = [call EXCEPT ![r] = c],
               NEW s \in SessionId \cup {None}, Arrived(r, Asks(c), s)
        PROVE  Exchange(q)'
    <3>1. NoAnswer.status = "none" /\ c.path # "none"
      BY CallHasPath, Answers
    <3> QED
      BY <1>t, <2>0, <2>3, <3>1, SameExchange DEF Arrived, Exchange, Idle
  <2> QED
    BY <1>1, <2>1, <2>2, <2>3, ActsFacts DEF Sends
<1>2. ASSUME NEW r \in Request, Serve(r) PROVE Exchange(q)'
  <2>1. /\ pc[r] # "idle" /\ ~Idle(r)
        /\ \A p \in Request \ {r} : pc'[p] = pc[p] /\ req'[p] = req[p]
        /\ pc'[r] # "idle" => req'[r].op = req[r].op
    BY <1>2, ServeFacts
  <2>2. call' = call /\ resp' = IF pc'[r] = "idle" THEN [resp EXCEPT ![r] = Outcome(r)] ELSE resp
    BY <1>2 DEF Serve
  <2>3. Outcome(r).status \in {"ok", "denied"}
    BY OutcomeFacts
  <2> QED
    BY <1>t, <2>1, <2>2, <2>3, SameExchange DEF Exchange, Idle
<1>3. ASSUME NEW r \in Request, ServeError(r) PROVE Exchange(q)'
  <2>1. /\ pc[r] # "idle" /\ pc'[r] = "idle"
        /\ \A p \in Request \ {r} : pc'[p] = pc[p] /\ req'[p] = req[p]
    BY <1>t, <1>3, FinishFacts DEF ServeError, Abort
  <2>2. call' = call /\ resp' = [resp EXCEPT ![r] = Failure(r)]
    BY <1>3 DEF ServeError
  <2>3. Failure(r).status \in {"ok", "denied", "error"}
    BY FailureFacts
  <2> QED
    BY <1>t, <2>1, <2>2, <2>3, SameExchange DEF Exchange, Idle
<1>4. ASSUME NEW r \in Request, Lose(r) PROVE Exchange(q)'
  <2>1. /\ resp[r].status # "none" /\ call' = call /\ pc' = pc /\ req' = req
        /\ resp' = [resp EXCEPT ![r] = Answer("lost")]
    BY <1>4 DEF Lose, vars
  <2>2. Answer("lost").status = "lost" /\ ~Idle(r) /\ pc[r] = "idle"
    BY <1>t, <2>1, Answers DEF Exchange, NoAnswer
  <2> QED
    BY <1>t, <2>1, <2>2, SameExchange DEF Exchange, Idle
<1>5. CASE ClientTick \/ UNCHANGED allVars
  BY <1>t, <1>5, SameExchange DEF ClientTick, Tick, allVars, vars, clientVars
<1> QED
  BY <1>1, <1>2, <1>3, <1>4, <1>5 DEF ClientNext, Acts

LEMMA ServerNext ==
  ASSUME ClientInv, [ClientNext]_allVars, \A s \in SessionId : RowStep(s)
  PROVE  Server'
<1>t. LineageInv /\ TypeOK /\ Server
  BY DEF ClientInv, SafetyInv, LineageInv
<1>1. active' = active /\ clock' \in Nat /\ clock <= clock'
  <2>1. ASSUME NEW r \in Request, Acts(r) PROVE active' = active /\ clock' = clock
    BY <2>1, ActsFacts DEF Sends, Told, Arrived, Return, vars
  <2>2. ASSUME NEW r \in Request, Serve(r) PROVE active' = active /\ clock' = clock
    BY <2>2, ServeFacts
  <2> QED
    BY <1>t, <2>1, <2>2 DEF TypeOK, ClientNext, Acts, ServeError, Abort, Lose, vars,
       ClientTick, Tick, allVars
<1>2. ASSUME NEW s \in Used' PROVE sessions'[s].expires_at <= clock' + RefreshTTL
  <2>1. s \in SessionId /\ RowStep(s)
    BY DEF Used
  <2>2. CASE sessions'[s] = sessions[s]
    <3>1. s \in Used /\ sessions[s].expires_at <= clock + RefreshTTL
      BY <1>t, <2>2 DEF Used, Server
    <3>2. sessions[s].expires_at \in Nat
      BY <1>t, <2>1 DEF TypeOK, Session
    <3> QED
      BY <1>t, <1>1, <2>2, <3>1, <3>2, TTLAssumption DEF TypeOK
  <2>3. CASE RowInserted(s)
    <3>1. sessions'[s].expires_at = clock + RefreshTTL /\ clock \in Nat
      BY <1>t, <2>3 DEF RowInserted, TypeOK
    <3>2. clock + RefreshTTL <= clock' + RefreshTTL
      <4>1. clock \in Nat /\ clock' \in Nat /\ clock <= clock' /\ RefreshTTL \in Nat
        BY <1>1, <3>1, TTLAssumption
      <4>2. \A i, j, k \in Nat : i <= j => i + k <= j + k
        OBVIOUS
      <4> QED
        BY <4>1, <4>2
    <3> QED
      BY <3>1, <3>2
  <2>4. CASE RowRevoked(s) \/ RowDeleted(s)
    <3>1. s \in Used /\ sessions'[s].expires_at = sessions[s].expires_at
      BY <2>1, <2>4 DEF RowRevoked, RowDeleted, Exists, Used
    <3>2. sessions[s].expires_at \in Nat /\ sessions[s].expires_at <= clock + RefreshTTL
      BY <1>t, <2>1, <3>1 DEF TypeOK, Session, Server
    <3> QED
      BY <1>t, <1>1, <3>1, <3>2, TTLAssumption DEF TypeOK
  <2> QED
    BY <2>1, <2>2, <2>3, <2>4 DEF RowStep
<1> QED
  BY <1>t, <1>1, <1>2 DEF Server

-----------------------------------------------------------------------------
(* No call loops.                                                          *)

LEMMA CallEnds ==
  ASSUME ClientInv, NEW r \in Request, ~Idle(r), Return(r)
  PROVE  Distance(call'[r]) < Distance(call[r])
<1>1. call[r] \in Call \ {NoCall} /\ call'[r] = NoCall
  BY DEF ClientInv, ClientTypeOK, Idle, NoCall, Return
<1>2. Distance(NoCall) = 0
  BY DEF Distance, NoCall
<1>3. Distance(call[r]) \in Nat /\ Distance(call[r]) > 0
  <2>1. call[r].stage \in {"first", "refresh", "second"}
    BY <1>1 DEF Call
  <2> QED
    BY <2>1 DEF Distance
<1> QED
  BY <1>1, <1>2, <1>3

(* A call that goes on has a stage behind it.                              *)
LEMMA ReceiveAdvances ==
  ASSUME ClientInv, NEW r \in Request, ~Idle(r), Receive(r)
  PROVE  Distance(call'[r]) < Distance(call[r])
<1>t. call \in [Request -> Call] /\ call[r] \in Call \ {NoCall}
  BY DEF ClientInv, ClientTypeOK, Idle, NoCall
<1>1. CASE Refuse(r)
  <2>1. /\ call'[r].path = call[r].path /\ call'[r].stage = "refresh"
        /\ call[r].stage = "first"
    BY <1>t, <1>1 DEF Refuse, Becomes
  <2> QED
    BY <2>1 DEF Distance
<1>2. CASE Repeat(r)
  <2>1. /\ call[r].stage = "refresh"
        /\ \/ /\ call[r].path = "load"
              /\ call'[r].path = "loadMe" /\ call'[r].stage = "first"
           \/ call'[r].path = call[r].path /\ call'[r].stage = "second"
    BY <1>t, <1>2 DEF Repeat, Becomes, Call
  <2> QED
    BY <2>1 DEF Distance
<1>3. CASE LoggedIn(r)
  <2>1. /\ call[r].path = "login" /\ call[r].stage \in {"first", "second"}
        /\ call'[r].path = "loginMe" /\ call'[r].stage = "first"
    BY <1>t, <1>3 DEF LoggedIn, Final, Becomes
  <2> QED
    BY <2>1 DEF Distance
<1>4. CASE GiveUp(r) \/ Settle(r)
  BY <1>4, CallEnds DEF GiveUp, Settle
<1> QED
  BY <1>1, <1>2, <1>3, <1>4 DEF Receive

Advances(r) ==
  ~Idle(r) => \/ call'[r] = call[r] /\ (resp[r] # NoAnswer => resp'[r] # NoAnswer)
             \/ Distance(call'[r]) < Distance(call[r])

LEMMA CallsStep ==
  ASSUME ClientInv, [ClientNext]_allVars, NEW r \in Request
  PROVE  Advances(r)
<1>t. resp \in [Request -> Response] /\ call \in [Request -> Call]
  BY DEF ClientInv, ClientTypeOK
<1>1. ASSUME NEW q \in Request, Acts(q) PROVE Advances(r)
  <2>1. CASE q = r
    <3>1. ~Idle(r) => Receive(r)
      BY <1>1, <2>1 DEF Acts, Begin, PageLoad
    <3> QED
      BY <3>1, ReceiveAdvances DEF Advances
  <2>2. CASE q # r
    <3>1. call'[r] = call[r]
      BY <1>t, <1>1, <2>2, ActsFacts DEF Return
    <3>2. resp'[r] = resp[r]
      BY <1>t, <1>1, <2>2, ActsFacts DEF Return, Sends, Told, Arrived
    <3> QED
      BY <3>1, <3>2 DEF Advances
  <2> QED
    BY <2>1, <2>2
<1>2. ASSUME NEW q \in Request, Serve(q) \/ ServeError(q) \/ Lose(q)
      PROVE  Advances(r)
  <2>1. \E x \in Response : /\ x # NoAnswer
                            /\ resp' = resp \/ resp' = [resp EXCEPT ![q] = x]
    <3>1. Outcome(q) \in Response /\ Outcome(q) # NoAnswer
      BY OutcomeFacts, Answers
    <3>2. /\ Answer("lost") \in Response /\ Answer("lost") # NoAnswer
          /\ Failure(q) \in Response /\ Failure(q) # NoAnswer
      BY FailureFacts, Answers
    <3> QED
      BY <1>2, <3>1, <3>2 DEF Serve, ServeError, Lose
  <2>2. call' = call
    BY <1>2 DEF Serve, ServeError, Lose
  <2> QED
    BY <1>t, <2>1, <2>2 DEF Advances
<1>3. CASE ClientTick \/ UNCHANGED allVars
  BY <1>3 DEF ClientTick, allVars, clientVars, Advances
<1> QED
  BY <1>1, <1>2, <1>3 DEF ClientNext, Acts

-----------------------------------------------------------------------------
(* A sequential page: its one call.                                        *)

At(r) == IF pc[r] = "idle" THEN Answered(r) ELSE Handled(r)

LEMMA OneCall ==
  ASSUME NEW r \in Request, \A q \in Request \ {r} : Idle(q)',
         token' \in {None, cookie'}, user' => Fresh', Idle(r)' => Kept',
         ~Idle(r)' => /\ At(r)'
                      /\ call'[r].path = "login" => ~user'
                      /\ call'[r].path = "logout" => user' /\ call'[r].stage = "first"
  PROVE  Page'
  BY DEF Page, At

LEMMA SameRows ==
  ASSUME UNCHANGED <<sessions, clock, cookie>>
  PROVE  /\ Used' = Used /\ (Fresh' <=> Fresh) /\ (Kept' <=> Kept)
         /\ \A s \in SessionId : (Sole(s)' <=> Sole(s)) /\ (Gone(s)' <=> Gone(s))
  BY DEF Used, Fresh, Kept, Sole, Gone

(* What an arrival or an answer given at once leaves alone.                *)
LEMMA SendsKeep ==
  ASSUME NEW r \in Request, NEW c, Sends(r, c)
  PROVE  UNCHANGED <<sessions, clock>>
  BY DEF Sends, Told, Arrived, vars

LEMMA JarFacts ==
  ASSUME ClientInv, NEW ck \in SessionId \cup {None}, ck # None => Sole(ck)
  PROVE  Jar(ck) # None <=> ck \in Used /\ sessions[ck].expires_at > clock
  BY NoneAssumption DEF Jar, Sole, Used

(* A refresh is sent with the cookie.                                      *)
LEMMA SentRefresh ==
  ASSUME ClientInv, NEW r \in Request, pc[r] = "idle",
         SendRefresh(r, cookie'), cookie' \in SessionId \cup {None}, Kept',
         call'[r] \in Call, call'[r].stage = "refresh", resp'[r].status # "error"
  PROVE  At(r)'
<1>t. resp \in [Request -> Response] /\ LineageInv
  BY DEF ClientInv, ClientTypeOK, SafetyInv
<1>s. UNCHANGED <<sessions, clock>> /\ Used' = Used
  BY <1>t, RefreshSends, SendsKeep DEF Used
<1>k. cookie' # None => Sole(cookie')
  BY <1>s DEF Kept, Sole
<1>j. Jar(cookie') # None <=> Fresh'
  BY <1>s, <1>k, JarFacts DEF Fresh
<1>1. CASE Told(r, "denied") /\ Jar(cookie') = None
  <2>1. /\ pc'[r] = "idle" /\ resp'[r].status = "denied" /\ ~resp'[r].sets
    BY <1>t, <1>1, Answers DEF Told, vars
  <2> QED
    BY <1>1, <1>j, <2>1 DEF At, Answered
<1>2. CASE Told(r, "error")
  BY <1>t, <1>2, Answers DEF Told
<1>3. CASE Arrived(r, "refresh", cookie') /\ Jar(cookie') = cookie' /\ cookie' # None
  <2>1. Fresh'
    BY <1>3, <1>j
  <2> QED
    BY <1>3, <2>1 DEF Arrived, At, Handled
<1> QED
  BY <1>t, <1>1, <1>2, <1>3, RefreshSent

(* A call is sent with the cookie and the access token of its session.     *)
LEMMA SentPath ==
  ASSUME ClientInv, NEW r \in Request, pc[r] = "idle",
         SendPath(r, call'[r].path, token', cookie'),
         cookie' \in SessionId \cup {None}, Kept', token' \in {None, cookie'},
         call'[r] \in Call, call'[r].path \in Path, call'[r].stage # "refresh",
         call'[r].path = "logout" => Fresh', resp'[r].status # "error"
  PROVE  At(r)'
<1>t. resp \in [Request -> Response] /\ LineageInv /\ token' \in SessionId \cup {None}
  BY DEF ClientInv, ClientTypeOK, SafetyInv
<1>s. UNCHANGED <<sessions, clock>> /\ Used' = Used
  BY <1>t, PathSends, SendsKeep DEF Used
<1>k. cookie' # None => Sole(cookie')
  BY <1>s DEF Kept, Sole
<1>j. Jar(cookie') # None <=> Fresh'
  BY <1>s, <1>k, JarFacts DEF Fresh
<1> DEFINE path == call'[r].path
<1>1. CASE path = "login"
  <2>1. Arrived(r, "login", None)
    <3>1. ~Told(r, "error")
      BY <1>t, Answers DEF Told
    <3> QED
      BY <1>t, <1>1, <3>1, PathSent
  <2> QED
    BY <2>1 DEF Arrived, At, Handled
<1>2. CASE path = "logout"
  <2>1. Arrived(r, "logout", cookie') /\ Fresh'
    BY <1>t, <1>2, <1>j, PathSent
  <2> QED
    BY <2>1 DEF Arrived, At, Handled
<1>3. CASE path # "login" /\ path # "logout"
  <2>1. \/ Told(r, "denied")
        \/ Arrived(r, "protected", token') /\ token' # None
    BY <1>t, <1>3, PathSent
  <2>2. CASE Told(r, "denied")
    <3>1. pc'[r] = "idle" /\ resp'[r].status = "denied" /\ ~resp'[r].sets
      BY <1>t, <2>2, Answers DEF Told, vars
    <3> QED
      BY <1>3, <3>1 DEF At, Answered
  <2>3. CASE Arrived(r, "protected", token') /\ token' # None
    <3>1. token' = cookie' /\ cookie' # None /\ clock < sessions[cookie'].jwt_exp
      BY <2>3 DEF Arrived
    <3>2. cookie' \in Used /\ cookie' \in SessionId
      BY <1>k, <3>1 DEF Sole, Used
    <3>3. /\ sessions[cookie'].jwt_exp <= sessions[cookie'].expires_at
          /\ sessions[cookie'].jwt_exp \in Nat
          /\ sessions[cookie'].expires_at \in Nat /\ clock \in Nat
      BY <1>t, <3>2 DEF LineageInv, RowsOK, TypeOK, Session
    <3>4. Fresh'
      BY <1>s, <3>1, <3>2, <3>3 DEF Fresh
    <3> QED
      BY <2>3, <3>1, <3>4 DEF Arrived, At, Handled
  <2> QED
    BY <2>1, <2>2, <2>3
<1> QED
  BY <1>1, <1>2, <1>3

(* A step that sends, and is not recorded as an overlap or a fault.        *)
LEMMA NoteSequential ==
  ASSUME NEW r \in Request, Note(r), Sequential'
  PROVE  Sequential /\ resp'[r].status # "error" /\ \A q \in Request \ {r} : Idle(q)
  BY DEF Note, Sequential

LEMMA OthersIdle ==
  ASSUME ClientInv, NEW r \in Request, \A q \in Request \ {r} : Idle(q),
         \/ \E c \in Call : call' = [call EXCEPT ![r] = c]
         \/ Return(r)
  PROVE  \A q \in Request \ {r} : Idle(q)'
  BY DEF ClientInv, ClientTypeOK, Idle, Return

(* A call begins with all calls idle.                                      *)
LEMMA BeginPage ==
  ASSUME ClientInv, NEW r \in Request, NEW path \in {"login", "fetch", "logout"},
         Begin(r, path), Sequential'
  PROVE  Page'
<1> DEFINE c == [path |-> path, stage |-> "first"]
<1>t. ClientTypeOK /\ LineageInv /\ call \in [Request -> Call]
  BY DEF ClientInv, SafetyInv, ClientTypeOK
<1>c. c \in Call /\ c.path = path /\ c.stage = "first" /\ path \in Path
      /\ path # "none"
  BY Calls DEF Path
<1>1. call' = [call EXCEPT ![r] = c] /\ call'[r] = c
  BY <1>t DEF Begin, Becomes
<1> HIDE DEF c
<1>2. /\ Sequential /\ resp'[r].status # "error"
      /\ \A q \in Request \ {r} : Idle(q)
  BY NoteSequential DEF Begin
<1>3. Page /\ \A q \in Request : Idle(q)
  BY <1>2 DEF ClientInv, Begin
<1>4. Kept /\ token \in {None, cookie} /\ (user => Fresh) /\ pc[r] = "idle"
  BY <1>3 DEF Page, ClientInv, Exchange
<1>5. UNCHANGED <<sessions, clock, cookie, token, user>>
  <2>1. SendPath(r, path, token, cookie) /\ UNCHANGED <<cookie, token, user>>
    BY DEF Begin
  <2> QED
    BY <1>t, <1>c, <2>1, CallTypes, PathSends, SendsKeep
<1>6. Kept' /\ token' \in {None, cookie'} /\ (user' => Fresh')
  BY <1>4, <1>5, SameRows
<1>7. At(r)'
  <2>1. SendPath(r, call'[r].path, token', cookie')
    BY <1>1, <1>c, <1>5 DEF Begin
  <2>2. path = "logout" => Fresh'
    BY <1>5, <1>6 DEF Begin
  <2> QED
    BY <1>t, <1>1, <1>2, <1>4, <1>5, <1>6, <1>c, <2>1, <2>2, CallTypes, SentPath
<1>8. /\ call'[r].path = "login" => ~user'
      /\ call'[r].path = "logout" => user' /\ call'[r].stage = "first"
  BY <1>1, <1>5, <1>c DEF Begin
<1>9. \A q \in Request \ {r} : Idle(q)'
  BY <1>1, <1>2, <1>c, OthersIdle
<1> QED
  BY <1>6, <1>7, <1>8, <1>9, OneCall

LEMMA PageLoadPage ==
  ASSUME ClientInv, NEW r \in Request, PageLoad(r), Sequential'
  PROVE  Page'
<1> DEFINE c == [path |-> "load", stage |-> "refresh"]
<1>t. ClientTypeOK /\ LineageInv /\ call \in [Request -> Call]
  BY DEF ClientInv, SafetyInv, ClientTypeOK
<1>c. c \in Call /\ c.path = "load" /\ c.stage = "refresh"
  BY Calls DEF Path
<1>1. call' = [call EXCEPT ![r] = c] /\ call'[r] = c
  BY <1>t DEF PageLoad, Becomes
<1> HIDE DEF c
<1>2. /\ Sequential /\ resp'[r].status # "error"
      /\ \A q \in Request \ {r} : Idle(q)
  BY NoteSequential DEF PageLoad
<1>3. Page /\ \A q \in Request : Idle(q)
  BY <1>2 DEF ClientInv, PageLoad
<1>4. Kept /\ pc[r] = "idle"
  BY <1>3 DEF Page, ClientInv, Exchange
<1>5. UNCHANGED <<sessions, clock, cookie>> /\ token' = None /\ ~user'
  <2>1. /\ SendRefresh(r, cookie) /\ UNCHANGED cookie
        /\ token' = None /\ user' = FALSE
    BY DEF PageLoad
  <2> QED
    BY <1>t, <1>c, <2>1, CallTypes, RefreshSends, SendsKeep
<1>6. Kept'
  BY <1>4, <1>5, SameRows
<1>7. At(r)'
  <2>1. SendRefresh(r, cookie')
    BY <1>5 DEF PageLoad
  <2> QED
    BY <1>t, <1>1, <1>2, <1>4, <1>5, <1>6, <1>c, <2>1, CallTypes, SentRefresh
<1>9. \A q \in Request \ {r} : Idle(q)'
  BY <1>1, <1>2, <1>c, OthersIdle
<1> QED
  BY <1>1, <1>5, <1>6, <1>7, <1>9, <1>c, OneCall

(* A call whose answer arrives is the only one.                            *)
LEMMA ReceiveFacts ==
  ASSUME ClientInv, NEW r \in Request, Receive(r), Sequential'
  PROVE  /\ Page /\ ~Idle(r) /\ pc[r] = "idle" /\ Answered(r)
         /\ \A q \in Request \ {r} : Idle(q) /\ Idle(q)'
         /\ call[r].path = "login" => ~user
         /\ call[r].path = "logout" => user /\ call[r].stage = "first"
         /\ call[r] \in Call /\ call[r].path \in Path
<1>1. history \subseteq history' /\ pc[r] = "idle"
  BY ActsFacts DEF Acts
<1>2. Page
  BY <1>1 DEF Sequential, ClientInv
<1>3. ~Idle(r)
  BY DEF Receive, ClientInv, Exchange, NoAnswer
<1>4. \A q \in Request \ {r} : Idle(q)
  BY <1>2, <1>3 DEF Page
<1>5. \A q \in Request \ {r} : Idle(q)'
  BY <1>4, OthersIdle, ActsFacts DEF Acts
<1>6. call[r] \in Call /\ call[r].path \in Path
  BY <1>3 DEF ClientInv, ClientTypeOK, Call, Idle, NoCall
<1> QED
  BY <1>1, <1>2, <1>3, <1>4, <1>5, <1>6 DEF Page

LEMMA RefusePage ==
  ASSUME ClientInv, NEW r \in Request, Receive(r), Refuse(r), Sequential'
  PROVE  Page'
<1> USE ReceiveFacts
<1>t. ClientTypeOK /\ LineageInv /\ call \in [Request -> Call]
  BY DEF ClientInv, SafetyInv, ClientTypeOK
<1> DEFINE c == [path |-> call[r].path, stage |-> "refresh"]
<1>c. c \in Call /\ c.path = call[r].path /\ c.stage = "refresh"
  BY Calls
<1>1. call'[r] = c
  BY <1>t DEF Refuse, Becomes
<1> HIDE DEF c
<1>2. call[r].path # "logout" /\ ~resp[r].sets /\ Kept
  <2>1. call[r].stage # "refresh" /\ resp[r].status = "denied"
    BY DEF Refuse
  <2> QED
    BY <2>1, Answers DEF Answered
<1>3. /\ SendRefresh(r, cookie) /\ cookie' = cookie
      /\ UNCHANGED <<token, user>> /\ Note(r)
  BY <1>2 DEF Refuse, NewCookie
<1>4. UNCHANGED <<sessions, clock>>
  BY <1>t, <1>3, <1>c, CallTypes, RefreshSends, SendsKeep
<1>5. Kept' /\ token' \in {None, cookie'} /\ (user' => Fresh')
  BY <1>2, <1>3, <1>4, SameRows DEF Page
<1>6. At(r)'
  BY <1>t, <1>1, <1>3, <1>5, <1>c, CallTypes, NoteSequential, SentRefresh
<1> QED
  BY <1>1, <1>2, <1>3, <1>5, <1>6, <1>c, OneCall

(* The new session is the cookie and the access token from here on.        *)
LEMMA Renewed ==
  ASSUME ClientInv, NEW s \in SessionId, Sole(s), cookie' = s, token' = s,
         UNCHANGED <<sessions, clock, user>>,
         user => sessions[s].expires_at > clock
  PROVE  /\ Kept' /\ token' \in {None, cookie'} /\ (user' => Fresh')
  BY DEF Kept, Sole, Fresh, Used

LEMMA RepeatPage ==
  ASSUME ClientInv, NEW r \in Request, Receive(r), Repeat(r), Sequential'
  PROVE  Page'
<1> USE ReceiveFacts
<1>t. ClientTypeOK /\ LineageInv /\ call \in [Request -> Call]
  BY DEF ClientInv, SafetyInv, ClientTypeOK
<1> DEFINE c == IF call[r].path = "load" THEN [path |-> "loadMe", stage |-> "first"]
                ELSE [call[r] EXCEPT !.stage = "second"]
           s == resp[r].sid
<1>2. /\ call[r].stage = "refresh" /\ resp[r].status = "ok"
      /\ SendPath(r, c.path, s, NewCookie(r)) /\ Becomes(r, c.path, c.stage)
      /\ Note(r) /\ token' = s /\ cookie' = NewCookie(r) /\ UNCHANGED user
  BY DEF Repeat
<1>c. /\ c \in Call /\ c.path \in Path /\ c.stage # "refresh"
      /\ c.path = call[r].path \/ c.path = "loadMe"
      /\ call[r].path # "logout"
  BY <1>2 DEF Call, NoCall, Path, Me
<1>1. call'[r] = c
  <2>1. c = [path |-> c.path, stage |-> c.stage]
    BY <1>c, <1>2 DEF Call, NoCall
  <2> HIDE DEF c
  <2> QED
    BY <1>t, <1>2, <2>1 DEF Becomes
<1> HIDE DEF c
<1>3. resp[r].sets /\ Renews(s)
  BY <1>2 DEF Answered
<1>4. cookie' = s /\ s \in SessionId /\ Sole(s)
  BY <1>2, <1>3 DEF NewCookie, Renews, Sole, Used
<1>5. UNCHANGED <<sessions, clock>>
  BY <1>t, <1>2, <1>4, <1>c, PathSends, SendsKeep
<1>6. sessions[s].expires_at > clock
  <2>1. /\ cookie \in SessionId /\ sessions[cookie].expires_at > clock
        /\ sessions[cookie].expires_at <= sessions[s].expires_at
    BY <1>3 DEF Renews, Fresh, Used
  <2>2. /\ sessions[cookie].expires_at \in Nat /\ sessions[s].expires_at \in Nat
        /\ clock \in Nat
    BY <1>t, <1>4, <2>1 DEF LineageInv, TypeOK, Session
  <2> QED
    BY <2>1, <2>2
<1>7. Kept' /\ token' \in {None, cookie'} /\ (user' => Fresh')
  BY <1>2, <1>4, <1>5, <1>6, Renewed
<1>8. At(r)'
  <2>1. SendPath(r, call'[r].path, token', cookie')
    BY <1>1, <1>2
  <2>2. call'[r].path # "logout"
    BY <1>1, <1>c
  <2> HIDE DEF s
  <2> QED
    BY <1>1, <1>2, <1>4, <1>7, <1>c, <2>1, <2>2, NoteSequential, SentPath
<1>9. call'[r].path = "login" => ~user'
  BY <1>1, <1>2, <1>c
<1> QED
  BY <1>1, <1>7, <1>8, <1>9, <1>c, OneCall

LEMMA LoggedInPage ==
  ASSUME ClientInv, NEW r \in Request, Receive(r), LoggedIn(r), Sequential'
  PROVE  Page'
<1> USE ReceiveFacts
<1>t. ClientTypeOK /\ LineageInv /\ call \in [Request -> Call]
  BY DEF ClientInv, SafetyInv, ClientTypeOK
<1> DEFINE c == [path |-> "loginMe", stage |-> "first"]
           s == resp[r].sid
<1>c. c \in Call /\ c.path = "loginMe" /\ c.stage = "first" /\ c.path \in Path
  BY Calls DEF Path, Me
<1>1. call'[r] = c
  BY <1>t DEF LoggedIn, Becomes
<1> HIDE DEF c
<1>2. /\ call[r].stage # "refresh" /\ call[r].path = "login" /\ resp[r].status = "ok"
      /\ SendPath(r, "loginMe", s, NewCookie(r))
      /\ Note(r) /\ token' = s /\ cookie' = NewCookie(r) /\ UNCHANGED user
  BY DEF LoggedIn, Final
<1>3. resp[r].sets /\ Sole(s) /\ ~user
  BY <1>2 DEF Answered
<1>4. cookie' = s /\ s \in SessionId
  BY <1>2, <1>3 DEF NewCookie, Sole, Used
<1>5. UNCHANGED <<sessions, clock>>
  <2> HIDE DEF s
  <2> QED
    BY <1>t, <1>2, <1>4, <1>c, PathSends, SendsKeep
<1>7. Kept' /\ token' \in {None, cookie'} /\ (user' => Fresh')
  BY <1>2, <1>3, <1>4, <1>5, Renewed
<1>8. At(r)'
  <2>1. SendPath(r, call'[r].path, token', cookie')
    BY <1>1, <1>2, <1>c
  <2> HIDE DEF s
  <2> QED
    BY <1>1, <1>2, <1>4, <1>7, <1>c, <2>1, NoteSequential, SentPath
<1> QED
  BY <1>1, <1>7, <1>8, <1>c, OneCall

(* The call ends.                                                          *)
LEMMA Returns ==
  ASSUME ClientInv, NEW r \in Request, Return(r)
  PROVE  Idle(r)' /\ UNCHANGED <<sessions, clock>>
  BY DEF ClientInv, ClientTypeOK, Return, Idle, NoCall, vars

LEMMA GiveUpPage ==
  ASSUME ClientInv, NEW r \in Request, Receive(r), GiveUp(r), Sequential'
  PROVE  Page'
<1> USE ReceiveFacts
<1>1. /\ call[r].stage = "refresh" /\ resp[r].status # "ok"
      /\ token' = None /\ cookie' = NewCookie(r) /\ UNCHANGED user /\ Return(r)
  BY DEF GiveUp
<1>2. Kept /\ cookie' = cookie
  BY <1>1 DEF Answered, NewCookie
<1>3. Idle(r)' /\ UNCHANGED <<sessions, clock>>
  BY <1>1, Returns
<1>4. Kept' /\ (user' => Fresh')
  BY <1>1, <1>2, <1>3, SameRows DEF Page
<1> QED
  BY <1>1, <1>3, <1>4, OneCall

(* A logout that settles has no session left.                              *)
LEMMA LogoutSettles ==
  ASSUME ClientInv, NEW r \in Request, Receive(r), Settle(r), Sequential',
         call[r].path = "logout"
  PROVE  token' = None /\ cookie' = None /\ ~user' /\ Fresh /\ Gone(cookie)
<1> USE ReceiveFacts
<1>1. resp[r] = SetCookie("ok", None) /\ Fresh /\ Gone(cookie)
  BY DEF Answered
<1>2. NewCookie(r) = None
  BY <1>1 DEF NewCookie, SetCookie
<1>3. token' = None
  BY DEF Settle
<1>4. user' = FALSE
  BY DEF Settle, Me
<1>5. cookie' = None
  BY <1>2 DEF Settle
<1> QED
  BY <1>1, <1>3, <1>4, <1>5

LEMMA SettlePage ==
  ASSUME ClientInv, NEW r \in Request, Receive(r), Settle(r), Sequential'
  PROVE  Page'
<1> USE ReceiveFacts
<1>1. /\ Return(r) /\ cookie' = NewCookie(r)
      /\ Idle(r)' /\ UNCHANGED <<sessions, clock>>
  BY Returns DEF Settle
<1>2. CASE call[r].path = "logout"
  <2>1. token' = None /\ cookie' = None /\ ~user'
    BY <1>2, LogoutSettles
  <2> QED
    BY <1>1, <2>1, OneCall DEF Kept
<1>3. CASE call[r].path # "logout"
  <2>0. call[r].stage # "refresh" /\ resp[r].status # "lost"
    <3>1. resp[r].status # "lost"
      BY DEF Answered, SetCookie
    <3> QED
      BY <3>1 DEF Settle, Final
  <2>1. ~resp[r].sets /\ Kept
    BY <1>3, <2>0 DEF Settle, Answered
  <2>2. cookie' = cookie /\ token' = token
    BY <1>1, <1>3, <2>1 DEF NewCookie, Settle
  <2>3. (user' => Fresh)
    <3>1. CASE call[r].path \in Me /\ resp[r].status = "ok"
      BY <1>3, <2>0, <3>1 DEF Answered, Me
    <3>2. CASE ~(call[r].path \in Me /\ resp[r].status = "ok")
      BY <1>3, <3>2 DEF Settle, Page
    <3> QED
      BY <3>1, <3>2
  <2>4. Kept' /\ (user' => Fresh') /\ token' \in {None, cookie'}
    BY <1>1, <2>1, <2>2, <2>3, SameRows DEF Page
  <2> QED
    BY <1>1, <2>4, OneCall
<1> QED
  BY <1>2, <1>3

-----------------------------------------------------------------------------
(* The server and the clock under a sequential page.                       *)

(* The rows that are live keep their lineage, and a row not inserted is    *)
(* not live.                                                               *)
LEMMA RevokedRows ==
  ASSUME ClientInv, NEW S \in SUBSET SessionId, Revoke(S), cookie' = cookie,
         NEW s \in SessionId, Sole(s)
  PROVE  /\ s \notin S => Sole(s)'
         /\ s \in S => Gone(s)'
<1>t. LineageInv /\ sessions \in [SessionId -> Session]
  BY DEF ClientInv, SafetyInv, LineageInv, TypeOK
<1>1. /\ Used' = Used
      /\ \A t \in SessionId :
           /\ sessions'[t].root = sessions[t].root
           /\ sessions'[t].state = "live" => sessions[t].state = "live" /\ t \notin S
  BY <1>t, RevokeFacts
<1>2. s \notin S => sessions'[s].state = "live"
  BY DEF Revoke, Sole
<1> QED
  BY <1>1, <1>2 DEF Sole, Gone

(* A new row is the one session of its lineage: a login opens a lineage,   *)
(* and a refresh extends one that has none left.                           *)
LEMMA CreatedRow ==
  ASSUME ClientInv, NEW r \in Request, NEW s \in SessionId, CreateSession(r, s),
         req[r].op \in {"login", "refresh"},
         req[r].op = "refresh" => req[r].sid \in Used /\ Gone(req[r].sid)
  PROVE  /\ Sole(s)' /\ sessions'[s].expires_at = clock + RefreshTTL
         /\ req'[r].target = s
         /\ \A t \in Used :
              /\ sessions'[t] = sessions[t]
              /\ req[r].op = "login" /\ Sole(t) => Sole(t)'
<1>t. /\ LineageInv /\ sessions \in [SessionId -> Session]
      /\ req \in [Request -> Local] /\ s \notin Used
  BY DEF ClientInv, SafetyInv, LineageInv, TypeOK, CreateSession, Used
<1>1. /\ \A t \in SessionId \ {s} : sessions'[t] = sessions[t]
      /\ sessions'[s].state = "live"
      /\ sessions'[s].expires_at = clock + RefreshTTL
      /\ sessions'[s].root = IF req[r].op = "refresh" THEN sessions[req[r].sid].root
                                                      ELSE s
  BY <1>t DEF CreateSession
<1>2. req'[r].target = s
  BY <1>t DEF CreateSession, Local
<1>3. \A t \in SessionId : sessions[t].state = "live" =>
        t \in Used /\ sessions[t].root \in Used /\ t # s /\ sessions[t].root # s
  BY <1>t DEF LineageInv, RowsOK, Used
<1>4. Used' = Used \cup {s}
  BY <1>1 DEF Used
<1>5. Sole(s)'
  BY <1>1, <1>3, <1>4 DEF Sole, Gone
<1>6. ASSUME NEW t \in Used, req[r].op = "login", Sole(t) PROVE Sole(t)'
  BY <1>1, <1>3, <1>4, <1>6 DEF Sole, Used
<1> QED
  BY <1>t, <1>1, <1>2, <1>5, <1>6 DEF Used

(* The call a sequential page has with a handler, and what a statement of  *)
(* the handler leaves alone.                                               *)
LEMMA Served ==
  ASSUME ClientInv, NEW r \in Request, Serve(r), Sequential'
  PROVE  /\ Page /\ Handled(r) /\ ~Idle(r)
         /\ UNCHANGED <<clock, cookie, token, user, call>>
         /\ Fresh => Fresh'
         /\ pc'[r] = "idle" => resp'[r] = Outcome(r)
         /\ pc'[r] # "idle" => req'[r].op = req[r].op /\ req'[r].sid = req[r].sid
         /\ \A q \in Request \ {r} : Idle(q)'
<1>1. /\ Handle(r) /\ ~Idle(r) /\ pc[r] # "idle" /\ clock' = clock
      /\ pc'[r] # "idle" => req'[r].op = req[r].op /\ req'[r].sid = req[r].sid
  BY ServeFacts
<1>2. /\ history \subseteq history'
      /\ UNCHANGED <<cookie, token, user, call>>
      /\ resp' = IF pc'[r] = "idle" THEN [resp EXCEPT ![r] = Outcome(r)] ELSE resp
  BY DEF Serve
<1>3. Page /\ \A q \in Request \ {r} : Idle(q)
  <2>1. Page
    BY <1>2 DEF Sequential, ClientInv
  <2> QED
    BY <1>1, <2>1 DEF Page
<1>4. Handled(r)
  BY <1>1, <1>3 DEF Page
<1>5. pc'[r] = "idle" => resp'[r] = Outcome(r)
  BY <1>2 DEF ClientInv, ClientTypeOK
<1>6. Fresh => Fresh'
  <2>1. [Next]_vars
    BY <1>1 DEF Next
  <2>2. SUFFICES ASSUME Fresh PROVE Fresh'
    OBVIOUS
  <2>3. cookie \in Used /\ cookie \in SessionId /\ RowStep(cookie)
    BY <2>1, <2>2, SafetyNext DEF ClientInv, Fresh, Used
  <2>4. /\ sessions'[cookie].expires_at = sessions[cookie].expires_at
        /\ sessions'[cookie].state # "none"
    BY <2>3 DEF RowStep, RowInserted, RowRevoked, RowDeleted, Used
  <2> QED
    BY <1>1, <1>2, <2>2, <2>3, <2>4 DEF Fresh, Used
<1>7. \A q \in Request \ {r} : Idle(q)'
  BY <1>2, <1>3 DEF Idle
<1> QED
  BY <1>1, <1>2, <1>3, <1>4, <1>5, <1>6, <1>7

(* The operation of a handler is that of its call.                         *)
LEMMA AskedFor ==
  ASSUME ClientInv, NEW r \in Request, pc[r] # "idle"
  PROVE  /\ RequestOK(r) /\ Seen(r)
         /\ req[r].op \in {"login", "refresh", "logout", "protected"}
         /\ req[r].op = "refresh" <=> call[r].stage = "refresh"
         /\ req[r].op = "login" => call[r].path = "login"
         /\ req[r].op = "logout" => call[r].path = "logout"
         /\ req[r].op = "protected" => call[r].path \notin {"login", "logout"}
<1>1. req[r].op = Asks(call[r])
  BY DEF ClientInv, Exchange
<1> QED
  BY <1>1 DEF ClientInv, SafetyInv, LineageInv, RequestsOK, SeenInv, Asks

(* The statements that only read, or only answer.                          *)
LEMMA ReadAt ==
  ASSUME ClientInv, NEW r \in Request, Serve(r), Sequential',
         \/ \E ok \in BOOLEAN : FindByEmail(r, ok)
         \/ Respond(r) \/ FindActive(r) \/ FindUser(r) \/ LogoutFind(r)
         \/ AuthUser(r) \/ TouchSession(r) \/ ReadOnly(r)
         \/ \E t \in SessionId : RevokeSession(r, t)
  PROVE  At(r)'
<1> USE Served
<1>0. pc[r] # "idle" /\ UNCHANGED sessions
  BY ServeFacts DEF FindByEmail, Respond, FindActive, FindUser, LogoutFind,
                    AuthUser, TouchSession, ReadOnly, RevokeSession
<1>t. /\ RequestOK(r) /\ TypeOK
      /\ req[r].op \in {"login", "refresh", "logout", "protected"}
      /\ req[r].op = "refresh" <=> call[r].stage = "refresh"
      /\ req[r].op = "login" => call[r].path = "login"
      /\ req[r].op = "logout" => call[r].path = "logout"
      /\ req[r].op = "protected" => call[r].path \notin {"login", "logout"}
      /\ call' = call
  BY <1>0, AskedFor DEF ClientInv, SafetyInv, LineageInv
<1>s. /\ (Fresh' <=> Fresh) /\ (Kept' <=> Kept)
      /\ \A s \in SessionId : (Sole(s)' <=> Sole(s)) /\ (Gone(s)' <=> Gone(s))
  BY <1>0, SameRows
<1>l. Fresh /\ Kept => Usable(cookie)
  BY NoneAssumption DEF Fresh, Kept, Sole, Usable, Used
<1>1. CASE \E ok \in BOOLEAN : FindByEmail(r, ok)
  <2>1. Kept /\ req[r].op = "login" /\ pc[r] = "findByEmail"
    BY <1>1, <1>t DEF FindByEmail, RequestOK, Handled
  <2>2. CASE Goto(r, "createSession")
    <3>1. pc'[r] = "createSession" /\ req' = req
      BY <1>t, <2>2, GotoFacts DEF Pc, RefreshWindow
    <3> QED
      BY <1>s, <2>1, <3>1 DEF At, Handled
  <2>3. CASE Finish(r)
    <3>1. pc'[r] = "idle" /\ resp'[r] = Answer("denied")
      BY <1>t, <2>1, <2>3, FinishFacts DEF Outcome
    <3> QED
      BY <1>t, <1>s, <2>1, <3>1, Answers DEF At, Answered
  <2> QED
    BY <1>1, <2>2, <2>3 DEF FindByEmail
<1>2. CASE Respond(r)
  <2>1. /\ pc[r] = "respond" /\ req[r].op \in {"login", "refresh"}
        /\ req[r].target \in SessionId
    BY <1>2, <1>t DEF Respond, RequestOK, Used
  <2>2. pc'[r] = "idle" /\ resp'[r] = SetCookie("ok", req[r].target)
    BY <1>2, <1>t, <2>1, FinishFacts DEF Respond, Outcome
  <2>3. /\ resp'[r].status = "ok" /\ resp'[r].sets /\ resp'[r].sid = req[r].target
    BY <2>1, <2>2, Answers
  <2>4. CASE req[r].op = "login"
    <3>1. Kept /\ Sole(req[r].target)
      BY <2>1, <2>4 DEF Handled
    <3>2. Kept' /\ Sole(resp[r].sid)'
      BY <1>s, <2>1, <2>3, <3>1 DEF Sole
    <3> QED
      BY <1>t, <2>2, <2>3, <2>4, <3>2 DEF At, Answered
  <2>5. CASE req[r].op = "refresh"
    <3>1. Renews(req[r].target)
      BY <2>1, <2>5 DEF Handled
    <3>2. Renews(resp[r].sid)'
      BY <1>0, <1>s, <2>1, <2>3, <3>1 DEF Renews, Sole
    <3> QED
      BY <1>t, <2>2, <2>3, <2>5, <3>2 DEF At, Answered
  <2> QED
    BY <2>1, <2>4, <2>5
<1>3. CASE FindActive(r) \/ LogoutFind(r)
  <2>1. /\ req[r].op \in {"refresh", "logout"} /\ Kept /\ Fresh /\ req[r].sid = cookie
    BY <1>3, <1>t DEF FindActive, LogoutFind, RequestOK, Handled
  <2>2. Goto(r, IF pc[r] = "findActive" THEN "findUser" ELSE "logoutRevoke")
    BY <1>3, <1>l, <2>1 DEF FindActive, LogoutFind
  <2>3. pc'[r] \in {"findUser", "logoutRevoke"} /\ req' = req
    BY <1>t, <2>2, GotoFacts DEF Pc, RefreshWindow
  <2> QED
    BY <1>s, <2>1, <2>3 DEF At, Handled
<1>4. CASE FindUser(r)
  <2>1. /\ req[r].op = "refresh" /\ Kept /\ Fresh /\ req[r].sid = cookie
    BY <1>4, <1>t DEF FindUser, RequestOK, Handled
  <2>2. active[req[r].user]
    BY <1>0, <1>t DEF RequestOK, ClientInv, Server
  <2>3. pc'[r] = "revokeOld" /\ req' = req
    BY <1>4, <1>t, <2>2, GotoFacts DEF FindUser, Pc, RefreshWindow
  <2> QED
    BY <1>s, <2>1, <2>3 DEF At, Handled
<1>5. CASE \/ AuthUser(r) \/ TouchSession(r) \/ ReadOnly(r)
           \/ \E t \in SessionId : RevokeSession(r, t)
  <2>1. /\ req[r].op = "protected" /\ Kept /\ Fresh /\ req[r].sid = cookie
        /\ pc[r] \in {"authUser", "touch", "handler"}
    BY <1>5, <1>t DEF AuthUser, TouchSession, ReadOnly, RevokeSession, RequestOK, Handled
  <2>2. CASE Finish(r)
    <3>1. /\ pc'[r] = "idle"
          /\ resp'[r] \in {Answer("denied"), Answer("ok")}
      BY <1>t, <2>1, <2>2, FinishFacts DEF Outcome
    <3>2. resp'[r].status \in {"ok", "denied"} /\ ~resp'[r].sets
      BY <3>1, Answers
    <3> QED
      BY <1>t, <1>s, <2>1, <3>1, <3>2 DEF At, Answered
  <2>3. CASE pc'[r] \in {"touch", "handler", "revokeTarget"}
    BY <1>s, <2>1, <2>3 DEF At, Handled
  <2>4. ASSUME NEW l \in {"touch", "handler"}, Goto(r, l) PROVE pc'[r] = l
    BY <1>t, <2>4 DEF Goto, TypeOK
  <2>5. ASSUME pc' = [pc EXCEPT ![r] = "revokeTarget"] PROVE pc'[r] = "revokeTarget"
    BY <1>t, <2>5 DEF TypeOK
  <2> QED
    BY <1>5, <2>2, <2>3, <2>4, <2>5 DEF AuthUser, TouchSession, ReadOnly, RevokeSession
<1> QED
  BY <1>1, <1>2, <1>3, <1>4, <1>5

(* The statements that write.                                              *)
LEMMA CreateAt ==
  ASSUME ClientInv, NEW r \in Request, Serve(r), Sequential',
         NEW s \in SessionId, CreateSession(r, s)
  PROVE  At(r)'
<1> USE Served
<1>0. pc[r] = "createSession" /\ pc'[r] = "respond"
  BY DEF CreateSession, ClientInv, ClientTypeOK, TypeOK
<1>t. /\ RequestOK(r) /\ TypeOK /\ cookie' = cookie /\ clock' = clock
      /\ req[r].op \in {"login", "refresh"}
      /\ req'[r].op = req[r].op /\ req'[r].sid = req[r].sid
  BY <1>0, AskedFor DEF ClientInv, ClientTypeOK, RequestOK
<1>1. CASE req[r].op = "login"
  <2>1. Kept /\ Sole(s)' /\ req'[r].target = s
    BY <1>0, <1>1, CreatedRow DEF Handled
  <2>2. cookie # None => Sole(cookie)'
    BY <1>1, <2>1, CreatedRow DEF Kept, Sole
  <2>3. Kept' /\ Sole(req[r].target)'
    BY <1>t, <2>1, <2>2 DEF Kept, Sole
  <2> QED
    BY <1>0, <1>1, <1>t, <2>3 DEF At, Handled
<1>2. CASE req[r].op = "refresh"
  <2>1. Fresh /\ Gone(cookie) /\ req[r].sid = cookie /\ cookie \in Used
    BY <1>0, <1>2 DEF Handled, Fresh
  <2>2. /\ Sole(s)' /\ req'[r].target = s /\ s \in SessionId
        /\ sessions'[s].expires_at = clock + RefreshTTL
        /\ sessions'[cookie] = sessions[cookie]
    BY <1>2, <1>t, <2>1, CreatedRow
  <2>3. sessions[cookie].expires_at <= clock + RefreshTTL
    BY <2>1 DEF ClientInv, Server
  <2>4. Fresh' /\ Renews(req[r].target)'
    BY <1>t, <2>1, <2>2, <2>3 DEF Renews, Sole
  <2> QED
    BY <1>0, <1>2, <1>t, <2>1, <2>4 DEF At, Handled
<1> QED
  BY <1>1, <1>2, <1>t

LEMMA RevokeAt ==
  ASSUME ClientInv, NEW r \in Request, Serve(r), Sequential',
         \/ RevokeOld(r) \/ LogoutRevoke(r) \/ RevokeOthers(r) \/ RevokeTarget(r)
  PROVE  At(r)'
<1> USE Served
<1>0. pc[r] \in {"revokeOld", "logoutRevoke", "handler", "revokeTarget"}
  BY DEF RevokeOld, LogoutRevoke, RevokeOthers, RevokeTarget
<1>t. /\ RequestOK(r) /\ TypeOK /\ Seen(r) /\ cookie' = cookie /\ call' = call
      /\ req[r].op \in {"refresh", "logout", "protected"}
      /\ req[r].op = "refresh" <=> call[r].stage = "refresh"
      /\ req[r].op = "logout" => call[r].path = "logout"
      /\ req[r].op = "protected" => call[r].path \notin {"login", "logout"}
  BY <1>0, AskedFor DEF ClientInv, ClientTypeOK, RequestOK
<1>1. /\ Fresh /\ Fresh' /\ req[r].sid = cookie /\ cookie \in SessionId
      /\ Sole(cookie) /\ cookie # None
  BY <1>0, <1>t, NoneAssumption DEF Handled, Kept, Fresh, Used
<1>2. ASSUME NEW S \in SUBSET SessionId, Revoke(S)
      PROVE  /\ cookie \in S => Gone(cookie)'
             /\ cookie \notin S => Kept'
  <2>1. cookie \notin S => Sole(cookie)'
    BY <1>1, <1>t, <1>2, RevokedRows
  <2> QED
    BY <1>1, <1>t, <1>2, <2>1, RevokedRows DEF Kept, Sole
<1>3. CASE RevokeOld(r)
  <2>1. req[r].op = "refresh" /\ pc'[r] = "createSession" /\ req' = req
    BY <1>t, <1>3, GotoFacts DEF RevokeOld, RequestOK, Pc, RefreshWindow
  <2>2. Gone(cookie)'
    BY <1>1, <1>2, <1>3 DEF RevokeOld
  <2> QED
    BY <1>1, <1>t, <2>1, <2>2 DEF At, Handled
<1>4. CASE LogoutRevoke(r)
  <2>1. /\ call[r].path = "logout" /\ call[r].stage # "refresh"
        /\ pc'[r] = "idle" /\ resp'[r] = SetCookie("ok", None)
    BY <1>t, <1>4, FinishFacts DEF LogoutRevoke, RequestOK, Outcome
  <2>2. Gone(cookie)'
    BY <1>1, <1>2, <1>4 DEF LogoutRevoke
  <2> QED
    BY <1>1, <1>t, <2>1, <2>2 DEF At, Answered
<1>5. CASE RevokeOthers(r) \/ RevokeTarget(r)
  <2>1. /\ call[r].path \notin {"login", "logout"} /\ call[r].stage # "refresh"
        /\ pc'[r] = "idle" /\ resp'[r] = Answer("ok")
    BY <1>t, <1>5, FinishFacts DEF RevokeOthers, RevokeTarget, RequestOK, Outcome
  <2>2. Kept'
    <3>1. CASE RevokeOthers(r)
      <4> DEFINE S == Rows(req[r].user) \ {req[r].sid}
      <4>1. S \in SUBSET SessionId /\ cookie \notin S
        BY <1>1 DEF Rows
      <4>2. Revoke(S)
        BY <3>1 DEF RevokeOthers
      <4> HIDE DEF S
      <4> QED
        BY <1>2, <4>1, <4>2
    <3>2. CASE RevokeTarget(r)
      <4>1. /\ Revoke({req[r].target}) /\ {req[r].target} \in SUBSET SessionId
            /\ req[r].target # req[r].sid
        BY <1>t, <3>2 DEF RevokeTarget, RequestOK, Seen, SeenAt, Used
      <4> QED
        BY <1>1, <1>2, <4>1
    <3> QED
      BY <1>5, <3>1, <3>2
  <2>3. resp'[r].status = "ok" /\ ~resp'[r].sets
    BY <2>1, Answers
  <2> QED
    BY <1>1, <1>t, <2>1, <2>2, <2>3 DEF At, Answered
<1> QED
  BY <1>3, <1>4, <1>5

LEMMA ServePage ==
  ASSUME ClientInv, NEW r \in Request, Serve(r), Sequential'
  PROVE  Page'
<1>1. /\ Page /\ Handled(r) /\ ~Idle(r)
      /\ UNCHANGED <<cookie, token, user, call>> /\ (Fresh => Fresh')
      /\ \A q \in Request \ {r} : Idle(q)'
  BY Served
<1>2. At(r)'
  <2>1. Handle(r) /\ pc[r] \notin {"writeUser", "revokeAll"}
    BY ServeFacts
  <2>2. ~FindAny(r) /\ ~Purge(r)
    BY <1>1 DEF FindAny, Purge, Handled
  <2>3. \A value \in BOOLEAN : ~WriteUser(r, value) /\ ~RevokeAll(r)
    BY <2>1 DEF WriteUser, RevokeAll
  <2> QED
    BY <2>1, <2>2, <2>3, ReadAt, CreateAt, RevokeAt DEF Handle
<1>3. token' \in {None, cookie'} /\ (user' => Fresh') /\ ~Idle(r)'
  BY <1>1 DEF Page, Idle
<1>4. /\ call'[r].path = "login" => ~user'
      /\ call'[r].path = "logout" => user' /\ call'[r].stage = "first"
  BY <1>1 DEF Page
<1> QED
  BY <1>1, <1>2, <1>3, <1>4, OneCall

(* While time passes, a cookie that lapses is recorded.                    *)
LEMMA TickPage ==
  ASSUME ClientInv, ClientTick, Sequential'
  PROVE  Page'
<1>1. /\ UNCHANGED <<sessions, pc, req, cookie, token, user, call, resp>>
      /\ clock \in Nat /\ clock' = clock + 1
  BY DEF ClientTick, Tick, ClientInv, ClientTypeOK, TypeOK
<1>2. history' = history /\ ~(cookie # None /\ sessions[cookie].expires_at <= clock')
  BY DEF ClientTick, Sequential
<1>3. Page
  BY <1>2 DEF ClientInv, Sequential
<1>4. /\ Used' = Used /\ (Kept' <=> Kept)
      /\ \A s \in SessionId : (Sole(s)' <=> Sole(s)) /\ (Gone(s)' <=> Gone(s))
  BY <1>1 DEF Used, Kept, Sole, Gone
<1>5. Fresh' <=> Fresh
  <2>1. CASE cookie \in Used
    <3>1. cookie # None /\ sessions[cookie].expires_at \in Nat
      BY <2>1, NoneAssumption DEF Used, ClientInv, ClientTypeOK, TypeOK, Session
    <3> QED
      BY <1>1, <1>2, <1>4, <2>1, <3>1 DEF Fresh
  <2>2. CASE cookie \notin Used
    BY <1>1, <1>4, <2>2 DEF Fresh
  <2> QED
    BY <2>1, <2>2
<1>7. ASSUME NEW r \in Request, ~Idle(r), At(r)
      PROVE  At(r)'
  <2>1. \A s : (Renews(s)' <=> Renews(s)) /\ (Sole(s)' <=> Sole(s))
    BY <1>1, <1>4, <1>5 DEF Renews, Sole
  <2>2. Gone(cookie)' <=> Gone(cookie)
    BY <1>1 DEF Gone
  <2>3. CASE pc[r] = "idle"
    BY <1>1, <1>4, <1>5, <1>7, <2>1, <2>2, <2>3 DEF At, Answered
  <2>4. CASE pc[r] # "idle"
    BY <1>1, <1>4, <1>5, <1>7, <2>1, <2>2, <2>4 DEF At, Handled
  <2> QED
    BY <2>3, <2>4
<1> QED
  BY <1>1, <1>3, <1>4, <1>5, <1>7 DEF Page, At, Idle

(* Whoever steps, a page still sequential keeps what Page says of it.      *)
LEMMA PageNext ==
  ASSUME ClientInv, [ClientNext]_allVars, Sequential'
  PROVE  Page'
<1>1. ASSUME NEW r \in Request, Receive(r) PROVE Page'
  BY <1>1, RefusePage, RepeatPage, GiveUpPage, LoggedInPage, SettlePage DEF Receive
<1>2. ASSUME NEW r \in Request, ServeError(r) \/ Lose(r) PROVE FALSE
  BY <1>2 DEF ServeError, Lose, Sequential
<1>3. CASE UNCHANGED allVars
  <2>1. Sequential /\ Page
    BY <1>3 DEF allVars, clientVars, Sequential, ClientInv
  <2> QED
    BY <1>3, <2>1
       DEF allVars, clientVars, vars, Page, Idle, Answered, Handled, Kept, Fresh,
           Renews, Sole, Gone, Used
<1> QED
  BY <1>1, <1>2, <1>3, BeginPage, PageLoadPage, ServePage, TickPage DEF ClientNext

LEMMA ClientInvNext ==
  ClientInv /\ [ClientNext]_allVars => ClientInv'
<1> SUFFICES ASSUME ClientInv, [ClientNext]_allVars PROVE ClientInv'
  OBVIOUS
<1>1. SafetyInv' /\ \A s \in SessionId : RowStep(s)
  BY VarsStep, SafetyNext DEF ClientInv
<1>2. ClientTypeOK'
  BY <1>1, TypesNext DEF SafetyInv, LineageInv
<1>3. (\A r \in Request : Exchange(r))' /\ Server'
  BY <1>1, ExchangeNext, ServerNext
<1>4. Sequential' => Page'
  BY PageNext
<1> QED
  BY <1>1, <1>2, <1>3, <1>4 DEF ClientInv

LEMMA ClientAlways == ClientSpec => []ClientInv
  BY ClientStart, ClientInvNext, PTL DEF ClientSpec

-----------------------------------------------------------------------------
(* The properties.                                                         *)

(* The page, its calls and the answers on their way are always well-typed. *)
THEOREM ClientTypeCorrect == ClientSpec => []ClientTypeOK
<1>1. ClientInv => ClientTypeOK
  BY DEF ClientInv
<1> QED
  BY <1>1, ClientAlways, PTL

(* A page whose calls never overlapped and never failed is never signed    *)
(* out by the renewals of request(): while it shows a user and is at rest, *)
(* its cookie names a session a refresh would accept.                      *)
THEOREM SequentialStaysSignedIn == ClientSpec => []SequentialPageStaysSignedIn
<1>1. ClientInv => SequentialPageStaysSignedIn
  <2> SUFFICES ASSUME ClientInv, Sequential, user, \A r \in Request : Idle(r)
               PROVE  cookie # None /\ Usable(cookie)
    BY DEF SequentialPageStaysSignedIn, SignedIn, Sequential
  <2>1. Fresh /\ Kept
    BY DEF ClientInv, Page
  <2>2. cookie # None
    BY <2>1, NoneAssumption DEF Fresh, Used
  <2> QED
    BY <2>1, <2>2 DEF Fresh, Kept, Sole, Usable
<1> QED
  BY <1>1, ClientAlways, PTL

(* When logout() settles on such a page, no token is in memory, no cookie  *)
(* in the jar and no usable session left of the login it ends.             *)
THEOREM LogoutIsComplete == ClientSpec => LogoutLeavesNothing
<1> DEFINE Complete ==
      \A r \in Request :
        call[r].path = "logout" /\ call'[r].path = "none"
          /\ history' \subseteq {"revoked"} =>
          /\ token' = None /\ cookie' = None
          /\ \A s \in SessionId :
               sessions[s].root = sessions[cookie].root => ~Usable(s)'
<1>1. ClientInv /\ [ClientNext]_allVars => [Complete]_allVars
  <2> SUFFICES ASSUME ClientInv, [ClientNext]_allVars, NEW r \in Request,
                      call[r].path = "logout", call'[r].path = "none", Sequential'
               PROVE  /\ token' = None /\ cookie' = None
                      /\ \A s \in SessionId :
                           sessions[s].root = sessions[cookie].root => ~Usable(s)'
    BY DEF Sequential
  <2>1. Receive(r)
    <3>1. \E q \in Request : Acts(q) /\ call'[r] # call[r]
      BY DEF ClientNext, Acts, Serve, ServeError, Lose, ClientTick, allVars, clientVars
    <3>2. PICK q \in Request : Acts(q) /\ call'[r] # call[r]
      BY <3>1
    <3>3. q = r
      BY <3>2, ActsFacts DEF ClientInv, ClientTypeOK, Return
    <3> QED
      BY <3>2, <3>3 DEF Acts, Begin, PageLoad, Idle
  <2>2. Settle(r)
    <3>1. call[r].stage = "first" /\ ~Idle(r)
      BY <2>1, ReceiveFacts
    <3>2. ~Refuse(r)
      BY <2>1, ReceiveFacts DEF Refuse, Answered, SetCookie
    <3> QED
      BY <2>1, <3>1, <3>2 DEF Receive, Repeat, GiveUp, LoggedIn
  <2>3. token' = None /\ cookie' = None /\ Gone(cookie)
    BY <2>1, <2>2, LogoutSettles
  <2>4. UNCHANGED sessions
    BY <2>2, Returns DEF Settle
  <2> QED
    BY <2>3, <2>4 DEF Gone, Usable
<1> QED
  BY <1>1, ClientAlways, PTL DEF ClientSpec, LogoutLeavesNothing

(* Whatever the answers are, each one consumed takes its call closer to    *)
(* its end: no call loops.                                                 *)
THEOREM CallsAlwaysAdvance == ClientSpec => CallsAdvance
<1>1. ClientInv /\ [ClientNext]_allVars =>
        [\A r \in Request :
           ~Idle(r) => \/ call'[r] = call[r]
                         /\ (resp[r] # NoAnswer => resp'[r] # NoAnswer)
                      \/ Distance(call'[r]) < Distance(call[r])]_allVars
  BY CallsStep DEF Advances
<1> QED
  BY <1>1, ClientAlways, PTL DEF ClientSpec, CallsAdvance

=============================================================================
