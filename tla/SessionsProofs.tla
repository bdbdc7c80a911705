--------------------------- MODULE SessionsProofs ---------------------------
(***************************************************************************)
(* Proofs about Sessions, for any number of users, rows and handlers, any  *)
(* time to live and any retention.                                         *)
(***************************************************************************)
EXTENDS Sessions, TLAPS

(* A row that was ever inserted has an owner and belongs to a lineage; the *)
(* tokens handed out and the lineages ended are those of such rows.        *)
RowsOK ==
  /\ \A s \in Used : sessions[s].root \in Used /\ sessions[s].user_id \in User
  /\ \A s \in Used : sessions[s].jwt_exp <= sessions[s].expires_at
  /\ issued \subseteq Used
  /\ ended \subseteq Used

(* What a handler's position says about its locals; in particular, a       *)
(* refresh past its check of the token belongs to no ended lineage.        *)
RequestOK(r) ==
  /\ pc[r] # "idle" => req[r].user \in User
  /\ pc[r] \in {"findActive", "findAny", "purge", "findUser", "revokeOld"}
       => req[r].op = "refresh"
  /\ pc[r] \in {"logoutFind", "logoutRevoke"} => req[r].op = "logout"
  /\ pc[r] \in {"authUser", "touch", "handler", "revokeTarget"}
       => req[r].op = "protected"
  /\ pc[r] = "findByEmail" => req[r].op = "login"
  /\ pc[r] \in {"createSession", "respond"} => req[r].op \in {"login", "refresh"}
  /\ req[r].op \in {"refresh", "logout", "protected"} => req[r].sid \in Used
  /\ pc[r] \in {"respond", "revokeTarget"} => req[r].target \in Used
  /\ pc[r] \in RefreshWindow /\ req[r].op = "refresh"
       => sessions[req[r].sid].root \notin ended

RequestsOK == \A r \in Request : RequestOK(r)

LineageInv ==
  TypeOK /\ RowsOK /\ RequestsOK /\ EndedLineageStaysDead

-----------------------------------------------------------------------------
(* The initial state satisfies the inductive invariant.                    *)
LEMMA LineageInit == Init => LineageInv
<1> SUFFICES ASSUME Init PROVE LineageInv
  OBVIOUS
<1>1. NoSession \in Session /\ NoRequest \in Local
  BY DEF NoSession, Session, NoRequest, Local
<1>2. TypeOK
  <2>1. cleaner \in Cleaner
    BY DEF Init, Cleaner
  <2> QED
    BY <1>1, <2>1 DEF Init, TypeOK, Pc
<1>3. Used = {}
  BY DEF Init, Used, NoSession
<1>4. RowsOK /\ EndedLineageStaysDead
  BY <1>3 DEF Init, RowsOK, EndedLineageStaysDead
<1>5. RequestsOK
  BY DEF Init, RequestsOK, RequestOK, NoRequest, RefreshWindow
<1> QED
  BY <1>2, <1>4, <1>5 DEF LineageInv

-----------------------------------------------------------------------------
(* How the control operators move a handler.                               *)
LEMMA GotoFacts ==
  ASSUME TypeOK, NEW r \in Request, NEW l \in Pc, Goto(r, l)
  PROVE  /\ pc' \in [Request -> Pc] /\ req' \in [Request -> Local]
         /\ pc'[r] = l /\ req' = req
         /\ \A q \in Request \ {r} : pc'[q] = pc[q]
  BY DEF TypeOK, Goto

LEMMA StartFacts ==
  ASSUME TypeOK, NEW r \in Request, NEW l \in Pc, NEW x \in Local, Start(r, l, x)
  PROVE  /\ pc' \in [Request -> Pc] /\ req' \in [Request -> Local]
         /\ pc'[r] = l /\ req'[r] = x
         /\ \A q \in Request \ {r} : pc'[q] = pc[q] /\ req'[q] = req[q]
  BY DEF TypeOK, Start

LEMMA FinishFacts ==
  ASSUME TypeOK, NEW r \in Request, Finish(r)
  PROVE  /\ pc' \in [Request -> Pc] /\ req' \in [Request -> Local]
         /\ pc'[r] = "idle" /\ req'[r] = NoRequest
         /\ \A q \in Request \ {r} : pc'[q] = pc[q] /\ req'[q] = req[q]
<1>1. NoRequest \in Local /\ "idle" \in Pc
  BY DEF NoRequest, Local, Pc
<1> QED
  BY <1>1 DEF TypeOK, Finish

(* An idle handler satisfies its part of the invariant.                    *)
LEMMA IdleOK ==
  ASSUME NEW r \in Request, pc'[r] = "idle", req'[r] = NoRequest
  PROVE  RequestOK(r)'
  BY DEF RequestOK, NoRequest, RefreshWindow

(* A step that leaves the rows alone disturbs only the handler that takes  *)
(* it.                                                                     *)
LEMMA QuietStep ==
  ASSUME LineageInv, TypeOK', NEW r \in Request,
         sessions' = sessions, issued' = issued, ended' = ended,
         \A q \in Request \ {r} : pc'[q] = pc[q] /\ req'[q] = req[q],
         RequestOK(r)'
  PROVE  LineageInv'
<1>1. Used' = Used
  BY DEF Used
<1>2. RowsOK' /\ EndedLineageStaysDead'
  BY <1>1 DEF LineageInv, RowsOK, EndedLineageStaysDead
<1>3. ASSUME NEW q \in Request PROVE RequestOK(q)'
  BY <1>1, <1>3 DEF LineageInv, RequestsOK, RequestOK
<1> QED
  BY <1>2, <1>3 DEF LineageInv, RequestsOK

(* Revocation of inserted rows keeps every row but its state, and makes    *)
(* none live.                                                              *)
LEMMA RevokeFacts ==
  ASSUME LineageInv, NEW S \in SUBSET SessionId, Revoke(S)
  PROVE  /\ sessions' \in [SessionId -> Session]
         /\ Used' = Used
         /\ \A s \in SessionId :
              /\ sessions'[s].root = sessions[s].root
              /\ sessions'[s].user_id = sessions[s].user_id
              /\ sessions'[s].jwt_exp = sessions[s].jwt_exp
              /\ sessions'[s].expires_at = sessions[s].expires_at
              /\ sessions'[s].state = "live" => sessions[s].state = "live" /\ s \notin S
<1> USE DEF LineageInv, TypeOK, Session
<1>1. ASSUME NEW s \in SessionId
      PROVE  /\ sessions'[s] \in Session
             /\ sessions'[s].root = sessions[s].root
             /\ sessions'[s].user_id = sessions[s].user_id
             /\ sessions'[s].jwt_exp = sessions[s].jwt_exp
             /\ sessions'[s].expires_at = sessions[s].expires_at
             /\ sessions'[s].state = "live" => sessions[s].state = "live" /\ s \notin S
             /\ sessions'[s].state = "none" <=> sessions[s].state = "none"
  BY DEF Revoke
<1>2. sessions' = [s \in SessionId |-> sessions'[s]]
  BY DEF Revoke
<1> QED
  BY <1>1, <1>2 DEF Used

(* Recording an end breaks nothing: lineages with another live session or  *)
(* with a refresh in flight are left out.                                  *)
LEMMA EndFacts ==
  ASSUME LineageInv, NEW S \in SUBSET Used, Revoke(S), RecordEnd(S)
  PROVE  /\ ended' \in SUBSET SessionId
         /\ ended' \subseteq Used'
         /\ EndedLineageStaysDead'
         /\ \A r \in Request :
              RequestOK(r) /\ pc[r] \in RefreshWindow /\ req[r].op = "refresh"
                => sessions'[req[r].sid].root \notin ended'
<1>1. S \in SUBSET SessionId
  BY DEF Used
<1>2. Roots(S) \subseteq Used
  BY DEF LineageInv, RowsOK, Roots
<1>3. ended' \subseteq Used' /\ ended' \in SUBSET SessionId
  BY <1>1, <1>2, RevokeFacts DEF LineageInv, RowsOK, RecordEnd, Used
<1>4. ASSUME NEW s \in SessionId, sessions'[s].state = "live"
      PROVE  sessions'[s].root \notin ended'
  <2>1. /\ sessions[s].state = "live" /\ s \notin S
        /\ sessions'[s].root = sessions[s].root
    BY <1>1, <1>4, RevokeFacts
  <2>2. sessions[s].root \in Roots({q \in SessionId \ S : sessions[q].state = "live"})
    BY <2>1 DEF Roots
  <2> QED
    BY <2>1, <2>2 DEF LineageInv, EndedLineageStaysDead, RecordEnd
<1>5. ASSUME NEW r \in Request, RequestOK(r),
             pc[r] \in RefreshWindow, req[r].op = "refresh"
      PROVE  sessions'[req[r].sid].root \notin ended'
  <2>1. req[r].sid \in SessionId
    BY <1>5 DEF RequestOK, Used
  <2>2. sessions[req[r].sid].root \in InFlight
    BY <1>5 DEF InFlight
  <2>3. sessions'[req[r].sid].root = sessions[req[r].sid].root
    BY <1>1, <2>1, RevokeFacts
  <2> QED
    BY <1>5, <2>2, <2>3 DEF RequestOK, RecordEnd
<1> QED
  BY <1>3, <1>4, <1>5 DEF EndedLineageStaysDead

-----------------------------------------------------------------------------
(* Handlers arriving: what is presented is a token that was handed out.    *)
LEMMA ArriveStep ==
  ASSUME LineageInv, NEW r \in Request, Arrive(r)
  PROVE  LineageInv'
<1> USE DEF LineageInv
<1> DEFINE Quiet == /\ clock' = clock /\ active' = active /\ cleaner' = cleaner
                    /\ sessions' = sessions /\ issued' = issued /\ ended' = ended
<1>0. {"findByEmail", "writeUser", "findActive", "logoutFind", "authUser"} \subseteq Pc
  BY DEF Pc
<1>q. ASSUME NEW l \in Pc, NEW x \in Local, Start(r, l, x), Quiet,
             l \notin RefreshWindow \cup {"respond", "revokeTarget", "handler", "touch"},
             x.user \in User,
             l \in {"findActive", "findAny", "purge"} => x.op = "refresh",
             l \in {"logoutFind", "logoutRevoke"} => x.op = "logout",
             l = "authUser" => x.op = "protected",
             l = "findByEmail" => x.op = "login",
             x.op \in {"refresh", "logout", "protected"} => x.sid \in Used
      PROVE  LineageInv'
  <2>1. TypeOK'
    BY <1>q, StartFacts DEF TypeOK
  <2>2. RequestOK(r)'
    BY <1>q, StartFacts DEF RequestOK, RefreshWindow, Used
  <2> QED
    BY <1>q, <2>1, <2>2, StartFacts, QuietStep
<1>1. ASSUME NEW u \in User, LoginArrive(r, u) PROVE LineageInv'
  <2> DEFINE x == [NoRequest EXCEPT !.op = "login", !.user = u,
                                    !.sawLive = TRUE, !.sawActive = active[u]]
  <2>1. x \in Local /\ x.user \in User /\ x.op = "login"
    BY DEF NoRequest, Local, Op, TypeOK
  <2>2. Start(r, "findByEmail", x) /\ Quiet
    BY <1>1 DEF LoginArrive
  <2> HIDE DEF x
  <2> QED
    BY <1>0, <2>1, <2>2, <1>q DEF RefreshWindow
<1>2. ASSUME NEW u \in User, UpdateArrive(r, u) PROVE LineageInv'
  <2> DEFINE x == [NoRequest EXCEPT !.op = "update", !.user = u,
                                    !.wasActive = active[u]]
  <2>1. x \in Local /\ x.user \in User /\ x.op = "update"
    BY DEF NoRequest, Local, Op, TypeOK
  <2>2. Start(r, "writeUser", x) /\ Quiet
    BY <1>2 DEF UpdateArrive
  <2> HIDE DEF x
  <2> QED
    BY <1>0, <2>1, <2>2, <1>q DEF RefreshWindow
<1>3. ASSUME NEW s \in SessionId, RefreshArrive(r, s) PROVE LineageInv'
  <2> DEFINE x == [NoRequest EXCEPT !.op = "refresh", !.sid = s,
                                    !.user = sessions[s].user_id,
                                    !.sawLive = Usable(s),
                                    !.sawActive = active[sessions[s].user_id]]
  <2>1. s \in Used /\ sessions[s].user_id \in User
    BY <1>3 DEF RefreshArrive, RowsOK
  <2>2. x \in Local /\ x.user \in User /\ x.op = "refresh" /\ x.sid = s
    BY <2>1 DEF NoRequest, Local, Op, TypeOK, Usable
  <2>3. Start(r, "findActive", x) /\ Quiet
    BY <1>3 DEF RefreshArrive
  <2> HIDE DEF x
  <2> QED
    BY <1>0, <2>1, <2>2, <2>3, <1>q DEF RefreshWindow
<1>4. ASSUME NEW s \in SessionId, LogoutArrive(r, s) PROVE LineageInv'
  <2> DEFINE x == [NoRequest EXCEPT !.op = "logout", !.sid = s,
                                    !.user = sessions[s].user_id]
  <2>1. s \in Used /\ sessions[s].user_id \in User
    BY <1>4 DEF LogoutArrive, RowsOK
  <2>2. x \in Local /\ x.user \in User /\ x.op = "logout" /\ x.sid = s
    BY <2>1 DEF NoRequest, Local, Op, TypeOK
  <2>3. Start(r, "logoutFind", x) /\ Quiet
    BY <1>4 DEF LogoutArrive
  <2> HIDE DEF x
  <2> QED
    BY <1>0, <2>1, <2>2, <2>3, <1>q DEF RefreshWindow
<1>5. ASSUME NEW s \in SessionId, AuthArrive(r, s) PROVE LineageInv'
  <2> DEFINE x == [NoRequest EXCEPT !.op = "protected", !.sid = s,
                                    !.user = sessions[s].user_id,
                                    !.sawLive = Usable(s),
                                    !.sawActive = active[sessions[s].user_id]]
  <2>1. s \in Used /\ sessions[s].user_id \in User
    BY <1>5 DEF AuthArrive, RowsOK
  <2>2. x \in Local /\ x.user \in User /\ x.op = "protected" /\ x.sid = s
    BY <2>1 DEF NoRequest, Local, Op, TypeOK, Usable
  <2>3. Start(r, "authUser", x) /\ Quiet
    BY <1>5 DEF AuthArrive
  <2> HIDE DEF x
  <2> QED
    BY <1>0, <2>1, <2>2, <2>3, <1>q DEF RefreshWindow
<1> QED
  BY <1>1, <1>2, <1>3, <1>4, <1>5 DEF Arrive

(* A handler that stops leaves the invariant to the others.                *)
LEMMA FinishStep ==
  ASSUME LineageInv, NEW r \in Request, Finish(r),
         UNCHANGED <<clock, active, sessions, issued, cleaner, ended>>
  PROVE  LineageInv'
<1>1. TypeOK'
  BY FinishFacts DEF LineageInv, TypeOK
<1>2. RequestOK(r)'
  BY FinishFacts, IdleOK DEF LineageInv
<1> QED
  BY <1>1, <1>2, FinishFacts, QuietStep DEF LineageInv

(* A check that lets a handler pass.                                       *)
LEMMA GotoStep ==
  ASSUME LineageInv, NEW r \in Request, NEW l \in Pc, Goto(r, l),
         UNCHANGED <<clock, active, sessions, issued, cleaner, ended>>,
         RequestOK(r)'
  PROVE  LineageInv'
<1>1. TypeOK'
  BY GotoFacts DEF LineageInv, TypeOK
<1> QED
  BY <1>1, GotoFacts, QuietStep DEF LineageInv

(* The statements that only read.                                          *)
LEMMA ReadStep ==
  ASSUME LineageInv, NEW r \in Request,
         \/ \E ok \in BOOLEAN : FindByEmail(r, ok)
         \/ FindActive(r) \/ FindUser(r) \/ FindAny(r)
         \/ LogoutFind(r) \/ AuthUser(r) \/ TouchSession(r) \/ ReadOnly(r)
         \/ \E t \in SessionId : RevokeSession(r, t)
  PROVE  LineageInv'
<1> DEFINE Quiet == UNCHANGED <<clock, active, sessions, issued, cleaner, ended>>
<1>0. {"createSession", "findUser", "findAny", "revokeOld", "purge",
       "logoutRevoke", "touch", "handler", "revokeTarget"} \subseteq Pc
  BY DEF Pc, RefreshWindow
<1>t. TypeOK /\ RequestOK(r)
  BY DEF LineageInv, RequestsOK
<1>1. ASSUME NEW ok \in BOOLEAN, FindByEmail(r, ok) PROVE LineageInv'
  <2>1. CASE Finish(r) /\ Quiet
    BY <2>1, FinishStep
  <2>2. CASE Goto(r, "createSession") /\ Quiet
    <3>1. RequestOK(r)'
      BY <1>0, <1>1, <1>t, <2>2, GotoFacts
         DEF RequestOK, FindByEmail, RefreshWindow, Used
    <3> QED
      BY <1>0, <2>2, <3>1, GotoStep
  <2> QED
    BY <1>1, <2>1, <2>2 DEF FindByEmail
<1>2. CASE FindActive(r)
  <2>1. Quiet
    BY <1>2 DEF FindActive
  <2>2. CASE Usable(req[r].sid)
    <3>1. Goto(r, "findUser")
      BY <1>2, <2>2 DEF FindActive
    <3>2. sessions[req[r].sid].root \notin ended
      BY <1>2, <1>t, <2>2
         DEF FindActive, RequestOK, Used, Usable, LineageInv, EndedLineageStaysDead
    <3>3. RequestOK(r)'
      BY <1>0, <1>2, <1>t, <2>1, <3>1, <3>2, GotoFacts
         DEF RequestOK, FindActive, RefreshWindow, Used
    <3> QED
      BY <1>0, <2>1, <3>1, <3>3, GotoStep
  <2>3. CASE ~Usable(req[r].sid)
    <3>1. Goto(r, "findAny")
      BY <1>2, <2>3 DEF FindActive
    <3>2. RequestOK(r)'
      BY <1>0, <1>2, <1>t, <2>1, <3>1, GotoFacts
         DEF RequestOK, FindActive, RefreshWindow, Used
    <3> QED
      BY <1>0, <2>1, <3>1, <3>2, GotoStep
  <2> QED
    BY <2>2, <2>3
<1>3. CASE FindUser(r)
  <2>1. Quiet /\ (Finish(r) \/ Goto(r, "revokeOld"))
    BY <1>3 DEF FindUser
  <2>2. CASE Goto(r, "revokeOld")
    <3>1. RequestOK(r)'
      BY <1>0, <1>3, <1>t, <2>1, <2>2, GotoFacts
         DEF RequestOK, FindUser, RefreshWindow, Used
    <3> QED
      BY <1>0, <2>1, <2>2, <3>1, GotoStep
  <2> QED
    BY <2>1, <2>2, FinishStep
<1>4. CASE FindAny(r)
  <2>1. Quiet /\ (Finish(r) \/ Goto(r, "purge"))
    BY <1>4 DEF FindAny
  <2>2. CASE Goto(r, "purge")
    <3>1. RequestOK(r)'
      BY <1>0, <1>4, <1>t, <2>1, <2>2, GotoFacts
         DEF RequestOK, FindAny, RefreshWindow, Used
    <3> QED
      BY <1>0, <2>1, <2>2, <3>1, GotoStep
  <2> QED
    BY <2>1, <2>2, FinishStep
<1>5. CASE LogoutFind(r)
  <2>1. Quiet /\ (Finish(r) \/ Goto(r, "logoutRevoke"))
    BY <1>5 DEF LogoutFind
  <2>2. CASE Goto(r, "logoutRevoke")
    <3>1. RequestOK(r)'
      BY <1>0, <1>5, <1>t, <2>1, <2>2, GotoFacts
         DEF RequestOK, LogoutFind, RefreshWindow, Used
    <3> QED
      BY <1>0, <2>1, <2>2, <3>1, GotoStep
  <2> QED
    BY <2>1, <2>2, FinishStep
<1>6. CASE AuthUser(r)
  <2>1. Quiet /\ (Finish(r) \/ Goto(r, "touch"))
    BY <1>6 DEF AuthUser
  <2>2. CASE Goto(r, "touch")
    <3>1. RequestOK(r)'
      BY <1>0, <1>6, <1>t, <2>1, <2>2, GotoFacts
         DEF RequestOK, AuthUser, RefreshWindow, Used
    <3> QED
      BY <1>0, <2>1, <2>2, <3>1, GotoStep
  <2> QED
    BY <2>1, <2>2, FinishStep
<1>7. CASE TouchSession(r)
  <2>1. Quiet /\ (Finish(r) \/ Goto(r, "handler"))
    BY <1>7 DEF TouchSession
  <2>2. CASE Goto(r, "handler")
    <3>1. RequestOK(r)'
      BY <1>0, <1>7, <1>t, <2>1, <2>2, GotoFacts
         DEF RequestOK, TouchSession, RefreshWindow, Used
    <3> QED
      BY <1>0, <2>1, <2>2, <3>1, GotoStep
  <2> QED
    BY <2>1, <2>2, FinishStep
<1>8. CASE ReadOnly(r)
  BY <1>8, FinishStep DEF ReadOnly
<1>9. ASSUME NEW t \in SessionId, RevokeSession(r, t) PROVE LineageInv'
  <2>1. Quiet
    BY <1>9 DEF RevokeSession
  <2>2. CASE t \in Rows(req[r].user) \ {req[r].sid}
    <3>1. /\ pc' = [pc EXCEPT ![r] = "revokeTarget"]
          /\ req' = [req EXCEPT ![r].target = t]
      BY <1>9, <2>2 DEF RevokeSession
    <3>2. [req[r] EXCEPT !.target = t] \in Local
      BY <1>t DEF TypeOK, Local
    <3>3. /\ pc' \in [Request -> Pc] /\ req' \in [Request -> Local]
          /\ pc'[r] = "revokeTarget"
          /\ req'[r] = [req[r] EXCEPT !.target = t]
          /\ \A q \in Request \ {r} : pc'[q] = pc[q] /\ req'[q] = req[q]
      BY <1>0, <1>t, <3>1, <3>2 DEF TypeOK
    <3>4. t \in Used
      BY <2>2 DEF Rows, Exists, Used
    <3>5. /\ req'[r].op = req[r].op /\ req'[r].sid = req[r].sid
          /\ req'[r].user = req[r].user /\ req'[r].target = t
      BY <1>t, <3>3 DEF TypeOK, Local
    <3>6. RequestOK(r)'
      BY <1>9, <1>t, <2>1, <3>3, <3>4, <3>5
         DEF RequestOK, RevokeSession, RefreshWindow, Used
    <3>7. TypeOK'
      BY <1>t, <2>1, <3>3 DEF TypeOK
    <3> QED
      BY <2>1, <3>3, <3>6, <3>7, QuietStep
  <2>3. CASE t \notin Rows(req[r].user) \ {req[r].sid}
    BY <1>9, <2>1, <2>3, FinishStep DEF RevokeSession
  <2> QED
    BY <2>2, <2>3
<1> QED
  BY <1>1, <1>2, <1>3, <1>4, <1>5, <1>6, <1>7, <1>8, <1>9

-----------------------------------------------------------------------------
(* The statements that write.                                              *)

(* A row is inserted: a login starts a lineage that never existed, and a   *)
(* refresh extends one that has not ended.                                 *)
LEMMA CreateStep ==
  ASSUME LineageInv, NEW r \in Request, NEW s \in SessionId, CreateSession(r, s)
  PROVE  LineageInv'
<1> DEFINE row == [state |-> "live", user_id |-> req[r].user,
                   expires_at |-> clock + RefreshTTL, revoked_at |-> 0,
                   jwt_exp |-> clock + AccessTTL,
                   root |-> IF req[r].op = "refresh"
                            THEN sessions[req[r].sid].root ELSE s]
<1>t. TypeOK /\ RequestOK(r) /\ RowsOK
  BY DEF LineageInv, RequestsOK
<1>1. row.root \in Used \cup {s}
  BY <1>t DEF RequestOK, RowsOK, Used
<1>2. row.root \notin ended
  BY <1>t DEF CreateSession, RequestOK, RowsOK, RefreshWindow, Used
<1>3. row \in Session /\ row.user_id \in User /\ row.jwt_exp <= row.expires_at
  BY <1>t, <1>1, TTLAssumption
     DEF CreateSession, TypeOK, RequestOK, Session, Used
<1>4. row.state = "live"
  OBVIOUS
<1>5. sessions' = [sessions EXCEPT ![s] = row]
  BY DEF CreateSession
<1> HIDE DEF row
<1>6. Used' = Used \cup {s} /\ s \notin Used
  BY <1>t, <1>4, <1>5 DEF CreateSession, TypeOK, Used
<1>7. \A q \in Used : sessions'[q] = sessions[q]
  BY <1>t, <1>5, <1>6 DEF TypeOK, Used
<1>8. [req[r] EXCEPT !.target = s] \in Local
  BY <1>t DEF TypeOK, Local
<1>9. /\ pc' \in [Request -> Pc] /\ req' \in [Request -> Local]
      /\ pc'[r] = "respond" /\ req'[r] = [req[r] EXCEPT !.target = s]
      /\ \A q \in Request \ {r} : pc'[q] = pc[q] /\ req'[q] = req[q]
  BY <1>t, <1>8 DEF CreateSession, TypeOK, Pc
<1>10. TypeOK'
  BY <1>t, <1>3, <1>5, <1>9 DEF CreateSession, TypeOK
<1>11. RowsOK'
  BY <1>t, <1>1, <1>3, <1>5, <1>6, <1>7 DEF CreateSession, TypeOK, RowsOK
<1>12. EndedLineageStaysDead'
  BY <1>t, <1>2, <1>5
     DEF CreateSession, TypeOK, LineageInv, EndedLineageStaysDead
<1>13. ASSUME NEW q \in Request PROVE RequestOK(q)'
  <2>1. CASE q = r
    <3>1. /\ req'[r].op = req[r].op /\ req'[r].sid = req[r].sid
          /\ req'[r].user = req[r].user /\ req'[r].target = s
      BY <1>t, <1>9 DEF TypeOK, Local
    <3> QED
      BY <1>t, <1>6, <1>9, <2>1, <3>1 DEF CreateSession, RequestOK, RefreshWindow
  <2>2. CASE q # r
    <3>1. RequestOK(q) /\ pc'[q] = pc[q] /\ req'[q] = req[q] /\ ended' = ended
      BY <1>9, <2>2 DEF LineageInv, RequestsOK, CreateSession
    <3> QED
      BY <1>6, <1>7, <3>1 DEF RequestOK
  <2> QED
    BY <2>1, <2>2
<1> QED
  BY <1>10, <1>11, <1>12, <1>13 DEF LineageInv, RequestsOK

LEMMA RespondStep ==
  ASSUME LineageInv, NEW r \in Request, Respond(r)
  PROVE  LineageInv'
<1>t. TypeOK /\ RequestOK(r) /\ Finish(r)
  BY DEF LineageInv, RequestsOK, Respond
<1>1. issued' \subseteq Used
  BY <1>t DEF Respond, RequestOK, LineageInv, RowsOK
<1>2. Used' = Used
  BY DEF Respond, Used
<1>3. TypeOK'
  BY <1>t, <1>1, FinishFacts DEF Respond, TypeOK, Used
<1>4. RowsOK' /\ EndedLineageStaysDead'
  BY <1>1, <1>2 DEF Respond, LineageInv, RowsOK, EndedLineageStaysDead
<1>5. ASSUME NEW q \in Request PROVE RequestOK(q)'
  <2>1. CASE q = r
    BY <1>t, <2>1, FinishFacts, IdleOK
  <2>2. CASE q # r
    BY <1>t, <1>2, <2>2, FinishFacts DEF Respond, LineageInv, RequestsOK, RequestOK
  <2> QED
    BY <2>1, <2>2
<1> QED
  BY <1>3, <1>4, <1>5 DEF LineageInv, RequestsOK

(* A refresh revokes the row it presented; no lineage is recorded as ended *)
(* because this refresh is about to extend it.                             *)
LEMMA RevokeOldStep ==
  ASSUME LineageInv, NEW r \in Request, RevokeOld(r)
  PROVE  LineageInv'
<1>0. "createSession" \in Pc
  BY DEF Pc, RefreshWindow
<1>t. TypeOK /\ RequestOK(r) /\ Goto(r, "createSession") /\ pc[r] = "revokeOld"
  BY DEF LineageInv, RequestsOK, RevokeOld
<1>1. {req[r].sid} \in SUBSET SessionId /\ Revoke({req[r].sid})
  BY <1>t DEF RevokeOld, RequestOK, Used
<1>2. TypeOK'
  BY <1>0, <1>t, <1>1, GotoFacts, RevokeFacts DEF RevokeOld, TypeOK
<1>3. RowsOK'
  BY <1>1, RevokeFacts DEF RevokeOld, LineageInv, RowsOK, Used
<1>4. EndedLineageStaysDead'
  BY <1>1, RevokeFacts DEF RevokeOld, LineageInv, EndedLineageStaysDead
<1>5. ASSUME NEW q \in Request PROVE RequestOK(q)'
  <2>1. RequestOK(q) /\ req'[q] = req[q] /\ ended' = ended
    BY <1>0, <1>t, GotoFacts DEF LineageInv, RequestsOK, RevokeOld
  <2>2. \/ pc'[q] = pc[q]
        \/ pc'[q] = "createSession" /\ pc[q] = "revokeOld"
    BY <1>0, <1>t, GotoFacts
  <2>3. req[q].sid \in Used => sessions'[req[q].sid].root = sessions[req[q].sid].root
    BY <1>1, RevokeFacts DEF Used
  <2>4. Used' = Used
    BY <1>1, RevokeFacts
  <2> QED
    BY <2>1, <2>2, <2>3, <2>4 DEF RequestOK, RefreshWindow
<1> QED
  BY <1>2, <1>3, <1>4, <1>5 DEF LineageInv, RequestsOK

(* A revocation that ends lineages: logout, the owner's revocations, the   *)
(* purge and the deactivation.                                             *)
LEMMA EndStep ==
  ASSUME LineageInv, NEW r \in Request, NEW S \in SUBSET Used,
         Revoke(S), RecordEnd(S), Finish(r),
         UNCHANGED <<clock, active, issued, cleaner>>
  PROVE  LineageInv'
<1>0. S \in SUBSET SessionId /\ TypeOK
  BY DEF Used, LineageInv
<1>1. TypeOK'
  BY <1>0, FinishFacts, RevokeFacts, EndFacts DEF TypeOK
<1>2. RowsOK'
  BY <1>0, RevokeFacts, EndFacts DEF LineageInv, RowsOK, Used
<1>3. ASSUME NEW q \in Request PROVE RequestOK(q)'
  <2>1. CASE q = r
    BY <1>0, <2>1, FinishFacts, IdleOK
  <2>2. CASE q # r
    <3>1. RequestOK(q) /\ pc'[q] = pc[q] /\ req'[q] = req[q] /\ Used' = Used
      BY <1>0, <2>2, FinishFacts, RevokeFacts DEF LineageInv, RequestsOK
    <3>2. pc[q] \in RefreshWindow /\ req[q].op = "refresh"
            => sessions'[req[q].sid].root \notin ended'
      BY <3>1, EndFacts
    <3> QED
      BY <3>1, <3>2 DEF RequestOK
  <2> QED
    BY <2>1, <2>2
<1>4. EndedLineageStaysDead'
  BY EndFacts
<1> QED
  BY <1>1, <1>2, <1>3, <1>4 DEF LineageInv, RequestsOK

LEMMA RevokingStep ==
  ASSUME LineageInv, NEW r \in Request,
         \/ Purge(r) \/ LogoutRevoke(r) \/ RevokeOthers(r)
         \/ RevokeTarget(r) \/ RevokeAll(r)
  PROVE  LineageInv'
<1>t. RequestOK(r)
  BY DEF LineageInv, RequestsOK
<1>0. Rows(req[r].user) \subseteq Used
  BY DEF Rows, Exists, Used
<1>1. CASE Purge(r)
  BY <1>0, <1>1, EndStep DEF Purge
<1>2. CASE LogoutRevoke(r)
  <2>1. {req[r].sid} \in SUBSET Used
    BY <1>t, <1>2 DEF LogoutRevoke, RequestOK
  <2> QED
    BY <1>2, <2>1, EndStep DEF LogoutRevoke
<1>3. CASE RevokeOthers(r)
  <2>1. Rows(req[r].user) \ {req[r].sid} \in SUBSET Used
    BY <1>0
  <2> QED
    BY <1>3, <2>1, EndStep DEF RevokeOthers
<1>4. CASE RevokeTarget(r)
  <2>1. {req[r].target} \in SUBSET Used
    BY <1>t, <1>4 DEF RevokeTarget, RequestOK
  <2> QED
    BY <1>4, <2>1, EndStep DEF RevokeTarget
<1>5. CASE RevokeAll(r)
  BY <1>0, <1>5, EndStep DEF RevokeAll
<1> QED
  BY <1>1, <1>2, <1>3, <1>4, <1>5

(* Writing users.active touches other handlers only in their history.      *)
LEMMA WriteUserStep ==
  ASSUME LineageInv, NEW r \in Request, NEW value \in BOOLEAN, WriteUser(r, value)
  PROVE  LineageInv'
<1>t. TypeOK /\ RequestOK(r)
  BY DEF LineageInv, RequestsOK
<1>1. Used' = Used /\ RowsOK' /\ EndedLineageStaysDead'
  BY DEF WriteUser, Used, LineageInv, RowsOK, EndedLineageStaysDead
<1>2. ASSUME NEW q \in Request
      PROVE  /\ req'[q] \in Local
             /\ \/ req'[q] = NoRequest /\ q = r /\ pc'[r] = "idle"
                \/ /\ req'[q].op = req[q].op /\ req'[q].user = req[q].user
                   /\ req'[q].sid = req[q].sid /\ req'[q].target = req[q].target
                   /\ q = r => pc'[r] = "revokeAll"
  <2>0. req[q] \in Local
    BY <1>t DEF TypeOK
  <2>1. NoRequest \in Local /\ [req[q] EXCEPT !.sawActive = TRUE] \in Local
    BY <2>0 DEF NoRequest, Local
  <2>2. LET x == [req[q] EXCEPT !.sawActive = TRUE]
        IN  x.op = req[q].op /\ x.user = req[q].user
            /\ x.sid = req[q].sid /\ x.target = req[q].target
    BY <2>0 DEF Local
  <2>3. q = r => pc'[r] = IF req[r].wasActive /\ ~value THEN "revokeAll" ELSE "idle"
    BY <1>t DEF WriteUser, TypeOK
  <2>4. req'[q] = IF q = r /\ ~(req[r].wasActive /\ ~value) THEN NoRequest
                  ELSE IF value /\ req[q].user = req[r].user
                       THEN [req[q] EXCEPT !.sawActive = TRUE]
                       ELSE req[q]
    BY DEF WriteUser
  <2> QED
    BY <2>0, <2>1, <2>2, <2>3, <2>4
<1>3. TypeOK'
  <2>1. pc' \in [Request -> Pc]
    BY <1>t DEF WriteUser, TypeOK, Pc
  <2>2. req' \in [Request -> Local]
    BY <1>2 DEF WriteUser
  <2> QED
    BY <1>t, <2>1, <2>2 DEF WriteUser, TypeOK
<1>4. ASSUME NEW q \in Request PROVE RequestOK(q)'
  <2>1. CASE q = r
    <3>1. CASE req'[r] = NoRequest /\ pc'[r] = "idle"
      BY <2>1, <3>1, IdleOK
    <3>2. CASE pc'[r] = "revokeAll" /\ req'[r].op = req[r].op
               /\ req'[r].user = req[r].user /\ req'[r].sid = req[r].sid
      BY <1>t, <1>1, <2>1, <3>2 DEF RequestOK, RefreshWindow, WriteUser
    <3> QED
      BY <1>2, <2>1, <3>1, <3>2
  <2>2. CASE q # r
    <3>1. /\ RequestOK(q) /\ pc'[q] = pc[q]
          /\ sessions' = sessions /\ ended' = ended
      BY <1>t, <2>2 DEF WriteUser, TypeOK, LineageInv, RequestsOK
    <3> QED
      BY <1>1, <1>2, <2>2, <3>1 DEF RequestOK
  <2> QED
    BY <2>1, <2>2
<1> QED
  BY <1>1, <1>3, <1>4 DEF LineageInv, RequestsOK

(* The cleanup only makes rows disappear.                                  *)
LEMMA CleanStep ==
  ASSUME LineageInv, Clean
  PROVE  LineageInv'
<1>t. TypeOK /\ \A r \in Request : RequestOK(r)
  BY DEF LineageInv, RequestsOK
<1>0. UNCHANGED <<clock, active, issued, pc, req, ended>>
  BY DEF Clean, CleanSelect, CleanDelete, CleanAudit, CleanFail
<1>1. cleaner' \in Cleaner
  <2>1. clock - Retention \in Int
    BY <1>t, TTLAssumption DEF TypeOK
  <2>2. \A c : Collectable(c) \in SUBSET SessionId
    BY DEF Collectable
  <2>3. CASE CleanSelect
    BY <2>1, <2>2, <2>3 DEF CleanSelect, Cleaner
  <2>4. CASE CleanDelete
    <3>1. cleaner' = [cleaner EXCEPT !.pc = "audit",
                                     !.deleted = Collectable(cleaner.cutoff)]
      BY <2>4 DEF CleanDelete
    <3> QED
      BY <1>t, <2>2, <3>1 DEF TypeOK, Cleaner
  <2>5. CASE CleanAudit \/ CleanFail
    BY <2>5 DEF CleanAudit, CleanFail, Cleaner
  <2> QED
    BY <2>3, <2>4, <2>5 DEF Clean
<1>2. /\ sessions' \in [SessionId -> Session]
      /\ Used' = Used
      /\ \A s \in SessionId :
           /\ sessions'[s].root = sessions[s].root
           /\ sessions'[s].user_id = sessions[s].user_id
           /\ sessions'[s].jwt_exp = sessions[s].jwt_exp
           /\ sessions'[s].expires_at = sessions[s].expires_at
           /\ sessions'[s].state = "live" => sessions[s].state = "live"
  <2>1. CASE CleanDelete
    <3> DEFINE S == Collectable(cleaner.cutoff)
    <3>0. \A s \in S : sessions[s].state # "none"
      BY DEF Collectable, Exists
    <3>1. sessions' = [s \in SessionId |->
                         IF s \in S THEN [sessions[s] EXCEPT !.state = "deleted"]
                                    ELSE sessions[s]]
      BY <2>1 DEF CleanDelete
    <3> HIDE DEF S
    <3> QED
      BY <1>t, <3>0, <3>1 DEF TypeOK, Session, Used
  <2>2. CASE sessions' = sessions
    BY <1>t, <2>2 DEF TypeOK, Used
  <2> QED
    BY <2>1, <2>2 DEF Clean, CleanSelect, CleanAudit, CleanFail
<1>3. TypeOK'
  BY <1>t, <1>0, <1>1, <1>2 DEF TypeOK
<1>4. RowsOK' /\ EndedLineageStaysDead'
  BY <1>0, <1>2 DEF LineageInv, RowsOK, EndedLineageStaysDead, Used
<1>5. ASSUME NEW q \in Request PROVE RequestOK(q)'
  <2>1. RequestOK(q)
    BY <1>t
  <2>2. req[q].sid \in Used => sessions'[req[q].sid].root = sessions[req[q].sid].root
    BY <1>2 DEF Used
  <2> QED
    BY <1>0, <1>2, <2>1, <2>2 DEF RequestOK, RefreshWindow
<1> QED
  BY <1>3, <1>4, <1>5 DEF LineageInv, RequestsOK

(* Every step preserves the inductive invariant.                           *)
LEMMA LineageNext == LineageInv /\ [Next]_vars => LineageInv'
<1> SUFFICES ASSUME LineageInv, [Next]_vars PROVE LineageInv'
  OBVIOUS
<1>1. ASSUME NEW r \in Request, Arrive(r) PROVE LineageInv'
  BY <1>1, ArriveStep
<1>2. ASSUME NEW r \in Request, Handle(r) PROVE LineageInv'
  BY <1>2, ReadStep, CreateStep, RespondStep, RevokeOldStep, RevokingStep,
     WriteUserStep DEF Handle
<1>3. ASSUME NEW r \in Request, Abort(r) PROVE LineageInv'
  BY <1>3, FinishStep DEF Abort
<1>4. CASE Clean
  BY <1>4, CleanStep
<1>5. CASE Tick
  <2>1. TypeOK'
    BY <1>5 DEF Tick, LineageInv, TypeOK
  <2>2. Used' = Used
    BY <1>5 DEF Tick, Used
  <2>3. RowsOK' /\ EndedLineageStaysDead'
    BY <1>5, <2>2 DEF Tick, LineageInv, RowsOK, EndedLineageStaysDead
  <2>4. RequestsOK'
    BY <1>5, <2>2 DEF Tick, LineageInv, RequestsOK, RequestOK
  <2> QED
    BY <2>1, <2>3, <2>4 DEF LineageInv
<1>6. CASE UNCHANGED vars
  <2>1. TypeOK' /\ Used' = Used
    BY <1>6 DEF vars, LineageInv, TypeOK, Used
  <2>2. RowsOK' /\ EndedLineageStaysDead'
    BY <1>6, <2>1 DEF vars, LineageInv, RowsOK, EndedLineageStaysDead
  <2>3. RequestsOK'
    BY <1>6, <2>1 DEF vars, LineageInv, RequestsOK, RequestOK
  <2> QED
    BY <2>1, <2>2, <2>3 DEF LineageInv
<1> QED
  BY <1>1, <1>2, <1>3, <1>4, <1>5, <1>6 DEF Next

LEMMA LineageAlways == Spec => []LineageInv
  BY LineageInit, LineageNext, PTL DEF Spec

(* Every variable of the session service keeps its type.                   *)
THEOREM TypeCorrect == Spec => []TypeOK
<1>1. LineageInv => TypeOK
  BY DEF LineageInv
<1> QED
  BY <1>1, LineageAlways, PTL

(* A lineage ended by logout, revocation, purge or deactivation while none *)
(* of its refreshes was in flight never has a live session again.          *)
THEOREM EndedStaysDead == Spec => []EndedLineageStaysDead
<1>1. LineageInv => EndedLineageStaysDead
  BY DEF LineageInv
<1> QED
  BY <1>1, LineageAlways, PTL

-----------------------------------------------------------------------------
(* Sessions implements SessionLifecycle.  The refinement needs, besides    *)
(* LineageInv, that the rows of a lineage have one owner, and that a       *)
(* handler acts for the owner of the row it was given.                     *)

(* Every row of a lineage has the owner of its root.                       *)
RowOwners ==
  /\ \A s \in SessionId \ Used : sessions[s].root = None
  /\ \A s \in Used :
       /\ IsRoot(sessions[s].root)
       /\ sessions[sessions[s].root].user_id = sessions[s].user_id

(* A handler's user owns the session presented and the session to revoke.  *)
RequestOwner(r) ==
  /\ req[r].op \in {"refresh", "logout", "protected"}
       => sessions[req[r].sid].user_id = req[r].user
  /\ pc[r] = "revokeTarget" => sessions[req[r].target].user_id = req[r].user

OwnerInv == RowOwners /\ \A r \in Request : RequestOwner(r)

LEMMA OwnerInit == Init => OwnerInv
  BY DEF Init, OwnerInv, RowOwners, RequestOwner, Used, NoSession, NoRequest

(* A handler whose locals stay, while no inserted row changes its owner.   *)
LEMMA SameRequestOwner ==
  ASSUME LineageInv, OwnerInv, NEW q \in Request,
         \A s \in Used : sessions'[s].user_id = sessions[s].user_id,
         req'[q].op = req[q].op, req'[q].user = req[q].user,
         req'[q].sid = req[q].sid,
         pc'[q] = "revokeTarget"
           => pc[q] = "revokeTarget" /\ req'[q].target = req[q].target
  PROVE  RequestOwner(q)'
  BY DEF LineageInv, RequestsOK, RequestOK, OwnerInv, RequestOwner

LEMMA IdleOwner ==
  ASSUME NEW q \in Request, pc'[q] = "idle", req'[q] = NoRequest
  PROVE  RequestOwner(q)'
  BY DEF RequestOwner, NoRequest

(* The lineages are as they were when no row changes owner or lineage.     *)
LEMMA SameRowOwners ==
  ASSUME RowOwners, RowsOK, Used' = Used,
         \A s \in SessionId : /\ sessions'[s].root = sessions[s].root
                              /\ sessions'[s].user_id = sessions[s].user_id
  PROVE  RowOwners'
<1>1. \A s \in Used : s \in SessionId /\ sessions[s].root \in SessionId
  BY DEF RowsOK, Used
<1> QED
  BY <1>1 DEF RowOwners, IsRoot

-----------------------------------------------------------------------------
(* Arrivals: the handler takes its user from the row it was given.         *)
LEMMA ArriveOwner ==
  ASSUME LineageInv, OwnerInv, NEW r \in Request, Arrive(r)
  PROVE  OwnerInv'
<1>1. sessions' = sessions /\ Used' = Used
  BY DEF Arrive, LoginArrive, UpdateArrive, RefreshArrive, LogoutArrive,
         AuthArrive, Used
<1>2. RowOwners'
  BY <1>1, SameRowOwners DEF LineageInv, OwnerInv
<1>3. ASSUME NEW q \in Request \ {r} PROVE RequestOwner(q)'
  <2>1. pc'[q] = pc[q] /\ req'[q] = req[q]
    BY DEF Arrive, LoginArrive, UpdateArrive, RefreshArrive, LogoutArrive,
           AuthArrive, Start, LineageInv, TypeOK
  <2> QED
    BY <1>1, <2>1, SameRequestOwner
<1>4. RequestOwner(r)'
  <2>1. pc'[r] # "revokeTarget"
    BY DEF Arrive, LoginArrive, UpdateArrive, RefreshArrive, LogoutArrive,
           AuthArrive, Start, LineageInv, TypeOK
  <2>2. CASE \E u \in User : LoginArrive(r, u) \/ UpdateArrive(r, u)
    <3>1. req'[r].op \in {"login", "update"}
      BY <2>2 DEF LoginArrive, UpdateArrive, Start, NoRequest, LineageInv, TypeOK
    <3> QED
      BY <2>1, <3>1 DEF RequestOwner
  <2>3. CASE \E s \in SessionId :
               RefreshArrive(r, s) \/ LogoutArrive(r, s) \/ AuthArrive(r, s)
    <3>1. PICK s \in SessionId :
            RefreshArrive(r, s) \/ LogoutArrive(r, s) \/ AuthArrive(r, s)
      BY <2>3
    <3>2. req'[r].sid = s /\ req'[r].user = sessions[s].user_id
      BY <3>1 DEF RefreshArrive, LogoutArrive, AuthArrive, Start, NoRequest,
                  LineageInv, TypeOK
    <3> QED
      BY <1>1, <2>1, <3>2 DEF RequestOwner
  <2> QED
    BY <2>2, <2>3 DEF Arrive
<1> QED
  BY <1>2, <1>3, <1>4 DEF OwnerInv

-----------------------------------------------------------------------------
(* A handler that ends, or moves on, without changing whose rows are whose. *)
LEMMA KeepOwner ==
  ASSUME LineageInv, OwnerInv, NEW r \in Request, Used' = Used,
         \A s \in SessionId : /\ sessions'[s].root = sessions[s].root
                              /\ sessions'[s].user_id = sessions[s].user_id,
         Finish(r) \/ \E label \in Pc \ {"revokeTarget"} : Goto(r, label)
  PROVE  OwnerInv'
<1>1. RowOwners'
  BY SameRowOwners DEF LineageInv, OwnerInv
<1>2. \A s \in Used : sessions'[s].user_id = sessions[s].user_id
  BY DEF Used
<1>3. ASSUME NEW q \in Request PROVE RequestOwner(q)'
  <2>1. CASE Finish(r)
    <3>1. CASE q = r
      BY <2>1, <3>1, FinishFacts, IdleOwner DEF LineageInv
    <3>2. CASE q # r
      BY <1>2, <2>1, <3>2, FinishFacts, SameRequestOwner DEF LineageInv
    <3> QED
      BY <3>1, <3>2
  <2>2. ASSUME NEW label \in Pc \ {"revokeTarget"}, Goto(r, label)
        PROVE  RequestOwner(q)'
    <3>1. req'[q] = req[q] /\ (pc'[q] = pc[q] \/ pc'[q] = label)
      BY <2>2, GotoFacts DEF LineageInv
    <3> QED
      BY <1>2, <2>2, <3>1, SameRequestOwner
  <2> QED
    BY <2>1, <2>2
<1> QED
  BY <1>1, <1>3 DEF OwnerInv

(* The statements that only read, and the end of a handler.                *)
LEMMA ReadOwner ==
  ASSUME LineageInv, OwnerInv, NEW r \in Request,
         \/ \E ok \in BOOLEAN : FindByEmail(r, ok)
         \/ Respond(r) \/ FindActive(r) \/ FindUser(r) \/ FindAny(r)
         \/ LogoutFind(r) \/ AuthUser(r) \/ TouchSession(r) \/ ReadOnly(r)
         \/ Abort(r)
  PROVE  OwnerInv'
<1>1. sessions' = sessions /\ Used' = Used
  BY DEF FindByEmail, Respond, FindActive, FindUser, FindAny, LogoutFind,
         AuthUser, TouchSession, ReadOnly, Abort, Used
<1>2. {"createSession", "findUser", "findAny", "revokeOld", "purge",
       "logoutRevoke", "touch", "handler"} \subseteq Pc \ {"revokeTarget"}
  BY DEF Pc, RefreshWindow
<1>3. Finish(r) \/ \E label \in Pc \ {"revokeTarget"} : Goto(r, label)
  BY <1>2 DEF FindByEmail, Respond, FindActive, FindUser, FindAny, LogoutFind,
              AuthUser, TouchSession, ReadOnly, Abort
<1> QED
  BY <1>1, <1>3, KeepOwner

(* RevokeSession picks a target among the rows of the caller.              *)
LEMMA RevokeSessionOwner ==
  ASSUME LineageInv, OwnerInv, NEW r \in Request, NEW t \in SessionId,
         RevokeSession(r, t)
  PROVE  OwnerInv'
<1>1. sessions' = sessions /\ Used' = Used
  BY DEF RevokeSession, Used
<1>2. CASE Finish(r)
  BY <1>1, <1>2, KeepOwner
<1>3. CASE /\ t \in Rows(req[r].user)
           /\ pc' = [pc EXCEPT ![r] = "revokeTarget"]
           /\ req' = [req EXCEPT ![r].target = t]
  <2>1. RowOwners'
    BY <1>1, SameRowOwners DEF LineageInv, OwnerInv
  <2>2. ASSUME NEW q \in Request \ {r} PROVE RequestOwner(q)'
    <3>1. pc'[q] = pc[q] /\ req'[q] = req[q]
      BY <1>3 DEF LineageInv, TypeOK
    <3> QED
      BY <1>1, <3>1, SameRequestOwner
  <2>3. RequestOwner(r)'
    <3>1. /\ req'[r].op = req[r].op /\ req'[r].user = req[r].user
          /\ req'[r].sid = req[r].sid /\ req'[r].target = t
      BY <1>3 DEF LineageInv, TypeOK, Local
    <3> QED
      BY <1>1, <1>3, <3>1 DEF OwnerInv, RequestOwner, Rows
  <2> QED
    BY <2>1, <2>2, <2>3 DEF OwnerInv
<1> QED
  BY <1>2, <1>3 DEF RevokeSession

(* A new row belongs to the user of the handler, who owns the lineage that *)
(* a refresh extends.                                                      *)
LEMMA CreateOwner ==
  ASSUME LineageInv, OwnerInv, NEW r \in Request, NEW s \in SessionId,
         CreateSession(r, s)
  PROVE  /\ Used' = Used \cup {s} /\ s \notin Used
         /\ \A q \in SessionId \ {s} : sessions'[q] = sessions[q]
         /\ sessions'[s].state = "live" /\ sessions'[s].user_id = req[r].user
         /\ req[r].op = "refresh" =>
              /\ sessions'[s].root = sessions[req[r].sid].root
              /\ req[r].sid \in Used
              /\ sessions[req[r].sid].root \in Used
         /\ req[r].op # "refresh" => sessions'[s].root = s
         /\ OwnerInv'
<1>t. TypeOK /\ RequestOK(r) /\ RowsOK /\ RequestOwner(r)
  BY DEF LineageInv, RequestsOK, OwnerInv
<1>1. /\ \A q \in SessionId \ {s} : sessions'[q] = sessions[q]
      /\ sessions'[s].state = "live" /\ sessions'[s].user_id = req[r].user
      /\ sessions'[s].root = IF req[r].op = "refresh"
                             THEN sessions[req[r].sid].root ELSE s
      /\ sessions[s].state = "none"
  BY <1>t DEF CreateSession, TypeOK
<1>2. Used' = Used \cup {s} /\ s \notin Used
  BY <1>1 DEF Used
<1>3. req[r].op = "refresh" =>
        req[r].sid \in Used /\ sessions[req[r].sid].root \in Used
  BY <1>t DEF RequestOK, RowsOK
<1>4. \A q \in Used : q \in SessionId \ {s} /\ sessions[q].root \in Used
  BY <1>t, <1>2 DEF RowsOK, Used
<1>5. RowOwners'
  <2>1. \A q \in SessionId \ Used' : sessions'[q].root = None
    BY <1>1, <1>2 DEF OwnerInv, RowOwners
  <2>2. ASSUME NEW q \in Used
        PROVE  /\ IsRoot(sessions[q].root)'
               /\ sessions'[sessions'[q].root].user_id = sessions'[q].user_id
               /\ sessions'[q].root = sessions[q].root
    BY <1>1, <1>4 DEF OwnerInv, RowOwners, IsRoot
  <2>3. CASE req[r].op = "refresh"
    <3> DEFINE l == sessions[req[r].sid].root
    <3>1. sessions'[s].root = l /\ l \in Used /\ req[r].sid \in Used
      BY <1>1, <1>3, <2>3
    <3>2. sessions[req[r].sid].user_id = req[r].user
      BY <1>t, <2>3 DEF RequestOwner
    <3>3. sessions[l].root = l /\ sessions[l].user_id = req[r].user
      BY <3>1, <3>2 DEF OwnerInv, RowOwners, IsRoot
    <3>4. sessions'[l] = sessions[l]
      BY <1>1, <1>4, <3>1
    <3>5. IsRoot(sessions[s].root)' /\ sessions'[sessions'[s].root].user_id = sessions'[s].user_id
      BY <1>1, <3>1, <3>3, <3>4 DEF IsRoot
    <3> QED
      BY <1>2, <2>1, <2>2, <3>5 DEF RowOwners, IsRoot
  <2>4. CASE req[r].op # "refresh"
    BY <1>1, <1>2, <2>1, <2>2, <2>4 DEF RowOwners, IsRoot
  <2> QED
    BY <2>3, <2>4
<1>6. ASSUME NEW q \in Request PROVE RequestOwner(q)'
  <2>1. /\ req'[q].op = req[q].op /\ req'[q].user = req[q].user
        /\ req'[q].sid = req[q].sid
        /\ q # r => pc'[q] = pc[q] /\ req'[q].target = req[q].target
        /\ q = r => pc'[q] = "respond"
    BY <1>t DEF CreateSession, TypeOK, Local
  <2>2. \A x \in Used : sessions'[x].user_id = sessions[x].user_id
    BY <1>1, <1>4
  <2> QED
    BY <2>1, <2>2, SameRequestOwner
<1> QED
  BY <1>1, <1>2, <1>3, <1>5, <1>6 DEF OwnerInv

(* Revocations only change the state of rows.                              *)
LEMMA RevokeOwner ==
  ASSUME LineageInv, OwnerInv, NEW r \in Request, NEW S \in SUBSET SessionId,
         Revoke(S), Finish(r) \/ Goto(r, "createSession")
  PROVE  OwnerInv'
<1>1. "createSession" \in Pc \ {"revokeTarget"}
  BY DEF Pc, RefreshWindow
<1> QED
  BY <1>1, RevokeFacts, KeepOwner

(* Writing users.active leaves the users and sessions of handlers alone.   *)
LEMMA WriteUserOwner ==
  ASSUME LineageInv, OwnerInv, NEW r \in Request, NEW value \in BOOLEAN,
         WriteUser(r, value)
  PROVE  OwnerInv'
<1>t. TypeOK
  BY DEF LineageInv
<1>1. sessions' = sessions /\ Used' = Used
  BY DEF WriteUser, Used
<1>2. RowOwners'
  BY <1>1, SameRowOwners DEF LineageInv, OwnerInv
<1>3. ASSUME NEW q \in Request PROVE RequestOwner(q)'
  <2>0. req[q] \in Local
    BY <1>t DEF TypeOK
  <2>1. LET x == [req[q] EXCEPT !.sawActive = TRUE]
        IN  x.op = req[q].op /\ x.user = req[q].user
            /\ x.sid = req[q].sid /\ x.target = req[q].target
    BY <2>0 DEF Local
  <2>2. \/ q = r /\ pc'[q] = "idle"
        \/ q = r /\ pc'[q] = "revokeAll"
        \/ q # r /\ pc'[q] = pc[q]
    BY <1>t DEF WriteUser, TypeOK
  <2>3. req'[q] = IF q = r /\ ~(req[r].wasActive /\ ~value) THEN NoRequest
                  ELSE IF value /\ req[q].user = req[r].user
                       THEN [req[q] EXCEPT !.sawActive = TRUE]
                       ELSE req[q]
    BY DEF WriteUser
  <2>4. CASE req'[q] = NoRequest /\ q = r
    BY <2>2, <2>4 DEF RequestOwner, NoRequest
  <2>5. CASE /\ req'[q].op = req[q].op /\ req'[q].user = req[q].user
             /\ req'[q].sid = req[q].sid /\ req'[q].target = req[q].target
    BY <1>1, <2>2, <2>5, SameRequestOwner
  <2> QED
    BY <2>1, <2>3, <2>4, <2>5
<1> QED
  BY <1>2, <1>3 DEF OwnerInv

(* The DELETE of the cleanup keeps the owner and the lineage of every row, *)
(* and makes some rows not live.                                           *)
LEMMA DeleteFacts ==
  ASSUME LineageInv, CleanDelete
  PROVE  /\ Used' = Used
         /\ \A s \in SessionId :
              /\ sessions'[s].root = sessions[s].root
              /\ sessions'[s].user_id = sessions[s].user_id
              /\ sessions'[s].state = "live"
                   <=> sessions[s].state = "live" /\ s \notin Collectable(cleaner.cutoff)
<1> DEFINE S == Collectable(cleaner.cutoff)
<1>0. \A s \in S : sessions[s].state # "none"
  BY DEF Collectable, Exists
<1>1. sessions' = [s \in SessionId |->
                     IF s \in S THEN [sessions[s] EXCEPT !.state = "deleted"]
                                ELSE sessions[s]]
  BY DEF CleanDelete
<1> HIDE DEF S
<1> QED
  BY <1>0, <1>1 DEF LineageInv, TypeOK, Session, Used, S

(* Steps of the clock, of the cleanup, and steps that change nothing.      *)
LEMMA BackgroundOwner ==
  ASSUME LineageInv, OwnerInv, Tick \/ Clean \/ UNCHANGED vars
  PROVE  OwnerInv'
<1>1. pc' = pc /\ req' = req
  BY DEF Tick, Clean, CleanSelect, CleanDelete, CleanAudit, CleanFail, vars
<1>2. /\ Used' = Used
      /\ \A s \in SessionId : /\ sessions'[s].root = sessions[s].root
                               /\ sessions'[s].user_id = sessions[s].user_id
  <2>1. CASE CleanDelete
    BY <2>1, DeleteFacts
  <2>2. CASE sessions' = sessions
    BY <2>2 DEF Used
  <2> QED
    BY <2>1, <2>2 DEF Tick, Clean, CleanSelect, CleanAudit, CleanFail, vars
<1>3. RowOwners'
  BY <1>2, SameRowOwners DEF LineageInv, OwnerInv
<1>4. \A s \in Used : sessions'[s].user_id = sessions[s].user_id
  BY <1>2 DEF Used
<1>5. \A q \in Request : RequestOwner(q)'
  BY <1>1, <1>4, SameRequestOwner
<1> QED
  BY <1>3, <1>5 DEF OwnerInv

-----------------------------------------------------------------------------
(* A step that leaves rows and ended lineages alone is a stutter.          *)
LEMMA Stutters ==
  ASSUME sessions' = sessions, ended' = ended
  PROVE  UNCHANGED Lifecycle!vars
  BY DEF Lifecycle!vars, LineageState, LineageOwner, LineageLive, Used, IsRoot

(* The owner takes rows away: logout, revocation, purge, deactivation, and *)
(* the rotation of a token, which ends no lineage.                         *)
LEMMA Withdraws ==
  ASSUME LineageInv, OwnerInv, NEW u \in User, NEW S \in SUBSET Used,
         \A s \in S : sessions[s].user_id = u,
         Revoke(S), RecordEnd(S) \/ ended' = ended
  PROVE  Lifecycle!Next
<1> DEFINE L == ended' \ ended
<1>0. S \in SUBSET SessionId /\ TypeOK /\ RowsOK /\ RowOwners
  BY DEF Used, LineageInv, OwnerInv
<1>1. /\ Used' = Used
      /\ \A s \in SessionId :
           /\ sessions'[s].root = sessions[s].root
           /\ sessions'[s].user_id = sessions[s].user_id
           /\ sessions'[s].state = "live"
                <=> sessions[s].state = "live" /\ s \notin S
  <2>1. \A s \in SessionId :
          sessions'[s].state = "live" <=> sessions[s].state = "live" /\ s \notin S
    BY <1>0 DEF Revoke, TypeOK, Session
  <2> QED
    BY <1>0, <2>1, RevokeFacts
<1>2. L \subseteq Roots(S) /\ ended' = ended \cup L
      /\ L \cap Roots({s \in SessionId \ S : sessions[s].state = "live"}) = {}
  BY DEF RecordEnd
<1>3. Roots(S) \subseteq SessionId
  BY <1>0 DEF Roots, RowsOK, Used
<1>4. ASSUME NEW l \in L
      PROVE  /\ l \in SessionId
             /\ LineageState[l] = "open" /\ LineageOwner[l] = u
             /\ LineageLive[l] \subseteq S
  <2>1. PICK s \in S : sessions[s].root = l
    BY <1>2 DEF Roots
  <2>2. IsRoot(l) /\ sessions[l].user_id = u /\ l \notin ended /\ l \in SessionId
    BY <1>0, <1>2, <1>3, <2>1 DEF RowOwners
  <2>3. LineageLive[l] \subseteq S
    BY <1>2, <2>2 DEF LineageLive, Roots
  <2> QED
    BY <2>2, <2>3 DEF LineageState, LineageOwner
<1>5. ASSUME NEW l \in SessionId, LineageLive[l] \cap S # {}
      PROVE  LineageOwner[l] = u
  <2>1. PICK s \in S : sessions[s].root = l
    BY <1>5 DEF LineageLive
  <2> QED
    BY <1>0, <2>1 DEF LineageOwner, RowOwners
<1>6. LineageState' = [l \in SessionId |-> IF l \in L THEN "ended" ELSE LineageState[l]]
  BY <1>1, <1>2 DEF LineageState, IsRoot
<1>7. LineageLive' = [l \in SessionId |-> LineageLive[l] \ S]
  <2>1. \A l \in SessionId :
          {s \in SessionId : sessions'[s].state = "live" /\ sessions'[s].root = l}
          = LineageLive[l] \ S
    BY <1>1 DEF LineageLive
  <2> QED
    BY <2>1 DEF LineageLive
<1>8. LineageOwner' = LineageOwner
  BY <1>1 DEF LineageOwner, IsRoot
<1>9. Lifecycle!Withdraw(u, S, L)
  BY <1>1, <1>4, <1>5, <1>6, <1>7, <1>8 DEF Lifecycle!Withdraw
<1>10. L \in SUBSET SessionId
  BY <1>4
<1> QED
  BY <1>0, <1>9, <1>10 DEF Lifecycle!Next

(* The cleanup forgets rows.                                               *)
LEMMA Forgets ==
  ASSUME LineageInv, CleanDelete
  PROVE  Lifecycle!Next
<1> DEFINE S == Collectable(cleaner.cutoff)
<1>1. S \in SUBSET SessionId
  BY DEF Collectable
<1>2. LineageLive' = [l \in SessionId |-> LineageLive[l] \ S]
  <2>1. \A l \in SessionId :
          {s \in SessionId : sessions'[s].state = "live" /\ sessions'[s].root = l}
          = LineageLive[l] \ S
    BY DeleteFacts DEF LineageLive
  <2> QED
    BY <2>1 DEF LineageLive
<1>3. LineageState' = LineageState /\ LineageOwner' = LineageOwner
  BY DeleteFacts DEF CleanDelete, LineageState, LineageOwner, IsRoot
<1>4. Lifecycle!Forget(S)
  BY <1>2, <1>3, DeleteFacts DEF Lifecycle!Forget
<1> QED
  BY <1>1, <1>4 DEF Lifecycle!Next

(* The INSERT opens a lineage, for a login, or extends one that has not    *)
(* ended, for a refresh: RequestOK says so when the refresh gets here.     *)
LEMMA Inserts ==
  ASSUME LineageInv, OwnerInv, NEW r \in Request, NEW s \in SessionId,
         CreateSession(r, s)
  PROVE  Lifecycle!Next
<1>t. TypeOK /\ RowsOK /\ RowOwners /\ RequestOK(r)
  BY DEF LineageInv, RequestsOK, OwnerInv
<1>1. /\ Used' = Used \cup {s} /\ s \notin Used
      /\ \A q \in SessionId \ {s} : sessions'[q] = sessions[q]
      /\ sessions'[s].state = "live" /\ sessions'[s].user_id = req[r].user
      /\ req[r].op = "refresh" =>
           /\ sessions'[s].root = sessions[req[r].sid].root
           /\ req[r].sid \in Used
           /\ sessions[req[r].sid].root \in Used
      /\ req[r].op # "refresh" => sessions'[s].root = s
  BY CreateOwner
<1>2. ended' = ended /\ s \notin ended /\ req[r].user \in User
  BY <1>t, <1>1 DEF CreateSession, RowsOK, RequestOK
<1>3. sessions[s].root = None /\ s # None /\ sessions[s].state = "none"
  BY <1>t, <1>1, NoneAssumption DEF RowOwners, Used
<1>4. CASE req[r].op = "refresh"
  <2> DEFINE l == sessions[req[r].sid].root
  <2>1. l \in SessionId \ {s} /\ sessions[l].root = l /\ l \notin ended
    BY <1>t, <1>1, <1>4
       DEF Used, RowOwners, IsRoot, RequestOK, RefreshWindow, CreateSession
  <2>2. sessions'[s].root = l
    BY <1>1, <1>4
  <2> HIDE DEF l
  <2>3. LineageState' = LineageState /\ LineageOwner' = LineageOwner
    BY <1>1, <1>2, <1>3, <2>1, <2>2 DEF LineageState, LineageOwner, IsRoot
  <2>4. LineageLive' = [LineageLive EXCEPT ![l] = @ \cup {s}]
    <3>1. ASSUME NEW k \in SessionId
          PROVE  {q \in SessionId : sessions'[q].state = "live" /\ sessions'[q].root = k}
                 = IF k = l THEN LineageLive[k] \cup {s} ELSE LineageLive[k]
      BY <1>1, <1>3, <2>1, <2>2 DEF LineageLive
    <3> QED
      BY <3>1, <2>1 DEF LineageLive
  <2>5. LineageState[l] = "open"
    BY <2>1 DEF LineageState, IsRoot
  <2>6. Lifecycle!Extend(l, s)
    BY <1>1, <2>3, <2>4, <2>5 DEF Lifecycle!Extend
  <2> QED
    BY <2>1, <2>6 DEF Lifecycle!Next
<1>5. CASE req[r].op # "refresh"
  <2>1. sessions'[s].root = s
    BY <1>1, <1>5
  <2>2. LineageState' = [LineageState EXCEPT ![s] = "open"]
    BY <1>1, <1>2, <2>1 DEF LineageState, IsRoot
  <2>3. LineageOwner' = [LineageOwner EXCEPT ![s] = req[r].user]
    BY <1>1, <2>1 DEF LineageOwner, IsRoot
  <2>4. LineageLive' = [LineageLive EXCEPT ![s] = {s}]
    <3>1. \A q \in SessionId : sessions[q].state = "live" => sessions[q].root # s
      BY <1>t, <1>1 DEF RowsOK, Used
    <3>2. ASSUME NEW k \in SessionId
          PROVE  {q \in SessionId : sessions'[q].state = "live" /\ sessions'[q].root = k}
                 = IF k = s THEN {s} ELSE LineageLive[k]
      BY <1>1, <1>3, <2>1, <3>1 DEF LineageLive
    <3> QED
      BY <3>2 DEF LineageLive
  <2>5. LineageState[s] = "new"
    BY <1>2, <1>3 DEF LineageState, IsRoot
  <2>6. Lifecycle!Login(req[r].user, s)
    BY <1>1, <2>2, <2>3, <2>4, <2>5 DEF Lifecycle!Login
  <2> QED
    BY <1>2, <2>6 DEF Lifecycle!Next
<1> QED
  BY <1>4, <1>5

-----------------------------------------------------------------------------
(* Every revocation takes rows of the user its handler acts for.           *)
LEMMA HandlerWithdraws ==
  ASSUME LineageInv, OwnerInv, NEW r \in Request,
         \/ RevokeOld(r) \/ Purge(r) \/ LogoutRevoke(r) \/ RevokeOthers(r)
         \/ RevokeTarget(r) \/ RevokeAll(r)
  PROVE  OwnerInv' /\ Lifecycle!Next
<1>t. RequestOK(r) /\ RequestOwner(r)
  BY DEF LineageInv, RequestsOK, OwnerInv
<1>0. req[r].user \in User
  BY <1>t DEF RequestOK, RevokeOld, Purge, LogoutRevoke, RevokeOthers,
              RevokeTarget, RevokeAll
<1>1. /\ Rows(req[r].user) \subseteq Used
      /\ \A s \in Rows(req[r].user) : sessions[s].user_id = req[r].user
  BY DEF Rows, Exists, Used
<1>2. Used \subseteq SessionId
  BY DEF Used
<1>3. PICK S \in SUBSET Used :
        /\ \A s \in S : sessions[s].user_id = req[r].user
        /\ Revoke(S)
        /\ RecordEnd(S) \/ ended' = ended
        /\ Finish(r) \/ Goto(r, "createSession")
  <2>1. CASE RevokeOld(r)
    <3>1. {req[r].sid} \in SUBSET Used
          /\ sessions[req[r].sid].user_id = req[r].user
      BY <1>t, <2>1 DEF RevokeOld, RequestOK, RequestOwner
    <3> QED
      BY <2>1, <3>1 DEF RevokeOld
  <2>2. CASE LogoutRevoke(r)
    <3>1. {req[r].sid} \in SUBSET Used
          /\ sessions[req[r].sid].user_id = req[r].user
      BY <1>t, <2>2 DEF LogoutRevoke, RequestOK, RequestOwner
    <3> QED
      BY <2>2, <3>1 DEF LogoutRevoke
  <2>3. CASE RevokeTarget(r)
    <3>1. {req[r].target} \in SUBSET Used
          /\ sessions[req[r].target].user_id = req[r].user
      BY <1>t, <2>3 DEF RevokeTarget, RequestOK, RequestOwner
    <3> QED
      BY <2>3, <3>1 DEF RevokeTarget
  <2>4. CASE RevokeOthers(r)
    <3>1. Rows(req[r].user) \ {req[r].sid} \in SUBSET Used
      BY <1>1
    <3> QED
      BY <1>1, <2>4, <3>1 DEF RevokeOthers
  <2>5. CASE Purge(r) \/ RevokeAll(r)
    BY <1>1, <2>5 DEF Purge, RevokeAll
  <2> QED
    BY <2>1, <2>2, <2>3, <2>4, <2>5
<1>4. OwnerInv'
  BY <1>2, <1>3, RevokeOwner
<1>5. Lifecycle!Next
  BY <1>0, <1>3, Withdraws
<1> QED
  BY <1>4, <1>5

(* Every step of the service keeps the ownership invariant, and is a step  *)
(* of the abstract specification or a stutter.                             *)
LEMMA LifecycleStep ==
  LineageInv /\ OwnerInv /\ [Next]_vars
    => OwnerInv' /\ [Lifecycle!Next]_(Lifecycle!vars)
<1> SUFFICES ASSUME LineageInv, OwnerInv, [Next]_vars
             PROVE  OwnerInv' /\ [Lifecycle!Next]_(Lifecycle!vars)
  OBVIOUS
<1>1. ASSUME NEW r \in Request, Arrive(r)
      PROVE  OwnerInv' /\ UNCHANGED Lifecycle!vars
  <2>1. sessions' = sessions /\ ended' = ended
    BY <1>1 DEF Arrive, LoginArrive, UpdateArrive, RefreshArrive, LogoutArrive,
                AuthArrive
  <2> QED
    BY <1>1, <2>1, ArriveOwner, Stutters
<1>2. ASSUME NEW r \in Request,
             \/ \E ok \in BOOLEAN : FindByEmail(r, ok)
             \/ Respond(r) \/ FindActive(r) \/ FindUser(r) \/ FindAny(r)
             \/ LogoutFind(r) \/ AuthUser(r) \/ TouchSession(r) \/ ReadOnly(r)
             \/ Abort(r)
      PROVE  OwnerInv' /\ UNCHANGED Lifecycle!vars
  <2>1. sessions' = sessions /\ ended' = ended
    BY <1>2 DEF FindByEmail, Respond, FindActive, FindUser, FindAny, LogoutFind,
                AuthUser, TouchSession, ReadOnly, Abort
  <2> QED
    BY <1>2, <2>1, ReadOwner, Stutters
<1>3. ASSUME NEW r \in Request, NEW t \in SessionId, RevokeSession(r, t)
      PROVE  OwnerInv' /\ UNCHANGED Lifecycle!vars
  <2>1. sessions' = sessions /\ ended' = ended
    BY <1>3 DEF RevokeSession
  <2> QED
    BY <1>3, <2>1, RevokeSessionOwner, Stutters
<1>4. ASSUME NEW r \in Request, NEW value \in BOOLEAN, WriteUser(r, value)
      PROVE  OwnerInv' /\ UNCHANGED Lifecycle!vars
  <2>1. sessions' = sessions /\ ended' = ended
    BY <1>4 DEF WriteUser
  <2> QED
    BY <1>4, <2>1, WriteUserOwner, Stutters
<1>5. ASSUME NEW r \in Request, NEW s \in SessionId, CreateSession(r, s)
      PROVE  OwnerInv' /\ Lifecycle!Next
  BY <1>5, CreateOwner, Inserts
<1>6. ASSUME NEW r \in Request, Handle(r) \/ Abort(r)
      PROVE  OwnerInv' /\ [Lifecycle!Next]_(Lifecycle!vars)
  BY <1>2, <1>3, <1>4, <1>5, <1>6, HandlerWithdraws DEF Handle
<1>7. CASE CleanDelete
  BY <1>7, BackgroundOwner, Forgets DEF Clean
<1>8. CASE Tick \/ CleanSelect \/ CleanAudit \/ CleanFail \/ UNCHANGED vars
  <2>1. sessions' = sessions /\ ended' = ended
    BY <1>8 DEF Tick, CleanSelect, CleanAudit, CleanFail, vars
  <2> QED
    BY <1>8, <2>1, BackgroundOwner, Stutters DEF Clean
<1> QED
  BY <1>1, <1>6, <1>7, <1>8 DEF Next, Clean

(* The handlers, however they interleave, are replayed or die half-way,    *)
(* together implement SessionLifecycle: only a lineage that has not ended  *)
(* is extended, only its owner withdraws its sessions, none comes back.    *)
THEOREM SessionsImplementLifecycle == Spec => ImplementsLifecycle
<1>1. Init => Lifecycle!Init
  BY NoneAssumption
     DEF Init, Lifecycle!Init, LineageState, LineageOwner, LineageLive, Used,
         IsRoot, NoSession
<1> QED
  BY <1>1, OwnerInit, LifecycleStep, LineageAlways, PTL
     DEF Spec, ImplementsLifecycle, Lifecycle!Spec

=============================================================================
