------------------------ MODULE SessionsSafetyProofs ------------------------
(***************************************************************************)
(* Proofs of the other safety properties of Sessions, for any number of    *)
(* users, rows and handlers: who is served, who revokes, what a revoked    *)
(* row keeps and what the cleanup audits.  They rest on two facts: how one *)
(* step may change one row, and what a handler has seen since it arrived.  *)
(***************************************************************************)
EXTENDS SessionsProofs

(* What a handler has seen.  A row once not live is never live again, so   *)
(* a session found usable by a later statement was usable on arrival; and  *)
(* an account found active was active on arrival or re-activated since.    *)
SeenTables(r) ==
  /\ req[r].op = "login" => req[r].sawLive
  /\ req[r].op = "refresh" /\ Usable(req[r].sid) => req[r].sawLive
  /\ req[r].op = "protected" /\ sessions[req[r].sid].state = "live"
       => req[r].sawLive
  /\ req[r].op \in {"login", "refresh", "protected"} /\ active[req[r].user]
       => req[r].sawActive

(* What its position says it has checked.                                  *)
SeenAt(r) ==
  /\ pc[r] \in {"findUser", "revokeOld", "createSession", "respond",
                "handler", "revokeTarget"} => req[r].sawLive
  /\ pc[r] \in {"revokeOld", "createSession", "respond", "touch",
                "handler", "revokeTarget"} => req[r].sawActive
  /\ pc[r] = "revokeTarget" => req[r].target # req[r].sid
  /\ pc[r] \in {"writeUser", "revokeAll"} => req[r].op = "update"

Seen(r) == SeenTables(r) /\ SeenAt(r)

SeenInv == \A r \in Request : Seen(r)

(* Between its SELECT and its DELETE, the set the cleanup found is still   *)
(* the set its cutoff describes.                                           *)
CleanerInv ==
  /\ cleaner.pc = "delete" =>
       cleaner.cutoff <= clock /\ cleaner.found = Collectable(cleaner.cutoff)
  /\ cleaner.pc = "audit" => cleaner.found = cleaner.deleted

SafetyInv == LineageInv /\ OwnerInv /\ SeenInv /\ CleanerInv

-----------------------------------------------------------------------------
(* The life of a row: what one step may do to it.                          *)

RowInserted(s) ==
  /\ sessions[s].state = "none" /\ sessions'[s].state = "live"
  /\ clock <= sessions'[s].expires_at
  /\ sessions'[s].expires_at = clock + RefreshTTL

(* By a handler acting for the row's owner, at the time of the statement;  *)
(* a handler that manages sessions does not touch its own.                 *)
RevokedBy(r, s) ==
  /\ pc[r] # "idle" /\ pc'[r] # pc[r]
  /\ req[r].user = sessions[s].user_id
  /\ req[r].op = "protected" => s # req[r].sid

RowRevoked(s) ==
  /\ sessions[s].state = "live" /\ sessions'[s].state = "revoked"
  /\ sessions'[s].revoked_at = clock
  /\ sessions'[s].expires_at = sessions[s].expires_at
  /\ \E r \in Request : RevokedBy(r, s)

RowDeleted(s) ==
  /\ Exists(s) /\ sessions'[s].state = "deleted"
  /\ sessions'[s].revoked_at = sessions[s].revoked_at
  /\ sessions'[s].expires_at = sessions[s].expires_at
  /\ CleanDelete

RowStep(s) ==
  \/ sessions'[s] = sessions[s]
  \/ RowInserted(s) \/ RowRevoked(s) \/ RowDeleted(s)

(* The rows one UPDATE revokes.                                            *)
LEMMA RevokeRows ==
  ASSUME LineageInv, NEW S \in SUBSET SessionId, Revoke(S), NEW r \in Request,
         \A s \in S : RevokedBy(r, s), NEW s \in SessionId
  PROVE  RowStep(s)
<1>t. sessions \in [SessionId -> Session]
  BY DEF LineageInv, TypeOK
<1>1. CASE s \in S /\ sessions[s].state = "live"
  <2>1. sessions'[s] = [sessions[s] EXCEPT !.state = "revoked",
                                           !.revoked_at = clock]
    BY <1>1 DEF Revoke
  <2>2. /\ sessions'[s].state = "revoked" /\ sessions'[s].revoked_at = clock
        /\ sessions'[s].expires_at = sessions[s].expires_at
    BY <1>t, <2>1 DEF Session
  <2> QED
    BY <1>1, <2>2 DEF RowStep, RowRevoked
<1>2. CASE ~(s \in S /\ sessions[s].state = "live")
  BY <1>2 DEF Revoke, RowStep
<1> QED
  BY <1>1, <1>2

LEMMA HandlerRevokes ==
  ASSUME LineageInv, OwnerInv, SeenInv, NEW r \in Request,
         \/ RevokeOld(r) \/ Purge(r) \/ LogoutRevoke(r) \/ RevokeOthers(r)
         \/ RevokeTarget(r) \/ RevokeAll(r),
         NEW s \in SessionId
  PROVE  RowStep(s)
<1>t. TypeOK /\ RequestOK(r) /\ RequestOwner(r) /\ Seen(r)
  BY DEF LineageInv, RequestsOK, OwnerInv, SeenInv
<1>0. Rows(req[r].user) \in SUBSET SessionId
      /\ \A q \in Rows(req[r].user) : sessions[q].user_id = req[r].user
  BY DEF Rows
<1>m. /\ pc[r] # "idle" /\ pc'[r] # pc[r]
      /\ pc[r] \in {"revokeOld", "purge", "logoutRevoke", "handler",
                    "revokeTarget", "revokeAll"}
  BY <1>t DEF TypeOK, RevokeOld, Purge, LogoutRevoke, RevokeOthers,
              RevokeTarget, RevokeAll, Goto, Finish
<1>1. CASE RevokeOld(r) \/ LogoutRevoke(r)
  <2>1. /\ {req[r].sid} \in SUBSET SessionId /\ Revoke({req[r].sid})
        /\ req[r].op \in {"refresh", "logout"}
    BY <1>t, <1>1 DEF RevokeOld, LogoutRevoke, RequestOK, Used
  <2>2. \A q \in {req[r].sid} : RevokedBy(r, q)
    BY <1>t, <1>m, <2>1 DEF RequestOwner, RevokedBy
  <2> QED
    BY <2>1, <2>2, RevokeRows
<1>2. CASE RevokeTarget(r)
  <2>1. {req[r].target} \in SUBSET SessionId /\ Revoke({req[r].target})
    BY <1>t, <1>2 DEF RevokeTarget, RequestOK, Used
  <2>2. \A q \in {req[r].target} : RevokedBy(r, q)
    BY <1>t, <1>m, <1>2 DEF RevokeTarget, RequestOwner, Seen, SeenAt, RevokedBy
  <2> QED
    BY <2>1, <2>2, RevokeRows
<1>3. CASE RevokeOthers(r)
  <2>1. Rows(req[r].user) \ {req[r].sid} \in SUBSET SessionId
        /\ Revoke(Rows(req[r].user) \ {req[r].sid})
    BY <1>0, <1>3 DEF RevokeOthers
  <2>2. \A q \in Rows(req[r].user) \ {req[r].sid} : RevokedBy(r, q)
    BY <1>0, <1>m DEF RevokedBy
  <2> QED
    BY <2>1, <2>2, RevokeRows
<1>4. CASE Purge(r)
  <2>1. req[r].op # "protected"
    BY <1>t, <1>4 DEF Purge, RequestOK
  <2>2. \A q \in Rows(req[r].user) : RevokedBy(r, q)
    BY <1>0, <1>m, <2>1 DEF RevokedBy
  <2> QED
    BY <1>0, <1>4, <2>2, RevokeRows DEF Purge
<1>5. CASE RevokeAll(r)
  <2>1. req[r].op # "protected"
    BY <1>t, <1>5 DEF RevokeAll, Seen, SeenAt
  <2>2. \A q \in Rows(req[r].user) : RevokedBy(r, q)
    BY <1>0, <1>m, <2>1 DEF RevokedBy
  <2> QED
    BY <1>0, <1>5, <2>2, RevokeRows DEF RevokeAll
<1> QED
  BY <1>1, <1>2, <1>3, <1>4, <1>5

(* Every step does to a row one of the things RowStep lists.               *)
LEMMA RowsStep ==
  ASSUME LineageInv, OwnerInv, SeenInv, [Next]_vars, NEW s \in SessionId
  PROVE  RowStep(s)
<1>1. CASE sessions' = sessions
  BY <1>1 DEF RowStep
<1>2. ASSUME NEW r \in Request, NEW t \in SessionId, CreateSession(r, t)
      PROVE  RowStep(s)
  <2>1. CASE s = t
    BY <1>2, <2>1, TTLAssumption
       DEF CreateSession, LineageInv, TypeOK, RowStep, RowInserted
  <2>2. CASE s # t
    BY <1>2, <2>2, CreateOwner DEF RowStep
  <2> QED
    BY <2>1, <2>2
<1>3. CASE CleanDelete
  BY <1>3 DEF CleanDelete, Collectable, Exists, LineageInv, TypeOK, Session,
              RowStep, RowDeleted
<1>4. ASSUME NEW r \in Request, Handle(r)
      PROVE  RowStep(s)
  BY <1>1, <1>2, <1>4, HandlerRevokes
     DEF Handle, FindByEmail, Respond, FindActive, FindUser, FindAny,
         LogoutFind, AuthUser, TouchSession, ReadOnly, RevokeSession, WriteUser
<1> QED
  BY <1>1, <1>3, <1>4
     DEF Next, Arrive, LoginArrive, UpdateArrive, RefreshArrive, LogoutArrive,
         AuthArrive, Abort, Tick, Clean, CleanSelect, CleanAudit, CleanFail, vars

(* An inserted row that is live after a step is as it was before.          *)
LEMMA LiveWasLive ==
  ASSUME NEW s \in Used, RowStep(s), sessions'[s].state = "live"
  PROVE  sessions'[s] = sessions[s]
  BY DEF RowStep, RowInserted, RowRevoked, RowDeleted, Used

-----------------------------------------------------------------------------
(* What a handler has seen stays true while others run.                    *)
LEMMA TablesStaySeen ==
  ASSUME LineageInv, SeenInv, NEW q \in Request,
         \A s \in SessionId : RowStep(s),
         clock' \in Nat, clock <= clock',
         req'[q].op = req[q].op, req'[q].sid = req[q].sid,
         req'[q].user = req[q].user,
         req'[q].sawLive = req[q].sawLive,
         req[q].sawActive => req'[q].sawActive,
         active'[req[q].user] => active[req[q].user] \/ req'[q].sawActive
  PROVE  SeenTables(q)'
<1>t. TypeOK /\ RequestOK(q) /\ SeenTables(q)
  BY DEF LineageInv, RequestsOK, SeenInv, Seen
<1>1. CASE req[q].op \in {"refresh", "protected"}
  <2>1. req[q].sid \in Used /\ req[q].sid \in SessionId
    BY <1>1, <1>t DEF RequestOK, Used
  <2>2. sessions'[req[q].sid].state = "live"
          => sessions'[req[q].sid] = sessions[req[q].sid]
    BY <2>1, LiveWasLive
  <2>3. sessions[req[q].sid].expires_at \in Nat /\ clock \in Nat
    BY <1>t, <2>1 DEF TypeOK, Session
  <2>4. Usable(req[q].sid)' => Usable(req[q].sid)
    BY <2>2, <2>3 DEF Usable
  <2> QED
    BY <1>1, <1>t, <2>2, <2>4 DEF SeenTables
<1>2. CASE req[q].op \notin {"refresh", "protected"}
  BY <1>2, <1>t DEF SeenTables
<1> QED
  BY <1>1, <1>2

(* A step that leaves q where it is, its locals and the accounts alone.    *)
LEMMA OthersStaySeen ==
  ASSUME LineageInv, SeenInv, NEW q \in Request,
         \A s \in SessionId : RowStep(s), clock' \in Nat, clock <= clock',
         active' = active, pc'[q] = pc[q], req'[q] = req[q]
  PROVE  Seen(q)'
<1>1. SeenTables(q)'
  BY TablesStaySeen
<1>2. SeenAt(q)'
  BY DEF SeenInv, Seen, SeenAt
<1> QED
  BY <1>1, <1>2 DEF Seen

LEMMA IdleSeen ==
  ASSUME NEW q \in Request, pc'[q] = "idle", req'[q] = NoRequest
  PROVE  Seen(q)'
  BY DEF Seen, SeenTables, SeenAt, NoRequest

(* A step of r that writes no account: the others stay as they are.        *)
LEMMA OneMoves ==
  ASSUME LineageInv, SeenInv, NEW r \in Request,
         \A s \in SessionId : RowStep(s), clock' \in Nat, clock <= clock',
         active' = active,
         \A q \in Request \ {r} : pc'[q] = pc[q] /\ req'[q] = req[q],
         Seen(r)'
  PROVE  SeenInv'
  BY OthersStaySeen DEF SeenInv

(* A handler that ends.                                                    *)
LEMMA FinishSeen ==
  ASSUME LineageInv, SeenInv, NEW r \in Request, Finish(r),
         \A s \in SessionId : RowStep(s), clock' = clock, active' = active
  PROVE  SeenInv'
<1>1. clock' \in Nat /\ clock <= clock'
  BY DEF LineageInv, TypeOK
<1> QED
  BY <1>1, FinishFacts, IdleSeen, OneMoves DEF LineageInv

(* A handler that passes a check.                                          *)
LEMMA GotoSeen ==
  ASSUME LineageInv, SeenInv, NEW r \in Request, NEW l \in Pc, Goto(r, l),
         \A s \in SessionId : RowStep(s), clock' = clock, active' = active,
         l \notin {"revokeTarget", "writeUser", "revokeAll"},
         l \in {"findUser", "revokeOld", "createSession", "respond", "handler"}
           => req[r].sawLive,
         l \in {"revokeOld", "createSession", "respond", "touch", "handler"}
           => req[r].sawActive
  PROVE  SeenInv'
<1>1. clock' \in Nat /\ clock <= clock'
  BY DEF LineageInv, TypeOK
<1>2. /\ pc'[r] = l /\ req' = req
      /\ \A q \in Request \ {r} : pc'[q] = pc[q]
  BY GotoFacts DEF LineageInv
<1>3. SeenTables(r)'
  BY <1>1, <1>2, TablesStaySeen
<1>4. SeenAt(r)'
  BY <1>2 DEF SeenAt
<1> QED
  BY <1>1, <1>2, <1>3, <1>4, OneMoves DEF Seen

-----------------------------------------------------------------------------
(* A request that arrives sees the tables as they are.                     *)
LEMMA ArriveSeen ==
  ASSUME LineageInv, SeenInv, NEW r \in Request, Arrive(r),
         \A s \in SessionId : RowStep(s)
  PROVE  SeenInv'
<1>1. /\ clock' = clock /\ clock' \in Nat /\ clock <= clock'
      /\ active' = active /\ sessions' = sessions
      /\ \A q \in Request \ {r} : pc'[q] = pc[q] /\ req'[q] = req[q]
  <2>1. clock' = clock /\ active' = active /\ sessions' = sessions
    BY DEF Arrive, LoginArrive, UpdateArrive, RefreshArrive, LogoutArrive,
           AuthArrive
  <2>2. \A q \in Request \ {r} : pc'[q] = pc[q] /\ req'[q] = req[q]
    BY DEF Arrive, LoginArrive, UpdateArrive, RefreshArrive, LogoutArrive,
           AuthArrive, Start, LineageInv, TypeOK
  <2> QED
    BY <2>1, <2>2 DEF LineageInv, TypeOK
<1>2. CASE \E u \in User : LoginArrive(r, u)
  <2>1. PICK u \in User : LoginArrive(r, u)
    BY <1>2
  <2>2. /\ pc'[r] = "findByEmail" /\ req'[r].op = "login"
        /\ req'[r].user = u /\ req'[r].sawLive /\ req'[r].sawActive = active[u]
    BY <2>1 DEF LoginArrive, Start, NoRequest, LineageInv, TypeOK
  <2> QED
    BY <1>1, <2>2, OneMoves DEF Seen, SeenTables, SeenAt
<1>3. CASE \E u \in User : UpdateArrive(r, u)
  <2>1. pc'[r] = "writeUser" /\ req'[r].op = "update"
    BY <1>3 DEF UpdateArrive, Start, NoRequest, LineageInv, TypeOK
  <2> QED
    BY <1>1, <2>1, OneMoves DEF Seen, SeenTables, SeenAt
<1>4. CASE \E s \in SessionId : RefreshArrive(r, s)
  <2>1. PICK s \in SessionId : RefreshArrive(r, s)
    BY <1>4
  <2>2. /\ pc'[r] = "findActive" /\ req'[r].op = "refresh" /\ req'[r].sid = s
        /\ req'[r].user = sessions[s].user_id /\ req'[r].sawLive = Usable(s)
        /\ req'[r].sawActive = active[sessions[s].user_id]
    BY <2>1 DEF RefreshArrive, Start, NoRequest, LineageInv, TypeOK
  <2>3. SeenTables(r)'
    BY <1>1, <2>2 DEF SeenTables, Usable
  <2>4. SeenAt(r)'
    BY <2>2 DEF SeenAt
  <2> QED
    BY <1>1, <2>3, <2>4, OneMoves DEF Seen
<1>5. CASE \E s \in SessionId : LogoutArrive(r, s)
  <2>1. pc'[r] = "logoutFind" /\ req'[r].op = "logout"
    BY <1>5 DEF LogoutArrive, Start, NoRequest, LineageInv, TypeOK
  <2> QED
    BY <1>1, <2>1, OneMoves DEF Seen, SeenTables, SeenAt
<1>6. CASE \E s \in SessionId : AuthArrive(r, s)
  <2>1. PICK s \in SessionId : AuthArrive(r, s)
    BY <1>6
  <2>2. /\ pc'[r] = "authUser" /\ req'[r].op = "protected" /\ req'[r].sid = s
        /\ req'[r].user = sessions[s].user_id /\ req'[r].sawLive = Usable(s)
        /\ req'[r].sawActive = active[sessions[s].user_id]
    BY <2>1 DEF AuthArrive, Start, NoRequest, LineageInv, TypeOK
  <2>3. sessions[s].expires_at > clock
    <3>1. s \in Used /\ clock < sessions[s].jwt_exp
      BY <2>1 DEF AuthArrive, LineageInv, RowsOK
    <3>2. sessions[s] \in Session /\ clock \in Nat
          /\ sessions[s].jwt_exp <= sessions[s].expires_at
      BY <3>1 DEF LineageInv, TypeOK, RowsOK
    <3> QED
      BY <3>1, <3>2 DEF Session
  <2>4. SeenTables(r)'
    BY <1>1, <2>2, <2>3 DEF SeenTables, Usable
  <2>5. SeenAt(r)'
    BY <2>2 DEF SeenAt
  <2> QED
    BY <1>1, <2>4, <2>5, OneMoves DEF Seen
<1> QED
  BY <1>2, <1>3, <1>4, <1>5, <1>6 DEF Arrive

(* The statements that only read: each one that lets a handler pass says   *)
(* something about the tables, and with SeenTables about its arrival.      *)
LEMMA ReadSeen ==
  ASSUME LineageInv, SeenInv, NEW r \in Request,
         \/ \E ok \in BOOLEAN : FindByEmail(r, ok)
         \/ Respond(r) \/ FindActive(r) \/ FindUser(r) \/ FindAny(r)
         \/ LogoutFind(r) \/ AuthUser(r) \/ TouchSession(r) \/ ReadOnly(r)
         \/ Abort(r),
         \A s \in SessionId : RowStep(s)
  PROVE  SeenInv'
<1>t. RequestOK(r) /\ SeenTables(r) /\ SeenAt(r)
  BY DEF LineageInv, RequestsOK, SeenInv, Seen
<1>0. clock' = clock /\ active' = active
  BY DEF FindByEmail, Respond, FindActive, FindUser, FindAny, LogoutFind,
         AuthUser, TouchSession, ReadOnly, Abort
<1>l. {"createSession", "findUser", "findAny", "revokeOld", "purge",
       "logoutRevoke", "touch", "handler"} \subseteq Pc
  BY DEF Pc, RefreshWindow
<1>1. CASE Finish(r)
  BY <1>0, <1>1, FinishSeen
<1>2. CASE /\ Goto(r, "createSession")
           /\ req[r].op = "login" /\ active[req[r].user]
  BY <1>0, <1>2, <1>l, <1>t, GotoSeen DEF SeenTables
<1>3. CASE /\ Goto(r, "findUser")
           /\ req[r].op = "refresh" /\ Usable(req[r].sid)
  BY <1>0, <1>3, <1>l, <1>t, GotoSeen DEF SeenTables
<1>4. CASE /\ Goto(r, "revokeOld") /\ pc[r] = "findUser"
           /\ req[r].op = "refresh" /\ active[req[r].user]
  BY <1>0, <1>4, <1>l, <1>t, GotoSeen DEF SeenTables, SeenAt
<1>5. CASE \E l \in {"findAny", "purge", "logoutRevoke"} : Goto(r, l)
  BY <1>0, <1>5, <1>l, GotoSeen
<1>6. CASE /\ Goto(r, "touch") /\ req[r].op = "protected"
           /\ active[req[r].user]
  BY <1>0, <1>6, <1>l, <1>t, GotoSeen DEF SeenTables
<1>7. CASE /\ Goto(r, "handler") /\ pc[r] = "touch"
           /\ req[r].op = "protected" /\ sessions[req[r].sid].state = "live"
  BY <1>0, <1>7, <1>l, <1>t, GotoSeen DEF SeenTables, SeenAt
<1>8. ASSUME NEW ok \in BOOLEAN, FindByEmail(r, ok) PROVE SeenInv'
  BY <1>1, <1>2, <1>8, <1>t DEF FindByEmail, RequestOK
<1>9. CASE FindActive(r)
  BY <1>3, <1>5, <1>9, <1>t DEF FindActive, RequestOK
<1>10. CASE FindUser(r) /\ req[r].op = "refresh"
  BY <1>1, <1>4, <1>10 DEF FindUser
<1>11. CASE FindAny(r) \/ LogoutFind(r)
  BY <1>1, <1>5, <1>11 DEF FindAny, LogoutFind
<1>12. CASE AuthUser(r) \/ TouchSession(r)
  BY <1>1, <1>6, <1>7, <1>12, <1>t DEF AuthUser, TouchSession, RequestOK
<1>13. CASE Respond(r) \/ ReadOnly(r) \/ Abort(r)
  BY <1>1, <1>13 DEF Respond, ReadOnly, Abort
<1>14. FindUser(r) => req[r].op = "refresh"
  BY <1>t DEF FindUser, RequestOK
<1> QED
  BY <1>8, <1>9, <1>10, <1>11, <1>12, <1>13, <1>14

(* The statements that write rows.                                         *)
LEMMA WriteSeen ==
  ASSUME LineageInv, SeenInv, NEW r \in Request,
         \/ \E s \in SessionId : CreateSession(r, s) \/ RevokeSession(r, s)
         \/ RevokeOld(r) \/ Purge(r) \/ LogoutRevoke(r) \/ RevokeOthers(r)
         \/ RevokeTarget(r) \/ RevokeAll(r),
         \A s \in SessionId : RowStep(s)
  PROVE  SeenInv'
<1>t. TypeOK /\ SeenTables(r) /\ SeenAt(r)
  BY DEF LineageInv, SeenInv, Seen
<1>0. /\ clock' = clock /\ active' = active
      /\ clock' \in Nat /\ clock <= clock'
  BY <1>t DEF CreateSession, RevokeSession, RevokeOld, Purge, LogoutRevoke,
              RevokeOthers, RevokeTarget, RevokeAll, TypeOK
<1>1. CASE Finish(r)
  BY <1>0, <1>1, FinishSeen
<1>2. ASSUME NEW s \in SessionId, NEW l,
             pc' = [pc EXCEPT ![r] = l], req' = [req EXCEPT ![r].target = s],
             \/ l = "respond" /\ pc[r] = "createSession"
             \/ l = "revokeTarget" /\ pc[r] = "handler" /\ s # req[r].sid
      PROVE  SeenInv'
  <2>1. /\ pc'[r] = l /\ req'[r].op = req[r].op
        /\ req'[r].sid = req[r].sid /\ req'[r].target = s
        /\ req'[r].user = req[r].user
        /\ req'[r].sawLive = req[r].sawLive
        /\ req'[r].sawActive = req[r].sawActive
        /\ \A q \in Request \ {r} : pc'[q] = pc[q] /\ req'[q] = req[q]
    BY <1>t, <1>2 DEF TypeOK, Local
  <2>2. SeenTables(r)'
    BY <1>0, <2>1, TablesStaySeen
  <2>3. SeenAt(r)'
    BY <1>t, <1>2, <2>1 DEF SeenAt
  <2> QED
    BY <1>0, <2>1, <2>2, <2>3, OneMoves DEF Seen
<1>3. CASE Goto(r, "createSession") /\ pc[r] = "revokeOld"
  <2>1. "createSession" \in Pc
    BY DEF Pc, RefreshWindow
  <2> QED
    BY <1>0, <1>3, <1>t, <2>1, GotoSeen DEF SeenAt
<1>4. ASSUME NEW s \in SessionId, CreateSession(r, s) \/ RevokeSession(r, s)
      PROVE  SeenInv'
  BY <1>1, <1>2, <1>4 DEF CreateSession, RevokeSession
<1> QED
  BY <1>1, <1>3, <1>4
     DEF RevokeOld, Purge, LogoutRevoke, RevokeOthers, RevokeTarget, RevokeAll

(* Activating an account is seen by every request of its user.             *)
LEMMA WriteUserSeen ==
  ASSUME LineageInv, SeenInv, NEW r \in Request, NEW value \in BOOLEAN,
         WriteUser(r, value), \A s \in SessionId : RowStep(s)
  PROVE  SeenInv'
<1>t. TypeOK /\ RequestsOK /\ clock' = clock /\ clock' \in Nat /\ clock <= clock'
  BY DEF LineageInv, TypeOK, WriteUser
<1>1. SUFFICES ASSUME NEW q \in Request PROVE Seen(q)'
  BY DEF SeenInv
<1>2. SeenAt(r) /\ SeenAt(q) /\ req[q] \in Local /\ pc[r] = "writeUser"
      /\ req[r].user \in User
  BY <1>t DEF SeenInv, Seen, TypeOK, WriteUser, RequestsOK, RequestOK
<1>3. req'[q] = IF q = r /\ ~(req[r].wasActive /\ ~value) THEN NoRequest
                ELSE IF value /\ req[q].user = req[r].user
                     THEN [req[q] EXCEPT !.sawActive = TRUE]
                     ELSE req[q]
  BY DEF WriteUser
<1>4. /\ q = r => pc'[q] = IF req[r].wasActive /\ ~value THEN "revokeAll" ELSE "idle"
      /\ q # r => pc'[q] = pc[q]
  BY <1>t DEF WriteUser, TypeOK
<1>5. CASE q = r /\ ~(req[r].wasActive /\ ~value)
  BY <1>3, <1>4, <1>5, IdleSeen
<1>6. CASE ~(q = r /\ ~(req[r].wasActive /\ ~value))
  <2>1. /\ req'[q].op = req[q].op /\ req'[q].sid = req[q].sid
        /\ req'[q].user = req[q].user /\ req'[q].target = req[q].target
        /\ req'[q].sawLive = req[q].sawLive
        /\ req[q].sawActive => req'[q].sawActive
        /\ value /\ req[q].user = req[r].user => req'[q].sawActive
    BY <1>2, <1>3, <1>6 DEF Local
  <2>2. active'[req[q].user] => active[req[q].user] \/ req'[q].sawActive
    <3>1. active' = [active EXCEPT ![req[r].user] = value]
      BY DEF WriteUser
    <3>2. CASE req[q].user = req[r].user
      BY <1>2, <1>t, <2>1, <3>1, <3>2 DEF TypeOK
    <3>3. CASE req[q].user # req[r].user
      BY <1>2, <1>t, <3>1, <3>3 DEF TypeOK
    <3> QED
      BY <3>2, <3>3
  <2>3. SeenTables(q)'
    BY <1>t, <2>1, <2>2, TablesStaySeen
  <2>4. SeenAt(q)'
    BY <1>2, <1>4, <1>6, <2>1 DEF SeenAt
  <2> QED
    BY <2>3, <2>4 DEF Seen
<1> QED
  BY <1>5, <1>6

-----------------------------------------------------------------------------
(* The cutoff lies in the past: rows inserted or revoked after the SELECT  *)
(* are not old enough, and only the DELETE removes rows.                   *)
LEMMA CleanerNext ==
  ASSUME LineageInv, CleanerInv, [Next]_vars, \A s \in SessionId : RowStep(s)
  PROVE  CleanerInv'
<1>t. TypeOK /\ cleaner \in Cleaner /\ clock \in Nat
  BY DEF LineageInv, TypeOK
<1>c. clock <= clock' /\ clock' \in Nat
  <2>1. CASE Tick
    BY <1>t, <2>1 DEF Tick
  <2>2. CASE clock' = clock
    BY <1>t, <2>2
  <2>3. Tick \/ clock' = clock
    BY DEF Next, Arrive, LoginArrive, UpdateArrive, RefreshArrive,
           LogoutArrive, AuthArrive, Abort, Clean, CleanSelect, CleanDelete,
           CleanAudit, CleanFail, Handle, FindByEmail, CreateSession, Respond,
           FindActive, FindUser, RevokeOld, FindAny, Purge, LogoutFind,
           LogoutRevoke, AuthUser, TouchSession, ReadOnly, RevokeOthers,
           RevokeTarget, RevokeSession, WriteUser, RevokeAll, vars
  <2> QED
    BY <2>1, <2>2, <2>3
<1>1. CASE CleanSelect
  <2>1. clock' = clock /\ sessions' = sessions
        /\ cleaner'.pc = "delete" /\ cleaner'.cutoff = clock - Retention
        /\ cleaner'.found = Collectable(clock - Retention)
    BY <1>1 DEF CleanSelect
  <2>2. clock - Retention <= clock
    BY <1>t, TTLAssumption
  <2>3. Collectable(clock - Retention)' = Collectable(clock - Retention)
    BY <2>1 DEF Collectable, Exists
  <2> QED
    BY <2>1, <2>2, <2>3 DEF CleanerInv, Collectable, Exists
<1>2. CASE CleanDelete
  <2>1. /\ cleaner.pc = "delete"
        /\ cleaner'.pc = "audit" /\ cleaner'.found = cleaner.found
        /\ cleaner'.deleted = Collectable(cleaner.cutoff)
    BY <1>2, <1>t DEF CleanDelete, Cleaner
  <2> QED
    BY <2>1 DEF CleanerInv
<1>3. CASE CleanAudit \/ CleanFail
  BY <1>3 DEF CleanAudit, CleanFail, CleanerInv
<1>4. CASE cleaner' = cleaner /\ ~CleanDelete
  <2>1. CASE cleaner.pc = "delete"
    <3>1. ASSUME NEW s \in SessionId
          PROVE  /\ Exists(s)' /\ sessions'[s].expires_at < cleaner.cutoff
                      <=> Exists(s) /\ sessions[s].expires_at < cleaner.cutoff
                 /\ sessions'[s].state = "revoked"
                       /\ sessions'[s].revoked_at < cleaner.cutoff
                     <=> sessions[s].state = "revoked"
                           /\ sessions[s].revoked_at < cleaner.cutoff
      <4>1. cleaner.cutoff <= clock /\ cleaner.cutoff \in Int
        BY <1>t, <2>1 DEF CleanerInv, Cleaner
      <4>2. CASE sessions'[s] = sessions[s]
        BY <4>2 DEF Exists
      <4>3. CASE RowInserted(s)
        <5>1. sessions'[s].expires_at \in Nat
          BY <1>t, LineageNext DEF LineageInv, TypeOK, Session
        <5>2. ~(sessions'[s].expires_at < cleaner.cutoff)
          BY <1>t, <4>1, <4>3, <5>1 DEF RowInserted
        <5> QED
          BY <4>3, <5>2 DEF RowInserted, Exists
      <4>4. CASE RowRevoked(s)
        <5>1. ~(sessions'[s].revoked_at < cleaner.cutoff)
          BY <1>t, <4>1, <4>4 DEF RowRevoked
        <5> QED
          BY <4>4, <5>1 DEF RowRevoked, Exists
      <4> QED
        BY <1>4, <4>2, <4>3, <4>4 DEF RowStep, RowDeleted
    <3>2. Collectable(cleaner.cutoff)' = Collectable(cleaner.cutoff)
      BY <1>4, <3>1 DEF Collectable, Exists
    <3>3. cleaner.cutoff <= clock'
      BY <1>t, <1>c, <2>1 DEF CleanerInv, Cleaner
    <3> QED
      BY <1>4, <2>1, <3>2, <3>3 DEF CleanerInv
  <2>2. CASE cleaner.pc # "delete"
    BY <1>4, <2>2 DEF CleanerInv
  <2> QED
    BY <2>1, <2>2
<1>5. CleanSelect \/ CleanDelete \/ CleanAudit \/ CleanFail \/ cleaner' = cleaner
  BY DEF Next, Arrive, LoginArrive, UpdateArrive, RefreshArrive, LogoutArrive,
         AuthArrive, Abort, Clean, Handle, FindByEmail, CreateSession, Respond,
         FindActive, FindUser, RevokeOld, FindAny, Purge, LogoutFind,
         LogoutRevoke, AuthUser, TouchSession, ReadOnly, RevokeOthers,
         RevokeTarget, RevokeSession, WriteUser, RevokeAll, Tick, vars
<1> QED
  BY <1>1, <1>2, <1>3, <1>4, <1>5

(* Every step keeps what handlers have seen.                               *)
LEMMA SeenNext ==
  ASSUME LineageInv, SeenInv, [Next]_vars, \A s \in SessionId : RowStep(s)
  PROVE  SeenInv'
<1>1. ASSUME NEW r \in Request, Arrive(r) PROVE SeenInv'
  BY <1>1, ArriveSeen
<1>2. ASSUME NEW r \in Request, Handle(r) \/ Abort(r) PROVE SeenInv'
  BY <1>2, ReadSeen, WriteSeen, WriteUserSeen DEF Handle
<1>3. CASE Tick \/ Clean \/ UNCHANGED vars
  <2>1. pc' = pc /\ req' = req /\ active' = active
    BY <1>3 DEF Tick, Clean, CleanSelect, CleanDelete, CleanAudit, CleanFail, vars
  <2>2. clock' \in Nat /\ clock <= clock'
    BY <1>3 DEF Tick, Clean, CleanSelect, CleanDelete, CleanAudit, CleanFail,
                vars, LineageInv, TypeOK
  <2> QED
    BY <2>1, <2>2, OthersStaySeen DEF SeenInv
<1> QED
  BY <1>1, <1>2, <1>3 DEF Next

-----------------------------------------------------------------------------
(* The inductive invariant of all the safety properties, and a step of it. *)
LEMMA SafetyInit == Init => SafetyInv
<1>1. Init => SeenInv /\ CleanerInv
  BY DEF Init, SeenInv, Seen, SeenTables, SeenAt, NoRequest, CleanerInv
<1> QED
  BY <1>1, LineageInit, OwnerInit DEF SafetyInv

LEMMA SafetyNext ==
  SafetyInv /\ [Next]_vars => SafetyInv' /\ \A s \in SessionId : RowStep(s)
<1> SUFFICES ASSUME SafetyInv, [Next]_vars
             PROVE  SafetyInv' /\ \A s \in SessionId : RowStep(s)
  OBVIOUS
<1>1. \A s \in SessionId : RowStep(s)
  BY RowsStep DEF SafetyInv
<1>2. LineageInv' /\ OwnerInv'
  BY LineageNext, LifecycleStep DEF SafetyInv
<1>3. SeenInv' /\ CleanerInv'
  BY <1>1, SeenNext, CleanerNext DEF SafetyInv
<1> QED
  BY <1>1, <1>2, <1>3 DEF SafetyInv

LEMMA SafetyAlways == Spec => []SafetyInv
  BY SafetyInit, SafetyNext, PTL DEF Spec

(* Nobody is served on a session revoked or expired when the request       *)
(* arrived, or for an account inactive the whole time.                     *)
THEOREM OnlyValidServed == Spec => []ServedOnlyIfValid
<1>1. SafetyInv => ServedOnlyIfValid
  BY DEF SafetyInv, SeenInv, Seen, SeenAt, ServedOnlyIfValid
<1> QED
  BY <1>1, SafetyAlways, PTL

(* The cleanup audits exactly the rows its DELETE removed.                 *)
THEOREM AuditMatchesDelete == Spec => []CleanupAuditsWhatItDeletes
<1>1. SafetyInv => CleanupAuditsWhatItDeletes
  BY DEF SafetyInv, CleanerInv, CleanupAuditsWhatItDeletes
<1> QED
  BY <1>1, SafetyAlways, PTL

(* A row is revoked once: it is never un-revoked, and no later revocation  *)
(* moves the time from which its retention counts.                         *)
THEOREM RevokedOnce == Spec => RevokedAtStampedOnce
<1>1. SafetyInv /\ [Next]_vars =>
        [\A s \in SessionId :
           sessions[s].state = "revoked" =>
             /\ sessions'[s].state \in {"revoked", "deleted"}
             /\ sessions'[s].revoked_at = sessions[s].revoked_at]_vars
  BY SafetyNext DEF RowStep, RowInserted, RowRevoked, RowDeleted
<1> QED
  BY <1>1, SafetyAlways, PTL DEF Spec, RevokedAtStampedOnce

(* Only a handler acting for the owner of a session revokes it, and no     *)
(* request that manages sessions revokes the one it came on.               *)
THEOREM RevokedByOwner == Spec => OnlyOwnerRevokes
<1>1. SafetyInv /\ [Next]_vars =>
        [\A s \in SessionId :
           sessions[s].state = "live" /\ sessions'[s].state = "revoked" =>
             \E r \in Request :
               /\ pc[r] # "idle" /\ pc'[r] # pc[r]
               /\ req[r].user = sessions[s].user_id
               /\ req[r].op = "protected" => s # req[r].sid]_vars
  BY SafetyNext DEF RowStep, RowInserted, RowRevoked, RowDeleted, RevokedBy
<1> QED
  BY <1>1, SafetyAlways, PTL DEF Spec, OnlyOwnerRevokes

=============================================================================
