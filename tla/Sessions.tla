------------------------------ MODULE Sessions ------------------------------
(***************************************************************************)
(* The session lifecycle of the authentication service: login, refresh     *)
(* with rotation and reuse detection, logout, the Auth middleware, session *)
(* revocation by its owner, account (de)activation and the hourly cleanup, *)
(* all running concurrently against the PostgreSQL tables.                 *)
(*                                                                         *)
(* Each SQL statement is one atomic step; nothing in the code wraps two    *)
(* statements in a transaction.  A refresh token is 32 random bytes stored *)
(* by its SHA-256, one per row, so a token is identified with its row.     *)
(***************************************************************************)
EXTENDS Integers, FiniteSets

CONSTANTS
  User,
  SessionId,    \* rows the sessions table can hold: bounds the model
  Request,      \* handlers in flight at once: bounds the model
  None,         \* no user, no session
  AccessTTL, RefreshTTL, Retention,
  MaxClock,     \* bounds the clock
  Failures,     \* may statements fail and handlers die half-way?
  Cleaning      \* is the cleanup goroutine running?

ASSUME NoneAssumption == None \notin User \cup SessionId
ASSUME TTLAssumption ==
  /\ AccessTTL \in Nat /\ RefreshTTL \in Nat /\ Retention \in Nat
  /\ AccessTTL <= RefreshTTL
ASSUME BoundAssumption == 
  MaxClock \in Nat /\ Failures \in BOOLEAN /\ Cleaning \in BOOLEAN

VARIABLES
  clock,
  active,     \* users.active
  sessions,   \* the sessions table, with the JWT minted for each row
  issued,     \* sessions whose token pair reached a client
  pc, req,    \* the statement each handler is about to run, and its locals
  cleaner,    \* the goroutine of runSessionCleanup
  ended       \* history: lineages ended while none of their refreshes ran

vars == <<clock, active, sessions, issued, pc, req, cleaner, ended>>

-----------------------------------------------------------------------------
(* Types.  A lineage is a login and the sessions its refreshes derive; it  *)
(* is named by the session the login created, kept in the field root.      *)

Session == [state: {"none", "live", "revoked", "deleted"},
            user_id: User \cup {None},
            expires_at: Nat, revoked_at: Nat, jwt_exp: Nat,
            root: SessionId \cup {None}]

NoSession == [state |-> "none", user_id |-> None, expires_at |-> 0,
              revoked_at |-> 0, jwt_exp |-> 0, root |-> None]

(* "protected" is any route behind the Auth middleware.                    *)
Op == {"login", "refresh", "logout", "protected", "update"}

(* sawLive and sawActive are history: was the presented session usable,    *)
(* and the account active, at some moment since the request arrived?       *)
(* wasActive is the value UserService.Update read.                         *)
Local == [op: Op \cup {"none"}, user: User \cup {None},
          sid: SessionId \cup {None}, target: SessionId \cup {None},
          sawLive: BOOLEAN, sawActive: BOOLEAN, wasActive: BOOLEAN]

NoRequest == [op |-> "none", user |-> None, sid |-> None, target |-> None,
              sawLive |-> FALSE, sawActive |-> FALSE, wasActive |-> FALSE]

(* Past these statements a refresh no longer looks at its own session.     *)
RefreshWindow == {"findUser", "revokeOld", "createSession"}

Pc == {"idle", "findByEmail", "findActive", "findAny", "purge", "respond",
       "logoutFind", "logoutRevoke", "authUser", "touch", "handler",
       "revokeTarget", "writeUser", "revokeAll"} \cup RefreshWindow

Cleaner == [pc: {"idle", "delete", "audit"}, cutoff: Int,
            found: SUBSET SessionId, deleted: SUBSET SessionId]

TypeOK ==
  /\ clock \in Nat
  /\ active \in [User -> BOOLEAN]
  /\ sessions \in [SessionId -> Session]
  /\ issued \in SUBSET SessionId
  /\ pc \in [Request -> Pc]
  /\ req \in [Request -> Local]
  /\ cleaner \in Cleaner
  /\ ended \in SUBSET SessionId

Init ==
  /\ clock = 0
  /\ active = [u \in User |-> TRUE]
  /\ sessions = [s \in SessionId |-> NoSession]
  /\ issued = {}
  /\ pc = [r \in Request |-> "idle"]
  /\ req = [r \in Request |-> NoRequest]
  /\ cleaner = [pc |-> "idle", cutoff |-> 0, found |-> {}, deleted |-> {}]
  /\ ended = {}

-----------------------------------------------------------------------------
(* What the SELECTs of the session repository return.                      *)

Exists(s) == sessions[s].state \in {"live", "revoked"}

(* Mutant: a SELECT that forgets revoked = false.                          *)
UsableThoughRevoked(s) == Exists(s) /\ sessions[s].expires_at > clock

(* FindActiveByTokenHash: neither revoked nor expired.                     *)
Usable(s) == sessions[s].state = "live" /\ sessions[s].expires_at > clock

Rows(u) == {s \in SessionId : Exists(s) /\ sessions[s].user_id = u}

Roots(S) == {sessions[s].root : s \in S}

(* Lineages a refresh is about to extend without looking at them again.    *)
InFlight ==
  {sessions[req[r].sid].root :
     r \in {q \in Request : pc[q] \in RefreshWindow /\ req[q].op = "refresh"}}

(* Mutant: an UPDATE that forgets revoked = false.                         *)
RevokeAgain(S) ==
  sessions' = [s \in SessionId |->
                 IF s \in S
                 THEN [sessions[s] EXCEPT !.state = "revoked",
                                          !.revoked_at = clock]
                 ELSE sessions[s]]

(* The UPDATE ... SET revoked, revoked_at ... WHERE revoked = false of     *)
(* RevokeWithTimestamp, RevokeAllByUser and RevokeAllByUserExceptCurrent:  *)
(* rows already revoked keep their timestamp.                              *)
Revoke(S) ==
  sessions' = [s \in SessionId |->
                 IF s \in S /\ sessions[s].state = "live"
                 THEN [sessions[s] EXCEPT !.state = "revoked",
                                          !.revoked_at = clock]
                 ELSE sessions[s]]

(* History: revoking S ends the lineages in S that have no other live      *)
(* session, unless a refresh already under way will extend them.           *)
RecordEnd(S) ==
  ended' = ended \cup
             (Roots(S) \ (InFlight \cup
                Roots({s \in SessionId \ S : sessions[s].state = "live"})))

-----------------------------------------------------------------------------
(* Control of a handler.                                                   *)

Goto(r, label) == pc' = [pc EXCEPT ![r] = label] /\ UNCHANGED req

Finish(r) ==
  /\ pc' = [pc EXCEPT ![r] = "idle"]
  /\ req' = [req EXCEPT ![r] = NoRequest]

Start(r, label, local) ==
  /\ pc[r] = "idle"
  /\ pc' = [pc EXCEPT ![r] = label]
  /\ req' = [req EXCEPT ![r] = local]

(* Bound: a handler that may insert a row starts only if one is left.      *)
RoomForSession ==
  Cardinality({s \in SessionId : sessions[s].state = "none"}) >
  Cardinality({r \in Request : req[r].op \in {"login", "refresh"}})

Tick ==
  /\ clock < MaxClock
  /\ clock' = clock + 1
  /\ UNCHANGED <<active, sessions, issued, pc, req, cleaner, ended>>

(* A database error, a wrong request, a panic or a restart of the process  *)
(* stops a handler before its next statement; what it wrote stays.         *)
Abort(r) ==
  /\ Failures
  /\ pc[r] # "idle"
  /\ Finish(r)
  /\ UNCHANGED <<clock, active, sessions, issued, cleaner, ended>>

-----------------------------------------------------------------------------
(* POST /auth/login.                                                       *)

LoginArrive(r, u) ==
  /\ RoomForSession
  /\ Start(r, "findByEmail",
           [NoRequest EXCEPT !.op = "login", !.user = u,
                             !.sawLive = TRUE, !.sawActive = active[u]])
  /\ UNCHANGED <<clock, active, sessions, issued, cleaner, ended>>

(* An inactive account and a wrong password are both refused here.         *)
FindByEmail(r, passwordOK) ==
  /\ pc[r] = "findByEmail"
  /\ IF active[req[r].user] /\ passwordOK
       THEN Goto(r, "createSession")
       ELSE Finish(r)
  /\ UNCHANGED <<clock, active, sessions, issued, cleaner, ended>>

(* Mutant: the id the INSERT returns is not kept for the response.         *)
CreateSessionWithoutId(r, s) ==
  /\ pc[r] = "createSession"
  /\ sessions[s].state = "none"
  /\ sessions' = [sessions EXCEPT ![s] =
       [NoSession EXCEPT !.state = "live", !.user_id = req[r].user, !.root = s]]
  /\ Goto(r, "respond")
  /\ UNCHANGED <<clock, active, issued, cleaner, ended>>

(* Mutant: a refresh updates the row it presented instead of inserting.    *)
RotateInPlace(r, s) ==
  /\ pc[r] = "createSession"
  /\ IF req[r].op = "refresh" THEN s = req[r].sid ELSE sessions[s].state = "none"
  /\ sessions' = [sessions EXCEPT ![s] =
       [state |-> "live", user_id |-> req[r].user,
        expires_at |-> clock + RefreshTTL, revoked_at |-> 0,
        jwt_exp |-> clock + AccessTTL,
        root |-> IF req[r].op = "refresh" THEN sessions[s].root ELSE s]]
  /\ pc' = [pc EXCEPT ![r] = "respond"]
  /\ req' = [req EXCEPT ![r].target = s]
  /\ UNCHANGED <<clock, active, issued, cleaner, ended>>

(* The INSERT of a row for a new token, with the JWT that names the row.   *)
CreateSession(r, s) ==
  /\ pc[r] = "createSession"
  /\ sessions[s].state = "none"
  /\ sessions' = [sessions EXCEPT ![s] =
       [state |-> "live", user_id |-> req[r].user,
        expires_at |-> clock + RefreshTTL, revoked_at |-> 0,
        jwt_exp |-> clock + AccessTTL,
        root |-> IF req[r].op = "refresh" THEN sessions[req[r].sid].root
                                          ELSE s]]
  /\ pc' = [pc EXCEPT ![r] = "respond"]
  /\ req' = [req EXCEPT ![r].target = s]
  /\ UNCHANGED <<clock, active, issued, cleaner, ended>>

(* The cookie and the access token reach the client.                       *)
Respond(r) ==
  /\ pc[r] = "respond"
  /\ issued' = issued \cup {req[r].target}
  /\ Finish(r)
  /\ UNCHANGED <<clock, active, sessions, cleaner, ended>>

-----------------------------------------------------------------------------
(* POST /auth/refresh.  Any token ever handed out may be presented again.  *)

RefreshArrive(r, s) ==
  /\ s \in issued
  /\ RoomForSession
  /\ Start(r, "findActive",
           [NoRequest EXCEPT !.op = "refresh", !.sid = s,
                             !.user = sessions[s].user_id,
                             !.sawLive = Usable(s),
                             !.sawActive = active[sessions[s].user_id]])
  /\ UNCHANGED <<clock, active, sessions, issued, cleaner, ended>>

FindActive(r) ==
  /\ pc[r] = "findActive"
  /\ Goto(r, IF Usable(req[r].sid) THEN "findUser" ELSE "findAny")
  /\ UNCHANGED <<clock, active, sessions, issued, cleaner, ended>>

FindUser(r) ==
  /\ pc[r] = "findUser"
  /\ IF active[req[r].user] THEN Goto(r, "revokeOld") ELSE Finish(r)
  /\ UNCHANGED <<clock, active, sessions, issued, cleaner, ended>>

(* The number of rows RevokeWithTimestamp changed is not looked at.        *)
RevokeOld(r) ==
  /\ pc[r] = "revokeOld"
  /\ Revoke({req[r].sid})
  /\ Goto(r, "createSession")
  /\ UNCHANGED <<clock, active, issued, cleaner, ended>>

(* handleRefreshMiss: a token whose row still exists is taken for reuse.   *)
FindAny(r) ==
  /\ pc[r] = "findAny"
  /\ LET s == sessions[req[r].sid] IN
       IF s.state = "revoked" \/ (s.state = "live" /\ s.expires_at < clock)
       THEN Goto(r, "purge")
       ELSE Finish(r)
  /\ UNCHANGED <<clock, active, sessions, issued, cleaner, ended>>

Purge(r) ==
  /\ pc[r] = "purge"
  /\ Revoke(Rows(req[r].user))
  /\ RecordEnd(Rows(req[r].user))
  /\ Finish(r)
  /\ UNCHANGED <<clock, active, issued, cleaner>>

-----------------------------------------------------------------------------
(* POST /auth/logout.                                                      *)

LogoutArrive(r, s) ==
  /\ s \in issued
  /\ Start(r, "logoutFind", [NoRequest EXCEPT !.op = "logout", !.sid = s,
                                              !.user = sessions[s].user_id])
  /\ UNCHANGED <<clock, active, sessions, issued, cleaner, ended>>

LogoutFind(r) ==
  /\ pc[r] = "logoutFind"
  /\ IF Usable(req[r].sid) THEN Goto(r, "logoutRevoke") ELSE Finish(r)
  /\ UNCHANGED <<clock, active, sessions, issued, cleaner, ended>>

LogoutRevoke(r) ==
  /\ pc[r] = "logoutRevoke"
  /\ Revoke({req[r].sid})
  /\ RecordEnd({req[r].sid})
  /\ Finish(r)
  /\ UNCHANGED <<clock, active, issued, cleaner>>

-----------------------------------------------------------------------------
(* The Auth middleware in front of the protected routes, and the routes    *)
(* that manage sessions.  The middleware does not look at the route, so    *)
(* the route is chosen when the handler runs.                              *)

AuthArrive(r, s) ==
  /\ s \in issued
  /\ clock < sessions[s].jwt_exp
  /\ Start(r, "authUser",
           [NoRequest EXCEPT !.op = "protected", !.sid = s,
                             !.user = sessions[s].user_id,
                             !.sawLive = Usable(s),
                             !.sawActive = active[sessions[s].user_id]])
  /\ UNCHANGED <<clock, active, sessions, issued, cleaner, ended>>

AuthUser(r) ==
  /\ pc[r] = "authUser"
  /\ IF active[req[r].user] THEN Goto(r, "touch") ELSE Finish(r)
  /\ UNCHANGED <<clock, active, sessions, issued, cleaner, ended>>

(* Mutant: the number of rows TouchActivity changed is not looked at.      *)
TouchSessionBlindly(r) ==
  /\ pc[r] = "touch"
  /\ Goto(r, "handler")
  /\ UNCHANGED <<clock, active, sessions, issued, cleaner, ended>>

(* TouchActivity reports whether the row is there and not revoked.         *)
TouchSession(r) ==
  /\ pc[r] = "touch"
  /\ IF sessions[req[r].sid].state = "live"
       THEN Goto(r, "handler")
       ELSE Finish(r)
  /\ UNCHANGED <<clock, active, sessions, issued, cleaner, ended>>

(* The routes that only read, among them GET /auth/sessions.               *)
ReadOnly(r) ==
  /\ pc[r] = "handler"
  /\ Finish(r)
  /\ UNCHANGED <<clock, active, sessions, issued, cleaner, ended>>

RevokeOthers(r) ==
  /\ pc[r] = "handler"
  /\ LET S == Rows(req[r].user) \ {req[r].sid} IN Revoke(S) /\ RecordEnd(S)
  /\ Finish(r)
  /\ UNCHANGED <<clock, active, issued, cleaner>>

(* Mutant: the row's user_id is not compared with the caller.              *)
RevokeSessionOfAnyone(r, t) ==
  /\ pc[r] = "handler"
  /\ Exists(t) /\ t # req[r].sid
  /\ pc' = [pc EXCEPT ![r] = "revokeTarget"]
  /\ req' = [req EXCEPT ![r].target = t]
  /\ UNCHANGED <<clock, active, sessions, issued, cleaner, ended>>

(* The current session is refused, and so is a row of another user.        *)
RevokeSession(r, t) ==
  /\ pc[r] = "handler"
  /\ IF t \in Rows(req[r].user) \ {req[r].sid}
       THEN /\ pc' = [pc EXCEPT ![r] = "revokeTarget"]
            /\ req' = [req EXCEPT ![r].target = t]
       ELSE Finish(r)
  /\ UNCHANGED <<clock, active, sessions, issued, cleaner, ended>>

RevokeTarget(r) ==
  /\ pc[r] = "revokeTarget"
  /\ Revoke({req[r].target})
  /\ RecordEnd({req[r].target})
  /\ Finish(r)
  /\ UNCHANGED <<clock, active, issued, cleaner>>

-----------------------------------------------------------------------------
(* UserService.Update: the whole users row is read, changed and written    *)
(* back, so what it writes to active is what the request asks for, or what *)
(* it read.  Only a change it saw from active to inactive revokes.         *)

UpdateArrive(r, u) ==
  /\ Start(r, "writeUser", [NoRequest EXCEPT !.op = "update", !.user = u,
                                             !.wasActive = active[u]])
  /\ UNCHANGED <<clock, active, sessions, issued, cleaner, ended>>

WriteUser(r, value) ==
  /\ pc[r] = "writeUser"
  /\ active' = [active EXCEPT ![req[r].user] = value]
  /\ LET revokes == req[r].wasActive /\ ~value IN
       /\ pc' = [pc EXCEPT ![r] = IF revokes THEN "revokeAll" ELSE "idle"]
       /\ req' = [q \in Request |->
            IF q = r /\ ~revokes THEN NoRequest
            ELSE IF value /\ req[q].user = req[r].user
                 THEN [req[q] EXCEPT !.sawActive = TRUE]
                 ELSE req[q]]
  /\ UNCHANGED <<clock, sessions, issued, cleaner, ended>>

RevokeAll(r) ==
  /\ pc[r] = "revokeAll"
  /\ Revoke(Rows(req[r].user))
  /\ RecordEnd(Rows(req[r].user))
  /\ Finish(r)
  /\ UNCHANGED <<clock, active, issued, cleaner>>

-----------------------------------------------------------------------------
(* The cleanup goroutine: SELECT, DELETE with the same cutoff, audit.      *)

(* Mutant: only expired rows are collected, not revoked ones.              *)
CollectableExpired(cutoff) ==
  {s \in SessionId : Exists(s) /\ sessions[s].expires_at < cutoff}

(* The code counts from created_at where a revoked row has no revoked_at;  *)
(* that is so only of rows revoked before the column existed.              *)
Collectable(cutoff) ==
  {s \in SessionId :
     /\ Exists(s)
     /\ \/ sessions[s].expires_at < cutoff
        \/ sessions[s].state = "revoked" /\ sessions[s].revoked_at < cutoff}

CleanSelect ==
  /\ Cleaning
  /\ cleaner.pc = "idle"
  /\ cleaner' = [pc |-> "delete", cutoff |-> clock - Retention,
                 found |-> Collectable(clock - Retention), deleted |-> {}]
  /\ UNCHANGED <<clock, active, sessions, issued, pc, req, ended>>

(* Mutant: the DELETE computes its own cutoff.                             *)
CleanDeleteNow ==
  /\ cleaner.pc = "delete"
  /\ LET S == Collectable(clock - Retention) IN
       /\ sessions' = [s \in SessionId |->
            IF s \in S THEN [sessions[s] EXCEPT !.state = "deleted"]
                       ELSE sessions[s]]
       /\ cleaner' = [cleaner EXCEPT !.pc = "audit", !.deleted = S]
  /\ UNCHANGED <<clock, active, issued, pc, req, ended>>

CleanDelete ==
  /\ cleaner.pc = "delete"
  /\ LET S == Collectable(cleaner.cutoff) IN
       /\ sessions' = [s \in SessionId |->
            IF s \in S THEN [sessions[s] EXCEPT !.state = "deleted"]
                       ELSE sessions[s]]
       /\ cleaner' = [cleaner EXCEPT !.pc = "audit", !.deleted = S]
  /\ UNCHANGED <<clock, active, issued, pc, req, ended>>

CleanAudit ==
  /\ cleaner.pc = "audit"
  /\ cleaner' = [pc |-> "idle", cutoff |-> 0, found |-> {}, deleted |-> {}]
  /\ UNCHANGED <<clock, active, sessions, issued, pc, req, ended>>

(* A failed statement is logged, and the next round starts over; a process *)
(* that stops loses the round, also between the DELETE and the audit.      *)
CleanFail ==
  /\ Failures
  /\ cleaner.pc # "idle"
  /\ cleaner' = [pc |-> "idle", cutoff |-> 0, found |-> {}, deleted |-> {}]
  /\ UNCHANGED <<clock, active, sessions, issued, pc, req, ended>>

-----------------------------------------------------------------------------
Arrive(r) ==
  \/ \E u \in User : LoginArrive(r, u) \/ UpdateArrive(r, u)
  \/ \E s \in SessionId :
       \/ RefreshArrive(r, s)
       \/ LogoutArrive(r, s)
       \/ AuthArrive(r, s)

Handle(r) ==
  \/ \E ok \in BOOLEAN : FindByEmail(r, ok)
  \/ \E s \in SessionId : CreateSession(r, s)
  \/ Respond(r)
  \/ FindActive(r) \/ FindUser(r) \/ RevokeOld(r) \/ FindAny(r) \/ Purge(r)
  \/ LogoutFind(r) \/ LogoutRevoke(r)
  \/ AuthUser(r) \/ TouchSession(r)
  \/ ReadOnly(r) \/ RevokeOthers(r) \/ RevokeTarget(r)
  \/ \E t \in SessionId : RevokeSession(r, t)
  \/ \E value \in BOOLEAN : WriteUser(r, value)
  \/ RevokeAll(r)

Clean == CleanSelect \/ CleanDelete \/ CleanAudit \/ CleanFail

Next ==
  \/ Tick
  \/ \E r \in Request : Arrive(r) \/ Handle(r) \/ Abort(r)
  \/ Clean

Spec == Init /\ [][Next]_vars

(* The ticker fires every hour for as long as the process lives; a round   *)
(* may fail, but not every round for ever.                                 *)
FairSpec ==
  /\ Spec
  /\ WF_vars(Tick)
  /\ WF_vars(CleanSelect)
  /\ SF_vars(CleanDelete)
  /\ WF_vars(CleanAudit)

-----------------------------------------------------------------------------
(* The abstract specification, and the tables seen through it.             *)

IsRoot(l) == sessions[l].root = l

LineageState ==
  [l \in SessionId |-> IF l \in ended THEN "ended"
                       ELSE IF IsRoot(l) THEN "open" ELSE "new"]

LineageOwner ==
  [l \in SessionId |-> IF IsRoot(l) THEN sessions[l].user_id ELSE None]

LineageLive ==
  [l \in SessionId |->
     {s \in SessionId : sessions[s].state = "live" /\ sessions[s].root = l}]

Used == {s \in SessionId : sessions[s].state # "none"}

Lifecycle == INSTANCE SessionLifecycle WITH
  state <- LineageState, owner <- LineageOwner, live <- LineageLive, used <- Used

(* The handlers, however they interleave, are retried, replayed or die     *)
(* half-way, together do only what SessionLifecycle allows: a lineage is   *)
(* extended only while it has not ended, by sessions never seen before;    *)
(* its sessions are withdrawn only by its owner, it ends with none left    *)
(* and nothing re-opens it.                                                *)
ImplementsLifecycle == Lifecycle!Spec

-----------------------------------------------------------------------------
(* Properties.                                                             *)

(* A lineage that was ended (logout, revocation by its owner, a reuse      *)
(* purge, a deactivation) while none of its refreshes was in flight never  *)
(* has a live session again: FindActiveByTokenHash lets no token of it     *)
(* through, whatever is replayed and however handlers interleave.          *)
EndedLineageStaysDead ==
  \A s \in SessionId : sessions[s].state = "live" => sessions[s].root \notin ended

(* Nobody is served on a session that was already revoked or expired when  *)
(* the request arrived, or for an account inactive the whole time: this is *)
(* what the two checks of Refresh and the three of middleware.Auth (JWT    *)
(* expiry, users.active, TouchSession) add up to, although TouchActivity   *)
(* does not look at expires_at and no check is repeated later.             *)
ServedOnlyIfValid ==
  \A r \in Request :
    pc[r] \in {"handler", "revokeTarget", "revokeOld", "createSession", "respond"}
      => req[r].sawLive /\ req[r].sawActive

(* revoked_at, from which retention counts, is stamped once: no later      *)
(* revocation of the same rows moves it, and no row is un-revoked.         *)
RevokedAtStampedOnce ==
  [][\A s \in SessionId :
       sessions[s].state = "revoked" =>
         /\ sessions'[s].state \in {"revoked", "deleted"}
         /\ sessions'[s].revoked_at = sessions[s].revoked_at]_vars

(* A session is revoked only by a handler acting for its own user, and a   *)
(* user managing sessions never revokes the session the request came on.   *)
OnlyOwnerRevokes ==
  [][\A s \in SessionId :
       sessions[s].state = "live" /\ sessions'[s].state = "revoked" =>
         \E r \in Request :
           /\ pc[r] # "idle" /\ pc'[r] # pc[r]
           /\ req[r].user = sessions[s].user_id
           /\ req[r].op = "protected" => s # req[r].sid]_vars

(* cleanupSessions writes an audit record for exactly the rows its DELETE  *)
(* removed, although the rows were listed by an earlier SELECT: the shared *)
(* cutoff lies in the past, so no row joins or leaves the set in between.  *)
CleanupAuditsWhatItDeletes ==
  cleaner.pc = "audit" => cleaner.found = cleaner.deleted

(* A revoked row is deleted once its retention is over, even when rounds   *)
(* of the cleanup fail, provided the clock of the model lasts that long.   *)
DeadRowsCollected ==
  \A s \in SessionId :
    sessions[s].state = "revoked" /\ sessions[s].revoked_at + Retention < MaxClock
      ~> sessions[s].state = "deleted"

(* docs/backend.md says that a refresh kills the previous token at once:   *)
(* a lineage would have at most one live session.                          *)
OneLivePerLineage ==
  \A s, t \in {q \in SessionId : sessions[q].state = "live"} :
    sessions[s].root = sessions[t].root => s = t

=============================================================================
