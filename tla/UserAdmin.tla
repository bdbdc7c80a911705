----------------------------- MODULE UserAdmin -----------------------------
(***************************************************************************)
(* The users table: UserService.Create and Update, and the rehash of a     *)
(* legacy password at login.  Update reads the row, checks, and writes the *)
(* whole row back; nothing locks it in between.                            *)
(*                                                                         *)
(* Each SQL statement is one atomic step.  The columns name and role_id    *)
(* behave like email without its checks, and are left out.  Whether the    *)
(* actor holds the permission for what it asks is Authorization's subject, *)
(* and Sessions continues a login and the revocation of the sessions of a  *)
(* deactivated user; none of that touches users.                           *)
(***************************************************************************)
EXTENDS Integers, FiniteSets

CONSTANTS
  User,            \* ids the users table hands out: bounds the model
  Email, Password,
  Request,         \* handlers in flight at once: bounds the model
  None,
  Inputs,          \* the bodies of PATCH /users/:id: bounds the model
  InitialUsers,    \* the users table at the start
  InitialStar      \* who holds the permission * at the start

VARIABLES
  users,   \* the users table
  star,    \* user_permissions, for the permission *
  pc, req  \* the statement each handler is about to run, and its locals

vars == <<users, star, pc, req>>

(* No email means that the id is not used.  legacy: a bcrypt hash.         *)
Row == [email: Email \cup {None}, active: BOOLEAN,
        password: Password \cup {None}, legacy: BOOLEAN]

NoRow == [email |-> None, active |-> FALSE, password |-> None, legacy |-> FALSE]

(* UpdateUserInput: a nil pointer is None, or "keep".                      *)
Input == [email: Email \cup {None}, active: {"keep", "on", "off"},
          password: Password \cup {None}]

NoInput == [email |-> None, active |-> "keep", password |-> None]

ASSUME UserAdminAssumption ==
  /\ IsFiniteSet(User)
  /\ None \notin User \cup Email \cup Password
  /\ Inputs \subseteq Input
  /\ InitialUsers \in [User -> Row]
  /\ \A u, v \in User :
       InitialUsers[u].email = InitialUsers[v].email /\ u # v
         => InitialUsers[u].email = None
  /\ InitialStar \in SUBSET User

(* row is what FindByID returned.  disturbed is history: has anybody else  *)
(* written users or granted or revoked * since then?                       *)
Local == [target: User \cup {None}, input: Input, row: Row, disturbed: BOOLEAN]

NoRequest == [target |-> None, input |-> NoInput, row |-> NoRow,
              disturbed |-> FALSE]

Pc == {"idle", "find", "hasStar", "count", "findEmail", "write", "insert", "rehash"}

TypeOK ==
  /\ users \in [User -> Row]
  /\ star \in SUBSET User
  /\ pc \in [Request -> Pc]
  /\ req \in [Request -> Local]

Init ==
  /\ users = InitialUsers
  /\ star = InitialStar
  /\ pc = [r \in Request |-> "idle"]
  /\ req = [r \in Request |-> NoRequest]

-----------------------------------------------------------------------------
Exists(u) == users[u].email # None

(* CountActiveUsersWithCode(ctx, "*").                                     *)
Admins == {u \in star : users[u].active}

(* The UNIQUE constraint on users.email: may row u hold it?                *)
EmailFree(u, email) == \A v \in User \ {u} : users[v].email # email

Goto(r, label) == pc' = [pc EXCEPT ![r] = label] /\ UNCHANGED req

Finish(r) ==
  /\ pc' = [pc EXCEPT ![r] = "idle"]
  /\ req' = [req EXCEPT ![r] = NoRequest]

(* The locals of q when somebody else writes to a table.                   *)
Disturbed(q) ==
  IF pc[q] = "idle" THEN req[q] ELSE [req[q] EXCEPT !.disturbed = TRUE]

(* Handler r ends with a write.                                            *)
FinishWriting(r) ==
  /\ pc' = [pc EXCEPT ![r] = "idle"]
  /\ req' = [q \in Request |-> IF q = r THEN NoRequest ELSE Disturbed(q)]

Start(r, label, target, input, row) ==
  /\ pc[r] = "idle"
  /\ pc' = [pc EXCEPT ![r] = label]
  /\ req' = [req EXCEPT ![r] = [target |-> target, input |-> input, row |-> row,
                                disturbed |-> FALSE]]

-----------------------------------------------------------------------------
(* PATCH /users/:id.                                                       *)

(* The statement after the checks on the administrators.                   *)
AfterAdminCheck(input, row) ==
  IF input.email \notin {None, row.email} THEN "findEmail" ELSE "write"

(* The middleware saw an active actor.  ErrCannotDeactivateSelf.           *)
Update(r, actor, target, input) ==
  /\ users[actor].active /\ Exists(target)
  /\ input.active = "off" => actor # target
  /\ Start(r, "find", target, input, NoRow)
  /\ UNCHANGED <<users, star>>

FindByID(r) ==
  /\ pc[r] = "find"
  /\ LET input == req[r].input
         row   == users[req[r].target]
     IN /\ pc' = [pc EXCEPT ![r] = IF input.active = "off" /\ row.active
                                    THEN "hasStar"
                                    ELSE AfterAdminCheck(input, row)]
        /\ req' = [req EXCEPT ![r].row = row, ![r].disturbed = FALSE]
  /\ UNCHANGED <<users, star>>

UserHasPermissionCode(r) ==
  /\ pc[r] = "hasStar"
  /\ Goto(r, IF req[r].target \in star
               THEN "count"
               ELSE AfterAdminCheck(req[r].input, req[r].row))
  /\ UNCHANGED <<users, star>>

(* Mutant: the administrator to be deactivated is not counted in.          *)
CountAdminsOffByOne(r) ==
  /\ pc[r] = "count"
  /\ IF Cardinality(Admins) < 1
       THEN Finish(r)
       ELSE Goto(r, AfterAdminCheck(req[r].input, req[r].row))
  /\ UNCHANGED <<users, star>>

(* ErrLastAdmin.                                                           *)
CountAdmins(r) ==
  /\ pc[r] = "count"
  /\ IF Cardinality(Admins) <= 1
       THEN Finish(r)
       ELSE Goto(r, AfterAdminCheck(req[r].input, req[r].row))
  /\ UNCHANGED <<users, star>>

FindByEmail(r) ==
  /\ pc[r] = "findEmail"
  /\ IF EmailFree(req[r].target, req[r].input.email)
       THEN Goto(r, "write")
       ELSE Finish(r)
  /\ UNCHANGED <<users, star>>

(* Mutant: a missing active is taken for false.                            *)
ChangedByZeroValue(row, input) ==
  [email    |-> IF input.email = None THEN row.email ELSE input.email,
   active   |-> input.active = "on",
   password |-> IF input.password = None THEN row.password ELSE input.password,
   legacy   |-> row.legacy /\ input.password = None]

(* The row as Update changes it before it is written back.                 *)
Changed(row, input) ==
  [email    |-> IF input.email = None THEN row.email ELSE input.email,
   active   |-> IF input.active = "keep" THEN row.active ELSE input.active = "on",
   password |-> IF input.password = None THEN row.password ELSE input.password,
   legacy   |-> row.legacy /\ input.password = None]

(* UserRepository.Update, and the end of the request.                      *)
Write(r) ==
  /\ pc[r] = "write"
  /\ LET row == Changed(req[r].row, req[r].input) IN
       IF EmailFree(req[r].target, row.email)
         THEN /\ users' = [users EXCEPT ![req[r].target] = row]
              /\ FinishWriting(r)
         ELSE UNCHANGED users /\ Finish(r)
  /\ UNCHANGED star

-----------------------------------------------------------------------------
(* POST /users.                                                            *)

(* Mutant: email and password, both strings, change places.                *)
CreateFindSwapped(r, email, password) ==
  /\ \A u \in User : users[u].email # email
  /\ Start(r, "insert", None,
           [email |-> password, active |-> "on", password |-> email], NoRow)
  /\ UNCHANGED <<users, star>>

CreateFind(r, email, password) ==
  /\ \A u \in User : users[u].email # email
  /\ Start(r, "insert", None,
           [email |-> email, active |-> "on", password |-> password], NoRow)
  /\ UNCHANGED <<users, star>>

(* Mutant: no UNIQUE constraint on users.email.                            *)
CreateInsertAnyway(r, u) ==
  /\ pc[r] = "insert"
  /\ ~Exists(u)
  /\ users' = [users EXCEPT ![u] = Changed(NoRow, req[r].input)]
  /\ FinishWriting(r)
  /\ UNCHANGED star

CreateInsert(r, u) ==
  /\ pc[r] = "insert"
  /\ ~Exists(u)
  /\ IF EmailFree(u, req[r].input.email)
       THEN /\ users' = [users EXCEPT ![u] = Changed(NoRow, req[r].input)]
            /\ FinishWriting(r)
       ELSE UNCHANGED users /\ Finish(r)
  /\ UNCHANGED star

-----------------------------------------------------------------------------
(* password.Verify: a bcrypt hash that matches is to be replaced.          *)
NeedsRehash(row, plain) == row.password = plain /\ row.legacy

(* A login that verified a legacy hash writes a new one; others write      *)
(* nothing here.                                                           *)
Login(r, u, password) ==
  /\ Exists(u) /\ users[u].active
  /\ NeedsRehash(users[u], password)
  /\ Start(r, "rehash", u, [NoInput EXCEPT !.password = password], users[u])
  /\ UNCHANGED <<users, star>>

UpdatePasswordHash(r) ==
  /\ pc[r] = "rehash"
  /\ users' = [users EXCEPT ![req[r].target].password = req[r].input.password,
                            ![req[r].target].legacy = FALSE]
  /\ FinishWriting(r)
  /\ UNCHANGED star

(* An error, a panic or a restart before the next statement.               *)
Abort(r) ==
  /\ pc[r] # "idle"
  /\ Finish(r)
  /\ UNCHANGED <<users, star>>

-----------------------------------------------------------------------------
(* The INSERT and the DELETE of PermissionService.Grant and Revoke for the *)
(* permission *, long after its checks, which Authorization models; neither *)
(* looks at how many administrators are left.                              *)
SetStar(S) ==
  /\ star' = S
  /\ req' = [q \in Request |-> Disturbed(q)]
  /\ UNCHANGED <<users, pc>>

GrantStar(u) == Exists(u) /\ u \notin star /\ SetStar(star \cup {u})

RevokeStar(u) == u \in star /\ SetStar(star \ {u})

-----------------------------------------------------------------------------
Next ==
  \/ \E r \in Request :
       \/ \E actor, target \in User, input \in Inputs :
            Update(r, actor, target, input)
       \/ FindByID(r) \/ UserHasPermissionCode(r) \/ CountAdmins(r) \/ FindByEmail(r) \/ Write(r)
       \/ \E email \in Email, password \in Password : CreateFind(r, email, password)
       \/ \E u \in User : CreateInsert(r, u)
       \/ \E u \in User, password \in Password : Login(r, u, password)
       \/ UpdatePasswordHash(r)
       \/ Abort(r)
  \/ \E u \in User : GrantStar(u) \/ RevokeStar(u)

Spec == Init /\ [][Next]_vars

-----------------------------------------------------------------------------
(* Properties.                                                             *)

(* No two accounts ever have one email, although Create and Update look    *)
(* first and write later.                                                  *)
EmailsUnique ==
  \A u, v \in User : Exists(u) /\ users[u].email = users[v].email => u = v

(* Handler r ends with a write to row u in this step.                      *)
Writes(r, u) ==
  pc[r] \in {"write", "rehash"} /\ pc'[r] = "idle" /\ req[r].target = u

(* A column of an account changes only because a request asks for it,      *)
(* unless something else was written while the request ran: the write-back *)
(* of the whole row loses updates, but only those of requests that overlap.*)
OnlyAskedChanges ==
  [][\A u \in User : Exists(u) /\ users'[u] # users[u] =>
       \E r \in Request :
         /\ Writes(r, u)
         /\ \/ req[r].disturbed
            \/ /\ users'[u].email # users[u].email => req[r].input.email # None
               /\ users'[u].active # users[u].active => req[r].input.active # "keep"
               /\ users'[u].password # users[u].password
                    => req[r].input.password # None]_vars

(* The last active holder of * is not deactivated by a request during      *)
(* which nothing else was written: the count is taken before the write and *)
(* covers every path through Update.                                       *)
LoneUpdateKeepsAdmin ==
  [][Admins # {} /\ Admins' = {} /\ star' = star =>
       \E r \in Request, u \in User : Writes(r, u) /\ req[r].disturbed]_vars

(* The users handler answers "cannot deactivate the last admin": no update *)
(* would leave the system without an active holder of *.                   *)
UpdateKeepsAdmin ==
  [][Admins # {} /\ star' = star => Admins' # {}]_vars

=============================================================================
