-------------------------- MODULE UserAdminProofs --------------------------
(***************************************************************************)
(* Unique emails, no change nobody asked for and no lone removal of the    *)
(* last administrator, for any users, emails, passwords, request bodies    *)
(* and number of concurrent handlers.                                      *)
(***************************************************************************)
EXTENDS UserAdmin, FiniteSetTheorems, TLAPS

(* Once handler r has made its write, somebody is still an administrator.  *)
LeavesAdmin(r) ==
  \/ Changed(req[r].row, req[r].input).active
  \/ req[r].target \notin Admins
  \/ \E a \in Admins : a # req[r].target

(* What a handler knows of its locals: as long as nobody disturbed it, the *)
(* row it read is still the row of the table, and the check on the         *)
(* administrators still stands.                                            *)
LocalOK(r) ==
  /\ pc[r] \notin {"idle", "insert"} => req[r].target \in User
  /\ pc[r] = "insert" => req[r].input.active = "on"
  /\ pc[r] = "rehash" => req[r].input.password # None
  /\ pc[r] \in {"hasStar", "count", "findEmail", "write"} /\ ~req[r].disturbed
       => req[r].row = users[req[r].target]
  /\ pc[r] \in {"findEmail", "write"} /\ ~req[r].disturbed => LeavesAdmin(r)

LocalsOK == \A r \in Request : LocalOK(r)

-----------------------------------------------------------------------------
LEMMA ChangedType ==
  ASSUME NEW row \in Row, NEW input \in Input
  PROVE  Changed(row, input) \in Row
BY DEF Changed, Row, Input

LEMMA NoRequestType == NoRequest \in Local
BY DEF NoRequest, NoInput, NoRow, Local, Input, Row

(* Ending a handler, with or without a write, keeps the types of pc, req.  *)
LEMMA FinishTypes ==
  ASSUME TypeOK, NEW r \in Request, Finish(r) \/ FinishWriting(r)
  PROVE  pc' \in [Request -> Pc] /\ req' \in [Request -> Local]
<1>1. pc' \in [Request -> Pc]
  BY DEF TypeOK, Finish, FinishWriting, Pc
<1>2. \A q \in Request : Disturbed(q) \in Local
  BY DEF TypeOK, Disturbed, Local
<1>3. req' \in [Request -> Local]
  BY <1>2, NoRequestType DEF TypeOK, Finish, FinishWriting
<1> QED BY <1>1, <1>3

LEMMA TypeInit == Init => TypeOK
BY UserAdminAssumption, NoRequestType DEF Init, TypeOK, Pc

LEMMA TypeStep == TypeOK /\ LocalsOK /\ [Next]_vars => TypeOK'
<1> SUFFICES ASSUME TypeOK, LocalsOK, [Next]_vars PROVE TypeOK'
  OBVIOUS
<1>1. CASE UNCHANGED vars
  BY <1>1 DEF TypeOK, vars
<1>2. ASSUME NEW r \in Request, NEW actor \in User, NEW target \in User,
             NEW input \in Inputs, Update(r, actor, target, input)
      PROVE  TypeOK'
  <2>1. input \in Input /\ NoRow \in Row
    BY UserAdminAssumption DEF NoRow, Row
  <2> QED BY <1>2, <2>1 DEF TypeOK, Update, Start, Pc, Local
<1>3. ASSUME NEW r \in Request, FindByID(r) PROVE TypeOK'
  <2>1. users[req[r].target] \in Row
    BY <1>3 DEF TypeOK, LocalsOK, LocalOK, FindByID
  <2> QED BY <1>3, <2>1 DEF TypeOK, FindByID, AfterAdminCheck, Pc, Local
<1>4. ASSUME NEW r \in Request,
             UserHasPermissionCode(r) \/ CountAdmins(r) \/ FindByEmail(r)
      PROVE  TypeOK'
  <2>1. ASSUME NEW label \in Pc, Goto(r, label)
        PROVE  pc' \in [Request -> Pc] /\ req' \in [Request -> Local]
    BY <2>1 DEF TypeOK, Goto
  <2>2. AfterAdminCheck(req[r].input, req[r].row) \in Pc
    BY DEF AfterAdminCheck, Pc
  <2>3. pc' \in [Request -> Pc] /\ req' \in [Request -> Local]
    BY <1>4, <2>1, <2>2, FinishTypes
       DEF UserHasPermissionCode, CountAdmins, FindByEmail, Pc
  <2> QED BY <1>4, <2>3 DEF TypeOK, UserHasPermissionCode, CountAdmins, FindByEmail
<1>5. ASSUME NEW r \in Request, Write(r) PROVE TypeOK'
  <2>1. Changed(req[r].row, req[r].input) \in Row
    BY ChangedType DEF TypeOK, Local
  <2> QED BY <1>5, <2>1, FinishTypes DEF TypeOK, Write
<1>6. ASSUME NEW r \in Request, NEW email \in Email, NEW password \in Password,
             CreateFind(r, email, password)
      PROVE  TypeOK'
  BY <1>6 DEF TypeOK, CreateFind, Start, Pc, Local, Input, NoRow, Row
<1>7. ASSUME NEW r \in Request, NEW u \in User, CreateInsert(r, u) PROVE TypeOK'
  <2>1. Changed(NoRow, req[r].input) \in Row
    BY ChangedType DEF TypeOK, Local, NoRow, Row
  <2> QED BY <1>7, <2>1, FinishTypes DEF TypeOK, CreateInsert
<1>8. ASSUME NEW r \in Request, NEW u \in User, NEW password \in Password,
             Login(r, u, password)
      PROVE  TypeOK'
  <2>1. [NoInput EXCEPT !.password = password] \in Input
    BY DEF NoInput, Input
  <2> QED BY <1>8, <2>1 DEF TypeOK, Login, Start, Pc, Local
<1>9. ASSUME NEW r \in Request, UpdatePasswordHash(r) PROVE TypeOK'
  <2>1. /\ req[r].target \in User
        /\ req[r].input.password \in Password
    BY <1>9 DEF TypeOK, LocalsOK, LocalOK, UpdatePasswordHash, Local, Input
  <2>2. users' = [users EXCEPT ![req[r].target] =
                    [users[req[r].target] EXCEPT !.password = req[r].input.password,
                                                 !.legacy = FALSE]]
    BY <1>9, <2>1 DEF TypeOK, UpdatePasswordHash
  <2>3. users' \in [User -> Row]
    BY <2>1, <2>2 DEF TypeOK, Row
  <2> QED BY <1>9, <2>3, FinishTypes DEF TypeOK, UpdatePasswordHash
<1>10. ASSUME NEW r \in Request, Abort(r) PROVE TypeOK'
  BY <1>10, FinishTypes DEF TypeOK, Abort
<1>11. ASSUME NEW u \in User, GrantStar(u) \/ RevokeStar(u) PROVE TypeOK'
  <2>1. \A q \in Request : Disturbed(q) \in Local
    BY DEF TypeOK, Disturbed, Local
  <2> QED BY <1>11, <2>1 DEF TypeOK, GrantStar, RevokeStar, SetStar
<1> QED
  BY <1>1, <1>2, <1>3, <1>4, <1>5, <1>6, <1>7, <1>8, <1>9, <1>10, <1>11 DEF Next

-----------------------------------------------------------------------------
(* A handler that does not move stays right when the tables stand still,   *)
(* and when it is told of the disturbance.                                 *)
LEMMA Bystander ==
  ASSUME NEW q \in Request, LocalOK(q), req[q] \in Local, pc'[q] = pc[q],
         \/ req'[q] = req[q] /\ (pc[q] = "idle" \/ UNCHANGED <<users, star>>)
         \/ req'[q] = [req[q] EXCEPT !.disturbed = TRUE]
  PROVE  LocalOK(q)'
<1>1. CASE req'[q] = req[q] /\ UNCHANGED <<users, star>>
  BY <1>1 DEF LocalOK, LeavesAdmin, Admins
<1>2. CASE pc[q] = "idle"
  BY <1>2 DEF LocalOK
<1>3. CASE req'[q] = [req[q] EXCEPT !.disturbed = TRUE]
  BY <1>3 DEF LocalOK, Local
<1> QED BY <1>1, <1>2, <1>3

(* The steps that end a handler, and its start.                            *)
LEMMA FinishLocals ==
  ASSUME TypeOK, LocalsOK, NEW r \in Request,
         FinishWriting(r) \/ (Finish(r) /\ UNCHANGED <<users, star>>)
  PROVE  LocalsOK'
<1> SUFFICES ASSUME NEW q \in Request PROVE LocalOK(q)'
  BY DEF LocalsOK
<1>1. CASE q = r
  BY <1>1 DEF TypeOK, Finish, FinishWriting, LocalOK
<1>2. CASE q # r
  BY <1>2, Bystander DEF TypeOK, LocalsOK, Finish, FinishWriting, Disturbed
<1> QED BY <1>1, <1>2

(* A step of r that leaves the tables alone concerns r only.               *)
LEMMA ReadLocals ==
  ASSUME TypeOK, LocalsOK, NEW r \in Request, UNCHANGED <<users, star>>,
         \A q \in Request \ {r} : pc'[q] = pc[q] /\ req'[q] = req[q],
         LocalOK(r)'
  PROVE  LocalsOK'
BY Bystander DEF TypeOK, LocalsOK

LEMMA StartLocals ==
  ASSUME TypeOK, LocalsOK, NEW r \in Request, UNCHANGED <<users, star>>,
         NEW label \in {"find", "insert", "rehash"}, NEW target, NEW input, NEW row,
         Start(r, label, target, input, row),
         label # "insert" => target \in User,
         label = "insert" => input.active = "on",
         label = "rehash" => input.password # None
  PROVE  LocalsOK'
<1>1. LocalOK(r)'
  BY DEF TypeOK, Start, LocalOK
<1> QED BY <1>1, ReadLocals DEF TypeOK, Start

(* Two administrators are one more than the target.                        *)
LEMMA AnotherAdmin ==
  ASSUME TypeOK, NEW u, Cardinality(Admins) > 1
  PROVE  \E a \in Admins : a # u
<1> SUFFICES ASSUME Admins \in SUBSET {u} PROVE FALSE
  OBVIOUS
<1>1. IsFiniteSet({u}) /\ Cardinality({u}) = 1
  BY FS_Singleton
<1>2. IsFiniteSet(Admins) /\ Cardinality(Admins) <= 1
  BY <1>1, FS_Subset
<1>3. Cardinality(Admins) \in Nat
  BY <1>2, FS_CardinalityType
<1> QED BY <1>2, <1>3

LEMMA LocalsInit == Init => LocalsOK
BY DEF Init, LocalsOK, LocalOK

LEMMA LocalsStep == TypeOK /\ LocalsOK /\ [Next]_vars => LocalsOK'
<1> SUFFICES ASSUME TypeOK, LocalsOK, [Next]_vars PROVE LocalsOK'
  OBVIOUS
<1>1. CASE UNCHANGED vars
  BY <1>1, Bystander DEF TypeOK, LocalsOK, vars
<1>2. ASSUME NEW r \in Request, NEW actor \in User, NEW target \in User,
             NEW input \in Inputs, Update(r, actor, target, input)
      PROVE  LocalsOK'
  BY <1>2, StartLocals DEF Update
<1>3. ASSUME NEW r \in Request, FindByID(r) PROVE LocalsOK'
  <2> DEFINE input == req[r].input
             row   == users[req[r].target]
  <2>1. /\ req[r].target \in User
        /\ row \in Row /\ req[r] \in Local /\ input \in Input
    BY <1>3 DEF TypeOK, LocalsOK, LocalOK, FindByID, Local
  <2>2. /\ req'[r] = [req[r] EXCEPT !.row = row, !.disturbed = FALSE]
        /\ pc'[r] = IF input.active = "off" /\ row.active
                      THEN "hasStar" ELSE AfterAdminCheck(input, row)
        /\ UNCHANGED <<users, star>>
    BY <1>3 DEF TypeOK, FindByID
  <2>3. /\ req'[r].target = req[r].target /\ req'[r].input = input
        /\ req'[r].row = row
    BY <2>1, <2>2 DEF Local
  <2>4. ASSUME pc'[r] \in {"findEmail", "write"} PROVE LeavesAdmin(r)'
    <3>1. ~(input.active = "off" /\ row.active)
      BY <2>2, <2>4
    <3>2. Changed(row, input).active \/ ~row.active
      BY <2>1, <3>1 DEF Changed, Input
    <3> QED BY <2>2, <2>3, <3>2 DEF LeavesAdmin, Admins
  <2>5. LocalOK(r)'
    BY <2>1, <2>2, <2>3, <2>4 DEF LocalOK, AfterAdminCheck
  <2> QED BY <1>3, <2>5, ReadLocals DEF TypeOK, FindByID
<1>4. ASSUME NEW r \in Request,
             UserHasPermissionCode(r) \/ CountAdmins(r) \/ FindByEmail(r)
      PROVE  LocalsOK'
  <2>1. UNCHANGED <<users, star>>
    BY <1>4 DEF UserHasPermissionCode, CountAdmins, FindByEmail
  <2>2. CASE Finish(r)
    BY <2>1, <2>2, FinishLocals
  <2>3. ASSUME NEW label \in {"count", "findEmail", "write"}, Goto(r, label),
               pc[r] \in {"hasStar", "count", "findEmail"},
               label # "count" /\ ~req[r].disturbed => LeavesAdmin(r)
        PROVE  LocalsOK'
    <3>1. pc'[r] = label /\ req' = req
      BY <2>3 DEF TypeOK, Goto
    <3>2. LeavesAdmin(r) => LeavesAdmin(r)'
      BY <2>1, <3>1 DEF LeavesAdmin, Admins
    <3>3. LocalOK(r)'
      BY <2>1, <2>3, <3>1, <3>2 DEF LocalsOK, LocalOK
    <3> QED BY <2>1, <2>3, <3>3, ReadLocals DEF TypeOK, Goto
  <2>4. AfterAdminCheck(req[r].input, req[r].row) \in {"findEmail", "write"}
    BY DEF AfterAdminCheck
  <2>5. CASE UserHasPermissionCode(r)
    <3>1. req[r].target \notin star => LeavesAdmin(r)
      BY DEF LeavesAdmin, Admins
    <3> QED BY <2>3, <2>4, <2>5, <3>1 DEF UserHasPermissionCode
  <2>6. CASE CountAdmins(r)
    <3>1. Cardinality(Admins) \in Nat
      BY UserAdminAssumption, FS_Subset, FS_CardinalityType DEF TypeOK, Admins
    <3>2. ~(Cardinality(Admins) <= 1) => LeavesAdmin(r)
      BY <3>1, AnotherAdmin DEF LeavesAdmin
    <3> QED BY <2>2, <2>3, <2>4, <2>6, <3>2 DEF CountAdmins
  <2>7. CASE FindByEmail(r)
    <3>1. ~req[r].disturbed => LeavesAdmin(r)
      BY <2>7 DEF FindByEmail, LocalsOK, LocalOK
    <3> QED BY <2>2, <2>3, <2>7, <3>1 DEF FindByEmail
  <2> QED BY <1>4, <2>5, <2>6, <2>7
<1>5. ASSUME NEW r \in Request, Write(r) PROVE LocalsOK'
  BY <1>5, FinishLocals DEF Write
<1>6. ASSUME NEW r \in Request, NEW email \in Email, NEW password \in Password,
             CreateFind(r, email, password)
      PROVE  LocalsOK'
  BY <1>6, StartLocals DEF CreateFind
<1>7. ASSUME NEW r \in Request, NEW u \in User, CreateInsert(r, u) PROVE LocalsOK'
  BY <1>7, FinishLocals DEF CreateInsert
<1>8. ASSUME NEW r \in Request, NEW u \in User, NEW password \in Password,
             Login(r, u, password)
      PROVE  LocalsOK'
  <2>1. [NoInput EXCEPT !.password = password].password # None
    BY UserAdminAssumption DEF NoInput
  <2> QED BY <1>8, <2>1, StartLocals DEF Login
<1>9. ASSUME NEW r \in Request, UpdatePasswordHash(r) PROVE LocalsOK'
  BY <1>9, FinishLocals DEF UpdatePasswordHash
<1>10. ASSUME NEW r \in Request, Abort(r) PROVE LocalsOK'
  BY <1>10, FinishLocals DEF Abort
<1>11. ASSUME NEW u \in User, GrantStar(u) \/ RevokeStar(u) PROVE LocalsOK'
  BY <1>11, Bystander
     DEF TypeOK, LocalsOK, GrantStar, RevokeStar, SetStar, Disturbed
<1> QED
  BY <1>1, <1>2, <1>3, <1>4, <1>5, <1>6, <1>7, <1>8, <1>9, <1>10, <1>11 DEF Next

(* The users table, the holders of * and the handlers keep their types,    *)
(* whatever statements of UserService and Login interleave.                *)
THEOREM UserAdminTypeCorrect == Spec => []TypeOK
BY TypeInit, TypeStep, LocalsInit, LocalsStep, PTL DEF Spec

-----------------------------------------------------------------------------
(* Every write of an email re-checks it: the check made earlier by the     *)
(* service may be stale without harm.                                      *)
LEMMA EmailsStep ==
  TypeOK /\ LocalsOK /\ EmailsUnique /\ [Next]_vars => EmailsUnique'
<1> SUFFICES ASSUME TypeOK, LocalsOK, EmailsUnique, [Next]_vars PROVE EmailsUnique'
  OBVIOUS
<1>1. CASE \A u \in User : users'[u].email = users[u].email
  BY <1>1 DEF EmailsUnique, Exists
<1>2. ASSUME NEW u \in User, NEW row \in Row, EmailFree(u, row.email),
             users' = [users EXCEPT ![u] = row]
      PROVE  EmailsUnique'
  <2> SUFFICES ASSUME NEW v \in User, NEW w \in User, users'[v].email # None,
                      users'[v].email = users'[w].email
               PROVE  v = w
    BY DEF EmailsUnique, Exists
  <2> QED BY <1>2 DEF TypeOK, EmailsUnique, Exists, EmailFree
<1>3. ASSUME NEW r \in Request, Write(r) PROVE EmailsUnique'
  <2>1. /\ Changed(req[r].row, req[r].input) \in Row
        /\ req[r].target \in User
    BY <1>3, ChangedType DEF TypeOK, LocalsOK, LocalOK, Local, Write
  <2> QED BY <1>1, <1>2, <1>3, <2>1 DEF Write
<1>4. ASSUME NEW r \in Request, NEW u \in User, CreateInsert(r, u)
      PROVE  EmailsUnique'
  <2>1. CASE UNCHANGED users
    BY <1>1, <2>1
  <2>2. CASE EmailFree(u, req[r].input.email)
    <3>1. CASE req[r].input.email = None
      <4>1. /\ users[u].email = None
            /\ users' = [users EXCEPT ![u] = Changed(NoRow, req[r].input)]
        BY <1>4, <2>2 DEF CreateInsert, Exists
      <4>2. Changed(NoRow, req[r].input).email = None
        BY <3>1 DEF Changed, NoRow
      <4> QED BY <1>1, <4>1, <4>2 DEF TypeOK
    <3>2. CASE req[r].input.email # None
      <4>1. Changed(NoRow, req[r].input) \in Row
        BY ChangedType DEF TypeOK, Local, NoRow, Row
      <4>2. users' = [users EXCEPT ![u] = Changed(NoRow, req[r].input)]
        BY <1>4, <2>2 DEF CreateInsert
      <4>3. EmailFree(u, Changed(NoRow, req[r].input).email)
        BY <2>2, <3>2 DEF Changed
      <4> QED BY <1>2, <4>1, <4>2, <4>3
    <3> QED BY <3>1, <3>2
  <2> QED BY <1>4, <2>1, <2>2 DEF CreateInsert
<1>5. ASSUME NEW r \in Request, UpdatePasswordHash(r) PROVE EmailsUnique'
  BY <1>1, <1>5 DEF TypeOK, UpdatePasswordHash, Row
<1>6. CASE UNCHANGED users
  BY <1>1, <1>6
<1> QED
  BY <1>3, <1>4, <1>5, <1>6
     DEF Next, vars, Update, FindByID, UserHasPermissionCode, CountAdmins,
         FindByEmail, CreateFind, Login, Abort, GrantStar, RevokeStar, SetStar

(* No two accounts ever share an email, however creations and updates that *)
(* looked it up before the write interleave.                               *)
THEOREM EmailsStayUnique == Spec => []EmailsUnique
<1>1. Init => EmailsUnique
  BY UserAdminAssumption DEF Init, EmailsUnique, Exists
<1> QED BY <1>1, TypeInit, TypeStep, LocalsInit, LocalsStep, EmailsStep, PTL DEF Spec

-----------------------------------------------------------------------------
(* What the steps do to the users table.                                   *)
LEMMA TableStep ==
  ASSUME TypeOK, LocalsOK, [Next]_vars
  PROVE  \/ UNCHANGED users
         \/ \E r \in Request :
              /\ Write(r) \/ UpdatePasswordHash(r)
              /\ pc[r] \in {"write", "rehash"} /\ pc'[r] = "idle"
              /\ req[r].target \in User
         \/ \E r \in Request, u \in User : CreateInsert(r, u)
<1>1. ASSUME NEW r \in Request, Write(r) \/ UpdatePasswordHash(r)
      PROVE  \/ UNCHANGED users
             \/ /\ pc[r] \in {"write", "rehash"} /\ pc'[r] = "idle"
                /\ req[r].target \in User
  BY <1>1 DEF TypeOK, LocalsOK, LocalOK, Write, UpdatePasswordHash, FinishWriting
<1> QED
  BY <1>1
     DEF Next, vars, Update, FindByID, UserHasPermissionCode, CountAdmins,
         FindByEmail, CreateFind, Login, Abort, GrantStar, RevokeStar, SetStar

(* The rehash leaves all but the password alone.                           *)
LEMMA RehashStep ==
  ASSUME TypeOK, NEW r \in Request, UpdatePasswordHash(r), NEW u \in User
  PROVE  /\ users'[u].email = users[u].email
         /\ users'[u].active = users[u].active
         /\ u # req[r].target => users'[u] = users[u]
BY DEF TypeOK, UpdatePasswordHash, Row

(* A write changes its target only, and there what the input asks for.     *)
LEMMA WriteStep ==
  ASSUME TypeOK, LocalsOK, NEW r \in Request, Write(r), users' # users
  PROVE  /\ users' = [users EXCEPT ![req[r].target] =
                                     Changed(req[r].row, req[r].input)]
         /\ ~req[r].disturbed =>
              req[r].row = users[req[r].target] /\ LeavesAdmin(r)
BY DEF Write, LocalsOK, LocalOK

(* A column of an account changes only when a request asks for it or when  *)
(* requests overlap: the write-back of the whole row by UserService.Update *)
(* loses no other update.                                                  *)
THEOREM OnlyAskedIsChanged == Spec => OnlyAskedChanges
<1> DEFINE Asked(r, u) ==
      /\ users'[u].email # users[u].email => req[r].input.email # None
      /\ users'[u].active # users[u].active => req[r].input.active # "keep"
      /\ users'[u].password # users[u].password => req[r].input.password # None
<1>1. ASSUME TypeOK, LocalsOK, [Next]_vars, NEW u \in User,
             Exists(u), users'[u] # users[u]
      PROVE  \E r \in Request : Writes(r, u) /\ (req[r].disturbed \/ Asked(r, u))
  <2>1. ~\E r \in Request, v \in User : CreateInsert(r, v)
    BY <1>1 DEF TypeOK, CreateInsert
  <2>2. PICK r \in Request :
          /\ Write(r) \/ UpdatePasswordHash(r)
          /\ pc[r] \in {"write", "rehash"} /\ pc'[r] = "idle"
          /\ req[r].target \in User
    BY <1>1, <2>1, TableStep
  <2>3. CASE Write(r)
    <3>1. req[r].target = u /\ users'[u] = Changed(req[r].row, req[r].input)
      BY <1>1, <2>2, <2>3, WriteStep DEF TypeOK
    <3>2. ~req[r].disturbed => Asked(r, u)
      BY <1>1, <2>3, <3>1, WriteStep DEF Changed
    <3> QED BY <2>2, <3>1, <3>2 DEF Writes
  <2>4. CASE UpdatePasswordHash(r)
    <3>1. req[r].input.password # None
      BY <1>1, <2>4 DEF LocalsOK, LocalOK, UpdatePasswordHash
    <3>2. req[r].target = u /\ Asked(r, u)
      BY <1>1, <2>4, <3>1, RehashStep
    <3> QED BY <2>2, <3>2 DEF Writes
  <2> QED BY <2>2, <2>3, <2>4
<1>2. TypeOK /\ LocalsOK /\ [Next]_vars =>
        [\A u \in User : Exists(u) /\ users'[u] # users[u] =>
           \E r \in Request :
             /\ Writes(r, u)
             /\ \/ req[r].disturbed
                \/ /\ users'[u].email # users[u].email => req[r].input.email # None
                   /\ users'[u].active # users[u].active
                        => req[r].input.active # "keep"
                   /\ users'[u].password # users[u].password
                        => req[r].input.password # None]_vars
  BY <1>1
<1> QED
  BY <1>2, TypeInit, TypeStep, LocalsInit, LocalsStep, PTL
     DEF Spec, OnlyAskedChanges

(* A deactivation that nothing overlaps never removes the last active      *)
(* holder of *: ErrLastAdmin covers every path through UserService.Update. *)
THEOREM LoneUpdateIsSafe == Spec => LoneUpdateKeepsAdmin
<1>1. ASSUME TypeOK, LocalsOK, [Next]_vars, Admins # {}, Admins' = {}, star' = star
      PROVE  \E r \in Request, u \in User : Writes(r, u) /\ req[r].disturbed
  <2>1. PICK a \in star : users[a].active
    BY <1>1 DEF Admins
  <2>2. \A b \in star : ~users'[b].active
    BY <1>1 DEF Admins
  <2>3. a \in User
    BY <1>1 DEF TypeOK
  <2>4. ~\E r \in Request, v \in User : CreateInsert(r, v)
    <3> SUFFICES ASSUME NEW r \in Request, NEW v \in User, CreateInsert(r, v)
                 PROVE  FALSE
      OBVIOUS
    <3>1. Changed(NoRow, req[r].input).active
      BY <1>1 DEF LocalsOK, LocalOK, CreateInsert, Changed
    <3>2. users'[a].active
      BY <1>1, <2>1, <2>3, <3>1 DEF TypeOK, CreateInsert
    <3> QED BY <2>2, <3>2
  <2>5. PICK r \in Request :
          /\ Write(r) \/ UpdatePasswordHash(r)
          /\ pc[r] \in {"write", "rehash"} /\ pc'[r] = "idle"
          /\ req[r].target \in User
    BY <1>1, <2>1, <2>2, <2>4, TableStep
  <2>6. ~UpdatePasswordHash(r)
    BY <1>1, <2>1, <2>2, <2>3, RehashStep
  <2>7. ASSUME ~req[r].disturbed PROVE FALSE
    <3>1. /\ users' = [users EXCEPT ![req[r].target] =
                                      Changed(req[r].row, req[r].input)]
          /\ LeavesAdmin(r)
      BY <1>1, <2>1, <2>2, <2>5, <2>6, <2>7, WriteStep
    <3>2. \A b \in Admins : b # req[r].target => users'[b].active
      BY <1>1, <3>1 DEF TypeOK, Admins
    <3>3. Admins \subseteq {req[r].target}
      BY <2>2, <3>2 DEF Admins
    <3>4. a = req[r].target
      BY <2>1, <3>3 DEF Admins
    <3>5. Changed(req[r].row, req[r].input).active
      BY <2>1, <3>1, <3>3, <3>4 DEF LeavesAdmin, Admins
    <3>6. users'[a].active
      BY <1>1, <2>5, <3>1, <3>4, <3>5 DEF TypeOK
    <3> QED BY <2>2, <3>6
  <2> QED BY <2>5, <2>7 DEF Writes
<1>2. TypeOK /\ LocalsOK /\ [Next]_vars =>
        [Admins # {} /\ Admins' = {} /\ star' = star =>
           \E r \in Request, u \in User : Writes(r, u) /\ req[r].disturbed]_vars
  BY <1>1
<1> QED
  BY <1>2, TypeInit, TypeStep, LocalsInit, LocalsStep, PTL
     DEF Spec, LoneUpdateKeepsAdmin

=============================================================================
