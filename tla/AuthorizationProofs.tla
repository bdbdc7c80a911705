------------------------ MODULE AuthorizationProofs ------------------------
(***************************************************************************)
(* No escalation, for any users, permission codes, grants at the start and *)
(* number of concurrent handlers.                                          *)
(***************************************************************************)
EXTENDS Authorization, TLAPS

(* What some code granted at the start covers.                             *)
Derived(c) ==
  \E v \in User : \E q \in InitialGrants[v] : Covers(CodeOf[q], c)

(* What a handler in flight knows of its parameters.  A grant that passed  *)
(* actorCanGrant may be inserted at any later time, even when the actor has*)
(* lost its own rights: what matters is that it was derived then, which no *)
(* later step can undo.                                                    *)
RequestOK(r) ==
  /\ pc[r] # "idle" => req[r].actor \in User
  /\ pc[r] \in {"canGrant", "grantInsert"} =>
       req[r].target \in User /\ req[r].perm \in Perm
  /\ pc[r] = "grantInsert" => Derived(CodeOf[req[r].perm])

RequestsOK == \A r \in Request : RequestOK(r)

EscalationInv == TypeOK /\ NoEscalation /\ RequestsOK

-----------------------------------------------------------------------------
(* A code covers itself, and covering is transitive: what can be granted   *)
(* with a wildcard obtained through a wildcard is covered by the first.    *)
LEMMA CoversTransitive ==
  ASSUME NEW a \in Seq(STRING) \ {<<>>}, NEW b \in Seq(STRING) \ {<<>>},
         NEW c \in Seq(STRING) \ {<<>>}, Covers(a, b), Covers(b, c)
  PROVE  Covers(a, c)
<1>1. CASE a = b \/ b = c
  BY <1>1
<1>2. CASE a # b /\ b # c
  <2>1. /\ a[Len(a)] = "*" /\ Len(a) <= Len(b)
        /\ \A i \in 1 .. Len(a) - 1 : a[i] = b[i]
    BY <1>2 DEF Covers
  <2>2. /\ Len(b) <= Len(c)
        /\ \A i \in 1 .. Len(b) - 1 : b[i] = c[i]
    BY <1>2 DEF Covers
  <2>3. Len(a) \in Nat /\ Len(b) \in Nat /\ Len(c) \in Nat
    OBVIOUS
  <2>4. \A i \in 1 .. Len(a) - 1 : a[i] = c[i]
    BY <2>1, <2>2, <2>3
  <2>5. Len(a) <= Len(c)
    BY <2>1, <2>2, <2>3
  <2> QED
    BY <2>1, <2>4, <2>5 DEF Covers
<1> QED
  BY <1>1, <1>2

(* What an actor with derived codes may grant is derived.                  *)
LEMMA GrantDerived ==
  ASSUME TypeOK, NoEscalation, NEW u \in User, NEW p \in Perm,
         matchPermission(CodesOf(u), CodeOf[p])
  PROVE  Derived(CodeOf[p])
<1>1. PICK g \in grants[u] : Covers(CodeOf[g], CodeOf[p])
  BY DEF matchPermission, CodesOf
<1>2. PICK v \in User : \E q \in InitialGrants[v] : Covers(CodeOf[q], CodeOf[g])
  BY <1>1 DEF NoEscalation
<1>3. PICK q \in InitialGrants[v] : Covers(CodeOf[q], CodeOf[g])
  BY <1>2
<1>4. q \in Perm /\ g \in Perm
  BY <1>1, <1>2, <1>3, SeedAssumption DEF TypeOK
<1>5. /\ CodeOf[q] \in Seq(STRING) \ {<<>>} /\ CodeOf[g] \in Seq(STRING) \ {<<>>}
      /\ CodeOf[p] \in Seq(STRING) \ {<<>>}
  BY <1>4, CodeAssumption
<1>6. Covers(CodeOf[q], CodeOf[p])
  BY <1>1, <1>3, <1>5, CoversTransitive
<1> QED
  BY <1>6 DEF Derived

-----------------------------------------------------------------------------
(* A code covers itself, so what is granted at the start is derived.       *)
LEMMA EscalationInit == Init => EscalationInv
<1> SUFFICES ASSUME Init PROVE EscalationInv
  OBVIOUS
<1>1. TypeOK
  BY SeedAssumption, ConfigAssumption DEF Init, TypeOK, Local, NoRequest, Pc, Never
<1>2. NoEscalation
  BY DEF Init, NoEscalation, Covers
<1>3. RequestsOK
  BY DEF Init, RequestsOK, RequestOK
<1> QED
  BY <1>1, <1>2, <1>3 DEF EscalationInv

(* The codes of a user are codes.                                          *)
LEMMA CodesOfType ==
  ASSUME TypeOK, NEW u \in User
  PROVE  CodesOf(u) \in SUBSET Code
  BY CodeAssumption DEF TypeOK, CodesOf

(* Every way a handler moves on keeps its program counter and its locals   *)
(* well typed, and leaves the handlers of other requests alone.            *)
LEMMA FinishOK ==
  ASSUME EscalationInv, NEW r \in Request, Finish(r)
  PROVE  /\ pc' \in [Request -> Pc] /\ req' \in [Request -> Local]
         /\ RequestsOK'
<1>1. /\ pc' \in [Request -> Pc] /\ req' \in [Request -> Local]
  BY DEF EscalationInv, TypeOK, Finish, Pc, Local, NoRequest
<1>2. ASSUME NEW q \in Request PROVE RequestOK(q)'
  <2>1. CASE q = r
    BY <2>1 DEF EscalationInv, TypeOK, Finish, RequestOK
  <2>2. CASE q # r
    BY <2>2 DEF EscalationInv, TypeOK, Finish, RequestsOK, RequestOK
  <2> QED
    BY <2>1, <2>2
<1> QED
  BY <1>1, <1>2 DEF RequestsOK

LEMMA GotoOK ==
  ASSUME EscalationInv, NEW r \in Request, NEW l \in Pc, Goto(r, l),
         pc[r] # "idle", l \notin {"canGrant", "grantInsert"}
  PROVE  /\ pc' \in [Request -> Pc] /\ req' \in [Request -> Local]
         /\ RequestsOK'
<1>1. /\ pc' \in [Request -> Pc] /\ req' \in [Request -> Local]
  BY DEF EscalationInv, TypeOK, Goto
<1>2. ASSUME NEW q \in Request PROVE RequestOK(q)'
  <2>1. CASE q = r
    BY <2>1 DEF EscalationInv, TypeOK, Goto, RequestsOK, RequestOK
  <2>2. CASE q # r
    BY <2>2 DEF EscalationInv, TypeOK, Goto, RequestsOK, RequestOK
  <2> QED
    BY <2>1, <2>2
<1> QED
  BY <1>1, <1>2 DEF RequestsOK

LEMMA GotoWithOK ==
  ASSUME EscalationInv, NEW r \in Request, NEW l \in Pc,
         NEW target \in User \cup {None}, NEW perm \in Perm,
         GotoWith(r, l, target, perm), pc[r] # "idle", l # "grantInsert",
         l = "canGrant" => target \in User
  PROVE  /\ pc' \in [Request -> Pc] /\ req' \in [Request -> Local]
         /\ RequestsOK'
<1>1. pc' \in [Request -> Pc]
  BY DEF EscalationInv, TypeOK, GotoWith
<1>2. req' \in [Request -> Local]
  BY DEF EscalationInv, TypeOK, GotoWith, Local
<1>3. ASSUME NEW q \in Request PROVE RequestOK(q)'
  <2>1. CASE q = r
    <3>1. /\ pc'[q] = l /\ req'[q].actor = req[q].actor
          /\ req'[q].target = target /\ req'[q].perm = perm
      BY <2>1 DEF EscalationInv, TypeOK, GotoWith, Local
    <3> QED
      BY <2>1, <3>1 DEF EscalationInv, RequestsOK, RequestOK
  <2>2. CASE q # r
    BY <2>2 DEF EscalationInv, TypeOK, GotoWith, RequestsOK, RequestOK
  <2> QED
    BY <2>1, <2>2
<1> QED
  BY <1>1, <1>2, <1>3 DEF RequestsOK

LEMMA DecideOK ==
  ASSUME EscalationInv, NEW r \in Request, NEW codes, Decide(r, codes),
         pc[r] # "idle"
  PROVE  /\ pc' \in [Request -> Pc] /\ req' \in [Request -> Local]
         /\ RequestsOK'
<1>1. CASE Finish(r)
  BY <1>1, FinishOK
<1>2. CASE ~Finish(r)
  <2>1. PICK route \in Route \ {"read"} :
          /\ pc' = [pc EXCEPT ![r] = FirstStatement[route]]
          /\ req' = [req EXCEPT ![r].codes = {}]
    BY <1>2 DEF Decide
  <2>2. FirstStatement[route] \in {"grantFind", "revokeFind", "createFind", "deleteFind"}
    BY <2>1 DEF Route, FirstStatement
  <2>3. pc' \in [Request -> Pc]
    BY <2>1, <2>2 DEF EscalationInv, TypeOK, Pc
  <2>4. req' \in [Request -> Local]
    BY <2>1 DEF EscalationInv, TypeOK, Local
  <2>5. ASSUME NEW q \in Request PROVE RequestOK(q)'
    <3>1. CASE q = r
      <4>1. /\ pc'[q] = FirstStatement[route] /\ req'[q].actor = req[q].actor
        BY <2>1, <3>1 DEF EscalationInv, TypeOK, Local
      <4> QED
        BY <2>2, <3>1, <4>1 DEF EscalationInv, RequestsOK, RequestOK
    <3>2. CASE q # r
      BY <2>1, <3>2 DEF EscalationInv, TypeOK, RequestsOK, RequestOK
    <3> QED
      BY <3>1, <3>2
  <2> QED
    BY <2>3, <2>4, <2>5 DEF RequestsOK
<1> QED
  BY <1>1, <1>2

-----------------------------------------------------------------------------
(* HasPermission never writes the tables.                                  *)
LEMMA CheckStep ==
  ASSUME EscalationInv, NEW r \in Request,
         \/ CacheGet(r) \/ CacheDown(r) \/ ListDegraded(r) \/ List(r)
         \/ PipeDel(r) \/ PipeSAdd(r) \/ PipeExpire(r) \/ PipeFails(r)
  PROVE  EscalationInv'
<1> USE DEF EscalationInv
<1>1. pc[r] # "idle" /\ req[r].actor \in User /\ req[r] \in Local
  BY DEF CacheGet, CacheDown, ListDegraded, List, PipeDel, PipeSAdd, PipeExpire,
         PipeFails, RequestsOK, RequestOK, TypeOK
<1>2. UNCHANGED <<catalogue, grants>>
  BY DEF CacheGet, CacheDown, ListDegraded, List, PipeDel, PipeSAdd, PipeExpire,
         PipeFails
<1>3. NoEscalation'
  BY <1>2 DEF NoEscalation
<1>4. cache' \in [User -> SUBSET Code] /\ cacheTTL' \in [User -> {Never} \cup 0 .. CacheTTL]
  <2>1. CASE UNCHANGED <<cache, cacheTTL>>
    BY <2>1 DEF TypeOK
  <2> 0 \in 0 .. CacheTTL /\ CacheTTL \in 0 .. CacheTTL
    BY ConfigAssumption
  <2>2. CASE PipeDel(r)
    BY <2>2, <1>1 DEF PipeDel, Drop, TypeOK
  <2>3. CASE PipeSAdd(r)
    <3>1. req[r].codes \in SUBSET Code
      BY <1>1 DEF Local
    <3> QED
      BY <2>3, <3>1, <1>1 DEF PipeSAdd, TypeOK
  <2>4. CASE PipeExpire(r)
    BY <2>4, <1>1 DEF PipeExpire, TypeOK
  <2> QED
    BY <2>1, <2>2, <2>3, <2>4 DEF CacheGet, CacheDown, ListDegraded, List, PipeFails
<1>5. /\ pc' \in [Request -> Pc] /\ req' \in [Request -> Local]
      /\ RequestsOK'
  <2>1. CASE \E codes : Decide(r, codes)
    BY <1>1, <2>1, DecideOK
  <2>2. CASE \E l \in {"list", "listDegraded", "sadd", "expire"} : Goto(r, l)
    <3>1. PICK l \in {"list", "listDegraded", "sadd", "expire"} : Goto(r, l)
      BY <2>2
    <3>2. l \in Pc
      BY DEF Pc
    <3> QED
      BY <1>1, <3>1, <3>2, GotoOK
  <2>3. CASE List(r)
    <3>1. CodesOf(req[r].actor) \in SUBSET Code
      BY <1>1, CodesOfType
    <3>2. pc' \in [Request -> Pc]
      BY <2>3 DEF List, TypeOK, Pc
    <3>3. req' \in [Request -> Local]
      BY <2>3, <3>1 DEF List, TypeOK, Local
    <3>4. ASSUME NEW q \in Request PROVE RequestOK(q)'
      <4>1. CASE q = r
        <5>1. pc'[q] = "del" /\ req'[q].actor = req[q].actor
          BY <2>3, <4>1 DEF List, TypeOK, Local
        <5> QED
          BY <1>1, <4>1, <5>1 DEF RequestOK
      <4>2. CASE q # r
        BY <2>3, <4>2 DEF List, TypeOK, RequestsOK, RequestOK
      <4> QED
        BY <4>1, <4>2
    <3> QED
      BY <3>2, <3>3, <3>4 DEF RequestsOK
  <2> QED
    BY <2>1, <2>2, <2>3 DEF CacheGet, CacheDown, ListDegraded, PipeDel, PipeSAdd,
                            PipeExpire, PipeFails
<1> QED
  BY <1>2, <1>3, <1>4, <1>5 DEF TypeOK

(* Looking up what the request names changes no table.                     *)
LEMMA FindStep ==
  ASSUME EscalationInv, NEW r \in Request, NEW perm \in Perm, NEW target \in User,
         \/ GrantFind(r, target, perm) \/ RevokeFind(r, target, perm)
         \/ CreateFind(r, perm) \/ DeleteFind(r, perm)
  PROVE  EscalationInv'
<1> USE DEF EscalationInv
<1>1. UNCHANGED <<catalogue, grants, cache, cacheTTL>> /\ pc[r] # "idle"
  BY DEF GrantFind, RevokeFind, CreateFind, DeleteFind
<1>2. /\ pc' \in [Request -> Pc] /\ req' \in [Request -> Local]
      /\ RequestsOK'
  <2>1. CASE Finish(r)
    BY <2>1, FinishOK
  <2>2. CASE \E l \in {"canGrant", "revokeDelete"} : GotoWith(r, l, target, perm)
    <3>1. PICK l \in {"canGrant", "revokeDelete"} : GotoWith(r, l, target, perm)
      BY <2>2
    <3>2. l \in Pc
      BY DEF Pc
    <3> QED
      BY <1>1, <3>1, <3>2, GotoWithOK
  <2>3. CASE \E l \in {"createInsert", "deleteCount"} : GotoWith(r, l, None, perm)
    <3>1. PICK l \in {"createInsert", "deleteCount"} : GotoWith(r, l, None, perm)
      BY <2>3
    <3>2. l \in Pc
      BY DEF Pc
    <3> QED
      BY <1>1, <3>1, <3>2, GotoWithOK
  <2> QED
    BY <2>1, <2>2, <2>3 DEF GrantFind, RevokeFind, CreateFind, DeleteFind
<1> QED
  BY <1>1, <1>2 DEF TypeOK, NoEscalation

LEMMA CountStep ==
  ASSUME EscalationInv, NEW r \in Request, CountAssignments(r)
  PROVE  EscalationInv'
<1> USE DEF EscalationInv
<1>1. UNCHANGED <<catalogue, grants, cache, cacheTTL>> /\ pc[r] # "idle"
  BY DEF CountAssignments
<1>2. "deletePerm" \in Pc
  BY DEF Pc
<1>3. /\ pc' \in [Request -> Pc] /\ req' \in [Request -> Local]
      /\ RequestsOK'
  BY <1>1, <1>2, FinishOK, GotoOK DEF CountAssignments
<1> QED
  BY <1>1, <1>3 DEF TypeOK, NoEscalation

(* The check of actorCanGrant makes what is about to be granted derived.   *)
LEMMA CanGrantStep ==
  ASSUME EscalationInv, NEW r \in Request, ActorCanGrant(r)
  PROVE  EscalationInv'
<1> USE DEF EscalationInv
<1>1. UNCHANGED <<catalogue, grants, cache, cacheTTL>> /\ pc[r] = "canGrant"
  BY DEF ActorCanGrant
<1>2. req[r].actor \in User /\ req[r].target \in User /\ req[r].perm \in Perm
  BY <1>1 DEF RequestsOK, RequestOK
<1>3. CASE Finish(r)
  BY <1>1, <1>3, FinishOK DEF TypeOK, NoEscalation
<1>4. CASE ~Finish(r)
  <2>1. /\ Goto(r, "grantInsert")
        /\ matchPermission(CodesOf(req[r].actor), CodeOf[req[r].perm])
    BY <1>4 DEF ActorCanGrant
  <2>2. Derived(CodeOf[req[r].perm])
    BY <1>2, <2>1, GrantDerived
  <2>3. pc' \in [Request -> Pc] /\ req' \in [Request -> Local]
    BY <2>1 DEF Goto, TypeOK, Pc
  <2>4. ASSUME NEW q \in Request PROVE RequestOK(q)'
    <3>1. CASE q = r
      BY <1>2, <2>1, <2>2, <3>1 DEF Goto, RequestOK
    <3>2. CASE q # r
      BY <2>1, <3>2 DEF Goto, TypeOK, RequestsOK, RequestOK
    <3> QED
      BY <3>1, <3>2
  <2> QED
    BY <1>1, <2>3, <2>4 DEF TypeOK, NoEscalation, RequestsOK
<1> QED
  BY <1>3, <1>4

(* The only statement that adds a grant adds a derived one.                *)
LEMMA GrantStep ==
  ASSUME EscalationInv, NEW r \in Request, GrantInsert(r)
  PROVE  EscalationInv'
<1> USE DEF EscalationInv
<1>1. /\ pc[r] = "grantInsert" /\ UNCHANGED <<catalogue, cache, cacheTTL>>
      /\ req[r].target \in User /\ req[r].perm \in Perm
      /\ Derived(CodeOf[req[r].perm])
  BY DEF GrantInsert, RequestsOK, RequestOK
<1>2. /\ pc' \in [Request -> Pc] /\ req' \in [Request -> Local]
      /\ RequestsOK'
  <2>1. "invalidate" \in Pc
    BY DEF Pc
  <2> QED
    BY <1>1, <2>1, FinishOK, GotoOK DEF GrantInsert
<1>3. grants' \in [User -> SUBSET Perm]
  BY <1>1 DEF GrantInsert, TypeOK
<1>4. NoEscalation'
  <2>1. ASSUME NEW u \in User, NEW p \in grants'[u]
        PROVE  Derived(CodeOf[p])
    <3>1. p \in grants[u] \/ p = req[r].perm
      BY <2>1 DEF GrantInsert, TypeOK
    <3>2. CASE p \in grants[u]
      BY <3>2 DEF NoEscalation, Derived
    <3> QED
      BY <1>1, <3>1, <3>2
  <2> QED
    BY <2>1 DEF NoEscalation, Derived
<1> QED
  BY <1>1, <1>2, <1>3, <1>4 DEF TypeOK

(* The other statements that write take grants away or leave them alone.   *)
LEMMA WriteStep ==
  ASSUME EscalationInv, NEW r \in Request,
         \/ Invalidate(r) \/ RevokeDelete(r) \/ CreateInsert(r) \/ DeletePerm(r)
         \/ Abort(r)
  PROVE  EscalationInv'
<1> USE DEF EscalationInv
<1>1. /\ pc' \in [Request -> Pc] /\ req' \in [Request -> Local]
      /\ RequestsOK'
  <2>1. CASE Finish(r)
    BY <2>1, FinishOK
  <2>2. CASE RevokeDelete(r)
    <3>1. "invalidate" \in Pc
      BY DEF Pc
    <3> QED
      BY <2>2, <3>1, GotoOK DEF RevokeDelete
  <2> QED
    BY <2>1, <2>2 DEF Invalidate, CreateInsert, DeletePerm, Abort
<1>2. /\ grants' \in [User -> SUBSET Perm]
      /\ \A u \in User : grants'[u] \subseteq grants[u]
  BY DEF Invalidate, RevokeDelete, CreateInsert, DeletePerm, Abort, TypeOK
<1>3. NoEscalation'
  BY <1>2 DEF NoEscalation
<1>4. catalogue' \in [Perm -> {"unused", "present", "deleted"}]
  BY DEF Invalidate, RevokeDelete, CreateInsert, DeletePerm, Abort, TypeOK
<1>5. /\ cache' \in [User -> SUBSET Code]
      /\ cacheTTL' \in [User -> {Never} \cup 0 .. CacheTTL]
  BY ConfigAssumption
  DEF Invalidate, Drop, RevokeDelete, CreateInsert, DeletePerm, Abort, TypeOK
<1> QED
  BY <1>1, <1>2, <1>3, <1>4, <1>5 DEF TypeOK

LEMMA ArriveStep ==
  ASSUME EscalationInv, NEW r \in Request, NEW actor \in User, Arrive(r, actor)
  PROVE  EscalationInv'
<1> USE DEF EscalationInv
<1>1. pc' \in [Request -> Pc]
  BY DEF Arrive, TypeOK, Pc
<1>2. req' \in [Request -> Local]
  BY DEF Arrive, TypeOK, Local
<1>3. ASSUME NEW q \in Request PROVE RequestOK(q)'
  <2>1. CASE q = r
    <3>1. pc'[q] = "cacheGet" /\ req'[q].actor = actor
      BY <2>1 DEF Arrive, TypeOK, Local
    <3> QED
      BY <3>1 DEF RequestOK
  <2>2. CASE q # r
    BY <2>2 DEF Arrive, TypeOK, RequestsOK, RequestOK
  <2> QED
    BY <2>1, <2>2
<1>4. UNCHANGED <<catalogue, grants, cache, cacheTTL>>
  BY DEF Arrive
<1> QED
  BY <1>1, <1>2, <1>3, <1>4 DEF TypeOK, NoEscalation, RequestsOK

LEMMA EnvironmentStep ==
  ASSUME EscalationInv,
         \/ \E u \in User : InvalidateUserCache(u)
         \/ Tick
         \/ \E flushed \in SUBSET User : Restart(flushed)
  PROVE  EscalationInv'
<1> USE DEF EscalationInv
<1>1. UNCHANGED <<catalogue, grants>>
  BY DEF InvalidateUserCache, Tick, Restart
<1>2. cache' \in [User -> SUBSET Code]
  BY DEF InvalidateUserCache, Drop, Tick, Restart, TypeOK
<1>3. cacheTTL' \in [User -> {Never} \cup 0 .. CacheTTL]
  <2>1. CASE Tick
    BY <2>1, ConfigAssumption DEF Tick, Elapse, Never, TypeOK
  <2> QED
    BY <2>1, ConfigAssumption DEF InvalidateUserCache, Drop, Restart, TypeOK
<1>4. /\ pc' \in [Request -> Pc] /\ req' \in [Request -> Local]
      /\ RequestsOK'
  <2>1. CASE \E flushed \in SUBSET User : Restart(flushed)
    BY <2>1 DEF Restart, Pc, Local, NoRequest, RequestsOK, RequestOK
  <2>2. CASE UNCHANGED <<pc, req>>
    BY <2>2 DEF TypeOK, RequestsOK, RequestOK
  <2> QED
    BY <2>1, <2>2 DEF InvalidateUserCache, Tick
<1> QED
  BY <1>1, <1>2, <1>3, <1>4 DEF TypeOK, NoEscalation

-----------------------------------------------------------------------------
LEMMA EscalationNext == EscalationInv /\ [Next]_vars => EscalationInv'
<1> SUFFICES ASSUME EscalationInv, [Next]_vars PROVE EscalationInv'
  OBVIOUS
<1>1. ASSUME NEW r \in Request, NEW actor \in User, Arrive(r, actor)
      PROVE  EscalationInv'
  BY <1>1, ArriveStep
<1>2. ASSUME NEW r \in Request, Step(r) \/ Abort(r)
      PROVE  EscalationInv'
  <2>1. CASE \/ CacheGet(r) \/ CacheDown(r) \/ ListDegraded(r) \/ List(r)
             \/ PipeDel(r) \/ PipeSAdd(r) \/ PipeExpire(r) \/ PipeFails(r)
    BY <2>1, CheckStep
  <2>2. CASE ActorCanGrant(r)
    BY <2>2, CanGrantStep
  <2>3. CASE GrantInsert(r)
    BY <2>3, GrantStep
  <2>4. CASE \/ Invalidate(r) \/ RevokeDelete(r) \/ CreateInsert(r)
             \/ DeletePerm(r) \/ Abort(r)
    BY <2>4, WriteStep
  <2>5. CASE \E perm \in Perm, target \in User :
               GrantFind(r, target, perm) \/ RevokeFind(r, target, perm)
    BY <2>5, FindStep
  <2>6. CASE \/ CountAssignments(r)
             \/ \E perm \in Perm : CreateFind(r, perm) \/ DeleteFind(r, perm)
    <3>1. req[r].actor \in User
      BY <2>6 DEF EscalationInv, RequestsOK, RequestOK, CreateFind, DeleteFind,
                  CountAssignments
    <3>2. CASE \E perm \in Perm : CreateFind(r, perm) \/ DeleteFind(r, perm)
      BY <3>1, <3>2, FindStep
    <3>3. CASE CountAssignments(r)
      BY <3>3, CountStep
    <3> QED
      BY <2>6, <3>2, <3>3
  <2> QED
    BY <1>2, <2>1, <2>2, <2>3, <2>4, <2>5, <2>6 DEF Step
<1>3. CASE \/ \E u \in User : InvalidateUserCache(u)
           \/ Tick
           \/ \E flushed \in SUBSET User : Restart(flushed)
  BY <1>3, EnvironmentStep
<1>4. CASE UNCHANGED vars
  BY <1>4 DEF vars, EscalationInv, TypeOK, NoEscalation, RequestsOK, RequestOK
<1> QED
  BY <1>1, <1>2, <1>3, <1>4 DEF Next

(* User_permissions, the cache and the handlers keep their types.          *)
THEOREM AuthorizationTypeCorrect == Spec => []TypeOK
<1>1. EscalationInv => TypeOK
  BY DEF EscalationInv
<1> QED
  BY EscalationInit, EscalationNext, <1>1, PTL DEF Spec

(* No chain of concurrent grants, revocations and deletions gives anybody a*)
(* code that is not covered by one granted at the start: actorCanGrant is  *)
(* enough, although its answer may be stale when the grant is inserted.    *)
THEOREM NobodyEscalates == Spec => []NoEscalation
<1>1. EscalationInv => NoEscalation
  BY DEF EscalationInv
<1> QED
  BY EscalationInit, EscalationNext, <1>1, PTL DEF Spec

-----------------------------------------------------------------------------
(* The catalogue, on top of the type invariant: what the constraints of the*)
(* database add to checks that are stale when the row is written.          *)
LEMMA CatalogueInit == Init => CatalogueConsistent
  BY SeedAssumption DEF Init, CatalogueConsistent, Present

LEMMA CatalogueNext ==
  EscalationInv /\ CatalogueConsistent /\ [Next]_vars => CatalogueConsistent'
<1> SUFFICES ASSUME EscalationInv, CatalogueConsistent, [Next]_vars
             PROVE  CatalogueConsistent'
  OBVIOUS
<1> USE DEF EscalationInv
<1>1. CASE UNCHANGED <<catalogue, grants>>
  BY <1>1 DEF CatalogueConsistent, Present
<1>2. ASSUME NEW r \in Request, GrantInsert(r) PROVE CatalogueConsistent'
  <2>1. CASE UNCHANGED grants
    BY <1>1, <1>2, <2>1 DEF GrantInsert
  <2>2. CASE ~UNCHANGED grants
    <3>1. /\ Present(req[r].perm) /\ catalogue' = catalogue
          /\ grants' = [grants EXCEPT ![req[r].target] = @ \cup {req[r].perm}]
      BY <1>2, <2>2 DEF GrantInsert
    <3>2. ASSUME NEW u \in User, NEW p \in grants'[u] PROVE Present(p)
      <4>1. p \in grants[u] \/ p = req[r].perm
        BY <3>1, <3>2 DEF TypeOK
      <4> QED
        BY <3>1, <4>1 DEF CatalogueConsistent
    <3> QED
      BY <3>1, <3>2 DEF CatalogueConsistent, Present
  <2> QED
    BY <2>1, <2>2
<1>3. ASSUME NEW r \in Request, RevokeDelete(r) PROVE CatalogueConsistent'
  BY <1>3 DEF RevokeDelete, CatalogueConsistent, Present, TypeOK
<1>4. ASSUME NEW r \in Request, CreateInsert(r) PROVE CatalogueConsistent'
  <2>1. CASE UNCHANGED catalogue
    BY <1>1, <1>4, <2>1 DEF CreateInsert
  <2>2. CASE ~UNCHANGED catalogue
    <3>1. /\ ~CodeTaken(CodeOf[req[r].perm]) /\ grants' = grants
          /\ catalogue' = [catalogue EXCEPT ![req[r].perm] = "present"]
      BY <1>4, <2>2 DEF CreateInsert
    <3>2. \A p \in Perm : Present(p)' => Present(p) \/ p = req[r].perm
      BY <3>1 DEF Present, TypeOK
    <3>3. \A p \in Perm : Present(p) => Present(p)'
      BY <3>1 DEF Present, TypeOK
    <3>4. ASSUME NEW p \in Perm, NEW q \in Perm, Present(p)', Present(q)',
                 CodeOf[p] = CodeOf[q]
          PROVE  p = q
      BY <3>1, <3>2, <3>4 DEF CodeTaken, CatalogueConsistent
    <3>5. ASSUME NEW u \in User, NEW p \in grants'[u] PROVE Present(p)'
      BY <3>1, <3>3, <3>5 DEF CatalogueConsistent, TypeOK
    <3> QED
      BY <3>4, <3>5 DEF CatalogueConsistent
  <2> QED
    BY <2>1, <2>2
<1>5. ASSUME NEW r \in Request, DeletePerm(r) PROVE CatalogueConsistent'
  <2>1. /\ catalogue' = [catalogue EXCEPT ![req[r].perm] = "deleted"]
        /\ grants' = [u \in User |-> grants[u] \ {req[r].perm}]
    BY <1>5 DEF DeletePerm
  <2>2. \A p \in Perm : Present(p)' => Present(p)
    BY <2>1 DEF Present, TypeOK
  <2>3. ASSUME NEW u \in User, NEW p \in grants'[u] PROVE Present(p)'
    <3>1. p \in grants[u] /\ p # req[r].perm /\ p \in Perm
      BY <2>1, <2>3 DEF TypeOK
    <3> QED
      BY <2>1, <3>1 DEF CatalogueConsistent, Present, TypeOK
  <2> QED
    BY <2>2, <2>3 DEF CatalogueConsistent
<1> QED
  <2>1. ASSUME NEW r \in Request, Step(r),
               ~GrantInsert(r), ~RevokeDelete(r), ~CreateInsert(r), ~DeletePerm(r)
        PROVE  UNCHANGED <<catalogue, grants>>
    BY <2>1
    DEF Step, CacheGet, CacheDown, ListDegraded, List, PipeDel, PipeSAdd, PipeExpire,
        PipeFails, ActorCanGrant, Invalidate, CountAssignments, CreateFind,
        DeleteFind, GrantFind, RevokeFind
  <2>2. ASSUME NEW r \in Request, Step(r) PROVE CatalogueConsistent'
    BY <1>1, <1>2, <1>3, <1>4, <1>5, <2>1, <2>2
  <2>3. CASE UNCHANGED vars
    BY <1>1, <2>3 DEF vars
  <2>4. CASE \/ \E r \in Request, actor \in User : Arrive(r, actor)
             \/ \E r \in Request : Abort(r)
             \/ \E u \in User : InvalidateUserCache(u)
             \/ Tick
             \/ \E flushed \in SUBSET User : Restart(flushed)
    BY <1>1, <2>4 DEF Arrive, Abort, InvalidateUserCache, Tick, Restart
  <2> QED
    BY <2>2, <2>3, <2>4 DEF Next

(* A code is in the catalogue once and no grant outlives its permission,   *)
(* whatever raced with the checks of Create, Grant and Delete.             *)
THEOREM CatalogueStaysConsistent == Spec => []CatalogueConsistent
  BY EscalationInit, EscalationNext, CatalogueInit, CatalogueNext, PTL DEF Spec

=============================================================================
