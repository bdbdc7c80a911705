--------------------------- MODULE Authorization ---------------------------
(***************************************************************************)
(* Permissions: the catalogue and the grants in PostgreSQL, the cache-aside*)
(* copy of each user's codes in Redis, the RequirePermission middleware and*)
(* the routes that grant, revoke, create and delete permissions.           *)
(*                                                                         *)
(* Each SQL statement and each Redis command is one atomic step; a go-redis*)
(* Pipeline is not a transaction, so its commands are steps of their own.  *)
(***************************************************************************)
EXTENDS Integers, PermissionMatch

CONSTANTS
  User,
  Perm,            \* ids the permissions table hands out: bounds the model
  Code, CodeOf,    \* the code of each id
  Seeded,          \* ids the migrations insert
  InitialGrants,   \* user_permissions at the start
  Request,         \* handlers in flight at once: bounds the model
  None,
  CacheTTL,
  Failures         \* may Redis fail and handlers die half-way?

ASSUME CodeAssumption ==
  /\ Code \subseteq Seq(STRING) \ {<<>>}
  /\ \A p \in Perm : CodeOf[p] \in Code
ASSUME SeedAssumption ==
  /\ Seeded \subseteq Perm
  /\ \A p, q \in Seeded : CodeOf[p] = CodeOf[q] => p = q
  /\ InitialGrants \in [User -> SUBSET Seeded]
ASSUME ConfigAssumption ==
  CacheTTL \in Nat \ {0} /\ Failures \in BOOLEAN /\ None \notin User \cup Perm

VARIABLES
  catalogue,   \* the permissions table: each id is used once
  grants,      \* the user_permissions table
  cache,       \* codes cached per user; {} when Redis holds no set
  cacheTTL,    \* remaining TTL of the cached set; Never when it has none
  pc, req      \* the statement each handler is about to run, and its locals

vars == <<catalogue, grants, cache, cacheTTL, pc, req>>

Never == -1

(* The code each route requires, and the first statement of its handler.   *)
RouteCode == [read   |-> <<"users", "read">>,
              grant  |-> <<"permissions", "grant">>,
              revoke |-> <<"permissions", "revoke">>,
              create |-> <<"permissions", "create">>,
              delete |-> <<"permissions", "delete">>]

FirstStatement == [grant |-> "grantFind", revoke |-> "revokeFind",
                   create |-> "createFind", delete |-> "deleteFind"]

Route == {"read", "grant", "revoke", "create", "delete"}

(* codes is the list a fill read from PostgreSQL.                          *)
Local == [actor: User \cup {None}, target: User \cup {None},
          perm: Perm \cup {None}, codes: SUBSET Code]

NoRequest == [actor |-> None, target |-> None, perm |-> None, codes |-> {}]

Pc == {"idle", "cacheGet", "list", "listDegraded", "del", "sadd", "expire",
       "grantFind", "canGrant", "grantInsert", "revokeFind", "revokeDelete",
       "invalidate", "createFind", "createInsert", "deleteFind",
       "deleteCount", "deletePerm"}

TypeOK ==
  /\ catalogue \in [Perm -> {"unused", "present", "deleted"}]
  /\ grants \in [User -> SUBSET Perm]
  /\ cache \in [User -> SUBSET Code]
  /\ cacheTTL \in [User -> {Never} \cup 0 .. CacheTTL]
  /\ pc \in [Request -> Pc]
  /\ req \in [Request -> Local]

Init ==
  /\ catalogue = [p \in Perm |-> IF p \in Seeded THEN "present" ELSE "unused"]
  /\ grants = InitialGrants
  /\ cache = [u \in User |-> {}]
  /\ cacheTTL = [u \in User |-> 0]
  /\ pc = [r \in Request |-> "idle"]
  /\ req = [r \in Request |-> NoRequest]

-----------------------------------------------------------------------------
(* ListCodesByUserID.                                                      *)
CodesOf(u) == {CodeOf[p] : p \in grants[u]}

Present(p) == catalogue[p] = "present"

CodeTaken(c) == \E p \in Perm : Present(p) /\ CodeOf[p] = c

Goto(r, label) == pc' = [pc EXCEPT ![r] = label] /\ UNCHANGED req

Finish(r) ==
  /\ pc' = [pc EXCEPT ![r] = "idle"]
  /\ req' = [req EXCEPT ![r] = NoRequest]

(* The parameters of the request, read when its first statement needs them.*)
GotoWith(r, label, target, perm) ==
  /\ pc' = [pc EXCEPT ![r] = label]
  /\ req' = [req EXCEPT ![r].target = target, ![r].perm = perm]

(* The end of HasPermission: 403, or on to the handler of the route.  How  *)
(* the codes are found does not depend on the route, so the route is chosen*)
(* here.  Handlers that only read end here.                                *)
Decide(r, codes) ==
  \E route \in Route :
    IF matchPermission(codes, RouteCode[route]) /\ route # "read"
    THEN /\ pc' = [pc EXCEPT ![r] = FirstStatement[route]]
         /\ req' = [req EXCEPT ![r].codes = {}]
    ELSE Finish(r)

Drop(u) ==
  /\ cache' = [cache EXCEPT ![u] = {}]
  /\ cacheTTL' = [cacheTTL EXCEPT ![u] = 0]

-----------------------------------------------------------------------------
(* RequirePermission and the cache-aside HasPermission.                    *)

Arrive(r, actor) ==
  /\ pc[r] = "idle"
  /\ pc' = [pc EXCEPT ![r] = "cacheGet"]
  /\ req' = [req EXCEPT ![r].actor = actor]
  /\ UNCHANGED <<catalogue, grants, cache, cacheTTL>>

(* Mutant: a hit renews the TTL.                                           *)
CacheGetSliding(r) ==
  /\ pc[r] = "cacheGet"
  /\ LET u == req[r].actor IN
       IF cache[u] # {}
       THEN Decide(r, cache[u]) /\ cacheTTL' = [cacheTTL EXCEPT ![u] = CacheTTL]
       ELSE Goto(r, "list") /\ UNCHANGED cacheTTL
  /\ UNCHANGED <<catalogue, grants, cache>>

(* An empty set is a miss.                                                 *)
CacheGet(r) ==
  /\ pc[r] = "cacheGet"
  /\ LET codes == cache[req[r].actor] IN
       IF codes # {} THEN Decide(r, codes) ELSE Goto(r, "list")
  /\ UNCHANGED <<catalogue, grants, cache, cacheTTL>>

CacheDown(r) ==
  /\ Failures
  /\ pc[r] = "cacheGet"
  /\ Goto(r, "listDegraded")
  /\ UNCHANGED <<catalogue, grants, cache, cacheTTL>>

ListDegraded(r) ==
  /\ pc[r] = "listDegraded"
  /\ Decide(r, CodesOf(req[r].actor))
  /\ UNCHANGED <<catalogue, grants, cache, cacheTTL>>

List(r) ==
  /\ pc[r] = "list"
  /\ pc' = [pc EXCEPT ![r] = "del"]
  /\ req' = [req EXCEPT ![r].codes = CodesOf(req[r].actor)]
  /\ UNCHANGED <<catalogue, grants, cache, cacheTTL>>

(* The pipeline of PermissionCache.Set.                                    *)
PipeDel(r) ==
  /\ pc[r] = "del"
  /\ Drop(req[r].actor)
  /\ Goto(r, IF req[r].codes = {} THEN "expire" ELSE "sadd")
  /\ UNCHANGED <<catalogue, grants>>

PipeSAdd(r) ==
  /\ pc[r] = "sadd"
  /\ LET u == req[r].actor IN
       /\ cache' = [cache EXCEPT ![u] = @ \cup req[r].codes]
       /\ cacheTTL' = IF cache[u] = {} THEN [cacheTTL EXCEPT ![u] = Never]
                                       ELSE cacheTTL
  /\ Goto(r, "expire")
  /\ UNCHANGED <<catalogue, grants>>

PipeExpire(r) ==
  /\ pc[r] = "expire"
  /\ LET u == req[r].actor IN
       cacheTTL' = IF cache[u] = {} THEN cacheTTL
                                    ELSE [cacheTTL EXCEPT ![u] = CacheTTL]
  /\ Decide(r, req[r].codes)
  /\ UNCHANGED <<catalogue, grants, cache>>

(* The connection breaks: what was not sent is lost, the check goes on.    *)
PipeFails(r) ==
  /\ Failures
  /\ pc[r] \in {"del", "sadd", "expire"}
  /\ Decide(r, req[r].codes)
  /\ UNCHANGED <<catalogue, grants, cache, cacheTTL>>

-----------------------------------------------------------------------------
(* POST /users/:id/permissions.                                            *)

(* Mutant: userID and permissionID, both int64, change places.             *)
GrantFindSwapped(r, target, perm) ==
  /\ pc[r] = "grantFind"
  /\ IF Present(perm) THEN GotoWith(r, "canGrant", perm, target) ELSE Finish(r)
  /\ UNCHANGED <<catalogue, grants, cache, cacheTTL>>

GrantFind(r, target, perm) ==
  /\ pc[r] = "grantFind"
  /\ IF Present(perm) THEN GotoWith(r, "canGrant", target, perm) ELSE Finish(r)
  /\ UNCHANGED <<catalogue, grants, cache, cacheTTL>>

(* Mutant: an actor may grant a wildcard over what it holds.               *)
ActorCanGrantWider(r) ==
  /\ pc[r] = "canGrant"
  /\ IF \E c \in CodesOf(req[r].actor) :
          Covers(c, CodeOf[req[r].perm]) \/ Covers(CodeOf[req[r].perm], c)
       THEN Goto(r, "grantInsert")
       ELSE Finish(r)
  /\ UNCHANGED <<catalogue, grants, cache, cacheTTL>>

(* actorCanGrant asks PostgreSQL, not the cache.                           *)
ActorCanGrant(r) ==
  /\ pc[r] = "canGrant"
  /\ IF matchPermission(CodesOf(req[r].actor), CodeOf[req[r].perm])
       THEN Goto(r, "grantInsert")
       ELSE Finish(r)
  /\ UNCHANGED <<catalogue, grants, cache, cacheTTL>>

(* The foreign key refuses a permission deleted in the meantime.           *)
GrantInsert(r) ==
  /\ pc[r] = "grantInsert"
  /\ IF Present(req[r].perm)
       THEN /\ grants' = [grants EXCEPT ![req[r].target] = @ \cup {req[r].perm}]
            /\ Goto(r, "invalidate")
       ELSE UNCHANGED grants /\ Finish(r)
  /\ UNCHANGED <<catalogue, cache, cacheTTL>>

Invalidate(r) ==
  /\ pc[r] = "invalidate"
  /\ Drop(req[r].target)
  /\ Finish(r)
  /\ UNCHANGED <<catalogue, grants>>

(* DELETE /users/:id/permissions/:permissionId.                            *)
RevokeFind(r, target, perm) ==
  /\ pc[r] = "revokeFind"
  /\ IF Present(perm) THEN GotoWith(r, "revokeDelete", target, perm) ELSE Finish(r)
  /\ UNCHANGED <<catalogue, grants, cache, cacheTTL>>

RevokeDelete(r) ==
  /\ pc[r] = "revokeDelete"
  /\ grants' = [grants EXCEPT ![req[r].target] = @ \ {req[r].perm}]
  /\ Goto(r, "invalidate")
  /\ UNCHANGED <<catalogue, cache, cacheTTL>>

-----------------------------------------------------------------------------
(* POST /permissions and DELETE /permissions/:id.                          *)

CreateFind(r, perm) ==
  /\ pc[r] = "createFind"
  /\ IF ValidCode(CodeOf[perm]) /\ ~CodeTaken(CodeOf[perm])
       THEN GotoWith(r, "createInsert", None, perm)
       ELSE Finish(r)
  /\ UNCHANGED <<catalogue, grants, cache, cacheTTL>>

(* Mutant: no UNIQUE constraint on permissions.code.                       *)
CreateInsertAnyway(r) ==
  /\ pc[r] = "createInsert"
  /\ catalogue' = IF catalogue[req[r].perm] = "unused"
                  THEN [catalogue EXCEPT ![req[r].perm] = "present"]
                  ELSE catalogue
  /\ Finish(r)
  /\ UNCHANGED <<grants, cache, cacheTTL>>

(* The UNIQUE constraint refuses a code created in the meantime.           *)
CreateInsert(r) ==
  /\ pc[r] = "createInsert"
  /\ catalogue' =
       IF catalogue[req[r].perm] = "unused" /\ ~CodeTaken(CodeOf[req[r].perm])
       THEN [catalogue EXCEPT ![req[r].perm] = "present"]
       ELSE catalogue
  /\ Finish(r)
  /\ UNCHANGED <<grants, cache, cacheTTL>>

DeleteFind(r, perm) ==
  /\ pc[r] = "deleteFind"
  /\ IF Present(perm) /\ ~isProtectedPermissionCode(CodeOf[perm])
       THEN GotoWith(r, "deleteCount", None, perm)
       ELSE Finish(r)
  /\ UNCHANGED <<catalogue, grants, cache, cacheTTL>>

CountAssignments(r) ==
  /\ pc[r] = "deleteCount"
  /\ IF \E u \in User : req[r].perm \in grants[u] THEN Finish(r)
                                                  ELSE Goto(r, "deletePerm")
  /\ UNCHANGED <<catalogue, grants, cache, cacheTTL>>

(* user_permissions follows by ON DELETE CASCADE; no cache is invalidated. *)
DeletePerm(r) ==
  /\ pc[r] = "deletePerm"
  /\ catalogue' = [catalogue EXCEPT ![req[r].perm] = "deleted"]
  /\ grants' = [u \in User |-> grants[u] \ {req[r].perm}]
  /\ Finish(r)
  /\ UNCHANGED <<cache, cacheTTL>>

-----------------------------------------------------------------------------
(* Login, refresh and deactivation invalidate the cache of their user.     *)
InvalidateUserCache(u) ==
  /\ cache[u] # {}
  /\ Drop(u)
  /\ UNCHANGED <<catalogue, grants, pc, req>>

(* Redis drops a set when its TTL runs out.                                *)
Elapse(ttl) == IF ttl > 0 THEN ttl - 1 ELSE ttl

Tick ==
  /\ \E u \in User : cacheTTL[u] > 0
  /\ cache' = [u \in User |-> IF cacheTTL[u] = 1 THEN {} ELSE cache[u]]
  /\ cacheTTL' = [u \in User |-> Elapse(cacheTTL[u])]
  /\ UNCHANGED <<catalogue, grants, pc, req>>

(* A database error or a panic stops a handler before its next statement;  *)
(* so does a failed invalidation, which is only logged.                    *)
Abort(r) ==
  /\ Failures
  /\ pc[r] # "idle"
  /\ Finish(r)
  /\ UNCHANGED <<catalogue, grants, cache, cacheTTL>>

(* The process restarts: its handlers are gone and New flushes the cache.  *)
(* FlushAll deletes key by key; an error stops it and is only logged.      *)
Restart(flushed) ==
  /\ Failures
  /\ pc' = [r \in Request |-> "idle"]
  /\ req' = [r \in Request |-> NoRequest]
  /\ cache' = [u \in User |-> IF u \in flushed THEN {} ELSE cache[u]]
  /\ cacheTTL' = [u \in User |-> IF u \in flushed THEN 0 ELSE cacheTTL[u]]
  /\ UNCHANGED <<catalogue, grants>>

-----------------------------------------------------------------------------
Step(r) ==
  \/ CacheGet(r) \/ CacheDown(r) \/ ListDegraded(r) \/ List(r)
  \/ PipeDel(r) \/ PipeSAdd(r) \/ PipeExpire(r) \/ PipeFails(r)
  \/ ActorCanGrant(r) \/ GrantInsert(r) \/ Invalidate(r) \/ RevokeDelete(r)
  \/ CreateInsert(r) \/ CountAssignments(r) \/ DeletePerm(r)
  \/ \E perm \in Perm :
       \/ CreateFind(r, perm) \/ DeleteFind(r, perm)
       \/ \E target \in User : GrantFind(r, target, perm) \/ RevokeFind(r, target, perm)

Next ==
  \/ \E r \in Request, actor \in User : Arrive(r, actor)
  \/ \E r \in Request : Step(r) \/ Abort(r)
  \/ \E u \in User : InvalidateUserCache(u)
  \/ Tick
  \/ \E flushed \in SUBSET User : Restart(flushed)

Spec == Init /\ [][Next]_vars

(* Handlers make progress and time passes.                                 *)
FairSpec ==
  /\ Spec
  /\ WF_vars(Tick)
  /\ \A r \in Request : WF_vars(Step(r))

-----------------------------------------------------------------------------
(* Properties.                                                             *)

(* Nobody can be granted what nobody held: every code in user_permissions  *)
(* is covered by a code granted at the start, through any chain of grants, *)
(* revocations, re-created codes and actors whose own rights are withdrawn *)
(* half-way.  This is what actorCanGrant is for.                           *)
NoEscalation ==
  \A u \in User : \A p \in grants[u] :
    \E v \in User : \E q \in InitialGrants[v] : Covers(CodeOf[q], CodeOf[p])

(* The catalogue never holds a code twice and no grant outlives its        *)
(* permission, although Create and Grant check first and insert later.     *)
CatalogueConsistent ==
  /\ \A p, q \in Perm : Present(p) /\ Present(q) /\ CodeOf[p] = CodeOf[q] => p = q
  /\ \A u \in User : \A p \in grants[u] : Present(p)

(* Whatever fills, grants and revocations raced and whatever failed, once  *)
(* user_permissions stops changing a cache that still holds a code its user*)
(* does not have any more is one without a TTL, its fill having broken off *)
(* between SADD and EXPIRE; the TTL ends every other stale copy.           *)
Agrees ==
  \A u \in User : cache[u] \subseteq CodesOf(u) \/ cacheTTL[u] = Never
CacheHeals == <>[][grants' = grants]_vars => <>[]Agrees

=============================================================================
