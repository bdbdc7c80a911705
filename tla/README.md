# A TLA+ model of secure-auth-platform

The platform is a Go service (`src/backend`) that authenticates users, keeps
their sessions in PostgreSQL, checks their permissions through a Redis cache and
limits login attempts, and a React front end (`src/frontend`) that calls it.
Handlers of concurrent requests share the database and Redis; no two SQL
statements of the code run in one transaction and no two Redis commands in a
`MULTI`. What can go wrong therefore happens *between* two statements, and that
is what the modules here are about.

## 1. The system and its parts

| part | state | operations | interacts with |
|---|---|---|---|
| session lifecycle (`service/auth.go`, `repository/session.go`, `auth/handler.go`) | table `sessions` | login, refresh with rotation and reuse detection, logout, list and revoke sessions | users, rate limiter, permission cache (invalidation), audit |
| Auth middleware (`middleware/auth.go`) | none | JWT, `users.active`, `TouchActivity` in front of each protected route | sessions, users |
| session cleanup (`app.go`) | a goroutine | hourly SELECT, DELETE, audit | sessions |
| login rate limiter (`cache/tiered_ratelimit.go`) | a counter and a block key per IP and email, in Redis | `Check`, `Reset` | login |
| permission check (`service/permission.go`, `cache/permissions.go`, `middleware/permission.go`) | a set of codes per user, in Redis | cache-aside read, fill, invalidate, flush | permission tables |
| permission catalogue and grants (`service/permission*.go`, `repository/permission.go`) | tables `permissions`, `user_permissions` | grant, revoke, create, delete, describe | cache |
| user administration (`service/user.go`) | table `users` | create; update, which reads, changes and writes back the row | sessions (revocation), cache, last-administrator check |
| startup (`app.go`, `main.go`, `database.go`) | the version of the schema | migrations, cache flush, seed of the first administrator, graceful stop | everything |
| passwords (`password/`, `user_validation.go`) | none | Argon2id and bcrypt, policy, breach lookup | login, user administration |
| impossible travel (`cache/last_login.go`, `geoip/`) | last login per user, in Redis | compare and store, raise an alert | login, audit |
| audit log | table `audit_logs` | append, list | everything |
| front end (`services/api.ts`, `AuthProvider.tsx`) | the access token and the user, in memory; the refresh cookie, in the browser | request, one refresh after a 401, login, logout, page load | HTTP |

The hard behaviour: two refreshes of one token; revocations of all kinds racing
with sessions about to be inserted; checks (`active`, `actorCanGrant`,
`CountAssignments`) that are stale when they are acted on; cache fills that
cross an invalidation; Redis commands that fail half-way through a sequence; a
process that stops between two statements; processes that start together on an
empty database; parallel calls of one page that all refresh. `PROJECT.json` lists these hazards
with their lines.

## 2. Modules

| module | models |
|---|---|
| `SessionLifecycle` | abstract: what the session service promises of a lineage |
| `Sessions` | sessions, the Auth middleware, (de)activation of accounts, the cleanup; implements `SessionLifecycle` |
| `ClientSession` | a page of the front end and its browser; extends `Sessions`, which is its server |
| `RateLimit` | the tiered limiter as `Login` uses it |
| `PermissionMatch` | pure: permission codes, wildcards, validation |
| `Authorization` | permission check, cache, grants and catalogue; extends `PermissionMatch` |
| `UserAdmin` | the users table: creation, update, rehash at login |
| `Startup` | processes migrating, seeding, serving and stopping on one database |
| `PasswordPolicy` | the checks on a new password, with reference definitions |
| `SessionsProofs` | theorems: the types, the end of a lineage, the refinement |
| `SessionsSafetyProofs` | theorems: who is served, who revokes, the cleanup; extends `SessionsProofs` |
| `ClientSessionProofs`, `RateLimitProofs`, `AuthorizationProofs`, `UserAdminProofs`, `StartupProofs`, `PasswordPolicyProofs` | theorems about the module they are named after |
| `MCSessions`, `MCClientSession`, `MCRateLimit`, `MCAuthorization`, `MCUserAdmin`, `MCPasswordPolicy` | instances for TLC (`Startup` needs none) |

### Sessions

`sessions` is the table; the lifetime of the JWT minted with a row is the field
`jwt_exp`, and a refresh token is identified with its row (32 random bytes,
looked up by hash). `pc[r]` is the statement that handler `r` runs next and
`req[r]` its local variables, so each action is one SQL statement with the Go
code up to the next one:

* login: `LoginArrive`, `FindByEmail`, `CreateSession`, `Respond`;
* refresh: `RefreshArrive`, `FindActive`, `FindUser`, `RevokeOld`,
  `CreateSession`, `Respond`, and on a miss `FindAny`, `Purge`;
* logout: `LogoutArrive`, `LogoutFind`, `LogoutRevoke`;
* protected routes: `AuthArrive` (the JWT is checked, no statement),
  `AuthUser`, `TouchSession`, then `ReadOnly`, `RevokeOthers`, or
  `RevokeSession` and `RevokeTarget`;
* `UserService.Update`: `UpdateArrive`, `WriteUser`, `RevokeAll`. It is modelled
  for `users.active` only (`UserAdmin` has the rest); who may call it is
  `Authorization`'s subject;
* cleanup: `CleanSelect`, `CleanDelete`, `CleanAudit`, `CleanFail`. A row
  revoked before the column `revoked_at` existed is not modelled (the code counts
  its retention from `created_at`).

`Abort` ends a handler before any statement: a database error, a panic, a
restart. `Respond` may be replaced by it, which is a lost response. Any token
ever issued may be presented at any time. Four pieces of state are history,
read by no guard: `root` (the login a session descends from), `ended`
(lineages ended with no refresh of theirs in flight), and `sawLive` and
`sawActive` (was the presented session usable, the account active, at some
moment since the request arrived).

### SessionLifecycle

The abstract specification knows lineages, named by the session their login
created, and no handlers, statements or clock: `Login` opens a lineage,
`Extend` adds a session never seen before to one that has not ended,
`Withdraw` takes sessions away on behalf of their owner and may end lineages
that are left with none, `Forget` is the cleanup. `Sessions` is mapped onto it
by `LineageState`, `LineageOwner`, `LineageLive` and `Used`;
`ImplementsLifecycle` is checked by `sessions` and proved. A deactivation acts
for the account it deactivates.

### ClientSession

One page and one browser. `token` and `user` are what `api.ts` and
`AuthProvider` keep in memory, `cookie` is the session whose refresh token the
browser holds. `call[r]` is a call of the page and `stage` the fetch it awaits:
`first`, `refresh` (inside `tryRefresh`), `second`. `Begin` and `PageLoad` start
a call; `Receive` takes the answer: `Refuse` (a 401, refresh), `Repeat`,
`GiveUp`, `LoggedIn`, or `Settle`, the end of the promise. On the server the
handler of `Sessions` with the same index runs (`Serve`), or fails
(`ServeError`, answered with a 500, or like a refusal where the middleware,
`Refresh` or the purge treats an error as one); `Outcome` is the status and the `Set-Cookie` of its answer,
which then waits in `resp[r]` until it is received, or `Lose` drops it: to the
page, a lost request and a lost answer are the same. Answers of parallel calls
arrive in any order. The page is the only client of its account. `history`
records which causes have occurred that can explain the loss of the session;
`overlap` means that one fetch was sent while another call was under way.

### RateLimit

`count`, `countTTL` and `blockTTL` are the Redis keys with their remaining TTL
(`Never` for a key without one). `CheckTTL`, `Incr`, `Expire`, `SetBlock` are
the commands of `Check`, run first for the IP and then for the email; after
`VerifySucceeds`, `ResetEmail` and `ResetIP`. `RedisError`, `ExpireFails` and
`ResetFails` are what the code does with errors; an INCR whose answer is lost
has moved the counter. `admitted` is history: the attempts let through per
tick.

### Authorization

`catalogue` and `grants` are the tables, `cache` and `cacheTTL` the Redis sets.
A request passes `RequirePermission` (`CacheGet`, or `CacheDown` and
`ListDegraded`; on a miss `List` and the fill `PipeDel`, `PipeSAdd`,
`PipeExpire`) and then runs its handler: `GrantFind`, `ActorCanGrant`,
`GrantInsert`, `Invalidate`; `RevokeFind`, `RevokeDelete`, `Invalidate`;
`CreateFind`, `CreateInsert`; `DeleteFind`, `CountAssignments`, `DeletePerm`.
The foreign key and the UNIQUE constraint of the migration are guards of the
INSERTs. `InvalidateUserCache` is the call that login, refresh and deactivation
make. `Restart` is the start of a new process: its handlers are gone and
`FlushAll` has deleted all keys, or those before its first error. A code is the
sequence of its segments, so that wildcard matching is a statement about
prefixes. Users are never deleted, so looking up the target user is left out.

### UserAdmin

`users` is the table with the columns email, active and password (`legacy`: the
hash is bcrypt), `star` the holders of the permission `*`. An update is
`Update` (the refusal to deactivate oneself), `FindByID`,
`UserHasPermissionCode` and `CountAdmins` for a deactivation, `FindByEmail` for
a new email, and `Write`, which writes back the whole row with the changes; a
creation is `CreateFind` and `CreateInsert`; a login with a legacy password is
`Login` and `UpdatePasswordHash`. `GrantStar` and `RevokeStar` are the writes of
`PermissionService`. The UNIQUE constraint on the email is a guard of the
writes. `disturbed` is history: has anybody else written either table since the
handler read its row?

`NeedsRehash` is what `password.Verify` reports.

### Startup

`boot[p]` is where process `p` is: `migrate`, `migrating`, `connect`, `ping`,
`load` (keys and GeoIP), `count`, `create`, `grant`, `serving`, `draining` or
`down`. `schema` is what golang-migrate makes of the database, under its lock:
`dirty` from the beginning of a migration to its end. The migrations of one
start are a single step; a process stopped among them leaves the schema dirty or,
between two of them, at a clean older version (`SchemaLeftBy`). Waiting for the
lock may time out (`Fail`). `SeedAdmin` is `Count`,
`Create` and `GrantAll`; the UNIQUE email makes `Create` fail in a process that
counted too early. `Fail` is an error of New or SeedAdmin, which is fatal;
`Kill` may come at any position, a SIGTERM before `main` listens included;
PostgreSQL and Redis stop and come back (`Toggle`). A service that is gone while
a process serves does not end it. `conflicts` and `interrupted` are history.

### PasswordPolicy

A password is typed character by character (`Type`) and validated (`Submit`),
with the answer of the leak service as an input: clean, pwned or an error.
Lengths and classes are those of characters, patterns those of UTF-8 bytes, as
in the code. `HasSequence`, `Repeats` and `HasRepetitivePatterns` have the loop
bounds of the code; `IsSequential` (one pass that counts, for each order, the
run that ends at each byte; an order is the set of its pairs of neighbours) and
`IsPeriodic` (a stretch in which each byte equals the one a period later) are
the references. The numbers 12, 128, 8, 10 and 3 are constants. `RepAssumption`
and `CommonAssumption` say what the code relies on between them, and
`CharAssumption` what it relies on in UTF-8: its byte arithmetic wraps round
(`b + 1` in a `byte`), which makes no sequence of 255 and 0 only because UTF-8
has no byte 255.

## 3. Runs

| run | question | result |
|---|---|---|
| `sessions` | Do ended lineages stay dead, is anybody served on a dead session or account, does `revoked_at` move? Is every step one of `SessionLifecycle`? | holds |
| `session_cleanup` | Does the cleanup audit what it deletes, and delete revoked rows in the end? Can a user end another's session? | holds |
| `session_rotation` | "o token anterior morre imediatamente" | violated |
| `client` | Does a page whose calls do not overlap stay signed in? What does a logout leave? Can a call loop? | yes; nothing of the login it ends; no |
| `client_refresh` | "o usuário nunca percebe" | violated by two parallel calls |
| `rate_limit` | How many attempts can a key let through? Is a key under attack locked out for ever? | at most twice (threshold − 1) per counter lifetime; only if a counter lost its TTL |
| `authorization` | Can a delegated administrator, or somebody it grants to, obtain more than was given out, through stale checks, revocations and re-created codes? | no |
| `authorization_cache` | Do checks that are stale when they are used leave duplicates or dangling grants? Does a stale cache heal? | no; yes, by its TTL, unless it lost it |
| `user_admin` | Are emails unique? Does a request change what nobody asked for, or remove the last administrator? | yes; only when requests overlap |
| `user_admin_last` | "cannot deactivate the last admin" | violated |
| `startup` | Does a process ever serve without schema or administrator? Which starts fail on the seed? Does every start end? | no; only those that counted together; yes |
| `password_policy` | Do the loops find every sequence and repetition, and nothing else? Are verdicts right with and without the leak service? | yes |

The violated ones are disagreements between a document or test and the code:

* **session_rotation**: `Refresh` selects the session and revokes it in two
  statements and ignores how many rows the UPDATE changed. Two refreshes with
  one token both select it, both "revoke" it and both insert a session.
* **client_refresh**: nothing makes the calls of a page share a refresh. Two
  calls refused together, as happens when the access token expires on a page
  that makes several requests at once, both send the same cookie; the second
  refresh finds it rotated, takes it for stolen and revokes every session of
  the user.
* **user_admin_last**: the administrators are counted before the row is written.
  Two administrators, one being deactivated: it is counted, the other one loses
  `*` (or is deactivated the same way), and the write goes ahead. Nobody is left
  who may grant `*`.

A deactivation also races with a login or refresh that read `active` earlier:
its session is inserted after the revocation, although `docs/database.md` says
"sessões revogadas". The middleware still refuses the account on every request
(`ServedOnlyIfValid`), so that session is of use only after a reactivation.

Further disagreements that the models contain, without a run of their own:

* The purge after a reuse revokes the rows that exist; a refresh of the same
  user already past its SELECT inserts its row afterwards, although
  `tests/auth_e2e_test.go:176` speaks of "todas as sessões do usuário".
  `EndedLineageStaysDead` is what remains true: with no refresh in flight, an
  ended lineage is dead for good.
* The error of EXPIRE is dropped, and only the attempt that saw 1 sends it
  (`docs/redis.md:42`: "setado na primeira tentativa"); after a failure, or a
  lost answer to INCR, the counter never expires and the key ends up blocked at
  every attempt. `LockoutEnds` makes this its only exception.
* A check that missed the cache reads the codes, a revocation deletes and
  invalidates, and the check fills the cache with what it read: the revoked
  code counts until the TTL ends (`docs/redis.md:70`: "não esperando o TTL").
  Nor is the fill the "substituição atômica" of `docs/redis.md:65`: the pipeline
  is no transaction, and two fills mix or break off between commands.
  `CacheHeals` is what remains true.
* Nobody repairs an administrator whose seed stopped before `GrantAll`: every
  later start finds a user and serves (`interrupted` in `ServingIsReady`). A
  process killed while it migrates leaves a dirty schema, with which no start
  succeeds.
* In the password policy two rules never apply. Every common password is
  shorter than the minimum length of 12, and the keyboard row `zxcvbnm` is
  shorter than the 8 bytes a sequence has. `docs/backend.md:125` says that the
  minimum is 8, `docs/backend.md:40` that it is 12, as in the code.

### Bounds

`sessions` has one user, three rows and two handlers: three rows are a login
and two refreshes, enough for a fork of a lineage or for a refresh racing with
a purge of a second session; two handlers are one race. `MaxClock` 2 with TTLs
of 1 lets a session and its JWT be valid, at the boundary, and expired, which
tells `expires_at > now` from `expires_at < now`. `session_cleanup` has two
users (ownership) and one handler beside the goroutine, and `Retention` 0, the
value at which the cutoff lies closest to rows still being written.
`client` has two calls in flight, three in all (a login, one more, and a
logout or a page load; three rows allow a login and two renewals), and an access token that lasts one tick of the three
that a session does: long enough for a login whose `loadMe` outlasts two access
tokens, fails, and is repeated on the form still shown, after which a logout
meets two lineages of the page. `rate_limit` has two attempts in flight on one
IP and email, and two tiers, the first with a block shorter than the counter's lifetime, so that
refused attempts meet a counter still alive, the second with one as long;
counters saturate at the highest threshold, above which all values act alike.
The instances of `Authorization` differ in the codes. In `authorization` one user
holds `permissions.*` and must not reach `*`; `permissions.grant` can be deleted
and created again under another id. That wildcard is not among the codes of the
present migrations, which have `users.*` only (`docs/planos/plano2.md:317` lists
wildcards of other modules); it stands for the rights to grant, revoke, create
and delete, which as codes of their own make the instance too large, and it lets
a narrower code outlive the wildcard it was granted from. The run reaches a grant
whose actor lost the right after its check, a grant of a permission deleted and
created again meanwhile, and a user who has only what was passed on to it.
`Failures` is off there: a failure stops a handler or leaves a stale cache,
neither of which `actorCanGrant` reads, `authorization_cache` has them, and
`NobodyEscalates` covers them. The other instance has an administrator and one code with
two ids, to be created, granted, revoked, deleted and created again (one user
is enough there: each user has a cache key of its own, and two handlers make
every race between a fill and an invalidation of one key), with a TTL of two
ticks, so that a set can be read between them. `user_admin` starts with an administrator whose password
is legacy and a free id, and has two emails, two passwords and two handlers: one
account can be created or updated to the other's email, and each account can be
the last administrator. Its request bodies change nothing modelled, one column,
or email and active together.
`startup` has four processes, of which one cannot read its keys and one has no
password, so that up to two conflicts can be counted, and one kill: more kills
only repeat what one leaves behind, a dirty or older schema or a bare
administrator. All processes have the same `ADMIN_EMAIL`, as replicas of one
deployment do; with different ones the seeds would not collide.
`password_policy` scales the numbers of the code down (4 to 6 characters,
sequences of 3, repetitions of 5 with periods up to 2) and tries every password
of up to seven of five characters: two letters next to each other, an upper-case
letter that continues them in lower case, a digit and a two-byte letter, with a
keyboard row, two parts of a name, one of them too short to count, and an email
address. `RepLen > 2 * MaxPeriod` holds for 10 and 3 as it does for 5 and 2.
Identifiers are symmetric where no liveness is checked.

### Fairness

* `Sessions!FairSpec`: time passes and the cleanup goroutine, a loop around a
  ticker, keeps running. DELETE is strongly fair: a round may fail, not every
  round for ever. Handlers are under no fairness; a client may go away.
* `RateLimit!FairSpec`: time passes, handlers finish (every Redis command has a
  timeout in the client library) and somebody keeps trying, which is the case
  the property is about. Commands fail and answers get lost, but the TTL and
  INCR commands that attempts keep sending for a key do not fail for ever
  (strong fairness, one condition for each key and command); EXPIRE may.
* `Authorization!FairSpec`: time passes and handlers finish, with an answer or
  with an error. Nothing is assumed of Redis, the database or restarts.
* `Startup!FairSpec`: a process that runs takes its next step, or fails at it
  when a service it needs is gone. Nothing makes anybody start a process (the
  container of the API has no restart policy) or bring a service back.

The cleanup run also bounds the clock, so `DeadRowsCollected` speaks only of
revoked rows whose retention ends before `MaxClock`.

## 4. Theorems

TLAPS proves, for every value of the constants that satisfies the named
assumptions of the modules:

* `SessionsProofs!TypeCorrect` and `SessionsProofs!EndedStaysDead`. The
  invariant, `LineageInv`, adds two parts to the property. `RowsOK`: a used row
  names its user and its root, and an unused row is not in use by any token.
  `RequestsOK`: what a handler past its checks knows of its session; above all,
  the lineage of a refresh in its window (selected, not yet re-inserted) has
  not been ended. The property alone is not inductive because `CreateSession`
  makes a live row without looking at its lineage. The definition of `ended`,
  which leaves out lineages with a refresh in flight, is what makes it true;
  a purge during a refresh shows that nothing stronger is.
* `SessionsProofs!SessionsImplementLifecycle`: the refinement. Every
  action is a stutter or one abstract step: `CreateSession` is `Login` or
  `Extend`, `Revoke` by a handler a `Withdraw`, `CleanDelete` a `Forget`. Beside
  `LineageInv` it needs `OwnerInv`: all rows of a lineage have one user
  (`RowOwners`), and a handler past its checks acts for the user of the rows it
  is about to revoke or extend (`RequestOwner`). Without it `Withdraw` could not
  name an owner.
* `SessionsSafetyProofs!OnlyValidServed`, `AuditMatchesDelete`, `RevokedOnce`
  and `RevokedByOwner`. What one step may do to one row is `RowStep`: insert it,
  revoke it at the present time for its owner, delete it in the cleanup, or
  leave it as it is;
  `RowsStep` shows that every step does one of these to every row, which gives
  the two action properties. `SafetyInv` adds to `LineageInv` and `OwnerInv`
  what a handler has seen (`SeenInv`: a row that is not live never becomes live
  again, so a session that a later statement still finds usable was usable when
  the request arrived; an account found active was active then or has been
  re-activated since) and what the cleanup holds (`CleanerInv`: between its
  SELECT and its DELETE, the rows it found are still the rows its cutoff
  describes).
* `AuthorizationProofs!AuthorizationTypeCorrect`, `NobodyEscalates` and
  `CatalogueStaysConsistent`. The invariant `EscalationInv` says of a grant
  that passed `actorCanGrant` and is about to be inserted that its code is
  *derived*, covered by a code granted at the start. This is a fact about
  constants, so no revocation in between can undo it: a stale check of
  `actorCanGrant` is harmless for escalation. The step from an actor's codes
  to what it may grant is `CoversTransitive`, that wildcard matching is
  transitive. For the catalogue, the constraints of the database re-check what
  the service checked too early.
* `UserAdminProofs!UserAdminTypeCorrect`, `EmailsStayUnique`,
  `OnlyAskedIsChanged` and `LoneUpdateIsSafe`. The last two are action properties; they rest on
  `LocalsOK`, which says of every handler nobody has disturbed that the row it
  read is still the row of the table, and, once it is past the check on the
  administrators, that its write leaves one (`LeavesAdmin`).
* `ClientSessionProofs!SequentialStaysSignedIn`, `LogoutIsComplete`,
  `CallsAlwaysAdvance` and `ClientTypeCorrect`. `ClientInv` rests on
  `SafetyInv`, as every step of the server is one of `Sessions`. `Exchange`
  ties the stage of a call to the handler that runs for it and to the answer on
  its way; `Server` says that the page deactivates nobody and that
  no row outlives one minted now; and, as long as no call has overlapped another
  and none has failed, `Page`: at most one call is under way, the token, if any,
  names the session of the cookie, and that session is the only live one of its
  lineage (`Sole`) and, while the page shows a user, has not expired (`Fresh`).
  During a refresh the one live session is for a while known only to a handler
  (`Handled`) or to an answer (`Answered`), which is why the property alone is
  not inductive. This proof changed the model: the property
  behind `LogoutIsComplete` said before that no session of the *user* is left,
  and there was no invariant for it. TLC, with a longer-lived session, found
  the counterexample: a login repeated because its `loadMe` failed leaves the
  session of the first one usable, and `logout()` ends the one in the cookie.
* `RateLimitProofs!AdmissionsStayBounded` and `RateLimitTypeCorrect`. The
  invariant `LimitInv`: an attempt under way works on one of its two keys
  (`AttemptOK`), a counter is there exactly as long as its TTL (`CounterOK`),
  and what a key let through in the last stretch as long as a counter lives
  (`TwoLives`) splits into the present life of the counter, at most its value,
  and at most one life before it, which is older than what the present TTL has
  used up. Each part is below the threshold. The lemmas about `Total`, the
  recursive sum over a stretch, say how it changes when time passes and when an
  attempt is admitted.
* `StartupProofs!ServesWhenReady`, `ConflictsBounded` and `StartupTypeCorrect`,
  with `StartupInv`: a process past its migration has a migrated schema, one past
  the INSERT of the administrator an account, and an account without permissions
  is being granted them or was interrupted, and one process migrates at a time, so
  one that is stopped there takes no migrated schema back (`ReadyInv`); once the account
  exists, the starts that failed on it and those still about to create it are
  together fewer than the processes with a password (`ConflictInv`).
* `PasswordPolicyProofs!SequencesAllFound`, `RepetitionsAllFound`,
  `VerdictsCorrect`, `WeakNeverCured` and `PolicyTypeCorrect`. The invariant is
  small (`VerdictInv`: the last verdict is about what has been typed); the work
  is in lemmas about passwords of any length. `RunsFollow` turns the run counted
  by the reference into a window that follows an order; `WindowFollows` shows
  that this is what the code looks for, `RowFollows` that neighbours on a row
  whose keys differ lie on it together. `CopiesArePeriodic` turns the copies
  compared by `hasRepetitivePatterns` into a period; `NeededFacts`, that at
  least three copies make a repetition, is why its outer loop may stop three
  patterns before the end. The conversion from characters to bytes is a recursion
  (`FlattenSeq`); that it yields at least one byte per character
  (`EncodedFacts`) is why no common password, each shorter than the minimum,
  is ever met.

The assumptions: `None` is not an identifier; TTLs are naturals and the access
token does not outlive the refresh token (15 minutes and 30 days by default);
codes are non-empty sequences; seeded codes, and the emails at the start, are
distinct; there are finitely many user ids (the administrators are counted);
those of `PasswordPolicy` described above, and that the keys of a row are
different and words are byte sequences.

Induction over numbers is used where a recursive function or a sequence is
unfolded. It is stated with sets (`NumberInduction`: a set of naturals with 0
and all successors is `Nat`) and derived from the well-foundedness of `<`; the
induction theorems of the library that take an operator as a parameter cannot
be instantiated by the provers used here.

Only model-checked: the four liveness properties (`DeadRowsCollected`,
`LockoutEnds`, `CacheHeals`, `StartEnds`), which rest on fairness and are
outside the reach of this prover. The properties of the three violated runs are
false. Every other property of a run is stated by a theorem.

## 5. What is not modelled

Cryptography (Argon2id, bcrypt, RS256, SHA-256), GeoIP, HTTP parsing and most
status codes, e-mail validation, configuration values, `UpdateDescription`,
roles, the pages of the front end and infrastructure. Impossible travel compares
a login with the last one in Redis and writes an audit record, and audit records
are never read back by the program: neither changes the outcome of a request.
Of the leak service only its answer is modelled, of golang-migrate only its lock,
with its timeout, and its dirty flag. The transaction isolation of PostgreSQL is not an issue as
each statement is a transaction of its own; each is atomic in the model.

Two further differences between documents and code, seen while modelling:
`docs/redis.md` describes one window of 15 minutes and says that a login leaves
the counter of the IP alone, while the code has three tiers and clears both;
and the counter's TTL, which a comment says "deve cobrir a janela mais longa",
equals the longest block but starts earlier.

## 6. Plan

1. Impossible travel: two logins that read the same last location.
2. An abstract specification of the permission cache (a set of codes that may
   lag behind the tables by one TTL) and the proof that `Authorization`
   implements it; today `CacheHeals` says so as a liveness property.
3. The safety half of the liveness properties, as theorems: a counter with a
   TTL, or a cached set with one, is gone when the TTL has elapsed.
