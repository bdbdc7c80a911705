------------------------------ MODULE Startup -------------------------------
(***************************************************************************)
(* Processes of the API starting, seeding the first administrator, serving *)
(* and stopping on one database: main, app.New, SeedAdmin and Close.       *)
(* Several processes may start at once, any of them may be killed between  *)
(* two statements (until main installs its handler a SIGTERM kills), and   *)
(* PostgreSQL and Redis come and go.                                       *)
(***************************************************************************)
EXTENDS Naturals, FiniteSets

CONSTANTS
  Process,
  Configured,   \* processes that can read their keys and GeoIP database
  Passworded,   \* processes that have an ADMIN_PASSWORD
  MaxKills      \* bounds the number of kills

ASSUME ProcessAssumption ==
  /\ IsFiniteSet(Process)
  /\ Configured \subseteq Process /\ Passworded \subseteq Process
ASSUME MaxKillsAssumption == MaxKills \in Nat

VARIABLES
  up,          \* the services that answer
  schema,      \* its version: "old", "dirty" inside a migration, "new"
  admin,       \* the seeded account: "absent", "bare", "full" of permissions
  boot,        \* where each process is
  kills,       \* number of kills
  conflicts,   \* history: starts that failed on the UNIQUE email
  interrupted  \* history: a seed stopped between its INSERT and its grants

vars == <<up, schema, admin, boot, kills, conflicts, interrupted>>

Service == {"postgres", "redis"}

Booting == {"migrate", "migrating", "connect", "ping", "load", "count",
            "create", "grant"}

TypeOK ==
  /\ up \in SUBSET Service
  /\ schema \in {"old", "dirty", "new"}
  /\ admin \in {"absent", "bare", "full"}
  /\ boot \in [Process -> Booting \cup {"down", "serving", "draining"}]
  /\ kills \in 0 .. MaxKills
  /\ conflicts \in Nat
  /\ interrupted \in BOOLEAN

Init ==
  /\ up = Service
  /\ schema = "old"
  /\ admin = "absent"
  /\ boot = [p \in Process |-> "down"]
  /\ kills = 0 /\ conflicts = 0
  /\ interrupted = FALSE

-----------------------------------------------------------------------------
Goto(p, from, to) == boot[p] = from /\ boot' = [boot EXCEPT ![p] = to]

Start(p) ==
  /\ Goto(p, "down", "migrate")
  /\ UNCHANGED <<up, schema, admin, kills, conflicts, interrupted>>

(* The statements of each position need these services.                    *)
Needs(phase) ==
  CASE phase = "ping" -> {"redis"}
    [] phase \in {"migrate", "migrating", "connect", "count", "create", "grant"}
         -> {"postgres"}
    [] OTHER -> {}

(* The library that migrates takes a lock, and marks the schema dirty      *)
(* while one of the migrations runs: stopped inside one it leaves the      *)
(* schema dirty, stopped between two at a clean version, if an old one.    *)
Locked == \E q \in Process : boot[q] = "migrating"

SchemaLeftBy(p) == IF boot[p] = "migrating" THEN {"dirty", "old"} ELSE {schema}

(* An error of New or SeedAdmin is fatal.  Waiting for the lock times out. *)
Fail(p) ==
  /\ boot[p] \in Booting
  /\ \/ ~(Needs(boot[p]) \subseteq up)
     \/ boot[p] = "migrate" /\ Locked
  /\ boot' = [boot EXCEPT ![p] = "down"]
  /\ schema' \in SchemaLeftBy(p)
  /\ interrupted' = (interrupted \/ boot[p] = "grant")
  /\ UNCHANGED <<up, admin, kills, conflicts>>

-----------------------------------------------------------------------------
(* RunMigrations: from an old schema to the new one.  The library refuses  *)
(* to start from a dirty one.                                              *)

MigrateBegin(p) ==
  /\ schema = "old" /\ ~Locked
  /\ Goto(p, "migrate", "migrating")
  /\ schema' = "dirty"
  /\ UNCHANGED <<up, admin, kills, conflicts, interrupted>>

MigrateEnd(p) ==
  /\ Goto(p, "migrating", "connect")
  /\ schema' = "new"
  /\ UNCHANGED <<up, admin, kills, conflicts, interrupted>>

(* ErrNoChange goes on; a dirty schema is an error.                        *)
MigrateNothing(p) ==
  /\ schema # "old" /\ ~Locked
  /\ Goto(p, "migrate", IF schema = "new" THEN "connect" ELSE "down")
  /\ UNCHANGED <<up, schema, admin, kills, conflicts, interrupted>>

-----------------------------------------------------------------------------
(* The rest of New: PostgreSQL and Redis answer, keys and GeoIP load.      *)

Connect(p) ==
  /\ Goto(p, "connect", "ping")
  /\ UNCHANGED <<up, schema, admin, kills, conflicts, interrupted>>

Ping(p) ==
  /\ Goto(p, "ping", "load")
  /\ UNCHANGED <<up, schema, admin, kills, conflicts, interrupted>>

(* Mutant: the name of a step that SeedAdmin does not have.                *)
LoadSwapped(p) ==
  /\ Goto(p, "load", IF p \in Configured THEN "seed" ELSE "down")
  /\ UNCHANGED <<up, schema, admin, kills, conflicts, interrupted>>

Load(p) ==
  /\ Goto(p, "load", IF p \in Configured THEN "count" ELSE "down")
  /\ UNCHANGED <<up, schema, admin, kills, conflicts, interrupted>>

-----------------------------------------------------------------------------
(* SeedAdmin: three statements, no transaction.                            *)

(* Mutant: a process that only skips the seed when there are two users.    *)
CountOffByOne(p) ==
  /\ Goto(p, "count", IF p \in Passworded THEN "create" ELSE "down")
  /\ UNCHANGED <<up, schema, admin, kills, conflicts, interrupted>>

(* Mutant: a process that finds no user serves when it has no password.    *)
CountWithoutPassword(p) ==
  /\ Goto(p, "count", IF admin # "absent" \/ p \notin Passworded
                      THEN "serving" ELSE "create")
  /\ UNCHANGED <<up, schema, admin, kills, conflicts, interrupted>>

Count(p) ==
  /\ Goto(p, "count", CASE admin # "absent" -> "serving"
                        [] admin = "absent" /\ p \in Passworded -> "create"
                        [] OTHER -> "down")
  /\ UNCHANGED <<up, schema, admin, kills, conflicts, interrupted>>

(* Mutant: a conflict is answered by trying the same INSERT again.         *)
CreateRetrying(p) ==
  /\ admin = "absent"
  /\ Goto(p, "create", "grant")
  /\ admin' = "bare"
  /\ UNCHANGED <<up, schema, kills, conflicts, interrupted>>

(* The email is UNIQUE: another process may have created the account since *)
(* this one counted.                                                       *)
Create(p) ==
  /\ IF admin = "absent"
       THEN /\ Goto(p, "create", "grant")
            /\ admin' = "bare"
            /\ UNCHANGED conflicts
       ELSE /\ Goto(p, "create", "down")
            /\ conflicts' = conflicts + 1
            /\ UNCHANGED admin
  /\ UNCHANGED <<up, schema, kills, interrupted>>

GrantAll(p) ==
  /\ Goto(p, "grant", "serving")
  /\ admin' = "full"
  /\ UNCHANGED <<up, schema, kills, conflicts, interrupted>>

-----------------------------------------------------------------------------
(* main listens: an error of the listener is fatal, a SIGTERM is followed  *)
(* by a graceful shutdown and Close.                                       *)

ListenFails(p) ==
  /\ Goto(p, "serving", "down")
  /\ UNCHANGED <<up, schema, admin, kills, conflicts, interrupted>>

Shutdown(p) ==
  /\ Goto(p, "serving", "draining")
  /\ UNCHANGED <<up, schema, admin, kills, conflicts, interrupted>>

Close(p) ==
  /\ Goto(p, "draining", "down")
  /\ UNCHANGED <<up, schema, admin, kills, conflicts, interrupted>>

Kill(p) ==
  /\ kills < MaxKills
  /\ boot[p] # "down"
  /\ boot' = [boot EXCEPT ![p] = "down"]
  /\ kills' = kills + 1
  /\ schema' \in SchemaLeftBy(p)
  /\ interrupted' = (interrupted \/ boot[p] = "grant")
  /\ UNCHANGED <<up, admin, conflicts>>

(* A service stops or comes back; a serving process goes on without it.    *)
Toggle(service) ==
  /\ up' = IF service \in up THEN up \ {service} ELSE up \cup {service}
  /\ UNCHANGED <<schema, admin, boot, kills, conflicts, interrupted>>

-----------------------------------------------------------------------------
Step(p) ==
  /\ Needs(boot[p]) \subseteq up
  /\ \/ MigrateBegin(p) \/ MigrateEnd(p) \/ MigrateNothing(p)
     \/ Connect(p) \/ Ping(p) \/ Load(p)
     \/ Count(p) \/ Create(p) \/ GrantAll(p)

Next ==
  \/ \E p \in Process : Start(p) \/ Step(p) \/ Fail(p) \/ Kill(p)
                        \/ ListenFails(p) \/ Shutdown(p) \/ Close(p)
  \/ \E service \in Service : Toggle(service)

Spec == Init /\ [][Next]_vars

(* A process that runs takes its next step, or fails at it.                *)
FairSpec == Spec /\ \A p \in Process : WF_vars(Step(p) \/ Fail(p))

-----------------------------------------------------------------------------
(* Properties.                                                             *)

(* A process serves only on a migrated database with an administrator; and *)
(* somebody holds all permissions, or is about to (SeedAdmin of another    *)
(* process has inserted the account and not yet granted), or a seed was    *)
(* stopped in between, which no later start repairs.                       *)
ServingIsReady ==
  (\E p \in Process : boot[p] \in {"serving", "draining"}) =>
    /\ schema = "new"
    /\ admin # "absent"
    /\ \/ admin = "full"
       \/ \E q \in Process : boot[q] = "grant"
       \/ interrupted

(* Only processes that counted before the account existed fail on it: of   *)
(* those that start together all but one do, and no later start does.      *)
SeedConflictsBounded == conflicts = 0 \/ conflicts < Cardinality(Passworded)

(* A start ends, in service or not, although processes wait for each       *)
(* other's migration and services come and go.                             *)
StartEnds ==
  \A p \in Process : boot[p] \in Booting ~> boot[p] \notin Booting

=============================================================================
