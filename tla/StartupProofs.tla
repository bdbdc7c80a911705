--------------------------- MODULE StartupProofs ----------------------------
(***************************************************************************)
(* Proofs about Startup, for any number of processes, however often they   *)
(* are killed and restarted and whatever services come and go.             *)
(***************************************************************************)
EXTENDS Startup, FiniteSetTheorems, TLAPS

Past == {"connect", "ping", "load", "count", "create", "grant", "serving", "draining"}

(* What a process passed on its way stays so: nothing leaves a migrated    *)
(* schema, and nothing removes the account.  One process migrates at a     *)
(* time, so one that is stopped there takes no migrated schema back.       *)
ReadyInv ==
  /\ \A p \in Process : boot[p] \in Past => schema = "new"
  /\ \A p \in Process : boot[p] = "migrating" =>
       schema = "dirty" /\ \A q \in Process : boot[q] = "migrating" => q = p
  /\ \A p \in Process :
       boot[p] \in {"grant", "serving", "draining"} => admin # "absent"
  /\ admin = "bare" => interrupted \/ \E q \in Process : boot[q] = "grant"

(* Processes that counted no user and have not yet inserted one.           *)
Creating == {p \in Process : boot[p] = "create"}

(* Nobody starts creating once the account exists; so from its INSERT on,  *)
(* failed starts and those that still may fail are fewer than the          *)
(* processes that have a password, the one that succeeded being one.       *)
ConflictInv ==
  /\ Creating \subseteq Passworded
  /\ admin = "absent" => conflicts = 0
  /\ admin # "absent" => conflicts + Cardinality(Creating) < Cardinality(Passworded)

StartupInv == TypeOK /\ ReadyInv /\ ConflictInv

LEMMA StartupInit == Init => StartupInv
<1> SUFFICES ASSUME Init PROVE StartupInv
  OBVIOUS
<1>1. TypeOK
  <2>1. kills \in 0 .. MaxKills /\ conflicts \in Nat
    BY MaxKillsAssumption DEF Init
  <2>2. /\ up \in SUBSET Service /\ schema \in {"old", "dirty", "new"}
        /\ admin \in {"absent", "bare", "full"} /\ interrupted \in BOOLEAN
        /\ boot \in [Process -> Booting \cup {"down", "serving", "draining"}]
    BY DEF Init
  <2> QED
    BY <2>1, <2>2 DEF TypeOK
<1>2. ReadyInv
  BY DEF Init, ReadyInv, Past
<1>3. ConflictInv
  BY DEF Init, ConflictInv, Creating
<1> QED
  BY <1>1, <1>2, <1>3 DEF StartupInv

-----------------------------------------------------------------------------
(* Sets of processes are finite, and a set that shrinks has no more        *)
(* elements.                                                               *)
LEMMA ProcessSets ==
  /\ IsFiniteSet(Passworded) /\ Cardinality(Passworded) \in Nat
  /\ \A S \in SUBSET Process :
       /\ IsFiniteSet(S) /\ Cardinality(S) \in Nat
       /\ \A T \in SUBSET S :
            Cardinality(T) \in Nat /\ Cardinality(T) <= Cardinality(S)
  /\ \A S \in SUBSET Process : \A p \in S :
       Cardinality(S \ {p}) = Cardinality(S) - 1
<1>1. ASSUME NEW S \in SUBSET Process
      PROVE  IsFiniteSet(S) /\ Cardinality(S) \in Nat
  BY ProcessAssumption, FS_Subset, FS_CardinalityType
<1>2. ASSUME NEW S \in SUBSET Process, NEW T \in SUBSET S
      PROVE  Cardinality(T) \in Nat /\ Cardinality(T) <= Cardinality(S)
  BY <1>1, FS_Subset, FS_CardinalityType
<1>3. ASSUME NEW S \in SUBSET Process, NEW p \in S
      PROVE  Cardinality(S \ {p}) = Cardinality(S) - 1
  BY <1>1, FS_RemoveElement
<1>4. Passworded \in SUBSET Process
  BY ProcessAssumption
<1> QED
  BY <1>1, <1>2, <1>3, <1>4

(* One process moves; the others stay.                                     *)
LEMMA MoveFacts ==
  ASSUME TypeOK, NEW p \in Process, NEW to,
         boot' = [boot EXCEPT ![p] = to]
  PROVE  /\ boot'[p] = to
         /\ \A q \in Process \ {p} : boot'[q] = boot[q]
         /\ Creating' = IF to = "create" THEN Creating \cup {p} ELSE Creating \ {p}
  BY DEF TypeOK, Creating

-----------------------------------------------------------------------------
(* The types.                                                              *)
LEMMA TypeNext == TypeOK /\ [Next]_vars => TypeOK'
<1> SUFFICES ASSUME TypeOK, [Next]_vars PROVE TypeOK'
  OBVIOUS
<1> USE MaxKillsAssumption DEF TypeOK, Booting, Service
<1>1. ASSUME NEW p \in Process, Start(p) PROVE TypeOK'
  BY <1>1 DEF Start, Goto
<1>2. ASSUME NEW p \in Process, Step(p) PROVE TypeOK'
  <2>1. CASE MigrateBegin(p) \/ MigrateEnd(p) \/ MigrateNothing(p)
    BY <2>1 DEF MigrateBegin, MigrateEnd, MigrateNothing, Goto
  <2>2. CASE Connect(p) \/ Ping(p) \/ Load(p) \/ GrantAll(p)
    BY <2>2 DEF Connect, Ping, Load, GrantAll, Goto
  <2>3. CASE Count(p) \/ Create(p)
    BY <2>3 DEF Count, Create, Goto
  <2> QED
    BY <1>2, <2>1, <2>2, <2>3 DEF Step
<1>3. ASSUME NEW p \in Process, Fail(p) \/ Kill(p) PROVE TypeOK'
  <2>1. interrupted' \in BOOLEAN
    BY <1>3, Zenon DEF Fail, Kill
  <2>2. boot' \in [Process -> Booting \cup {"down", "serving", "draining"}]
    BY <1>3 DEF Fail, Kill
  <2>3. kills' \in 0 .. MaxKills
    BY <1>3 DEF Fail, Kill
  <2>4. up' = up /\ admin' = admin /\ conflicts' = conflicts
    BY <1>3 DEF Fail, Kill
  <2>5. schema' \in {"old", "dirty", "new"}
    BY <1>3 DEF Fail, Kill, SchemaLeftBy
  <2> QED
    BY <2>1, <2>2, <2>3, <2>4, <2>5
<1>4. ASSUME NEW p \in Process, ListenFails(p) \/ Shutdown(p) \/ Close(p)
      PROVE  TypeOK'
  BY <1>4 DEF ListenFails, Shutdown, Close, Goto
<1>5. ASSUME NEW service \in Service, Toggle(service) PROVE TypeOK'
  BY <1>5 DEF Toggle
<1>6. CASE UNCHANGED vars
  BY <1>6 DEF vars
<1> QED
  BY <1>1, <1>2, <1>3, <1>4, <1>5, <1>6 DEF Next

-----------------------------------------------------------------------------
(* Who serves.                                                             *)
LEMMA ReadyNext ==
  TypeOK /\ ReadyInv /\ [Next]_vars => ReadyInv'
<1> SUFFICES ASSUME TypeOK, ReadyInv, [Next]_vars PROVE ReadyInv'
  OBVIOUS
<1> USE DEF ReadyInv
(* A process moves to a position for which it need not have passed more,   *)
(* and leaves the tables alone.                                            *)
<1>q. ASSUME NEW p \in Process, NEW to, boot' = [boot EXCEPT ![p] = to],
             schema' = schema, admin' = admin,
             interrupted' = interrupted, boot[p] # "grant", to # "migrating",
             to \in Past => schema = "new",
             to \in {"grant", "serving", "draining"} => admin # "absent"
      PROVE  ReadyInv'
  BY <1>q, MoveFacts
<1>1. ASSUME NEW p \in Process, Start(p) PROVE ReadyInv'
  BY <1>1, <1>q DEF Start, Goto, Past
<1>2. ASSUME NEW p \in Process, Step(p) PROVE ReadyInv'
  <2>1. CASE MigrateBegin(p)
    <3>1. /\ boot' = [boot EXCEPT ![p] = "migrating"]
          /\ admin' = admin /\ interrupted' = interrupted
          /\ boot[p] = "migrate"
      BY <2>1 DEF MigrateBegin, Goto
    <3>2. \A q \in Process : boot'[q] \notin Past
      BY <2>1, <3>1, MoveFacts DEF MigrateBegin, Past
    <3>3. schema' = "dirty" /\ \A q \in Process : boot'[q] = "migrating" => q = p
      BY <2>1, <3>1, MoveFacts DEF MigrateBegin, Locked
    <3> QED
      BY <3>1, <3>2, <3>3, MoveFacts DEF Past
  <2>2. CASE MigrateEnd(p)
    <3>1. /\ boot[p] = "migrating" /\ schema' = "new"
          /\ boot' = [boot EXCEPT ![p] = "connect"]
          /\ admin' = admin /\ interrupted' = interrupted
      BY <2>2 DEF MigrateEnd, Goto
    <3>2. boot'[p] = "connect" /\ \A q \in Process \ {p} : boot'[q] = boot[q]
      BY <3>1, MoveFacts
    <3>3. \A q \in Process : boot'[q] # "migrating"
      BY <3>1, <3>2
    <3> QED
      BY <3>1, <3>2, <3>3
  <2>3. CASE MigrateNothing(p)
    BY <2>3, <1>q DEF MigrateNothing, Goto, Past
  <2>4. CASE Connect(p) \/ Ping(p) \/ Load(p)
    BY <2>4, <1>q DEF Connect, Ping, Load, Goto, Past
  <2>5. CASE Count(p)
    BY <2>5, <1>q DEF Count, Goto, Past
  <2>6. CASE Create(p)
    <3>1. CASE admin = "absent"
      BY <2>6, <3>1, MoveFacts DEF Create, Goto, Past
    <3>2. CASE admin # "absent"
      BY <2>6, <3>2, <1>q DEF Create, Goto, Past
    <3> QED
      BY <3>1, <3>2
  <2>7. CASE GrantAll(p)
    BY <2>7, MoveFacts DEF GrantAll, Goto, Past
  <2> QED
    BY <1>2, <2>1, <2>2, <2>3, <2>4, <2>5, <2>6, <2>7 DEF Step
<1>3. ASSUME NEW p \in Process, Fail(p) \/ Kill(p) PROVE ReadyInv'
  <2>1. /\ boot' = [boot EXCEPT ![p] = "down"]
        /\ schema' \in SchemaLeftBy(p) /\ admin' = admin
    BY <1>3 DEF Fail, Kill
  <2>2. interrupted' <=> interrupted \/ boot[p] = "grant"
    BY <1>3, Zenon DEF Fail, Kill
  <2>3. CASE boot[p] = "migrating"
    <3>1. schema = "dirty" /\ \A q \in Process : boot[q] \notin Past
      BY <2>3 DEF Past
    <3>2. boot'[p] = "down" /\ \A q \in Process \ {p} : boot'[q] = boot[q]
      BY <2>1, MoveFacts
    <3>3. \A q \in Process : boot'[q] # "migrating"
      BY <2>3, <3>2
    <3>4. \A q \in Process : boot'[q] \notin Past
      BY <3>1, <3>2 DEF Past
    <3> QED
      BY <2>1, <2>2, <2>3, <3>2, <3>3, <3>4 DEF Past
  <2>4. CASE boot[p] # "migrating"
    BY <2>1, <2>2, <2>4, MoveFacts DEF Past, SchemaLeftBy
  <2> QED
    BY <2>3, <2>4
<1>4. ASSUME NEW p \in Process, ListenFails(p) \/ Shutdown(p) \/ Close(p)
      PROVE  ReadyInv'
  BY <1>4, <1>q DEF ListenFails, Shutdown, Close, Goto, Past
<1>5. CASE UNCHANGED vars \/ \E service \in Service : Toggle(service)
  BY <1>5 DEF Toggle, vars
<1> QED
  BY <1>1, <1>2, <1>3, <1>4, <1>5 DEF Next

-----------------------------------------------------------------------------
(* Who fails on the UNIQUE email.                                          *)
LEMMA ConflictNext ==
  TypeOK /\ ReadyInv /\ ConflictInv /\ [Next]_vars => ConflictInv'
<1> SUFFICES ASSUME TypeOK, ReadyInv, ConflictInv, [Next]_vars
             PROVE  ConflictInv'
  OBVIOUS
<1>t. /\ conflicts \in Nat /\ Creating \in SUBSET Process
      /\ Cardinality(Creating) \in Nat /\ Cardinality(Passworded) \in Nat
  BY ProcessSets DEF TypeOK, Creating
(* Fewer processes are creating, nothing else happened.                    *)
<1>q. ASSUME Creating' \subseteq Creating, admin' = admin, conflicts' = conflicts
      PROVE  ConflictInv'
  <2>1. Cardinality(Creating') \in Nat
        /\ Cardinality(Creating') <= Cardinality(Creating)
    BY <1>q, <1>t, ProcessSets
  <2> QED
    BY <1>q, <1>t, <2>1 DEF ConflictInv
<1>1. ASSUME NEW p \in Process, Create(p) PROVE ConflictInv'
  <2>1. boot[p] = "create" /\ p \in Creating
    BY <1>1 DEF Create, Goto, Creating
  <2>2. Creating' = Creating \ {p}
    BY <1>1, MoveFacts DEF Create, Goto
  <2>3. Cardinality(Creating') = Cardinality(Creating) - 1
    BY <1>t, <2>1, <2>2, ProcessSets
  <2>4. Creating \in SUBSET Passworded /\ Passworded \in SUBSET Process
    BY ProcessAssumption DEF ConflictInv
  <2>5. Cardinality(Creating) <= Cardinality(Passworded)
    BY <2>4, ProcessSets
  <2>6. CASE admin = "absent"
    BY <1>1, <1>t, <2>2, <2>3, <2>5, <2>6 DEF Create, ConflictInv
  <2>7. CASE admin # "absent"
    BY <1>1, <1>t, <2>2, <2>3, <2>7 DEF Create, ConflictInv
  <2> QED
    BY <2>6, <2>7
<1>2. ASSUME NEW p \in Process, Count(p) PROVE ConflictInv'
  <2> DEFINE to == CASE admin # "absent" -> "serving"
                     [] admin = "absent" /\ p \in Passworded -> "create"
                     [] OTHER -> "down"
  <2>0. to = "create" => admin = "absent" /\ p \in Passworded
    OBVIOUS
  <2>1. boot' = [boot EXCEPT ![p] = to]
    BY <1>2 DEF Count, Goto
  <2> HIDE DEF to
  <2>2. admin' = admin /\ conflicts' = conflicts
    BY <1>2 DEF Count
  <2>3. CASE to = "create"
    BY <2>0, <2>1, <2>2, <2>3, MoveFacts DEF ConflictInv
  <2>4. CASE to # "create"
    BY <2>1, <2>2, <2>4, <1>q, MoveFacts
  <2> QED
    BY <2>3, <2>4
<1>3. ASSUME NEW p \in Process, GrantAll(p) PROVE ConflictInv'
  <2>1. /\ boot[p] = "grant" /\ Creating' = Creating \ {p}
        /\ conflicts' = conflicts /\ admin' = "full"
    BY <1>3, MoveFacts DEF GrantAll, Goto
  <2>2. Creating' = Creating /\ admin # "absent"
    BY <2>1 DEF Creating, ReadyInv
  <2> QED
    BY <2>1, <2>2 DEF ConflictInv
<1>4. ASSUME NEW p \in Process, NEW to, boot' = [boot EXCEPT ![p] = to],
             to # "create", admin' = admin, conflicts' = conflicts
      PROVE  ConflictInv'
  BY <1>4, <1>q, MoveFacts
<1>5. ASSUME NEW p \in Process, Step(p) PROVE ConflictInv'
  BY <1>1, <1>2, <1>3, <1>4, <1>5
     DEF Step, MigrateBegin, MigrateEnd, MigrateNothing, Connect, Ping, Load, Goto
<1>6. ASSUME NEW p \in Process,
             \/ Start(p) \/ Fail(p) \/ Kill(p)
             \/ ListenFails(p) \/ Shutdown(p) \/ Close(p)
      PROVE  ConflictInv'
  BY <1>4, <1>6 DEF Start, Fail, Kill, ListenFails, Shutdown, Close, Goto
<1>7. CASE UNCHANGED vars \/ \E service \in Service : Toggle(service)
  BY <1>7, <1>q DEF Toggle, vars, Creating
<1> QED
  BY <1>5, <1>6, <1>7 DEF Next

-----------------------------------------------------------------------------
LEMMA StartupAlways == Spec => []StartupInv
<1>1. StartupInv /\ [Next]_vars => StartupInv'
  BY TypeNext, ReadyNext, ConflictNext DEF StartupInv
<1> QED
  BY <1>1, StartupInit, PTL DEF Spec

(* Every variable of the start keeps its type.                             *)
THEOREM StartupTypeCorrect == Spec => []TypeOK
<1>1. StartupInv => TypeOK
  BY DEF StartupInv
<1> QED
  BY <1>1, StartupAlways, PTL

(* A process serves only on a migrated database with an administrator, who *)
(* has all permissions unless a seed is between its INSERT and its grants  *)
(* or was stopped there.                                                   *)
THEOREM ServesWhenReady == Spec => []ServingIsReady
<1>1. StartupInv => ServingIsReady
  BY DEF StartupInv, TypeOK, ReadyInv, Past, ServingIsReady
<1> QED
  BY <1>1, StartupAlways, PTL

(* Of the processes that start together on an empty database, at most all  *)
(* but one ever fail on the UNIQUE email.                                  *)
THEOREM ConflictsBounded == Spec => []SeedConflictsBounded
<1>1. ASSUME StartupInv PROVE SeedConflictsBounded
  <2>1. Creating \in SUBSET Process
    BY DEF Creating
  <2>2. Cardinality(Creating) \in Nat /\ Cardinality(Passworded) \in Nat
    BY <2>1, ProcessSets
  <2> QED
    BY <1>1, <2>2 DEF StartupInv, TypeOK, ConflictInv, SeedConflictsBounded
<1> QED
  BY <1>1, StartupAlways, PTL

=============================================================================
