----------------------------- MODULE RateLimit -----------------------------
(***************************************************************************)
(* The tiered login rate limiter (cache/tiered_ratelimit.go) as Login uses *)
(* it: every attempt is counted against its IP and then its email before   *)
(* the password is looked at, and a correct password clears both counters. *)
(*                                                                         *)
(* Each Redis command is one atomic step; attempts run concurrently.  Time *)
(* is kept as the remaining TTL of each key, so that it needs no bound.    *)
(***************************************************************************)
EXTENDS Integers, FiniteSets, FiniteSetsExt

CONSTANTS
  IP, Email,
  Attempt,      \* login handlers in flight at once: bounds the model
  None,
  Tiers,        \* records [threshold, block]
  CounterTTL,
  MaxCount,     \* bounds the counters: above the thresholds they stay here
  Failures      \* may Redis commands fail or their answers be lost?

ASSUME KeyAssumption == IP \cap Email = {} /\ None \notin IP \cup Email
ASSUME TierAssumption ==
  /\ Tiers # {} /\ IsFiniteSet(Tiers)
  /\ Tiers \subseteq [threshold: Nat \ {0}, block: Nat \ {0}]
ASSUME CounterAssumption ==
  /\ CounterTTL \in Nat \ {0} /\ MaxCount \in Nat /\ Failures \in BOOLEAN
  /\ \A t \in Tiers : 1 < t.threshold /\ t.threshold <= MaxCount

Key == IP \cup Email

VARIABLES
  count,      \* the counter key; 0 when Redis does not hold it
  countTTL,   \* its remaining TTL; Never when it has none
  blockTTL,   \* remaining TTL of the ":block" key; 0 when absent
  pc, att,    \* the command each attempt is about to send, and its locals
  admitted    \* history: attempts counted and let through, by age in ticks

vars == <<count, countTTL, blockTTL, pc, att, admitted>>

Never == -1
Age == 0 .. CounterTTL - 1

NoAttempt == [ip |-> None, email |-> None, key |-> None, n |-> 0]

TypeOK ==
  /\ count \in [Key -> 0 .. MaxCount]
  /\ countTTL \in [Key -> {Never} \cup 0 .. CounterTTL]
  /\ blockTTL \in [Key -> Nat]
  /\ pc \in [Attempt -> {"idle", "ttl", "incr", "expire", "block", "verify",
                         "resetEmail", "resetIP"}]
  /\ att \in [Attempt -> [ip: IP \cup {None}, email: Email \cup {None},
                          key: Key \cup {None}, n: 0 .. MaxCount]]
  /\ admitted \in [Key -> [Age -> Nat]]

Init ==
  /\ count = [k \in Key |-> 0]
  /\ countTTL = [k \in Key |-> 0]
  /\ blockTTL = [k \in Key |-> 0]
  /\ pc = [a \in Attempt |-> "idle"]
  /\ att = [a \in Attempt |-> NoAttempt]
  /\ admitted = [k \in Key |-> [i \in Age |-> 0]]

-----------------------------------------------------------------------------
(* Mutant: the threshold itself does not block yet.                        *)
BlockDurationLate(n) ==
  Max({0} \cup {t.block : t \in {u \in Tiers : n > u.threshold}})

(* blockDuration: the longest block among the tiers reached, 0 for none.   *)
BlockDuration(n) ==
  Max({0} \cup {t.block : t \in {u \in Tiers : n >= u.threshold}})

LowestThreshold == Min({t.threshold : t \in Tiers})

-----------------------------------------------------------------------------
Finish(a) ==
  /\ pc' = [pc EXCEPT ![a] = "idle"]
  /\ att' = [att EXCEPT ![a] = NoAttempt]

(* Check let the key through: Login goes on with the email, then with the  *)
(* password.                                                               *)
Pass(a) ==
  IF att[a].key = att[a].ip
  THEN /\ pc' = [pc EXCEPT ![a] = "ttl"]
       /\ att' = [att EXCEPT ![a].key = att[a].email, ![a].n = 0]
  ELSE /\ pc' = [pc EXCEPT ![a] = "verify"]
       /\ att' = [att EXCEPT ![a].n = 0]

(* Mutant: the email and the address, both strings, change places.         *)
ArriveSwapped(a, ip, email) ==
  /\ pc[a] = "idle"
  /\ pc' = [pc EXCEPT ![a] = "ttl"]
  /\ att' = [att EXCEPT ![a] = [ip |-> email, email |-> ip, key |-> email, n |-> 0]]
  /\ UNCHANGED <<count, countTTL, blockTTL, admitted>>

Arrive(a, ip, email) ==
  /\ pc[a] = "idle"
  /\ pc' = [pc EXCEPT ![a] = "ttl"]
  /\ att' = [att EXCEPT ![a] = [ip |-> ip, email |-> email, key |-> ip, n |-> 0]]
  /\ UNCHANGED <<count, countTTL, blockTTL, admitted>>

(* A blocked key refuses the attempt and leaves the counter alone.         *)
CheckTTL(a) ==
  /\ pc[a] = "ttl"
  /\ IF blockTTL[att[a].key] > 0
       THEN Finish(a)
       ELSE pc' = [pc EXCEPT ![a] = "incr"] /\ UNCHANGED att
  /\ UNCHANGED <<count, countTTL, blockTTL, admitted>>

(* INCR creates a missing key without a TTL.                               *)
Plus1(n) == IF n < MaxCount THEN n + 1 ELSE n

DoIncr(k) ==
  /\ count' = [count EXCEPT ![k] = Plus1(@)]
  /\ countTTL' = IF count[k] = 0 THEN [countTTL EXCEPT ![k] = Never] ELSE countTTL

(* Mutant: every attempt renews the TTL of the counter.                    *)
IncrRenewing(a) ==
  /\ pc[a] = "incr"
  /\ LET k == att[a].key
         n == Plus1(count[k])
     IN  /\ DoIncr(k)
         /\ att' = [att EXCEPT ![a].n = n]
         /\ pc' = [pc EXCEPT ![a] = "expire"]
         /\ admitted' = IF BlockDuration(n) = 0
                        THEN [admitted EXCEPT ![k][0] = @ + 1]
                        ELSE admitted
  /\ UNCHANGED blockTTL

Incr(a) ==
  /\ pc[a] = "incr"
  /\ LET k == att[a].key
         n == Plus1(count[k])
     IN  /\ DoIncr(k)
         /\ att' = [att EXCEPT ![a].n = n]
         /\ pc' = [pc EXCEPT ![a] = IF n = 1 THEN "expire" ELSE "block"]
         /\ admitted' = IF BlockDuration(n) = 0
                        THEN [admitted EXCEPT ![k][0] = @ + 1]
                        ELSE admitted
  /\ UNCHANGED blockTTL

(* EXPIRE, sent by the first attempt only, does nothing to a missing key;  *)
(* its error is ignored.                                                   *)
Expire(a) ==
  /\ pc[a] = "expire"
  /\ LET k == att[a].key IN
       countTTL' = IF count[k] > 0 THEN [countTTL EXCEPT ![k] = CounterTTL]
                                   ELSE countTTL
  /\ pc' = [pc EXCEPT ![a] = "block"]
  /\ UNCHANGED <<count, blockTTL, att, admitted>>

ExpireFails(a) ==
  /\ Failures
  /\ pc[a] = "expire"
  /\ pc' = [pc EXCEPT ![a] = "block"]
  /\ UNCHANGED <<count, countTTL, blockTTL, att, admitted>>

SetBlock(a) ==
  /\ pc[a] = "block"
  /\ LET d == BlockDuration(att[a].n) IN
       IF d > 0
       THEN blockTTL' = [blockTTL EXCEPT ![att[a].key] = d] /\ Finish(a)
       ELSE UNCHANGED blockTTL /\ Pass(a)
  /\ UNCHANGED <<count, countTTL, admitted>>

(* A failed command refuses the login; the counter may have moved.         *)
RedisError(a) ==
  /\ Failures
  /\ \/ pc[a] \in {"ttl", "incr"} /\ UNCHANGED <<count, countTTL>>
     \/ pc[a] = "incr" /\ DoIncr(att[a].key)
     \/ /\ pc[a] = "block" /\ BlockDuration(att[a].n) > 0
        /\ UNCHANGED <<count, countTTL>>
  /\ Finish(a)
  /\ UNCHANGED <<blockTTL, admitted>>

VerifyFails(a) ==
  /\ pc[a] = "verify"
  /\ Finish(a)
  /\ UNCHANGED <<count, countTTL, blockTTL, admitted>>

VerifySucceeds(a) ==
  /\ pc[a] = "verify"
  /\ pc' = [pc EXCEPT ![a] = "resetEmail"]
  /\ UNCHANGED <<count, countTTL, blockTTL, att, admitted>>

(* Reset: one DEL of the counter and the block.                            *)
DoReset(k) ==
  /\ count' = [count EXCEPT ![k] = 0]
  /\ countTTL' = [countTTL EXCEPT ![k] = 0]
  /\ blockTTL' = [blockTTL EXCEPT ![k] = 0]
  /\ admitted' = [admitted EXCEPT ![k] = [i \in Age |-> 0]]

ResetEmail(a) ==
  /\ pc[a] = "resetEmail"
  /\ DoReset(att[a].email)
  /\ pc' = [pc EXCEPT ![a] = "resetIP"]
  /\ UNCHANGED att

ResetIP(a) ==
  /\ pc[a] = "resetIP"
  /\ DoReset(att[a].ip)
  /\ Finish(a)

(* A failed DEL is only logged.                                            *)
ResetFails(a) ==
  /\ Failures
  /\ \/ pc[a] = "resetEmail" /\ pc' = [pc EXCEPT ![a] = "resetIP"] /\ UNCHANGED att
     \/ pc[a] = "resetIP" /\ Finish(a)
  /\ UNCHANGED <<count, countTTL, blockTTL, admitted>>

(* Redis drops a key when its TTL runs out.                                *)
Elapse(t) == IF t > 0 THEN t - 1 ELSE t

Tick ==
  /\ count' = [k \in Key |-> IF countTTL[k] = 1 THEN 0 ELSE count[k]]
  /\ countTTL' = [k \in Key |-> Elapse(countTTL[k])]
  /\ blockTTL' = [k \in Key |-> Elapse(blockTTL[k])]
  /\ admitted' = [k \in Key |->
                    [i \in Age |-> IF i = 0 THEN 0 ELSE admitted[k][i - 1]]]
  /\ UNCHANGED <<pc, att>>

-----------------------------------------------------------------------------
Step(a) ==
  \/ CheckTTL(a) \/ Incr(a) \/ Expire(a) \/ ExpireFails(a) \/ SetBlock(a)
  \/ RedisError(a) \/ VerifyFails(a) \/ VerifySucceeds(a)
  \/ ResetEmail(a) \/ ResetIP(a) \/ ResetFails(a)

Next ==
  \/ Tick
  \/ \E a \in Attempt : Step(a)
  \/ \E a \in Attempt, ip \in IP, email \in Email : Arrive(a, ip, email)

Spec == Init /\ [][Next]_vars

(* Somebody keeps trying, handlers make progress and time passes; and a    *)
(* command that attempts keep sending for a key does not fail for ever.    *)
FairSpec ==
  /\ Spec
  /\ WF_vars(Tick)
  /\ \A a \in Attempt : WF_vars(Step(a))
  /\ \A ip \in IP, email \in Email : WF_vars(\E a \in Attempt : Arrive(a, ip, email))
  /\ \A k \in Key :
       /\ SF_vars(\E a \in Attempt : att[a].key = k /\ CheckTTL(a))
       /\ SF_vars(\E a \in Attempt : att[a].key = k /\ Incr(a))

-----------------------------------------------------------------------------
(* Properties.                                                             *)

(* The attempts a key let through in the last CounterTTL ticks.            *)
Total(f) ==
  LET upTo[i \in 0 .. CounterTTL] == IF i = 0 THEN 0 ELSE upTo[i - 1] + f[i - 1]
  IN  upTo[CounterTTL]

Admissions(k) == Total(admitted[k])

(* Between two resets, a key lets through fewer than twice the lowest      *)
(* threshold in any window as long as the counter's TTL, however attempts  *)
(* interleave and whatever Redis commands fail: the window is fixed, not   *)
(* sliding, so two counter lifetimes can meet in it, but INCR hands every  *)
(* attempt its own number.                                                 *)
AdmissionsBounded ==
  \A k \in Key : Admissions(k) <= 2 * (LowestThreshold - 1)

(* A key under attack is not locked out for ever: the counter's TTL runs   *)
(* from the first attempt and refused attempts do not renew it, so attempts*)
(* are let through again and again; unless a counter stays without a TTL,  *)
(* its EXPIRE having failed after the INCR that created it, which no later *)
(* attempt repairs.                                                        *)
LockoutEnds ==
  \/ \A k \in Key : []<>(admitted[k][0] > 0)
  \/ \E j \in Key : <>[](countTTL[j] = Never)

=============================================================================
