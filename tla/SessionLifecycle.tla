-------------------------- MODULE SessionLifecycle --------------------------
(***************************************************************************)
(* What the session service promises, without its handlers, its clock or   *)
(* its statements.  A login opens a lineage with one session; a refresh    *)
(* may add a session, never seen before, to a lineage that has not ended;  *)
(* only its owner takes sessions of a lineage away or ends it, and a       *)
(* lineage ends with no session left; sessions past their retention        *)
(* disappear.  Nothing re-opens a lineage or brings a session back.        *)
(***************************************************************************)
EXTENDS Naturals

CONSTANTS User, SessionId, None

VARIABLES
  state,   \* of each lineage, named by the session its login created
  owner,   \* the user who logged in
  live,    \* the sessions of the lineage that are not revoked
  used     \* the sessions created so far

vars == <<state, owner, live, used>>

Init ==
  /\ state = [l \in SessionId |-> "new"]
  /\ owner = [l \in SessionId |-> None]
  /\ live = [l \in SessionId |-> {}]
  /\ used = {}

Login(u, s) ==
  /\ s \notin used
  /\ state[s] = "new"
  /\ state' = [state EXCEPT ![s] = "open"]
  /\ owner' = [owner EXCEPT ![s] = u]
  /\ live' = [live EXCEPT ![s] = {s}]
  /\ used' = used \cup {s}

Extend(l, s) ==
  /\ s \notin used
  /\ state[l] = "open"
  /\ live' = [live EXCEPT ![l] = @ \cup {s}]
  /\ used' = used \cup {s}
  /\ UNCHANGED <<state, owner>>

(* The user u takes away the sessions S, which ends the lineages L.        *)
Withdraw(u, S, L) ==
  /\ \A l \in SessionId : live[l] \cap S # {} => owner[l] = u
  /\ \A l \in L : state[l] = "open" /\ owner[l] = u /\ live[l] \subseteq S
  /\ state' = [l \in SessionId |-> IF l \in L THEN "ended" ELSE state[l]]
  /\ live' = [l \in SessionId |-> live[l] \ S]
  /\ UNCHANGED <<owner, used>>

Forget(S) ==
  /\ live' = [l \in SessionId |-> live[l] \ S]
  /\ UNCHANGED <<state, owner, used>>

Next ==
  \/ \E S \in SUBSET SessionId : Forget(S)
  \/ \E u \in User, S, L \in SUBSET SessionId : Withdraw(u, S, L)
  \/ \E l, s \in SessionId : Extend(l, s)
  \/ \E u \in User, s \in SessionId : Login(u, s)

Spec == Init /\ [][Next]_vars

=============================================================================
