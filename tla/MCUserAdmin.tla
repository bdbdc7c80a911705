---------------------------- MODULE MCUserAdmin ----------------------------
(* UserAdmin for TLC: an administrator with a legacy password and a free   *)
(* id for a second account.                                                *)
EXTENDS UserAdmin, TLC

CONSTANTS u1, u2, e1, e2, p1, p2

MCUser == {u1, u2}

(* A change of the name alone, one of each column, and one of two.         *)
MCInputs ==
  {NoInput, [NoInput EXCEPT !.email = e2],
   [NoInput EXCEPT !.active = "on"], [NoInput EXCEPT !.active = "off"],
   [NoInput EXCEPT !.password = p2],
   [NoInput EXCEPT !.email = e2, !.active = "off"]}

MCUsers ==
  u1 :> [email |-> e1, active |-> TRUE, password |-> p1, legacy |-> TRUE] @@
  u2 :> NoRow

MCStar == {u1}

(* Two administrators, for the race between their deactivations.           *)
TwoUsers ==
  [MCUsers EXCEPT ![u2] = [MCUsers[u1] EXCEPT !.email = e2]]

Symmetry == Permutations(Request)

=============================================================================
