----------------------------- MODULE MCSessions -----------------------------
(* Sessions for TLC: the identifiers are interchangeable.                  *)
EXTENDS Sessions, TLC

Symmetry == Permutations(User) \cup Permutations(SessionId)
              \cup Permutations(Request)

=============================================================================
