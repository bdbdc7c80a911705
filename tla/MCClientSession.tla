-------------------------- MODULE MCClientSession ---------------------------
(* ClientSession for TLC.                                                  *)
EXTENDS ClientSession, TLC

Symmetry == Permutations(SessionId) \cup Permutations(Request)

=============================================================================
