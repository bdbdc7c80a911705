-------------------------- MODULE PermissionMatch --------------------------
(***************************************************************************)
(* Permission codes and how a granted code covers a required one           *)
(* (internal/service/permission_match.go and permission_validation.go).    *)
(* A code is the sequence of its dot-separated segments: users.read is     *)
(* <<"users", "read">>, users.* is <<"users", "*">>, and * is <<"*">>.     *)
(***************************************************************************)
EXTENDS Naturals, Sequences

(* matchPermission for one granted code: equal, or a wildcard whose dotted *)
(* prefix starts the required code.  The prefix of * is empty.             *)
Covers(g, required) ==
  \/ g = required
  \/ /\ g[Len(g)] = "*"
     /\ Len(g) <= Len(required)
     /\ \A i \in 1 .. Len(g) - 1 : g[i] = required[i]

matchPermission(granted, required) == \E g \in granted : Covers(g, required)

(* validatePermissionCode: at least two segments, none a wildcard, and not *)
(* the suffix of the retired *.manage codes.                               *)
ValidCode(c) ==
  /\ Len(c) >= 2
  /\ \A i \in 1 .. Len(c) : c[i] # "*"
  /\ c[Len(c)] # "manage"

isProtectedPermissionCode(c) ==
  c \in {<<"*">>, <<"users", "*">>, <<"audit_logs", "read">>}

=============================================================================
