-------------------------- MODULE MCAuthorization --------------------------
(* Authorization for TLC: an administrator and another user.               *)
EXTENDS Authorization, TLC

CONSTANTS alice, bob

MCUser == {alice, bob}

(* A delegated administrator of permissions, who must never obtain "*" (id *)
(* 1).  A wildcard of the module permissions, inserted by a migration as   *)
(* 000006 does users.*, gives alice the rights to grant, revoke, create and*)
(* delete by one code; permissions.grant is also a code of its own, which  *)
(* can be deleted and created again (ids 3 and 4).                         *)
DelegateCodes == <<<<"*">>, <<"permissions", "*">>, <<"permissions", "grant">>,
                   <<"permissions", "grant">>>>
DelegateGrants == alice :> {2} @@ bob :> {}

(* One global administrator and a code that is created, deleted and created  *)
(* again under another id (ids 2 and 3).                                   *)
CatalogueCodes == <<<<"*">>, <<"reports", "read">>, <<"reports", "read">>>>
MCAdmin == {alice}
CatalogueGrants == alice :> {1}

MCDelegateCode == {DelegateCodes[i] : i \in DOMAIN DelegateCodes}
MCCatalogueCode == {CatalogueCodes[i] : i \in DOMAIN CatalogueCodes}

Symmetry == Permutations(Request)

=============================================================================
