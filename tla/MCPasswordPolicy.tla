-------------------------- MODULE MCPasswordPolicy --------------------------
(* A small alphabet of real characters: a, b, C, 1, and an accented e,      *)
(* which is two bytes.  c is only met as C in lower case.                   *)
EXTENDS PasswordPolicy

MCUtf8 == [a |-> <<97>>, b |-> <<98>>, c |-> <<99>>, C |-> <<67>>,
           one |-> <<49>>, eacute |-> <<195, 169>>]
MCChar == {"a", "b", "C", "one", "eacute"}
MCToLower == [x \in MCChar |-> IF x = "C" THEN "c" ELSE x]
MCIsLower == {"a", "b", "eacute"}

(* "bac1" is a row of the keyboard, "c a1" a name, "1ab@c" an address.      *)
MCRows == {<<98, 97, 99, 49>>}
MCCommon == {<<97, 98, 99>>}
MCNameParts == {<<99>>, <<97, 49>>}
MCEmail == <<49, 97, 98, 64, 99>>
MCPrefix == <<49, 97, 98>>
=============================================================================
