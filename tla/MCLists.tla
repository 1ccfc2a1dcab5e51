------------------------------ MODULE MCLists ------------------------------
(* Three keys, "a/a", "a/b/k" and "a/c": two in one namespace, and one in a   *)
(* namespace inside it, between them in byte order.                           *)
EXTENDS CacheLists

CONSTANTS plain, tagged, tag

MCPathOf  == <<<<"a">>, <<"a", "b">>, <<"a">>>>
MCSpaces  == {{1, 2, 3}, {2}}
MCTokens  == [v \in Values |-> IF v = tagged THEN {tag} ELSE {}]
MCWords   == [v \in Values |-> {tag}]
=============================================================================
