-------------------------- MODULE MCSharedSchema --------------------------
(* A schema with two global elements of one type, a local element that is   *)
(* of that type too and of the type behind it, and another name that stands *)
(* for an attribute's.  There is no room for other grammars.                 *)
EXTENDS SharedSchema

CONSTANTS e1, e2, local, attr

MCGlobalGrammar == [n \in {e1, e2} |-> 1]
MCDeclared == {<<e1, 1>>, <<local, 0>>, <<local, 1>>}
=============================================================================
