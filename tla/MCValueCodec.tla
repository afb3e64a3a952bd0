--------------------------- MODULE MCValueCodec ---------------------------
(* Three short strings compete for two slots; one string is too long to be  *)
(* stored and one is empty.                                                 *)
EXTENDS ValueCodec

CONSTANTS s1, s2, s3, long, empty

MCStr == {s1, s2, s3, long, empty}
MCLength == [s \in MCStr |-> CASE s = long -> 5 [] s = empty -> 0 [] OTHER -> 2]
=============================================================================
