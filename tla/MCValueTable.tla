--------------------------- MODULE MCValueTable ---------------------------
(* HashedValueTable with at most MaxLocalIds local identifiers per          *)
(* qualified name: vxTable never shrinks, so its count is the one unbounded *)
(* counter.  The strings are numbers; two of them have the same hash.  The  *)
(* hash table starts with two chains and has to stop at three, although it  *)
(* may then hold three entries.                                             *)
EXTENDS HashedValueTable

CONSTANT MaxLocalIds

MCHash == [s \in Str |-> IF s = 5 THEN 1 ELSE s]
MCPrimes == <<2, 3, 5>>

MCNext ==
  \/ \E s \in Str, q \in QNameID : vxCount[q] < MaxLocalIds /\ AddHashed(s, q)
  \/ \E s \in Str, q \in QNameID : KeepHashed(s, q)

MCSpec == HashedInit /\ [][MCNext]_hashedVars
=============================================================================
