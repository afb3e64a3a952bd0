--------------------------- MODULE RecentValues ---------------------------
(***************************************************************************)
(* What the value partitions promise: they remember the last Capacity      *)
(* strings that were encoded as literals, each once, together with the     *)
(* qualified name it was first used for, and they forget the oldest first. *)
(***************************************************************************)
EXTENDS Integers, Sequences

CONSTANTS QNameID, Str, Capacity

VARIABLE window

Known(s) == \E k \in 1..Len(window) : window[k].str = s

Init == window = <<>>

Remember(s, q) ==
  /\ ~Known(s)
  /\ window' = Append(IF Len(window) = Capacity THEN Tail(window) ELSE window,
                      [str |-> s, qname |-> q])

Next == \E s \in Str, q \in QNameID : Remember(s, q)

Spec == Init /\ [][Next]_window
=============================================================================
