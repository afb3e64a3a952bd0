---------------------------- MODULE EventPipe -----------------------------
(***************************************************************************)
(* What an EXI serializer and the parser of its output promise together: a *)
(* first-in first-out pipe.  Every item handed to the serializer comes out *)
(* of the parser once, unchanged and in order.                             *)
(***************************************************************************)
EXTENDS Sequences

CONSTANT Item

VARIABLES pipe,      \* the items serialized and not yet parsed
          received   \* the last item the parser delivered, or <<>>

vars == <<pipe, received>>

Init == pipe = <<>> /\ received = <<>>

Serialize(item) == pipe' = Append(pipe, item) /\ UNCHANGED received

Parse ==
  /\ pipe # <<>>
  /\ received' = <<Head(pipe)>>
  /\ pipe' = Tail(pipe)

Next == Parse \/ \E item \in Item : Serialize(item)

Spec == Init /\ [][Next]_vars /\ WF_vars(Parse)
=============================================================================
