------------------------------ MODULE IoUtil ------------------------------
(* The integer helpers of src/streamIO/src/ioUtil.c that the codecs share.  *)
EXTENDS Integers

(* log2INT: the position of the highest set bit (the argument is never 0).  *)
log2INT(val) == CHOOSE r \in 0..30 : 2^r <= val /\ val < 2^(r+1)

(* getBitsNumber: the bits an n-bit unsigned integer in 0..val is given; a  *)
(* range of one value takes no bits at all.                                 *)
getBitsNumber(val) == IF val = 0 THEN 0 ELSE log2INT(val) + 1
=============================================================================
