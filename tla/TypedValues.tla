--------------------------- MODULE TypedValues ----------------------------
(***************************************************************************)
(* The encodings of typed values: streamEncode.c and streamDecode.c.  What *)
(* is written is a sequence of fields, each of so many bits; BitStream     *)
(* shows that a field read as wide as it was written arrives.  A decoder   *)
(* takes a reader, the fields still to be read and whether every one so    *)
(* far was read as it was written, and gives the value and the reader      *)
(* behind it.                                                              *)
(*                                                                         *)
(* Integers have as many bits as the constants say; arithmetic wraps.      *)
(***************************************************************************)
EXTENDS Integers, Sequences, SequencesExt, FiniteSetsExt

CONSTANTS IntegerBits,    \* the width of Integer, UnsignedInteger, mantissas
          ExponentBits,   \* the width of the exponents
          CodePointBits,  \* the width of a character's code point
          INT_MIN         \* the least int: a date-time field that is absent

ASSUME TypedValuesAssumption ==
  /\ IntegerBits \in Nat /\ ExponentBits \in 1..IntegerBits
  /\ CodePointBits \in 8..IntegerBits
  /\ INT_MIN \in Int

BIT_PACKED == "BIT_PACKED"
BYTE_ALIGNMENT == "BYTE_ALIGNMENT"

Unsigned(n) == n % 2^IntegerBits
Wrapped(n, w) == LET u == n % 2^w IN IF u >= 2^(w-1) THEN u - 2^w ELSE u
Signed(n) == Wrapped(n, IntegerBits)
Char(n) == Wrapped(n, 8)

(* Division of ints in C.                                                   *)
Quot(a, b) == IF a >= 0 THEN a \div b ELSE -((-a) \div b)
Rem(a, b) == a - b * Quot(a, b)

(* Decimal digits; digit 0 is the last one.                                 *)
Digit(n, i) == (n \div 10^i) % 10
DigitCount(n) == CHOOSE k \in 0..IntegerBits : n < 10^k /\ (k = 0 \/ n >= 10^(k-1))

(* The last k digits of n in reverse.                                       *)
Reversed(n, k) ==
  MapThenSumSet(LAMBDA i : Digit(n, i) * 10^(k-1-i), 0..k-1)

-----------------------------------------------------------------------------
(* Fields.                                                                  *)

Field(n, x) == <<[n |-> n, x |-> x % 2^n]>>

Reader(fields) == [in |-> fields, inStep |-> TRUE]

OutOfStep == [v |-> 0, r |-> [in |-> <<>>, inStep |-> FALSE]]

readBits(n, r) ==
  IF r.in # <<>> /\ Head(r.in).n = n
  THEN [v |-> Head(r.in).x, r |-> [r EXCEPT !.in = Tail(@)]]
  ELSE OutOfStep

Bytes(n) == n \div 8 + IF n % 8 # 0 THEN 1 ELSE 0

encodeNBitUnsignedInteger(n, x, alignment) ==
  Field(IF alignment = BIT_PACKED THEN n ELSE 8 * Bytes(n), x)

(* The bytes of the buffer are chars, which are signed: from the first one  *)
(* on whose highest bit is set, all bits of the unsigned long are set.  A   *)
(* number below 0 stands for one that far below 2^64.                       *)
SignExtended(x, bytes) ==
  LET negative == {i \in 0..bytes-1 : (x \div 2^(8*i)) % 256 >= 128}
  IN IF negative = {} THEN x
     ELSE LET i == Min(negative) IN (x % 2^(8*i + 8)) - 2^(8*i + 8)

decodeNBitUnsignedInteger(n, r, alignment) ==
  IF alignment = BIT_PACKED THEN readBits(n, r)
  ELSE LET a == readBits(8 * Bytes(n), r)
       IN [a EXCEPT !.v = SignExtended(@, Bytes(n))]

encodeBoolean(b, alignment) ==
  encodeNBitUnsignedInteger(1, IF b THEN 1 ELSE 0, alignment)

decodeBoolean(r, alignment) ==
  LET a == decodeNBitUnsignedInteger(1, r, alignment) IN [v |-> a.v = 1, r |-> a.r]

(* Seven bits to a byte, the least significant ones first; the highest bit  *)
(* of a byte says that another one follows.                                 *)
Septets(u) == CHOOSE k \in 1..IntegerBits : u < 128^k /\ (k = 1 \/ u >= 128^(k-1))

encodeUnsignedInteger(u) ==
  [i \in 1..Septets(u) |->
     [n |-> 8, x |-> ((u \div 128^(i-1)) % 128) + IF i < Septets(u) THEN 128 ELSE 0]]

decodeUnsignedInteger(r) ==
  LET last == {k \in 1..Len(r.in) : r.in[k].x < 128}
      k == Min(last)
  IN IF last = {} \/ \E i \in 1..k : r.in[i].n # 8 THEN OutOfStep
     ELSE [v |-> Unsigned(MapThenSumSet(LAMBDA i : (r.in[i].x % 128) * 128^(i-1), 1..k)),
           r |-> [r EXCEPT !.in = SubSeq(@, k + 1, Len(@))]]

-----------------------------------------------------------------------------
(* Integers: the sign is one bit, whatever the alignment, and is read as a  *)
(* boolean.                                                                 *)

(* Mutant: a negative integer is written as its absolute value.             *)
encodeIntegerValueAbsolute(v) ==
  Field(1, IF v >= 0 THEN 0 ELSE 1)
  \o encodeUnsignedInteger(Unsigned(IF v >= 0 THEN v ELSE -v))

encodeIntegerValue(v) ==
  Field(1, IF v >= 0 THEN 0 ELSE 1)
  \o encodeUnsignedInteger(Unsigned(IF v >= 0 THEN v ELSE -(v + 1)))

decodeIntegerValue(r, alignment) ==
  LET sign == decodeBoolean(r, alignment)
      val == decodeUnsignedInteger(sign.r)
  IN [v |-> Signed(IF sign.v THEN -(val.v + 1) ELSE val.v), r |-> val.r]

(* Floats.                                                                  *)
encodeFloatValue(f) == encodeIntegerValue(f.mantissa) \o encodeIntegerValue(f.exponent)

decodeFloatValue(r, alignment) ==
  LET mantissa == decodeIntegerValue(r, alignment)
      exponent == decodeIntegerValue(mantissa.r, alignment)
  IN [v |-> [mantissa |-> mantissa.v, exponent |-> Wrapped(exponent.v, ExponentBits)],
      r |-> exponent.r]

(* Decimals: sign, integral part and the digits of the fraction in reverse, *)
(* so that the zeros in front of it are kept.                               *)
Magnitude(d) == IF d.mantissa >= 0 THEN d.mantissa ELSE -d.mantissa

encodeDecimalValue(d, alignment) ==
  LET m == Unsigned(Magnitude(d))
      e == d.exponent
  IN encodeBoolean(d.mantissa < 0, alignment)
     \o encodeUnsignedInteger(IF e >= 0 THEN Unsigned(m * 10^e) ELSE m \div 10^(-e))
     \o encodeUnsignedInteger(IF e >= 0 THEN 0 ELSE Unsigned(Reversed(m, -e)))

decodeDecimalValue(r, alignment) ==
  LET sign == decodeBoolean(r, alignment)
      integr_part == decodeUnsignedInteger(sign.r)
      fract_part == decodeUnsignedInteger(integr_part.r)
      digits == DigitCount(fract_part.v)
      m == integr_part.v * 10^digits + Reversed(fract_part.v, digits)
  IN [v |-> [mantissa |-> Signed(IF sign.v THEN -m ELSE m), exponent |-> -digits],
      r |-> fract_part.r]

-----------------------------------------------------------------------------
(* Date-times.  fSecs and TimeZone are sequences of at most one item,       *)
(* empty when the presence mask lacks them.                                 *)

HasYear(type) == type \in {"VALUE_TYPE_DATE_TIME", "VALUE_TYPE_DATE", "VALUE_TYPE_YEAR"}
HasMonthDay(type) == type \in {"VALUE_TYPE_DATE_TIME", "VALUE_TYPE_DATE", "VALUE_TYPE_MONTH"}
HasTime(type) == type \in {"VALUE_TYPE_DATE_TIME", "VALUE_TYPE_TIME"}

encodeYear(dt) == encodeIntegerValue(dt.tm_year - 100)

encodeMonthDay(dt, alignment) ==
  encodeNBitUnsignedInteger(9, (dt.tm_mon + 1) * 32 + dt.tm_mday, alignment)

(* The digits in reverse, and zeros for those in front of them.             *)
fSecs(f) ==
  LET j == DigitCount(f.value)
  IN Unsigned(Reversed(f.value, j) * 10^(f.offset + 1 - j))

encodeFractionalSecs(dt, alignment) ==
  IF dt.fSecs = <<>> THEN encodeBoolean(FALSE, alignment)
  ELSE encodeBoolean(TRUE, alignment) \o encodeUnsignedInteger(fSecs(dt.fSecs[1]))

encodeTime(dt, alignment) ==
  encodeNBitUnsignedInteger(17, (dt.tm_hour * 64 + dt.tm_min) * 64 + dt.tm_sec, alignment)
  \o encodeFractionalSecs(dt, alignment)

timeZone(tz) == IF tz < -896 THEN 0 ELSE IF tz > 955 THEN 955 ELSE 896 + tz

encodeTimeZone(dt, alignment) ==
  IF dt.TimeZone = <<>> THEN encodeBoolean(FALSE, alignment)
  ELSE encodeBoolean(TRUE, alignment)
       \o encodeNBitUnsignedInteger(11, timeZone(dt.TimeZone[1]), alignment)

(* Mutant: the time zone's presence is only written when it is there.       *)
encodeDateTimeValueBare(dt, type, alignment) ==
  (IF HasYear(type) THEN encodeYear(dt) ELSE <<>>)
  \o (IF HasMonthDay(type) THEN encodeMonthDay(dt, alignment) ELSE <<>>)
  \o (IF HasTime(type) THEN encodeTime(dt, alignment) ELSE <<>>)
  \o (IF dt.TimeZone # <<>> THEN encodeTimeZone(dt, alignment) ELSE <<>>)

encodeDateTimeValue(dt, type, alignment) ==
  (IF HasYear(type) THEN encodeYear(dt) ELSE <<>>)
  \o (IF HasMonthDay(type) THEN encodeMonthDay(dt, alignment) ELSE <<>>)
  \o (IF HasTime(type) THEN encodeTime(dt, alignment) ELSE <<>>)
  \o encodeTimeZone(dt, alignment)

(* The zeros of the fraction are counted but not kept.                      *)
NonZero(digits) == SelectSeq(digits, LAMBDA c : c # 0)
Number(digits) ==
  MapThenSumSet(LAMBDA i : digits[i] * 10^(Len(digits) - i), 1..Len(digits))

decodedFraction(u) ==
  LET digits == [i \in 1..DigitCount(u) |-> Digit(u, i - 1)]
  IN [offset |-> (Len(digits) - 1) % 256, value |-> Number(NonZero(digits))]

decodeFractionalSecs(r, alignment) ==
  LET presence == decodeBoolean(r, alignment)
      u == decodeUnsignedInteger(presence.r)
  IN IF presence.v THEN [v |-> <<decodedFraction(u.v)>>, r |-> u.r]
     ELSE [v |-> <<>>, r |-> presence.r]

decodeTimeZone(r, alignment) ==
  LET presence == decodeBoolean(r, alignment)
      tzone == decodeNBitUnsignedInteger(11, presence.r, alignment)
  IN IF presence.v
     THEN [v |-> <<(IF tzone.v \notin 0..1851 THEN 1851 ELSE tzone.v) - 896>>, r |-> tzone.r]
     ELSE [v |-> <<>>, r |-> presence.r]

decodeDateTimeValue(r, type, alignment) ==
  LET year == IF HasYear(type) THEN decodeIntegerValue(r, alignment) ELSE [v |-> 0, r |-> r]
      monDay == IF HasMonthDay(type) THEN decodeNBitUnsignedInteger(9, year.r, alignment)
                ELSE year
      timeVal == IF HasTime(type) THEN decodeNBitUnsignedInteger(17, monDay.r, alignment)
                 ELSE monDay
      fract == IF HasTime(type) THEN decodeFractionalSecs(timeVal.r, alignment)
               ELSE [v |-> <<>>, r |-> timeVal.r]
      zone == decodeTimeZone(fract.r, alignment)
  IN [v |-> [tm_year |-> IF HasYear(type) THEN year.v + 100 ELSE INT_MIN,
             tm_mon |-> IF HasMonthDay(type) THEN Quot(monDay.v, 32) - 1 ELSE INT_MIN,
             tm_mday |-> IF HasMonthDay(type) THEN Rem(monDay.v, 32) ELSE INT_MIN,
             tm_hour |-> IF HasTime(type) THEN (timeVal.v \div 64) \div 64 ELSE INT_MIN,
             tm_min |-> IF HasTime(type) THEN (timeVal.v \div 64) % 64 ELSE INT_MIN,
             tm_sec |-> IF HasTime(type) THEN timeVal.v % 64 ELSE INT_MIN,
             fSecs |-> fract.v,
             TimeZone |-> zone.v],
      r |-> zone.r]

-----------------------------------------------------------------------------
(* Binary values and strings: sequences of chars.  A character's code point *)
(* is its char, which is signed.                                            *)

encodeBinary(bytes) ==
  encodeUnsignedInteger(Len(bytes))
  \o [i \in 1..Len(bytes) |-> [n |-> 8, x |-> bytes[i] % 256]]

decodeBinary(r) ==
  LET length == decodeUnsignedInteger(r)
      in == length.r.in
  IN IF Len(in) < length.v \/ \E i \in 1..length.v : in[i].n # 8 THEN OutOfStep
     ELSE [v |-> [i \in 1..length.v |-> Char(in[i].x)],
           r |-> [length.r EXCEPT !.in = SubSeq(@, length.v + 1, Len(@))]]

readCharFromString(s, i) == s[i] % 2^CodePointBits

encodeString(s) ==
  encodeUnsignedInteger(Len(s))
  \o FlattenSeq([i \in 1..Len(s) |-> encodeUnsignedInteger(readCharFromString(s, i))])

decodeStringOnly(length, r) ==
  LET next(a, i) == LET c == decodeUnsignedInteger(a.r)
                    IN [v |-> Append(a.v, Char(c.v)), r |-> c.r]
  IN FoldLeft(next, [v |-> <<>>, r |-> r], [i \in 1..length |-> i])

decodeString(r) ==
  LET length == decodeUnsignedInteger(r)
  IN IF length.r.inStep THEN decodeStringOnly(length.v, length.r) ELSE OutOfStep
=============================================================================
