-------------------------- MODULE MCTypedCodec ----------------------------
(* Integers of 10 bits: like 64 bits they have room for every number of one *)
(* digit less than their largest one, whatever the order of its digits.     *)
EXTENDS TypedCodec

MCIntMin == -1000
IntegersOf(w) == -(2^(w-1))..2^(w-1) - 1

Plain(t) == [exiType |-> t, min |-> 0, max |-> 0, totalDigits |-> <<>>, fractionDigits |-> <<>>]
Bounded(min, max) == [Plain("VALUE_TYPE_SMALL_INTEGER") EXCEPT !.min = min, !.max = max]
MCSimpleTypes ==
  {Plain("VALUE_TYPE_" \o t) : t \in
     {"STRING", "FLOAT", "DECIMAL", "DATE_TIME", "YEAR", "DATE", "MONTH", "TIME", "BOOLEAN",
      "BINARY", "INTEGER", "NON_NEGATIVE_INT"}}
  \cup {[Plain("VALUE_TYPE_DECIMAL") EXCEPT !.totalDigits = <<2>>, !.fractionDigits = <<1>>],
        Bounded(-3, 4), Bounded(-512, 511), Bounded(7, 7)}

MCIntegers == IntegersOf(IntegerBits)
SomeMantissas == {m \in MCIntegers : m \in -21..21 \/ m % 100 \in {0, 5, 50} \/ m % 512 \in {0, 511}}
MCFloats == [mantissa : {-512, -101, -1, 0, 1, 128, 511}, exponent : {-32, -1, 0, 7, 31}]
MCDecimals == [mantissa : SomeMantissas, exponent : -3..3]

Date(year, mon, mday) == [tm_year |-> year, tm_mon |-> mon, tm_mday |-> mday]
DateTime(d, hour, min, sec, fract, zone) ==
  [tm_year |-> d.tm_year, tm_mon |-> d.tm_mon, tm_mday |-> d.tm_mday,
   tm_hour |-> hour, tm_min |-> min, tm_sec |-> sec, fSecs |-> fract, TimeZone |-> zone]

(* "(offset+1) must be greater or equal than the number of digits in value" *)
Fractions ==
  {<<>>} \cup UNION {{<<[offset |-> o, value |-> v]>> : v \in 0..10^(o+1) - 1} : o \in 0..2}
MCDateTimes ==
  {DateTime(Date(104, 1, 29), 23, 59, 60, f, z) : f \in Fractions, z \in {<<>>, <<-64>>}}
  \cup {DateTime(Date(y, m, d), h, 0, 9, <<>>, z) :
          y \in {-412, 0, 99, 100, 611}, m \in {0, 6, 11}, d \in {1, 31}, h \in {0, 16},
          z \in {<<>>, <<-897>>, <<-896>>, <<0>>, <<330>>, <<955>>, <<956>>}}

SeqsOf(S) == UNION {[1..n -> S] : n \in 0..3}
MCBinaries == SeqsOf({-128, -1, 0, 127})
=============================================================================
