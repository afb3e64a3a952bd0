---------------------------- MODULE TypedCodec ----------------------------
(***************************************************************************)
(* A typed value from the serializer's data calls (EXISerializer.c) to the *)
(* content handler of the parser (bodyDecode.c), which both know the       *)
(* simple type from their grammars.  Nothing is kept from one value to the *)
(* next, so a behaviour is the passage of one value.                       *)
(***************************************************************************)
EXTENDS TypedValues, IoUtil

CONSTANTS Alignments,   \* opts.enumOpt & ALIGNMENT
          SimpleTypes,  \* entries of the table of simple types
          IntegerValues,   \* the values the application may pass, by data call
          Floats, Decimals, DateTimes, Booleans, Binaries, Strings

VARIABLES alignment,  \* the stream's alignment
          type,       \* the simple type of the attribute or the characters
          call,       \* the data call made, "" before
          sent,       \* the value, once it is taken
          encErr,     \* what it has returned
          fields,     \* what it has written
          received,   \* the values the content handler was called with
          decErr      \* what the parser has returned, "" before

vars == <<alignment, type, call, sent, encErr, fields, received, decErr>>

Init ==
  /\ alignment \in Alignments
  /\ type \in SimpleTypes
  /\ call = "" /\ sent = <<>> /\ encErr = "" /\ fields = <<>>
  /\ received = <<>> /\ decErr = ""

exiType == type.exiType
DateTimeClass == {"VALUE_TYPE_DATE_TIME", "VALUE_TYPE_YEAR", "VALUE_TYPE_DATE",
                  "VALUE_TYPE_MONTH", "VALUE_TYPE_TIME"}
StringTypes == {"VALUE_TYPE_STRING", "VALUE_TYPE_UNTYPED", "VALUE_TYPE_NONE"}

-----------------------------------------------------------------------------
(* The serializer.                                                          *)

Writes(name, v, written) ==
  /\ call = ""
  /\ call' = name /\ sent' = <<v>> /\ encErr' = "EXIP_OK" /\ fields' = written
  /\ UNCHANGED <<alignment, type, received, decErr>>

Refuses(name, code) ==
  /\ call = ""
  /\ call' = name /\ encErr' = code
  /\ UNCHANGED <<alignment, type, sent, fields, received, decErr>>

(* A conversion to a string is not implemented.                             *)
NotOfThisType ==
  IF exiType \in StringTypes THEN "EXIP_NOT_IMPLEMENTED_YET" ELSE "EXIP_INCONSISTENT_PROC_STATE"

booleanData(v) ==
  IF exiType = "VALUE_TYPE_BOOLEAN" THEN Writes("booleanData", v, encodeBoolean(v, alignment))
  ELSE Refuses("booleanData", NotOfThisType)

smallIntegerBits == getBitsNumber(type.max - type.min)

intData(v) ==
  CASE exiType = "VALUE_TYPE_SMALL_INTEGER" ->
         IF v \in type.min..type.max
         THEN Writes("intData", v,
                     encodeNBitUnsignedInteger(smallIntegerBits, v - type.min, alignment))
         ELSE Refuses("intData", "EXIP_INVALID_EXI_INPUT")
    [] exiType = "VALUE_TYPE_NON_NEGATIVE_INT" ->
         Writes("intData", v, encodeUnsignedInteger(Unsigned(v)))
    [] exiType = "VALUE_TYPE_INTEGER" -> Writes("intData", v, encodeIntegerValue(v))
    [] OTHER -> Refuses("intData", NotOfThisType)

floatData(v) ==
  IF exiType = "VALUE_TYPE_FLOAT" THEN Writes("floatData", v, encodeFloatValue(v))
  ELSE Refuses("floatData", NotOfThisType)

(* A binary value is never taken for a string.                              *)
binaryData(v) ==
  IF exiType = "VALUE_TYPE_BINARY" THEN Writes("binaryData", v, encodeBinary(v))
  ELSE Refuses("binaryData", "EXIP_INCONSISTENT_PROC_STATE")

dateTimeData(v) ==
  IF exiType \in DateTimeClass
  THEN Writes("dateTimeData", v, encodeDateTimeValue(v, exiType, alignment))
  ELSE Refuses("dateTimeData", NotOfThisType)

(* The facets of decimal types, empty sequences where a type has none.  An  *)
(* integer counts as a single digit, whatever it is.                        *)

totalDigits(d) ==
  IF d.exponent # 0 /\ d.mantissa # 0
  THEN DigitCount(Magnitude(d)) + IF d.exponent > 0 THEN d.exponent ELSE 0
  ELSE 1

fractionDigits(d) == IF d.exponent < 0 /\ d.mantissa # 0 THEN -d.exponent ELSE 0

ValidDecimal(d) ==
  /\ type.totalDigits # <<>> => totalDigits(d) <= type.totalDigits[1]
  /\ type.fractionDigits # <<>> => fractionDigits(d) <= type.fractionDigits[1]

decimalData(v) ==
  CASE exiType # "VALUE_TYPE_DECIMAL" -> Refuses("decimalData", NotOfThisType)
    [] exiType = "VALUE_TYPE_DECIMAL" /\ ~ValidDecimal(v) ->
         Refuses("decimalData", "EXIP_INVALID_EXI_INPUT")
    [] OTHER -> Writes("decimalData", v, encodeDecimalValue(v, alignment))

(* A string that is in no value partition; ValueCodec has the others.       *)
stringData(v) ==
  IF exiType \in StringTypes THEN Writes("stringData", v, encodeString(v))
  ELSE Refuses("stringData", "EXIP_INVALID_EXI_INPUT")

-----------------------------------------------------------------------------
(* The parser.                                                              *)

decodeSmallInteger(r) ==
  LET a == decodeNBitUnsignedInteger(smallIntegerBits, r, alignment)
  IN [a EXCEPT !.v = type.min + @]

decodeNonNegative(r) ==
  LET a == decodeUnsignedInteger(r) IN [a EXCEPT !.v = Signed(@)]

Decoded(r) ==
  CASE exiType = "VALUE_TYPE_BOOLEAN" -> decodeBoolean(r, alignment)
    [] exiType = "VALUE_TYPE_SMALL_INTEGER" -> decodeSmallInteger(r)
    [] exiType = "VALUE_TYPE_NON_NEGATIVE_INT" -> decodeNonNegative(r)
    [] exiType = "VALUE_TYPE_INTEGER" -> decodeIntegerValue(r, alignment)
    [] exiType = "VALUE_TYPE_FLOAT" -> decodeFloatValue(r, alignment)
    [] exiType = "VALUE_TYPE_BINARY" -> decodeBinary(r)
    [] exiType \in DateTimeClass -> decodeDateTimeValue(r, exiType, alignment)
    [] exiType = "VALUE_TYPE_DECIMAL" -> decodeDecimalValue(r, alignment)
    [] exiType \in StringTypes -> decodeString(r)

(* A decimal is checked against the facets as it was decoded.               *)
decodeValueItem ==
  /\ encErr = "EXIP_OK" /\ decErr = ""
  /\ \E d \in {Decoded(Reader(fields))} :
       LET valid == exiType = "VALUE_TYPE_DECIMAL" => ValidDecimal(d.v)
           inStep == d.r.inStep /\ d.r.in = <<>>
       IN /\ received' = IF valid THEN <<d.v>> ELSE <<>>
          /\ decErr' = CASE ~inStep -> "out of step"
                         [] inStep /\ ~valid -> "EXIP_INVALID_EXI_INPUT"
                         [] OTHER -> "EXIP_OK"
  /\ UNCHANGED <<alignment, type, call, sent, encErr, fields>>

Next ==
  \/ \E v \in Booleans : booleanData(v)
  \/ \E v \in IntegerValues : intData(v)
  \/ \E v \in Floats : floatData(v)
  \/ \E v \in Binaries : binaryData(v)
  \/ \E v \in DateTimes : dateTimeData(v)
  \/ \E v \in Decimals : decimalData(v)
  \/ \E v \in Strings : stringData(v)
  \/ decodeValueItem

Spec == Init /\ [][Next]_vars

-----------------------------------------------------------------------------
(* Properties.                                                              *)

(* Serializer and parser agree on the width of every field of every value:  *)
(* nothing is left over, and nothing of what follows is taken.  With bytes  *)
(* aligned this fails where an integer is written, as its sign is one bit   *)
(* for the serializer and a byte for the parser.                            *)
WritesBareBit ==
  exiType \in {"VALUE_TYPE_INTEGER", "VALUE_TYPE_FLOAT"} \/ HasYear(exiType)

FieldsInStep ==
  alignment = BIT_PACKED \/ ~WritesBareBit => decErr # "out of step"

(* The values the encodings have room for: a decimal whose integer and      *)
(* whose reversed fraction do not overflow, a fraction of a second that     *)
(* does not either, a legal time zone.                                      *)
Representable(v) ==
  CASE call = "decimalData" ->
         IF v.exponent >= 0
         THEN v.mantissa * 10^v.exponent \in -(2^(IntegerBits - 1))..2^(IntegerBits - 1) - 1
         ELSE Reversed(Magnitude(v), -v.exponent) < 2^IntegerBits
    [] call = "dateTimeData" ->
         /\ \A f \in Range(v.fSecs) :
              LET j == DigitCount(f.value)
              IN Reversed(f.value, j) * 10^(f.offset + 1 - j) < 2^IntegerBits
         /\ Range(v.TimeZone) \subseteq -896..955
    [] OTHER -> TRUE

(* Decimals and fractions are the same when their values are.               *)
SameDecimal(a, b) ==
  IF a.exponent >= b.exponent
  THEN a.mantissa * 10^(a.exponent - b.exponent) = b.mantissa
  ELSE a.mantissa = b.mantissa * 10^(b.exponent - a.exponent)

SameFraction(f, g) ==
  IF f.value = 0 THEN g.value = 0 ELSE f.value * 10^g.offset = g.value * 10^f.offset

SameDateTime(a, b) ==
  LET Kept(has, x) == IF has THEN x ELSE INT_MIN
  IN /\ b.tm_year = Kept(HasYear(exiType), a.tm_year)
     /\ b.tm_mon = Kept(HasMonthDay(exiType), a.tm_mon)
     /\ b.tm_mday = Kept(HasMonthDay(exiType), a.tm_mday)
     /\ b.tm_hour = Kept(HasTime(exiType), a.tm_hour)
     /\ b.tm_min = Kept(HasTime(exiType), a.tm_min)
     /\ b.tm_sec = Kept(HasTime(exiType), a.tm_sec)
     /\ b.TimeZone = a.TimeZone
     /\ HasTime(exiType) => /\ Len(a.fSecs) = Len(b.fSecs)
                            /\ \A i \in DOMAIN a.fSecs : SameFraction(a.fSecs[i], b.fSecs[i])

SameValue(a, b) ==
  CASE call = "decimalData" -> SameDecimal(a, b)
    [] call = "dateTimeData" -> SameDateTime(a, b)
    [] OTHER -> a = b

(* The parser drops the zeros between the digits of a fraction of a second. *)
LosesZeros(v) ==
  /\ call = "dateTimeData" /\ HasTime(exiType)
  /\ \E f \in Range(v.fSecs) : \E i \in 0..DigitCount(f.value) - 1 :
       Digit(f.value, i) = 0 /\ f.value % 10^i # 0

(* n-bit integers are only read as they were written without alignment.     *)
Bytewise ==
  exiType \in {"VALUE_TYPE_BOOLEAN", "VALUE_TYPE_DECIMAL", "VALUE_TYPE_BINARY",
               "VALUE_TYPE_NON_NEGATIVE_INT"} \cup StringTypes

(* Every value the serializer takes is delivered, and is the one it was     *)
(* given: signs, leading zeros of fractions, the ends of the ranges and the *)
(* offsets of years and time zones survive, and the parser finds no facet   *)
(* violated that the serializer has checked.  The exception are fractions   *)
(* of a second with a zero between their digits, which never arrive.        *)
TypedValuesArrive ==
  /\ decErr # ""
  /\ alignment = BIT_PACKED \/ Bytewise
  /\ Representable(sent[1])
  => decErr = "EXIP_OK" /\ (SameValue(sent[1], received[1]) <=> ~LosesZeros(sent[1]))
=============================================================================
