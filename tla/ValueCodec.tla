---------------------------- MODULE ValueCodec ----------------------------
(***************************************************************************)
(* String values from a serializer to a parser: encodeStringData on one    *)
(* side, decodeStringValue on the other, each with value partitions of its *)
(* own (ValueTable).  Only the serializer has a hash table.  The two never *)
(* talk except through the stream, so both must evolve alike.              *)
(***************************************************************************)
EXTENDS IoUtil, Sequences

CONSTANTS QNameID, Str, INDEX_MAX, Capacity,
          Length,          \* Length[s]: the length of string s in characters
          ValueMaxLength,  \* opts.valueMaxLength
          EncHashTable,    \* whether initStream created a hash table
          MaxInFlight,     \* bound: values in the stream ahead of the parser
          MaxLocalIds      \* bound: local identifiers per qualified name

ASSUME ValueCodecAssumption ==
  /\ INDEX_MAX \in Nat
  /\ Capacity \in 1..INDEX_MAX   \* the callers test capacity > 0 first
  /\ EncHashTable \in BOOLEAN
  /\ Length \in [Str -> Nat]

VARIABLES encValue, encCount, encGlobalId, encVx, encVxCount, encHash,
          decValue, decCount, decGlobalId, decVx, decVxCount, decHash,
          wire,      \* the encoded values that the parser has not read yet
          received   \* the last value handed to the content handler

encVars == <<encValue, encCount, encGlobalId, encVx, encVxCount, encHash>>
decVars == <<decValue, decCount, decGlobalId, decVx, decVxCount, decHash>>
vars == <<encVars, decVars, wire, received>>

enc == INSTANCE ValueTable WITH value <- encValue, count <- encCount,
         globalId <- encGlobalId, vx <- encVx, vxCount <- encVxCount,
         hash <- encHash, HashTable <- EncHashTable
dec == INSTANCE ValueTable WITH value <- decValue, count <- decCount,
         globalId <- decGlobalId, vx <- decVx, vxCount <- decVxCount,
         hash <- decHash, HashTable <- FALSE

Init == enc!Init /\ dec!Init /\ wire = <<>> /\ received = <<>>

(* Both sides test the same condition before they add a literal.            *)
Storable(s) == Length[s] > 0 /\ Length[s] <= ValueMaxLength

(* The stream content of one value.  `tag` is the leading unsigned integer; *)
(* a hit is followed by `id` in `width` bits, a miss by the characters.     *)
(* `qname` is the context both sides know from the grammar.                 *)
Hit(tag, q, s, width, id) ==
  [tag |-> tag, qname |-> q, width |-> width, id |-> id, chars |-> s]
Literal(q, s) ==
  [tag |-> Length[s] + 2, qname |-> q, width |-> 0, id |-> 0, chars |-> s]

-----------------------------------------------------------------------------
(* encodeStringData, for a type without enumeration facet.                  *)

(* Mutant of EncodeLocalHit: the width is taken from the global partition.  *)
EncodeLocalHitWide(s, q) ==
  /\ enc!LookupVx(s, q)
  /\ wire' = Append(wire, Hit(0, q, s, getBitsNumber(encCount - 1),
                              enc!VxEntryId(s, q)))
  /\ UNCHANGED encVars

EncodeLocalHit(s, q) ==
  /\ enc!LookupVx(s, q)
  /\ wire' = Append(wire, Hit(0, q, s, getBitsNumber(encVxCount[q] - 1),
                              enc!VxEntryId(s, q)))
  /\ UNCHANGED encVars

EncodeGlobalHit(s, q) ==
  /\ ~enc!LookupVx(s, q)
  /\ enc!LookupValue(s)
  /\ wire' = Append(wire, Hit(1, q, s, getBitsNumber(encCount - 1),
                              enc!ValueEntryId(s)))
  /\ UNCHANGED encVars

(* Mutants of EncodeLiteral: valueMaxLength is not tested; the global       *)
(* partition is not consulted.                                              *)
EncodeLiteralUnbounded(s, q) ==
  /\ ~enc!LookupVx(s, q)
  /\ ~enc!LookupValue(s)
  /\ wire' = Append(wire, Literal(q, s))
  /\ IF Length[s] > 0 THEN encVxCount[q] < MaxLocalIds /\ enc!AddValueEntry(s, q)
                      ELSE UNCHANGED encVars

EncodeLiteralOnLocalMiss(s, q) ==
  /\ ~enc!LookupVx(s, q)
  /\ wire' = Append(wire, Literal(q, s))
  /\ IF Storable(s) THEN encVxCount[q] < MaxLocalIds /\ enc!AddValueEntry(s, q)
                    ELSE UNCHANGED encVars

EncodeLiteral(s, q) ==
  /\ ~enc!LookupVx(s, q)
  /\ ~enc!LookupValue(s)
  /\ wire' = Append(wire, Literal(q, s))
  /\ IF Storable(s) THEN encVxCount[q] < MaxLocalIds /\ enc!AddValueEntry(s, q)
                    ELSE UNCHANGED encVars

encodeStringData(s, q) ==
  /\ Len(wire) < MaxInFlight
  /\ EncodeLocalHit(s, q) \/ EncodeGlobalHit(s, q) \/ EncodeLiteral(s, q)
  /\ UNCHANGED <<decVars, received>>

-----------------------------------------------------------------------------
(* decodeStringValue.  The parser derives the width of an identifier from   *)
(* its own tables; when it is not the width that was written, or the        *)
(* identifier is not one it has assigned, what it reads is garbage.         *)

Garbage == "garbage"

DecodedLocal(m) ==
  LET id == decVx[m.qname][m.id]
  IN IF /\ decVxCount[m.qname] > 0                        \* assert(vxTable)
        /\ m.width = getBitsNumber(decVxCount[m.qname] - 1)
        /\ m.id < decVxCount[m.qname]
        /\ id < decCount
     THEN decValue[id].valueStr ELSE Garbage

DecodedGlobal(m) ==
  IF decCount > 0 /\ m.width = getBitsNumber(decCount - 1) /\ m.id < decCount
  THEN decValue[m.id].valueStr ELSE Garbage

Decoded(m) == CASE m.tag = 0 -> DecodedLocal(m)
                [] m.tag = 1 -> DecodedGlobal(m)
                [] OTHER     -> m.chars

decodeStringValue ==
  /\ wire # <<>>
  /\ LET m == Head(wire)
     IN /\ received' = <<[qname |-> m.qname, str |-> Decoded(m)]>>
        /\ IF m.tag >= 2 /\ Storable(m.chars)
           THEN dec!AddValueEntry(m.chars, m.qname)
           ELSE UNCHANGED decVars
  /\ wire' = Tail(wire)
  /\ UNCHANGED encVars

Encode == \E s \in Str, q \in QNameID : encodeStringData(s, q)

Next == Encode \/ decodeStringValue

(* The parser is driven by a loop that calls parseNext until the stream is  *)
(* exhausted, so a value that is in the stream is eventually decoded.       *)
Spec == Init /\ [][Next]_vars /\ WF_vars(decodeStringValue)

-----------------------------------------------------------------------------
(* Properties.                                                              *)

(* Codec promise: what the application serialized is what the handler gets, *)
(* whichever of the three representations was chosen, for any lag of the    *)
(* parser behind the serializer, through evictions on both sides.           *)
InFlight == [i \in 1..Len(wire) |-> [qname |-> wire[i].qname, str |-> wire[i].chars]]

Pipe == INSTANCE EventPipe
          WITH Item <- [qname : QNameID, str : Str],
               pipe <- InFlight, received <- received

DeliversEveryValue == Pipe!Spec

(* Once the parser has caught up the two sides hold identical partitions,   *)
(* although one was filled behind hash look-ups and the other without       *)
(* looking anything up.                                                     *)
TablesAgree ==
  wire = <<>> => /\ decValue = encValue
                 /\ decGlobalId = encGlobalId
                 /\ decVx = encVx

(* decodeStringValue adds literals without looking them up; still it never  *)
(* stores a string twice, because the serializer writes a literal only for  *)
(* a string that neither side holds by then.                                *)
ParserStoresOnce == dec!UniqueValues /\ dec!ValueToVx /\ dec!VxToValue
=============================================================================
