---------------------------- MODULE NameTables ----------------------------
(***************************************************************************)
(* URIs, local names and prefixes of one EXI stream: the URI table of      *)
(* src/stringTables/src/sTables.c and the encodings of its entries in      *)
(* src/contentIO/src/bodyEncode.c and bodyDecode.c.                        *)
(*                                                                         *)
(* An EXIStream is a record; the fields of the stream content it has       *)
(* produced, or has still to read, are its `buffer`.  A field is an n-bit  *)
(* integer, a tag (an unsigned integer), or a string.  A reader that finds *)
(* another kind or width than it expects has lost synchronisation: it      *)
(* records `err` and nothing it does afterwards matters.                   *)
(***************************************************************************)
EXTENDS IoUtil, Sequences, SequencesExt

(* Table indexes are the code's: they start at 0.                           *)
At(seq, i) == seq[i + 1]

(* Both stand for SIZE_MAX, the largest index: no table is that long.  The  *)
(* number is the largest that the model checker has.                        *)
URI_MAX == 2147483647
LN_MAX == 2147483647
VoidQName == [uriId |-> URI_MAX, lnId |-> LN_MAX]

XML_SCHEMA_INSTANCE_ID == 2
XML_SCHEMA_INSTANCE_NIL_ID == 0
XML_SCHEMA_INSTANCE_TYPE_ID == 1

IsXsi(id, lnId) == id.uriId = XML_SCHEMA_INSTANCE_ID /\ id.lnId = lnId

-----------------------------------------------------------------------------
(* Fields of the stream.                                                    *)

Field(kind, width, val) == [kind |-> kind, width |-> width, val |-> val]

Write(s, fields) == [s EXCEPT !.buffer = @ \o fields]

(* encodeNBitUnsignedInteger; an integer of no bits leaves no trace.        *)
NBits(width, val) ==
  IF width = 0 THEN <<>> ELSE <<Field("bits", width, val)>>

(* encodeUnsignedInteger of a hit (0), and of a string's length with the    *)
(* string: its leading integer differs from every hit.                      *)
HitTag == <<Field("tag", 0, 0)>>
Literal(str) == <<Field("chars", 0, str)>>

Failed(s, err) == IF s.err = "EXIP_OK" THEN [s EXCEPT !.err = err] ELSE s

Next1(s) == IF s.buffer = <<>> THEN Field("end", 0, 0) ELSE Head(s.buffer)

(* The readers return the value read and the stream behind it.              *)
Result(s, val) == [s |-> s, val |-> val]

Skip1(s) == [s EXCEPT !.buffer = Tail(@)]

DecodeNBits(s, width) ==
  IF width = 0 THEN Result(s, 0)
  ELSE IF Next1(s).kind = "bits" /\ Next1(s).width = width
       THEN Result(Skip1(s), Next1(s).val)
       ELSE Result(Failed(s, "out of step"), 0)

DecodeChars(s) ==
  IF Next1(s).kind = "chars" THEN Result(Skip1(s), Next1(s).val)
                             ELSE Result(Failed(s, "out of step"), "")

-----------------------------------------------------------------------------
(* The URI table: one entry per URI with its local names and prefixes.      *)

NoGrammar == 0

LnEntry(ln) == [lnStr |-> ln, elemGrammar |-> NoGrammar]

UriEntry(uri, lns, pfxs) ==
  [uriStr |-> uri, lnTable |-> [i \in 1..Len(lns) |-> LnEntry(lns[i])],
   pfxTable |-> pfxs]

(* createUriTableEntries without a schema.                                  *)
InitialUriTable ==
  << UriEntry("", <<>>, <<"">>),
     UriEntry("xml", <<"base", "id", "lang", "space">>, <<"xml">>),
     UriEntry("xsi", <<"nil", "type">>, <<"xsi">>) >>

(* The look-ups return the least matching index, or -1 for a miss.          *)
lookupUri(t, uri) == SelectInSeq(t, LAMBDA e : e.uriStr = uri) - 1

lookupLn(t, uriId, ln) ==
  SelectInSeq(At(t, uriId).lnTable, LAMBDA e : e.lnStr = ln) - 1

lookupPfx(t, uriId, pfx) ==
  SelectInSeq(At(t, uriId).pfxTable, LAMBDA p : p = pfx) - 1

addUriEntry(s, uri) == [s EXCEPT !.uriTable = Append(@, UriEntry(uri, <<>>, <<>>))]

addLnEntry(s, uriId, ln) ==
  [s EXCEPT !.uriTable[uriId + 1].lnTable = Append(@, LnEntry(ln))]

addPfxEntry(s, uriId, pfx) ==
  [s EXCEPT !.uriTable[uriId + 1].pfxTable = Append(@, pfx)]

UriStr(s, id) == At(s.uriTable, id.uriId).uriStr
Ln(s, id) == At(At(s.uriTable, id.uriId).lnTable, id.lnId)

KnownName(s, id) == /\ id.uriId \in 0..Len(s.uriTable) - 1
                    /\ id.lnId \in 0..Len(At(s.uriTable, id.uriId).lnTable) - 1

-----------------------------------------------------------------------------
(* Encoding.  After encodeUri and encodeLn the name is in the table, so the *)
(* identifiers the code hands on are those of a look-up.                    *)

encodeUri(s, uri) ==
  LET id == lookupUri(s.uriTable, uri)
      bits == getBitsNumber(Len(s.uriTable))
  IN IF id >= 0 THEN Write(s, NBits(bits, id + 1))
                ELSE addUriEntry(Write(s, NBits(bits, 0) \o Literal(uri)), uri)

(* Mutant of encodeLn: a name that is in the table is written as new.       *)
encodeLnAlwaysNew(s, uriId, ln) == addLnEntry(Write(s, Literal(ln)), uriId, ln)

encodeLn(s, uriId, ln) ==
  LET id == lookupLn(s.uriTable, uriId, ln)
      bits == getBitsNumber(Len(At(s.uriTable, uriId).lnTable) - 1)
  IN IF id >= 0 THEN Write(s, HitTag \o NBits(bits, id))
                ELSE addLnEntry(Write(s, Literal(ln)), uriId, ln)

(* The prefix of a qualified name is written when there is a choice.  One   *)
(* that is not declared yet is left to the declaration that follows when    *)
(* the event is the wildcard SE, and is an error otherwise.                 *)
encodePfxQName(s, uriId, pfx, wildcardSE) ==
  LET count == Len(At(s.uriTable, uriId).pfxTable)
      id == lookupPfx(s.uriTable, uriId, pfx)
  IN IF "prefixes" \notin s.opts \/ count = 0 THEN s
     ELSE IF getBitsNumber(count - 1) = 0 THEN s
     ELSE IF id >= 0 THEN Write(s, NBits(getBitsNumber(count - 1), id))
     ELSE IF wildcardSE THEN Write(s, NBits(getBitsNumber(count - 1), 0))
     ELSE Failed(s, "EXIP_INCONSISTENT_PROC_STATE")

encodePfx(s, uriId, pfx) ==
  LET id == lookupPfx(s.uriTable, uriId, pfx)
      bits == getBitsNumber(Len(At(s.uriTable, uriId).pfxTable))
  IN IF id >= 0 THEN Write(s, NBits(bits, id + 1))
     ELSE addPfxEntry(Write(s, NBits(bits, 0) \o Literal(pfx)), uriId, pfx)

(* The identifiers of a qualified name that is in the tables.               *)
QNameIDOf(s, q) ==
  LET uriId == lookupUri(s.uriTable, q.uri)
  IN [uriId |-> uriId, lnId |-> lookupLn(s.uriTable, uriId, q.ln)]

EncodeLnPfx(s, uriId, q, wildcard) ==
  encodePfxQName(encodeLn(s, uriId, q.ln), uriId, q.pfx, wildcard)

encodeQName(s, q, wildcard) ==
  LET withLn(s1) == EncodeLnPfx(s1, lookupUri(s1.uriTable, q.uri), q, wildcard)
  IN withLn(encodeUri(s, q.uri))

-----------------------------------------------------------------------------
(* Decoding.                                                                *)

(* `r` is the result of the read before: an identifier, or the characters  *)
(* of a name that is new.                                                   *)
NewUri(r) == Result(addUriEntry(r.s, r.val), Len(r.s.uriTable))

UriOf(r) ==
  CASE r.val = 0 -> NewUri(DecodeChars(r.s))
    [] r.val \in 1..Len(r.s.uriTable) -> Result(r.s, r.val - 1)
    [] OTHER -> Result(Failed(r.s, "EXIP_INVALID_EXI_INPUT"), 0)

decodeUri(s) == UriOf(DecodeNBits(s, getBitsNumber(Len(s.uriTable))))

LnCount(s, uriId) == Len(At(s.uriTable, uriId).lnTable)

NewLn(r, uriId) == Result(addLnEntry(r.s, uriId, r.val), LnCount(r.s, uriId))

KnownLn(r, uriId) ==
  IF r.val < LnCount(r.s, uriId) THEN r
  ELSE Result(Failed(r.s, "EXIP_INVALID_EXI_INPUT"), 0)

decodeLn(s, uriId) ==
  IF Next1(s).kind # "tag" THEN NewLn(DecodeChars(s), uriId)
  ELSE IF LnCount(s, uriId) = 0 THEN Result(Failed(s, "EXIP_INVALID_EXI_INPUT"), 0)
  ELSE KnownLn(DecodeNBits(Skip1(s), getBitsNumber(LnCount(s, uriId) - 1)), uriId)

PfxCount(s, uriId) == Len(At(s.uriTable, uriId).pfxTable)

KnownPfx(r, uriId) ==
  IF r.val < PfxCount(r.s, uriId) THEN r.s ELSE Failed(r.s, "EXIP_INVALID_EXI_INPUT")

decodePfxQname(s, uriId) ==
  IF "prefixes" \notin s.opts \/ PfxCount(s, uriId) = 0 THEN s
  ELSE KnownPfx(DecodeNBits(s, getBitsNumber(PfxCount(s, uriId) - 1)), uriId)

NewPfx(r, uriId) == Result(addPfxEntry(r.s, uriId, r.val), PfxCount(r.s, uriId))

PfxOf(r, uriId) ==
  CASE r.val = 0 -> NewPfx(DecodeChars(r.s), uriId)
    [] r.val \in 1..PfxCount(r.s, uriId) -> Result(r.s, r.val - 1)
    [] OTHER -> Result(Failed(r.s, "EXIP_INVALID_EXI_INPUT"), 0)

decodePfx(s, uriId) == PfxOf(DecodeNBits(s, getBitsNumber(PfxCount(s, uriId))), uriId)

QNameOf(u, l) == Result(decodePfxQname(l.s, u.val), [uriId |-> u.val, lnId |-> l.val])

LnOf(u) == QNameOf(u, decodeLn(u.s, u.val))

decodeQName(s) == LnOf(decodeUri(s))
=============================================================================
