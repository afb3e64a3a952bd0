---------------------------- MODULE SchemaCodec -----------------------------
(***************************************************************************)
(* The body of a schema-informed EXI document, strict or not, from the     *)
(* serializer API (EXISerializer.c, bodyEncode.c) to the content handler   *)
(* of the parser (EXIParser.c, bodyDecode.c).                              *)
(*                                                                         *)
(* The schema is what GrammarGenerator leaves in ctx, and does not change: *)
(* all names are in its string tables, so every name is written as a hit,  *)
(* and every element has a grammar of the schema.  BodyCodec models tables *)
(* that grow and the built-in grammars.  Values keep their type; strings   *)
(* are coded by ValueCodec under the name given here.                      *)
(***************************************************************************)
EXTENDS InitSchema, IoUtil, FiniteSets

CONSTANTS Schemas,        \* each [uriTable, grammars, types, enums, elems]
          Elements,       \* the names of elements, attributes and types, as
          Attributes,     \* identifiers of the URI table
          TypeNames,
          Namespaces,     \* the namespaces declared; each has one prefix
          Values,         \* the arguments of the typed data calls
          ListLengths,    \* the lengths of lists
          OptionSets,     \* the header options both sides may agree on
          MaxDepth,       \* bound: open elements
          MaxInFlight     \* bound: events ahead of the parser

ASSUME SchemaCodecAssumption ==
  OptionSets \subseteq SUBSET {"strict", "prefixes", "selfContained", "dtd", "comments", "pis"}

VARIABLES schema,    \* the EXIPSchema of both sides, which does not change
          enc,       \* the serializer's EXIStream; its buffer is the stream
          dec,       \* the parser's EXIStream
          value,     \* what the current attribute has been given so far
          sent,      \* the events serialized and not yet parsed
          received   \* the event the content handler was last called for

vars == <<schema, enc, dec, value, sent, received>>

Fields == INSTANCE NameTables
NBits(width, val) == Fields!NBits(width, val)
Write(s, fields) == Fields!Write(s, fields)
Failed(s, err) == Fields!Failed(s, err)
DecodeNBits(s, width) == Fields!DecodeNBits(s, width)
Result(s, val) == Fields!Result(s, val)

B(condition) == IF condition THEN 1 ELSE 0

-----------------------------------------------------------------------------
(* Grammars.  A node of the stack holds the index of its grammar.           *)

EVENT_ED == 10
EVENT_NS == 60
EventClass(event) == event \div 10
ED == 1
AT == 2
SE == 3
EE == 4
CH == 5
NS == 6

GR_START_TAG_CONTENT == 0
GR_CONTENT_2 == GR_VOID_NON_TERMINAL - 1
GR_DOC_END == 1
DOC == -2

docGrammar ==
  [rule |-> << <<Production(EVENT_SE_ALL, INDEX_MAX, VoidQName, GR_DOC_END)>> \o
               [i \in DOMAIN schema.elems |->
                 LET q == schema.elems[Len(schema.elems) + 1 - i]
                 IN Production(EVENT_SE_QNAME, At(At(schema.uriTable, q.uriId).ln, q.lnId).elemGrammar,
                               q, GR_DOC_END)],
               <<Production(EVENT_ED, INDEX_MAX, VoidQName, GR_VOID_NON_TERMINAL)>> >>,
   contentIndex |-> 0, nillable |-> FALSE, namedSubTypeOrUnion |-> FALSE]

Node(grammar, nonTerm, qname) == [grammar |-> grammar, nonTerm |-> nonTerm, qname |-> qname]
Top(s) == Head(s.gStack)
InDocument(s) == Top(s).grammar = DOC
GrammarOf(s) == IF InDocument(s) THEN docGrammar ELSE At(schema.grammars, Top(s).grammar)
SetNonTerm(s, nonTerm) == [s EXCEPT !.gStack[1].nonTerm = nonTerm]
pushGrammar(s, q, g) == [s EXCEPT !.gStack = <<Node(g, GR_START_TAG_CONTENT, q)>> \o @]
popGrammar(s) == [s EXCEPT !.gStack = Tail(@)]

(* xsi:type: another grammar for the same element.                          *)
switchGrammar(s, g) == pushGrammar(popGrammar(s), Top(s).qname, g)

(* GR_CONTENT_2 is the content rule once more, without its attributes.      *)
NonTerm(s) ==
  IF Top(s).nonTerm = GR_CONTENT_2 THEN GrammarOf(s).contentIndex ELSE Top(s).nonTerm
CurrentRule(s) == At(GrammarOf(s).rule, NonTerm(s))
HasRule(s) == NonTerm(s) \in 0 .. Len(GrammarOf(s).rule) - 1

(* The loader of the built-in types leaves their counts of attributes at 0. *)
AttributeCount(s) ==
  IF Top(s).grammar \in 0 .. SIMPLE_TYPE_COUNT - 1 THEN 0
  ELSE Cardinality({i \in DOMAIN CurrentRule(s) : EventClass(CurrentRule(s)[i].event) = AT})

(* An element with xsi:nil=true has EE in the place of its content.         *)
InEmptyContent(s) == s.isNil /\ NonTerm(s) >= GrammarOf(s).contentIndex

prodCount(s) ==
  CASE InEmptyContent(s) -> 1
    [] s.isNil /\ ~InEmptyContent(s) -> AttributeCount(s) + B(HasEE(CurrentRule(s)))
    [] OTHER -> Len(CurrentRule(s))

Strict(s) == "strict" \in s.opts
CommentsOrPIs(s) == B(s.opts \cap {"comments", "pis"} # {})
Preserved(s, opt) == B(opt \in s.opts)

getBitsFirstPartCode(s) ==
  LET secondLevelExists ==
        IF InDocument(s) THEN CommentsOrPIs(s) = 1 \/ (NonTerm(s) = 0 /\ "dtd" \in s.opts)
        ELSE Strict(s) => /\ ~s.isNil
                          /\ NonTerm(s) = GR_START_TAG_CONTENT
                          /\ GrammarOf(s).nillable \/ GrammarOf(s).namedSubTypeOrUnion
  IN getBitsNumber(prodCount(s) - 1 + B(secondLevelExists))

(* Attributes may still come: before the content rule, or in it when there  *)
(* is no rule before it, unless it was entered as GR_CONTENT_2.             *)
AttributesPossible(s) ==
  LET raw == Top(s).nonTerm
      ci == GrammarOf(s).contentIndex
  IN \/ raw < ci
     \/ raw = GR_CONTENT_2 /\ ci # GR_START_TAG_CONTENT
     \/ raw = GR_START_TAG_CONTENT /\ ci = GR_START_TAG_CONTENT

(* Where an undeclared SE or CH leads.                                      *)
ContentNonTerm(s) ==
  CASE ~AttributesPossible(s) -> Top(s).nonTerm
    [] GrammarOf(s).contentIndex = GR_START_TAG_CONTENT -> GR_CONTENT_2
    [] OTHER -> GrammarOf(s).contentIndex

-----------------------------------------------------------------------------
(* Names and values.                                                        *)

xsiNil == QNameID(XML_SCHEMA_INSTANCE_ID, 0)
xsiType == QNameID(XML_SCHEMA_INSTANCE_ID, 1)
SIMPLE_TYPE_QNAME == 10
SIMPLE_TYPE_BOOLEAN == 15

LnRow(q) == At(At(schema.uriTable, q.uriId).ln, q.lnId)
uriBits == getBitsNumber(Len(schema.uriTable))
lnBits(uriId) == getBitsNumber(Len(At(schema.uriTable, uriId).ln) - 1)

encodeQName(s, q) ==
  Write(s, NBits(uriBits, q.uriId + 1) \o Fields!HitTag \o NBits(lnBits(q.uriId), q.lnId))

decodeQName(s) ==
  LET named(uriId, ln) == Result(ln.s, QNameID(uriId, ln.val))
      ofUri(u) == IF u.val \notin 1 .. Len(schema.uriTable) \/ Fields!Next1(u.s).kind # "tag"
                  THEN Result(Failed(u.s, "out of step"), xsiType)
                  ELSE named(u.val - 1, DecodeNBits(Fields!Skip1(u.s), lnBits(u.val - 1)))
  IN ofUri(DecodeNBits(s, uriBits))

ExiType(typeId) == IF typeId = INDEX_MAX THEN "NONE" ELSE At(schema.types, typeId).exiType

ClassOf(exiType) ==
  CASE exiType \in {"INTEGER", "SMALL_INTEGER", "NON_NEGATIVE_INT"} -> "INTEGER"
    [] exiType \in {"DATE_TIME", "YEAR", "DATE", "MONTH", "TIME"} -> "DATE_TIME"
    [] OTHER -> exiType

IsString(typeId) == ExiType(typeId) \in {"STRING", "UNTYPED", "NONE"}
IsEnumeration(typeId) ==
  IsString(typeId) /\ typeId # INDEX_MAX /\ "ENUMERATION" \in At(schema.types, typeId).facets
enumValues(typeId) ==
  schema.enums[SelectInSeq(schema.enums, LAMBDA e : e.typeId = typeId)].values

smallBits(typeId) == getBitsNumber(At(schema.types, typeId).max - At(schema.types, typeId).min)

(* A value is a number with the class of the data call it is passed to.     *)
Value(class, val) == [class |-> class, val |-> val]

(* A value of the type; what does not fit is refused, the event code being  *)
(* in the stream by then.  The conversions to strings are not implemented.  *)
encodeEnumeration(s, v, values) ==
  IF Contains(values, v)
  THEN Write(s, NBits(getBitsNumber(Len(values) - 1), SelectInSeq(values, LAMBDA e : e = v) - 1))
  ELSE Failed(s, "EXIP_UNEXPECTED_ERROR")

encodeSmallInteger(s, v, typeId) ==
  LET type == At(schema.types, typeId)
  IN IF v.val \in type.min .. type.max
     THEN Write(s, NBits(smallBits(typeId), v.val - type.min))
     ELSE Failed(s, "EXIP_INVALID_EXI_INPUT")

encodeValue(s, v, q, typeId) ==
  CASE IsString(typeId) /\ v.class # "STRING" ->
         Failed(s, IF v.class = "BINARY" THEN "EXIP_INCONSISTENT_PROC_STATE"
                                         ELSE "EXIP_NOT_IMPLEMENTED_YET")
    [] IsString(typeId) /\ v.class = "STRING" ->
         IF IsEnumeration(typeId) THEN encodeEnumeration(s, v, enumValues(typeId))
         ELSE Write(s, <<Fields!Field("STRING", 0, [qname |-> q, str |-> v])>>)
    [] ~IsString(typeId) /\ v.class # ClassOf(ExiType(typeId)) ->
         Failed(s, IF v.class = "STRING" THEN "EXIP_INVALID_EXI_INPUT"
                                         ELSE "EXIP_INCONSISTENT_PROC_STATE")
    [] OTHER ->
         CASE ExiType(typeId) = "SMALL_INTEGER" -> encodeSmallInteger(s, v, typeId)
           [] ExiType(typeId) = "BOOLEAN" -> Write(s, NBits(1, v.val))
           [] OTHER -> Write(s, <<Fields!Field(ExiType(typeId), 0, v.val)>>)

-----------------------------------------------------------------------------
(* The serializer.  encodeProduction returns the fields of the event code,  *)
(* the production hit, the next non-terminal and the new nil flag.          *)

NewStream(opts) ==
  [opts |-> opts, err |-> "EXIP_OK", buffer |-> <<>>,
   gStack |-> <<Node(DOC, GR_START_TAG_CONTENT, VoidQName)>>, isNil |-> FALSE,
   currAttr |-> VoidQName, attrTypeId |-> INDEX_MAX, expectATData |-> 0]

Init ==
  /\ schema \in Schemas
  /\ enc \in {NewStream(opts) : opts \in OptionSets}
  /\ dec = enc
  /\ value = <<>>
  /\ sent = <<>>
  /\ received = <<>>

Code(fields, hit, nonTerm, isNil) ==
  [refused |-> FALSE, fields |-> fields, hit |-> hit, nonTerm |-> nonTerm, isNil |-> isNil]
NoHit == Production(0, INDEX_MAX, VoidQName, 0)
Hit(event, typeId, q) == Production(event, typeId, q, 0)
Refused == [Code(<<>>, NoHit, 0, FALSE) EXCEPT !.refused = TRUE]

MatchesName(q, p) ==
  \/ p.qnameId.uriId = URI_MAX
  \/ p.qnameId.uriId = q.uriId /\ p.qnameId.lnId \in {LN_MAX, q.lnId}

(* The productions of a rule in the order of their codes.                   *)
Coded(rule, count) == [j \in 1 .. count |-> rule[Len(rule) + 1 - j]]

(* The first production of the class whose name matches has the code; the   *)
(* first CH decides alone, by the class of its type.                        *)
FirstLevelCode(coded, class, q, valueClass) ==
  LET matching(j) ==
        IF j # 0 /\ class = CH /\ ClassOf(ExiType(coded[j].typeId)) \notin {"NONE", "UNTYPED", valueClass}
        THEN -1 ELSE j - 1
  IN matching(SelectInSeq(coded, LAMBDA p : /\ EventClass(p.event) = class
                                            /\ class \in {AT, SE} => MatchesName(q, p)))

AtStart(s) == Top(s).nonTerm = GR_START_TAG_CONTENT

(* Strict: only xsi:type and xsi:nil have a code of two parts.              *)
strictCode(s, g, class, q, first) ==
  LET second(part) == Code(first \o NBits(B(g.nillable /\ g.namedSubTypeOrUnion), part),
                           Hit(EVENT_AT_QNAME, INDEX_MAX, q), GR_START_TAG_CONTENT, s.isNil)
  IN CASE AtStart(s) /\ class = AT /\ q = xsiType /\ g.namedSubTypeOrUnion -> second(0)
       [] AtStart(s) /\ class = AT /\ q = xsiNil /\ g.nillable -> second(B(g.namedSubTypeOrUnion))
       [] OTHER -> Refused

NoEE(s) == B(~HasEE(CurrentRule(s)))
Untyped(s) == Preserved(s, "dtd") + CommentsOrPIs(s)

prod2Count(s) ==
  2 + (IF AttributesPossible(s) THEN 2 ELSE 0) + NoEE(s)
    + (IF AtStart(s) THEN 2 + Preserved(s, "prefixes") + Preserved(s, "selfContained") ELSE 0)
    + Untyped(s)

(* A mutant of secondLevelPart: comments and processing instructions are    *)
(* counted one by one.                                                      *)
secondLevelPartCounted(s, class, q, count) ==
  CASE class = EE -> 0
    [] class = AT -> NoEE(s) + B(q = xsiNil)
    [] class = NS -> NoEE(s) + 4
    [] class \in {SE, CH} -> count - B(class = SE) - 1 - Preserved(s, "dtd")
                                  - Preserved(s, "comments") - Preserved(s, "pis")

secondLevelPart(s, class, q, count) ==
  CASE class = EE -> 0
    [] class = AT -> NoEE(s) + B(q = xsiNil)
    [] class = NS -> NoEE(s) + 4
    [] class \in {SE, CH} -> count - B(class = SE) - 1 - Untyped(s)

deviationCode(s, class, q, first, count) ==
  LET code(hit, nonTerm, isNil) ==
        Code(first \o NBits(getBitsNumber(count - 1), secondLevelPart(s, class, q, count)),
             hit, nonTerm, isNil)
      to(event, nonTerm) == code(Hit(event, INDEX_MAX, VoidQName), nonTerm, s.isNil /\ event # EVENT_EE)
      xsi(type) == code(Hit(EVENT_AT_QNAME, type, q), GR_START_TAG_CONTENT, s.isNil)
  IN CASE class = EE -> to(EVENT_EE, GR_VOID_NON_TERMINAL)
       [] class = AT /\ q \in {xsiNil, xsiType} /\ AtStart(s) ->
            xsi(IF q = xsiNil THEN SIMPLE_TYPE_BOOLEAN ELSE SIMPLE_TYPE_QNAME)
       [] class = NS /\ AtStart(s) /\ "prefixes" \in s.opts -> to(EVENT_NS, GR_START_TAG_CONTENT)
       [] class \in {SE, CH} -> to(IF class = SE THEN EVENT_SE_ALL ELSE EVENT_CH, ContentNonTerm(s))
       [] OTHER -> Refused

secondLevelCode(s, class, q, first) ==
  CASE InDocument(s) -> Refused
    [] ~InDocument(s) /\ Strict(s) -> strictCode(s, GrammarOf(s), class, q, first)
    [] OTHER -> deviationCode(s, class, q, first, prod2Count(s))

productionCode(s, class, q, bits, coded, code) ==
  IF code >= 0
  THEN Code(NBits(bits, code), coded[code + 1], coded[code + 1].nonTerm, s.isNil)
  ELSE secondLevelCode(s, class, q, NBits(bits, Len(coded)))

EndsNil(s, class) == s.isNil /\ class = EE /\ (InEmptyContent(s) \/ HasEE(CurrentRule(s)))

(* A mutant of nilEnd: the flag stays after a nil element.                  *)
nilEndKept(bits, count) == Code(NBits(bits, count - 1), NoHit, GR_VOID_NON_TERMINAL, TRUE)

nilEnd(bits, count) == Code(NBits(bits, count - 1), NoHit, GR_VOID_NON_TERMINAL, FALSE)

encodeProduction(s, class, isSchemaType, q, valueClass) ==
  LET coded(bits, prods) ==
        productionCode(s, class, q, bits, prods,
                       IF isSchemaType THEN FirstLevelCode(prods, class, q, valueClass) ELSE -1)
  IN CASE ~HasRule(s) \/ (InEmptyContent(s) /\ class # EE) -> Refused
       [] HasRule(s) /\ EndsNil(s, class) -> nilEnd(getBitsFirstPartCode(s), prodCount(s))
       [] OTHER -> coded(getBitsFirstPartCode(s), Coded(CurrentRule(s), prodCount(s)))

Follow(s, c) == [SetNonTerm(Write(s, c.fields), c.nonTerm) EXCEPT !.isNil = c.isNil]

(* An event is its class, the names in it and the values.                   *)
Event(ev, names, values) == [ev |-> ev, names |-> names, values |-> values]

(* An error leaves the event unfinished; the application gives up.          *)
Serialized(s, event) ==
  /\ enc' = s
  /\ sent' = IF s.err = "EXIP_OK" THEN Append(sent, event) ELSE sent
  /\ value' = <<>>
  /\ UNCHANGED <<schema, dec, received>>

(* While an attribute lacks its value, nothing else is serialized, and an   *)
(* element with xsi:nil=true is given no content.                           *)
Ready == enc.err = "EXIP_OK" /\ Len(sent) < MaxInFlight
ReadyForEvent == Ready /\ enc.expectATData = 0
ReadyForContent == ReadyForEvent /\ ~enc.isNil

startElement(q) ==
  /\ ReadyForContent
  /\ Len(enc.gStack) <= MaxDepth
  /\ \E c \in {encodeProduction(enc, SE, TRUE, q, "NONE")} : \E s \in {Follow(enc, c)} :
        /\ ~c.refused
        /\ Serialized(
             CASE c.hit.event = EVENT_SE_ALL -> pushGrammar(encodeQName(s, q), q, LnRow(q).elemGrammar)
               [] c.hit.event = EVENT_SE_QNAME -> pushGrammar(s, c.hit.qnameId, c.hit.typeId)
               [] OTHER -> Failed(s, "EXIP_NOT_IMPLEMENTED_YET"),
             Event("SE", <<q>>, <<>>))

endElement ==
  /\ ReadyForEvent
  /\ \E c \in {encodeProduction(enc, EE, TRUE, VoidQName, "NONE")} :
        /\ ~c.refused
        /\ Serialized(popGrammar(Follow(enc, c)), Event("EE", <<>>, <<>>))

(* xsi:nil and xsi:type are asked for as deviations from the schema.        *)
attribute(q) ==
  /\ ReadyForEvent
  /\ \E c \in {encodeProduction(enc, AT, q \notin {xsiNil, xsiType}, q, "NONE")} :
     \E s \in {Follow(enc, c)} :
        /\ ~c.refused
        /\ enc' = IF c.hit.event = EVENT_AT_URI THEN Failed(s, "EXIP_NOT_IMPLEMENTED_YET")
                  ELSE [(IF c.hit.event = EVENT_AT_ALL THEN encodeQName(s, q) ELSE s) EXCEPT
                         !.currAttr = q, !.expectATData = 1, !.attrTypeId = c.hit.typeId]
  /\ UNCHANGED <<schema, dec, value, sent, received>>

(* The next item of the value of an attribute; the last one ends the event. *)
AttributeItem(s, items) ==
  IF s.expectATData = 0 \/ s.err # "EXIP_OK"
  THEN Serialized(s, Event("AT", <<enc.currAttr>>, value \o items))
  ELSE /\ enc' = s
       /\ value' = value \o items
       /\ UNCHANGED <<schema, dec, sent, received>>

(* Rules of attributes alone: the rules a nil element keeps are readable.   *)
OnlyAttributes(g) ==
  \A nt \in 0 .. g.contentIndex - 1 :
    \A i \in DOMAIN At(g.rule, nt) : EventClass(At(g.rule, nt)[i].event) \in {AT, EE}

SetsNil(v) == enc.currAttr = xsiNil /\ v = Value("BOOLEAN", 1)

(* intData, booleanData, stringData and the others, for an attribute.       *)
attributeData(v) ==
  /\ Ready /\ enc.expectATData > 0 /\ enc.currAttr # xsiType
  /\ SetsNil(v) => OnlyAttributes(GrammarOf(enc))
  /\ \E s \in {encodeValue([enc EXCEPT !.expectATData = @ - 1], v, enc.currAttr, enc.attrTypeId)} :
        AttributeItem(IF SetsNil(v) /\ s.err = "EXIP_OK"
             THEN [SetNonTerm(s, GR_START_TAG_CONTENT) EXCEPT !.isNil = TRUE] ELSE s,
             <<v>>)

(* The same calls for the content of an element.                            *)
charactersData(v) ==
  /\ ReadyForContent
  /\ \E c \in {encodeProduction(enc, CH, TRUE, VoidQName, v.class)} :
        /\ ~c.refused
        /\ Serialized(encodeValue(Follow(enc, c), v, Top(enc).qname, c.hit.typeId),
                      Event("CH", <<>>, <<v>>))

(* The items of the list follow as further values of the attribute.         *)
listData(count) ==
  /\ Ready /\ enc.expectATData > 0 /\ ExiType(enc.attrTypeId) = "LIST"
  /\ AttributeItem([Write(enc, <<Fields!Field("UNSIGNED", 0, count)>>) EXCEPT
             !.expectATData = count, !.attrTypeId = At(schema.types, @).length],
          <<Value("LIST", count)>>)

(* The type must have a grammar; in a nil element, one with readable rules. *)
qnameData(q) ==
  /\ Ready /\ enc.expectATData > 0 /\ enc.currAttr = xsiType
  /\ \E g \in {LnRow(q).typeGrammar} :
        /\ g # INDEX_MAX
        /\ enc.isNil => OnlyAttributes(At(schema.grammars, g))
        /\ Serialized(switchGrammar([encodeQName(enc, q) EXCEPT !.expectATData = @ - 1], g),
                      Event("AT", <<xsiType, q>>, <<>>))

namespaceDeclaration(uriId, isLocalElementNS) ==
  /\ ReadyForEvent
  /\ \E c \in {encodeProduction(enc, NS, FALSE, VoidQName, "NONE")} :
        /\ ~c.refused
        /\ Serialized(Write(Follow(enc, c), NBits(uriBits, uriId + 1) \o NBits(1, 1)
                                             \o NBits(1, B(isLocalElementNS))),
                      Event("NS", <<QNameID(uriId, B(isLocalElementNS))>>, <<>>))

endDocument ==
  /\ ReadyForEvent
  /\ \E c \in {encodeProduction(enc, ED, TRUE, VoidQName, "NONE")} :
        ~c.refused /\ Serialized(Follow(enc, c), Event("ED", <<>>, <<>>))

-----------------------------------------------------------------------------
(* The parser.  processNextProduction decodes one event: the stream behind  *)
(* it, what the handler is called for and the next non-terminal.            *)

Parsed(s, event, nonTerm) == [s |-> s, event |-> event, nonTerm |-> nonTerm]
Broken(s, err) == Parsed(Failed(s, err), Event("", <<>>, <<>>), 0)

(* The values of an event: the reader behind them and what was read.        *)
Read(r, v) == Result(r.s, IF r.s.err = "EXIP_OK" THEN <<v>> ELSE <<>>)

DecodeField(s, kind, class) ==
  IF Fields!Next1(s).kind = kind
  THEN Result(Fields!Skip1(s), <<Value(class, Fields!Next1(s).val)>>)
  ELSE Result(Failed(s, "out of step"), <<>>)

decodeString(s, q) ==
  LET next == Fields!Next1(s)
  IN IF next.kind = "STRING" /\ next.val.qname = q THEN Result(Fields!Skip1(s), <<next.val.str>>)
     ELSE Result(Failed(s, "out of step"), <<>>)

decodeItem(s, q, typeId) ==
  LET enumerated(values, r) == Read(r, At(values, r.val))
      enumeration(values) == enumerated(values, DecodeNBits(s, getBitsNumber(Len(values) - 1)))
      small(r, min) == Read(r, Value("INTEGER", r.val + min))
      bool(r) == Read(r, Value("BOOLEAN", r.val))
  IN CASE IsEnumeration(typeId) -> enumeration(enumValues(typeId))
       [] IsString(typeId) /\ ~IsEnumeration(typeId) -> decodeString(s, q)
       [] ExiType(typeId) = "BOOLEAN" -> bool(DecodeNBits(s, 1))
       [] ExiType(typeId) = "SMALL_INTEGER" ->
            small(DecodeNBits(s, smallBits(typeId)), At(schema.types, typeId).min)
       [] OTHER -> DecodeField(s, ExiType(typeId), ClassOf(ExiType(typeId)))

decodeList(s, q, itemTypeId) ==
  LET joined(values, next) == Result(next.s, values \o next.val)
      item(r, i) == joined(r.val, decodeItem(r.s, q, itemTypeId))
      items(count) == IF count.val = <<>> THEN count
                      ELSE FoldLeft(item, count, [i \in 1 .. count.val[1].val |-> i])
  IN items(DecodeField(s, "UNSIGNED", "LIST"))

decodeValueItem(s, q, typeId) ==
  IF ExiType(typeId) = "LIST" THEN decodeList(s, q, At(schema.types, typeId).length)
  ELSE decodeItem(s, q, typeId)

decodeQNameValue(s, nonTerm) ==
  LET typed(q, g, event) ==
        CASE q.s.err # "EXIP_OK" -> Broken(q.s, q.s.err)
          [] q.s.err = "EXIP_OK" /\ g = INDEX_MAX -> Parsed(q.s, event, nonTerm)
          [] OTHER -> Parsed(switchGrammar(q.s, g), event, GR_START_TAG_CONTENT)
      named(q) == typed(q, LnRow(q.val).typeGrammar, Event("AT", <<xsiType, q.val>>, <<>>))
  IN named(decodeQName(s))

decodeAttribute(s, q, typeId, nonTerm) ==
  LET valued(v, nil) == Parsed([v.s EXCEPT !.isNil = @ \/ nil], Event("AT", <<q>>, v.val),
                               IF nil THEN GR_START_TAG_CONTENT ELSE nonTerm)
      with(v) == valued(v, q = xsiNil /\ v.val = <<Value("BOOLEAN", 1)>>)
  IN with(decodeValueItem([s EXCEPT !.currAttr = q], q, typeId))

decodeATWildcardEvent(s, nonTerm) ==
  LET named(q) == IF q.s.err # "EXIP_OK" \/ q.val \in {xsiNil, xsiType}
                  THEN Broken(q.s, "EXIP_INCONSISTENT_PROC_STATE")
                  ELSE decodeAttribute(q.s, q.val, INDEX_MAX, nonTerm)
  IN named(decodeQName(s))

decodeSEWildcardEvent(s) ==
  LET opened(q, g) ==
        IF q.s.err # "EXIP_OK" \/ g = INDEX_MAX
        THEN Broken(q.s, "EXIP_INCONSISTENT_PROC_STATE")
        ELSE Parsed(pushGrammar(q.s, q.val, g), Event("SE", <<q.val>>, <<>>), GR_START_TAG_CONTENT)
      named(q) == opened(q, LnRow(q.val).elemGrammar)
  IN named(decodeQName(s))

decodeCharacters(s, typeId, nonTerm) ==
  LET with(v) == Parsed(v.s, Event("CH", <<>>, v.val), nonTerm)
  IN with(decodeValueItem(s, Top(s).qname, typeId))

decodeNSEvent(s) ==
  LET declared(u, isLocal) == Parsed(isLocal.s, Event("NS", <<QNameID(u.val - 1, isLocal.val)>>, <<>>),
                                     GR_START_TAG_CONTENT)
      pfx(u, p) == IF p.val # 1 THEN Broken(p.s, "out of step") ELSE declared(u, DecodeNBits(p.s, 1))
      uri(u) == pfx(u, DecodeNBits(u.s, 1))
  IN uri(DecodeNBits(s, uriBits))

EndOfElement(s) == Parsed([s EXCEPT !.isNil = FALSE], Event("EE", <<>>, <<>>), GR_VOID_NON_TERMINAL)

handleProduction(s, p) ==
  CASE p.event = EVENT_ED -> Parsed(s, Event("ED", <<>>, <<>>), p.nonTerm)
    [] p.event = EVENT_EE -> EndOfElement(s)
    [] s.isNil /\ EventClass(p.event) \in {SE, CH} -> Broken(s, "assert")
    [] ~s.isNil /\ p.event = EVENT_SE_ALL -> decodeSEWildcardEvent(SetNonTerm(s, p.nonTerm))
    [] ~s.isNil /\ p.event = EVENT_SE_QNAME ->
         Parsed(pushGrammar(SetNonTerm(s, p.nonTerm), p.qnameId, p.typeId),
                Event("SE", <<p.qnameId>>, <<>>), GR_START_TAG_CONTENT)
    [] ~s.isNil /\ p.event = EVENT_CH -> decodeCharacters(s, p.typeId, p.nonTerm)
    [] p.event = EVENT_AT_ALL -> decodeATWildcardEvent(s, p.nonTerm)
    [] p.event = EVENT_AT_QNAME -> decodeAttribute(s, p.qnameId, p.typeId, p.nonTerm)
    [] OTHER -> Broken(s, "EXIP_NOT_IMPLEMENTED_YET")

decodeXsiNil(s) == decodeAttribute(s, xsiNil, SIMPLE_TYPE_BOOLEAN, GR_START_TAG_CONTENT)

(* The second level of a strict grammar: the two attributes it allows.      *)
strictProdDecode(s, g) ==
  LET attributeOf(r, both) ==
        IF g.namedSubTypeOrUnion /\ (both => r.val = 0)
        THEN decodeQNameValue(r.s, GR_START_TAG_CONTENT) ELSE decodeXsiNil(r.s)
      coded(both) == attributeOf(DecodeNBits(s, B(both)), both)
  IN IF ~AtStart(s) \/ s.isNil \/ ~(g.nillable \/ g.namedSubTypeOrUnion)
     THEN Broken(s, "EXIP_INCONSISTENT_PROC_STATE")
     ELSE coded(g.nillable /\ g.namedSubTypeOrUnion)

(* The second level of any other grammar, in the order of its productions.  *)
stateMask(s) ==
  SelectSeq(<<"EE", "xsi:type", "xsi:nil", "AT(*)", "AT untyped", "NS", "SC", "SE", "CH", "ER", "CM or PI">>,
    LAMBDA state :
      CASE state = "EE" -> ~HasEE(CurrentRule(s))
        [] state \in {"xsi:type", "xsi:nil"} -> AtStart(s)
        [] state \in {"AT(*)", "AT untyped"} -> AttributesPossible(s)
        [] state = "NS" -> AtStart(s) /\ "prefixes" \in s.opts
        [] state = "SC" -> AtStart(s) /\ "selfContained" \in s.opts
        [] state = "ER" -> "dtd" \in s.opts
        [] state = "CM or PI" -> CommentsOrPIs(s) = 1
        [] OTHER -> TRUE)

secondLevelEvent(s, state) ==
  CASE state = "EE" -> EndOfElement(s)
    [] state = "xsi:type" -> decodeQNameValue(s, GR_VOID_NON_TERMINAL)
    [] state = "xsi:nil" -> decodeXsiNil(s)
    [] state = "AT(*)" -> decodeATWildcardEvent(s, Top(s).nonTerm)
    [] state = "NS" -> decodeNSEvent(s)
    [] state = "SE" -> decodeSEWildcardEvent(SetNonTerm(s, ContentNonTerm(s)))
    [] state = "CH" -> decodeCharacters(s, INDEX_MAX, ContentNonTerm(s))
    [] OTHER -> Broken(s, "EXIP_INCONSISTENT_PROC_STATE")

stateMachineProdDecode(s) ==
  LET event(r, available) ==
        IF r.s.err # "EXIP_OK" THEN Broken(r.s, r.s.err)
        ELSE secondLevelEvent(r.s, IF r.val < Len(available) THEN At(available, r.val) ELSE "none")
      coded(available) == event(DecodeNBits(s, getBitsNumber(Len(available) - 1)), available)
  IN coded(stateMask(s))

secondLevelProduction(s) ==
  CASE InDocument(s) -> Broken(s, "EXIP_INCONSISTENT_PROC_STATE")
    [] ~InDocument(s) /\ Strict(s) -> strictProdDecode(s, GrammarOf(s))
    [] OTHER -> stateMachineProdDecode(s)

(* A code of no bits is the first production; with nil, the last code of a  *)
(* rule that has EE is EE.                                                  *)
productionOf(s, rule, count, bits, val) ==
  CASE val < count /\ bits > 0 /\ s.isNil /\ HasEE(rule) /\ val = count - 1 -> EndOfElement(s)
    [] val < count /\ ~(bits > 0 /\ s.isNil /\ HasEE(rule) /\ val = count - 1) ->
         handleProduction(s, IF bits = 0 THEN rule[1] ELSE rule[count - val])
    [] val >= count -> secondLevelProduction(s)

processNextProduction(s) ==
  LET event(r, bits) ==
        CASE r.s.err # "EXIP_OK" -> Broken(r.s, r.s.err)
          [] r.s.err = "EXIP_OK" /\ InEmptyContent(s) -> EndOfElement(r.s)
          [] OTHER -> productionOf(r.s, CurrentRule(s), prodCount(s), bits, r.val)
      coded(bits) == event(DecodeNBits(s, bits), bits)
  IN IF ~HasRule(s) THEN Broken(s, "EXIP_INCONSISTENT_PROC_STATE")
     ELSE coded(getBitsFirstPartCode(s))

(* parseNext leaves a grammar whose derivation is complete and otherwise    *)
(* moves the grammar on top to its next non-terminal.  When the stack is    *)
(* empty the document is parsed.                                            *)
CanParse == sent # <<>> /\ dec.err = "EXIP_OK" /\ dec.gStack # <<>>

Advanced(p) ==
  CASE p.s.err # "EXIP_OK" -> p.s
    [] p.s.err = "EXIP_OK" /\ p.nonTerm = GR_VOID_NON_TERMINAL -> popGrammar(p.s)
    [] OTHER -> SetNonTerm(p.s, p.nonTerm)

parseNext ==
  /\ CanParse
  /\ \E p \in {processNextProduction([dec EXCEPT !.buffer = enc.buffer])} :
     \E s \in {Advanced(p)} :
       /\ dec' = [s EXCEPT !.buffer = <<>>]
       /\ enc' = [enc EXCEPT !.buffer = s.buffer]
       /\ received' = IF s.err = "EXIP_OK" THEN <<p.event>> ELSE received
  /\ sent' = Tail(sent)
  /\ UNCHANGED <<schema, value>>

Serialize ==
  \/ \E q \in Elements : startElement(q)
  \/ endElement
  \/ \E q \in Attributes : attribute(q)
  \/ \E v \in Values : attributeData(v)
  \/ \E v \in Values : charactersData(v)
  \/ \E count \in ListLengths : listData(count)
  \/ \E q \in TypeNames : qnameData(q)
  \/ \E uriId \in Namespaces, isLocal \in BOOLEAN : namespaceDeclaration(uriId, isLocal)
  \/ endDocument

Next == Serialize \/ parseNext

(* The parser is driven by a loop that calls parseNext until the document   *)
(* is parsed, so an event that is in the stream is eventually decoded: weak *)
(* fairness of parseNext, which is enabled exactly when CanParse holds.     *)
ParserFairness == []<>~CanParse \/ []<><<parseNext>>_vars

Spec == Init /\ [][Next]_vars /\ ParserFairness

-----------------------------------------------------------------------------
(* Properties.                                                              *)

(* Codec promise under a schema: the content handler is called for exactly  *)
(* the events the application serialized, in order, with their names and    *)
(* typed values, whichever of them the schema declares and whichever are    *)
(* deviations coded at the second level; no assertion stops the parser.     *)
ListItems(count) == [1 .. count -> {v \in Values : v.class = "INTEGER"}]
Events ==
  {Event(ev, <<>>, <<>>) : ev \in {"EE", "ED"}}
  \cup {Event("SE", <<q>>, <<>>) : q \in Elements}
  \cup {Event("AT", <<q>>, <<v>>) : q \in Attributes, v \in Values}
  \cup UNION {{Event("AT", <<q>>, <<Value("LIST", count)>> \o items) :
         q \in Attributes, items \in ListItems(count)} : count \in ListLengths}
  \cup {Event("AT", <<xsiType, q>>, <<>>) : q \in TypeNames}
  \cup {Event("CH", <<>>, <<v>>) : v \in Values}
  \cup {Event("NS", <<QNameID(uriId, isLocal)>>, <<>>) : uriId \in Namespaces, isLocal \in {0, 1}}

Pipe == INSTANCE EventPipe
          WITH Item <- Events, pipe <- sent, received <- received

DeliversEveryEvent == Pipe!Spec

(* Whenever the parser has caught up, both sides stand at the same place of *)
(* the same grammars, agree on whether the element is nil, and the whole    *)
(* stream has been read: each event code was given as many bits as were     *)
(* read for it, although its width depends on all of that.                  *)
InStep ==
  sent = <<>> /\ enc.err = "EXIP_OK" /\ enc.expectATData = 0 =>
    /\ dec.gStack = IF Top(enc).nonTerm = GR_VOID_NON_TERMINAL THEN <<>> ELSE enc.gStack
    /\ dec.isNil = enc.isNil
    /\ enc.buffer = <<>>
=============================================================================
