---------------------------- MODULE BodyCodec -----------------------------
(***************************************************************************)
(* The body of a schema-less EXI document from the serializer API          *)
(* (EXISerializer.c, bodyEncode.c) to the content handler of the parser    *)
(* (EXIParser.c, bodyDecode.c).  Both sides keep string tables, learned    *)
(* grammars and a grammar stack of their own; the parser may lag behind by *)
(* any number of events.  The values of characters and attributes are      *)
(* coded by ValueCodec under the qualified name given here.                *)
(***************************************************************************)
EXTENDS BuiltInGrammars

CONSTANTS ElemNames,    \* the elements, [uri, ln, pfx]
          AttrNames,    \* the attributes
          TypeNames,    \* the values of xsi:type
          Namespaces,   \* the namespace declarations, [uri, pfx]
          Values,       \* the strings of characters and attributes
          OptionSets,   \* the header options both sides may agree on
          MaxDepth,     \* bound: open elements
          MaxInFlight   \* bound: events ahead of the parser

ASSUME BodyCodecAssumption ==
  /\ \A q \in ElemNames \cup AttrNames \cup TypeNames :
       q \in [uri : STRING, ln : STRING, pfx : STRING]
  /\ Namespaces \subseteq [uri : STRING, pfx : STRING]
  /\ Values \subseteq STRING
  /\ OptionSets \subseteq SUBSET {"prefixes", "selfContained", "dtd", "comments", "pis"}

VARIABLES enc,       \* the serializer's EXIStream; its buffer is the stream
          dec,       \* the parser's EXIStream
          sent,      \* the events serialized and not yet parsed
          received   \* the event the content handler was last called for

vars == <<enc, dec, sent, received>>

NewStream(opts) ==
  [opts |-> opts, err |-> "EXIP_OK", buffer |-> <<>>,
   uriTable |-> InitialUriTable, grammarTable |-> <<>>,
   gStack |-> <<Node(DOC, GR_DOC_CONTENT, VoidQName)>>,
   currAttr |-> VoidQName, expectATData |-> FALSE]

Init ==
  /\ enc \in {NewStream(opts) : opts \in OptionSets}
  /\ dec = enc
  /\ sent = <<>>
  /\ received = <<>>

Event(ev, uri, ln, val) == [ev |-> ev, uri |-> uri, ln |-> ln, val |-> val]
Plain(ev) == Event(ev, "", "", <<>>)
NSEvent(uri, pfx, isLocal) ==
  Event("NS", uri, pfx, <<IF isLocal THEN "local" ELSE "inherited">>)

-----------------------------------------------------------------------------
(* The serializer.                                                          *)

(* Mutant of PredictedQNameID: the last local name instead of the next one. *)
PredictedQNameIDOffByOne(s, q) ==
  LET uriId == lookupUri(s.uriTable, q.uri)
      lnId == lookupLn(s.uriTable, uriId, q.ln)
  IN IF uriId < 0 THEN [uriId |-> Len(s.uriTable), lnId |-> 0]
     ELSE IF lnId >= 0 THEN [uriId |-> uriId, lnId |-> lnId]
     ELSE [uriId |-> uriId, lnId |-> Len(At(s.uriTable, uriId).lnTable) - 1]

(* The event code, and the production learned from a second-level event     *)
(* under the identifiers the name will get when its content is written.     *)
PredictedQNameID(s, q) ==
  LET uriId == lookupUri(s.uriTable, q.uri)
      lnId == lookupLn(s.uriTable, uriId, q.ln)
  IN IF uriId < 0 THEN [uriId |-> Len(s.uriTable), lnId |-> 0]
     ELSE IF lnId >= 0 THEN [uriId |-> uriId, lnId |-> lnId]
     ELSE [uriId |-> uriId, lnId |-> Len(At(s.uriTable, uriId).lnTable)]

Learn(s, class, q) ==
  LET g == Top(s).grammar
      nt == Top(s).currNonTermID
      id == PredictedQNameID(s, q)
  IN CASE class = "EE" -> SetNonTerm(insertZeroProduction(s, g, nt,
                            Prod("EE", GR_VOID_NON_TERMINAL, VoidQName)), GR_VOID_NON_TERMINAL)
       [] class = "AT" -> LearnAttribute(s, g, id)
       [] class = "SE" -> SetNonTerm(insertZeroProduction(s, g, nt,
                            Prod("SE_QNAME", GR_ELEMENT_CONTENT, id)), GR_ELEMENT_CONTENT)
       [] class = "CH" -> SetNonTerm(insertZeroProduction(s, g, nt,
                            Prod("CH", GR_ELEMENT_CONTENT, VoidQName)), GR_ELEMENT_CONTENT)
       [] class = "NS" -> s

NoName == [uri |-> "", ln |-> "", pfx |-> ""]

(* Every other combination is refused before anything is written.           *)
CanEncode(class, q) ==
  /\ Top(enc).currNonTermID # GR_VOID_NON_TERMINAL
  /\ \/ FirstLevelCode(enc, class, q) >= 0
     \/ /\ BuiltIn(enc)
        /\ CASE class \in {"SE", "CH"} -> TRUE
             [] class = "NS" -> /\ Top(enc).currNonTermID = GR_START_TAG_CONTENT
                                /\ "prefixes" \in enc.opts
             [] class \in {"AT", "EE"} -> Top(enc).currNonTermID = GR_START_TAG_CONTENT
             [] OTHER -> FALSE

encodeProduction(s, class, q) ==
  LET code == FirstLevelCode(s, class, q)
      bits == getBitsFirstPartCode(s)
      pCount == Len(CurrentRule(s).production)
  IN IF code >= 0
     THEN SetNonTerm(Write(s, NBits(bits, code)), ProductionOf(s, code).nonTerm)
     ELSE Write(Learn(s, class, q),
                NBits(bits, pCount) \o NBits(SecondLevelBits(s), SecondLevelPart(s, class)))

(* The content of a named event: after a wildcard the name, after a learned *)
(* production its prefix only.                                              *)
encodeNamed(s, class, q) ==
  LET code == FirstLevelCode(s, class, q)
      hit == ProductionOf(s, code)
      s1 == encodeProduction(s, class, q)
  IN IF code >= 0 /\ hit.event \in {"SE_QNAME", "AT_QNAME"}
     THEN encodePfxQName(s1, hit.qnameId.uriId, q.pfx, FALSE)
     ELSE encodeQName(s1, q, class = "SE")

(* An error leaves the event unfinished; the application gives up.          *)
Serialized(s, event) ==
  /\ enc' = s
  /\ sent' = IF s.err = "EXIP_OK" THEN Append(sent, event) ELSE sent
  /\ UNCHANGED <<dec, received>>

Ready == enc.err = "EXIP_OK" /\ Len(sent) < MaxInFlight

startElement(q) ==
  /\ Ready /\ ~enc.expectATData
  /\ CanEncode("SE", q)
  /\ Len(enc.gStack) <= MaxDepth
  /\ LET s == encodeNamed(enc, "SE", q)
         learned == BuiltIn(enc) /\ FirstLevelCode(enc, "SE", q) >= 0
     IN Serialized(IF s.err # "EXIP_OK" THEN s
                   ELSE IF learned THEN PushLearnedElement(s, QNameIDOf(s, q))
                   ELSE PushElement(s, QNameIDOf(s, q)),
                   Event("SE", q.uri, q.ln, <<>>))

endElement ==
  /\ Ready /\ ~enc.expectATData
  /\ CanEncode("EE", NoName)
  /\ Serialized(popGrammar(encodeProduction(enc, "EE", NoName)), Plain("EE"))

(* attribute leaves the stream waiting for the attribute's value.           *)
attribute(q) ==
  /\ Ready /\ ~enc.expectATData
  /\ CanEncode("AT", q)
  /\ LET s == encodeNamed(enc, "AT", q)
     IN enc' = IF s.err = "EXIP_OK"
               THEN [s EXCEPT !.currAttr = QNameIDOf(s, q), !.expectATData = TRUE]
               ELSE s
  /\ UNCHANGED <<dec, sent, received>>

Value(id, str) == <<Field("value", 0, [qname |-> id, str |-> str])>>

AttributeEvent(val) ==
  Event("AT", UriStr(enc, enc.currAttr), Ln(enc, enc.currAttr).lnStr, val)

(* The value of an attribute; the value of xsi:type is left to qnameData.   *)
attributeData(v) ==
  /\ Ready /\ enc.expectATData
  /\ ~IsXsi(enc.currAttr, XML_SCHEMA_INSTANCE_TYPE_ID)
  /\ Serialized([Write(enc, Value(enc.currAttr, v)) EXCEPT !.expectATData = FALSE],
                AttributeEvent(<<v>>))

qnameData(q) ==
  /\ Ready /\ enc.expectATData
  /\ IsXsi(enc.currAttr, XML_SCHEMA_INSTANCE_TYPE_ID)
  /\ Serialized([encodeQName(enc, q, FALSE) EXCEPT !.expectATData = FALSE],
                AttributeEvent(<<q.uri, q.ln>>))

stringData(v) ==
  /\ Ready /\ ~enc.expectATData
  /\ CanEncode("CH", NoName)
  /\ LET s == encodeProduction(enc, "CH", NoName)
     IN Serialized(Write(s, Value(Top(s).currQNameID, v)), Event("CH", "", "", <<v>>))

namespaceDeclaration(ns, isLocalElementNS) ==
  /\ Ready /\ ~enc.expectATData
  /\ CanEncode("NS", NoName)
  /\ LET s == encodeUri(encodeProduction(enc, "NS", NoName), ns.uri)
         p == encodePfx(s, lookupUri(s.uriTable, ns.uri), ns.pfx)
     IN Serialized(Write(p, NBits(1, IF isLocalElementNS THEN 1 ELSE 0)),
                   NSEvent(ns.uri, ns.pfx, isLocalElementNS))

endDocument ==
  /\ Ready /\ ~enc.expectATData
  /\ CanEncode("ED", NoName)
  /\ Serialized(encodeProduction(enc, "ED", NoName), Plain("ED"))

-----------------------------------------------------------------------------
(* The parser.  processNextProduction decodes one event: the stream behind  *)
(* it, what the handler is called for and the next non-terminal.            *)

Parsed(s, event, nonTerm) == [s |-> s, event |-> event, nonTerm |-> nonTerm]

Named(s, ev, id, val) == Event(ev, UriStr(s, id), Ln(s, id).lnStr, val)

DecodeString(s, id) ==
  LET f == Next1(s)
  IN IF f.kind = "value" /\ f.val.qname = id THEN Result(Skip1(s), <<f.val.str>>)
     ELSE Result(Failed(s, "out of step"), <<"">>)

(* The value of xsi:type.                                                   *)
QNameStr(q) ==
  Result(q.s, IF q.s.err # "EXIP_OK" THEN <<"">>
              ELSE <<UriStr(q.s, q.val), Ln(q.s, q.val).lnStr>>)

decodeQNameValue(s) == QNameStr(decodeQName(s))

(* decodeValueItem without a type: the name alone decides between a string  *)
(* and a qualified name, and only xsi:type may have a qualified name.       *)
decodeValueItem(s, id) ==
  CASE IsXsi(id, XML_SCHEMA_INSTANCE_NIL_ID) -> Result(Failed(s, "assert"), <<"">>)
    [] IsXsi(id, XML_SCHEMA_INSTANCE_TYPE_ID) -> decodeQNameValue(s)
    [] OTHER -> DecodeString(s, id)

OpenElement(q) ==
  IF q.s.err # "EXIP_OK" THEN Parsed(q.s, Plain("SE"), GR_START_TAG_CONTENT)
  ELSE Parsed(PushElement(q.s, q.val), Named(q.s, "SE", q.val, <<>>), GR_START_TAG_CONTENT)

DecodeSE(s, nonTerm) == OpenElement(decodeQName(SetNonTerm(s, nonTerm)))

DecodeLearnedSE(s, id, nonTerm) ==
  Parsed(PushLearnedElement(SetNonTerm(decodePfxQname(s, id.uriId), nonTerm), id),
         Named(s, "SE", id, <<>>), GR_START_TAG_CONTENT)

DecodeAttributeOf(s, id) ==
  LET with(v) == Parsed(v.s, Named(s, "AT", id, v.val), GR_START_TAG_CONTENT)
  IN with(decodeValueItem([s EXCEPT !.currAttr = id], id))

DecodeAT(s) ==
  LET named(q) == IF q.s.err = "EXIP_OK" THEN DecodeAttributeOf(q.s, q.val)
                  ELSE Parsed(q.s, Plain("AT"), GR_START_TAG_CONTENT)
  IN named(decodeQName(s))

DecodeCH(s) ==
  LET with(v) == Parsed(v.s, Event("CH", "", "", v.val), GR_ELEMENT_CONTENT)
  IN with(decodeValueItem(s, Top(s).currQNameID))

NSOf(u, p, b) ==
  Parsed(b.s, NSEvent(At(b.s.uriTable, u.val).uriStr,
                      At(At(b.s.uriTable, u.val).pfxTable, p.val), b.val = 1),
         GR_START_TAG_CONTENT)

decodeNSEvent(s) ==
  LET isLocal(u, p) == NSOf(u, p, DecodeNBits(p.s, 1))
      pfx(u) == isLocal(u, decodePfx(u.s, u.val))
  IN pfx(decodeUri(s))

handleProduction(s, prod) ==
  CASE prod.event \in {"EE", "ED"} -> Parsed(s, Plain(prod.event), prod.nonTerm)
    [] prod.event = "SE_ALL" -> DecodeSE(s, prod.nonTerm)
    [] prod.event = "SE_QNAME" -> DecodeLearnedSE(s, prod.qnameId, prod.nonTerm)
    [] prod.event = "AT_QNAME" ->
         DecodeAttributeOf(decodePfxQname(s, prod.qnameId.uriId), prod.qnameId)
    [] prod.event = "CH" -> DecodeCH(s)

(* A second-level event is decoded first and learned afterwards, by the     *)
(* rule that was current when it began: `nt` of grammar `g`.                *)
SecondLevelEvent(s, state) ==
  CASE state = "EE" -> Parsed(s, Plain("EE"), GR_VOID_NON_TERMINAL)
    [] state = "AT" -> DecodeAT(s)
    [] state = "NS" -> decodeNSEvent(s)
    [] state = "SE" -> DecodeSE(s, GR_ELEMENT_CONTENT)
    [] state = "CH" -> DecodeCH(s)
    [] OTHER -> Parsed(Failed(s, "EXIP_INCONSISTENT_PROC_STATE"), Plain(""), 0)

LearnParsed(p, state, g, nt) ==
  LET learned(event, nonTerm, id) == insertZeroProduction(p.s, g, nt, Prod(event, nonTerm, id))
  IN IF p.s.err # "EXIP_OK" \/ state = "NS" THEN p
     ELSE [p EXCEPT !.s =
       CASE state = "EE" -> learned("EE", GR_VOID_NON_TERMINAL, VoidQName)
         [] state = "AT" -> LearnAttribute(p.s, g, p.s.currAttr)
         [] state = "SE" -> learned("SE_QNAME", GR_ELEMENT_CONTENT, Top(p.s).currQNameID)
         [] state = "CH" -> learned("CH", GR_ELEMENT_CONTENT, VoidQName)]

stateMachineProdDecode(s) ==
  LET event(r, state) == LearnParsed(SecondLevelEvent(r.s, state), state,
                                     Top(s).grammar, Top(s).currNonTermID)
      coded(r) == event(r, StateOf(s, r.val))
  IN coded(DecodeNBits(s, getBitsNumber(Cardinality(Available(s)) - 1)))

processNextProduction(s) ==
  LET coded(r) ==
        IF r.s.err # "EXIP_OK" THEN Parsed(r.s, Plain(""), 0)
        ELSE IF r.val < Len(CurrentRule(s).production)
        THEN handleProduction(r.s, ProductionOf(s, r.val))
        ELSE IF BuiltIn(s) THEN stateMachineProdDecode(r.s)
        ELSE Parsed(Failed(r.s, "EXIP_INCONSISTENT_PROC_STATE"), Plain(""), 0)
  IN coded(DecodeNBits(s, getBitsFirstPartCode(s)))

(* parseNext leaves a grammar whose derivation is complete and otherwise    *)
(* moves the grammar on top to its next non-terminal.  When the stack is    *)
(* empty the document is parsed.                                            *)
CanParse == sent # <<>> /\ dec.err = "EXIP_OK" /\ dec.gStack # <<>>

Advanced(p) ==
  IF p.s.err # "EXIP_OK" THEN p.s
  ELSE IF p.nonTerm = GR_VOID_NON_TERMINAL THEN popGrammar(p.s)
  ELSE SetNonTerm(p.s, p.nonTerm)

parseNext ==
  /\ CanParse
  /\ \E p \in {processNextProduction([dec EXCEPT !.buffer = enc.buffer])} :
     \E s \in {Advanced(p)} :
       /\ dec' = [s EXCEPT !.buffer = <<>>]
       /\ enc' = [enc EXCEPT !.buffer = s.buffer]
       /\ received' = IF s.err = "EXIP_OK" THEN <<p.event>> ELSE received
  /\ sent' = Tail(sent)

Serialize ==
  \/ \E q \in ElemNames : startElement(q)
  \/ endElement
  \/ \E q \in AttrNames : attribute(q)
  \/ \E v \in Values : attributeData(v)
  \/ \E v \in Values : stringData(v)
  \/ \E q \in TypeNames : qnameData(q)
  \/ \E ns \in Namespaces, isLocal \in BOOLEAN : namespaceDeclaration(ns, isLocal)
  \/ endDocument

Next == Serialize \/ parseNext

(* The parser is driven by a loop that calls parseNext until the document   *)
(* is parsed, so an event that is in the stream is eventually decoded: weak *)
(* fairness of parseNext, which is enabled exactly when CanParse holds.     *)
ParserFairness == []<>~CanParse \/ []<><<parseNext>>_vars

Spec == Init /\ [][Next]_vars /\ ParserFairness

-----------------------------------------------------------------------------
(* Properties.                                                              *)

(* Codec promise: the content handler is called for exactly the events that *)
(* the application serialized, in order, with the names and values it gave  *)
(* them, although nearly everything in the stream is relative to what both  *)
(* sides have learned so far.  No error or assertion stops the parser.      *)
Events ==
  {Plain("EE"), Plain("ED")}
  \cup {Event("SE", q.uri, q.ln, <<>>) : q \in ElemNames}
  \cup {Event("AT", q.uri, q.ln, <<v>>) : q \in AttrNames, v \in Values}
  \cup {Event("AT", q.uri, q.ln, <<t.uri, t.ln>>) : q \in AttrNames, t \in TypeNames}
  \cup {Event("CH", "", "", <<v>>) : v \in Values}
  \cup {NSEvent(ns.uri, ns.pfx, isLocal) : ns \in Namespaces, isLocal \in BOOLEAN}

Pipe == INSTANCE EventPipe
          WITH Item <- Events, pipe <- sent, received <- received

DeliversEveryEvent == Pipe!Spec

(* Whenever the parser has caught up, both sides hold the same names, the   *)
(* same learned grammars and the same open elements, and the whole stream   *)
(* has been read: the encoder learns before it writes an event's content    *)
(* and from predicted identifiers, the decoder after it has read it.        *)
Ended(s) == Top(s).currNonTermID = GR_VOID_NON_TERMINAL

InStep ==
  sent = <<>> /\ enc.err = "EXIP_OK" /\ ~enc.expectATData =>
    /\ dec.uriTable = enc.uriTable
    /\ dec.grammarTable = enc.grammarTable
    /\ dec.gStack = IF Ended(enc) THEN <<>> ELSE enc.gStack
    /\ enc.buffer = <<>>

(* insertZeroProduction never checks for duplicates: the comments in        *)
(* stateMachineProdEncode argue that first-level matching makes that        *)
(* unnecessary, except for xsi:type, where both sides keep a flag.  No rule *)
(* ever holds the same production twice.                                    *)
LearnedOnce ==
  \A s \in {enc, dec} : \A g \in 1..Len(s.grammarTable), nt \in {1, 2} :
    IsInjective(s.grammarTable[g][nt].production)

(* A learned SE(qname) can always be followed: its name is in the tables    *)
(* and an earlier element has left a grammar there; each open element is    *)
(* processed by the grammar of its own name.                                *)
Followable(s, id) == KnownName(s, id) /\ Ln(s, id).elemGrammar # NoGrammar

LearnedElementsHaveGrammars ==
  \A s \in {enc, dec} :
    /\ \A g \in 1..Len(s.grammarTable), nt \in {1, 2} :
         \A p \in Range(s.grammarTable[g][nt].production) :
           /\ p.event = "SE_QNAME" => Followable(s, p.qnameId)
           /\ p.event = "AT_QNAME" => KnownName(s, p.qnameId)
    /\ \A i \in 1..Len(s.gStack) - 1 :
         /\ Followable(s, s.gStack[i].currQNameID)
         /\ s.gStack[i].grammar = Ln(s, s.gStack[i].currQNameID).elemGrammar

(* No name has two identifiers: the parser adds literals without a look-up. *)
NamesStoredOnce ==
  \A s \in {enc, dec} :
    /\ IsInjective([i \in 1..Len(s.uriTable) |-> s.uriTable[i].uriStr])
    /\ \A i \in 1..Len(s.uriTable) :
         LET e == s.uriTable[i]
         IN /\ IsInjective([k \in 1..Len(e.lnTable) |-> e.lnTable[k].lnStr])
            /\ IsInjective(e.pfxTable)
=============================================================================
