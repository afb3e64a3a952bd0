----------------------------- MODULE MCGrammarGen -----------------------------
(***************************************************************************)
(* The schemas GrammarLanguages is checked for, as documents and as the    *)
(* events the parser reports of them.                                      *)
(***************************************************************************)
EXTENDS GrammarLanguages

(* An element of a document: its name, its attributes and its children.     *)
Xs(name, attrs, children) ==
  [uri |-> XML_SCHEMA_NAMESPACE, name |-> name, attrs |-> attrs, children |-> children]
Other(name, children) == [Xs(name, <<>>, children) EXCEPT !.uri = "urn:o"]

dataOf(name) ==
  CASE name = "minOccurs" -> "intData"
    [] name \in {"mixed", "nillable", "abstract"} -> "boolData"
    [] OTHER -> "stringData"

attributeEvents(attrs) ==
  FlattenSeq([i \in DOMAIN attrs |->
    <<[ev |-> "attribute", name |-> attrs[i][1]],
      [ev |-> dataOf(attrs[i][1]), value |-> attrs[i][2]]>>])

RECURSIVE elementEvents(_)
elementEvents(x) ==
  <<[ev |-> "startElement", uri |-> x.uri, name |-> x.name]>>
    \o attributeEvents(x.attrs)
    \o FlattenSeq([i \in DOMAIN x.children |-> elementEvents(x.children[i])])
    \o <<[ev |-> "endElement"]>>

(* A document, with the properties of its <schema>.                         *)
Document(targetNs, forms, prefixes, children) ==
  [targetNs |-> targetNs, elemQualified |-> "element" \in forms,
   attrQualified |-> "attribute" \in forms, prefixes |-> prefixes, children |-> children]

schemaAttributes(doc) ==
  (IF doc.targetNs = "" THEN <<>> ELSE << <<"targetNamespace", doc.targetNs>> >>)
    \o (IF doc.elemQualified THEN << <<"elementFormDefault", "qualified">> >> ELSE <<>>)
    \o (IF doc.attrQualified THEN << <<"attributeFormDefault", "qualified">> >> ELSE <<>>)

documentEvents(doc) ==
  <<[ev |-> "startElement", uri |-> XML_SCHEMA_NAMESPACE, name |-> "schema"]>>
    \o [i \in DOMAIN doc.prefixes |->
          [ev |-> "namespaceDeclaration", pfx |-> doc.prefixes[i][1], ns |-> doc.prefixes[i][2]]]
    \o attributeEvents(schemaAttributes(doc))
    \o FlattenSeq([i \in DOMAIN doc.children |-> elementEvents(doc.children[i])])
    \o <<[ev |-> "endElement"]>>

complexType(children) == Xs("complexType", <<>>, children)
sequence(children) == Xs("sequence", <<>>, children)
choice(children) == Xs("choice", <<>>, children)
restriction(base, facets) == Xs("restriction", << <<"base", base>> >>, facets)
extension(base, children) == Xs("extension", << <<"base", base>> >>, children)
xsd(name) == <<"xsd", name>>
tns(name) == <<"t", name>>
element(name, children) == Xs("element", << <<"name", name>> >>, children)
typed(name, type) == Xs("element", << <<"name", name>>, <<"type", type>> >>, <<>>)
ref(kind, name) == Xs(kind, << <<"ref", name>> >>, <<>>)
named(kind, name, children) == Xs(kind, << <<"name", name>> >>, children)
with(x, attr, value) == [x EXCEPT !.attrs = Append(@, <<attr, value>>)]
occurs(x, o) == with(with(x, "minOccurs", o[1]), "maxOccurs", o[2])
facet(name, value) == Xs(name, << <<"value", value>> >>, <<>>)
complexContent(derivation) == Xs("complexContent", <<>>, <<derivation>>)
simpleContent(derivation) == Xs("simpleContent", <<>>, <<derivation>>)
simpleType(variety) == Xs("simpleType", <<>>, <<variety>>)

(* EXIOptions.xsd of src/utils/schemaHandling.                              *)
optional(name, children) == with(element(name, children), "minOccurs", 0)
optionalEmpty(name) == optional(name, <<complexType(<<>>)>>)
any(attrs) == Xs("any", attrs \o << <<"processContents", "skip">> >>, <<>>)

uncommonContent == <<
  occurs(any(<< <<"namespace", <<"##other">> >> >>), <<0, -1>>),
  optional("alignment", <<complexType(<<choice(<<
    element("byte", <<complexType(<<>>)>>), element("pre-compress", <<complexType(<<>>)>>)>>)>>)>>),
  optionalEmpty("selfContained"),
  optional("valueMaxLength", <<simpleType(restriction(xsd("unsignedInt"), <<>>))>>),
  optional("valuePartitionCapacity", <<simpleType(restriction(xsd("unsignedInt"), <<>>))>>),
  occurs(element("datatypeRepresentationMap",
    <<complexType(<<sequence(<<any(<< <<"namespace", <<"##other">> >> >>), any(<<>>)>>)>>)>>), <<0, -1>>)>>

preserveContent == [i \in 1 .. 5 |->
  optionalEmpty(<<"dtd", "prefixes", "lexicalValues", "comments", "pis">>[i])]

lesscommonContent == <<
  optional("uncommon", <<complexType(<<sequence(uncommonContent)>>)>>),
  optional("preserve", <<complexType(<<sequence(preserveContent)>>)>>),
  optional("blockSize", <<simpleType(restriction(xsd("unsignedInt"), <<facet("minInclusive", 1)>>))>>)>>

commonContent == <<
  optionalEmpty("compression"),
  optionalEmpty("fragment"),
  with(optional("schemaId", <<simpleType(restriction(xsd("string"), <<>>))>>), "nillable", "true")>>

headerElement == element("header", <<complexType(<<sequence(<<
  optional("lesscommon", <<complexType(<<sequence(lesscommonContent)>>)>>),
  optional("common", <<complexType(<<sequence(commonContent)>>)>>),
  optionalEmpty("strict")>>)>>)>>)

datatypeId(name, base) == Xs("simpleType", << <<"name", name>> >>, <<restriction(xsd(base), <<>>)>>)
datatypeNames == <<"base64Binary", "hexBinary", "boolean", "decimal", "double", "integer", "string",
  "dateTime", "date", "time", "gYearMonth", "gMonthDay", "gYear", "gMonth", "gDay">>

EXIOptions == Document(OPS_URI, {"element"}, << <<"xsd", XML_SCHEMA_NAMESPACE>> >>,
  <<headerElement>> \o [i \in 1 .. 15 |-> datatypeId(datatypeNames[i], datatypeNames[i])]
    \o <<datatypeId("ieeeBinary32", "float"), datatypeId("ieeeBinary64", "double")>>)

(* All other documents: one target namespace, unqualified but for some.     *)
T == "urn:t"
U == "urn:u"
prefixes == << <<"xsd", XML_SCHEMA_NAMESPACE>>, <<"t", T>>, <<"u", U>> >>
Plainly(children) == Document(T, {}, prefixes, children)
Qualified(children) == Document(T, {"element", "attribute"}, prefixes, children)

(* The choices number c of a family makes among the values of each sequence. *)
RECURSIVE chosen(_, _)
chosen(c, options) ==
  IF options = <<>> THEN <<>>
  ELSE <<Head(options)[(c % Len(Head(options))) + 1]>> \o chosen(c \div Len(Head(options)), Tail(options))
Combinations(options) == FoldLeft(LAMBDA n, o : n * Len(o), 1, options)
LegalChoices(options, Legal(_)) ==
  SelectSeq([c \in 1 .. Combinations(options) |-> chosen(c - 1, options)], Legal)
Family(choices, Make(_)) == [c \in DOMAIN choices |-> Make(choices[c])]

int(name) == typed(name, xsd("int"))
rootElement(type) == element("r", <<type>>)
rootOf(top, parts) == Plainly(<<rootElement(complexType(<<Xs(top, <<>>, parts)>>))>>)

(* Particles: a group of two elements beside one element, all repeated.     *)
Occurrences == << <<0, 1>>, <<1, 1>>, <<0, -1>>, <<1, -1>>, <<0, 2>>, <<2, 2>> >>
particleOptions == <<
  Occurrences, Occurrences, << <<0, 1>>, <<1, 1>>, <<0, -1>> >>, <<"sequence", "choice">>,
  <<"sequence", "reversed", "choice">> >>
particleDocument(o) ==
  LET one == occurs(int("a"), o[1])
      two == occurs(Xs(o[4], <<>>, <<occurs(int("b"), o[3]), int("c")>>), o[2])
  IN IF o[5] = "reversed" THEN rootOf("sequence", <<two, one>>) ELSE rootOf(o[5], <<one, two>>)

(* A repeated choice with a repeated element: the generator gives up, one   *)
(* of these is among the refused.                                           *)
collides(o) == o[4] = "choice" /\ o[3] = <<0, -1>> /\ o[2] \in {<<1, -1>>, <<0, 2>>, <<2, 2>>}

(* Attributes: two of them and a wildcard, from several places.             *)
attributeOptions == <<
  <<"optional", "required", "prohibited">>, <<"optional", "required">>,
  << <<>>, <<Xs("anyAttribute", <<>>, <<>>)>>,
     <<Xs("anyAttribute", << <<"namespace", <<"##local", "urn:t">> >> >>, <<>>)>> >>,
  <<"own", "group", "extension", "none", "simple">> >>
attributeDocument(o) ==
  LET a == with(typed("b", xsd("string")), "use", o[1])
      first == [a EXCEPT !.name = "attribute"]
      second == Xs("attribute", << <<"ref", tns("a")>>, <<"use", o[2]>> >>, <<>>)
      content == sequence(<<occurs(int("c"), <<0, 1>>)>>)
      type(children) == rootElement(complexType(children))
      global == Xs("attribute", << <<"name", "a">>, <<"type", xsd("boolean")>> >>, <<>>)
  IN Plainly(
     CASE o[4] = "own" -> <<global, type(<<content, first, second>> \o o[3])>>
       [] o[4] = "group" ->
            <<type(<<content, ref("attributeGroup", tns("g")), second>>),
              named("attributeGroup", "g", <<first>> \o o[3]), global>>
       [] o[4] = "extension" ->
            <<type(<<complexContent(extension(tns("t1"), <<content, second>>))>>), global,
              named("complexType", "t1", <<sequence(<<int("d")>>), first>> \o o[3])>>
       [] o[4] = "none" -> <<type(<<first, second>> \o o[3]), global>>
       [] o[4] = "simple" ->
            <<type(<<simpleContent(extension(xsd("int"), <<first, second>> \o o[3]))>>), global>>)

(* Simple types: the restrictions of integers, and one of each other kind.  *)
boundOptions == <<
  <<"integer", "int", "unsignedInt", "short", "byte", "positiveInteger">>,
  << <<>>, <<facet("minInclusive", 5)>>, <<facet("minInclusive", 0)>>, <<facet("minInclusive", -3)>> >>,
  << <<>>, <<facet("maxInclusive", 20)>>, <<facet("maxInclusive", 4095)>>, <<facet("maxInclusive", 4096)>> >> >>
(* A restriction may only narrow the values of its base.                    *)
narrows(o) ==
  LET least == CASE o[1] = "positiveInteger" -> 1 [] o[1] = "unsignedInt" -> 0 [] OTHER -> -128
      most == IF o[1] = "byte" THEN 127 ELSE 32767
  IN /\ \A i \in DOMAIN o[2] : Declared!Of(o[2][i], "value") >= least
     /\ \A i \in DOMAIN o[3] : Declared!Of(o[3][i], "value") <= most
boundDocument(o) ==
  Plainly(<<element("r", <<simpleType(restriction(xsd(o[1]), o[2] \o o[3]))>>)>>)

simpleTypes == <<
  Plainly(<<typed("r", tns("t2")),
            named("simpleType", "t2", <<restriction(tns("t1"), <<facet("maxInclusive", 9)>>)>>),
            named("simpleType", "t1", <<restriction(xsd("int"), <<facet("minInclusive", 1)>>)>>)>>),
  Plainly(<<element("r", <<simpleType(restriction(xsd("token"),
              <<facet("enumeration", "b"), facet("enumeration", "a")>>))>>),
            element("s", <<simpleType(restriction(xsd("string"), <<facet("maxLength", 4), facet("pattern", "x")>>))>>)>>),
  Plainly(<<element("r", <<simpleType(Xs("list", << <<"itemType", tns("t1")>> >>, <<>>))>>),
            element("s", <<simpleType(Xs("list", <<>>, <<simpleType(restriction(xsd("decimal"), <<facet("totalDigits", 4)>>))>>))>>),
            named("simpleType", "t1", <<Xs("list", << <<"itemType", xsd("int")>> >>, <<>>)>>)>>),
  Plainly(<<element("r", <<simpleType(Xs("union", << <<"memberTypes", "xsd:int xsd:date">> >>, <<>>))>>)>>) >>

(* Types built from types, and elements that refer to elements.             *)
self == named("complexType", "t1", <<sequence(<<int("a"), occurs(typed("x", tns("t1")), <<0, 1>>)>>)>>)
base == named("complexType", "t1", <<sequence(<<occurs(int("a"), <<0, 1>>)>>)>>)
derivedType(type) == named("complexType", "t2", <<complexContent(type)>>)
longer == derivedType(extension(tns("t1"), <<choice(<<int("b"), int("c")>>)>>))
head == typed("h", tns("t1"))
member(name, of) == with(typed(name, tns("t1")), "substitutionGroup", tns(of))

derivations == <<
  Plainly(<<typed("r", tns("t2")), longer, base>>),
  Plainly(<<base, longer, typed("r", tns("t2")), typed("s", tns("t1"))>>),
  Plainly(<<base, longer, typed("r", tns("t1")),
            element("s", <<complexType(<<complexContent(extension(tns("t2"), <<sequence(<<int("d")>>)>>))>>)>>)>>),
  Plainly(<<base, derivedType(restriction(tns("t1"), <<sequence(<<int("a")>>)>>)), typed("r", tns("t2"))>>),
  Plainly(<<self, typed("r", tns("t1"))>>),
  Plainly(<<typed("r", tns("t1")), self>>),
  Plainly(<<typed("r", tns("t1")), named("complexType", "t2", <<choice(<<typed("y", tns("t1")), int("b")>>)>>),
            named("complexType", "t1", <<sequence(<<occurs(typed("x", tns("t2")), <<0, -1>>)>>)>>)>>),
  Plainly(<<element("r", <<with(complexType(<<sequence(<<int("a"), occurs(int("b"), <<0, 1>>)>>)>>), "mixed", "true")>>)>>),
  Qualified(<<head, member("f", "h"), member("e", "f"), base,
              rootElement(complexType(<<sequence(<<occurs(ref("element", tns("h")), <<0, 2>>), int("a")>>)>>))>>),
  Plainly(<<rootElement(complexType(<<sequence(<<ref("group", tns("g")), occurs(ref("group", tns("g")), <<0, 1>>)>>)>>)),
            named("group", "g", <<choice(<<int("a"), sequence(<<int("b"), int("c")>>)>>)>>)>>),
  Plainly(<<rootElement(complexType(<<sequence(<<element("x", <<>>), ref("element", tns("s"))>>)>>)),
            typed("s", xsd("anyType"))>>),
  Qualified(<<Xs("annotation", <<>>, <<Xs("documentation", <<>>, <<Other("p", <<Other("b", <<>>)>>)>>)>>),
              rootElement(complexType(<<Xs("annotation", <<>>, <<Xs("appinfo", <<>>, <<>>)>>),
                sequence(<<int("a"), with(int("b"), "form", "qualified")>>)>>)),
              Xs("notation", << <<"name", "n">> >>, <<>>)>>) >>

(* Schemas of two documents, of one namespace or two.                       *)
importOf(ns) == Xs("import", << <<"namespace", <<ns>> >> >>, <<>>)
usingOther == Qualified(<<importOf(U),
  rootElement(complexType(<<sequence(<<ref("element", <<"u", "s">>), typed("a", <<"u", "t1">>)>>)>>))>>)
otherNamespace == Document(U, {}, prefixes, <<typed("s", <<"u", "t1">>),
  named("complexType", "t1", <<sequence(<<int("c")>>)>>)>>)
including == Plainly(<<Xs("include", <<>>, <<>>), typed("r", tns("t2")), longer>>)
included == Plainly(<<base>>)

(* What the generator does not accept, with the answer it gives.            *)
refused == <<
  <<rootOf("all", <<int("a")>>), "EXIP_NOT_IMPLEMENTED_YET">>,
  <<Plainly(<<int("r"), int("r")>>), "EXIP_HANDLER_STOP">>,
  <<Plainly(<<Other("r", <<>>)>>), "EXIP_HANDLER_STOP">>,
  <<Plainly(<<importOf(U), int("r")>>), "EXIP_INVALID_EXIP_CONFIGURATION">>,
  <<Plainly(<<Xs("include", <<>>, <<>>), int("r")>>), "EXIP_INVALID_EXIP_CONFIGURATION">>,
  <<Plainly(<<typed("r", tns("t9"))>>), "EXIP_UNEXPECTED_ERROR">>,
  <<Plainly(<<typed("r", <<"u", "t1">>)>>), "EXIP_UNEXPECTED_ERROR">>,
  <<Plainly(<<[int("r") EXCEPT !.children = <<complexType(<<>>)>>]>>), "EXIP_UNEXPECTED_ERROR">>,
  <<rootOf("sequence", <<Xs("any", << <<"namespace", <<"urn:z">> >> >>, <<>>)>>), "EXIP_UNEXPECTED_ERROR">>,
  <<rootOf("sequence", <<occurs(int("a"), <<0, -2>>)>>), "EXIP_UNEXPECTED_ERROR">>,
  <<Plainly(<<element("r", <<simpleType(restriction(xsd("int"), <<facet("enumeration", 1)>>))>>)>>),
    "EXIP_NOT_IMPLEMENTED_YET">>,
  <<Plainly(<<element("r", <<simpleType(restriction(xsd("string"), <<facet("whiteSpace", "collapse")>>))>>)>>),
    "EXIP_NOT_IMPLEMENTED_YET">>,
  <<particleDocument(<< <<1, 1>>, <<1, -1>>, <<0, -1>>, "choice", "sequence">>), "assert">> >>

(* Set aside: a base type with an element of an anonymous type.             *)
anonymousInBase == Plainly(<<typed("r", tns("t2")), longer,
  named("complexType", "t1", <<sequence(<<element("x", <<complexType(<<sequence(<<int("c")>>)>>)>>)>>)>>)>>)

pairDocuments == <<usingOther, otherNamespace, including, included>>
alone == <<EXIOptions>> \o Family(LegalChoices(particleOptions, LAMBDA o : ~collides(o)), particleDocument)
  \o Family(LegalChoices(attributeOptions, LAMBDA o : TRUE), attributeDocument)
  \o Family(LegalChoices(boundOptions, narrows), boundDocument)
  \o simpleTypes \o derivations \o [i \in DOMAIN refused |-> refused[i][1]]
Documents == <<anonymousInBase>> \o pairDocuments \o alone

MCTree == LET docs == Documents IN [i \in DOMAIN docs |-> docs[i]]
MCParsed == LET docs == Documents IN [i \in DOMAIN docs |-> documentEvents(docs[i])]
MCSchemas == {<<2, 3>>, <<3, 2>>, <<4, 5>>} \cup {<<i>> : i \in 6 .. Len(Documents)}
AnonymousInBase == {<<1>>}
MCRefused ==
  LET n == Len(Documents) - Len(refused)
  IN [s \in {<<n + i>> : i \in DOMAIN refused} |-> refused[s[1] - n][2]]
MCLexicon == <<
  "", "a", "alignment", "b", "base64Binary", "blockSize", "boolean", "byte", "c", "comments",
  "common", "compression", "d", "datatypeRepresentationMap", "date", "dateTime", "decimal",
  "double", "dtd", "e", "f", "fragment", "g", "gDay", "gMonth", "gMonthDay", "gYear",
  "gYearMonth", "h", "header", "hexBinary", "http://www.w3.org/2009/exi", "ieeeBinary32",
  "ieeeBinary64", "integer", "lesscommon", "lexicalValues", "pis", "pre-compress", "prefixes",
  "preserve", "r", "s", "schemaId", "selfContained", "strict", "string", "t1", "t2", "time",
  "uncommon", "urn:t", "urn:u", "valueMaxLength", "valuePartitionCapacity", "x", "y", "z" >>
=============================================================================
