---------------------------- MODULE MCSchemaCodec ----------------------------
(***************************************************************************)
(* The schema of MCSchemaCodec.cfg, in the form and with the identifiers   *)
(* the grammar generator gives it:                                         *)
(*                                                                         *)
(*   r, nillable: x, y?, z?, with a required attribute a, a list of int    *)
(*   x, nillable: t4, a short in 0..7, of which t5 is a subtype            *)
(*   y, nillable: t2, one of three strings, with a required boolean b      *)
(*   z: anyType                                                            *)
(***************************************************************************)
EXTENDS SchemaCodec

CONSTANT MaxEvents

VARIABLE events   \* events other than the ends so far

name(lnId) == QNameID(4, lnId)
r == name(0)
t2 == name(2)
t4 == name(3)
t5 == name(4)
x == name(5)
y == name(6)
z == name(7)
a == QNameID(0, 0)
b == QNameID(0, 1)

lnEntry(lnStr, elemGrammar, typeGrammar) ==
  [lnStr |-> lnStr, elemGrammar |-> elemGrammar, typeGrammar |-> typeGrammar]
names == <<
  lnEntry("r", 50, INDEX_MAX), lnEntry("t1", INDEX_MAX, 49), lnEntry("t2", INDEX_MAX, 47),
  lnEntry("t4", INDEX_MAX, 46), lnEntry("t5", INDEX_MAX, 51), lnEntry("x", 46, INDEX_MAX),
  lnEntry("y", 48, INDEX_MAX), lnEntry("z", SIMPLE_TYPE_ANY_TYPE, INDEX_MAX)>>

Grammar(rule, contentIndex, nillable, subtypes) ==
  [rule |-> rule, contentIndex |-> contentIndex, nillable |-> nillable, content2 |-> TRUE,
   namedSubTypeOrUnion |-> subtypes]
atQName(q, typeId) == <<Production(EVENT_AT_QNAME, typeId, q, 1)>>
ch(typeId, nonTerm) == <<Production(EVENT_CH, typeId, VoidQName, nonTerm)>>
se(q, grammar, nonTerm) == Production(EVENT_SE_QNAME, grammar, q, nonTerm)
end == <<EEProduction>>
onlyZ == <<EEProduction, se(z, SIMPLE_TYPE_ANY_TYPE, 4)>>

MCSchemas == {
  [uriTable |->
     [createUriTableEntries EXCEPT ![1].ln = namesOnly(<<"a", "b">>)] \o <<UriEntry("urn:t", names)>>,
   grammars |-> generateBuiltInTypesGrammars \o <<
     Grammar(<<ch(46, 1), end>>, 0, TRUE, TRUE),
     Grammar(<<ch(47, 1), end>>, 0, FALSE, FALSE),
     Grammar(<<atQName(b, SIMPLE_TYPE_BOOLEAN), ch(47, 2), end>>, 1, TRUE, FALSE),
     Grammar(<<ch(48, 1), end>>, 0, FALSE, FALSE),
     Grammar(<<atQName(a, 48), <<se(x, 46, 2)>>, Append(onlyZ, se(y, 48, 3)), onlyZ, end>>, 1, TRUE, FALSE),
     Grammar(<<ch(49, 1), end>>, 0, FALSE, FALSE)>>,
   types |-> builtInSimpleTypes \o <<
     Bounded("SMALL_INTEGER", 0, 7), SimpleType("STRING", {"ENUMERATION"}, 0, 0, 0),
     ListOf(29), Bounded("SMALL_INTEGER", 0, 3)>>,
   enums |-> <<[typeId |-> 47, values |-> [i \in 1 .. 3 |-> Value("STRING", i)]]>>,
   elems |-> <<r, x, y, z>>]}

MCElements == {r, x, y, z}
MCAttributes == {a, b, xsiNil, xsiType}
MCTypeNames == {t2, t5}
MCNamespaces == {0}
MCValues == {Value("STRING", 3), Value("INTEGER", 3), Value("INTEGER", 6), Value("BOOLEAN", 0),
             Value("BOOLEAN", 1)}
MCOptionSets == {{}, {"prefixes", "comments", "pis"}, {"selfContained", "dtd"}, {"strict"}}

(* In a strict document xsi:nil is not readable: only a string is accepted  *)
(* as its value.                                                            *)
Grow ==
  \/ \E q \in Elements : startElement(q)
  \/ \E q \in Attributes : ~(Strict(enc) /\ q = xsiNil) /\ attribute(q)
  \/ \E v \in Values : charactersData(v)
  \/ \E uriId \in Namespaces, isLocal \in BOOLEAN : namespaceDeclaration(uriId, isLocal)

Finish ==
  \/ \E v \in Values : attributeData(v)
  \/ \E count \in ListLengths : listData(count)
  \/ \E q \in TypeNames : qnameData(q)
  \/ endElement
  \/ endDocument
  \/ parseNext

MCNext == \/ events < MaxEvents /\ Grow /\ events' = events + 1
          \/ Finish /\ UNCHANGED events

MCInit == Init /\ events = 0

MCSpec == MCInit /\ [][MCNext]_<<vars, events>> /\ ParserFairness
=============================================================================
