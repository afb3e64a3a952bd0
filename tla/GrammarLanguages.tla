--------------------------- MODULE GrammarLanguages ---------------------------
(***************************************************************************)
(* What the generated grammars accept, against what the documents declare, *)
(* and the other properties of GrammarGenerator.                           *)
(***************************************************************************)
EXTENDS GrammarGenerator, StaticOptions

CONSTANTS
  WordBound,     \* the length of the words compared
  Tree,          \* the elements of each document
  Refused        \* the error each schema that is not generated ends with

Declared == INSTANCE ContentModels WITH LessThan <- stringCompareLess

S == [i \in DOMAIN buffers |-> Tree[buffers[i]]]     \* the documents of the schema

done == phase = "done"
generated == done /\ err = "OK"

nameOf(q) == <<At(uriTable, q.uriId).uri, lnStrOf(q)>>
idOf(name) == QNameID(lookupUri(uriTable, name[1]), lookupLn(uriTable, lookupUri(uriTable, name[1]), name[2]))

(* The coding of the values of a simple type of the schema.                 *)
RECURSIVE codingOf(_)
codingOf(typeId) ==
  LET t == At(ctx.types, typeId)
      enum == SelectInSeq(ctx.enums, LAMBDA x : x.typeId = typeId)
  IN IF typeId = INDEX_MAX THEN <<"untyped">>
     ELSE CASE "ENUMERATION" \in t.facets -> <<"ENUMERATION", ctx.enums[enum].values>>
            [] "ENUMERATION" \notin t.facets /\ t.exiType = "LIST" -> <<"LIST", codingOf(t.length)>>
            [] "ENUMERATION" \notin t.facets /\ t.exiType = "SMALL_INTEGER" -> <<t.exiType, t.min, t.max>>
            [] OTHER -> <<t.exiType>>

symbolOf(p) ==
  CASE p.event = EVENT_AT_QNAME -> <<"AT", nameOf(p.qnameId), codingOf(p.typeId)>>
    [] p.event = EVENT_AT_URI -> <<"AT of", At(uriTable, p.qnameId.uriId).uri>>
    [] p.event = EVENT_AT_ALL -> <<"AT">>
    [] p.event = EVENT_SE_QNAME -> <<"SE", nameOf(p.qnameId)>>
    [] p.event = EVENT_SE_URI -> <<"SE of", At(uriTable, p.qnameId.uriId).uri>>
    [] p.event = EVENT_SE_ALL -> <<"SE">>
    [] p.event = EVENT_CH -> <<"CH", codingOf(p.typeId)>>

(* The words of at most n symbols that lead from a rule of g to its end.    *)
words(g) ==
  LET W[n \in 0 .. WordBound, r \in DOMAIN g.rule] ==
        {<<>> : i \in {j \in DOMAIN g.rule[r] : g.rule[r][j].event = EVENT_EE}}
        \cup (IF n = 0 THEN {}
              ELSE UNION {{<<symbolOf(p)>> \o w : w \in W[n - 1, p.nonTerm + 1]} :
                            p \in {q \in ToSet(g.rule[r]) : q.event # EVENT_EE}})
  IN W[WordBound, 1]

grammarAt(i) == At(ctx.grammars, i)
startsOf(g, name) ==
  {p \in UNION {ToSet(g.rule[r]) : r \in DOMAIN g.rule} :
     p.event = EVENT_SE_QNAME /\ nameOf(p.qnameId) = name}

(* The types of the documents with the grammars that stand for them, from   *)
(* the global elements on.                                                  *)
globalPairs ==
  {<<Declared!DeclaredType(S, g[1], g[2], "anyType"),
     elemGrammarOf(ctx, idOf(Declared!GlobalName(S, g)))>> : g \in Declared!Globals(S, {"element"})}

RECURSIVE reached(_)
reached(pairs) ==
  LET next == pairs \cup
        UNION {UNION {{<<e[2], p.typeId>> : p \in startsOf(grammarAt(t[2]), e[1])} :
                        e \in Declared!TypeElements(S, t[1])} : t \in pairs}
  IN IF next = pairs THEN pairs ELSE reached(next)

(* Every element has the grammar of its type: it accepts the attributes,    *)
(* the content and the values that the type allows, and nothing else, and   *)
(* so do the grammars that its productions lead to                          *)
(* (convertTreeTablesToExipSchema).                                         *)
GrammarsAcceptTheirTypes ==
  generated => \A t \in reached(globalPairs) :
    words(grammarAt(t[2])) = Declared!TypeWords(S, t[1])

(* A document may start with each global element, in the order of their     *)
(* names, and goes on with the grammar of that element (createDocGrammar).  *)
DocumentStartsWithAnyGlobalElement ==
  generated =>
    LET names == SetToSortSeq({Declared!GlobalName(S, g) : g \in Declared!Globals(S, {"element"})},
                              LAMBDA m, n : Declared!NameLess(n, m))
    IN /\ docGrammar[1].event = EVENT_SE_ALL
       /\ [i \in 1 .. Len(docGrammar) - 1 |-> nameOf(docGrammar[i + 1].qnameId)] = names
       /\ \A i \in 2 .. Len(docGrammar) :
            docGrammar[i].typeId = elemGrammarOf(ctx, docGrammar[i].qnameId)

(* The tables of staticEXIOptions.c are what the generator makes of         *)
(* EXIOptions.xsd: without them no header with options is understood.       *)
StaticOptionsMatch ==
  generated /\ files[1].targetNs = OPS_URI =>
    /\ ctx.uriTable = ops_uriEntry
    /\ ctx.grammars = ops_grammarTable
    /\ SubSeq(ctx.types, SIMPLE_TYPE_COUNT + 1, Len(ctx.types)) = ops_simpleTypes
    /\ docGrammar = ops_docGrammarRule

(* A schema is refused with the error of the construct it is refused for,   *)
(* and every other schema is generated.                                     *)
RefusedForAReason ==
  /\ err # "OK" => buffers \in DOMAIN Refused /\ err = Refused[buffers]
  /\ done => buffers \notin DOMAIN Refused

(* A definition met while it was being built gets a dummy grammar: "Add     *)
(* dummy grammar to the grammarTable that will be replaced by the real one  *)
(* later" (getComplexTypeProtoGrammar).                                     *)
DummyGrammarsReplaced ==
  generated => \A e \in DOMAIN ctx.loop :
    HasDummy(ctx, e) => grammarAt(ctx.loop[e]) # static_grammar_empty
=============================================================================
