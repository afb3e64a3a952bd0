-------------------------- MODULE SchemaToGrammars --------------------------
(***************************************************************************)
(* From the resolved tree tables to the grammars of the schema:            *)
(* treeTableToGrammars.c, function by function.                            *)
(*                                                                         *)
(* Each operator takes the build context c, which holds what the function  *)
(* may change, and returns it with the result in c.val and the error that  *)
(* ended the function in c.err.  The context is                            *)
(*   uriTable, grammars, types, enums, emptyGr - the schema being built,   *)
(*   elems - the global elements of the document grammar (gElTbl),         *)
(*   loop  - loopDetection of the entries where it is not 0.               *)
(* "undefined" stands for an access outside of an array and "assert" for a *)
(* failed assertion.                                                       *)
(***************************************************************************)
EXTENDS TreeTables, Bitwise

InitContext(uris, grammars, types) ==
  [uriTable |-> uris, grammars |-> grammars, types |-> types, enums |-> <<>>,
   elems |-> <<>>, emptyGr |-> INDEX_MAX, loop |-> <<>>, err |-> "OK", val |-> 0]

Return(c, v) == [c EXCEPT !.val = v]
Fail(c, code) == [c EXCEPT !.err = code]
Unexpected(c) == Fail(c, "EXIP_UNEXPECTED_ERROR")
Then(c, F(_)) == IF c.err = "OK" THEN F(c) ELSE c

LnRow(c, q) == At(At(c.uriTable, q.uriId).ln, q.lnId)
elemGrammarOf(c, q) == LnRow(c, q).elemGrammar
typeGrammarOf(c, q) == LnRow(c, q).typeGrammar
withElemGrammar(c, q, g) == [c EXCEPT !.uriTable[q.uriId + 1].ln[q.lnId + 1].elemGrammar = g]
withTypeGrammar(c, q, g) == [c EXCEPT !.uriTable[q.uriId + 1].ln[q.lnId + 1].typeGrammar = g]

loopOf(c, e) == IF e \in DOMAIN c.loop THEN c.loop[e] ELSE 0
withLoop(c, e, v) == [c EXCEPT !.loop = (e :> v) @@ @]
InProgress == INDEX_MAX
HasDummy(c, e) == loopOf(c, e) \notin {0, InProgress}

childrenOf(e) ==
  LET chain[x \in 0 .. Len(entries)] == IF x = 0 THEN <<>> ELSE <<x>> \o chain[entries[x].next]
  IN chain[e]
Children(e) == childrenOf(Child(e))

minOccurs(e) == IF Has(e, "minOccurs") THEN Value(e, "minOccurs") ELSE 1
maxOccurs(e) == IF Has(e, "maxOccurs") THEN Value(e, "maxOccurs") ELSE 1

particle(c, e, term) ==
  IF minOccurs(e) < 0 \/ maxOccurs(e) < -1 THEN Unexpected(c)
  ELSE Return(c, createParticleGrammar(minOccurs(e), maxOccurs(e), term))

(* Ids order the names of one namespace, the names those of several.        *)
compareQNameIDLess(p, q) ==
  IF p.uriId = q.uriId THEN p.lnId < q.lnId
  ELSE IF lnStrOf(p) = lnStrOf(q) THEN p.uriId < q.uriId
  ELSE stringCompareLess(lnStrOf(p), lnStrOf(q))

(* Bad unless the name is in the string tables.                             *)
definitionQName(c, uriId, e) ==
  IF hasLn(c.uriTable, uriId, Value(e, "name"))
  THEN QNameID(uriId, lookupLn(c.uriTable, uriId, Value(e, "name"))) ELSE Bad

declaredUri(e, isGlobal) == IF isGlobal \/ isQualified(e) THEN File(e).targetNsId ELSE 0

(***************************************************************************)
(* Storing a grammar.                                                      *)
(***************************************************************************)
static_grammar_empty ==
  [rule |-> EmptyWord.rule, contentIndex |-> 0, nillable |-> FALSE, content2 |-> TRUE,
   namedSubTypeOrUnion |-> FALSE]

addGrammar(c, g) == Return([c EXCEPT !.grammars = Append(@, g)], Len(c.grammars))

(***************************************************************************)
(* The order of a finished rule: descending, because the event code of a   *)
(* production is its distance from the end.  The comparison of two         *)
(* SE(qname) looks at their non-terminals only.                            *)
(***************************************************************************)
compareProductions(p, q) ==
  \/ p.event > q.event
  \/ /\ p.event = q.event
     /\ CASE p.event = EVENT_AT_QNAME -> compareQNameIDLess(q.qnameId, p.qnameId)
          [] p.event = EVENT_AT_URI -> p.qnameId.uriId > q.qnameId.uriId
          [] p.event = EVENT_SE_QNAME -> p.nonTerm > q.nonTerm
          [] OTHER -> FALSE

assignCodes(g) ==
  [g EXCEPT !.rule = [r \in DOMAIN @ |-> sortedBy(@[r], compareProductions)]]

finished(pg, isNillable) == convertProtoGrammar(assignCodes(pg), isNillable)

storeGrammar(c, pg, isNillable) ==
  CASE pg.asserted -> Fail(c, "assert")
    [] ~pg.asserted /\ pg = NoGrammar ->
         IF c.emptyGr # INDEX_MAX THEN Return(c, c.emptyGr)
         ELSE LET d == addGrammar(c, static_grammar_empty) IN [d EXCEPT !.emptyGr = d.val]
    [] OTHER -> addGrammar(c, finished(pg, isNillable))

(* A definition that was met again while its grammar was being built has a  *)
(* dummy grammar, which its own grammar replaces: the index stays.          *)
storeOrReplace(c, e, isNillable) ==
  LET pg == c.val
      dummy == loopOf(c, e)
  IN IF ~HasDummy(c, e) THEN storeGrammar(c, pg, isNillable)
     ELSE IF pg.asserted THEN Fail(c, "assert")
     ELSE IF pg = NoGrammar THEN Return(c, dummy)
     ELSE Return([c EXCEPT !.grammars[dummy + 1] = finished(pg, FALSE)], dummy)

(* The functions call each other through handle: it is the one that takes   *)
(* an entry for what it is handled as.                                      *)
RECURSIVE handle(_, _, _), getAttributeProtoGrammar(_, _, _, _),
          recursiveSubsitutionGroupAdd(_, _, _)

(***************************************************************************)
(* Elements.                                                               *)
(***************************************************************************)
builtGrammar(c, e, isNillable) ==
  Then(handle("type", c, e), LAMBDA d : storeOrReplace(d, e, isNillable))

(* A global element enters the document grammar the first time only.        *)
listed(c, e, isGlobal, q) ==
  IF isGlobal /\ loopOf(c, e) = 0
  THEN withLoop([c EXCEPT !.elems = Append(@, q)], e, InProgress) ELSE c

anonymousElement(c, e, isGlobal, q) ==
  Then(builtGrammar(c, Child(e), ValueIs(e, "nillable", "true")),
       LAMBDA d : listed(Return(IF isGlobal THEN withElemGrammar(d, q, d.val) ELSE d,
                                [qnameId |-> q, grIndex |-> d.val]), e, isGlobal, q))

typedElement(c, e, isGlobal, q) ==
  LET t == getTypeQName(entries[e].treeT, Value(e, "type"))
      built == IF typeGrammarOf(c, t) # INDEX_MAX THEN c
               ELSE Then(builtGrammar(c, Child(e), ValueIs(e, "nillable", "true")),
                         LAMBDA d : withTypeGrammar(d, t, d.val))
  IN IF t = Bad THEN Fail(c, "EXIP_INVALID_EXI_INPUT")
     ELSE Then(built, LAMBDA d :
            listed(Return(IF isGlobal THEN withElemGrammar(d, q, typeGrammarOf(d, t)) ELSE d,
                          [qnameId |-> q, grIndex |-> typeGrammarOf(d, t)]), e, isGlobal, q))

(* An element without a type is an xs:anyType, whatever its scope.          *)
untypedElement(c, q) ==
  LET ur == typeGrammarOf(c, QNameID(XML_SCHEMA_NAMESPACE_ID, SIMPLE_TYPE_ANY_TYPE))
  IN Return(withElemGrammar(c, q, ur), [qnameId |-> q, grIndex |-> ur])

handleElementEl(c, e, isGlobal) ==
  LET q == IF Has(e, "name") THEN definitionQName(c, declaredUri(e, isGlobal), e) ELSE Bad
  IN IF ~Has(e, "name") /\ (isGlobal \/ ~Has(e, "ref") \/ Has(e, "type")) THEN Unexpected(c)
     ELSE IF Has(e, "name") /\ q = Bad THEN Unexpected(c)
     ELSE IF isGlobal /\ elemGrammarOf(c, q) # INDEX_MAX
          THEN Return(c, [qnameId |-> q, grIndex |-> elemGrammarOf(c, q)])
     ELSE IF Has(e, "type") THEN typedElement(c, e, isGlobal, q)
     ELSE IF Child(e) = 0 THEN untypedElement(c, q)
     ELSE IF Element(Child(e)) = "element" THEN handle("global element", c, Child(e))
     ELSE anonymousElement(c, e, isGlobal, q)

(* The element, and every element that may stand for it.                    *)
recursiveSubsitutionGroupAdd(c, qGr, group) ==
  LET s == SelectInSeq(subsTbl, LAMBDA h : h.headId = qGr.qnameId)
      substitutes == IF s = 0 THEN <<>> ELSE subsTbl[s].substitutes
  IN FoldLeft(LAMBDA d, x : Then(d, LAMBDA d0 :
                LET h == handle("element", d0, x)
                IN Then(h, LAMBDA h0 : recursiveSubsitutionGroupAdd(h0, h0.val, d0.val))),
              Return(c, Append(group, qGr)), substitutes)

elementParticle(c, e) ==
  Then(handle("element", c, e), LAMBDA d :
    Then(recursiveSubsitutionGroupAdd(d, d.val, <<>>), LAMBDA h :
      particle(h, e, createElementTermGrammar(
        sortedBy(h.val, LAMBDA x, y : compareQNameIDLess(y.qnameId, x.qnameId))))))

(***************************************************************************)
(* Model groups.                                                           *)
(***************************************************************************)
getNsList(e) ==
  LET ns == IF Has(e, "namespace") THEN Value(e, "namespace") ELSE <<>>
  IN [i \in DOMAIN ns |->
        CASE i < Len(ns) /\ ns[i] = "##targetNamespace" -> File(e).targetNs
          [] i < Len(ns) /\ ns[i] = "##local" -> ""
          [] OTHER -> ns[i]]

NamespacesKnown(c, ns) == IsAnyNamespace(ns) \/ \A i \in DOMAIN ns : hasUri(c.uriTable, ns[i])

getAnyProtoGrammar(c, e) ==
  IF ~NamespacesKnown(c, getNsList(e)) THEN Unexpected(c)
  ELSE particle(c, e, createWildcardTermGrammar(getNsList(e), [i \in DOMAIN getNsList(e) |->
                        lookupUri(c.uriTable, getNsList(e)[i])]))

getAllProtoGrammar(c, e) == Fail(c, "EXIP_NOT_IMPLEMENTED_YET")

particlesOf(c, e) ==
  FoldLeft(LAMBDA d, x : Then(d, LAMBDA d0 :
             Then(handle("particle", d0, x), LAMBDA h : Return(h, Append(d0.val, h.val)))),
           Return(c, <<>>), Children(e))

getSequenceProtoGrammar(c, e) ==
  Then(particlesOf(c, e), LAMBDA d : particle(d, e, createSequenceModelGroupsGrammar(d.val)))

getChoiceProtoGrammar(c, e) ==
  Then(particlesOf(c, e), LAMBDA d :
    IF d.val = <<>> THEN Fail(d, "undefined")
    ELSE particle(d, e, createChoiceModelGroupsGrammar(d.val)))

getGroupProtoGrammar(c, e) ==
  LET model == IF Child(e) = 0 THEN 0 ELSE Child(Child(e))
      content == CASE Element(model) = "sequence" -> getSequenceProtoGrammar(c, model)
                   [] Element(model) = "choice" -> getChoiceProtoGrammar(c, model)
                   [] Element(model) = "all" -> getAllProtoGrammar(c, model)
                   [] OTHER -> Unexpected(c)
  IN Then(content, LAMBDA d : particle(d, e, d.val))

particleOf(c, e) ==
  CASE Element(e) = "element" -> elementParticle(c, e)
    [] Element(e) = "group" -> getGroupProtoGrammar(c, e)
    [] Element(e) = "choice" -> getChoiceProtoGrammar(c, e)
    [] Element(e) = "sequence" -> getSequenceProtoGrammar(c, e)
    [] Element(e) = "any" -> getAnyProtoGrammar(c, e)
    [] OTHER -> Unexpected(c)

(***************************************************************************)
(* Simple types.                                                           *)
(***************************************************************************)
getTypeId(c, q, e) ==
  LET built == IF typeGrammarOf(c, q) # INDEX_MAX THEN c
               ELSE IF Element(e) = "simpleType" THEN handle("named simple type", c, e) ELSE Unexpected(c)
  IN CASE q = Bad -> Fail(c, "EXIP_INVALID_EXI_INPUT")
       [] q.uriId = XML_SCHEMA_NAMESPACE_ID /\ q.lnId < SIMPLE_TYPE_COUNT -> Return(c, q.lnId)
       [] OTHER -> Then(built, LAMBDA d :
            LET typeId == d.grammars[typeGrammarOf(d, q) + 1].rule[1][1].typeId
            IN IF typeId = INDEX_MAX THEN Unexpected(d) ELSE Return(d, typeId))

getAnonymousTypeId(c, e) ==
  IF Element(e) # "simpleType" THEN Unexpected(c)
  ELSE Then(handle("type", c, e), LAMBDA d :
         IF d.val = NoGrammar THEN Unexpected(d) ELSE Return(d, d.val.rule[1][1].typeId))

addSimpleType(c, type) ==
  Return([c EXCEPT !.types = Append(@, type)], createSimpleTypeGrammar(Len(c.types)))

getListProtoGrammar(c, e) ==
  LET items == IF ~Has(e, "itemType") THEN getAnonymousTypeId(c, Child(e))
               ELSE IF Child(e) # 0 THEN Unexpected(c)
               ELSE getTypeId(c, getTypeQName(entries[e].treeT, Value(e, "itemType")),
                              entries[e].supertype)
  IN Then(items, LAMBDA d : addSimpleType(d, ListOf(d.val)))

facetOf == [minInclusive |-> "MIN_INCLUSIVE", minExclusive |-> "MIN_EXCLUSIVE",
            minLength |-> "MIN_LENGTH", maxInclusive |-> "MAX_INCLUSIVE",
            maxExclusive |-> "MAX_EXCLUSIVE", maxLength |-> "MAX_LENGTH", length |-> "LENGTH",
            totalDigits |-> "TOTAL_DIGITS", fractionDigits |-> "FRACTION_DIGITS",
            pattern |-> "PATTERN"]
TotalDigitsUnit == 65536

restrictedBy(type, e) ==
  LET kind == Element(e)
      facet == IF kind \in DOMAIN facetOf THEN {facetOf[kind]} ELSE {}
  IN [type EXCEPT
        !.facets = @ \cup facet,
        !.min = IF kind \in {"minInclusive", "minExclusive", "minLength"} THEN Value(e, "value") ELSE @,
        !.max = IF kind \in {"maxInclusive", "maxExclusive", "maxLength"} THEN Value(e, "value") ELSE @,
        !.length = CASE kind = "length" -> Value(e, "value")
                     [] kind = "totalDigits" -> @ | (Value(e, "value") * TotalDigitsUnit)
                     [] kind = "fractionDigits" -> @ | Value(e, "value")
                     [] OTHER -> @]

SMALL_INTEGER_RANGE == 4096

(* The range of a bounded integer, as the code counts it.                   *)
smallRange(t) ==
  LET low == IF "MIN_INCLUSIVE" \in t.facets THEN 1 ELSE 0
      high == IF "MIN_INCLUSIVE" \in t.facets
              THEN IF "MAX_INCLUSIVE" \in t.facets THEN 0 ELSE -1
              ELSE IF "MAX_EXCLUSIVE" \in t.facets THEN -1 ELSE 0
  IN /\ t.facets \cap {"MAX_INCLUSIVE", "MAX_EXCLUSIVE"} # {}
     /\ t.max - t.min + low + high <= SMALL_INTEGER_RANGE

narrowed(t) ==
  LET least == IF "MIN_INCLUSIVE" \in t.facets THEN t.min ELSE t.min + 1
  IN IF t.exiType \notin {"INTEGER", "NON_NEGATIVE_INT"}
        \/ t.facets \cap {"MIN_INCLUSIVE", "MIN_EXCLUSIVE"} = {} THEN t
     ELSE IF smallRange(t) THEN [t EXCEPT !.exiType = "SMALL_INTEGER"]
     ELSE IF least >= 0 THEN [t EXCEPT !.exiType = "NON_NEGATIVE_INT"]
     ELSE t

(* The place of an enumeration among all facets is its place in the array,  *)
(* which has room for the enumerations only.                                *)
withEnumeration(c, type, base, facets) ==
  LET enums == SelectSeq(facets, LAMBDA x : Element(x) = "enumeration")
      values == [i \in DOMAIN enums |-> Value(enums[i], "value")]
  IN CASE enums = <<>> -> addSimpleType(c, type)
       [] enums # <<>> /\ base.exiType \notin {"STRING", "NON_NEGATIVE_INT"} ->
            Fail(c, "EXIP_NOT_IMPLEMENTED_YET")
       [] OTHER ->
            IF \E i \in DOMAIN facets : i > Len(enums) /\ Element(facets[i]) = "enumeration"
            THEN Fail(c, "undefined")
            ELSE addSimpleType([c EXCEPT !.enums = Append(@, [typeId |-> Len(c.types), values |-> values])],
                               [type EXCEPT !.facets = @ \cup {"ENUMERATION"}])

getRestrictionSimpleProtoGrammar(c, e) ==
  LET facets == Children(e)
      kinds == {Element(facets[i]) : i \in DOMAIN facets}
  IN IF ~Has(e, "base")
     THEN IF Element(Child(e)) = "simpleType" THEN Fail(c, "EXIP_NOT_IMPLEMENTED_YET") ELSE Unexpected(c)
     ELSE Then(getTypeId(c, getTypeQName(entries[e].treeT, Value(e, "base")), entries[e].supertype),
       LAMBDA d :
         LET base == d.types[d.val + 1]
             type == FoldLeft(restrictedBy, [base EXCEPT !.facets = @ \ {"NAMED_SUBTYPE_UNION"}], facets)
         IN IF kinds \ (DOMAIN facetOf \cup {"enumeration"}) # {}
            THEN Fail(d, IF "whiteSpace" \in kinds THEN "EXIP_NOT_IMPLEMENTED_YET" ELSE "EXIP_UNEXPECTED_ERROR")
            ELSE withEnumeration(d, narrowed(type), base, facets))

getSimpleTypeProtoGrammar(c, e) ==
  LET variety == Element(Child(e))
  IN CASE variety = "NULL" -> Return(c, NoGrammar)
       [] variety = "restriction" -> getRestrictionSimpleProtoGrammar(c, Child(e))
       [] variety = "list" -> getListProtoGrammar(c, Child(e))
       [] variety = "union" -> Return(c, createSimpleTypeGrammar(SIMPLE_TYPE_STRING))
       [] OTHER -> Unexpected(c)

(* A mutant of markNamedSubType: the mark is forgotten.                     *)
leaveUnmarked(c, q) == IF q = Bad THEN Fail(c, "EXIP_INVALID_EXI_INPUT") ELSE c

(* The type named by a literal has a named subtype or is a union.  The mark *)
(* goes to its grammar, which has to exist.                                 *)
markNamedSubType(c, q) ==
  CASE q = Bad -> Fail(c, "EXIP_INVALID_EXI_INPUT")
    [] q # Bad /\ typeGrammarOf(c, q) = INDEX_MAX -> Fail(c, "undefined")
    [] OTHER -> [c EXCEPT !.grammars[typeGrammarOf(c, q) + 1].namedSubTypeOrUnion = TRUE]

namedType(c, e) == definitionQName(c, File(e).targetNsId, e)

builtType(c, e) ==
  LET q == namedType(c, e)
  IN IF ~Has(e, "name") \/ q = Bad THEN Unexpected(c)
     ELSE IF typeGrammarOf(c, q) # INDEX_MAX THEN c
     ELSE Then(builtGrammar(c, e, FALSE), LAMBDA d : withTypeGrammar(d, q, d.val))

handleSimpleTypeEl(c, e) ==
  LET variety == Element(Child(e))
  IN Then(builtType(c, e), LAMBDA d :
       CASE variety = "NULL" -> Fail(d, "undefined")
         [] variety = "restriction" ->
              markNamedSubType(d, getTypeQName(entries[Child(e)].treeT, Value(Child(e), "base")))
         [] variety = "union" -> markNamedSubType(d, namedType(d, e))
         [] OTHER -> d)

(***************************************************************************)
(* Attributes.                                                             *)
(***************************************************************************)
getAttributeProtoGrammar(c, e, isGlobal, isRequired) ==
  LET required == IF isGlobal THEN isRequired ELSE ValueIs(e, "use", "required")
      q == IF Has(e, "name") THEN definitionQName(c, declaredUri(e, isGlobal), e) ELSE Bad
      use(d) == Then(d, LAMBDA t : Return(t, createAttributeUseGrammar(required, t.val, q)))
  IN IF ~Has(e, "name") /\ (isGlobal \/ ~Has(e, "ref") \/ Has(e, "type")) THEN Unexpected(c)
     ELSE IF Has(e, "name") /\ q = Bad THEN Unexpected(c)
     ELSE IF Has(e, "type") THEN use(getTypeId(c, getTypeQName(entries[e].treeT, Value(e, "type")), Child(e)))
     ELSE IF Child(e) = 0 THEN use(Return(c, SIMPLE_TYPE_ANY_SIMPLE_TYPE))
     ELSE IF Element(Child(e)) = "attribute" THEN getAttributeProtoGrammar(c, Child(e), TRUE, required)
     ELSE use(getAnonymousTypeId(c, Child(e)))

isAttributeUse(e) == Element(e) \in {"attribute", "attributeGroup", "anyAttribute"}

(* The attribute uses of e are its first or second child and what follows,  *)
(* or those of the extension its simple content is.                         *)
firstAttributeUse(e) ==
  LET content == Child(e)
      firstOf(x) == IF isAttributeUse(x) THEN x
                    ELSE IF x # 0 /\ isAttributeUse(entries[x].next) THEN entries[x].next ELSE 0
  IN IF firstOf(content) # 0 THEN firstOf(content)
     ELSE IF Element(content) = "simpleContent" /\ Element(Child(content)) = "extension"
          THEN firstOf(Child(Child(content))) ELSE 0

(* The result: the attribute uses found, the last wildcard and the literals *)
(* of the attributes seen.  The first use of an attribute counts.           *)
NoAttributes == [uses |-> <<>>, wildcard |-> 0, names |-> {}]

addAttribute(c, e) ==
  LET name == IF Has(e, "ref") THEN Value(e, "ref") ELSE <<"", Value(e, "name")>>
      seen == [c.val EXCEPT !.names = @ \cup {name}]
  IN IF name \in c.val.names THEN c
     ELSE IF ValueIs(e, "use", "prohibited") THEN Return(c, seen)
     ELSE Then(getAttributeProtoGrammar(c, e, FALSE, FALSE),
               LAMBDA d : Return(d, [seen EXCEPT !.uses = Append(@, d.val)]))

attributeUse(c, e) ==
  CASE Element(e) = "attribute" -> addAttribute(c, e)
    [] Element(e) = "attributeGroup" ->
         IF Child(e) = 0 THEN Unexpected(c) ELSE handle("attribute uses", c, Child(e))
    [] Element(e) = "anyAttribute" -> Return(c, [c.val EXCEPT !.wildcard = e])
    [] OTHER -> Unexpected(c)

getAttributeUseProtoGrammars(c, e) ==
  LET own == FoldLeft(LAMBDA d, x : Then(d, LAMBDA d0 : attributeUse(d0, x)),
                      c, childrenOf(firstAttributeUse(e)))
      derivation == IF Element(e) = "complexType" /\ Element(Child(e)) = "complexContent"
                    THEN Child(Child(e)) ELSE 0
      supertype == IF Element(e) \in {"extension", "restriction"} THEN entries[e].supertype ELSE 0
      derived == IF derivation = 0 THEN own
                 ELSE Then(own, LAMBDA d : handle("attribute uses", d, derivation))
  IN IF Element(supertype) # "complexType" THEN derived
     ELSE Then(derived, LAMBDA d : handle("attribute uses", d, supertype))

(* A wildcard: a loop in front of each attribute use, the last one empty.   *)
withAttributeWildcard(c, uses, w) ==
  LET ns == getNsList(w)
      terms == IF IsAnyNamespace(ns) THEN <<Production(EVENT_AT_ALL, INDEX_MAX, VoidQName, 0)>>
                ELSE [i \in DOMAIN ns |-> Production(EVENT_AT_URI, INDEX_MAX,
                                                     QNameID(lookupUri(c.uriTable, ns[i]), LN_MAX), 0)]
  IN IF w = 0 THEN Return(c, uses)
     ELSE IF ~NamespacesKnown(c, ns) THEN Unexpected(c)
     ELSE Return(c, [i \in 1 .. Len(uses) + 1 |->
                       [(IF i <= Len(uses) THEN uses[i] ELSE EmptyWord)
                          EXCEPT !.rule[1] = @ \o terms]])

(***************************************************************************)
(* Complex types.                                                          *)
(***************************************************************************)
getExtensionSimpleProtoGrammar(c, e) ==
  Then(getTypeId(c, getTypeQName(entries[e].treeT, Value(e, "base")), entries[e].supertype),
       LAMBDA d : Return(d, createSimpleTypeGrammar(d.val)))

getSimpleContentProtoGrammar(c, e) ==
  CASE Element(Child(e)) = "restriction" -> getRestrictionSimpleProtoGrammar(c, Child(e))
    [] Element(Child(e)) = "extension" -> getExtensionSimpleProtoGrammar(c, Child(e))
    [] OTHER -> Unexpected(c)

(* The content of the base type comes first; its own grammar is stored too. *)
getExtensionComplexProtoGrammar(c, e) ==
  LET base == entries[e].supertype
  IN IF Element(base) # "complexType" THEN Unexpected(c)
     ELSE Then(handle("named complex type", c, base), LAMBDA d :
            Then(handle("content", d, base), LAMBDA b :
              Then(handle("content", b, e), LAMBDA x :
                Return(x, createSequenceModelGroupsGrammar(<<b.val, x.val>>)))))

getRestrictionComplexProtoGrammar(c, e) ==
  IF \/ getTypeQName(entries[e].treeT, Value(e, "base"))
          = QNameID(XML_SCHEMA_NAMESPACE_ID, SIMPLE_TYPE_ANY_TYPE)
     \/ Element(entries[e].supertype) = "complexType"
  THEN handle("content", c, e) ELSE Unexpected(c)

getComplexContentProtoGrammar(c, e) ==
  CASE Element(Child(e)) = "restriction" -> getRestrictionComplexProtoGrammar(c, Child(e))
    [] Element(Child(e)) = "extension" -> getExtensionComplexProtoGrammar(c, Child(e))
    [] OTHER -> Unexpected(c)

getContentTypeProtoGrammar(c, e) ==
  LET content == Child(e)
      kind == Element(content)
  IN CASE kind = "simpleContent" /\ Element(e) = "complexType" -> getSimpleContentProtoGrammar(c, content)
       [] kind = "complexContent" /\ Element(e) = "complexType" -> getComplexContentProtoGrammar(c, content)
       [] kind = "sequence" -> getSequenceProtoGrammar(c, content)
       [] kind = "group" -> getGroupProtoGrammar(c, content)
       [] kind = "all" -> getAllProtoGrammar(c, content)
       [] kind = "choice" -> getChoiceProtoGrammar(c, content)
       [] content = 0 \/ isAttributeUse(content) -> Return(c, NoGrammar)
       [] OTHER -> Unexpected(c)

(* A mutant of sortAttributeUseGrammars: the order of the document is kept. *)
attributesAsDeclared(uses) == uses

sortAttributeUseGrammars(uses) ==
  sortedBy(uses, LAMBDA x, y : compareQNameIDLess(x.rule[1][1].qnameId, y.rule[1][1].qnameId))

newComplexType(c, e) ==
  Then(handle("content", withLoop(c, e, InProgress), e), LAMBDA content :
    Then(handle("attribute uses", Return(content, NoAttributes), e), LAMBDA a :
      Then(withAttributeWildcard(a, sortAttributeUseGrammars(a.val.uses), a.val.wildcard), LAMBDA uses :
        Return(uses, IF content.val = NoGrammar /\ uses.val = <<>> THEN NoGrammar
                     ELSE createComplexTypeGrammar(uses.val, content.val, ValueIs(e, "mixed", "true"))))))

(* Only the first call builds the grammar; the second one adds the dummy.   *)
getComplexTypeProtoGrammar(c, e) ==
  CASE loopOf(c, e) = 0 -> newComplexType(c, e)
    [] loopOf(c, e) = InProgress ->
         LET d == addGrammar(c, static_grammar_empty) IN Return(withLoop(d, e, d.val), NoGrammar)
    [] OTHER -> Return(c, NoGrammar)

handleComplexTypeEl(c, e) ==
  LET content == Child(e)
      derivation == IF Element(content) \in {"simpleContent", "complexContent"} THEN Child(content) ELSE 0
  IN Then(builtType(c, e), LAMBDA d :
       IF Element(derivation) \notin {"restriction", "extension"} THEN d
       ELSE markNamedSubType(d, getTypeQName(entries[content].treeT, Value(derivation, "base"))))

typeGrammarOfEntry(c, e) ==
  CASE Element(e) = "simpleType" -> getSimpleTypeProtoGrammar(c, e)
    [] Element(e) = "complexType" -> getComplexTypeProtoGrammar(c, e)
    [] OTHER -> Unexpected(c)

handle(what, c, e) ==
  CASE what = "global element" -> handleElementEl(c, e, TRUE)
    [] what = "element" -> handleElementEl(c, e, FALSE)
    [] what = "particle" -> particleOf(c, e)
    [] what = "named simple type" -> handleSimpleTypeEl(c, e)
    [] what = "named complex type" -> handleComplexTypeEl(c, e)
    [] what = "type" -> typeGrammarOfEntry(c, e)
    [] what = "content" -> getContentTypeProtoGrammar(c, e)
    [] what = "attribute uses" -> getAttributeUseProtoGrammars(c, e)

(***************************************************************************)
(* The definitions of a document, and what is done after the last one.     *)
(***************************************************************************)
globally == [element |-> "global element", simpleType |-> "named simple type",
             complexType |-> "named complex type"]

handleGlobalEntry(c, e) ==
  CASE Element(e) \in DOMAIN globally -> handle(globally[Element(e)], c, e)
    [] Element(e) \in {"group", "attributeGroup", "attribute", "import", "include", "redefine",
                       "notation"} -> c
    [] OTHER -> Unexpected(c)

(* A mutant of sortGlobalElemQnameTable: the order of building is kept.     *)
elementsAsBuilt(elems) == elems

sortGlobalElemQnameTable(elems) == sortedBy(elems, compareQNameIDLess)

GR_DOC_END == 1

createDocGrammar(c, elems) ==
  <<Production(EVENT_SE_ALL, INDEX_MAX, VoidQName, GR_DOC_END)>> \o
  [i \in DOMAIN elems |->
     LET q == elems[Len(elems) + 1 - i]
     IN Production(EVENT_SE_QNAME, elemGrammarOf(c, q), q, GR_DOC_END)]

sortEnumTable(enums) == sortedBy(enums, LAMBDA x, y : x.typeId < y.typeId)
=============================================================================
