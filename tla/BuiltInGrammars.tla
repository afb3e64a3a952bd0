------------------------- MODULE BuiltInGrammars --------------------------
(***************************************************************************)
(* The schema-less grammars of src/grammar/src/grammars.c and the event    *)
(* codes that bodyEncode.c and bodyDecode.c derive from them.  A built-in  *)
(* element grammar learns: every event that needed a second-level code     *)
(* becomes a first-level production, which shortens and shifts the codes   *)
(* of all later events of every element with that name.                    *)
(***************************************************************************)
EXTENDS NameTables, FiniteSets

GR_VOID_NON_TERMINAL == 100
GR_DOC_CONTENT == 0
GR_DOC_END == 1
GR_START_TAG_CONTENT == 0
GR_ELEMENT_CONTENT == 1

EventClass == [SE_ALL |-> "SE", SE_QNAME |-> "SE", AT_ALL |-> "AT",
               AT_QNAME |-> "AT", EE |-> "EE", CH |-> "CH", NS |-> "NS", ED |-> "ED"]

Prod(event, nonTerm, qname) ==
  [event |-> event, nonTerm |-> nonTerm, qnameId |-> qname]

Rule(production) == [production |-> production, hasXsiType |-> FALSE]

DocGrammar == << Rule(<<Prod("SE_ALL", GR_DOC_END, VoidQName)>>),
                 Rule(<<Prod("ED", GR_VOID_NON_TERMINAL, VoidQName)>>) >>

createBuiltInElementGrammar ==
  << Rule(<<>>), Rule(<<Prod("EE", GR_VOID_NON_TERMINAL, VoidQName)>>) >>

(* Stack nodes refer to the document grammar or to one of grammarTable.     *)
DOC == 0

Node(grammar, nonTerm, qname) ==
  [grammar |-> grammar, currNonTermID |-> nonTerm, currQNameID |-> qname]

Top(s) == Head(s.gStack)

BuiltIn(s) == Top(s).grammar # DOC

CurrentRule(s) ==
  At(IF BuiltIn(s) THEN s.grammarTable[Top(s).grammar] ELSE DocGrammar,
     Top(s).currNonTermID)

SetNonTerm(s, nonTerm) == [s EXCEPT !.gStack[1].currNonTermID = nonTerm]

pushGrammar(s, qname, grammar) ==
  [s EXCEPT !.gStack = <<Node(grammar, GR_START_TAG_CONTENT, qname)>> \o @]

popGrammar(s) == [s EXCEPT !.gStack = Tail(@)]

(* A production learned by rule nonTerm of grammar g.                       *)
insertZeroProduction(s, g, nonTerm, prod) ==
  [s EXCEPT !.grammarTable[g][nonTerm + 1].production = Append(@, prod)]

(* AT(xsi:type) is learned once per rule, every other event each time.      *)
LearnAttribute(s, g, id) ==
  LET learned == insertZeroProduction(s, g, GR_START_TAG_CONTENT,
                   Prod("AT_QNAME", GR_START_TAG_CONTENT, id))
  IN IF ~IsXsi(id, XML_SCHEMA_INSTANCE_TYPE_ID) THEN learned
     ELSE IF At(s.grammarTable[g], GR_START_TAG_CONTENT).hasXsiType THEN s
     ELSE [learned EXCEPT !.grammarTable[g][1].hasXsiType = TRUE]

(* Mutant of PushElement: the new grammar is not recorded for its name.     *)
PushElementUnrecorded(s, id) ==
  LET g == Len(s.grammarTable) + 1
  IN pushGrammar([s EXCEPT !.grammarTable = Append(@, createBuiltInElementGrammar)], id,
       IF Ln(s, id).elemGrammar # NoGrammar THEN Ln(s, id).elemGrammar ELSE g)

(* The element grammar of a name, created on first use.                     *)
PushElement(s, id) ==
  LET known == Ln(s, id).elemGrammar
      g == Len(s.grammarTable) + 1
      created == [s EXCEPT
        !.grammarTable = Append(@, createBuiltInElementGrammar),
        !.uriTable[id.uriId + 1].lnTable[id.lnId + 1].elemGrammar = g]
  IN IF known # NoGrammar THEN pushGrammar(s, id, known)
                          ELSE pushGrammar(created, id, g)

(* SE(qname) needs the grammar that an earlier element of the name created. *)
PushLearnedElement(s, id) ==
  IF Ln(s, id).elemGrammar = NoGrammar THEN Failed(s, "EXIP_INCONSISTENT_PROC_STATE")
  ELSE pushGrammar(s, id, Ln(s, id).elemGrammar)

-----------------------------------------------------------------------------
(* Event codes.                                                             *)

Preserved(s, opt) == IF opt \in s.opts THEN 1 ELSE 0

CommentsOrPIs(s) == IF s.opts \intersect {"comments", "pis"} # {} THEN 1 ELSE 0

(* getBitsFirstPartCode: one code more when there is a second level.        *)
getBitsFirstPartCode(s) ==
  LET secondLevelExists ==
        IF BuiltIn(s) THEN 1
        ELSE IF CommentsOrPIs(s) = 1 THEN 1
        ELSE IF Top(s).currNonTermID = GR_DOC_CONTENT THEN Preserved(s, "dtd")
        ELSE 0
  IN getBitsNumber(Len(CurrentRule(s).production) - 1 + secondLevelExists)

(* The encoder's second-level codes, counted from the options that come     *)
(* before the event ...                                                     *)
SecondLevelBits(s) ==
  getBitsNumber(Preserved(s, "dtd") + CommentsOrPIs(s) +
    IF Top(s).currNonTermID = GR_START_TAG_CONTENT
    THEN 3 + Preserved(s, "prefixes") + Preserved(s, "selfContained")
    ELSE 1)

(* Mutant of SecondLevelPart: the optional events before SE are forgotten.  *)
SecondLevelPartFixed(s, class) ==
  LET startTag == [EE |-> 0, AT |-> 1, NS |-> 2, SE |-> 2, CH |-> 3]
      content == [SE |-> 0, CH |-> 1]
  IN IF Top(s).currNonTermID = GR_START_TAG_CONTENT THEN startTag[class]
                                                    ELSE content[class]

SecondLevelPart(s, class) ==
  LET optional == Preserved(s, "prefixes") + Preserved(s, "selfContained")
      startTag == [EE |-> 0, AT |-> 1, NS |-> 2, SE |-> 2 + optional, CH |-> 3 + optional]
      content == [SE |-> 0, CH |-> 1]
  IN IF Top(s).currNonTermID = GR_START_TAG_CONTENT THEN startTag[class]
                                                    ELSE content[class]

(* ... and the decoder's, by the mask of the states that are available.     *)
StateNames == <<"EE", "AT", "NS", "SC", "SE", "CH", "ER", "CM or PI">>

StateMask(s) ==
  LET startTag == Top(s).currNonTermID = GR_START_TAG_CONTENT
  IN << startTag, startTag,
        startTag /\ "prefixes" \in s.opts, startTag /\ "selfContained" \in s.opts,
        TRUE, TRUE, "dtd" \in s.opts, CommentsOrPIs(s) = 1 >>

Available(s) == {i \in 1..8 : StateMask(s)[i]}

StateOf(s, code) ==
  LET at == {i \in Available(s) :
               Cardinality({k \in Available(s) : k < i}) = code}
  IN IF at = {} THEN "none" ELSE StateNames[CHOOSE i \in at : TRUE]

(* The production an event matches at the first level: class, and for SE    *)
(* and AT the qualified name, compared as strings.                          *)
Matches(s, class, q, prod) ==
  /\ EventClass[prod.event] = class
  /\ class \in {"SE", "AT"} =>
       \/ prod.qnameId = VoidQName
       \/ /\ UriStr(s, prod.qnameId) = q.uri
          /\ Ln(s, prod.qnameId).lnStr = q.ln

(* Mutant of FirstLevelCode: learned CH productions are not looked for.     *)
FirstLevelCodeWithoutCH(s, class, q) ==
  IF class = "CH" THEN -1
  ELSE SelectInSeq(Reverse(CurrentRule(s).production),
                   LAMBDA p : Matches(s, class, q, p)) - 1

(* The encoder takes the last production that matches, which has the least  *)
(* code; -1 when there is none.                                             *)
FirstLevelCode(s, class, q) ==
  LET P == CurrentRule(s).production
  IN SelectInSeq(Reverse(P), LAMBDA p : Matches(s, class, q, p)) - 1

ProductionOf(s, code) ==
  LET P == CurrentRule(s).production IN P[Len(P) - code]
=============================================================================
