--------------------------- MODULE ProtoGrammars ----------------------------
(***************************************************************************)
(* The grammar calculus of the grammar generator: genUtils.c and           *)
(* protoGrammars.c of src/grammarGen/src, with the order of productions    *)
(* that treeTableToGrammars.c gives to a finished grammar.                 *)
(*                                                                         *)
(* A proto grammar is a record of its rules, of the index of its content   *)
(* rule, and of whether an assert of addProductionsToARule stopped the     *)
(* generator.  A rule is the sequence of its productions.  Non-terminals   *)
(* and ids count from 0 as they do in the code, so At reads an entry.      *)
(***************************************************************************)
EXTENDS Integers, Sequences, SequencesExt

INDEX_MAX == -1
URI_MAX == -1
LN_MAX == -1
NON_TERMINALS == 16777216
GR_VOID_NON_TERMINAL == NON_TERMINALS - 1

EVENT_AT_QNAME == 20
EVENT_AT_URI == 21
EVENT_AT_ALL == 22
EVENT_SE_QNAME == 30
EVENT_SE_URI == 31
EVENT_SE_ALL == 32
EVENT_EE == 40
EVENT_CH == 50
EVENT_AT_CLASS == {EVENT_AT_QNAME, EVENT_AT_URI, EVENT_AT_ALL}

At(s, i) == s[i + 1]

QNameID(uriId, lnId) == [uriId |-> uriId, lnId |-> lnId]
VoidQName == QNameID(URI_MAX, LN_MAX)

Production(event, typeId, qnameId, nonTerm) ==
  [event |-> event, typeId |-> typeId, qnameId |-> qnameId, nonTerm |-> nonTerm]

EEProduction == Production(EVENT_EE, INDEX_MAX, VoidQName, GR_VOID_NON_TERMINAL)

ProtoGrammar(rule) == [rule |-> rule, contentIndex |-> 0, asserted |-> FALSE]
EmptyWord == ProtoGrammar(<< <<EEProduction>> >>)
NoGrammar == ProtoGrammar(<<>>)        \* a NULL pointer to a grammar

SameTerminal(p, q) ==
  /\ p.event = q.event
  /\ p.typeId = q.typeId
  /\ p.qnameId = q.qnameId

(* Non-terminals are kept in 24 bits; EE keeps its void non-terminal.       *)
moved(p, by) ==
  IF p.event = EVENT_EE THEN p
  ELSE [p EXCEPT !.nonTerm = (@ + by) % NON_TERMINALS]

movedRule(rule, by) == [i \in DOMAIN rule |-> moved(rule[i], by)]

HasEE(rule) == \E i \in DOMAIN rule : rule[i].event = EVENT_EE

withoutEE(rule) == RemoveAt(rule, SelectInSeq(rule, LAMBDA p : p.event = EVENT_EE))

(* Rules are compared terminal by terminal, never along their non-terminals. *)
rulesEqual(r1, r2) ==
  /\ Len(r1) = Len(r2)
  /\ \A i \in DOMAIN r1 : \E j \in DOMAIN r2 : SameTerminal(r1[i], r2[j])

(***************************************************************************)
(* The rule of g that a production of right leading to its own rule 0 is   *)
(* led to once right is merged into rule l: l itself, if l has an event of *)
(* each type of right, or another rule equal to right, or a new one.       *)
(***************************************************************************)
LoopTarget(g, l, right) ==
  LET contained == \A i \in DOMAIN right :
        \/ right[i].event = EVENT_EE
        \/ \E j \in DOMAIN At(g.rule, l) : At(g.rule, l)[j].event = right[i].event
      equals == {t \in 0 .. Len(g.rule) - 1 : t # l /\ rulesEqual(At(g.rule, t), right)}
  IN IF contained THEN l
     ELSE IF equals # {} THEN CHOOSE t \in equals : \A u \in equals : t <= u
     ELSE Len(g.rule)

(* Two terminals collide when their non-terminals differ and are not equal. *)
Collides(g, p, nonTerm) ==
  /\ p.event # EVENT_EE
  /\ p.nonTerm # nonTerm
  /\ ~ (/\ {p.nonTerm, nonTerm} \subseteq 0 .. Len(g.rule) - 1
        /\ rulesEqual(At(g.rule, p.nonTerm), At(g.rule, nonTerm)))

addProductionToARule(g, l, right, p, by) ==
  LET target == IF p.nonTerm = 0 THEN LoopTarget(g, l, right) ELSE moved(p, by).nonTerm
      grown == IF p.nonTerm = 0 /\ target = Len(g.rule)
               THEN [g EXCEPT !.rule = Append(@, movedRule(right, by - 1))] ELSE g
      left == At(grown.rule, l)
      found == SelectInSeq(left, LAMBDA q : SameTerminal(q, p))
  IN IF g.asserted THEN g
     ELSE IF found = 0
          THEN [grown EXCEPT !.rule[l + 1] = Append(@, [p EXCEPT !.nonTerm = target])]
     ELSE IF Collides(grown, left[found], target) THEN [grown EXCEPT !.asserted = TRUE]
     ELSE grown

addProductionsToARule(g, l, right, by) ==
  FoldLeft(LAMBDA h, p : addProductionToARule(h, l, right, p, by), g, right)

(* What follows the end of rule l: the productions of right, in its place.  *)
continueRule(g, l, right, by) ==
  LET left == At(g.rule, l)
      open == [g EXCEPT !.rule[l + 1] = withoutEE(left)]
  IN IF g.asserted \/ ~HasEE(left) \/ rulesEqual(left, right) THEN g
     ELSE IF Len(left) = 1 THEN [g EXCEPT !.rule[l + 1] = movedRule(right, by)]
     ELSE addProductionsToARule(open, l, right, by)

concatenateGrammars(left, right) ==
  LET n == Len(left.rule)
      appended == [left EXCEPT
        !.rule = @ \o [r \in 1 .. Len(right.rule) - 1 |-> movedRule(right.rule[r + 1], n - 1)],
        !.asserted = @ \/ right.asserted]
  IN IF right.rule = <<>> THEN left
     ELSE FoldLeft(LAMBDA g, l : continueRule(g, l, right.rule[1], n - 1),
                   appended, [l \in 1 .. n |-> l - 1])

Concatenated(grammars) == FoldLeft(concatenateGrammars, EmptyWord, grammars)

createSimpleTypeGrammar(typeId) ==
  ProtoGrammar(<< <<Production(EVENT_CH, typeId, VoidQName, 1)>>, <<EEProduction>> >>)

createAttributeUseGrammar(required, typeId, qnameId) ==
  ProtoGrammar(<< <<Production(EVENT_AT_QNAME, typeId, qnameId, 1)>>
                    \o (IF required THEN <<>> ELSE <<EEProduction>>),
                  <<EEProduction>> >>)

createElementTermGrammar(qnameGrArr) ==
  ProtoGrammar(<< [i \in DOMAIN qnameGrArr |->
                     Production(EVENT_SE_QNAME, qnameGrArr[i].grIndex, qnameGrArr[i].qnameId, 1)],
                  <<EEProduction>> >>)

IsAnyNamespace(ns) == ns = <<>> \/ ns = <<"##any">> \/ ns = <<"##other">>

createWildcardTermGrammar(ns, uriIds) ==
  ProtoGrammar(<< IF IsAnyNamespace(ns)
                  THEN <<Production(EVENT_SE_ALL, INDEX_MAX, VoidQName, 1)>>
                  ELSE [i \in DOMAIN ns |-> Production(EVENT_SE_URI, INDEX_MAX,
                                                       QNameID(uriIds[i], LN_MAX), 1)],
                  <<EEProduction>> >>)

(* The term whose end may start it again: maxOccurs="unbounded".            *)
RepeatedTerm(term) ==
  FoldLeft(LAMBDA g, r : continueRule(g, r, term.rule[1], 0),
           term, [r \in 1 .. Len(term.rule) - 1 |-> r])

createParticleGrammar(minOccurs, maxOccurs, term) ==
  LET required == Concatenated([i \in 1 .. minOccurs |-> term])
      optional == IF HasEE(term.rule[1]) THEN term
                  ELSE [term EXCEPT !.rule[1] = Append(@, EEProduction)]
  IN CASE maxOccurs < 0 -> concatenateGrammars(required, RepeatedTerm(optional))
       [] maxOccurs > minOccurs ->
            FoldLeft(concatenateGrammars, required,
                     [i \in 1 .. maxOccurs - minOccurs |-> optional])
       [] OTHER -> required

createSequenceModelGroupsGrammar(grArray) == Concatenated(grArray)

addAlternative(g, alt) ==
  LET n == Len(g.rule)
      appended == [g EXCEPT
        !.rule = @ \o [r \in 1 .. Len(alt.rule) - 1 |-> movedRule(alt.rule[r + 1], n - 1)],
        !.asserted = @ \/ alt.asserted]
  IN IF g.asserted \/ rulesEqual(g.rule[1], alt.rule[1]) THEN appended
     ELSE IF g.rule[1] = <<>> THEN [appended EXCEPT !.rule[1] = movedRule(alt.rule[1], n - 1)]
     ELSE addProductionsToARule(appended, 0, alt.rule[1], n - 1)

createChoiceModelGroupsGrammar(pgArray) ==
  FoldLeft(addAlternative, concatenateGrammars(EmptyWord, pgArray[1]), Tail(pgArray))

(* CH is added to every rule of mixed content, each one leading to itself.  *)
mixedContent(content) ==
  [content EXCEPT !.rule = [r \in DOMAIN @ |->
     Append(@[r], Production(EVENT_CH, INDEX_MAX, VoidQName, r - 1))]]

createComplexTypeGrammar(attrUseArray, contentType, isMixedContent) ==
  LET content == IF isMixedContent THEN mixedContent(contentType) ELSE contentType
      attributes == Concatenated(attrUseArray)
  IN IF attrUseArray = <<>> THEN content
     ELSE concatenateGrammars([attributes EXCEPT !.contentIndex = Len(attributes.rule) - 1],
                              content)

(* qsort, taken to be stable: each entry goes after those not behind it.    *)
sortedBy(s, Less(_, _)) ==
  FoldLeft(LAMBDA t, x :
             LET behind == {i \in DOMAIN t : Less(x, t[i])}
                 at == IF behind = {} THEN Len(t) + 1
                       ELSE CHOOSE i \in behind : \A j \in behind : i <= j
             IN InsertAt(t, at, x),
           <<>>, s)

AttrCount(rule) == Cardinality({i \in DOMAIN rule : rule[i].event \in EVENT_AT_CLASS})

(***************************************************************************)
(* A grammar of the schema.  It has a second content grammar, the one used *)
(* after xsi:nil, when its content is its first rule or when one of the    *)
(* last productions of an attribute rule leads to the content.             *)
(***************************************************************************)
HasContent2(g) ==
  \/ g.contentIndex = 0
  \/ \E r \in 1 .. g.contentIndex : \E p \in 0 .. AttrCount(g.rule[r]) - 1 :
       LET rule == g.rule[r] IN rule[Len(rule) - p].nonTerm = g.contentIndex

convertProtoGrammar(g, isNillable) ==
  [rule |-> g.rule, contentIndex |-> g.contentIndex, nillable |-> isNillable,
   content2 |-> HasContent2(g), namedSubTypeOrUnion |-> FALSE]
=============================================================================
