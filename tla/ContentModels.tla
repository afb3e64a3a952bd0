---------------------------- MODULE ContentModels ----------------------------
(***************************************************************************)
(* What the declarations of an XML Schema allow, read from the documents   *)
(* themselves: for every type, the words over its attributes, elements and *)
(* characters that are valid, up to WordBound symbols.  The module states  *)
(* what the generated grammars have to accept and shares nothing with the  *)
(* way they are computed.                                                  *)
(*                                                                         *)
(* A document is a record of its target namespace, its two form defaults,  *)
(* its prefixes and its definitions; an element of a document is a record  *)
(* of its name, the sequence of its attributes and that of its children.   *)
(* S is the sequence of the documents of a schema, and d the document an   *)
(* element x belongs to.  A type is a pair of the document and the element *)
(* that define it; a built-in type belongs to document 0.                  *)
(***************************************************************************)
EXTENDS InitSchema, FiniteSets

CONSTANTS
  WordBound,       \* the length of the longest words compared
  LessThan(_, _)   \* the order of names and namespaces

(***************************************************************************)
(* Words.                                                                  *)
(***************************************************************************)
Then2(U, V) == {w[1] \o w[2] : w \in {p \in U \X V : Len(p[1]) + Len(p[2]) <= WordBound}}
Optional(U) == U \cup {<<>>}

Power(U, n) == FoldLeft(Then2, {<<>>}, [i \in 1 .. n |-> U])
Star(U) == Power(Optional(U), WordBound)

Occurring(U, min, max) ==
  Then2(Power(U, min), IF max = -1 THEN Star(U) ELSE Power(Optional(U), max - min))

(* Every way to put symbols of a set between the symbols of a word.         *)
RECURSIVE Mixed(_, _)
Mixed(w, symbols) ==
  Then2(Star({<<s>> : s \in symbols}),
        IF w = <<>> THEN {<<>>} ELSE Then2({<<Head(w)>>}, Mixed(Tail(w), symbols)))

(***************************************************************************)
(* Looking up definitions.                                                 *)
(***************************************************************************)
Bears(x, a) == \E i \in DOMAIN x.attrs : x.attrs[i][1] = a
Of(x, a) == x.attrs[CHOOSE i \in DOMAIN x.attrs : x.attrs[i][1] = a][2]
Else(x, a, default) == IF Bears(x, a) THEN Of(x, a) ELSE default
Parts(x) == ToSet(x.children)
Kids(x) == SelectSeq(x.children, LAMBDA y : y.name # "annotation")

NameOf(S, d, literal) ==
  <<IF \E i \in DOMAIN S[d].prefixes : S[d].prefixes[i][1] = literal[1]
    THEN S[d].prefixes[CHOOSE i \in DOMAIN S[d].prefixes : S[d].prefixes[i][1] = literal[1]][2]
    ELSE "", literal[2]>>

Globals(S, kinds) ==
  UNION {{<<d, x>> : x \in {y \in ToSet(S[d].children) : y.name \in kinds}} : d \in DOMAIN S}
GlobalName(S, g) == <<S[g[1]].targetNs, Of(g[2], "name")>>
Definition(S, kinds, qname) == CHOOSE g \in Globals(S, kinds) : GlobalName(S, g) = qname

BuiltIn(name) == <<0, name>>
TypeNamed(S, d, literal) ==
  LET qname == NameOf(S, d, literal)
  IN IF qname[1] = XML_SCHEMA_NAMESPACE THEN BuiltIn(qname[2])
     ELSE Definition(S, {"simpleType", "complexType"}, qname)

(* The type of an element or an attribute.                                  *)
DeclaredType(S, d, x, default) ==
  LET own == {y \in Parts(x) : y.name \in {"simpleType", "complexType"}}
  IN IF Bears(x, "type") THEN TypeNamed(S, d, Of(x, "type"))
     ELSE IF own # {} THEN <<d, CHOOSE y \in own : TRUE>>
     ELSE BuiltIn(default)

(* Where a reference leads; a local declaration is its own target.          *)
Target(S, d, x) ==
  IF Bears(x, "ref") THEN Definition(S, {x.name}, NameOf(S, d, Of(x, "ref"))) ELSE <<d, x>>

DeclaredName(S, d, x, qualified) ==
  LET global == Target(S, d, x)
  IN IF Bears(x, "ref") THEN GlobalName(S, global)
     ELSE <<IF qualified \/ Else(x, "form", "") = "qualified" THEN S[d].targetNs ELSE "",
            Of(x, "name")>>

(***************************************************************************)
(* Simple types: how their values are coded.                               *)
(***************************************************************************)
IntegerCoding(low, high) ==       \* of the integers within bounds that may be missing
  IF low # {} /\ high # {} /\ (\A l \in low, h \in high : h - l < 4096)
  THEN <<"SMALL_INTEGER", CHOOSE l \in low : TRUE, CHOOSE h \in high : TRUE>>
  ELSE IF \E l \in low : l >= 0 THEN <<"NON_NEGATIVE_INT">> ELSE <<"INTEGER">>

IsInteger(exiType) == exiType \in {"INTEGER", "NON_NEGATIVE_INT", "SMALL_INTEGER"}

(* The bounds of a built-in type, as far as they matter for its coding.     *)
BuiltInBounds(t) ==
  [low |-> IF "MIN_INCLUSIVE" \in t.facets THEN {t.min} ELSE {},
   high |-> IF "MAX_INCLUSIVE" \in t.facets THEN {t.max} ELSE {}]

builtInType(name) ==
  createBuiltInTypesDefinitions[CHOOSE i \in 1 .. SIMPLE_TYPE_COUNT :
    createBuiltInTypesDefinitions[i][1] = name][2]

RECURSIVE Bounds(_, _)
Bounds(S, t) ==
  LET x == t[2]
      r == Kids(x)[1]
      base == Bounds(S, TypeNamed(S, t[1], Of(r, "base")))
      facet(name, old) ==
        LET f == {y \in Parts(r) : y.name = name}
        IN IF f = {} THEN old ELSE {Of(y, "value") : y \in f}
  IN IF t[1] = 0 THEN BuiltInBounds(builtInType(x))
     ELSE [low |-> facet("minInclusive", base.low), high |-> facet("maxInclusive", base.high)]

RECURSIVE Coding(_, _)
Coding(S, t) ==
  LET variety == Kids(t[2])[1]
      base == Coding(S, TypeNamed(S, t[1], Of(variety, "base")))
      enums == SelectSeq(variety.children, LAMBDA y : y.name = "enumeration")
  IN CASE t = BuiltIn("anyType") -> <<"untyped">>
       [] t[1] = 0 /\ t # BuiltIn("anyType") ->
            LET b == builtInType(t[2])
            IN IF b.exiType = "LIST" THEN <<"LIST", <<"STRING">> >>
               ELSE IF IsInteger(b.exiType) THEN IntegerCoding(BuiltInBounds(b).low, BuiltInBounds(b).high)
               ELSE <<b.exiType>>
       [] t[1] # 0 /\ variety.name = "union" -> <<"STRING">>
       [] t[1] # 0 /\ variety.name = "list" ->
            <<"LIST", Coding(S, IF Bears(variety, "itemType") THEN TypeNamed(S, t[1], Of(variety, "itemType"))
                                ELSE <<t[1], Kids(variety)[1]>>)>>
       [] t[1] # 0 /\ variety.name = "restriction" ->
            IF enums # <<>> THEN <<"ENUMERATION", [i \in DOMAIN enums |-> Of(enums[i], "value")]>>
            ELSE IF IsInteger(base[1]) THEN IntegerCoding(Bounds(S, t).low, Bounds(S, t).high)
            ELSE base

(***************************************************************************)
(* Particles.                                                              *)
(***************************************************************************)
(* The element declared by x and the elements of its substitution group.    *)
RECURSIVE Substitutable(_, _)
Substitutable(S, g) ==
  LET members == {m \in Globals(S, {"element"}) :
                    /\ Bears(m[2], "substitutionGroup")
                    /\ Definition(S, {"element"}, NameOf(S, m[1], Of(m[2], "substitutionGroup"))) = g}
  IN {g} \cup UNION {Substitutable(S, m) : m \in members}

(* Pairs of a name and the declaration that has it.                         *)
ElementsFor(S, d, x) ==
  IF Bears(x, "ref") THEN {<<GlobalName(S, g), g>> : g \in Substitutable(S, Target(S, d, x))}
  ELSE {<<DeclaredName(S, d, x, S[d].elemQualified), <<d, x>> >>}

(* The namespaces of a wildcard.                                            *)
Namespaces(S, d, x) ==
  LET ns == Else(x, "namespace", <<>>)
  IN [i \in DOMAIN ns |-> CASE ns[i] = "##targetNamespace" -> S[d].targetNs
                            [] ns[i] = "##local" -> ""
                            [] OTHER -> ns[i]]

Wildcard(symbol, namespaces) ==
  IF IsAnyNamespace(namespaces) THEN {<< <<symbol>> >>}
  ELSE {<< <<symbol \o " of", ns>> >> : ns \in ToSet(namespaces)}

RECURSIVE ParticleWords(_, _, _)
ParticleWords(S, d, x) ==
  LET group == Target(S, d, x)
      parts == [i \in DOMAIN Kids(x) |-> ParticleWords(S, d, Kids(x)[i])]
      once == CASE x.name = "element" -> {<< <<"SE", e[1]>> >> : e \in ElementsFor(S, d, x)}
                [] x.name = "any" -> Wildcard("SE", Namespaces(S, d, x))
                [] x.name = "sequence" -> FoldLeft(Then2, {<<>>}, parts)
                [] x.name = "choice" -> UNION ToSet(parts)
                [] x.name = "group" -> ParticleWords(S, group[1], Kids(group[2])[1])
  IN Occurring(once, Else(x, "minOccurs", 1), Else(x, "maxOccurs", 1))

RECURSIVE ParticleElements(_, _, _)
ParticleElements(S, d, x) ==
  LET group == Target(S, d, x)
  IN CASE x.name = "element" -> ElementsFor(S, d, x)
       [] x.name = "any" -> {}
       [] x.name = "group" -> ParticleElements(S, group[1], Kids(group[2])[1])
       [] OTHER -> UNION {ParticleElements(S, d, y) : y \in Parts(x)}

(***************************************************************************)
(* Attributes.                                                             *)
(***************************************************************************)
(* A use: its name, whether it is required, the coding of its value, and    *)
(* whether it is prohibited.                                                *)
RECURSIVE AttributeUses(_, _, _)
AttributeUses(S, d, x) ==
  UNION {
    CASE y.name = "attribute" ->
           LET target == Target(S, d, y)
           IN {[name |-> DeclaredName(S, d, y, S[d].attrQualified), use |-> Else(y, "use", "optional"),
                coding |-> Coding(S, DeclaredType(S, target[1], target[2], "anySimpleType"))]}
      [] y.name = "attributeGroup" -> AttributeUses(S, Target(S, d, y)[1], Target(S, d, y)[2])
      [] OTHER -> {} : y \in Parts(x)}

RECURSIVE AttributeWildcard(_, _, _)
AttributeWildcard(S, d, x) ==
  UNION {
    CASE y.name = "anyAttribute" -> {Namespaces(S, d, y)}
      [] y.name = "attributeGroup" -> AttributeWildcard(S, Target(S, d, y)[1], Target(S, d, y)[2])
      [] OTHER -> {} : y \in Parts(x)}

(***************************************************************************)
(* Complex types.                                                          *)
(***************************************************************************)
IsContent(x) == x.name \in {"simpleContent", "complexContent"}
ModelGroups == {"sequence", "choice", "group"}

(* A derived type: its derivation and its base; else the type and nothing.  *)
Derivation(t) ==
  LET content == {y \in Parts(t[2]) : IsContent(y)}
  IN IF content = {} THEN t[2] ELSE Kids(CHOOSE y \in content : TRUE)[1]
IsDerived(t) == Derivation(t) # t[2]
BaseOf(S, t) == TypeNamed(S, t[1], Of(Derivation(t), "base"))
HasComplexBase(S, t) == IsDerived(t) /\ BaseOf(S, t)[1] # 0 /\ BaseOf(S, t)[2].name = "complexType"

RECURSIVE AllAttributeUses(_, _)
AllAttributeUses(S, t) ==
  LET own == AttributeUses(S, t[1], Derivation(t))
      inherited == IF HasComplexBase(S, t) THEN AllAttributeUses(S, BaseOf(S, t)) ELSE {}
  IN own \cup {u \in inherited : \A v \in own : v.name # u.name}

RECURSIVE AllWildcards(_, _)
AllWildcards(S, t) ==
  AttributeWildcard(S, t[1], Derivation(t))
    \cup (IF HasComplexBase(S, t) THEN AllWildcards(S, BaseOf(S, t)) ELSE {})

(* Attributes come in the order of their names.                             *)
NameLess(m, n) == IF m[2] = n[2] THEN LessThan(m[1], n[1]) ELSE LessThan(m[2], n[2])

AttributeWords(S, t) ==
  LET uses == SetToSortSeq({u \in AllAttributeUses(S, t) : u.use # "prohibited"},
                           LAMBDA u, v : NameLess(u.name, v.name))
      others == Star(UNION {Wildcard("AT", ns) : ns \in AllWildcards(S, t)})
      words(u) == LET w == {<< <<"AT", u.name, u.coding>> >>}
                  IN IF u.use = "required" THEN w ELSE Optional(w)
  IN FoldLeft(LAMBDA W, u : Then2(Then2(W, words(u)), others), others, uses)

RECURSIVE ContentWords(_, _)
ContentWords(S, t) ==
  LET x == Derivation(t)
      groups == SelectSeq(x.children, LAMBDA y : y.name \in ModelGroups)
      own == IF groups = <<>> THEN {<<>>} ELSE ParticleWords(S, t[1], groups[1])
      base == BaseOf(S, t)
      isMixed == Else(t[2], "mixed", "false") = "true"
      words == IF ~IsDerived(t) \/ x.name = "restriction" THEN own
               ELSE IF HasComplexBase(S, t) THEN Then2(ContentWords(S, base), own)
               ELSE {<< <<"CH", Coding(S, base)>> >>}
  IN IF isMixed THEN UNION {Mixed(w, {<<"CH", <<"untyped">> >>}) : w \in words} ELSE words

IsSimple(t) == IF t[1] = 0 THEN t[2] # "anyType" ELSE t[2].name = "simpleType"

TypeWords(S, t) ==
  CASE IsSimple(t) -> {<< <<"CH", Coding(S, t)>> >>}
    [] t = BuiltIn("anyType") ->
         Then2(Star({<< <<"AT">> >>}), Star({<< <<"SE">> >>, << <<"CH", <<"untyped">> >> >>}))
    [] OTHER -> Then2(AttributeWords(S, t), ContentWords(S, t))

(* The elements a type contains, each a pair of its name and its type.      *)
RECURSIVE TypeElements(_, _)
TypeElements(S, t) ==
  LET groups == {y \in Parts(Derivation(t)) : y.name \in ModelGroups}
      own == UNION {ParticleElements(S, t[1], y) : y \in groups}
  IN IF t[1] = 0 \/ IsSimple(t) THEN {}
     ELSE {<<e[1], DeclaredType(S, e[2][1], e[2][2], "anyType")>> : e \in own}
            \cup (IF HasComplexBase(S, t) /\ Derivation(t).name = "extension"
                  THEN TypeElements(S, BaseOf(S, t)) ELSE {})
=============================================================================
