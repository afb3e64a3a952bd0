----------------------------- MODULE InitSchema -----------------------------
(***************************************************************************)
(* The schema every grammar generation starts from: the initial string     *)
(* tables of sTables.c and the built-in types with their grammars of       *)
(* initSchemaInstance.c, for the initialization INIT_SCHEMA_SCHEMA_ENABLED.*)
(*                                                                         *)
(* The local name, the simple type and the grammar of a built-in type have *)
(* the same index.  A facet is a member of the set "facets" of its type.   *)
(***************************************************************************)
EXTENDS ProtoGrammars

XML_NAMESPACE == "http://www.w3.org/XML/1998/namespace"
XML_SCHEMA_INSTANCE == "http://www.w3.org/2001/XMLSchema-instance"
XML_SCHEMA_NAMESPACE == "http://www.w3.org/2001/XMLSchema"
XML_NAMESPACE_ID == 1
XML_SCHEMA_INSTANCE_ID == 2
XML_SCHEMA_NAMESPACE_ID == 3

SimpleType(exiType, facets, max, min, length) ==
  [exiType |-> exiType, facets |-> facets, max |-> max, min |-> min, length |-> length]

Plain(exiType) == SimpleType(exiType, {}, 0, 0, 0)
Derived(exiType) == SimpleType(exiType, {"NAMED_SUBTYPE_UNION"}, 0, 0, 0)
ListOf(typeId) == SimpleType("LIST", {}, 0, 0, typeId)
Bounded(exiType, min, max) == SimpleType(exiType, {"MAX_INCLUSIVE", "MIN_INCLUSIVE"}, max, min, 0)
AtLeast(min) == SimpleType("NON_NEGATIVE_INT", {"MIN_INCLUSIVE"}, 0, min, 0)
AtMost(max) == SimpleType("INTEGER", {"MAX_INCLUSIVE"}, max, 0, 0)
HavingSubtypes(type) == [type EXCEPT !.facets = @ \cup {"NAMED_SUBTYPE_UNION"}]

(* The names of the namespace of XML Schema with the types they name, in    *)
(* the order of the enumeration SIMPLE_TYPE_*.                              *)
typesBeforeByte == <<
  <<"ENTITIES", ListOf(1)>>, <<"ENTITY", Derived("STRING")>>, <<"ID", Plain("STRING")>>,
  <<"IDREF", Derived("STRING")>>, <<"IDREFS", ListOf(3)>>, <<"NCName", Derived("STRING")>>,
  <<"NMTOKEN", Derived("STRING")>>, <<"NMTOKENS", ListOf(6)>>, <<"NOTATION", Plain("STRING")>>,
  <<"Name", Derived("STRING")>>, <<"QName", Plain("STRING")>>,
  <<"anySimpleType", Derived("STRING")>>, <<"anyType", Derived("NONE")>>,
  <<"anyURI", Plain("STRING")>>, <<"base64Binary", Plain("BINARY")>>,
  <<"boolean", Plain("BOOLEAN")>> >>

typesFromByteToHexBinary == <<
  <<"byte", Bounded("SMALL_INTEGER", -128, 127)>>, <<"date", Plain("DATE")>>,
  <<"dateTime", Plain("DATE_TIME")>>, <<"decimal", Derived("DECIMAL")>>,
  <<"double", Plain("FLOAT")>>, <<"duration", Plain("STRING")>>, <<"float", Plain("FLOAT")>>,
  <<"gDay", Plain("MONTH")>>, <<"gMonth", Plain("MONTH")>>, <<"gMonthDay", Plain("MONTH")>>,
  <<"gYear", Plain("YEAR")>>, <<"gYearMonth", Plain("DATE")>>, <<"hexBinary", Plain("BINARY")>> >>

typesFromInt == <<
  <<"int", Derived("INTEGER")>>, <<"integer", Derived("INTEGER")>>,
  <<"language", Plain("STRING")>>, <<"long", Derived("INTEGER")>>,
  <<"negativeInteger", AtMost(-1)>>, <<"nonNegativeInteger", HavingSubtypes(AtLeast(0))>>,
  <<"nonPositiveInteger", HavingSubtypes(AtMost(0))>>, <<"normalizedString", Derived("STRING")>>,
  <<"positiveInteger", AtLeast(1)>>,
  <<"short", HavingSubtypes(Bounded("INTEGER", -32768, 32767))>>,
  <<"string", Derived("STRING")>>, <<"time", Plain("TIME")>>, <<"token", Derived("STRING")>>,
  <<"unsignedByte", Bounded("SMALL_INTEGER", 0, 255)>>,
  <<"unsignedInt", HavingSubtypes(AtLeast(0))>>, <<"unsignedLong", HavingSubtypes(AtLeast(0))>>,
  <<"unsignedShort", HavingSubtypes(Bounded("NON_NEGATIVE_INT", 0, 65535))>> >>

createBuiltInTypesDefinitions == typesBeforeByte \o typesFromByteToHexBinary \o typesFromInt

SIMPLE_TYPE_COUNT == Len(createBuiltInTypesDefinitions)
SIMPLE_TYPE_ANY_SIMPLE_TYPE == 11
SIMPLE_TYPE_ANY_TYPE == 12
SIMPLE_TYPE_STRING == 39

builtInSimpleTypes == [i \in 1 .. SIMPLE_TYPE_COUNT |-> createBuiltInTypesDefinitions[i][2]]

(* The complex ur-type: any attributes, then any content.                   *)
urTypeContent == <<Production(EVENT_CH, INDEX_MAX, VoidQName, 1), EEProduction,
                   Production(EVENT_SE_ALL, INDEX_MAX, VoidQName, 1)>>
urTypeGrammar ==
  [rule |-> <<Append(urTypeContent, Production(EVENT_AT_ALL, INDEX_MAX, VoidQName, 0)),
              urTypeContent>>,
   contentIndex |-> 1, nillable |-> FALSE, content2 |-> FALSE, namedSubTypeOrUnion |-> TRUE]

(* The loader leaves the "second content" mark of a built-in grammar unset. *)
generateBuiltInTypesGrammars ==
  [i \in 1 .. SIMPLE_TYPE_COUNT |->
     IF i - 1 = SIMPLE_TYPE_ANY_TYPE THEN urTypeGrammar
     ELSE [rule |-> createSimpleTypeGrammar(i - 1).rule, contentIndex |-> 0,
           nillable |-> FALSE, content2 |-> FALSE,
           namedSubTypeOrUnion |-> "NAMED_SUBTYPE_UNION" \in builtInSimpleTypes[i].facets]]

LnEntry(lnStr, typeGrammar) ==
  [lnStr |-> lnStr, elemGrammar |-> INDEX_MAX, typeGrammar |-> typeGrammar]
UriEntry(uri, lnTable) == [uri |-> uri, ln |-> lnTable]
namesOnly(names) == [i \in DOMAIN names |-> LnEntry(names[i], INDEX_MAX)]

createUriTableEntries == <<
  UriEntry("", <<>>),
  UriEntry(XML_NAMESPACE, namesOnly(<<"base", "id", "lang", "space">>)),
  UriEntry(XML_SCHEMA_INSTANCE, namesOnly(<<"nil", "type">>)),
  UriEntry(XML_SCHEMA_NAMESPACE,
    [i \in 1 .. SIMPLE_TYPE_COUNT |-> LnEntry(createBuiltInTypesDefinitions[i][1], i - 1)]) >>

(* sortUriTable leaves so many entries of each namespace, and so many       *)
(* namespaces, where they are.                                              *)
initialEntries(uriId) ==
  CASE uriId = XML_NAMESPACE_ID -> 4
    [] uriId = XML_SCHEMA_INSTANCE_ID -> 2
    [] uriId = XML_SCHEMA_NAMESPACE_ID -> 46
    [] OTHER -> 0
initialUris == 4
=============================================================================
