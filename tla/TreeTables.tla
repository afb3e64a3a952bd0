----------------------------- MODULE TreeTables -----------------------------
(***************************************************************************)
(* How XML Schema documents become tree tables: the content handler of     *)
(* treeTableBuild.c, which the parser calls for every event of a document, *)
(* and treeTableManipulate.c, which links each type, base and ref literal  *)
(* to its definition.  The build is the one with HASH_TABLE_USE on.        *)
(*                                                                         *)
(* All entries live in one pool, in the order of their allocation: a       *)
(* pointer to an entry is its index and 0 is NULL.  An entry remembers the *)
(* tree table it belongs to, so that a QualifiedTreeTableEntry is a        *)
(* pointer.  A qualified name in an attribute is a pair <<prefix, name>>,  *)
(* a list of namespaces a sequence; a missing attribute is not in "attr".  *)
(***************************************************************************)
EXTENDS InitSchema

CONSTANTS
  Lexicon,      \* every name and namespace, in the order of stringCompare
  Parsed        \* the events the parser reports of each document

VARIABLES
  buffers,      \* the documents of the schema
  events,       \* what the parser still has to report of the current document
  ttpd,         \* struct TreeTableParsingData
  files,        \* the tree tables (TreeTable)
  entries,      \* the pool of TreeTableEntry
  uriTable,     \* the string tables of the schema
  subsTbl,      \* the substitution groups
  err           \* the error that stopped the generator, or "OK"

treeVars == <<buffers, events, ttpd, files, entries, uriTable, subsTbl, err>>

GlobalKinds == [element |-> "elemTbl", simpleType |-> "typeTbl", complexType |-> "typeTbl",
                attribute |-> "attrTbl", group |-> "groupTbl", attributeGroup |-> "attrGroupTbl"]

elemStrings == DOMAIN GlobalKinds \cup
  {"choice", "complexContent", "import", "sequence", "all", "extension", "restriction",
   "simpleContent", "any", "minInclusive", "maxLength", "maxInclusive", "list", "union",
   "anyAttribute", "enumeration", "key", "selector", "field", "notation", "include",
   "redefine", "minExclusive", "maxExclusive", "totalDigits", "fractionDigits", "length",
   "minLength", "whiteSpace", "pattern"}

ignoredStrings == {"annotation", "documentation", "appinfo"}

attrStrings ==
  {"name", "type", "ref", "minOccurs", "maxOccurs", "form", "base", "use", "namespace",
   "processContents", "value", "nillable", "itemType", "memberTypes", "mixed",
   "schemaLocation", "substitutionGroup", "abstract"}

schemaAttrStrings == {"targetNamespace", "elementFormDefault", "attributeFormDefault"}

TreeTableEntry(element, treeT) ==
  [element |-> element, attr |-> <<>>, child |-> 0, next |-> 0, supertype |-> 0, treeT |-> treeT]

initTreeTable ==
  [targetNs |-> "", targetNsId |-> 0, elemQualified |-> FALSE, attrQualified |-> FALSE,
   pfxNsTable |-> <<>>, tree |-> <<>>, tables |-> <<>>]

NoPtr == <<"NULL", 0>>
initTtpd ==
  [propsStat |-> "INITIAL_STATE", expectingAttr |-> FALSE, charDataPtr |-> NoPtr,
   ignoredElement |-> 0, contextStack |-> <<>>, targetNsId |-> 0,
   elementFormDefault |-> "", attributeFormDefault |-> ""]

(* The attributes of an entry.                                              *)
Has(e, a) == a \in DOMAIN entries[e].attr
Value(e, a) == entries[e].attr[a]
ValueIs(e, a, v) == Has(e, a) /\ Value(e, a) = v
File(e) == files[entries[e].treeT]
Child(e) == entries[e].child
Element(e) == IF e = 0 THEN "NULL" ELSE entries[e].element
NamespaceOf(e) == IF Has(e, "namespace") THEN Value(e, "namespace")[1] ELSE ""

(* The string tables.                                                       *)
hasUri(table, uri) == \E i \in DOMAIN table : table[i].uri = uri
lookupUri(table, uri) == (CHOOSE i \in DOMAIN table : table[i].uri = uri) - 1
hasLn(table, uriId, name) == \E i \in DOMAIN At(table, uriId).ln : At(table, uriId).ln[i].lnStr = name
lookupLn(table, uriId, name) ==
  (CHOOSE i \in DOMAIN At(table, uriId).ln : At(table, uriId).ln[i].lnStr = name) - 1

addUri(table, uri) == IF hasUri(table, uri) THEN table ELSE Append(table, UriEntry(uri, <<>>))
addLn(table, uriId, name) ==
  IF hasLn(table, uriId, name) THEN table
  ELSE [table EXCEPT ![uriId + 1].ln = Append(@, LnEntry(name, INDEX_MAX))]

stringCompareLess(s, t) ==
  (CHOOSE i \in DOMAIN Lexicon : Lexicon[i] = s) < (CHOOSE i \in DOMAIN Lexicon : Lexicon[i] = t)

(***************************************************************************)
(* The content handler.                                                    *)
(***************************************************************************)
cur == Len(files)                      \* the tree table being built
event == Head(events)
Is(kind) == err = "OK" /\ events # <<>> /\ event.ev = kind
Consume == events' = Tail(events) /\ UNCHANGED <<buffers, subsTbl>>
Stop(code) == err' = code /\ UNCHANGED <<ttpd, files, entries, uriTable>>

generateTreeTable ==
  /\ err = "OK" /\ events = <<>> /\ Len(files) < Len(buffers)
  /\ events' = Parsed[buffers[Len(files) + 1]]
  /\ files' = Append(files, initTreeTable)
  /\ ttpd' = initTtpd
  /\ UNCHANGED <<buffers, entries, uriTable, subsTbl, err>>

xsd_startSchema ==
  /\ Is("startElement") /\ ttpd.propsStat = "INITIAL_STATE"
  /\ Consume
  /\ IF event.uri = XML_SCHEMA_NAMESPACE /\ event.name = "schema"
     THEN /\ ttpd' = [ttpd EXCEPT !.propsStat = "SCHEMA_ELEMENT_STATE"]
          /\ UNCHANGED <<files, entries, uriTable, err>>
     ELSE Stop("EXIP_HANDLER_STOP")

(* The properties of the document are complete once <schema> has a child.   *)
schemaProperties(t, f) ==
  IF t.propsStat # "SCHEMA_ELEMENT_STATE" THEN <<t, f, uriTable>>
  ELSE LET table == addUri(uriTable, f.targetNs)
       IN <<[t EXCEPT !.propsStat = "SCHEMA_CONTENT_STATE",
                      !.targetNsId = lookupUri(table, f.targetNs)],
            [f EXCEPT !.elemQualified = t.elementFormDefault = "qualified",
                      !.attrQualified = t.attributeFormDefault = "qualified"],
            table>>

(* A new entry goes behind the children of the entry on top of the stack.   *)
linked(new) ==
  LET lastSibling[e \in DOMAIN entries] ==
        IF entries[e].next = 0 THEN e ELSE lastSibling[entries[e].next]
      prev == Head(ttpd.contextStack)
      pool == Append(entries, new)
  IN CASE ttpd.contextStack = <<>> -> pool
       [] ttpd.contextStack # <<>> /\ Child(prev) = 0 -> [pool EXCEPT ![prev].child = Len(pool)]
       [] OTHER -> [pool EXCEPT ![lastSibling[Child(prev)]].next = Len(pool)]

xsd_startElement ==
  /\ Is("startElement") /\ ttpd.propsStat # "INITIAL_STATE"
  /\ Consume
  /\ LET props == schemaProperties(ttpd, files[cur])
         t == props[1]
         ignore(n) ==
           /\ ttpd' = [t EXCEPT !.ignoredElement = n]
           /\ files' = [files EXCEPT ![cur] = props[2]]
           /\ uriTable' = props[3]
           /\ UNCHANGED <<entries, err>>
     IN CASE event.uri # XML_SCHEMA_NAMESPACE ->
               IF t.ignoredElement = 0 THEN Stop("EXIP_HANDLER_STOP")
               ELSE ignore(t.ignoredElement + 1)
          [] event.uri = XML_SCHEMA_NAMESPACE /\ event.name \in ignoredStrings ->
               ignore(t.ignoredElement + 1)
          [] event.uri = XML_SCHEMA_NAMESPACE /\ event.name \notin ignoredStrings \cup elemStrings ->
               Stop("EXIP_HANDLER_STOP")
          [] OTHER ->
               /\ entries' = linked(TreeTableEntry(event.name, cur))
               /\ files' = [files EXCEPT ![cur] =
                    IF t.contextStack = <<>>
                    THEN [props[2] EXCEPT !.tree = Append(@, Len(entries) + 1)] ELSE props[2]]
               /\ ttpd' = [t EXCEPT !.ignoredElement = 0,
                                    !.contextStack = <<Len(entries) + 1>> \o @]
               /\ uriTable' = props[3]
               /\ UNCHANGED err

xsd_attribute ==
  /\ Is("attribute")
  /\ Consume
  /\ ttpd' = IF ttpd.ignoredElement # 0 THEN ttpd
             ELSE LET inSchema == ttpd.propsStat = "SCHEMA_ELEMENT_STATE"
                      known == event.name \in (IF inSchema THEN schemaAttrStrings ELSE attrStrings)
                  IN [ttpd EXCEPT
                        !.expectingAttr = TRUE,
                        !.charDataPtr = IF ~known THEN @
                                        ELSE <<event.name, IF inSchema THEN 0
                                                           ELSE Head(ttpd.contextStack)>>]
  /\ UNCHANGED <<files, entries, uriTable, err>>

(* The three data handlers store the text of their value in one way.        *)
storeValue ==
  LET expected == ttpd.ignoredElement = 0 /\ ttpd.expectingAttr
      ptr == ttpd.charDataPtr
      stored(name, entry, old) == IF expected /\ ptr = <<name, entry>> THEN event.value ELSE old
  IN /\ Consume
     /\ entries' = IF expected /\ ptr[2] # 0
                   THEN [entries EXCEPT ![ptr[2]].attr = (ptr[1] :> event.value) @@ @] ELSE entries
     /\ files' = [files EXCEPT ![cur].targetNs = stored("targetNamespace", 0, @)]
     /\ ttpd' = [ttpd EXCEPT
          !.elementFormDefault = stored("elementFormDefault", 0, @),
          !.attributeFormDefault = stored("attributeFormDefault", 0, @),
          !.expectingAttr = @ /\ ~expected,
          !.charDataPtr = IF expected THEN NoPtr ELSE @]
     /\ UNCHANGED <<uriTable, err>>

xsd_stringData == Is("stringData") /\ storeValue
xsd_boolData == Is("boolData") /\ storeValue
xsd_intData == Is("intData") /\ storeValue

xsd_namespaceDeclaration ==
  /\ Is("namespaceDeclaration")
  /\ Consume
  /\ files' = IF ttpd.ignoredElement # 0 THEN files
              ELSE [files EXCEPT ![cur].pfxNsTable = Append(@, [pfx |-> event.pfx, ns |-> event.ns])]
  /\ UNCHANGED <<ttpd, entries, uriTable, err>>

(* A local definition is in the target namespace when its form says so.     *)
isQualified(e) ==
  \/ Element(e) = "element" /\ (File(e).elemQualified \/ ValueIs(e, "form", "qualified"))
  \/ Element(e) = "attribute" /\ (File(e).attrQualified \/ ValueIs(e, "form", "qualified"))

(* A wildcard has no name, so that its namespaces never reach the tables.   *)
xsd_endElement ==
  /\ Is("endElement")
  /\ Consume
  /\ CASE ttpd.ignoredElement # 0 ->
            /\ ttpd' = [ttpd EXCEPT !.ignoredElement = @ - 1]
            /\ UNCHANGED <<files, entries, uriTable, err>>
       [] ttpd.ignoredElement = 0 /\ ttpd.contextStack = <<>> ->
            UNCHANGED <<ttpd, files, entries, uriTable, err>>
       [] OTHER ->
            LET e == Head(ttpd.contextStack)
                isGlobal == Tail(ttpd.contextStack) = <<>>
                named == Has(e, "name") /\ Element(e) \notin {"notation", "key"}
                uriId == IF isGlobal \/ isQualified(e) THEN ttpd.targetNsId ELSE 0
                indexed == named /\ isGlobal /\ Element(e) \in DOMAIN GlobalKinds
                key == <<GlobalKinds[Element(e)], Value(e, "name")>>
            IN IF indexed /\ key \in DOMAIN files[cur].tables THEN Stop("EXIP_HANDLER_STOP")
               ELSE /\ ttpd' = [ttpd EXCEPT !.contextStack = Tail(@)]
                    /\ uriTable' = IF named THEN addLn(uriTable, uriId, Value(e, "name")) ELSE uriTable
                    /\ files' = IF indexed THEN [files EXCEPT ![cur].tables = (key :> e) @@ @] ELSE files
                    /\ UNCHANGED <<entries, err>>

BuildNext ==
  \/ generateTreeTable
  \/ xsd_startSchema \/ xsd_startElement \/ xsd_endElement
  \/ xsd_attribute \/ xsd_stringData \/ xsd_boolData \/ xsd_intData
  \/ xsd_namespaceDeclaration

(***************************************************************************)
(* Every <import> and <include> has to find its tree tables among those    *)
(* given, because no loadSchemaHandler is.                                 *)
(***************************************************************************)
prologue(f) ==
  LET tree == files[f].tree
      other == {i \in DOMAIN tree : Element(tree[i]) \notin {"redefine", "include", "import"}}
  IN {tree[i] : i \in {i \in DOMAIN tree : \A o \in other : i < o}}

includesOf(f) == {e \in prologue(f) : Element(e) = "include"}
filesOf(ns) == {f \in DOMAIN files : files[f].targetNs = ns}

(* A mutant of resolveIncludeImportReferences: no tree table is looked for. *)
referencesUnchecked == UNCHANGED err

resolveIncludeImportReferences ==
  err' = IF \A f \in DOMAIN files :
              /\ \A e \in prologue(f) :
                   Element(e) = "import" => filesOf(NamespaceOf(e)) \ {f} # {}
              /\ includesOf(f) # {} =>
                   Cardinality(filesOf(files[f].targetNs) \ {f}) >= Cardinality(includesOf(f))
         THEN err ELSE "EXIP_INVALID_EXIP_CONFIGURATION"

(***************************************************************************)
(* The names of a namespace, and then the namespaces, are sorted; those of *)
(* the initial string tables stay in front.                                *)
(***************************************************************************)
sortedBehind(s, n, Less(_, _)) == SubSeq(s, 1, n) \o sortedBy(SubSeq(s, n + 1, Len(s)), Less)

sortUriTable(table) ==
  LET names == [u \in DOMAIN table |->
        [table[u] EXCEPT !.ln = sortedBehind(@, initialEntries(u - 1),
           LAMBDA x, y : stringCompareLess(x.lnStr, y.lnStr))]]
  IN sortedBehind(names, initialUris, LAMBDA x, y : stringCompareLess(x.uri, y.uri))

(* The id of a namespace before the sort is of no use after it.             *)
sortStringTables ==
  /\ uriTable' = sortUriTable(uriTable)
  /\ IF \A f \in DOMAIN files : hasUri(uriTable, files[f].targetNs)
     THEN /\ files' = [f \in DOMAIN files |->
               [files[f] EXCEPT !.targetNsId = lookupUri(uriTable', files[f].targetNs)]]
          /\ UNCHANGED err
     ELSE err' = "EXIP_UNEXPECTED_ERROR" /\ UNCHANGED files

(***************************************************************************)
(* The qualified name that a literal of tree table f stands for.  Bad is   *)
(* the answer EXIP_INVALID_EXI_INPUT.                                      *)
(***************************************************************************)
Bad == QNameID(URI_MAX, 0)

checkForImportWithNs(f, ns) ==
  \E e \in prologue(f) : Element(e) = "import" /\ NamespaceOf(e) = ns

namespaceOfPrefix(f, pfx) ==
  LET table == files[f].pfxNsTable
      i == SelectInSeq(table, LAMBDA x : x.pfx = pfx)
  IN IF i # 0 THEN table[i].ns ELSE IF pfx = "xml" THEN XML_NAMESPACE ELSE ""

prefixKnown(f, pfx) ==
  pfx \in {"", "xml"} \cup {files[f].pfxNsTable[i].pfx : i \in DOMAIN files[f].pfxNsTable}

getTypeQName(f, literal) ==
  LET ns == namespaceOfPrefix(f, literal[1])
      uriId == lookupUri(uriTable, ns)
  IN IF /\ prefixKnown(f, literal[1]) /\ hasUri(uriTable, ns) /\ hasLn(uriTable, uriId, literal[2])
        /\ \/ ns \in {XML_SCHEMA_NAMESPACE, XML_SCHEMA_INSTANCE}
           \/ files[f].targetNsId = uriId
           \/ checkForImportWithNs(f, ns)
     THEN QNameID(uriId, lookupLn(uriTable, uriId, literal[2]))
     ELSE Bad

lnStrOf(q) == At(At(uriTable, q.uriId).ln, q.lnId).lnStr

(***************************************************************************)
(* The entry that a literal of entry e refers to: 0 for a type that is not *)
(* defined by a document, Missing when that is an error.                   *)
(***************************************************************************)
Missing == -1

lookupGlobalDefinition(e, literal, isType) ==
  LET q == getTypeQName(entries[e].treeT, literal)
      key == <<IF isType THEN "typeTbl" ELSE GlobalKinds[Element(e)], lnStrOf(q)>>
      defining == {f \in DOMAIN files : files[f].targetNsId = q.uriId /\ key \in DOMAIN files[f].tables}
  IN CASE q = Bad -> Missing
       [] q # Bad /\ defining # {} ->
            files[CHOOSE f \in defining : \A g \in defining : f <= g].tables[key]
       [] OTHER -> IF isType /\ q.uriId \in 1 .. 3 THEN 0 ELSE Missing

(* The literals that make e point to a definition: its child or supertype.  *)
childLiteral(e) ==
  IF Element(e) \notin {"element", "attribute", "group", "attributeGroup"} THEN <<>>
  ELSE IF Has(e, "type") THEN Value(e, "type")
  ELSE IF Has(e, "ref") THEN Value(e, "ref") ELSE <<>>

supertypeLiteral(e) ==
  CASE Element(e) \in {"extension", "restriction"} /\ Has(e, "base") -> Value(e, "base")
    [] Element(e) = "list" /\ Has(e, "itemType") -> Value(e, "itemType")
    [] OTHER -> <<>>

(* Neither type nor ref may stand beside a definition of the entry's own.   *)
childOf(e) ==
  CASE childLiteral(e) = <<>> -> Child(e)
    [] childLiteral(e) # <<>> /\ Child(e) # 0 -> Missing
    [] OTHER -> lookupGlobalDefinition(e, childLiteral(e), Has(e, "type"))

supertypeOf(e) ==
  IF supertypeLiteral(e) = <<>> THEN 0 ELSE lookupGlobalDefinition(e, supertypeLiteral(e), TRUE)

(* The entries of a global definition follow it up to the next one.         *)
ownedBy(g) ==
  LET globals == UNION {{files[f].tree[i] : i \in DOMAIN files[f].tree} : f \in DOMAIN files}
  IN {e \in g .. Len(entries) : \A h \in globals : h <= g \/ e < h}

(* A substitute is listed under its head, in the order of the documents.    *)
addSubstitute(e) ==
  LET q == getTypeQName(entries[e].treeT, Value(e, "substitutionGroup"))
      s == SelectInSeq(subsTbl, LAMBDA h : h.headId = q)
  IN IF s = 0 THEN Append(subsTbl, [headId |-> q, substitutes |-> <<e>>])
     ELSE [subsTbl EXCEPT ![s].substitutes = Append(@, e)]

(* One error code stands for the two that the code chooses from.            *)
resolveTypeHierarchy(g) ==
  LET substitutes == Element(g) = "element" /\ Has(g, "substitutionGroup")
      links == {Missing} \cap ({childOf(e) : e \in ownedBy(g)} \cup {supertypeOf(e) : e \in ownedBy(g)}
                 \cup (IF substitutes
                       THEN {lookupGlobalDefinition(g, Value(g, "substitutionGroup"), FALSE)} ELSE {}))
  IN IF links # {} THEN err' = "EXIP_UNEXPECTED_ERROR" /\ UNCHANGED <<entries, subsTbl>>
     ELSE /\ entries' = [e \in DOMAIN entries |->
               IF e \in ownedBy(g)
               THEN [entries[e] EXCEPT !.child = childOf(e), !.supertype = supertypeOf(e)]
               ELSE entries[e]]
          /\ subsTbl' = IF substitutes THEN addSubstitute(g) ELSE subsTbl
          /\ UNCHANGED err
=============================================================================
