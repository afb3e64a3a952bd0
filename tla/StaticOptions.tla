---------------------------- MODULE StaticOptions ----------------------------
(***************************************************************************)
(* staticEXIOptions.c: the grammars of the EXI options document, by which  *)
(* every header with options is read and written.  The file is a table     *)
(* that the generator once wrote from EXIOptions.xsd; here the table is    *)
(* copied down, ops_rule_<i> being ops_rules[i], without the generator.    *)
(***************************************************************************)
EXTENDS InitSchema

OPS_URI == "http://www.w3.org/2009/exi"
OPS_URI_ID == 4

opsEnd == <<EEProduction>>
opsAny(nonTerm) == Production(EVENT_SE_ALL, INDEX_MAX, VoidQName, nonTerm)
opsSE(lnId, grammar, nonTerm) ==
  Production(EVENT_SE_QNAME, grammar, QNameID(OPS_URI_ID, lnId), nonTerm)
opsSimple(typeId) == << <<Production(EVENT_CH, typeId, VoidQName, 1)>>, opsEnd >>

(* Rule r of a sequence of optional elements: its first productions.        *)
Shrinking(rule) == [r \in 1 .. Len(rule) |-> SubSeq(rule, 1, Len(rule) + 1 - r)]

ops_rule_12 ==
  LET content == <<Production(EVENT_CH, INDEX_MAX, VoidQName, 1), EEProduction, opsAny(1)>>
  IN <<Append(content, Production(EVENT_AT_ALL, INDEX_MAX, VoidQName, 0)), content>>

ops_rule_0_to_11 == [i \in 1 .. 12 |-> opsSimple(i - 1)]
ops_rule_13_to_45 == [i \in 1 .. 33 |-> opsSimple(i + 12)]

ops_rule_46_to_50 == <<
  <<opsEnd>>,
  << <<opsSE(28, 46, 2), opsSE(4, 46, 1)>>, opsEnd, opsEnd >>,
  opsSimple(46),
  opsSimple(47),
  << <<opsAny(1)>>, <<opsAny(2)>>, opsEnd >> >>

ops_rule_51 ==
  LET fixed == Shrinking(<<EEProduction, opsSE(8, 50, 6), opsSE(38, 49, 5), opsSE(37, 48, 4),
                           opsSE(32, 46, 3)>>)
      wild == <<EEProduction, opsAny(1), opsSE(8, 50, 6), opsSE(38, 49, 5), opsSE(37, 48, 4),
                opsSE(32, 46, 3), opsSE(0, 47, 2)>>
  IN <<wild, wild>> \o SubSeq(fixed, 1, 4) \o <<fixed[4]>>

ops_rule_52 ==
  Shrinking(<<EEProduction, opsSE(27, 46, 5), opsSE(5, 46, 4), opsSE(26, 46, 3),
              opsSE(29, 46, 2), opsSE(13, 46, 1)>>)

ops_rule_53_to_57 == <<
  opsSimple(48),
  Shrinking(<<EEProduction, opsSE(2, 53, 3), opsSE(30, 52, 2), opsSE(36, 51, 1)>>),
  opsSimple(49),
  Shrinking(<<EEProduction, opsSE(31, 55, 3), opsSE(14, 46, 2), opsSE(7, 46, 1)>>),
  Shrinking(<<EEProduction, opsSE(33, 46, 3), opsSE(6, 56, 2), opsSE(25, 54, 1)>>) >>

ops_rule_58_to_74 == [i \in 1 .. 17 |-> opsSimple(49 + i)]

ops_rules ==
  ops_rule_0_to_11 \o <<ops_rule_12>> \o ops_rule_13_to_45 \o ops_rule_46_to_50 \o <<ops_rule_51, ops_rule_52>>
    \o ops_rule_53_to_57 \o ops_rule_58_to_74

(* The properties beside the rules: which built-in types have subtypes, and *)
(* the one grammar of a nillable element.                                   *)
opsWithSubtypes == {1, 3, 5, 6, 9, 11, 12, 14, 15, 17, 18, 19, 20, 22, 23, 24, 25, 26, 27, 28,
                    29, 30, 32, 34, 35, 36, 38, 39, 40, 41, 43, 44, 45}

ops_grammarTable ==
  [i \in 1 .. Len(ops_rules) |->
     [rule |-> ops_rules[i], contentIndex |-> IF i - 1 = 12 THEN 1 ELSE 0,
      nillable |-> i - 1 = 55, content2 |-> i - 1 \in 46 .. 74,
      namedSubTypeOrUnion |-> i - 1 \in opsWithSubtypes]]

opsLocalName == <<
  "alignment", "base64Binary", "blockSize", "boolean", "byte", "comments", "common",
  "compression", "datatypeRepresentationMap", "date", "dateTime", "decimal", "double", "dtd",
  "fragment", "gDay", "gMonth", "gMonthDay", "gYear", "gYearMonth", "header", "hexBinary",
  "ieeeBinary32", "ieeeBinary64", "integer", "lesscommon", "lexicalValues", "pis",
  "pre-compress", "prefixes", "preserve", "schemaId", "selfContained", "strict", "string",
  "time", "uncommon", "valueMaxLength", "valuePartitionCapacity">>

opsTypeGrammar ==
  [base64Binary |-> 58, hexBinary |-> 59, boolean |-> 60, decimal |-> 61, double |-> 62,
   integer |-> 63, string |-> 64, dateTime |-> 65, date |-> 66, time |-> 67,
   gYearMonth |-> 68, gMonthDay |-> 69, gYear |-> 70, gMonth |-> 71, gDay |-> 72,
   ieeeBinary32 |-> 73, ieeeBinary64 |-> 74]

ops_LnEntry_4 ==
  [i \in 1 .. Len(opsLocalName) |->
     [lnStr |-> opsLocalName[i],
      elemGrammar |-> IF opsLocalName[i] = "header" THEN 57 ELSE INDEX_MAX,
      typeGrammar |-> IF opsLocalName[i] \in DOMAIN opsTypeGrammar
                      THEN opsTypeGrammar[opsLocalName[i]] ELSE INDEX_MAX]]

opsNames(names) ==
  [i \in DOMAIN names |-> [lnStr |-> names[i], elemGrammar |-> INDEX_MAX, typeGrammar |-> INDEX_MAX]]

ops_LnEntry_1 == opsNames(<<"base", "id", "lang", "space">>)
ops_LnEntry_2 == opsNames(<<"nil", "type">>)

opsTypeName == <<
  "ENTITIES", "ENTITY", "ID", "IDREF", "IDREFS", "NCName", "NMTOKEN", "NMTOKENS",
  "NOTATION", "Name", "QName", "anySimpleType", "anyType", "anyURI", "base64Binary",
  "boolean", "byte", "date", "dateTime", "decimal", "double", "duration", "float",
  "gDay", "gMonth", "gMonthDay", "gYear", "gYearMonth", "hexBinary", "int",
  "integer", "language", "long", "negativeInteger", "nonNegativeInteger",
  "nonPositiveInteger", "normalizedString", "positiveInteger", "short", "string",
  "time", "token", "unsignedByte", "unsignedInt", "unsignedLong", "unsignedShort">>
ops_LnEntry_3 ==
  [i \in DOMAIN opsTypeName |-> [opsNames(opsTypeName)[i] EXCEPT !.typeGrammar = i - 1]]

ops_uriEntry == <<
  [uri |-> "", ln |-> <<>>],
  [uri |-> "http://www.w3.org/XML/1998/namespace", ln |-> ops_LnEntry_1],
  [uri |-> "http://www.w3.org/2001/XMLSchema-instance", ln |-> ops_LnEntry_2],
  [uri |-> "http://www.w3.org/2001/XMLSchema", ln |-> ops_LnEntry_3],
  [uri |-> OPS_URI, ln |-> ops_LnEntry_4]>>

ops_docGrammarRule == <<opsAny(1), opsSE(20, 57, 1)>>

(* The types the schema adds to the built-in ones.                          *)
ops_simpleTypes == <<
  AtLeast(0), AtLeast(0), AtLeast(1), Plain("STRING"), Plain("BINARY"), Plain("BINARY"),
  Plain("BOOLEAN"), Plain("DECIMAL"), Plain("FLOAT"), Plain("INTEGER"), Plain("STRING"),
  Plain("DATE_TIME"), Plain("DATE"), Plain("TIME"), Plain("DATE"), Plain("MONTH"),
  Plain("YEAR"), Plain("MONTH"), Plain("MONTH"), Plain("FLOAT"), Plain("FLOAT")>>
=============================================================================
