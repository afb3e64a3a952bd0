-------------------------- MODULE MCHeaderOptions --------------------------
EXTENDS HeaderOptions

VersionHeaders == {h \in Headers : h.version_number \in {1, 15, 16, 30}}

Plain == [has_cookie |-> FALSE, has_options |-> TRUE,
          is_preview_version |-> FALSE, version_number |-> 1]

Identifiers == {<<SCHEMA_ID_ABSENT, "">>, <<SCHEMA_ID_SET, "abc">>, <<SCHEMA_ID_EMPTY, "">>}

(* An empty identifier is refused, one of two characters taken for a nil.    *)
OddIdentifiers == {<<SCHEMA_ID_SET, "">>, <<SCHEMA_ID_SET, "ab">>, <<SCHEMA_ID_NIL, "">>}

OptionsOf(alignments, enumOpts, preserves, sizes, lengths, ids, drMaps) ==
  {[alignment |-> a, enumOpt |-> e, preserve |-> p, schemaIDMode |-> id[1],
    schemaID |-> id[2], drMap |-> d, blockSize |-> b, valueMaxLength |-> l,
    valuePartitionCapacity |-> c] :
     a \in alignments, e \in enumOpts, p \in preserves, b \in sizes,
     l \in lengths, c \in lengths, id \in ids, d \in drMaps}

Alignments == {"BIT_PACKED", "BYTE_ALIGNMENT", "PRE_COMPRESSION"}
EnumOpts == SUBSET {"compression", "strict", "fragment", "selfContained"}
Preserves == SUBSET {"dtd", "prefixes", "lexicalValues", "comments", "pis"}

(* Every consistent combination of options, in one header; and a few options *)
(* in every kind of header, with other options, or the same, known out of    *)
(* band.                                                                     *)
AllOptions ==
  {o \in OptionsOf(Alignments, EnumOpts, Preserves, {DefaultBlockSize, 7}, {0, INDEX_MAX},
                       Identifiers, {FALSE}) : Consistent(o)}

FewOptions ==
  OptionsOf({"BIT_PACKED", "BYTE_ALIGNMENT"}, {{}, {"strict"}, {"fragment"}}, {{}, {"pis"}},
            {DefaultBlockSize}, {9, INDEX_MAX}, Identifiers \cup OddIdentifiers, BOOLEAN)

OtherOptions == [makeDefaultOpts EXCEPT !.enumOpt = {"strict"}, !.valueMaxLength = 3]

Request(o, h, schema, outOfBand, known) ==
  [opts |-> o, header |-> h, schema |-> schema, outOfBand |-> outOfBand,
   outOfBandOpts |-> known]

MCInputs ==
  {Request(o, Plain, o.schemaIDMode = SCHEMA_ID_SET, FALSE, OtherOptions) : o \in AllOptions}
  \cup {Request(o, [Plain EXCEPT !.has_options = b], schema, outOfBand, known) :
          o \in FewOptions, b \in BOOLEAN, schema \in BOOLEAN, outOfBand \in BOOLEAN,
          known \in {OtherOptions}}
  \cup {Request(o, [Plain EXCEPT !.has_options = b], schema, TRUE, o) :
          o \in FewOptions, b \in BOOLEAN, schema \in BOOLEAN}
  \cup {Request(makeDefaultOpts, h, FALSE, TRUE, makeDefaultOpts) : h \in VersionHeaders}
=============================================================================
