# Formal models of EXIP

EXIP is an embeddable processor for Efficient XML Interchange (EXI) in C. A
serializer turns calls of an API (`startElement`, `attribute`, `stringData`, ...)
into a bit stream, a parser turns the bit stream into calls of a content handler.
Neither side ever talks to the other except through the stream: each derives the
meaning of the next bits from tables it has filled while it worked on the bits
before. This project is about those tables, the buffers under them and the
schema object that several streams share.

There are no threads. What makes the code hard is that *two processes evolve
state independently and have to stay equal*, one behind the other by an
arbitrary distance; that buffers end anywhere; that events are retried; and that
objects outlive the streams that have changed them.

Everything refers to the reference build (`build/gcc/pc/exipConfig.h`): hash
table, value cross tables and built-in grammars compiled in, assertions on,
EXI Profile off.

## The parts of the system

| Part | Source | State | Operations | Hard about it | Correct when |
|---|---|---|---|---|---|
| Value partitions | `stringTables/src/sTables.c` | `ValueTable` (entries, `count`, `globalId`), a `VxTable` per qualified name, the hash table | `addValueEntry`, `lookupVx`, `lookupValue` | wrap-around at `valuePartitionCapacity`: three structures forget one string and learn another | they agree with each other; eviction is first in first out; a local identifier never changes its meaning |
| Name partitions | `sTables.c`, `bodyEncode.c`, `bodyDecode.c` | `UriTable`, `LnTable`s, `PfxTable`s | `lookupUri/Ln/Pfx`, `addUri/Ln/PfxEntry`, `encodeQName`, `decodeQName` | identifier widths depend on the table sizes of each side | both sides hold the same names in the same order |
| Built-in grammars | `grammar/src/grammars.c`, `bodyEncode.c`, `bodyDecode.c` | rules with learned productions, the grammar stack | `createBuiltInElementGrammar`, `insertZeroProduction`, `pushGrammar`, `popGrammar` | a production learned at the front renumbers all others | every event code means the same to both sides |
| Serializer API | `contentIO/src/EXISerializer.c` | `EXIStream` (context, stack, options) | one function per event, `closeEXIStream`, `flushEXIData` | errors after a part of the event was written | what is serialized is parsed |
| Parser | `contentIO/src/EXIParser.c`, `bodyDecode.c` | the same | `parseNext`, `pushEXIData`, `destroyParser` | an event that is not there completely | every event once, in order |
| Bit stream | `streamIO/src/*.c` | a byte buffer with a bit position on each side | `writeNBits`, `readBits`, flush and refill | integers across byte and buffer boundaries | no bit lost, repeated or added |
| Shared schema | `memManagement.c`, `dynamicArray.c` | `EXIPSchema`: names, grammars, cross tables | `addDynEntry`, `freeAllMem` | outlives its streams; pointers into an array that moves | a stream finds it as the first one did |
| Hash table | `common/src/hashtable.c` | chained buckets, their number, `loadlimit` | insert, search, remove, expand | growth in the middle of an insertion, the largest size, exhausted memory | a map of the live strings |
| Typed values | `streamEncode.c`, `streamDecode.c`, the data functions of the serializer | none | boolean, integer, decimal, float, date-time, binary, string | limits of 64 bits, zeros in front of a fraction, the two alignments | what is written is read field by field and is the same value |
| Schema-informed grammars | `grammars.c`, `bodyEncode.c`, `bodyDecode.c` | `EXIPSchema.grammarTable`, `isNilType` | undeclared productions, `xsi:type`, `xsi:nil` | three-part codes whose widths depend on options | as for built-in grammars |
| Header | `headerEncode.c`, `headerDecode.c`, `staticEXIOptions.c` | `EXIheader`, `EXIOptions` | `encodeHeader`, `decodeHeader`, `initStream`, `setSchema` | the serializer computes event codes from formulas, the parser reads them by a grammar; absent options mean defaults | both sides agree on the options and on the schema |
| Grammar generation | `grammarGen/src/*.c` | tree tables, proto-grammars, the schema under construction | parse the documents, resolve, concatenate, close loops, normalise, sort | types met while they are built, cycles of rules that are extended later, definitions in any order and in several files | the grammar of a type accepts the valid contents of the type; what is not supported is refused |
| Initial schema | `contentIO/src/initSchemaInstance.c`, `sTables.c` | names, simple types and grammars of the built-in types | `initSchema` | indices of names, types and grammars coincide | what the generator and the codecs start from |
| Static options | `contentIO/src/staticEXIOptions.c` | generated tables for the options document | none | generated once, then kept by hand | what the generator would make of `EXIOptions.xsd` |

They interact through calls within one side and through the bit stream between
the sides. `stringData` calls `encodeProduction` (grammars), then
`encodeStringData` (value partitions), which calls `encodeUnsignedInteger` and
`writeNBits` (bit stream); `parseNext` runs the same chain in the other
direction and ends in a callback. The schema object is reached from both ends
and from one stream after the other.

## Modules

| Module | Models | State and actions in terms of the code |
|---|---|---|
| `ValueTable` | value partitions of one stream | `value`, `count`, `globalId` are the fields of `ValueTable`; `vx[q]`, `vxCount[q]` the cross table of name `q`; `hash` the content of the hash table. `AddValueEntry` is `addValueEntry` in one step; `AddOnMiss` and `KeepOnHit` are the two ways in which `encodeStringData` uses it |
| `RecentValues` | abstract: the last `Capacity` strings | what `ValueTable` implements under `window <- Window` |
| `..._proofs` | theorems about the module they are named after | see "What is proved" |
| `IoUtil` | `getBitsNumber`, `log2INT` | pure operators |
| `EventPipe` | abstract: a first-in first-out pipe | what every serializer with its parser implements |
| `ValueCodec` | `encodeStringData`, `decodeStringValue` | two instances of `ValueTable` (only the serializer's has a hash table) and the values in the stream between them |
| `NameTables` | URI, local name and prefix partitions | operators on one side's record `s`: a function of the code is an operator from the stream's state to its next state |
| `BuiltInGrammars` | learning grammars and event codes | operators, as above |
| `BodyCodec` | schema-less bodies from API call to callback | records `enc` and `dec` are the two `EXIStream`s; an action for each function of the serializer and `parseNext`; composes `NameTables` and `BuiltInGrammars` |
| `BitStream` | buffers and the byte stream | `buf`/`bufferIndx`/`bitPointer` on one side, `rbuf`/`rContent`/`rIndx`/`rBit` on the other; a bit is its serial number, so that a misplaced bit shows whatever the values are |
| `SharedSchema` | one schema, one stream after the other | the tables of `EXIPSchema`, `grammarTable` as a memory block that may move, the stack as pointers into it. `startElement` is SE(*) and built-in grammars, where the name leads to the grammar, `startDeclaredElement` the productions of the schema; `made`, `left` and `room` are history variables |
| `PushParser` | push interface | the parser's buffer of bytes, the bytes on their way, and what the current event has already done to the application |
| `SchemaCodec` | bodies under a schema | as `BodyCodec`, with grammars that do not change: `encodeProduction` gives a record of the code's parts and the production hit, `processNextProduction` reads it by the rule and by `strictProdDecode` or `stateMachineProdDecode`; `value` collects the items of an attribute's list |
| `ChainedHashTable` | `hashtable.c` | operators on a record `h` with the fields of `struct hashtable`; a chain is a sequence of entries |
| `HashedValueTable` | the value partitions with the hash table itself | `ValueTable` and `hashTbl`, changed by the calls `addValueEntry` makes |
| `TypedValues` | the codecs of typed values | `encode...` gives the fields a function writes, `decode...` the value and what is left of them |
| `TypedCodec` | the data functions of the serializer, `decodeValueItem` | an action per function; `fields` is what it has written |
| `InitSchema` | initial tables and built-in types | constant tables, in the order the code builds them |
| `ProtoGrammars` | `genUtils.c`, `protoGrammars.c` | operators on sequences of rules: concatenation, choice, repetition, the resolution of collisions |
| `TreeTables` | `treeTableBuild.c`, `treeTableManipulate.c` | `ttpd`, `files` and `entries` are the parser's data, the tree tables and the pool of their entries; an action for every callback of the content handler |
| `SchemaToGrammars` | `treeTableToGrammars.c` | operators on the build context, function by function |
| `GrammarGenerator` | `grammarGenerator.c` | `phase` is the place in `generateSchemaInformedGrammars`; one action per document, event, entry resolved and entry converted |
| `StaticOptions` | `staticEXIOptions.c` | its tables of rules, names and types |
| `ContentModels` | reference: XML Schema | the valid words of a type up to a length, read from the documents without grammars |
| `GrammarLanguages` | properties of the generator | words of the generated grammars against `ContentModels` |
| `HeaderOptions` | header, options document, choice of the schema | `ser` and `par` are the two sides with the next call of the application in `next`; `encodeHeader` takes `serializeOptionsStream`'s calls through the grammar `Rule` (`ops_schema`), `decodeHeader` reads the fields by the same grammar |
| `MC...` | instances for TLC | values of constants, and in `MCValueTable`, `MCBodyCodec` and `MCSchemaCodec` a bound on a counter |

Mutants, that is variants of a definition with a plausible mistake, stand before
the definition they vary. They are in no specification; they serve to see that a
property fails when the code is wrong.

## Runs

| Run | Configuration | Question | Bounds, and why they are enough |
|---|---|---|---|
| `value_table` | `MCValueTable.cfg` | Do the three structures stay consistent through eviction, are they a window of recent values, and does the chained table always find what it should? | 5 strings for 3 slots: more than one full wrap-around; 2 names, so an evicted string belongs to the same and to another name; 5 local identifiers per name, because cross tables never shrink; a hash table of 2 chains that grows to 3 and then is at its maximum with more entries than its load limit, two strings with one hash, and at each growth the memory for the new table may be missing (20 587 states) |
| `value_codec` | `MCValueCodec.cfg` | Does the parser follow without looking up? | 3 strings for 2 slots, one too long to be stored, one empty; the parser up to 2 values behind |
| `body_codec` | `MCBodyCodec.cfg` | Do names, learned grammars and codes stay in step? | documents of 5 items and depth 3, enough to learn an element, an attribute and characters and use each again in a later instance; three sets of options give second-level codes with and without each optional production |
| `bit_stream` | `MCBitStream.cfg` | Is every integer read as it was written, with and without a stream? | 4-byte buffers, integers of 10 and 18 bits and single bits, 48 bits in all: every alignment, several flushes, writes past the end of a buffer without a stream; 18 bits over 4 bytes are too much for a parser that has 3 of them unread |
| `shared_schema` | `MCSharedSchema.cfg` | What does a stream leave in the schema, and how long are open elements processed by their grammars? | 2 global elements of one type, 2 other names of the schema, one new name, depth 3, no room for other grammars: up to 2 built-in grammars of a first stream are left behind and followed by a second one, their places in the table used again for other names, and the table moves under open elements in each (3 480 688 states); any number of streams |
| `push_parser` | `MCPushParser.cfg` | Is restoring the context enough? | buffer of one large event, chunks of any size, 4 events ahead |
| `push_retry` | `MCPushRetry.cfg` | Violated, see below | |
| `header_options` | `MCHeaderOptions.cfg` | Does the parser read every header the serializer can write, with the same options and schema as a result? | every consistent set of flags with absent and present lengths and identifiers; for fewer options every presence bit, out-of-band options equal and different, with and without schema; `UIntRange` 8 with a length of 9, so that the cast matters; inconsistent options. `MaxOptionEvents` (60) bounds the parser's loop: no options document has more than 45 events, which `OptionsReadBack` proves (74 888 states) |
| `schema_codec` | `MCSchemaCodec.cfg` | Do the codes of static grammars, with all deviations from them, stay in step? | a schema with optional elements, nillable elements, attributes, a type with a subtype, an enumeration, a bounded integer and a list; strict and three sets of options; 4 events besides the ends, depth 3, the parser up to 2 events behind (95 710 states): enough to leave a declared content by each deviation and to come back to it |
| `typed_values` | `MCTypedCodec.cfg` | Is every typed value read as it was written? | all integers of 10 bits, all decimals of a set of mantissas with exponents -3..3, all fractions of up to 3 digits, dates and zones at both ends of their ranges, chars with and without the sign bit, up to 3 of them; both alignments, 16 simple types (68 898 states). 10 bits stand for 64 because both have room for every number of one digit less than their largest, whatever the order of its digits; one value per behaviour, as the codecs keep nothing |
| `grammar_gen` | `MCGrammarGen.cfg` | Does the grammar of each type accept exactly the valid contents? Is what is not supported refused? Are the shipped option tables the generator's? | 793 schemas: particles nested twice with six ranges of occurrence, attributes from five places with uses and wildcards, restricted integers around the limit of 4096, types derived from types, recursion, substitution groups, groups, mixed content, imports and includes in both orders, `EXIOptions.xsd`, and 13 that are refused; words of up to 5 symbols, more than one round of any loop (42 211 states) |
| `dummy_grammar` | `MCDummyGrammar.cfg` | Violated, see below | one schema |

`CHECK_DEADLOCK FALSE` stands where a document ends: after `endDocument`,
`closeEXIStream` or an error nothing more happens.

### Fairness

`WF(decodeStringValue)`, `ParserFairness` in `BodyCodec`, `WF(Read)` and
`WF(parseNext)` are the loop `while(tmp_err_code == EXIP_OK) tmp_err_code =
parseNext(...)` that every application and test of the repository runs.
`WF(closeEXIStream)` says that the application closes a stream it has opened; no
fairness is assumed for the events before. `WF(Push)` says that the application
goes on to push while there are bytes that the parser has not got, as
`pushEXIData`'s description asks. The serializer is never obliged to produce
another event.

## What the violated runs show

* `push_retry`: a retried event makes callbacks and adds values
  again, in the mode that `EXIParser.h:103` calls safe.
* `dummy_grammar`: an anonymous type inside a base type is met twice, once when
  the base is built and once when an extension repeats its content. The second
  time it is taken for a recursive definition and gets an empty grammar "that will
  be replaced by the real one later" (`treeTableToGrammars.c:1112`). Nothing
  replaces it.

## Where the passing runs stop

Each of these is behaviour of the code that a property would not survive. The
passing runs leave out exactly the situation named, and show that nothing else
goes wrong; `shared_schema` includes the two of `SharedSchema`, and its properties
say what is wrong then and what is not.

Bodies:

* Without a schema, the value of an `xsi:nil` attribute makes the parser fail an
  assertion (`bodyDecode.c:1219`).
* `freeAllMem` leaves the index of a freed built-in grammar with a name of the
  schema that is no global element (`memManagement.c:80`), and the next stream
  follows it to a freed grammar or to another element's, although a schema "can be
  used to process multiple EXI streams" (`doc/user/Schema-information.tex:9`). The
  runs of `SharedSchema` do this; `ElemGrammarValid` says to which names it happens
  (`left`) and that for these the index is never right again.
* Open elements keep pointers into `grammarTable` across its reallocation
  (`EXISerializer.c:294`, `bodyDecode.c:1326`). A table built in memory starts with
  `DEFAULT_GRAMMAR_TABLE` entries (300, and 40 on contiki); one generated as C
  source has the spare entries the generator was asked for
  (`createGrammars.c:101`), which may be none, and is not even memory that could be
  reallocated. The table of `SharedSchema` has no room and is moved;
  `OpenElementsHaveGrammars` says until when the pointers are good.
* In a nil element whose attribute rules also have content productions the parser
  counts from the number of attributes (`production[prodCount-1-val]`), the
  serializer from the end of the rule (`bodyEncode.c:183`); the parser then fails
  `assert(isNilType == FALSE)`. In the built-in type anyType the number of
  attributes is never set, so that an attribute after `xsi:nil="true"` is read as
  the end of the element. `SchemaCodec` gives `xsi:nil="true"` to elements whose
  attribute rules hold nothing else (`OnlyAttributes`).
* In a strict document the production for `xsi:nil` has no type: `booleanData` is
  refused, as it would have to convert the value, `stringData` is accepted, and
  the parser reads a boolean. After `xsi:nil="true"` the code of a strict
  `xsi:type` has too few bits.
* `EXISerializer.c:460` compares the identifier of a namespace with those of local
  names; AT(*) is therefore not refused for `xsi:type` and `xsi:nil`.
* `AT(xsi:type)` with a type that has no grammar leaves the parser's non-terminal
  at its initial value, which ends the element (`bodyDecode.c:618`).
* `attribute` reports the type of `xsi:type` as a string; a string is accepted as
  its value, and is not readable.
* A list in the content of an element reads an uninitialised `typeId`
  (`EXISerializer.c:921`), and its items are stored under the last attribute
  (`EXISerializer.c:612`).
* Values of a type other than string are not converted where a string is expected:
  the conversions (`ASCII_stringManipulate.c:243`) are stubs, although
  `EXIP_IMPLICIT_DATA_TYPE_CONVERSION` is on. The call fails after the event code was
  written.

Header:

* `headerEncode.c:384` compares the length of the schema identifier with
  `SCHEMA_ID_NIL`, not its mode. A nil identifier is written as an empty one, and
  the parser uses the built-in types for a body that was encoded without schema,
  against `procTypes.h:98`. An identifier of two characters is refused for the same
  reason. `Writable` leaves both out.
* Lengths and capacities are cast to `unsigned int` while `Index` is as wide as
  `size_t` (`headerDecode.c:379`): larger ones differ on the two sides. `Fits` leaves
  them out.
* A version above 30 is written with two nibbles where three are needed.

Values:

* With bytes aligned, the sign of an integer is written as one bit
  (`streamEncode.c:156`) and read as a boolean, a whole byte: integers, floats and
  years are out of step (`WritesBareBit`).
* `decodeNBitUnsignedInteger` assembles bytes that are signed chars: a byte of 128 or
  more sets all bits above it (`SignExtended`). With bytes aligned the parser
  therefore gets bounded integers, months, times and time zones wrong
  (`Bytewise` names the types that arrive).
* The zeros between the digits of a fraction of a second are dropped
  (`streamDecode.c:312`): 0.105 s arrives as 0.015 s. `TypedValuesArrive` states the exception as it is. The
  fraction 0 arrives with the offset 255.
* A time zone above 955 is written as 955 and arrives as 59 minutes; the largest
  zone is coded as 1851.
* A decimal with exponent 0 counts as one digit for `totalDigits`, on both sides
  (`EXISerializer.c:852`).
* A binary value without bytes is read into `malloc(0)`, which may be `NULL`.

Generator (the schemas of `grammar_gen` avoid these):

* `genUtils.c:264` says that only equal definitions next to each other in a sequence
  collide; a repeated choice with a repeated branch does too, and ends in the
  assertion. One such schema is among the refused, the others (`collides`) are left
  out.
* Mixed content without elements allows no characters (`genUtils.c:314`); mixed
  content behind optional attributes allows them in the wrong rules
  (`genUtils.c:218`).
* An empty `choice` is read as if it had a branch; an empty `simpleType` follows a
  null pointer.
* A global element without a type is no root of a document, a local one sets the
  grammar of its name (`treeTableToGrammars.c:537`).
* Unqualified members of a substitution group are an unexpected error.
* `##local` and `##targetNamespace` are not recognised as the last of several
  namespaces; a namespace that only a wildcard names is in no string table.
* The two digits facets of a base and of its restriction are combined by OR
  (`treeTableToGrammars.c:1768`, `1775`).
* A type is nillable if the first element that uses it is.
* A simple content extending a complex type loses its attributes; the wildcard of
  a base replaces that of the derived type.
* `exipg` wrote 64-bit bounds of `staticEXIOptions.c` (2727-2797) as 32-bit ones;
  `StaticOptionsMatch` compares the types behind the built-in ones.

Buffers: `closeEXIStream` writes `bufferIndx + 1` bytes also when the document ends
on a byte boundary (`EXISerializer.c:1041`), one more than `endDocument` counts;
`writeNBits` reports the end of the buffer for an integer that would fill it
exactly (`streamWrite.c:54`), where its comment speaks of fewer bits than needed,
while `readNextBit` and `writeNextBit` do fill the last byte. `push_parser` has
only events without an early effect.

## What is proved

Each theorem holds for every value of the constants that satisfies the
assumption named in its module, and for every run of the specification, however
long. Where a theorem needs more, the hypothesis is part of its statement.

| Theorem | Module | Statement |
|---|---|---|
| `PartitionsConsistent` | `ValueTable_proofs` | types and all parts of the invariant of the value partitions |
| `NoDuplicateValues` | | no string has two global identifiers |
| `HashTableFollows` | | the hash table is exactly the live slots |
| `SlotsInOrder` | | a slot is used again only when the table is full |
| `LocalIdsAreLive` | | no assigned local identifier leads to a dead slot |
| `CrossLinked` | | global and local partitions point at each other |
| `LocalIdsArePermanent` | | a local identifier never moves or is assigned again |
| `RefinesRecentValues` | | the table implements `RecentValues` |
| `ChainsAlwaysHoldPairs` | `HashedValueTable_proofs` | the chains hold exactly those pairs, each where a search looks for it and once; `entrycount` is their number |
| `PartitionsAgree` | `ValueCodec_proofs` | a parser that has caught up has the serializer's partitions |
| `ParserStaysConsistent` | | wherever it is, it has stored no string twice |
| `ImplementsEventPipe` | | values arrive unchanged and in order (safety part of `DeliversEveryValue`) |
| `DecodingNames` | `BodyCodec_proofs` | from equal tables `decodeQName` reads what `encodeQName` wrote, and leaves equal tables |
| `SecondLevelCodes` | | both sides find the same width for a second-level code, and the code leads back to its event |
| `StreamLinked` | | the inductive invariant: serializer and parser are linked by the events in the stream |
| `SidesInStep` | | a parser that has caught up has the serializer's names, learned grammars and stack |
| `ProductionsLearnedOnce` | | no rule holds a production twice, on neither side |
| `NamesHaveOneIdentifier` | | no URI, local name or prefix is stored twice, on neither side |
| `LearnedElementsCanBeFollowed` | | learned names are known, learned and open elements have the grammar of their name |
| `ParserNeverFails` | | no event in the stream is an error to the parser, or finds it without a grammar |
| `CodecIsAPipe` | | events arrive unchanged and in order (safety part of `DeliversEveryEvent`) |
| `PositionsStayInside` | `BitStream_proofs` | no position leaves its buffer |
| `NoBitIsLost` | | flushing and refilling neither lose nor repeat nor move a bit |
| `IntegersAreReadBack` | | integers are read as they were written |
| `ElemGrammarsStayValid` | `SharedSchema_proofs` | no name leads to a freed grammar or to another element's, exactly but for local names left by an earlier stream |
| `StreamsRestoreTheSchema` | | after each stream the schema is as before the first, but for those names |
| `OpenElementsKeepTheirGrammars` | | every open element is processed by its own grammar until the stream has more grammars than there was room for |
| `ParserIsNeverStuck` | `PushParser_proofs` | there is always room to go on, and no byte in the middle of an event is taken for an event code |
| `NothingIsSkipped` | | what is not read yet are the bytes of the pending events |
| `RetriesImplementPipe` | | events arrive once, in order and with their effects (safety part of `DeliversOnce`) |
| `RetriesActOnce` | | no callback and no value is repeated |
| `OptionsReadBack` | `HeaderOptions_proofs` | what the serializer's formulas make of any options that can be expressed, the parser reads by the grammar as these options, and stops at their end |
| `HeaderInvariant` | | the inductive invariant: the header in the buffer can be read, and what was read is what was sent |
| `TypeCorrect` | | options read from a header are options |
| `HeadersAreWritten` | | the formulas stay inside the rules of `ops_schema` |
| `HeadersAreRead` | | the parser never loses step and stops where the body begins |
| `OptionsArrive` | | both sides hold the same options and header |
| `SchemasAgree` | | both sides settle on the same kind of schema |

How they are proved:

* **Value partitions.** The parts of the invariant need each other, which is why
  they are proved together: that a string is new is known from the hash table
  (`MissIsNew` needs `HashMirrorsTable`), the hash table stays exact only if strings
  are unique, and the identifier that eviction clears is the right one only because
  of the links in both directions. `SlotOrder` is the part no run would ask for:
  `globalId < count` means "a slot is reused" only as long as the table wraps when it
  is full and not before. One lemma, `AddEffect`, says what `addValueEntry` does to
  each part of the state; there is one lemma for each conjunct of the invariant. The
  refinement takes the k-th oldest value to be in the slot `AgeSlot(globalId, count, k)`
  and shows that an addition shifts these ages by one exactly when it evicts.
* **Hash table.** `HashedSpec` implements the specification of `ValueTable`, so the
  invariant above may be used. `Holds(h, H)` says that the table `h` holds the pairs
  `H`; each function of `hashtable.c` maps `Holds` to `Holds`. Growth is a recursive
  function in the model, one entry moved at a time (`MovedAfter`, `NewChain`). That
  the new chains are complete and hold nothing twice follows from the least number
  of moves after which an entry would be missing or repeated. `ChainsHoldPairs` holds for
  every hash function, every increasing sequence of primes and every maximal size.
* **Serializer and parser of values.** The invariant (`Lag`) puts a state of the
  partitions before the first value in the stream, between any two and behind the last.
  The first is the parser's, the last the serializer's, and each value leads from one
  to the next and means in the one before it what the serializer meant. The two sides
  are only ever compared through these states, so the proof does not depend on how
  far the parser is behind. `TablesAgree` alone says nothing while there is a value
  on its way.
* **Schema-less bodies.** The argument is that of the values, with names, grammars and
  the stack for state: each call of the serializer writes fields from which the parser,
  if it were where the serializer was, would get the same event and come to where the
  serializer now is (`Leads`); the events in the stream form a chain of such steps
  (`Chain`), the parser is at its beginning and the serializer at its end (`Linked`).
  The API makes the chain longer, `parseNext` takes off its first link. An attribute is
  one event of the parser but two calls of the application: between them the
  serializer has left the end of the chain with a part of the event written
  (`Pending`), and after an error nothing more is said of it than that its tables are
  in order. The first part of `BodyCodec_proofs` has what this rests on: that a URI, a local name, a
  prefix and an event code are read, from any tables, as what was written from the same
  tables, whatever follows in the stream. Two calculations which the code makes twice and
  differently are shown equal: the serializer looks the name up before it is written
  and predicts its identifier (`PredictedQNameID`), the parser finds it while it reads; and
  the serializer adds up the optional events in front of an event where the parser
  counts the bits of a mask (`SecondLevelCodes`). That a production is learned once
  needs the invariant too: nothing looks for it, it is learned only because the search of
  `encodeProduction` missed it, and the parser does the same only if it has the same rule.
  The theorems have two hypotheses. `TablesFit`: no table of names and no rule
  is as long as the largest index (`SIZE_MAX` in the code, which memory does not
  reach and no function tests for). `PlainNames`: no
  name is `xsi:nil` and no element is called `xsi:type`. Without a schema
  `decodeValueItem` decides by the name alone whether a value is a qualified name, and
  for characters this is the name of their element; an attribute or element called
  `xsi:nil` fails its assertion (the hazard at `bodyDecode.c:1219`). The instance of `body_codec` satisfies
  both hypotheses in all its states; its attributes include `xsi:type`.
* **Bit stream.** The invariant says where each bit is: a written bit is either in a
  full buffer that was flushed or behind it at the place its number gives; the parser
  has the bits from `FirstUnread` on, and the integers follow each other without gaps
  (`Tiled`).
* **Shared schema.** The theorems have no hypothesis about the schema but
  `SharedSchemaAssumption`: names that are no global elements, local elements and a
  table that moves whenever it grows are all included, and what the code does wrong
  with them is part of what is stated. The invariant `IInv` says what each entry of
  `grammarTable` is for: those of the schema are as they were built (`SchemaPart`),
  each one behind them was made by this stream for a name in `made` (`StreamPart`).
  That is why a name in `left`, whose index is one of the latter, never leads to a
  grammar of its own again, which the properties alone do not imply. A pointer is
  good while `count <= room`, because growth takes place only when the new grammar
  is one more than `arrayEntries`, which is never below `room`.
* **Push parser.** The invariant (`Laid`) gives every pending event the place where its
  bytes begin in what the parser has not read: an event that was given up on is found
  again at the place where it began. `RoomToMove` is what `parseNext` owes to
  `pushEXIData`: what it leaves when it gives up fills at most half of the buffer. `EffectsComeLast` (no production has an effect before its last byte
  is there) is the condition under which the comment of `EXIParser.h:103` is right;
  `push_retry` is a counterexample without it.

* **Header.** The options are sent as a document, so the proof goes through that
  document part by part. `Agree(t, o, calls, t2, o2, m)` says of a list of calls that
  there are fields which the serializer writes for them on its way from the grammar
  stack `t` to `t2`, and from which the parser, with the options `o` found so far, comes
  from `t` to `t2` within `m` events and has found `o2`. Agreement is kept when lists are
  put together (`AgreeOn`), and holds of a single call when the serializer's code is a
  place of the rule at its width (`Code`, `EventAgrees`). What is left is one lemma for each
  element: that each width and part computed from `ruleContext` is the code of the
  child after the children written before (`KidCodes`, `FiveKidCodes`), in all
  combinations of present and absent ones (`UncommonAgrees`, `PreserveAgrees`,
  `LesscommonAgrees`, `CommonAgrees`, `DocumentAgrees`). `Found(o, n)` are the options after
  the first `n` of fourteen contents; that they are the defaults at 0 and those sent at
  14 is why absent contents mean defaults on the other side. `NotWritten` is the converse:
  of options that cannot be expressed no complete header comes about.
  The inductive invariant `IInv` follows the next call of each side: from `encodeHeader` on
  there is a schema and the options are consistent, between `encodeHeader` and
  `decodeHeader` the buffer is a fixed part, fields that can be read back and padding,
  afterwards it is empty and the parser has what was sent. The properties alone are
  not inductive: what is read depends on the buffer, of which they say nothing.
  `SchemasAgree` also needs what `initStream` refuses: with a schema a mode
  `SCHEMA_ID_SET` whose identifier is empty, without a schema that mode altogether. Otherwise the
  parser would take an empty identifier for `SCHEMA_ID_EMPTY`.

The assumptions are those the code justifies: a capacity of at least 1 and at most
`INDEX_MAX` (the callers test for 0), a buffer that holds the largest integer
(`BitStream`) or event (`PushParser`) and half of what an unfinished one can be,
increasing primes of which one reaches the initial size, in `HeaderOptions` a version
of two nibbles and, after the comment of `procTypes.h`, an empty schema identifier where the
mode is absent or empty.

Only model-checked: bodies under a schema (`SchemaCodec`), the codecs of typed values
(`TypedCodec`), the generator, for the reasons given under "Plan", and everything about
liveness: `DeliversEveryValue`, `DeliversEveryEvent`, `EverythingIsRead` and `DeliversOnce`
rest on fairness, which is out of the proof system's reach. `EffectsUpTo` selects from
a sequence with `SelectSeq`, which has no definition there; `EffectsComeLast` therefore
states the type of what it selects. What `log2INT` computes for every argument is not
proved; the theorems need no more of it than that both sides use the same.

## Abstractions

* Strings are model values with a length; characters are looked at only in
  `TypedValues`. A hash is a constant function of the string.
* Bits of a value are not represented where only their number matters
  (`ValueCodec`, `BodyCodec` carry an identifier with the width it was written
  in, and a parser that expects another width reads garbage); `BitStream` shows
  that a sequence of integers with their widths survives the buffers.
* `PushParser` counts bytes: the alignment is `BYTE_ALIGNMENT`. Bytes are tagged
  with their event, so that a misaligned read is seen as such.
* A field of the header (`HeaderOptions`) carries its width in bits; an unsigned
  integer or a string is one field. `BodyCodec` assumes the options that
  `OptionsAgree` shows both sides to have.
* Allocation succeeds, but for the new chains of the hash table, which may be
  refused together with the growth in place that the code tries next. When that
  growth succeeds, it clears memory through a pointer that was not set
  (`hashtable.c:121`); what follows is undefined and not modelled. The other paths
  that return `EXIP_MEMORY_ALLOCATION_ERROR` are a hazard without a property.
* `SharedSchema`: an element is opened, gets values and is closed, without the events
  in between. Where the code follows a pointer to a freed grammar or into a block that
  was given back, anything may happen; the model goes on with what the code does to
  the tables, as if the memory still held what it did. What learning a production
  writes into such memory is not modelled.
* `SchemaCodec`: every namespace has one prefix and every name is in the tables;
  `BodyCodec` has the others. While an attribute lacks its value the application
  does nothing else, and it gives a nil element no content, types by `xsi:type`
  only such as have a grammar, and lists only to attributes of a list type.
  `attribute` is called with `isSchemaType` false for `xsi:type` and `xsi:nil`.
  Documents only, no fragments.
* `TypedValues`: negating the least integer, which C leaves undefined, wraps, as
  does other arithmetic; `Representable` says for which decimals and fractions
  nothing is lost. The application keeps the rule of `procTypes.h` that a fraction
  has no more digits than its offset plus one. A field is read out of step as soon
  as its width is not the written one.
* The generator: a schema document is the sequence of the parser's callbacks,
  qualified names are pairs, a facet's text is a number or a value; included
  documents are given to the handler in the order it asks for them, and there are
  fewer than `MAX_INCLUDE_COUNT` (50). The undefined
  behaviour of an access outside a table and the failure of an assertion are errors
  that end the generation.

## Plan

Written, in this order: the value partitions and their proofs, the value codec,
names and built-in grammars, the bit stream, the shared schema, the push parser,
the header; then the generator with the initial schema and the option tables,
bodies under a schema, the codecs of values and the hash table's chains.

What the theorems leave to the model checker:

1. `InStep` of `SchemaCodec`. The argument would be that of `BodyCodec_proofs`, with
   grammars that do not change but codes of three parts; it needs the conditions on a
   schema (that a type's facets, enumerations and grammars exist) as an assumption, and
   forms of `stateMask` and `decodeList` without `SelectSeq` and folds, which are
   defined by a recursion that the provers do not unfold for every length;
2. `FieldsInStep` and `TypedValuesArrive` of `TypedCodec`. How many septets an unsigned
   integer has rests on powers with a symbolic exponent, of which the provers know
   nothing, and what the septets or the digits of a decimal add up to is an induction
   over data, out of the proof system's reach;
3. the four properties of `GrammarLanguages`: `SchemaToGrammars` uses recursion over the
   nesting of types and `Bitwise`, and the words of a grammar are defined recursively.

Models that could still be added: allocation failures in `addValueEntry` and what
`freeAllMem` finds afterwards; `delDynEntry` and the blocks of the allocation list;
fragments; the list in an element's content, once what it does is defined.

## Not modelled, and why

* The EXI Profile (`EXI_PROFILE_DEFAULT`) is compiled out in the reference build.
* `staticXmlSchema.c` is generated data: the grammars by which the generator reads
  schema documents. `grammar_gen` starts behind that parser.
* `exipg`, `createGrammars.c` and the examples print what is in memory.
* String comparison, copying and formatting have no state.
