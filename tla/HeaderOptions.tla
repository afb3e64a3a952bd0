--------------------------- MODULE HeaderOptions ---------------------------
(***************************************************************************)
(* The header of an EXI stream: src/contentIO/src/headerEncode.c and       *)
(* headerDecode.c, with the calls an application makes around them.  The   *)
(* options are an EXI document of its own, in the strict mode of the       *)
(* compiled-in grammar ops_schema.  The serializer does not search that    *)
(* grammar: it writes event codes and their widths from formulas over      *)
(* which options came before.  The parser reads them by the grammar.       *)
(***************************************************************************)
EXTENDS IoUtil, Sequences, FiniteSetsExt

CONSTANTS Inputs,      \* what an application may ask for: [opts, header,
                       \* schema, outOfBand, outOfBandOpts] records
          INDEX_MAX,   \* the value of an unbounded length or capacity
          UIntRange,   \* the number of values of an unsigned int
          DefaultBlockSize,
          MaxOptionEvents   \* bound: events of an options document

SCHEMA_ID_ABSENT == 0
SCHEMA_ID_SET == 1
SCHEMA_ID_NIL == 2
SCHEMA_ID_EMPTY == 3

Options ==
  [alignment : {"BIT_PACKED", "BYTE_ALIGNMENT", "PRE_COMPRESSION"},
   enumOpt : SUBSET {"compression", "strict", "fragment", "selfContained"},
   preserve : SUBSET {"dtd", "prefixes", "lexicalValues", "comments", "pis"},
   schemaIDMode : SCHEMA_ID_ABSENT..SCHEMA_ID_EMPTY, schemaID : STRING, drMap : BOOLEAN,
   blockSize : 0..UIntRange - 1, valueMaxLength : 0..INDEX_MAX,
   valuePartitionCapacity : 0..INDEX_MAX]

(* encodeHeader has two nibbles for the version.                            *)
Headers == [has_cookie : BOOLEAN, has_options : BOOLEAN, is_preview_version : BOOLEAN,
            version_number : 1..30]

(* procTypes.h: a schema identifier that is absent or empty is "".          *)
ASSUME HeaderAssumption ==
  /\ INDEX_MAX \in Nat /\ UIntRange \in Nat \ {0} /\ DefaultBlockSize \in 0..UIntRange - 1
  /\ MaxOptionEvents \in Nat /\ MaxOptionEvents >= 60
  /\ Inputs \subseteq [opts : Options, header : Headers, schema : BOOLEAN,
                       outOfBand : BOOLEAN, outOfBandOpts : Options]
  /\ \A i \in Inputs : i.opts.schemaIDMode \in {SCHEMA_ID_ABSENT, SCHEMA_ID_EMPTY} =>
                       i.opts.schemaID = ""

VARIABLES input,    \* what the application asked for
          ser,      \* the serializer: the next call, its schema, its error
          par,      \* the parser: also the header and options it has read
          buffer    \* the fields written and not yet read

vars == <<input, ser, par, buffer>>

Ok(x) == x.err = "EXIP_OK"
Failed(x, err) == IF Ok(x) THEN [x EXCEPT !.err = err] ELSE x

makeDefaultOpts ==
  [alignment |-> "BIT_PACKED", enumOpt |-> {}, preserve |-> {},
   schemaIDMode |-> SCHEMA_ID_ABSENT, schemaID |-> "", drMap |-> FALSE,
   blockSize |-> DefaultBlockSize, valueMaxLength |-> INDEX_MAX,
   valuePartitionCapacity |-> INDEX_MAX]

(* checkOptionValues.                                                       *)
Consistent(o) ==
  /\ "compression" \in o.enumOpt => o.alignment = "BIT_PACKED"
  /\ "strict" \in o.enumOpt => /\ o.preserve \subseteq {"lexicalValues"}
                               /\ "selfContained" \notin o.enumOpt
  /\ "selfContained" \in o.enumOpt => /\ "compression" \notin o.enumOpt
                                      /\ o.alignment # "PRE_COMPRESSION"

Init ==
  /\ input \in Inputs
  /\ ser = [next |-> "initStream", schema |-> "", err |-> "EXIP_OK"]
  /\ par = [next |-> "initParser", schema |-> "", err |-> "EXIP_OK",
            header |-> input.header, opts |-> makeDefaultOpts]
  /\ buffer = <<>>

-----------------------------------------------------------------------------
(* ops_schema: elements with a sequence of optional children, elements with *)
(* a value, and empty elements.  Rule(elem, k) is the rule of `elem` after  *)
(* k of its optional children have gone by, in the order of event codes.    *)

Prod(event, next) == [event |-> event, next |-> next]
EE == Prod("EE", 0)

Children(elem) ==
  CASE elem = "header" -> <<"lesscommon", "common", "strict">>
    [] elem = "lesscommon" -> <<"uncommon", "preserve", "blockSize">>
    [] elem = "uncommon" -> <<"alignment", "selfContained", "valueMaxLength",
                              "valuePartitionCapacity", "datatypeRepresentationMap">>
    [] elem = "preserve" -> <<"dtd", "prefixes", "lexicalValues", "comments", "pis">>
    [] elem = "common" -> <<"compression", "fragment", "schemaId">>
    [] OTHER -> <<>>

(* Any other element may precede the children of <uncommon>, and its last   *)
(* child may be repeated.                                                   *)
Optional(names, k) ==
  [i \in 1..Len(names) - k |-> Prod(names[k + i], k + i)]

Rule(elem, k) ==
  CASE elem = "document" -> IF k = 0 THEN <<Prod("header", 1), Prod("any", 0)>>
                                     ELSE <<Prod("ED", 0)>>
    [] elem = "uncommon" /\ k = 0 -> Optional(Children(elem), 0) \o <<Prod("any", 0), EE>>
    [] elem = "uncommon" /\ k = 5 -> Optional(Children(elem), 4) \o <<EE>>
    [] elem = "alignment" -> IF k = 0 THEN <<Prod("byte", 1), Prod("pre-compress", 1)>>
                                      ELSE <<EE>>
    [] elem \in {"valueMaxLength", "valuePartitionCapacity", "blockSize", "schemaId"}
         -> IF k = 0 THEN <<Prod("CH", 1)>> ELSE <<EE>>
    [] OTHER -> Optional(Children(elem), k) \o <<EE>>

Open(elem) == <<[elem |-> elem, k |-> 0]>>
CurrentRule(stack) == Rule(Head(stack).elem, Head(stack).k)

(* In strict mode only a nillable element (schemaId) has a second level.    *)
getBitsFirstPartCode(stack) ==
  getBitsNumber(Len(CurrentRule(stack)) - 1
                + (IF Head(stack) = Open("schemaId")[1] THEN 1 ELSE 0))

(* The grammar stack behind a production: its child is opened by the next   *)
(* step, and EE and ED close the element.                                   *)
Followed(stack, p) ==
  CASE p.event \in {"EE", "ED"} -> Tail(stack)
    [] p.event = "CH" -> <<[Head(stack) EXCEPT !.k = p.next]>> \o Tail(stack)
    [] OTHER -> Open(p.event) \o <<[Head(stack) EXCEPT !.k = p.next]>> \o Tail(stack)

-----------------------------------------------------------------------------
(* The serializer.                                                          *)

Field(kind, width, val) == [kind |-> kind, width |-> width, val |-> val]
NBits(width, val) == IF width = 0 THEN <<>> ELSE <<Field("bits", width, val % 2^width)>>

(* What serializeOptionsStream asks for, in its order.                      *)
Ev(bits, part) == [call |-> "event", bits |-> bits, val |-> part]
EndEv == Ev(0, 0)
EmptyElement(bits, part) == <<Ev(bits, part), EndEv>>
LastEv(part) == <<Ev(getBitsNumber(part), part)>>
ValueElement(bits, part, kind, val) ==
  <<Ev(bits, part), [call |-> kind, bits |-> 0, val |-> val], EndEv>>
NotImplemented(bits, part) == <<Ev(bits, part), [call |-> "fail", bits |-> 0, val |-> 0]>>

When(cond, calls) == IF cond THEN calls ELSE <<>>
Num(cond) == IF cond THEN 1 ELSE 0

HasUncommon(o) == \/ o.alignment # "BIT_PACKED" \/ "selfContained" \in o.enumOpt
                  \/ o.valueMaxLength # INDEX_MAX \/ o.valuePartitionCapacity # INDEX_MAX
                  \/ o.drMap
HasLesscommon(o) == HasUncommon(o) \/ o.preserve # {} \/ o.blockSize # DefaultBlockSize
HasCommon(o) == o.enumOpt \cap {"compression", "fragment"} # {}
                \/ o.schemaIDMode # SCHEMA_ID_ABSENT

(* ruleContext is the position of the last child written; the positions of  *)
(* those present before the i-th give the context in which it is written.   *)
RuleContext(present, i) == Max({0} \cup {n \in present : n < i})

UncommonPresent(o) ==
  {i \in 1..5 : \/ i = 1 /\ o.alignment # "BIT_PACKED"
                \/ i = 2 /\ "selfContained" \in o.enumOpt
                \/ i = 3 /\ o.valueMaxLength # INDEX_MAX
                \/ i = 4 /\ o.valuePartitionCapacity # INDEX_MAX
                \/ i = 5 /\ o.drMap}

(* Mutant of UncommonEnd: the wildcard counts although it can follow nothing.*)
UncommonEndWithWildcard(rc) == 6 - rc

UncommonEnd(rc) == 6 - rc - Num(rc > 0)

uncommon(o) ==
  LET rc(i) == RuleContext(UncommonPresent(o), i)
      vpc == 3 - rc(4)
      drm == 4 - rc(5)
  IN <<Ev(2, 0)>>
     \o When(o.alignment # "BIT_PACKED",
             <<Ev(3, 0), Ev(1, Num(o.alignment # "BYTE_ALIGNMENT")), EndEv, EndEv>>)
     \o When("selfContained" \in o.enumOpt, EmptyElement(3, 1 - rc(2)))
     \o When(o.valueMaxLength # INDEX_MAX,
             ValueElement(3 - Num(rc(3) = 2), 2 - rc(3), "int", o.valueMaxLength))
     \o When(o.valuePartitionCapacity # INDEX_MAX,
             ValueElement(3 - Num(vpc < 2), vpc, "int", o.valuePartitionCapacity))
     \o When(o.drMap, NotImplemented(3 - Num(drm < 3) - Num(drm = 0), drm))
     \o LastEv(UncommonEnd(rc(6)))

(* Mutant of CommentsBits: prefixes is taken for the predecessor.           *)
CommentsBitsShort(part) == 3 - Num(part < 3)

CommentsBits(part) == 3 - Num(part < 2)

preserve(o) ==
  LET names == Children("preserve")
      rc(i) == RuleContext({n \in 1..5 : names[n] \in o.preserve}, i)
      comments == 3 - rc(4)
      pis == 4 - rc(5)
  IN <<Ev(2, 1 - Num(HasUncommon(o)))>>
     \o When("dtd" \in o.preserve, EmptyElement(3, 0))
     \o When("prefixes" \in o.preserve, EmptyElement(3, 1 - rc(2)))
     \o When("lexicalValues" \in o.preserve,
             EmptyElement(3 - Num(rc(3) = 2), 2 - rc(3)))
     \o When("comments" \in o.preserve, EmptyElement(CommentsBits(comments), comments))
     \o When("pis" \in o.preserve, EmptyElement(3 - Num(pis < 3) - Num(pis = 0), pis))
     \o LastEv(5 - rc(6))

lesscommon(o) ==
  LET preserved == o.preserve # {}
      blockSized == o.blockSize # DefaultBlockSize
  IN <<Ev(2, 0)>>
     \o When(HasUncommon(o), uncommon(o))
     \o When(preserved, preserve(o))
     \o When(blockSized,
             ValueElement(2 - Num(preserved),
                          IF preserved THEN 0 ELSE 2 - Num(HasUncommon(o)),
                          "int", o.blockSize))
     \o LastEv(CASE blockSized -> 0
                 [] ~blockSized /\ preserved -> 1
                 [] OTHER -> 3 - Num(HasUncommon(o)))

(* The nil attribute is written when the identifier, of whatever mode, is   *)
(* as long as the mode's number says; its event code is not implemented.    *)
schemaId(o, bits, part) ==
  CASE o.schemaIDMode = SCHEMA_ID_EMPTY -> ValueElement(bits, part, "string", "")
    [] o.schemaIDMode # SCHEMA_ID_EMPTY /\ Len(o.schemaID) = SCHEMA_ID_NIL
         -> NotImplemented(bits, part)
    [] OTHER -> ValueElement(bits, part, "string", o.schemaID)

common(o) ==
  LET rc(i) == RuleContext({n \in 1..3 : \/ n = 1 /\ "compression" \in o.enumOpt
                                         \/ n = 2 /\ "fragment" \in o.enumOpt
                                         \/ n = 3 /\ o.schemaIDMode # SCHEMA_ID_ABSENT}, i)
  IN <<Ev(2, 1 - Num(HasLesscommon(o)))>>
     \o When("compression" \in o.enumOpt, EmptyElement(2, 0))
     \o When("fragment" \in o.enumOpt, EmptyElement(2, 1 - rc(2)))
     \o When(o.schemaIDMode # SCHEMA_ID_ABSENT,
             schemaId(o, 2 - Num(rc(3) = 2), 2 - rc(3)))
     \o LastEv(3 - rc(4))

OptionsDocument(o) ==
  LET strict == "strict" \in o.enumOpt
  IN <<Ev(1, 0)>>
     \o When(HasLesscommon(o), lesscommon(o))
     \o When(HasCommon(o), common(o))
     \o When(strict, EmptyElement(2 - Num(HasCommon(o)),
                       IF HasCommon(o) THEN 0 ELSE 2 - Num(HasLesscommon(o))))
     \o LastEv(CASE strict -> 0
                 [] ~strict /\ HasCommon(o) -> 1
                 [] OTHER -> 3 - Num(HasLesscommon(o)))
     \o <<EndEv>>

(* serializeEvent writes the given code and follows the production at that  *)
(* place; a place outside the rule is a read outside its array.  intData    *)
(* and stringData look for the CH production themselves.                    *)
serializeEvent(s, e) ==
  IF e.val \in 0..Len(CurrentRule(s.stack)) - 1
  THEN [s EXCEPT !.out = @ \o NBits(e.bits, e.val),
                 !.stack = Followed(@, CurrentRule(@)[e.val + 1])]
  ELSE Failed(s, "out of bounds")

serializeData(s, kind, val) ==
  IF CurrentRule(s.stack)[1].event = "CH"
  THEN [s EXCEPT !.out = @ \o NBits(getBitsFirstPartCode(s.stack), 0)
                           \o <<Field(kind, 0, val)>>,
                 !.stack = Followed(@, CurrentRule(@)[1])]
  ELSE Failed(s, "EXIP_INCONSISTENT_PROC_STATE")

serializeCall(s, c) ==
  CASE ~Ok(s) -> s
    [] Ok(s) /\ c.call = "event" -> serializeEvent(s, c)
    [] Ok(s) /\ c.call = "fail" -> Failed(s, "EXIP_NOT_IMPLEMENTED_YET")
    [] OTHER -> serializeData(s, c.call, c.val)

serializeCalls(calls, s) ==
  LET after[n \in 0..Len(calls)] ==
        IF n = 0 THEN s ELSE serializeCall(after[n - 1], calls[n])
  IN after[Len(calls)]

serializeOptionsStream(out, o) ==
  serializeCalls(OptionsDocument(o),
                 [out |-> out, stack |-> Open("document"), err |-> "EXIP_OK"])

VersionNumber(v) ==
  IF v > 15 THEN NBits(4, 15) \o NBits(4, v - 15 - 1) ELSE NBits(4, v - 1)

Fixed(h) ==
  When(h.has_cookie, <<Field("cookie", 32, 0)>>)
  \o NBits(2, 2) \o NBits(1, Num(h.has_options))
  \o NBits(1, Num(h.is_preview_version)) \o VersionNumber(h.version_number)

IsPadded(o) == "compression" \in o.enumOpt \/ o.alignment # "BIT_PACKED"

Padding(o) == When(IsPadded(o), <<Field("padding", 0, 0)>>)

(* The schema that initStream and setSchema settle on, or their error.      *)
SchemaFor(o, hasSchema) ==
  CASE o.schemaIDMode = SCHEMA_ID_NIL -> "schema-less"
    [] o.schemaIDMode = SCHEMA_ID_EMPTY -> "built-in types"
    [] o.schemaIDMode \in {SCHEMA_ID_ABSENT, SCHEMA_ID_SET} /\ hasSchema
         -> IF "fragment" \in o.enumOpt THEN "EXIP_NOT_IMPLEMENTED_YET" ELSE "schema"
    [] o.schemaIDMode = SCHEMA_ID_SET /\ ~hasSchema -> "EXIP_INVALID_EXIP_CONFIGURATION"
    [] o.schemaIDMode = SCHEMA_ID_ABSENT /\ ~hasSchema -> "schema-less"

Schemas == {"schema-less", "built-in types", "schema"}

WithSchema(x, schema, next) ==
  IF schema \in Schemas THEN [x EXCEPT !.schema = schema, !.next = next]
                        ELSE Failed(x, schema)

initStream ==
  /\ ser.next = "initStream" /\ Ok(ser)
  /\ ser' = CASE ~Consistent(input.opts) -> Failed(ser, "EXIP_HEADER_OPTIONS_MISMATCH")
              [] /\ Consistent(input.opts)
                 /\ input.schema /\ input.opts.schemaIDMode = SCHEMA_ID_SET
                 /\ input.opts.schemaID = "" -> Failed(ser, "EXIP_INVALID_EXIP_CONFIGURATION")
              [] OTHER -> WithSchema(ser, SchemaFor(input.opts, input.schema), "encodeHeader")
  /\ UNCHANGED <<input, par, buffer>>

encodeHeader ==
  /\ ser.next = "encodeHeader" /\ Ok(ser)
  /\ \E s \in {IF input.header.has_options
               THEN serializeOptionsStream(Fixed(input.header), input.opts)
               ELSE [out |-> Fixed(input.header), err |-> "EXIP_OK"]} :
       /\ ser' = Failed([ser EXCEPT !.next = IF Ok(s) THEN "body" ELSE @], s.err)
       /\ buffer' = s.out \o When(Ok(s) /\ input.header.has_options, Padding(input.opts))
  /\ UNCHANGED <<input, par>>

-----------------------------------------------------------------------------
(* The parser.  While it parses the options document it is                  *)
(* [in, stack, opts, prev, err]: the fields ahead, the open elements, the   *)
(* options found so far and prevElementLnID.                                *)

Next1(fields) == IF fields = <<>> THEN Field("end", 0, 0) ELSE Head(fields)

(* Reads of an integer of `width` bits: its value and the fields behind it. *)
Readable(fields, width) ==
  width = 0 \/ (Next1(fields).kind = "bits" /\ Next1(fields).width = width)
ValueAt(fields, width) == IF width = 0 THEN 0 ELSE Next1(fields).val
Behind(fields, width) == IF width = 0 THEN fields ELSE Tail(fields)

(* The options that an opening element sets.                                *)
Flags(o, elem) ==
  CASE elem \in {"strict", "compression", "fragment", "selfContained"}
         -> [o EXCEPT !.enumOpt = @ \cup {elem}]
    [] elem \in {"dtd", "prefixes", "lexicalValues", "comments", "pis"}
         -> [o EXCEPT !.preserve = @ \cup {elem}]
    [] elem = "byte" -> [o EXCEPT !.alignment = "BYTE_ALIGNMENT"]
    [] elem = "pre-compress" -> [o EXCEPT !.alignment = "PRE_COMPRESSION"]
    [] elem = "schemaId" -> [o EXCEPT !.schemaIDMode = SCHEMA_ID_EMPTY]
    [] OTHER -> o

Remembered ==
  {"strict", "schemaId", "compression", "fragment", "dtd", "prefixes", "lexicalValues",
   "comments", "pis", "byte", "pre-compress", "selfContained",
   "datatypeRepresentationMap", "uncommon"}

ops_startElement(d, elem) ==
  [d EXCEPT !.opts = Flags(@, elem), !.prev = IF elem \in Remembered THEN elem ELSE @]

(* Mutant of ops_intData: the value is not cast.                            *)
ops_intDataUncast(o, elem, val) == [o EXCEPT ![elem] = val]

ops_intData(o, elem, val) == [o EXCEPT ![elem] = val % UIntRange]

(* Mutant of ops_stringData: the identifier is kept without its mode.       *)
ops_stringDataWithoutMode(d, val) == [d EXCEPT !.opts.schemaID = val]

ops_stringData(d, val) ==
  CASE d.prev # "schemaId" -> Failed(d, "EXIP_HANDLER_STOP")
    [] d.prev = "schemaId" /\ val = "" -> [d EXCEPT !.opts.schemaIDMode = SCHEMA_ID_EMPTY]
    [] OTHER -> [d EXCEPT !.opts.schemaIDMode = SCHEMA_ID_SET, !.opts.schemaID = val]

DecodeCH(d) ==
  CASE Next1(d.in).kind = "int" /\ Head(d.stack).elem # "schemaId"
         -> [d EXCEPT !.in = Tail(@),
                      !.opts = ops_intData(@, Head(d.stack).elem, Next1(d.in).val)]
    [] Next1(d.in).kind = "string" /\ Head(d.stack).elem = "schemaId"
         -> [ops_stringData(d, Next1(d.in).val) EXCEPT !.in = Tail(@)]
    [] OTHER -> Failed(d, "out of step")

(* The content of a production, then the move to its next non-terminal.     *)
DecodeEvent(d, p) ==
  CASE p.event \in {"EE", "ED"} -> [d EXCEPT !.stack = Followed(@, p)]
    [] p.event = "CH" -> [DecodeCH(d) EXCEPT !.stack = Followed(@, p)]
    [] p.event = "any" -> Failed(d, "EXIP_HANDLER_STOP")
    [] OTHER -> [ops_startElement(d, p.event) EXCEPT !.stack = Followed(@, p)]

(* The second level of schemaId, its nil attribute, is never written.       *)
parseNextOption(d, bits) ==
  CASE ~Readable(d.in, bits) -> Failed(d, "out of step")
    [] Readable(d.in, bits) /\ ValueAt(d.in, bits) >= Len(CurrentRule(d.stack))
         -> Failed(d, "EXIP_INVALID_EXI_INPUT")
    [] OTHER -> DecodeEvent([d EXCEPT !.in = Behind(@, bits)],
                            CurrentRule(d.stack)[ValueAt(d.in, bits) + 1])

parseNext(d) ==
  IF ~Ok(d) \/ d.stack = <<>> THEN d ELSE parseNextOption(d, getBitsFirstPartCode(d.stack))

(* The loop of decodeHeader.                                                *)
parseOptions(d) ==
  LET after[n \in 0..MaxOptionEvents] == IF n = 0 THEN d ELSE parseNext(after[n - 1])
  IN after[MaxOptionEvents]

(* The version: nibbles are added up until one is below 15.                 *)
ReadVersion(fields) ==
  LET full == {i \in 1..Len(fields) : fields[i] = Field("bits", 4, 15)}
      n == Min({k \in 0..Len(fields) : k + 1 \notin full})
      behind == SubSeq(fields, n + 1, Len(fields))
  IN IF Readable(behind, 4)
     THEN [in |-> Tail(behind), version |-> 1 + 15 * n + Head(behind).val, err |-> "EXIP_OK"]
     ELSE [in |-> behind, version |-> 1 + 15 * n, err |-> "out of step"]

SkipPadding(fields, o) == IF IsPadded(o) THEN Tail(fields) ELSE fields

Checked(p) ==
  IF Consistent(p.opts) THEN [p EXCEPT !.next = "setSchema"]
                        ELSE Failed(p, "EXIP_HEADER_OPTIONS_MISMATCH")

(* decodeHeader behind the version number: `d` is the parsed document.      *)
OptionsRead(p, d) ==
  /\ par' = IF Ok(d) THEN Checked([p EXCEPT !.opts = d.opts]) ELSE Failed(p, d.err)
  /\ buffer' = IF Ok(d) THEN SkipPadding(d.in, d.opts) ELSE d.in

(* Mutant of StartOpts: out-of-band options are not overwritten.            *)
StartOptsOutOfBand == par.opts

StartOpts == IF input.outOfBand THEN makeDefaultOpts ELSE par.opts

(* The fixed part: cookie, distinguishing bits, presence bit and version.   *)
DecodeFixed(fields, cookie) ==
  \E v \in {ReadVersion(SubSeq(fields, 4, Len(fields)))},
     hasOptions \in {fields[2].val = 1} :
    \E p \in {[par EXCEPT !.header = [has_cookie |-> cookie, has_options |-> hasOptions,
                                      is_preview_version |-> fields[3].val = 1,
                                      version_number |-> v.version],
                          !.err = v.err]} :
      CASE ~hasOptions /\ ~input.outOfBand ->
             /\ par' = Failed([par EXCEPT !.header.has_options = FALSE],
                              "EXIP_HEADER_OPTIONS_MISMATCH")
             /\ UNCHANGED buffer
        [] hasOptions /\ Ok(v) ->
             \E d \in {parseOptions([in |-> v.in, stack |-> Open("document"),
                                     opts |-> StartOpts, prev |-> "", err |-> "EXIP_OK"])} :
               OptionsRead(p, d)
        [] OTHER -> par' = Checked(p) /\ buffer' = v.in

(* The parser gets the whole header: initParser's defaults, overwritten by  *)
(* what the application knows out of band.                                  *)
initParser ==
  /\ par.next = "initParser" /\ ser.next = "body"
  /\ par' = [par EXCEPT !.next = "decodeHeader",
                        !.opts = IF input.outOfBand THEN input.outOfBandOpts ELSE @]
  /\ UNCHANGED <<input, ser, buffer>>

decodeHeader ==
  /\ par.next = "decodeHeader" /\ Ok(par)
  /\ IF Next1(buffer).kind = "cookie" THEN DecodeFixed(Tail(buffer), TRUE)
                                      ELSE DecodeFixed(buffer, FALSE)
  /\ UNCHANGED <<input, ser>>

setSchema ==
  /\ par.next = "setSchema" /\ Ok(par)
  /\ par' = WithSchema(par, SchemaFor(par.opts, input.schema), "body")
  /\ UNCHANGED <<input, ser, buffer>>

Next == initStream \/ encodeHeader \/ initParser \/ decodeHeader \/ setSchema

Spec == Init /\ [][Next]_vars

-----------------------------------------------------------------------------
(* Properties.                                                              *)

OptionsOK(o) ==
  /\ o.alignment \in {"BIT_PACKED", "BYTE_ALIGNMENT", "PRE_COMPRESSION"}
  /\ o.schemaIDMode \in SCHEMA_ID_ABSENT..SCHEMA_ID_EMPTY
  /\ o.valueMaxLength \in 0..UIntRange - 1 \cup {INDEX_MAX}
  /\ o.valuePartitionCapacity \in 0..UIntRange - 1 \cup {INDEX_MAX}

HasReadOptions == par.header.has_options /\ par.next \in {"setSchema", "body"}

(* The options read from a header are options: what no unsigned int holds   *)
(* is not there.                                                            *)
TypeOK ==
  /\ ser.next \in {"initStream", "encodeHeader", "body"}
  /\ par.next \in {"initParser", "decodeHeader", "setSchema", "body"}
  /\ {ser.schema, par.schema} \subseteq Schemas \cup {""}
  /\ HasReadOptions => OptionsOK(par.opts)

(* Options that the options document can express and the serializer writes: *)
(* no representation map, lengths that fit an unsignedInt, no schema        *)
(* identifier that is taken for a nil or that is one.                       *)
Writable(o) == /\ ~o.drMap
               /\ o.schemaIDMode # SCHEMA_ID_NIL
               /\ Len(o.schemaID) # SCHEMA_ID_NIL

Fits(o) == \A n \in {o.valueMaxLength, o.valuePartitionCapacity} :
             n < UIntRange \/ n = INDEX_MAX

(* No combination of options drives the serializer's formulas out of a rule *)
(* of the grammar: every header that initStream has accepted is written.    *)
EveryHeaderIsWritten ==
  Writable(input.opts) => ser.err \notin {"out of bounds", "EXIP_INCONSISTENT_PROC_STATE",
                                          "EXIP_NOT_IMPLEMENTED_YET"}
                          \/ ser.next = "initStream"

(* What the serializer writes from formulas the parser reads by the         *)
(* grammar: it never loses step, stops exactly where the body begins, and   *)
(* accepts the options.  Only a header without options may be refused, when *)
(* there are none out of band either.                                       *)
HeaderIsReadThrough ==
  /\ par.err \in {"EXIP_OK", "EXIP_INVALID_EXIP_CONFIGURATION", "EXIP_NOT_IMPLEMENTED_YET"}
     \/ (~input.header.has_options /\ par.next = "decodeHeader")
  /\ par.next \in {"setSchema", "body"} => buffer = <<>>

(* When the header has been read both sides hold the same options: those in *)
(* the header, which win over any set out of band, or those agreed upon out *)
(* of band.                                                                 *)
Agreed == input.header.has_options \/ input.outOfBandOpts = input.opts

OptionsAgree ==
  par.next \in {"setSchema", "body"} /\ Writable(input.opts) /\ Fits(input.opts) /\ Agreed =>
    par.opts = input.opts /\ par.header = input.header

(* Both sides then code the body by the same kind of schema: whatever the   *)
(* serializer has settled on before it wrote the header, the parser settles *)
(* on from the options it has read.                                         *)
SameSchema ==
  par.next \in {"setSchema", "body"} /\ Writable(input.opts) /\ Agreed =>
    IF par.next = "body" THEN par.schema = ser.schema ELSE Ok(par)
=============================================================================
