---------------------------- MODULE PushParser ----------------------------
(***************************************************************************)
(* The push interface of the parser: parseNext and pushEXIData of          *)
(* src/contentIO/src/EXIParser.c, in schema mode with bytes as the unit of *)
(* the stream (BYTE_ALIGNMENT).  There is no input stream: when the buffer *)
(* ends in the middle of an event, parseNext gives up, restores            *)
(* strm.context and is called again after the next chunk was pushed.       *)
(*                                                                         *)
(* A production is decoded in steps: a byte of the stream is read, a       *)
(* callback of the content handler is made, or a string is added to the    *)
(* value partitions.  Which steps a production has is taken from           *)
(* decodeEventContent and decodeValueItem (bodyDecode.c).                  *)
(***************************************************************************)
EXTENDS Integers, Sequences, SequencesExt

CONSTANTS Kinds,      \* the productions of the schema, among DOMAIN Steps
          BufLen,     \* buffer.bufLen
          MaxPending  \* bound: events ahead of the parser

read == "read"
add == "addValueEntry"

(* Every event starts with its event code; a string has a length and some   *)
(* characters, a list a number of items.                                    *)
Steps == [
  EE |-> <<read, "endElement">>,
  SE |-> <<read, "startElement">>,
  CHint |-> <<read, read, "intData">>,
  CHstring |-> <<read, read, read, add, "stringData">>,
  ATstring |-> <<read, "attribute", read, read, add, "stringData">>,
  CHlist |-> <<read, read, "listData", read, read, add, "stringData",
               read, read, add, "stringData">> ]

Effects(kind) == SelectSeq(Steps[kind], LAMBDA s : s # read)
Size(kind) == Cardinality({i \in 1..Len(Steps[kind]) : Steps[kind][i] = read})

(* The buffer can hold any event, and what is left of an incomplete one can *)
(* be moved to the front: "normally should not happen when the size of      *)
(* strm->buffer is set reasonably and not too small".                       *)
ASSUME PushParserAssumption ==
  /\ Kinds \subseteq DOMAIN Steps
  /\ BufLen \in Nat
  /\ \A k \in Kinds : Size(k) <= BufLen /\ 2 * (Size(k) - 1) <= BufLen

VARIABLES pending,     \* the events serialized and not yet parsed
          wire,        \* the bytes of the stream that were not pushed yet
          buf,         \* the content of the buffer; its length is bufContent
          bufferIndx,  \* context.bufferIndx
          effects,     \* what the current event has done to the application
          received,    \* the last event that was parsed, and all it has done
          status       \* what the last call returned

vars == <<pending, wire, buf, bufferIndx, effects, received, status>>

Init ==
  /\ pending = <<>> /\ wire = <<>>
  /\ buf = <<>> /\ bufferIndx = 0
  /\ effects = <<>> /\ received = <<>>
  /\ status = "EXIP_OK"

BytesOf(kind) == [i \in 1..Size(kind) |-> [kind |-> kind, nth |-> i]]

(* The other side serializes the next event.                                *)
serialize(kind) ==
  /\ Len(pending) < MaxPending
  /\ pending' = Append(pending, [kind |-> kind, effects |-> Effects(kind)])
  /\ wire' = wire \o BytesOf(kind)
  /\ UNCHANGED <<buf, bufferIndx, effects, received, status>>

Unread == SubSeq(buf, bufferIndx + 1, Len(buf))

(* The effects of an event of which n bytes are there: those before the     *)
(* read that fails.                                                         *)
EffectsUpTo(kind, n) ==
  LET S == Steps[kind]
      reads(i) == Len(SelectSeq(SubSeq(S, 1, i), LAMBDA s : s = read))
  IN SelectSeq(SubSeq(S, 1, CHOOSE i \in 0..Len(S) :
                              reads(i) <= n /\ (i = Len(S) \/ reads(i + 1) > n)),
               LAMBDA s : s # read)

(* Mutant of BufferEndReached: the context is not restored.                 *)
BufferEndReachedUnrestored ==
  /\ status' = "EXIP_BUFFER_END_REACHED"
  /\ effects' = IF Unread = <<>> THEN effects
                ELSE effects \o EffectsUpTo(Head(Unread).kind, Len(Unread))
  /\ bufferIndx' = Len(buf)
  /\ UNCHANGED <<pending, received>>

(* The event is incomplete: bufferIndx is where the event began, and what   *)
(* was done to the application remains done.                                *)
BufferEndReached ==
  /\ status' = "EXIP_BUFFER_END_REACHED"
  /\ effects' = IF Unread = <<>> THEN effects
                ELSE effects \o EffectsUpTo(Head(Unread).kind, Len(Unread))
  /\ UNCHANGED <<pending, bufferIndx, received>>

EventParsed(kind) ==
  /\ status' = "EXIP_OK"
  /\ bufferIndx' = bufferIndx + Size(kind)
  /\ received' = <<[kind |-> kind, effects |-> effects \o Effects(kind)]>>
  /\ effects' = <<>>
  /\ pending' = Tail(pending)

Smaller(a, b) == IF a <= b THEN a ELSE b

(* The application calls parseNext as long as it returns EXIP_OK.  Bytes    *)
(* that are not an event make it fail for good.                             *)
parseNext ==
  /\ status = "EXIP_OK"
  /\ IF Unread = <<>> THEN BufferEndReached
     ELSE LET kind == Head(Unread).kind
              n == Size(kind)
          IN IF ~IsPrefix(SubSeq(Unread, 1, Smaller(n, Len(Unread))), BytesOf(kind))
             THEN /\ status' = "EXIP_INVALID_EXI_INPUT"
                  /\ UNCHANGED <<pending, bufferIndx, effects, received>>
             ELSE IF Len(Unread) < n THEN BufferEndReached
             ELSE EventParsed(kind)
  /\ UNCHANGED <<wire, buf>>

(* A mutant of pushEXIData: what was not read is not moved.                 *)
pushEXIDataUnmoved(n) ==
  LET bytesCopied == Len(Unread)
      bytesRead == Smaller(BufLen - bytesCopied, n)
  IN /\ status = "EXIP_BUFFER_END_REACHED" /\ n <= Len(wire)
     /\ buf' = SubSeq(buf, 1, bytesCopied) \o SubSeq(wire, 1, bytesRead)
     /\ bufferIndx' = 0
     /\ wire' = SubSeq(wire, bytesRead + 1, Len(wire))
     /\ status' = "EXIP_OK"
     /\ UNCHANGED <<pending, effects, received>>

(* After EXIP_BUFFER_END_REACHED the application offers n bytes, and the    *)
(* parser takes what fits behind the bytes it has not read.                 *)
pushEXIData(n) ==
  LET bytesCopied == Len(Unread)
      bytesRead == Smaller(BufLen - bytesCopied, n)
  IN /\ status = "EXIP_BUFFER_END_REACHED" /\ n <= Len(wire)
     /\ IF 2 * bytesCopied > BufLen
        THEN status' = "EXIP_INCONSISTENT_PROC_STATE" /\ UNCHANGED <<buf, bufferIndx, wire>>
        ELSE /\ buf' = Unread \o SubSeq(wire, 1, bytesRead)
             /\ bufferIndx' = 0
             /\ wire' = SubSeq(wire, bytesRead + 1, Len(wire))
             /\ status' = "EXIP_OK"
     /\ UNCHANGED <<pending, effects, received>>

Push == \E n \in 1..Len(wire) : pushEXIData(n)

Next ==
  \/ \E kind \in Kinds : serialize(kind)
  \/ parseNext
  \/ Push

(* The loop of the application: parse until the buffer ends, then push what *)
(* has arrived.                                                             *)
Spec == Init /\ [][Next]_vars /\ WF_vars(parseNext) /\ WF_vars(Push)

-----------------------------------------------------------------------------
(* Properties.                                                              *)

(* Restoring the context is enough: however the stream is cut into chunks,  *)
(* every event is parsed in the end, in order, and has done to the          *)
(* application exactly what it would have done in one go.                   *)
Pipe == INSTANCE EventPipe
          WITH Item <- {[kind |-> k, effects |-> Effects(k)] : k \in Kinds},
               pipe <- pending, received <- received

DeliversOnce == Pipe!Spec

(* The parser neither gives up nor misreads a byte.                         *)
NeverStuck == status \in {"EXIP_OK", "EXIP_BUFFER_END_REACHED"}

(* The bytes between the parser's position and the end of the stream are    *)
(* the pending events: retrying an event rereads all of its bytes.          *)
NothingSkipped ==
  LET rest == Unread \o wire
  IN rest = FlattenSeq([i \in 1..Len(pending) |-> BytesOf(pending[i].kind)])

(* The comment on pushEXIData in EXIParser.h: the interface "works" in      *)
(* schema mode without deviations, and only otherwise the string tables     *)
(* would have to be backed up.  So a retry neither calls back nor adds a    *)
(* value for the second time.                                               *)
EffectsOnce ==
  received # <<>> => received[1].effects = Effects(received[1].kind)
=============================================================================
