---------------------------- MODULE BitStream -----------------------------
(***************************************************************************)
(* n-bit integers through the byte buffers of a serializer and a parser    *)
(* and the byte stream between them: streamWrite.c, streamRead.c and       *)
(* ioUtil.c of src/streamIO/src.  Both buffers are smaller than the        *)
(* stream: the serializer flushes whole bytes and keeps the one it has     *)
(* begun, the parser moves what it has not read to the front and refills.  *)
(*                                                                         *)
(* A bit is represented by its serial number in the stream, 0 standing for *)
(* a bit that was never written, so that a bit that is lost, repeated or   *)
(* misplaced shows whatever the values are.  Bit 0 of a byte is the most   *)
(* significant one.                                                        *)
(*                                                                         *)
(* Without a stream the document has to fit into the buffer, which the     *)
(* application then hands to the parser as it is (tests/check_emptyType.c).*)
(***************************************************************************)
EXTENDS Integers, Sequences

CONSTANTS BufLen,     \* buffer.bufLen, in bytes, on both sides
          Widths,     \* the sizes of the integers, in bits
          StreamModes, \* the values of withStream to be looked at
          MaxBits     \* bound: bits in the stream

(* An integer fits behind a byte that has been begun.                       *)
ASSUME BitStreamAssumption ==
  /\ BufLen \in Nat \ {0}
  /\ Widths \subseteq Nat \ {0}
  /\ \A n \in Widths : n + 7 <= 8 * BufLen
  /\ StreamModes \subseteq BOOLEAN
  /\ MaxBits \in Nat

VARIABLES withStream,                    \* buffer.ioStrm.readWriteToStream is set
          buf, bufferIndx, bitPointer,   \* the serializer's buffer and position
          rbuf, rContent, rIndx, rBit,   \* the parser's; rContent is bufContent
          file,                          \* the bytes in the stream between them
          closed,                        \* closeEXIStream has been called
          bits,                          \* how many bits have been written
          fields,                        \* the integers written and not yet read
          received,                      \* the last integer read
          err                            \* what the last failed call returned

writer == <<buf, bufferIndx, bitPointer>>
reader == <<rbuf, rContent, rIndx, rBit>>
vars == <<withStream, writer, reader, file, closed, bits, fields, received, err>>

Byte == 0..7
Junk == [b \in Byte |-> 0]
Buffer == [0..BufLen-1 -> [Byte -> Nat]]

Init ==
  /\ withStream \in StreamModes
  /\ buf = [i \in 0..BufLen-1 |-> Junk] /\ bufferIndx = 0 /\ bitPointer = 0
  /\ rbuf = [i \in 0..BufLen-1 |-> Junk] /\ rContent = 0 /\ rIndx = 0 /\ rBit = 0
  /\ file = <<>> /\ closed = FALSE
  /\ bits = 0 /\ fields = <<>> /\ received = <<>>
  /\ err = "EXIP_OK"

(* An integer of n bits of which `first` is the serial number of its first. *)
IntAt(n, first) == [n |-> n, first |-> first]

(* The first k bytes of a buffer; a byte behind its end is junk.            *)
Bytes(b, k) == [i \in 1..k |-> IF i <= BufLen THEN b[i-1] ELSE Junk]

-----------------------------------------------------------------------------
(* The serializer.                                                          *)

(* Mutant: leaves the byte that has been begun where it was.                *)
KeptForgotten == buf

(* writeEncodedEXIChunk keeps the byte that has been begun.                 *)
Kept == [buf EXCEPT ![0] = IF bufferIndx < BufLen THEN buf[bufferIndx] ELSE Junk]

(* What is in the buffer once n bits have been put at position `at` of b:   *)
(* the rest of the byte in which they end is cleared iff `clear`.           *)
Put(b, at, n, clear) ==
  [i \in 0..BufLen-1 |-> [k \in Byte |->
     LET p == 8*i + k
     IN IF p \in at..at+n-1 THEN bits + 1 + p - at
        ELSE IF clear /\ p >= at + n /\ i = (at + n - 1) \div 8 THEN 0
        ELSE b[i][k]]]

(* Where the write goes: into the buffer as it is, or behind the kept byte  *)
(* of a flushed one.                                                        *)
PutBits(b, indx, n, clear) ==
  LET at == 8*indx + bitPointer
  IN /\ buf' = Put(b, at, n, clear)
     /\ bufferIndx' = (at + n) \div 8
     /\ bitPointer' = (at + n) % 8
     /\ bits' = bits + n
     /\ fields' = Append(fields, IntAt(n, bits + 1))
     /\ err' = "EXIP_OK"

(* Mutant: forgets the byte in which the integer ends.                      *)
NumBytesWithoutLast(n) == n \div 8

NumBytesToBeWritten(n) == n \div 8 + IF 8 - bitPointer < n % 8 THEN 1 ELSE 0

BufferEnd(n) == BufLen <= bufferIndx + NumBytesToBeWritten(n)

Refused == err' = "EXIP_BUFFER_END_REACHED" /\ UNCHANGED <<writer, bits, fields, file>>

writeNBits(n) ==
  /\ ~closed /\ bits + n <= MaxBits
  /\ \/ ~BufferEnd(n) /\ PutBits(buf, bufferIndx, n, TRUE) /\ UNCHANGED file
     \/ /\ BufferEnd(n) /\ withStream
        /\ PutBits(Kept, 0, n, TRUE)
        /\ file' = file \o Bytes(buf, bufferIndx)
     \/ BufferEnd(n) /\ ~withStream /\ Refused
  /\ UNCHANGED <<withStream, reader, closed, received>>

(* writeNextBit flushes a full buffer only, so there is no byte to keep, and*)
(* leaves the bits behind the one it writes alone.                          *)
writeNextBit ==
  /\ ~closed /\ bits + 1 <= MaxBits
  /\ \/ bufferIndx < BufLen /\ PutBits(buf, bufferIndx, 1, FALSE) /\ UNCHANGED file
     \/ /\ bufferIndx >= BufLen /\ withStream
        /\ PutBits(buf, 0, 1, FALSE)
        /\ file' = file \o Bytes(buf, BufLen)
     \/ bufferIndx >= BufLen /\ ~withStream /\ Refused
  /\ UNCHANGED <<withStream, reader, closed, received>>

(* The bytes of the buffer that are in use, as endDocument stores them in   *)
(* buffer.bufContent.                                                       *)
BufContent == bufferIndx + IF bitPointer > 0 THEN 1 ELSE 0

(* Mutant: hands over the whole bytes only.                                 *)
closeEXIStreamTruncated ==
  /\ ~closed /\ err = "EXIP_OK"
  /\ closed' = TRUE
  /\ IF withStream
     THEN file' = file \o Bytes(buf, bufferIndx) /\ UNCHANGED reader
     ELSE /\ rbuf' = buf /\ rContent' = bufferIndx
          /\ UNCHANGED <<rIndx, rBit, file>>
  /\ UNCHANGED <<withStream, writer, bits, fields, received, err>>

(* closeEXIStream hands the rest of the buffer to the stream, including the *)
(* byte at bufferIndx whether or not it has been begun.  Without a stream   *)
(* the parser is given the buffer and its content.                          *)
closeEXIStream ==
  /\ ~closed /\ err = "EXIP_OK"
  /\ closed' = TRUE
  /\ IF withStream
     THEN file' = file \o Bytes(buf, bufferIndx + 1) /\ UNCHANGED reader
     ELSE /\ rbuf' = buf /\ rContent' = BufContent
          /\ UNCHANGED <<rIndx, rBit, file>>
  /\ UNCHANGED <<withStream, writer, bits, fields, received, err>>

-----------------------------------------------------------------------------
(* The parser.  The callback that fills its buffer reads as much as it can. *)

NumBytesToBeRead(n) == 1 + (n + rBit - 1) \div 8

Smaller(a, b) == IF a <= b THEN a ELSE b

(* readEXIChunkForParsing: what was not read moves to the front.            *)
Copied == rContent - rIndx
Got == Smaller(BufLen - Copied, Len(file))

(* Mutant: does not move what was not read.                                 *)
RefilledInPlace == [i \in 0..BufLen-1 |->
  IF i >= Copied /\ i < Copied + Got THEN file[i - Copied + 1] ELSE rbuf[i]]

Refilled == [i \in 0..BufLen-1 |->
  IF i < Copied THEN rbuf[rIndx + i]
  ELSE IF i < Copied + Got THEN file[i - Copied + 1]
  ELSE rbuf[i]]

(* The n bits at position `at` of buffer b are the integer that is read:    *)
(* the one that was written if the serial numbers are consecutive.          *)
ReadOff(b, at, n) ==
  LET bit(k) == b[(at + k) \div 8][(at + k) % 8]
  IN IF \A k \in 0..n-1 : bit(k) = bit(0) + k THEN IntAt(n, bit(0)) ELSE IntAt(n, 0)

TakeBits(b, indx, bit, n) ==
  LET at == 8*indx + bit
  IN /\ rbuf' = b
     /\ rIndx' = (at + n) \div 8
     /\ rBit' = (at + n) % 8
     /\ received' = <<ReadOff(b, at, n)>>
     /\ fields' = Tail(fields)
     /\ err' = "EXIP_OK"

ReadChunkError(n) ==
  IF ~withStream THEN "EXIP_BUFFER_END_REACHED"
  ELSE IF 2 * Copied > BufLen THEN "EXIP_INCONSISTENT_PROC_STATE"
  ELSE IF Copied + Got < NumBytesToBeRead(n) THEN "EXIP_UNEXPECTED_ERROR"
  ELSE "EXIP_OK"

ReadsChunk == rContent' = Copied + Got /\ file' = SubSeq(file, Got + 1, Len(file))

(* A short read leaves bufferIndx where it was in the buffer that has moved.*)
readBits(n) ==
  LET short == rContent < rIndx + NumBytesToBeRead(n)
      code == ReadChunkError(n)
  IN \/ ~short /\ TakeBits(rbuf, rIndx, rBit, n) /\ UNCHANGED <<rContent, file>>
     \/ short /\ code = "EXIP_OK" /\ ReadsChunk /\ TakeBits(Refilled, 0, rBit, n)
     \/ /\ short /\ code # "EXIP_OK"
        /\ err' = code /\ UNCHANGED <<rIndx, rBit, fields, received>>
        /\ IF code = "EXIP_UNEXPECTED_ERROR"
           THEN rbuf' = Refilled /\ ReadsChunk
           ELSE UNCHANGED <<rbuf, rContent, file>>

(* readNextBit refills an exhausted buffer from its beginning.              *)
readNextBit ==
  LET empty == rContent <= rIndx
      got == IF withStream THEN Smaller(BufLen, Len(file)) ELSE 0
      fresh == [i \in 0..BufLen-1 |-> IF i < got THEN file[i + 1] ELSE rbuf[i]]
  IN \/ ~empty /\ TakeBits(rbuf, rIndx, rBit, 1) /\ UNCHANGED <<rContent, file>>
     \/ /\ empty
        /\ rContent' = got
        /\ file' = SubSeq(file, got + 1, Len(file))
        /\ IF got = 0
           THEN rIndx' = 0 /\ rBit' = 0 /\ rbuf' = fresh
                /\ err' = "EXIP_BUFFER_END_REACHED" /\ UNCHANGED <<fields, received>>
           ELSE TakeBits(fresh, 0, 0, 1)

(* The parser knows from its grammars how many bits come next; a single bit *)
(* may be read either way.                                                  *)
Read ==
  /\ closed /\ fields # <<>> /\ err = "EXIP_OK"
  /\ LET n == Head(fields).n IN readBits(n) \/ (n = 1 /\ readNextBit)
  /\ UNCHANGED <<withStream, writer, bits, closed>>

Next ==
  \/ \E n \in Widths : writeNBits(n)
  \/ writeNextBit
  \/ closeEXIStream
  \/ Read

(* The application closes the stream it has written and parses all of it.   *)
Spec == Init /\ [][Next]_vars /\ WF_vars(closeEXIStream) /\ WF_vars(Read)

-----------------------------------------------------------------------------
(* Properties.                                                              *)

(* Types, and no position lies behind the content of its buffer.            *)
TypeOK ==
  /\ buf \in Buffer /\ rbuf \in Buffer
  /\ bitPointer \in Byte /\ bufferIndx \in 0..BufLen - (IF bitPointer > 0 THEN 1 ELSE 0)
  /\ rContent \in 0..BufLen /\ rIndx \in 0..BufLen /\ rBit \in Byte
  /\ err = "EXIP_OK" => 8*rIndx + rBit <= 8*rContent
  /\ \A i \in 1..Len(file) : file[i] \in [Byte -> Nat]
  /\ bits \in 0..MaxBits

(* The bits of the stream that are still on their way, wherever they are:   *)
(* in the parser's buffer, in the stream, or in the serializer's buffer.    *)
BitsOf(bytes) == [i \in 1..8*Len(bytes) |-> bytes[(i-1) \div 8 + 1][(i-1) % 8]]

ReaderBits ==
  LET b == BitsOf(Bytes(rbuf, rContent)) IN SubSeq(b, 8*rIndx + rBit + 1, Len(b))

WriterBits ==
  IF closed THEN <<>>
  ELSE SubSeq(BitsOf(Bytes(buf, BufLen)), 1, 8*bufferIndx + bitPointer)

OnTheWay == ReaderBits \o BitsOf(file) \o WriterBits

(* Flushing and refilling neither lose nor repeat nor move a bit: at any    *)
(* time the bits that were written and not read are there, in order, with   *)
(* nothing in between.  After closing, less than two bytes follow them.     *)
FirstUnread == IF fields = <<>> THEN bits + 1 ELSE Head(fields).first

NoBitLost ==
  (closed => err = "EXIP_OK") =>
    LET unread == bits + 1 - FirstUnread
    IN /\ SubSeq(OnTheWay, 1, unread) = [k \in 1..unread |-> FirstUnread + k - 1]
       /\ Len(OnTheWay) - unread \in IF closed THEN 0..15 ELSE {0}

(* Every integer is read back as it was written, and in the same order.     *)
Pipe == INSTANCE EventPipe
          WITH Item <- {IntAt(n, f) : n \in Widths \cup {1}, f \in 1..MaxBits},
               pipe <- fields, received <- received

ReadsWhatWasWritten == Pipe!Init /\ [][Pipe!Next]_<<fields, received>>

(* ... and no read ever fails, so all of the stream is read in the end,     *)
(* unless a write was refused or the parser's buffer is too small for the   *)
(* next integer: what is not read and the place it is moved to must not     *)
(* overlap, which "normally should not happen when the size of strm->buffer *)
(* is set reasonably and not too small".                                    *)
TooSmall(n) == 2 * ((n + 6) \div 8) > BufLen

Excused ==
  \/ ~closed /\ err = "EXIP_BUFFER_END_REACHED"
  \/ err = "EXIP_INCONSISTENT_PROC_STATE" /\ \E n \in Widths : TooSmall(n) /\ Head(fields).n = n

EverythingIsRead == <>[](fields = <<>> \/ Excused)
=============================================================================
