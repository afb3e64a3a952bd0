-------------------------- MODULE BitStream_proofs --------------------------
(***************************************************************************)
(* Proofs that flushing and refilling the byte buffers keep every bit of   *)
(* the stream, for all sizes of the buffers and of the integers.           *)
(***************************************************************************)
EXTENDS BitStream, SequenceTheorems, TLAPS

StreamByte == [Byte -> Nat]

Width == Widths \cup {1}

WritePos == 8*bufferIndx + bitPointer

ReadPos == 8*rIndx + rBit

Unread == bits + 1 - FirstUnread

TypeInv ==
  /\ TypeOK
  /\ file \in Seq(StreamByte)
  /\ closed \in BOOLEAN /\ withStream \in BOOLEAN

(* The integers that are on their way follow each other in the stream, and  *)
(* the last one ends where the serializer is.                               *)
Tiled ==
  /\ fields \in Seq([n : Width, first : 1..MaxBits])
  /\ \A i \in 1..Len(fields) :
       /\ fields[i].first + fields[i].n =
            IF i = Len(fields) THEN bits + 1 ELSE fields[i+1].first
       /\ fields[i].first + fields[i].n <= bits + 1

(* In the stream a bit is in its place: its serial number says where.       *)
InStream(bytes) ==
  \A f \in 1..Len(bytes), k \in Byte : bytes[f][k] = 8*(f-1) + k + 1

(* The bits of buffer b up to position pos follow `before` bits.            *)
InBuffer(b, before, pos) ==
  \A i \in 0..BufLen-1, k \in Byte : 8*i + k < pos => b[i][k] = before + 8*i + k + 1

(* While the document is being written its bits are in the stream and, from *)
(* there on, in the serializer's buffer; the parser has not begun.          *)
Written ==
  /\ rContent = 0 /\ rIndx = 0 /\ rBit = 0
  /\ FirstUnread = 1
  /\ 8*Len(file) + WritePos = bits
  /\ InStream(file) /\ InBuffer(buf, 8*Len(file), WritePos)

(* The bits from `first` on are in the content of the parser's buffer b,    *)
(* behind position pos, and in the bytes of the stream; at most eight bits  *)
(* follow the last of the `unread`.                                         *)
Holds(b, content, pos, bytes, first, unread) ==
  LET behind == 8*content - pos
  IN /\ 0 <= behind /\ behind + 8*Len(bytes) - unread \in 0..8
     /\ \A i \in 0..BufLen-1, k \in Byte :
          pos <= 8*i + k /\ 8*i + k < 8*content /\ 8*i + k - pos < unread
          => b[i][k] = first + (8*i + k - pos)
     /\ \A f \in 1..Len(bytes), k \in Byte :
          behind + 8*(f-1) + k < unread => bytes[f][k] = first + (behind + 8*(f-1) + k)

(* What was written and not read, once the document is complete.            *)
ToBeRead == Holds(rbuf, rContent, ReadPos, file, FirstUnread, Unread)

Inv ==
  /\ TypeInv /\ Tiled
  /\ ~closed => Written
  /\ closed /\ err = "EXIP_OK" => ToBeRead
  /\ ~withStream => file = <<>>

-----------------------------------------------------------------------------
(* Positions in bits and in bytes.                                          *)
LEMMA Split ==
  ASSUME NEW x \in Nat
  PROVE  x = 8*(x \div 8) + (x % 8) /\ x % 8 \in Byte /\ x \div 8 \in Nat
BY DEF Byte

(* A bit position has one byte index and one bit pointer.                   *)
LEMMA SplitOnce ==
  ASSUME NEW x \in Nat, NEW i \in Nat, NEW k \in Byte, x = 8*i + k
  PROVE  x \div 8 = i /\ x % 8 = k
BY DEF Byte

(* A position inside a buffer of len bytes: the byte of a bit pointer above *)
(* 0 exists.                                                                *)
LEMMA PositionFits ==
  ASSUME NEW len \in Nat, NEW x \in Nat, NEW indx \in Nat, NEW bit \in Byte,
         8*indx + bit = x, x <= 8*len
  PROVE  indx \in 0..len - (IF bit > 0 THEN 1 ELSE 0)
<1>1. CASE bit > 0
  <2>1. indx \in 0..len - 1
    BY <1>1 DEF Byte
  <2>2. QED
    BY <1>1, <2>1
<1>2. CASE ~(bit > 0)
  <2>1. indx \in 0..len - 0
    BY <1>2 DEF Byte
  <2>2. QED
    BY <1>2, <2>1
<1>3. QED
  BY <1>1, <1>2

(* What is flushed or refilled: whole bytes, and junk behind the buffer.    *)
LEMMA BytesType ==
  ASSUME NEW b \in Buffer, NEW m \in Nat
  PROVE  /\ Bytes(b, m) \in Seq(StreamByte) /\ Len(Bytes(b, m)) = m
         /\ \A i \in 1..m : Bytes(b, m)[i] = IF i <= BufLen THEN b[i-1] ELSE Junk
<1>1. \A i \in 1..m : (IF i <= BufLen THEN b[i-1] ELSE Junk) \in StreamByte
  <2> SUFFICES ASSUME NEW i \in 1..m
               PROVE  (IF i <= BufLen THEN b[i-1] ELSE Junk) \in StreamByte
    OBVIOUS
  <2>1. Junk \in StreamByte
    BY DEF Junk, StreamByte
  <2>2. i <= BufLen => b[i-1] \in StreamByte
    BY BitStreamAssumption DEF Buffer, StreamByte
  <2>3. QED
    BY <2>1, <2>2
<1> HIDE DEF StreamByte
<1>2. QED
  BY <1>1 DEF Bytes

(* What is known of the numbers of a state.                                 *)
LEMMA Positions ==
  ASSUME TypeInv
  PROVE  /\ BufLen \in Nat \ {0} /\ Len(file) \in Nat
         /\ bufferIndx \in 0..BufLen /\ bitPointer \in 0..7
         /\ WritePos \in 0..8*BufLen /\ (bitPointer > 0 => bufferIndx < BufLen)
         /\ bits \in Nat /\ bits <= MaxBits /\ MaxBits \in Nat
         /\ rContent \in 0..BufLen /\ rIndx \in 0..BufLen /\ rBit \in 0..7
         /\ ReadPos \in Nat
<1>1. Len(file) \in Nat
  BY LenProperties DEF TypeInv
<1>2. bitPointer \in 0..7 /\ rBit \in 0..7
  BY DEF TypeInv, TypeOK, Byte
<1>3. QED
  BY <1>1, <1>2, BitStreamAssumption DEF TypeInv, TypeOK, WritePos, ReadPos

(* The first of the integers that are on their way.                         *)
LEMMA FirstField ==
  ASSUME TypeInv, Tiled
  PROVE  /\ FirstUnread \in 1..bits+1 /\ Unread \in 0..bits
         /\ Len(fields) \in Nat
         /\ fields # <<>> =>
              LET n == Head(fields).n
              IN /\ Len(fields) > 0
                 /\ Head(fields) = IntAt(n, FirstUnread) /\ n \in Width /\ n \in Nat \ {0}
                 /\ FirstUnread \in 1..MaxBits /\ n <= Unread
<1>1. bits \in Nat /\ Len(fields) \in Nat
  BY Positions, LenProperties DEF Tiled
<1>2. CASE fields = <<>>
  BY <1>1, <1>2 DEF FirstUnread, Unread
<1>3. CASE fields # <<>>
  <2> DEFINE h == fields[1]
  <2>1. Len(fields) > 0 /\ Head(fields) = h
    BY <1>3, EmptySeq DEF Tiled
  <2>2. h \in [n : Width, first : 1..MaxBits]
    <3>1. 1 \in 1..Len(fields) /\ fields \in Seq([n : Width, first : 1..MaxBits])
      BY <1>1, <2>1 DEF Tiled
    <3>2. QED
      BY <3>1, ElementOfSeq
  <2>3. h.first + h.n <= bits + 1
    BY <1>1, <2>1 DEF Tiled
  <2>4. Width \subseteq Nat \ {0}
    BY BitStreamAssumption DEF Width
  <2> HIDE DEF h
  <2>5. FirstUnread = h.first
    BY <1>3, <2>1 DEF FirstUnread
  <2>6. h = IntAt(h.n, h.first)
    BY <2>2 DEF IntAt
  <2>7. h.n \in Nat \ {0} /\ h.first \in 1..MaxBits /\ h.n \in Width
    BY <2>2, <2>4
  <2>8. FirstUnread \in 1..bits+1 /\ Unread \in 0..bits /\ h.n <= Unread
    BY <1>1, <2>3, <2>5, <2>7 DEF Unread
  <2>9. QED
    BY <1>1, <2>1, <2>5, <2>6, <2>7, <2>8
<1>4. QED
  BY <1>2, <1>3

-----------------------------------------------------------------------------
(* The serializer.                                                          *)

(* The integers that are on their way after one more was written.           *)
LEMMA FieldWritten ==
  ASSUME TypeInv, Tiled, NEW n \in Width, bits + n <= MaxBits,
         fields' = Append(fields, IntAt(n, bits + 1)), bits' = bits + n
  PROVE  /\ Tiled' /\ bits' \in 0..MaxBits
         /\ FirstUnread' = FirstUnread
<1> DEFINE e == IntAt(n, bits + 1)
           FieldSet == [n : Width, first : 1..MaxBits]
<1>1. bits \in Nat /\ MaxBits \in Nat /\ Len(fields) \in Nat /\ fields \in Seq(FieldSet)
  BY Positions, FirstField DEF Tiled
<1>2. n \in Nat \ {0}
  BY BitStreamAssumption DEF Width
<1>3. e.n = n /\ e.first = bits + 1 /\ e \in FieldSet
  BY <1>1, <1>2 DEF IntAt
<1> HIDE DEF e
<1>4. /\ fields' \in Seq(FieldSet) /\ Len(fields') = Len(fields) + 1
      /\ \A i \in 1..Len(fields) : fields'[i] = fields[i]
      /\ fields'[Len(fields) + 1] = e
  <2>1. fields' = Append(fields, e)
    BY DEF e
  <2>2. QED
    BY <1>1, <1>3, <2>1, AppendProperties
<1>5. ASSUME NEW i \in 1..Len(fields')
      PROVE  /\ fields'[i].first + fields'[i].n =
                  IF i = Len(fields') THEN bits' + 1 ELSE fields'[i+1].first
             /\ fields'[i].first + fields'[i].n <= bits' + 1
  <2>1. CASE i = Len(fields')
    <3>1. fields'[i].first = bits + 1 /\ fields'[i].n = n
      BY <1>3, <1>4, <2>1
    <3>2. \A x, y, z : x = bits + 1 /\ y = n /\ z = bits + n => x + y = z + 1 /\ z + 1 <= z + 1
      BY <1>1, <1>2
    <3>3. bits' = bits + n
      OBVIOUS
    <3>4. fields'[i].first + fields'[i].n = bits' + 1 /\ bits' + 1 <= bits' + 1
      BY <3>1, <3>2, <3>3, Zenon
    <3>5. QED
      BY <2>1, <3>4, Zenon
  <2>2. CASE i # Len(fields')
    <3>1. i \in 1..Len(fields)
      BY <1>1, <1>4, <2>2
    <3>2. /\ fields[i].first + fields[i].n =
               IF i = Len(fields) THEN bits + 1 ELSE fields[i+1].first
          /\ fields[i].first + fields[i].n <= bits + 1
          /\ fields[i] \in FieldSet
      BY <1>1, <3>1, ElementOfSeq DEF Tiled
    <3>3. fields[i].first \in Nat /\ fields[i].n \in Nat
      <4>1. Width \subseteq Nat
        BY BitStreamAssumption DEF Width
      <4>2. \A f \in FieldSet : f.first \in 1..MaxBits /\ f.n \in Width
        OBVIOUS
      <4> HIDE DEF FieldSet
      <4>3. fields[i].first \in 1..MaxBits /\ fields[i].n \in Width
        BY <3>2, <4>2
      <4>4. fields[i].n \in Nat
        BY <4>1, <4>3
      <4>5. MaxBits \in Nat
        BY <1>1
      <4>6. QED
        BY <4>3, <4>4, <4>5
    <3>4. IF i = Len(fields) THEN i + 1 = Len(fields) + 1 ELSE i + 1 \in 1..Len(fields)
      BY <1>1, <3>1
    <3>5. fields'[i+1].first = IF i = Len(fields) THEN bits + 1 ELSE fields[i+1].first
      BY <1>3, <1>4, <3>4
    <3>6. fields'[i] = fields[i]
      BY <1>4, <3>1
    <3>7. QED
      BY <1>1, <1>2, <2>2, <3>2, <3>3, <3>5, <3>6
  <2>3. QED
    BY <2>1, <2>2
<1>6. bits' \in 0..MaxBits
  BY <1>1, <1>2
<1>7. FirstUnread' = FirstUnread
  <2>1. fields' # <<>> /\ Head(fields') = fields'[1]
    BY <1>1, <1>4, EmptySeq
  <2>2. CASE fields = <<>>
    <3>1. Len(fields) = 0
      BY <2>2
    <3>2. Head(fields') = e
      BY <1>4, <2>1, <3>1
    <3>3. QED
      BY <1>3, <2>1, <2>2, <3>2 DEF FirstUnread
  <2>3. CASE fields # <<>>
    <3>1. 1 \in 1..Len(fields) /\ Head(fields) = fields[1]
      BY <1>1, <2>3, EmptySeq
    <3>2. QED
      BY <1>4, <2>1, <2>3, <3>1 DEF FirstUnread
  <2>4. QED
    BY <2>2, <2>3
<1>8. QED
  BY <1>4, <1>5, <1>6, <1>7 DEF Tiled

(* What Put leaves alone and what it writes.                                *)
LEMMA PutBuffer ==
  ASSUME NEW b \in Buffer, NEW at \in Nat, NEW n \in Nat \ {0}, NEW clear \in BOOLEAN,
         bits \in Nat
  PROVE  /\ Put(b, at, n, clear) \in Buffer
         /\ \A i \in 0..BufLen-1, k \in Byte :
              /\ 8*i + k < at => Put(b, at, n, clear)[i][k] = b[i][k]
              /\ at <= 8*i + k /\ 8*i + k < at + n
                 => Put(b, at, n, clear)[i][k] = bits + 1 + 8*i + k - at
<1> DEFINE v(i, k) == LET p == 8*i + k
                      IN IF p \in at..at+n-1 THEN bits + 1 + p - at
                         ELSE IF clear /\ p >= at + n /\ i = (at + n - 1) \div 8 THEN 0
                         ELSE b[i][k]
<1>1. Put(b, at, n, clear) = [i \in 0..BufLen-1 |-> [k \in Byte |-> v(i, k)]]
  BY DEF Put
<1>2. ASSUME NEW i \in 0..BufLen-1, NEW k \in Byte
      PROVE  /\ v(i, k) \in Nat
             /\ 8*i + k < at => v(i, k) = b[i][k]
             /\ at <= 8*i + k /\ 8*i + k < at + n => v(i, k) = bits + 1 + 8*i + k - at
  <2>1. i \in Nat /\ k \in Nat
    BY BitStreamAssumption DEF Byte
  <2>1a. b[i][k] \in Nat
    BY DEF Buffer
  <2>2. QED
    BY <2>1, <2>1a
<1> HIDE DEF v
<1>3. Put(b, at, n, clear) \in Buffer
  BY <1>1, <1>2 DEF Buffer
<1>4. QED
  BY <1>1, <1>2, <1>3

(* One more integer, behind what the stream (as it is after the call) and   *)
(* buffer b hold.                                                           *)
LEMMA PutStep ==
  ASSUME Inv, ~closed, UNCHANGED <<withStream, reader, closed, received>>,
         NEW b \in Buffer, NEW indx \in 0..BufLen, NEW n \in Width, NEW clear \in BOOLEAN,
         PutBits(b, indx, n, clear), bits + n <= MaxBits,
         8*indx + bitPointer + n <= 8*BufLen,
         file' \in Seq(StreamByte), withStream \/ file' = <<>>,
         8*Len(file') + 8*indx + bitPointer = bits,
         InStream(file'), InBuffer(b, 8*Len(file'), 8*indx + bitPointer)
  PROVE  Inv'
<1> DEFINE pos == 8*indx + bitPointer
<1>1. /\ TypeInv /\ Tiled /\ Written
      /\ BufLen \in Nat /\ bitPointer \in 0..7 /\ bits \in Nat /\ MaxBits \in Nat
      /\ n \in Nat \ {0} /\ Len(file') \in Nat /\ indx \in Nat
  BY Positions, BitStreamAssumption, LenProperties DEF Inv, Width
<1>2. /\ buf' = Put(b, pos, n, clear) /\ bufferIndx' = (pos + n) \div 8
      /\ bitPointer' = (pos + n) % 8 /\ bits' = bits + n
      /\ fields' = Append(fields, IntAt(n, bits + 1)) /\ err' = "EXIP_OK"
  BY DEF PutBits
<1>3. pos \in Nat /\ pos + n \in Nat
  BY <1>1
<1>4. Tiled' /\ bits' \in 0..MaxBits /\ FirstUnread' = FirstUnread
  BY <1>1, <1>2, FieldWritten
<1>5. /\ buf' \in Buffer
      /\ \A i \in 0..BufLen-1, k \in Byte :
           /\ 8*i + k < pos => buf'[i][k] = b[i][k]
           /\ pos <= 8*i + k /\ 8*i + k < pos + n => buf'[i][k] = bits + 1 + 8*i + k - pos
  <2>0. pos \in Nat /\ n \in Nat \ {0} /\ clear \in BOOLEAN /\ b \in Buffer /\ bits \in Nat
    BY <1>1, <1>3
  <2> DEFINE w == Put(b, pos, n, clear)
  <2> HIDE DEF pos
  <2>1. /\ w \in Buffer
        /\ \A i \in 0..BufLen-1, k \in Byte :
             /\ 8*i + k < pos => w[i][k] = b[i][k]
             /\ pos <= 8*i + k /\ 8*i + k < pos + n => w[i][k] = bits + 1 + 8*i + k - pos
    <3>1. w \in Buffer
      BY <2>0, PutBuffer
    <3>2. ASSUME NEW i \in 0..BufLen-1, NEW k \in Byte, 8*i + k < pos
          PROVE  w[i][k] = b[i][k]
      BY <2>0, <3>2, PutBuffer
    <3>3. ASSUME NEW i \in 0..BufLen-1, NEW k \in Byte, pos <= 8*i + k, 8*i + k < pos + n
          PROVE  w[i][k] = bits + 1 + 8*i + k - pos
      BY <2>0, <3>3, PutBuffer
    <3>4. QED
      BY <3>1, <3>2, <3>3
  <2>2. buf' = w
    BY <1>2
  <2> HIDE DEF w, pos
  <2>3. QED
    BY <2>1, <2>2
<1>6. /\ bitPointer' \in Byte /\ bufferIndx' \in Nat
      /\ 8*bufferIndx' + bitPointer' = pos + n
  BY <1>2, <1>3, Split
<1> HIDE DEF pos
<1>7. bufferIndx' \in 0..BufLen - (IF bitPointer' > 0 THEN 1 ELSE 0)
  <2>1. pos + n <= 8*BufLen
    BY DEF pos
  <2>2. QED
    BY <1>1, <1>3, <1>6, <2>1, PositionFits
<1>8. TypeInv'
  <2>1. /\ rbuf' = rbuf /\ rContent' = rContent /\ rIndx' = rIndx /\ rBit' = rBit
        /\ closed' = closed /\ withStream' = withStream
    BY DEF reader
  <2>2. rContent = 0 /\ rIndx = 0 /\ rBit = 0
    BY <1>1 DEF Written
  <2>3. \A i \in 1..Len(file') : file'[i] \in StreamByte
    BY ElementOfSeq
  <2>4. QED
    <3>1. /\ rbuf' \in Buffer /\ rContent' \in 0..BufLen /\ rIndx' \in 0..BufLen
          /\ rBit' \in Byte /\ closed' \in BOOLEAN /\ withStream' \in BOOLEAN
      BY <1>1, <2>1 DEF TypeInv, TypeOK
    <3>2. 8*rIndx' + rBit' <= 8*rContent'
      BY <2>1, <2>2
    <3>3. \A i \in 1..Len(file') : file'[i] \in [Byte -> Nat]
      BY <2>3 DEF StreamByte
    <3>4. QED
      BY <1>4, <1>5, <1>6, <1>7, <3>1, <3>2, <3>3 DEF TypeInv, TypeOK
<1>9. Written'
  <2>1. rContent' = 0 /\ rIndx' = 0 /\ rBit' = 0 /\ FirstUnread' = 1
    BY <1>1, <1>4 DEF Written, reader
  <2>2. 8*Len(file') + WritePos' = bits' /\ WritePos' = pos + n
    <3>1. WritePos' = pos + n
      BY <1>6 DEF WritePos
    <3>2. 8*Len(file') + pos = bits
      BY <1>1 DEF pos
    <3>3. QED
      BY <1>1, <1>2, <1>3, <3>1, <3>2
  <2>3. ASSUME NEW i \in 0..BufLen-1, NEW k \in Byte, 8*i + k < WritePos'
        PROVE  buf'[i][k] = 8*Len(file') + 8*i + k + 1
    <3>0. 8*Len(file') + pos = bits
      BY <1>1 DEF pos
    <3>1. i \in Nat /\ k \in Nat /\ 8*i + k < pos + n
      BY <1>1, <2>2, <2>3 DEF Byte
    <3>2. CASE 8*i + k < pos
      BY <1>5, <3>2 DEF pos, InBuffer
    <3>3. CASE ~(8*i + k < pos)
      <4>1. buf'[i][k] = bits + 1 + 8*i + k - pos
        BY <1>3, <1>5, <3>1, <3>3
      <4>2. bits + 1 + 8*i + k - pos = 8*Len(file') + 8*i + k + 1
        BY <1>1, <1>3, <3>0, <3>1
      <4>3. QED
        BY <4>1, <4>2
    <3>4. QED
      BY <3>2, <3>3
  <2>4. QED
    BY <2>1, <2>2, <2>3 DEF Written, InBuffer
<1>10. ~closed' /\ (~withStream' => file' = <<>>)
  OBVIOUS
<1>11. QED
  BY <1>4, <1>8, <1>9, <1>10 DEF Inv

(* Bytes of the serializer's buffer are handed to the stream: what was      *)
(* written stays in order.                                                  *)
LEMMA Flushed ==
  ASSUME TypeInv, Written, NEW m \in 0..bufferIndx+1
  PROVE  LET s == file \o Bytes(buf, m)
         IN /\ s \in Seq(StreamByte) /\ Len(s) = Len(file) + m
            /\ \A f \in 1..Len(s), k \in Byte : 8*(f-1) + k < bits => s[f][k] = 8*(f-1) + k + 1
<1> DEFINE t == Bytes(buf, m)
           s == file \o t
<1>1. /\ BufLen \in Nat \ {0} /\ Len(file) \in Nat /\ bufferIndx \in 0..BufLen
      /\ bitPointer \in 0..7 /\ bits \in Nat /\ m \in Nat /\ file \in Seq(StreamByte)
      /\ buf \in Buffer
  BY Positions DEF TypeInv, TypeOK
<1>2. /\ t \in Seq(StreamByte) /\ Len(t) = m
      /\ \A i \in 1..m : t[i] = IF i <= BufLen THEN buf[i-1] ELSE Junk
  BY <1>1, BytesType
<1> HIDE DEF t
<1>3. /\ s \in Seq(StreamByte) /\ Len(s) = Len(file) + m
      /\ \A f \in 1..Len(file) + m : s[f] = IF f <= Len(file) THEN file[f] ELSE t[f - Len(file)]
  BY <1>1, <1>2, ConcatProperties
<1> HIDE DEF s
<1>4. ASSUME NEW f \in 1..Len(s), NEW k \in Byte, 8*(f-1) + k < bits
      PROVE  s[f][k] = 8*(f-1) + k + 1
  <2>1. f \in Nat /\ k \in 0..7
    BY <1>1, <1>3 DEF Byte
  <2>2. CASE f <= Len(file)
    <3>1. s[f] = file[f] /\ f \in 1..Len(file)
      BY <1>1, <1>3, <2>1, <2>2
    <3>2. QED
      BY <3>1 DEF Written, InStream
  <2>3. CASE ~(f <= Len(file))
    <3> DEFINE i == f - Len(file) - 1
    <3>1. s[f] = t[i + 1] /\ i \in Nat /\ i + 1 \in 1..m /\ f = Len(file) + i + 1
      BY <1>1, <1>3, <2>1, <2>3
    <3>2. 8*Len(file) + WritePos = bits /\ WritePos = 8*bufferIndx + bitPointer
      BY DEF Written, WritePos
    <3> HIDE DEF i
    <3>3. 8*i + k < WritePos
      BY <1>1, <1>4, <2>1, <3>1, <3>2
    <3>4. i \in 0..BufLen-1
      BY <1>1, <2>1, <3>1, <3>2, <3>3, Positions
    <3>5. t[i + 1] = buf[i]
      <4>1. i + 1 <= BufLen /\ (i + 1) - 1 = i
        BY <1>1, <3>4
      <4>2. QED
        BY <1>2, <3>1, <4>1
    <3>6. buf[i][k] = 8*Len(file) + 8*i + k + 1
      BY <3>3, <3>4 DEF Written, InBuffer
    <3>7. 8*Len(file) + 8*i + k + 1 = 8*(f-1) + k + 1
      BY <1>1, <2>1, <3>1
    <3>8. QED
      BY <3>1, <3>5, <3>6, <3>7
  <2>4. QED
    BY <2>2, <2>3
<1>5. QED
  BY <1>3, <1>4 DEF s, t

(* Where an integer of n bits ends if it is put into the buffer as it is.   *)
LEMMA IntegerFits ==
  ASSUME TypeInv, NEW n \in Width
  PROVE  /\ ~BufferEnd(n) => 8*bufferIndx + bitPointer + n <= 8*BufLen
         /\ n \in Widths => bitPointer + n <= 8*BufLen
<1>1. n \in Nat /\ BufLen \in Nat /\ bufferIndx \in Nat /\ bitPointer \in 0..7
  BY Positions, BitStreamAssumption DEF Width
<1>2. n = 8*(n \div 8) + (n % 8) /\ n % 8 \in 0..7 /\ n \div 8 \in Nat
  BY <1>1, Split DEF Byte
<1> DEFINE q == n \div 8
           r == n % 8
<1>3. ASSUME ~BufferEnd(n)
      PROVE  8*bufferIndx + bitPointer + n <= 8*BufLen
  <2>1. bufferIndx + (q + IF 8 - bitPointer < r THEN 1 ELSE 0) < BufLen
    BY <1>1, <1>2, <1>3 DEF BufferEnd, NumBytesToBeWritten
  <2>2. n = 8*q + r /\ r \in 0..7 /\ q \in Nat
    BY <1>2
  <2> HIDE DEF q, r
  <2>3. QED
    BY <1>1, <2>1, <2>2
<1>4. n \in Widths => bitPointer + n <= 8*BufLen
  <2>1. n \in Widths => n + 7 <= 8*BufLen
    BY BitStreamAssumption
  <2>2. QED
    BY <1>1, <2>1
<1>5. QED
  BY <1>3, <1>4

(* The whole bytes of the buffer are flushed and its first byte becomes     *)
(* what b holds of the byte that was begun.                                 *)
LEMMA FlushStep ==
  ASSUME Inv, ~closed, withStream, UNCHANGED <<withStream, reader, closed, received>>,
         NEW b \in Buffer, NEW n \in Width, NEW clear \in BOOLEAN,
         bitPointer > 0 => b[0] = buf[bufferIndx],
         PutBits(b, 0, n, clear), bits + n <= MaxBits, bitPointer + n <= 8*BufLen,
         file' = file \o Bytes(buf, bufferIndx)
  PROVE  Inv'
<1>1. /\ TypeInv /\ Written /\ BufLen \in Nat /\ bufferIndx \in Nat /\ bits \in Nat
      /\ Len(file) \in Nat /\ bitPointer \in 0..7 /\ n \in Nat
      /\ (bitPointer > 0 => bufferIndx < BufLen)
  BY Positions, BitStreamAssumption DEF Inv, Width
<1>2. bufferIndx \in 0..bufferIndx+1
  BY <1>1
<1>3. /\ file' \in Seq(StreamByte) /\ Len(file') = Len(file) + bufferIndx
      /\ \A f \in 1..Len(file'), k \in Byte :
           8*(f-1) + k < bits => file'[f][k] = 8*(f-1) + k + 1
  BY <1>1, <1>2, Flushed
<1>4. 8*Len(file) + 8*bufferIndx + bitPointer = bits
  BY <1>1 DEF Written, WritePos
<1>5. InStream(file')
  <2> SUFFICES ASSUME NEW f \in 1..Len(file'), NEW k \in Byte
               PROVE  file'[f][k] = 8*(f-1) + k + 1
    BY DEF InStream
  <2>1. 8*(f-1) + k < bits
    BY <1>1, <1>3, <1>4 DEF Byte
  <2>2. QED
    BY <1>3, <2>1
<1>6. 8*Len(file') + 8*0 + bitPointer = bits
  BY <1>1, <1>3, <1>4
<1>7. InBuffer(b, 8*Len(file'), 8*0 + bitPointer)
  <2> SUFFICES ASSUME NEW i \in 0..BufLen-1, NEW k \in Byte, 8*i + k < 8*0 + bitPointer
               PROVE  b[i][k] = 8*Len(file') + 8*i + k + 1
    BY DEF InBuffer
  <2>1. i = 0 /\ k \in 0..7 /\ k < bitPointer
    BY <1>1 DEF Byte
  <2>2. bufferIndx \in 0..BufLen-1 /\ 8*bufferIndx + k < WritePos
    BY <1>1, <2>1 DEF WritePos
  <2>3. buf[bufferIndx][k] = 8*Len(file) + 8*bufferIndx + k + 1
    BY <1>1, <2>2 DEF Written, InBuffer
  <2>4. b[i] = buf[bufferIndx]
    BY <1>1, <2>1
  <2>5. 8*Len(file) + 8*bufferIndx + k + 1 = 8*Len(file') + 8*i + k + 1
    BY <1>1, <1>3, <2>1
  <2>6. QED
    BY <2>3, <2>4, <2>5
<1>8. 0 \in 0..BufLen /\ 8*0 + bitPointer + n <= 8*BufLen
  BY <1>1
<1>9. QED
  BY <1>3, <1>5, <1>6, <1>7, <1>8, PutStep

(* An integer that is put behind the others in the buffer.                  *)
LEMMA AppendStep ==
  ASSUME Inv, ~closed, UNCHANGED <<withStream, reader, closed, received>>,
         NEW n \in Width, NEW clear \in BOOLEAN,
         PutBits(buf, bufferIndx, n, clear), bits + n <= MaxBits,
         8*bufferIndx + bitPointer + n <= 8*BufLen, file' = file
  PROVE  Inv'
<1>1. /\ TypeInv /\ Written /\ buf \in Buffer /\ bufferIndx \in 0..BufLen
      /\ file' \in Seq(StreamByte) /\ (withStream \/ file' = <<>>)
  BY Positions DEF Inv, TypeInv, TypeOK
<1>2. /\ 8*Len(file') + 8*bufferIndx + bitPointer = bits
      /\ InStream(file') /\ InBuffer(buf, 8*Len(file'), 8*bufferIndx + bitPointer)
  <2>1. Len(file) \in Nat /\ bufferIndx \in Nat /\ bitPointer \in Nat
    BY <1>1, Positions
  <2>2. QED
    BY <1>1, <2>1 DEF Written, WritePos
<1>3. QED
  BY <1>1, <1>2, PutStep

(* A write that is refused leaves everything but the error code.            *)
LEMMA RefusedStep ==
  ASSUME Inv, ~closed, Refused, UNCHANGED <<withStream, reader, closed, received>>
  PROVE  Inv'
<1>1. /\ buf' = buf /\ bufferIndx' = bufferIndx /\ bitPointer' = bitPointer
      /\ bits' = bits /\ fields' = fields /\ file' = file /\ err' = "EXIP_BUFFER_END_REACHED"
      /\ rbuf' = rbuf /\ rContent' = rContent /\ rIndx' = rIndx /\ rBit' = rBit
      /\ closed' = closed /\ withStream' = withStream
  BY DEF Refused, writer, reader
<1>2. TypeInv'
  BY <1>1 DEF Inv, TypeInv, TypeOK
<1>3. Tiled' /\ Written'
  BY <1>1 DEF Inv, Tiled, Written, WritePos, FirstUnread, InStream, InBuffer
<1>4. QED
  BY <1>1, <1>2, <1>3 DEF Inv

(* writeNBits.                                                              *)
LEMMA WriteStep ==
  ASSUME Inv, NEW n \in Widths, writeNBits(n)
  PROVE  Inv'
<1>1. /\ ~closed /\ bits + n <= MaxBits /\ n \in Width /\ TypeInv
      /\ UNCHANGED <<withStream, reader, closed, received>>
  BY DEF writeNBits, Inv, Width
<1>2. CASE ~BufferEnd(n) /\ PutBits(buf, bufferIndx, n, TRUE) /\ UNCHANGED file
  BY <1>1, <1>2, IntegerFits, AppendStep
<1>3. CASE BufferEnd(n) /\ withStream /\ PutBits(Kept, 0, n, TRUE)
           /\ file' = file \o Bytes(buf, bufferIndx)
  <2>1. Kept \in Buffer /\ (bitPointer > 0 => Kept[0] = buf[bufferIndx])
    <3> DEFINE e == IF bufferIndx < BufLen THEN buf[bufferIndx] ELSE Junk
    <3>1. /\ BufLen \in Nat \ {0} /\ bufferIndx \in Nat /\ buf \in Buffer
          /\ (bitPointer > 0 => bufferIndx < BufLen)
      BY <1>1, Positions DEF TypeInv, TypeOK
    <3>2. 0 \in 0..BufLen-1 /\ (bufferIndx < BufLen => bufferIndx \in 0..BufLen-1)
      BY <3>1
    <3>3. e \in [Byte -> Nat]
      BY <3>1, <3>2 DEF Junk, Buffer
    <3>4. Kept = [buf EXCEPT ![0] = e]
      BY DEF Kept
    <3> HIDE DEF e
    <3>5. Kept \in Buffer /\ Kept[0] = e
      BY <3>1, <3>2, <3>3, <3>4 DEF Buffer
    <3>6. QED
      BY <3>1, <3>5 DEF e
  <2>2. bitPointer + n <= 8*BufLen
    BY <1>1, IntegerFits
  <2>3. QED
    BY <1>1, <1>3, <2>1, <2>2, FlushStep
<1>4. CASE BufferEnd(n) /\ ~withStream /\ Refused
  BY <1>1, <1>4, RefusedStep
<1>5. QED
  BY <1>2, <1>3, <1>4 DEF writeNBits

(* writeNextBit.                                                            *)
LEMMA WriteBitStep ==
  ASSUME Inv, writeNextBit
  PROVE  Inv'
<1>1. /\ ~closed /\ bits + 1 <= MaxBits /\ 1 \in Width /\ TypeInv
      /\ UNCHANGED <<withStream, reader, closed, received>>
  BY DEF writeNextBit, Inv, Width
<1>2. /\ BufLen \in Nat \ {0} /\ bufferIndx \in 0..BufLen /\ bitPointer \in 0..7
      /\ (bitPointer > 0 => bufferIndx < BufLen) /\ buf \in Buffer
  BY <1>1, Positions DEF TypeInv, TypeOK
<1>3. CASE bufferIndx < BufLen /\ PutBits(buf, bufferIndx, 1, FALSE) /\ UNCHANGED file
  <2>1. 8*bufferIndx + bitPointer + 1 <= 8*BufLen
    BY <1>2, <1>3
  <2>2. QED
    BY <1>1, <1>3, <2>1, AppendStep
<1>4. CASE bufferIndx >= BufLen /\ withStream /\ PutBits(buf, 0, 1, FALSE)
           /\ file' = file \o Bytes(buf, BufLen)
  <2>1. bufferIndx = BufLen /\ bitPointer = 0 /\ bitPointer + 1 <= 8*BufLen
    BY <1>2, <1>4
  <2>2. ~(bitPointer > 0)
    BY <2>1
  <2>3. QED
    BY <1>1, <1>2, <1>4, <2>1, <2>2, FlushStep
<1>5. CASE bufferIndx >= BufLen /\ ~withStream /\ Refused
  BY <1>1, <1>5, RefusedStep
<1>6. QED
  BY <1>3, <1>4, <1>5 DEF writeNextBit

(* closeEXIStream: what has been written is now to be read.                 *)
LEMMA CloseStep ==
  ASSUME Inv, closeEXIStream
  PROVE  Inv'
<1>1. /\ TypeInv /\ Tiled /\ Written /\ ~closed /\ closed' /\ closed' = TRUE
      /\ UNCHANGED <<withStream, writer, bits, fields, received, err>>
  BY DEF closeEXIStream, Inv
<1>2. /\ BufLen \in Nat \ {0} /\ bufferIndx \in 0..BufLen /\ bitPointer \in 0..7
      /\ bits \in Nat /\ Len(file) \in Nat /\ buf \in Buffer /\ rbuf \in Buffer
      /\ (bitPointer > 0 => bufferIndx < BufLen)
      /\ withStream \in BOOLEAN /\ file \in Seq(StreamByte)
  BY <1>1, Positions DEF TypeInv, TypeOK
<1>3. /\ buf' = buf /\ bufferIndx' = bufferIndx /\ bitPointer' = bitPointer
      /\ bits' = bits /\ fields' = fields /\ withStream' = withStream /\ err' = err
  BY <1>1 DEF writer
<1>4. Tiled' /\ FirstUnread' = 1 /\ Unread' = bits
  BY <1>1, <1>2, <1>3 DEF Tiled, FirstUnread, Unread, Written
<1>5. 8*Len(file) + 8*bufferIndx + bitPointer = bits
  BY <1>1, <1>2 DEF Written, WritePos
<1>6. CASE withStream
  <2>1. file' = file \o Bytes(buf, bufferIndx + 1) /\ UNCHANGED reader
    BY <1>6 DEF closeEXIStream
  <2>2. /\ rbuf' = rbuf /\ rContent' = 0 /\ rIndx' = 0 /\ rBit' = 0
    BY <1>1, <2>1 DEF reader, Written
  <2>3. bufferIndx + 1 \in 0..bufferIndx+1
    BY <1>2
  <2>4. /\ file' \in Seq(StreamByte) /\ Len(file') = Len(file) + (bufferIndx + 1)
        /\ \A f \in 1..Len(file'), k \in Byte :
             8*(f-1) + k < bits => file'[f][k] = 8*(f-1) + k + 1
    BY <1>1, <2>1, <2>3, Flushed
  <2>5. ReadPos' = 0
    BY <2>2 DEF ReadPos
  <2>6. Holds(rbuf', 0, 0, file', 1, bits)
    <3>1. 8*0 - 0 + 8*Len(file') - bits \in 0..8
      BY <1>2, <1>5, <2>4
    <3>2. ASSUME NEW f \in 1..Len(file'), NEW k \in Byte, 8*0 - 0 + 8*(f-1) + k < bits
          PROVE  file'[f][k] = 1 + (8*0 - 0 + 8*(f-1) + k)
      <4>1. f \in Nat /\ k \in Nat
        BY DEF Byte
      <4>2. file'[f][k] = 8*(f-1) + k + 1
        BY <2>4, <3>2, <4>1
      <4>3. QED
        BY <4>1, <4>2
    <3>3. ASSUME NEW i \in 0..BufLen-1, NEW k \in Byte
          PROVE  ~(8*i + k < 8*0)
      BY <1>2 DEF Byte
    <3>4. QED
      BY <3>1, <3>2, <3>3 DEF Holds
  <2>7. ToBeRead'
    BY <1>4, <2>2, <2>5, <2>6 DEF ToBeRead
  <2>8. TypeInv'
    <3>1. \A i \in 1..Len(file') : file'[i] \in [Byte -> Nat]
      BY <2>4, ElementOfSeq DEF StreamByte
    <3>2. 8*rIndx' + rBit' <= 8*rContent'
      BY <2>2
    <3>3. /\ 0 \in 0..BufLen /\ 0 \in Byte
      BY <1>2 DEF Byte
    <3>4. QED
      BY <1>1, <1>2, <1>3, <2>2, <2>4, <3>1, <3>2, <3>3 DEF TypeInv, TypeOK
  <2>9. QED
    BY <1>1, <1>3, <1>4, <1>6, <2>7, <2>8 DEF Inv
<1>7. CASE ~withStream
  <2>1. /\ rbuf' = buf /\ rContent' = BufContent /\ rIndx' = rIndx /\ rBit' = rBit /\ file' = file
    BY <1>7 DEF closeEXIStream
  <2>2. rIndx' = 0 /\ rBit' = 0 /\ file = <<>> /\ Len(file) = 0
    BY <1>1, <1>7, <2>1 DEF Written, Inv
  <2> DEFINE c == bufferIndx + IF bitPointer > 0 THEN 1 ELSE 0
  <2>3. rContent' = c
    BY <2>1 DEF BufContent
  <2>4. c \in 0..BufLen /\ 8*c - bits \in 0..8
    <3>1. CASE bitPointer > 0
      BY <1>2, <1>5, <2>2, <3>1
    <3>2. CASE ~(bitPointer > 0)
      BY <1>2, <1>5, <2>2, <3>2
    <3>3. QED
      BY <3>1, <3>2
  <2> HIDE DEF c
  <2>5. ReadPos' = 0
    BY <2>2 DEF ReadPos
  <2>6. Holds(buf, c, 0, file, 1, bits)
    <3>1. 0 <= 8*c - 0 /\ 8*c - 0 + 8*Len(file) - bits \in 0..8
      BY <1>2, <2>2, <2>4
    <3>2. ASSUME NEW i \in 0..BufLen-1, NEW k \in Byte, 8*i + k - 0 < bits
          PROVE  buf[i][k] = 1 + (8*i + k - 0)
      <4>1. i \in Nat /\ k \in Nat /\ WritePos = bits
        BY <1>2, <1>5, <2>2 DEF Byte, WritePos
      <4>2. buf[i][k] = 8*Len(file) + 8*i + k + 1
        BY <1>1, <3>2, <4>1 DEF Written, InBuffer
      <4>3. QED
        BY <2>2, <4>1, <4>2
    <3>3. ~ \E f \in 1..Len(file) : TRUE
      BY <2>2
    <3>4. QED
      BY <3>1, <3>2, <3>3 DEF Holds
  <2>7. ToBeRead'
    BY <1>4, <2>1, <2>3, <2>5, <2>6 DEF ToBeRead
  <2>8. TypeInv'
    <3>1. 8*0 + 0 <= 8*c /\ 0 \in 0..BufLen /\ 0 \in Byte
      BY <1>2, <2>4 DEF Byte
    <3>2. 8*rIndx' + rBit' <= 8*rContent'
      BY <2>2, <2>3, <3>1
    <3>3. QED
      BY <1>1, <1>2, <1>3, <2>1, <2>2, <2>3, <2>4, <3>1, <3>2 DEF TypeInv, TypeOK
  <2>9. QED
    BY <1>1, <1>3, <1>4, <1>7, <2>1, <2>2, <2>7, <2>8 DEF Inv
<1>8. QED
  BY <1>6, <1>7

-----------------------------------------------------------------------------
(* The parser.                                                              *)

(* The integers that are on their way after the first one was read.         *)
LEMMA FieldRead ==
  ASSUME TypeInv, Tiled, fields # <<>>, fields' = Tail(fields), bits' = bits
  PROVE  /\ Tiled'
         /\ FirstUnread' = FirstUnread + Head(fields).n
         /\ Unread' = Unread - Head(fields).n
<1> DEFINE FieldSet == [n : Width, first : 1..MaxBits]
           h == Head(fields)
<1>1. /\ bits \in Nat /\ Len(fields) \in Nat /\ Len(fields) > 0 /\ fields \in Seq(FieldSet)
      /\ FirstUnread \in Nat /\ h = IntAt(h.n, FirstUnread) /\ h.n \in Nat
      /\ h = fields[1]
  BY Positions, FirstField, EmptySeq DEF Tiled
<1>2. /\ fields' \in Seq(FieldSet) /\ Len(fields') = Len(fields) - 1
      /\ \A i \in 1..Len(fields') : fields'[i] = fields[i+1]
  BY <1>1, HeadTailProperties
<1>3. ASSUME NEW i \in 1..Len(fields')
      PROVE  /\ fields'[i].first + fields'[i].n =
                  IF i = Len(fields') THEN bits' + 1 ELSE fields'[i+1].first
             /\ fields'[i].first + fields'[i].n <= bits' + 1
  <2>1. i + 1 \in 1..Len(fields) /\ (i = Len(fields') <=> i + 1 = Len(fields))
    BY <1>1, <1>2
  <2>2. /\ fields[i+1].first + fields[i+1].n =
             IF i + 1 = Len(fields) THEN bits + 1 ELSE fields[i+1+1].first
        /\ fields[i+1].first + fields[i+1].n <= bits + 1
    BY <2>1 DEF Tiled
  <2>3. i # Len(fields') => fields'[i+1] = fields[i+1+1]
    <3>1. Len(fields') \in Nat
      BY <1>1, <1>2
    <3>2. i # Len(fields') => i + 1 \in 1..Len(fields')
      BY <3>1
    <3>3. QED
      BY <1>2, <3>2
  <2>4. fields'[i] = fields[i+1]
    BY <1>2
  <2>5. QED
    BY <2>1, <2>2, <2>3, <2>4
<1>4. h.first = FirstUnread /\ 1 \in 1..Len(fields)
  BY <1>1 DEF IntAt
<1>5. FirstUnread + h.n = IF 1 = Len(fields) THEN bits + 1 ELSE fields[1+1].first
  BY <1>1, <1>4 DEF Tiled
<1> HIDE DEF h
<1>6. FirstUnread' = FirstUnread + h.n
  <2>1. CASE Len(fields) = 1
    <3>1. fields' = <<>>
      BY <1>2, <2>1, EmptySeq
    <3>2. QED
      BY <1>5, <2>1, <3>1 DEF FirstUnread
  <2>2. CASE Len(fields) # 1
    <3>0. Len(fields) - 1 > 0 /\ Len(fields) - 1 \in Nat
      <4>1. Len(fields) \in Nat \ {0, 1}
        BY <1>1, <2>2
      <4>2. \A m \in Nat \ {0, 1} : m - 1 > 0 /\ m - 1 \in Nat
        OBVIOUS
      <4>3. QED
        BY <4>1, <4>2
    <3>1. Len(fields') > 0 /\ 1 \in 1..Len(fields') /\ fields' # <<>>
      <4>1. Len(fields') > 0 /\ Len(fields') \in Nat
        BY <1>2, <3>0
      <4>2. Len(<<>>) = 0
        OBVIOUS
      <4>3. fields' # <<>>
        BY <4>1, <4>2
      <4>4. QED
        BY <4>1, <4>3
    <3>2. Head(fields') = fields'[1] /\ fields'[1] = fields[1+1]
      BY <1>2, <3>1
    <3>3. QED
      BY <1>5, <2>2, <3>1, <3>2 DEF FirstUnread
  <2>3. QED
    BY <2>1, <2>2
<1>7. Unread' = Unread - h.n
  BY <1>1, <1>6 DEF Unread
<1>8. Tiled'
  BY <1>2, <1>3 DEF Tiled
<1>9. QED
  BY <1>6, <1>7, <1>8 DEF h

(* The parser's position moves on by n bits.                                *)
LEMMA Advance ==
  ASSUME NEW b, NEW content \in Nat, NEW pos \in Nat, NEW bytes, NEW first \in Nat,
         NEW unread \in Nat, NEW n \in Nat, BufLen \in Nat, Len(bytes) \in Nat,
         Holds(b, content, pos, bytes, first, unread), n <= unread, pos + n <= 8*content
  PROVE  Holds(b, content, pos + n, bytes, first + n, unread - n)
<1> DEFINE behind == 8*content - pos
           on == 8*content - (pos + n)
<1>1. /\ 0 <= behind /\ behind + 8*Len(bytes) - unread \in 0..8
      /\ \A i \in 0..BufLen-1, k \in Byte :
           pos <= 8*i + k /\ 8*i + k < 8*content /\ 8*i + k - pos < unread
           => b[i][k] = first + (8*i + k - pos)
      /\ \A f \in 1..Len(bytes), k \in Byte :
           behind + 8*(f-1) + k < unread => bytes[f][k] = first + (behind + 8*(f-1) + k)
  BY DEF Holds
<1>2. 0 <= on /\ on + 8*Len(bytes) - (unread - n) \in 0..8
  <2>1. behind + 8*Len(bytes) - unread \in 0..8
    BY <1>1
  <2>2. 0 <= on /\ on + 8*Len(bytes) - (unread - n) = behind + 8*Len(bytes) - unread
    OBVIOUS
  <2>3. QED
    BY <2>1, <2>2
<1>3. ASSUME NEW i \in 0..BufLen-1, NEW k \in Byte,
             pos + n <= 8*i + k, 8*i + k < 8*content, 8*i + k - (pos + n) < unread - n
      PROVE  b[i][k] = first + n + (8*i + k - (pos + n))
  <2>1. i \in Nat /\ k \in Nat
    BY DEF Byte
  <2>2. pos <= 8*i + k /\ 8*i + k - pos < unread
    BY <1>3, <2>1
  <2>3. b[i][k] = first + (8*i + k - pos)
    BY <1>1, <1>3, <2>2
  <2>4. QED
    BY <2>1, <2>3
<1>4. ASSUME NEW f \in 1..Len(bytes), NEW k \in Byte, on + 8*(f-1) + k < unread - n
      PROVE  bytes[f][k] = first + n + (on + 8*(f-1) + k)
  <2>1. f \in Nat /\ k \in Nat
    BY DEF Byte
  <2>2. behind + 8*(f-1) + k < unread
    BY <1>4, <2>1
  <2>3. bytes[f][k] = first + (behind + 8*(f-1) + k)
    BY <1>1, <2>2
  <2>4. QED
    BY <2>1, <2>3
<1>5. QED
  BY <1>2, <1>3, <1>4 DEF Holds

(* The next n bits of the buffer are the integer that was written.          *)
LEMMA ReadsTheInteger ==
  ASSUME NEW b, NEW content \in 0..BufLen, NEW pos \in Nat, NEW bytes, NEW first \in Nat,
         NEW unread \in Nat, NEW n \in Nat \ {0}, BufLen \in Nat,
         Holds(b, content, pos, bytes, first, unread), n <= unread, pos + n <= 8*content
  PROVE  ReadOff(b, pos, n) = IntAt(n, first)
<1> DEFINE bit(k) == b[(pos + k) \div 8][(pos + k) % 8]
<1>1. ASSUME NEW j \in 0..n-1
      PROVE  bit(j) = first + j
  <2> DEFINE i == (pos + j) \div 8
             k == (pos + j) % 8
  <2>1. pos + j \in Nat /\ j \in Nat
    OBVIOUS
  <2>2. pos + j = 8*i + k /\ k \in Byte /\ i \in Nat
    BY <2>1, Split
  <2>3. bit(j) = b[i][k]
    OBVIOUS
  <2> HIDE DEF i, k, bit
  <2>4. /\ i \in 0..BufLen-1 /\ pos <= 8*i + k /\ 8*i + k < 8*content
        /\ 8*i + k - pos < unread /\ 8*i + k - pos = j
    BY <2>1, <2>2 DEF Byte
  <2>5. b[i][k] = first + (8*i + k - pos)
    BY <2>2, <2>4 DEF Holds
  <2>6. QED
    BY <2>3, <2>4, <2>5
<1>2. bit(0) = first /\ \A j \in 0..n-1 : bit(j) = bit(0) + j
  BY <1>1
<1>3. ReadOff(b, pos, n) = IF \A j \in 0..n-1 : bit(j) = bit(0) + j
                           THEN IntAt(n, bit(0)) ELSE IntAt(n, 0)
  BY DEF ReadOff
<1> HIDE DEF bit
<1>4. QED
  BY <1>2, <1>3

(* A stream without its first z bytes, byte by byte.                        *)
LEMMA StreamSuffix ==
  ASSUME NEW s \in Seq(StreamByte), NEW z \in 0..Len(s)
  PROVE  LET d == SubSeq(s, z + 1, Len(s))
         IN /\ d \in Seq(StreamByte) /\ Len(d) = Len(s) - z
            /\ \A f \in 1..Len(d) : d[f] = s[z + f]
<1> DEFINE d == SubSeq(s, z + 1, Len(s))
<1>1. Len(s) \in Nat /\ z \in Nat
  BY LenProperties
<1>2. z + 1 \in Int /\ Len(s) \in Int /\ \A i \in z + 1 .. Len(s) : s[i] \in StreamByte
  BY <1>1, ElementOfSeq
<1>3. /\ d \in Seq(StreamByte)
      /\ Len(d) = IF z + 1 <= Len(s) THEN Len(s) - (z + 1) + 1 ELSE 0
      /\ \A i \in 1..Len(s) - (z + 1) + 1 : d[i] = s[(z + 1) + i - 1]
  BY <1>2, SubSeqProperties
<1> HIDE DEF d
<1>4. Len(d) = Len(s) - z
  BY <1>1, <1>3
<1>5. ASSUME NEW f \in 1..Len(d)
      PROVE  d[f] = s[z + f]
  <2>1. f \in 1..Len(s) - (z + 1) + 1 /\ (z + 1) + f - 1 = z + f
    BY <1>1, <1>4
  <2>2. QED
    BY <1>3, <2>1
<1>6. QED
  BY <1>3, <1>4, <1>5 DEF d

(* What readEXIChunkForParsing gets; nothing lies in the place to which     *)
(* what was not read is moved, and the bits are those that were there.      *)
LEMMA Refill ==
  ASSUME TypeInv, ReadPos <= 8*rContent
  PROVE  /\ Copied \in 0..BufLen /\ Got \in 0..Len(file) /\ Copied + Got \in 0..BufLen
         /\ Refilled \in Buffer
         /\ SubSeq(file, Got + 1, Len(file)) \in Seq(StreamByte)
         /\ \A first, unread \in Nat :
              Holds(rbuf, rContent, ReadPos, file, first, unread)
              => Holds(Refilled, Copied + Got, rBit, SubSeq(file, Got + 1, Len(file)),
                       first, unread)
<1> DEFINE c == Copied
           g == Got
           v(i) == IF i < c THEN rbuf[rIndx + i]
                   ELSE IF i < c + g THEN file[i - c + 1]
                   ELSE rbuf[i]
           rest == SubSeq(file, g + 1, Len(file))
<1>1. /\ BufLen \in Nat /\ Len(file) \in Nat /\ rContent \in 0..BufLen /\ rIndx \in Nat
      /\ rBit \in 0..7 /\ rbuf \in Buffer /\ file \in Seq(StreamByte)
      /\ 8*rIndx + rBit <= 8*rContent /\ ReadPos = 8*rIndx + rBit
  BY Positions DEF TypeInv, TypeOK, ReadPos
<1>2. c \in 0..BufLen /\ c = rContent - rIndx
  BY <1>1 DEF Copied
<1>3. g \in 0..Len(file) /\ c + g \in 0..BufLen
  BY <1>1, <1>2 DEF Got, Smaller
<1>4. Refilled = [i \in 0..BufLen-1 |-> v(i)]
  BY DEF Refilled
<1> HIDE DEF c, g
<1>5. ASSUME NEW i \in 0..BufLen-1
      PROVE  v(i) \in [Byte -> Nat]
  <2>1. CASE i < c
    <3>1. rIndx + i \in 0..BufLen-1
      BY <1>1, <1>2, <2>1
    <3>2. QED
      BY <1>1, <2>1, <3>1 DEF Buffer
  <2>2. CASE ~(i < c) /\ i < c + g
    <3>1. i - c + 1 \in 1..Len(file)
      BY <1>1, <1>2, <1>3, <2>2
    <3>2. QED
      BY <1>1, <2>2, <3>1, ElementOfSeq DEF StreamByte
  <2>3. CASE ~(i < c) /\ ~(i < c + g)
    BY <1>1, <2>3 DEF Buffer
  <2>4. QED
    BY <2>1, <2>2, <2>3
<1>6. Refilled \in Buffer
  BY <1>4, <1>5 DEF Buffer
<1>7. /\ rest \in Seq(StreamByte) /\ Len(rest) = Len(file) - g
      /\ \A f \in 1..Len(rest) : rest[f] = file[g + f]
  BY <1>1, <1>3, StreamSuffix
<1> HIDE DEF rest
<1>8. ASSUME NEW first \in Nat, NEW unread \in Nat,
             Holds(rbuf, rContent, ReadPos, file, first, unread)
      PROVE  Holds(Refilled, c + g, rBit, rest, first, unread)
  <2> DEFINE behind == 8*rContent - ReadPos
             on == 8*(c + g) - rBit
  <2>1. behind = 8*c - rBit /\ on = behind + 8*g /\ 0 <= on
    BY <1>1, <1>2, <1>3
  <2>2. on + 8*Len(rest) - unread \in 0..8
    <3>1. behind + 8*Len(file) - unread \in 0..8
      BY <1>8 DEF Holds
    <3>2. on + 8*Len(rest) - unread = behind + 8*Len(file) - unread
      BY <1>1, <1>2, <1>3, <1>7, <2>1
    <3>3. QED
      BY <3>1, <3>2
  <2>3. ASSUME NEW i \in 0..BufLen-1, NEW k \in Byte,
               rBit <= 8*i + k, 8*i + k < 8*(c + g), 8*i + k - rBit < unread
        PROVE  Refilled[i][k] = first + (8*i + k - rBit)
    <3>1. i \in Nat /\ k \in 0..7 /\ Refilled[i] = v(i)
      BY <1>4 DEF Byte
    <3>2. CASE i < c
      <4>1. /\ rIndx + i \in 0..BufLen-1 /\ ReadPos <= 8*(rIndx + i) + k
            /\ 8*(rIndx + i) + k < 8*rContent
            /\ 8*(rIndx + i) + k - ReadPos = 8*i + k - rBit
        BY <1>1, <1>2, <2>3, <3>1, <3>2
      <4>2. rbuf[rIndx + i][k] = first + (8*(rIndx + i) + k - ReadPos)
        BY <1>8, <2>3, <4>1 DEF Holds
      <4>3. QED
        BY <3>1, <3>2, <4>1, <4>2
    <3>3. CASE ~(i < c)
      <4>1. i < c + g
        BY <1>1, <1>2, <1>3, <2>3, <3>1
      <4>2. /\ i - c + 1 \in 1..Len(file)
            /\ behind + 8*((i - c + 1) - 1) + k = 8*i + k - rBit
        BY <1>1, <1>2, <1>3, <2>1, <3>1, <3>3, <4>1
      <4>3. file[i - c + 1][k] = first + (behind + 8*((i - c + 1) - 1) + k)
        BY <1>8, <2>3, <4>2 DEF Holds
      <4>4. QED
        BY <3>1, <3>3, <4>1, <4>2, <4>3
    <3>4. QED
      BY <3>2, <3>3
  <2>4. ASSUME NEW f \in 1..Len(rest), NEW k \in Byte, on + 8*(f-1) + k < unread
        PROVE  rest[f][k] = first + (on + 8*(f-1) + k)
    <3>1. /\ g + f \in 1..Len(file) /\ k \in Nat
          /\ behind + 8*((g + f) - 1) + k = on + 8*(f-1) + k
      BY <1>1, <1>2, <1>3, <1>7, <2>1 DEF Byte
    <3>2. file[g + f][k] = first + (behind + 8*((g + f) - 1) + k)
      BY <1>8, <2>4, <3>1 DEF Holds
    <3>3. QED
      BY <1>7, <3>1, <3>2
  <2> HIDE DEF v
  <2>5. QED
    BY <2>1, <2>2, <2>3, <2>4 DEF Holds
<1>9. QED
  BY <1>2, <1>3, <1>6, <1>7, <1>8 DEF c, g, rest

(* The next integer is taken from buffer b, as it is after the call.        *)
LEMMA TakeStep ==
  ASSUME Inv, closed, err = "EXIP_OK", fields # <<>>,
         UNCHANGED <<withStream, writer, bits, closed>>,
         NEW b \in Buffer, NEW content \in 0..BufLen, NEW indx \in Nat, NEW bit \in Byte,
         NEW bytes \in Seq(StreamByte), withStream \/ bytes = <<>>,
         TakeBits(b, indx, bit, Head(fields).n), rContent' = content, file' = bytes,
         Holds(b, content, 8*indx + bit, bytes, FirstUnread, Unread),
         8*indx + bit + Head(fields).n <= 8*content
  PROVE  Inv' /\ received' = <<Head(fields)>> /\ fields' = Tail(fields)
<1> DEFINE n == Head(fields).n
           pos == 8*indx + bit
<1>1. /\ TypeInv /\ Tiled /\ BufLen \in Nat \ {0} /\ bits \in Nat /\ Len(bytes) \in Nat
      /\ n \in Nat \ {0} /\ n <= Unread /\ Unread \in Nat /\ FirstUnread \in Nat
      /\ Head(fields) = IntAt(n, FirstUnread)
  BY Positions, FirstField, LenProperties DEF Inv
<1>2. /\ rbuf' = b /\ rIndx' = (pos + n) \div 8 /\ rBit' = (pos + n) % 8
      /\ received' = <<ReadOff(b, pos, n)>> /\ fields' = Tail(fields) /\ err' = "EXIP_OK"
  BY DEF TakeBits
<1>3. /\ buf' = buf /\ bufferIndx' = bufferIndx /\ bitPointer' = bitPointer /\ bits' = bits
      /\ withStream' = withStream /\ closed' = closed
  BY DEF writer
<1> HIDE DEF n
<1>4. pos \in Nat /\ pos + n \in Nat /\ pos + n <= 8*content /\ content \in Nat
  BY <1>1 DEF Byte, n
<1>5. Holds(b, content, pos, bytes, FirstUnread, Unread)
  OBVIOUS
<1> HIDE DEF pos
<1>6. Holds(b, content, pos + n, bytes, FirstUnread + n, Unread - n)
  BY <1>1, <1>4, <1>5, Advance
<1>7. received' = <<Head(fields)>>
  <2>1. ReadOff(b, pos, n) = IntAt(n, FirstUnread)
    BY <1>1, <1>4, <1>5, ReadsTheInteger
  <2>2. QED
    BY <1>1, <1>2, <2>1
<1>8. Tiled' /\ FirstUnread' = FirstUnread + n /\ Unread' = Unread - n
  BY <1>1, <1>2, <1>3, FieldRead DEF n
<1>9. rBit' \in Byte /\ rIndx' \in Nat /\ 8*rIndx' + rBit' = pos + n
  BY <1>2, <1>4, Split
<1>10. ReadPos' = pos + n
  BY <1>9 DEF ReadPos
<1>11. ToBeRead'
  BY <1>2, <1>6, <1>8, <1>10 DEF ToBeRead
<1>12. TypeInv'
  <2>1. rIndx' \in 0..BufLen
    <3> DEFINE y == (pos + n) \div 8
    <3>1. y \in Nat /\ (pos + n) % 8 \in 0..7 /\ pos + n = 8*y + ((pos + n) % 8)
      BY <1>4, Split DEF Byte
    <3>2. rIndx' = y
      BY <1>2
    <3> HIDE DEF y
    <3>3. y \in 0..BufLen
      BY <1>1, <1>4, <3>1
    <3>4. QED
      BY <3>2, <3>3
  <2>2. 8*rIndx' + rBit' <= 8*rContent'
    BY <1>4, <1>9
  <2>3. \A i \in 1..Len(file') : file'[i] \in [Byte -> Nat]
    BY ElementOfSeq DEF StreamByte
  <2>4. QED
    BY <1>1, <1>2, <1>3, <1>9, <2>1, <2>2, <2>3 DEF TypeInv, TypeOK
<1>13. QED
  BY <1>2, <1>3, <1>7, <1>8, <1>11, <1>12 DEF Inv

(* A call that fails leaves the parser where it is for good.                *)
LEMMA FailedStep ==
  ASSUME Inv, closed, err' # "EXIP_OK", UNCHANGED <<withStream, writer, bits, fields, closed>>,
         rbuf' \in Buffer, rContent' \in 0..BufLen, rIndx' \in 0..BufLen, rBit' \in Byte,
         file' \in Seq(StreamByte), withStream \/ file' = <<>>
  PROVE  Inv'
<1>1. /\ buf' = buf /\ bufferIndx' = bufferIndx /\ bitPointer' = bitPointer /\ bits' = bits
      /\ withStream' = withStream /\ closed' = closed /\ fields' = fields
  BY DEF writer
<1>2. \A i \in 1..Len(file') : file'[i] \in [Byte -> Nat]
  BY ElementOfSeq DEF StreamByte
<1>3. TypeInv'
  BY <1>1, <1>2 DEF Inv, TypeInv, TypeOK
<1>4. Tiled'
  BY <1>1 DEF Inv, Tiled
<1>5. QED
  BY <1>1, <1>3, <1>4 DEF Inv

(* NumBytesToBeRead is what an integer takes up behind a byte's first bits. *)
LEMMA EnoughBytes ==
  ASSUME NEW n \in Nat \ {0}, rBit \in 0..7
  PROVE  \A c \in Nat : NumBytesToBeRead(n) <= c => rBit + n <= 8*c
<1> DEFINE x == n + rBit - 1
<1>1. x \in Nat /\ rBit + n = x + 1
  OBVIOUS
<1>2. NumBytesToBeRead(n) = 1 + x \div 8
  BY DEF NumBytesToBeRead
<1> HIDE DEF x
<1>3. x = 8*(x \div 8) + (x % 8) /\ x % 8 \in 0..7 /\ x \div 8 \in Nat
  BY <1>1, Split DEF Byte
<1>4. QED
  BY <1>1, <1>2, <1>3

(* What a read does to what was delivered: nothing, or it delivers the next *)
(* integer.                                                                 *)
Delivered ==
  \/ UNCHANGED <<fields, received>>
  \/ fields # <<>> /\ received' = <<Head(fields)>> /\ fields' = Tail(fields)

(* What the readers may assume while there is something to read.            *)
LEMMA Parser ==
  ASSUME Inv, err = "EXIP_OK", fields # <<>>
  PROVE  /\ TypeInv /\ BufLen \in Nat \ {0} /\ rContent \in 0..BufLen
         /\ rIndx \in 0..BufLen /\ rIndx \in Nat /\ rBit \in 0..7 /\ rBit \in Byte
         /\ rbuf \in Buffer /\ file \in Seq(StreamByte) /\ Len(file) \in Nat
         /\ 8*rIndx + rBit <= 8*rContent /\ (withStream \/ file = <<>>)
         /\ Head(fields).n \in Nat \ {0} /\ FirstUnread \in Nat /\ Unread \in Nat
<1>1. TypeInv /\ Tiled /\ (withStream \/ file = <<>>)
  BY DEF Inv
<1>2. /\ BufLen \in Nat \ {0} /\ Len(file) \in Nat /\ rContent \in 0..BufLen
      /\ rIndx \in 0..BufLen /\ rBit \in 0..7 /\ bits \in Nat
  BY <1>1, Positions
<1>3. Head(fields).n \in Nat \ {0} /\ FirstUnread \in 1..bits+1 /\ Unread \in 0..bits
  BY <1>1, FirstField
<1>4. /\ rbuf \in Buffer /\ rBit \in Byte /\ file \in Seq(StreamByte)
      /\ 8*rIndx + rBit <= 8*rContent
  BY <1>1 DEF TypeInv, TypeOK
<1>5. FirstUnread \in Nat /\ Unread \in Nat /\ rIndx \in Nat
  BY <1>2, <1>3
<1>6. QED
  BY <1>1, <1>2, <1>3, <1>4, <1>5

(* readBits delivers the integer that is next.                              *)
LEMMA ReadBitsStep ==
  ASSUME Inv, closed, err = "EXIP_OK", fields # <<>>,
         UNCHANGED <<withStream, writer, bits, closed>>, readBits(Head(fields).n)
  PROVE  Inv' /\ Delivered
<1> DEFINE n == Head(fields).n
           short == rContent < rIndx + NumBytesToBeRead(n)
           code == ReadChunkError(n)
           rest == SubSeq(file, Got + 1, Len(file))
<1>1. /\ TypeInv /\ BufLen \in Nat \ {0} /\ rContent \in 0..BufLen /\ rIndx \in 0..BufLen
      /\ rBit \in 0..7 /\ rbuf \in Buffer /\ file \in Seq(StreamByte) /\ n \in Nat \ {0}
      /\ rBit \in Byte /\ FirstUnread \in Nat /\ Unread \in Nat
      /\ 8*rIndx + rBit <= 8*rContent /\ (withStream \/ file = <<>>) /\ rIndx \in Nat
  BY Parser
<1>2. ToBeRead /\ ReadPos = 8*rIndx + rBit /\ ReadPos <= 8*rContent
  BY <1>1 DEF Inv, ReadPos
<1>3. \A c \in Nat : NumBytesToBeRead(n) <= c => rBit + n <= 8*c
  BY <1>1, EnoughBytes
<1>4. NumBytesToBeRead(n) \in Nat
  <2>1. n + rBit - 1 \in Nat
    BY <1>1
  <2>2. (n + rBit - 1) \div 8 \in Nat
    BY <2>1, Split
  <2>3. QED
    BY <2>2 DEF NumBytesToBeRead
<1>5. /\ Copied + Got \in 0..BufLen /\ Refilled \in Buffer
      /\ rest \in Seq(StreamByte)
      /\ Holds(Refilled, Copied + Got, rBit, rest, FirstUnread, Unread)
  BY <1>1, <1>2, Refill DEF ToBeRead
<1> HIDE DEF n, short, code, rest
<1>6. CASE ~short /\ TakeBits(rbuf, rIndx, rBit, n) /\ UNCHANGED <<rContent, file>>
  <2>1. rContent - rIndx \in Nat /\ NumBytesToBeRead(n) <= rContent - rIndx
    BY <1>1, <1>4, <1>6 DEF short
  <2>2. rBit + n <= 8*(rContent - rIndx)
    BY <1>3, <2>1
  <2>3. 8*rIndx + rBit + n <= 8*rContent
    BY <1>1, <2>2
  <2>4. Holds(rbuf, rContent, 8*rIndx + rBit, file, FirstUnread, Unread)
    BY <1>2 DEF ToBeRead
  <2>5. QED
    BY <1>1, <1>6, <2>3, <2>4, TakeStep DEF Delivered, n
<1>7. CASE short /\ code = "EXIP_OK" /\ ReadsChunk /\ TakeBits(Refilled, 0, rBit, n)
  <2>1. withStream /\ ~(Copied + Got < NumBytesToBeRead(n))
    BY <1>7 DEF code, ReadChunkError
  <2>2. 8*0 + rBit + n <= 8*(Copied + Got)
    BY <1>1, <1>3, <1>4, <1>5, <2>1
  <2>3. rContent' = Copied + Got /\ file' = rest
    BY <1>7 DEF ReadsChunk, rest
  <2>4. 8*0 + rBit = rBit /\ 0 \in Nat
    BY <1>1
  <2>5. QED
    BY <1>1, <1>5, <1>7, <2>1, <2>2, <2>3, <2>4, TakeStep DEF Delivered, n
<1>8. CASE /\ short /\ code # "EXIP_OK"
           /\ err' = code /\ UNCHANGED <<rIndx, rBit, fields, received>>
           /\ IF code = "EXIP_UNEXPECTED_ERROR"
              THEN rbuf' = Refilled /\ ReadsChunk
              ELSE UNCHANGED <<rbuf, rContent, file>>
  <2>1. CASE code = "EXIP_UNEXPECTED_ERROR"
    <3>1. withStream
      BY <2>1 DEF code, ReadChunkError
    <3>2. rbuf' = Refilled /\ rContent' = Copied + Got /\ file' = rest
      BY <1>8, <2>1 DEF ReadsChunk, rest
    <3>3. QED
      BY <1>1, <1>5, <1>8, <3>1, <3>2, FailedStep DEF Delivered
  <2>2. CASE code # "EXIP_UNEXPECTED_ERROR"
    BY <1>1, <1>8, <2>2, FailedStep DEF Delivered
  <2>3. QED
    BY <2>1, <2>2
<1>9. QED
  BY <1>6, <1>7, <1>8 DEF readBits, n, short, code

(* readNextBit delivers the bit that is next.                               *)
LEMMA ReadBitStep ==
  ASSUME Inv, closed, err = "EXIP_OK", fields # <<>>, Head(fields).n = 1,
         UNCHANGED <<withStream, writer, bits, closed>>, readNextBit
  PROVE  Inv' /\ Delivered
<1> DEFINE got == IF withStream THEN Smaller(BufLen, Len(file)) ELSE 0
           fresh == [i \in 0..BufLen-1 |-> IF i < got THEN file[i + 1] ELSE rbuf[i]]
           rest == SubSeq(file, got + 1, Len(file))
<1>1. /\ TypeInv /\ BufLen \in Nat \ {0} /\ rContent \in 0..BufLen /\ rIndx \in 0..BufLen
      /\ rBit \in 0..7 /\ rbuf \in Buffer /\ file \in Seq(StreamByte)
      /\ rBit \in Byte /\ FirstUnread \in Nat /\ Unread \in Nat
      /\ 8*rIndx + rBit <= 8*rContent /\ (withStream \/ file = <<>>) /\ Len(file) \in Nat
      /\ rIndx \in Nat
  BY Parser
<1>2. ToBeRead /\ ReadPos = 8*rIndx + rBit /\ ReadPos <= 8*rContent
  BY <1>1 DEF Inv, ReadPos
<1>3. CASE ~(rContent <= rIndx)
  <2>1. TakeBits(rbuf, rIndx, rBit, 1) /\ UNCHANGED <<rContent, file>>
    BY <1>3 DEF readNextBit
  <2>2. 8*rIndx + rBit + 1 <= 8*rContent
    BY <1>1, <1>3
  <2>3. Holds(rbuf, rContent, 8*rIndx + rBit, file, FirstUnread, Unread)
    BY <1>2 DEF ToBeRead
  <2>4. QED
    BY <1>1, <2>1, <2>2, <2>3, TakeStep DEF Delivered
<1>4. CASE rContent <= rIndx
  <2>1. /\ rContent' = got /\ file' = rest
        /\ IF got = 0
           THEN /\ rIndx' = 0 /\ rBit' = 0 /\ rbuf' = fresh
                /\ err' = "EXIP_BUFFER_END_REACHED" /\ UNCHANGED <<fields, received>>
           ELSE TakeBits(fresh, 0, 0, 1)
    BY <1>4 DEF readNextBit
  <2>2. rIndx = rContent /\ rBit = 0 /\ Copied = 0
    BY <1>1, <1>4 DEF Copied
  <2>3. got = Got
    <3>1. CASE withStream
      BY <1>1, <2>2, <3>1 DEF Got
    <3>2. CASE ~withStream
      <4>1. Len(file) = 0
        BY <1>1, <3>2
      <4>2. QED
        BY <1>1, <2>2, <3>2, <4>1 DEF Got, Smaller
    <3>3. QED
      BY <3>1, <3>2
  <2> HIDE DEF got
  <2>4. /\ Got \in 0..BufLen /\ Refilled \in Buffer /\ rest \in Seq(StreamByte)
        /\ Holds(Refilled, Got, 0, rest, FirstUnread, Unread)
    <3>1. /\ Copied + Got \in 0..BufLen /\ Got \in 0..Len(file) /\ Refilled \in Buffer
          /\ rest \in Seq(StreamByte)
          /\ Holds(Refilled, Copied + Got, rBit, rest, FirstUnread, Unread)
      BY <1>1, <1>2, <2>3, Refill DEF ToBeRead
    <3>2. Copied + Got = Got
      BY <1>1, <2>2, <3>1
    <3>3. QED
      BY <2>2, <3>1, <3>2
  <2>5. fresh = Refilled
    <3>1. \A i \in 0..BufLen-1 :
            (IF i < got THEN file[i + 1] ELSE rbuf[i]) =
            (IF i < Copied THEN rbuf[rIndx + i]
             ELSE IF i < Copied + Got THEN file[i - Copied + 1] ELSE rbuf[i])
      BY <1>1, <2>2, <2>3, <2>4
    <3>2. QED
      BY <3>1 DEF Refilled
  <2> HIDE DEF fresh, rest
  <2>6. CASE got = 0
    <3>1. 0 \in 0..BufLen /\ 0 \in Byte
      BY <1>1 DEF Byte
    <3>2. withStream \/ rest = <<>>
      <4>1. ASSUME file = <<>>
            PROVE  rest = <<>>
        BY <2>6, <4>1 DEF rest
      <4>2. QED
        BY <1>1, <4>1
    <3>3. QED
      BY <2>1, <2>4, <2>5, <2>6, <3>1, <3>2, FailedStep DEF Delivered
  <2>7. CASE got # 0
    <3>1. withStream
      BY <2>7 DEF got
    <3>2. 8*0 + 0 + 1 <= 8*Got /\ 8*0 + 0 = 0 /\ 0 \in Nat /\ 0 \in Byte
      BY <2>3, <2>4, <2>7 DEF Byte
    <3>3. QED
      BY <1>1, <2>1, <2>3, <2>4, <2>5, <2>7, <3>1, <3>2, TakeStep DEF Delivered
  <2>8. QED
    BY <2>6, <2>7
<1>5. QED
  BY <1>3, <1>4

-----------------------------------------------------------------------------
(* The invariant.                                                           *)
LEMMA InitInv == Init => Inv
<1> SUFFICES ASSUME Init
             PROVE  Inv
  OBVIOUS
<1>1. BufLen \in Nat \ {0} /\ MaxBits \in Nat /\ StreamModes \subseteq BOOLEAN
  BY BitStreamAssumption
<1>2. Junk \in [Byte -> Nat]
  BY DEF Junk
<1>3. /\ buf \in Buffer /\ rbuf \in Buffer /\ 0 \in Byte /\ file \in Seq(StreamByte)
      /\ Len(file) = 0
  BY <1>2 DEF Init, Buffer, Byte
<1>4. TypeInv
  <2>1. /\ 8*0 + 0 <= 8*0 /\ 0 \in 0..BufLen - (IF 0 > 0 THEN 1 ELSE 0)
        /\ 0 \in 0..BufLen /\ 0 \in 0..MaxBits
    BY <1>1
  <2>2. \A i \in 1..Len(file) : file[i] \in [Byte -> Nat]
    BY <1>3
  <2>3. withStream \in BOOLEAN
    BY <1>1 DEF Init
  <2>4. /\ bufferIndx \in 0..BufLen - (IF bitPointer > 0 THEN 1 ELSE 0)
        /\ 8*rIndx + rBit <= 8*rContent
    BY <2>1 DEF Init
  <2>5. /\ bitPointer \in Byte /\ rBit \in Byte /\ rContent \in 0..BufLen
        /\ rIndx \in 0..BufLen /\ bits \in 0..MaxBits /\ closed \in BOOLEAN
    BY <1>3, <2>1 DEF Init
  <2>6. QED
    BY <1>3, <2>2, <2>3, <2>4, <2>5 DEF TypeInv, TypeOK
<1>5. Tiled /\ FirstUnread = 1
  BY <1>1 DEF Init, Tiled, FirstUnread
<1>6. Written
  <2>1. InBuffer(buf, 8*Len(file), WritePos)
    BY <1>1 DEF Init, InBuffer, WritePos, Byte
  <2>2. 8*Len(file) + WritePos = bits /\ InStream(file)
    BY <1>3 DEF Init, WritePos, InStream
  <2>3. QED
    BY <1>5, <2>1, <2>2 DEF Init, Written
<1>7. QED
  BY <1>4, <1>5, <1>6 DEF Init, Inv

(* Either way of reading keeps the invariant and delivers what is next.     *)
LEMMA ReadStep ==
  ASSUME Inv, Read
  PROVE  Inv' /\ Delivered
<1>1. /\ closed /\ err = "EXIP_OK" /\ fields # <<>>
      /\ UNCHANGED <<withStream, writer, bits, closed>>
  BY DEF Read
<1>2. CASE readBits(Head(fields).n)
  BY <1>1, <1>2, ReadBitsStep
<1>3. CASE Head(fields).n = 1 /\ readNextBit
  BY <1>1, <1>3, ReadBitStep
<1>4. QED
  BY <1>2, <1>3 DEF Read

(* Every step keeps the invariant.                                          *)
LEMMA NextInv == Inv /\ [Next]_vars => Inv'
<1> SUFFICES ASSUME Inv, [Next]_vars
             PROVE  Inv'
  OBVIOUS
<1>1. ASSUME NEW n \in Widths, writeNBits(n)
      PROVE  Inv'
  BY <1>1, WriteStep
<1>2. CASE writeNextBit
  BY <1>2, WriteBitStep
<1>3. CASE closeEXIStream
  BY <1>3, CloseStep
<1>4. CASE Read
  BY <1>4, ReadStep
<1>5. CASE UNCHANGED vars
  <2>1. /\ buf' = buf /\ bufferIndx' = bufferIndx /\ bitPointer' = bitPointer
        /\ rbuf' = rbuf /\ rContent' = rContent /\ rIndx' = rIndx /\ rBit' = rBit
        /\ withStream' = withStream /\ file' = file /\ closed' = closed /\ bits' = bits
        /\ fields' = fields /\ err' = err
    BY <1>5 DEF vars, writer, reader
  <2>2. TypeInv' /\ Tiled' = Tiled
    BY <2>1 DEF Inv, TypeInv, TypeOK, Tiled
  <2>3. Written' = Written /\ ToBeRead' = ToBeRead
    BY <2>1 DEF Written, WritePos, FirstUnread, InStream, InBuffer, ToBeRead, ReadPos, Unread,
                Holds
  <2>4. QED
    BY <2>1, <2>2, <2>3 DEF Inv
<1>6. QED
  BY <1>1, <1>2, <1>3, <1>4, <1>5 DEF Next

(* The invariant holds in every state of every behaviour.                   *)
LEMMA InvHolds == Spec => []Inv
<1>1. Init /\ [][Next]_vars => []Inv
  BY InitInv, NextInv, PTL
<1>2. QED
  BY <1>1, PTL DEF Spec

(* Neither side's position leaves the content of its buffer, in particular  *)
(* no write ends behind bufLen.                                             *)
THEOREM PositionsStayInside == Spec => []TypeOK
BY InvHolds, PTL DEF Inv, TypeInv

(* The parser reads the integers that were serialized, unchanged and in     *)
(* order.                                                                   *)
THEOREM IntegersAreReadBack == Spec => ReadsWhatWasWritten
<1>1. Init => Pipe!Init
  BY DEF Init, Pipe!Init
<1>2. ASSUME Inv, [Next]_vars
      PROVE  [Pipe!Next]_<<fields, received>>
  <2>1. ASSUME NEW n \in Width,
               fields' = Append(fields, IntAt(n, bits + 1)), bits + n <= MaxBits,
               received' = received
        PROVE  Pipe!Next
    <3>1. bits \in Nat /\ MaxBits \in Nat /\ n \in Nat \ {0}
      BY <1>2, Positions, BitStreamAssumption DEF Inv, Width
    <3>2. bits + 1 \in 1..MaxBits
      BY <2>1, <3>1
    <3>3. IntAt(n, bits + 1) \in {IntAt(m, f) : m \in Widths \cup {1}, f \in 1..MaxBits}
      BY <3>2 DEF Width
    <3>4. QED
      BY <2>1, <3>3 DEF Pipe!Next, Pipe!Serialize
  <2>2. ASSUME NEW n \in Widths, writeNBits(n)
        PROVE  [Pipe!Next]_<<fields, received>>
    <3>1. n \in Width /\ received' = received /\ bits + n <= MaxBits
      BY <2>2 DEF Width, writeNBits
    <3>2. fields' = Append(fields, IntAt(n, bits + 1)) \/ fields' = fields
      BY <2>2 DEF writeNBits, PutBits, Refused
    <3>3. QED
      BY <2>1, <3>1, <3>2
  <2>3. CASE writeNextBit
    <3>1. 1 \in Width /\ received' = received /\ bits + 1 <= MaxBits
      BY <2>3 DEF Width, writeNextBit
    <3>2. fields' = Append(fields, IntAt(1, bits + 1)) \/ fields' = fields
      BY <2>3 DEF writeNextBit, PutBits, Refused
    <3>3. QED
      BY <2>1, <3>1, <3>2
  <2>4. CASE closeEXIStream
    BY <2>4 DEF closeEXIStream
  <2>5. CASE Read
    BY <1>2, <2>5, ReadStep DEF Delivered, Pipe!Next, Pipe!Parse
  <2>6. CASE UNCHANGED vars
    BY <2>6 DEF vars
  <2>7. QED
    BY <1>2, <2>2, <2>3, <2>4, <2>5, <2>6 DEF Next
<1>3. QED
  BY <1>1, <1>2, InvHolds, PTL DEF Spec, ReadsWhatWasWritten

-----------------------------------------------------------------------------
(* From bits in bytes to the sequence of the bits that are on their way.    *)
LEMMA BitsOfBytes ==
  ASSUME NEW s \in Seq(StreamByte)
  PROVE  /\ BitsOf(s) \in Seq(Nat) /\ Len(BitsOf(s)) = 8*Len(s)
         /\ \A i \in 0..Len(s)-1, k \in Byte : BitsOf(s)[8*i + k + 1] = s[i+1][k]
         /\ \A j \in 1..8*Len(s) :
              \E i \in 0..Len(s)-1, k \in Byte : j = 8*i + k + 1
<1> DEFINE bit(j) == s[(j-1) \div 8 + 1][(j-1) % 8]
<1>1. Len(s) \in Nat /\ 8*Len(s) \in Nat
  BY LenProperties
<1>2. ASSUME NEW j \in 1..8*Len(s)
      PROVE  /\ bit(j) \in Nat
             /\ \E i \in 0..Len(s)-1, k \in Byte : j = 8*i + k + 1
  <2> DEFINE i == (j-1) \div 8
             k == (j-1) % 8
  <2>1. j - 1 \in Nat
    BY <1>1
  <2>2. j - 1 = 8*i + k /\ k \in Byte /\ i \in Nat
    BY <2>1, Split
  <2>3. bit(j) = s[i+1][k]
    OBVIOUS
  <2> HIDE DEF i, k, bit
  <2>4. i \in 0..Len(s)-1 /\ i + 1 \in 1..Len(s) /\ j = 8*i + k + 1
    BY <1>1, <2>2 DEF Byte
  <2>5. s[i+1] \in [Byte -> Nat]
    BY <2>4, ElementOfSeq DEF StreamByte
  <2>6. QED
    BY <2>2, <2>3, <2>4, <2>5
<1>3. BitsOf(s) = [j \in 1..8*Len(s) |-> bit(j)]
  BY DEF BitsOf
<1>4. ASSUME NEW i \in 0..Len(s)-1, NEW k \in Byte
      PROVE  BitsOf(s)[8*i + k + 1] = s[i+1][k]
  <2> DEFINE j == 8*i + k + 1
  <2>1. i \in Nat /\ k \in 0..7
    BY DEF Byte
  <2>2. j \in 1..8*Len(s) /\ j - 1 \in Nat /\ j - 1 = 8*i + k
    BY <1>1, <2>1
  <2>3. BitsOf(s)[j] = bit(j)
    BY <1>3, <2>2
  <2> HIDE DEF j
  <2>4. (j-1) \div 8 = i /\ (j-1) % 8 = k
    BY <2>1, <2>2, SplitOnce
  <2>5. QED
    BY <2>3, <2>4 DEF j
<1> HIDE DEF bit
<1>5. BitsOf(s) \in Seq(Nat) /\ Len(BitsOf(s)) = 8*Len(s)
  BY <1>1, <1>2, <1>3
<1>6. QED
  BY <1>2, <1>4, <1>5

(* The bits of the parser's buffer behind its position.                     *)
LEMMA ReaderSide ==
  ASSUME TypeInv, ReadPos <= 8*rContent
  PROVE  /\ ReaderBits \in Seq(Nat) /\ Len(ReaderBits) = 8*rContent - ReadPos
         /\ \A i \in 0..BufLen-1, k \in Byte :
              ReadPos <= 8*i + k /\ 8*i + k < 8*rContent
              => ReaderBits[8*i + k - ReadPos + 1] = rbuf[i][k]
         /\ \A j \in 1..8*rContent - ReadPos :
              \E i \in 0..BufLen-1, k \in Byte : j = 8*i + k - ReadPos + 1
<1> DEFINE t == Bytes(rbuf, rContent)
           b == BitsOf(t)
<1>1. /\ BufLen \in Nat /\ rContent \in 0..BufLen /\ ReadPos \in Nat /\ rbuf \in Buffer
  BY Positions DEF TypeInv, TypeOK
<1>2. /\ t \in Seq(StreamByte) /\ Len(t) = rContent
      /\ \A i \in 1..rContent : t[i] = IF i <= BufLen THEN rbuf[i-1] ELSE Junk
  <2>1. rContent \in Nat
    BY <1>1
  <2>2. QED
    BY <1>1, <2>1, BytesType
<1> HIDE DEF t
<1>3. /\ b \in Seq(Nat) /\ Len(b) = 8*rContent
      /\ \A i \in 0..rContent-1, k \in Byte : b[8*i + k + 1] = t[i+1][k]
      /\ \A j \in 1..8*rContent : \E i \in 0..rContent-1, k \in Byte : j = 8*i + k + 1
  BY <1>2, BitsOfBytes
<1> HIDE DEF b
<1>4. /\ ReadPos + 1 \in Int /\ Len(b) \in Int
      /\ \A j \in ReadPos+1..Len(b) : b[j] \in Nat
  BY <1>1, <1>3, ElementOfSeq
<1> DEFINE r == SubSeq(b, ReadPos + 1, Len(b))
<1>5. /\ r \in Seq(Nat) /\ Len(r) = IF ReadPos + 1 <= Len(b) THEN Len(b) - (ReadPos + 1) + 1 ELSE 0
      /\ \A j \in 1..Len(b) - (ReadPos + 1) + 1 : r[j] = b[(ReadPos + 1) + j - 1]
  BY <1>4, SubSeqProperties
<1>6. ReaderBits = r
  BY DEF ReaderBits, ReadPos, r, b, t
<1> HIDE DEF r
<1>7. Len(r) = 8*rContent - ReadPos
  BY <1>1, <1>3, <1>5
<1>8. ASSUME NEW i \in 0..BufLen-1, NEW k \in Byte, ReadPos <= 8*i + k, 8*i + k < 8*rContent
      PROVE  r[8*i + k - ReadPos + 1] = rbuf[i][k]
  <2>1. /\ i \in 0..rContent-1 /\ i + 1 \in 1..rContent /\ i + 1 <= BufLen
        /\ i = (i + 1) - 1 /\ k \in 0..7
    BY <1>1, <1>8 DEF Byte
  <2>2. /\ 8*i + k - ReadPos + 1 \in 1..Len(b) - (ReadPos + 1) + 1
        /\ (ReadPos + 1) + (8*i + k - ReadPos + 1) - 1 = 8*i + k + 1
    BY <1>1, <1>3, <1>8, <2>1
  <2>3. r[8*i + k - ReadPos + 1] = b[8*i + k + 1]
    BY <1>5, <2>2
  <2>4. b[8*i + k + 1] = t[i+1][k] /\ t[i+1] = rbuf[i]
    BY <1>2, <1>3, <2>1
  <2>5. QED
    BY <2>3, <2>4
<1>9. ASSUME NEW j \in 1..8*rContent - ReadPos
      PROVE  \E i \in 0..BufLen-1, k \in Byte : j = 8*i + k - ReadPos + 1
  <2>1. j + ReadPos \in 1..8*rContent
    BY <1>1
  <2>2. PICK i \in 0..rContent-1, k \in Byte : j + ReadPos = 8*i + k + 1
    BY <1>3, <2>1
  <2>3. i \in 0..BufLen-1 /\ j = 8*i + k - ReadPos + 1
    BY <1>1, <2>2 DEF Byte
  <2>4. QED
    BY <2>3
<1>10. QED
  BY <1>5, <1>6, <1>7, <1>8, <1>9

(* The bits that the serializer has in its buffer.                          *)
LEMMA WriterSide ==
  ASSUME TypeInv, ~closed
  PROVE  /\ WriterBits \in Seq(Nat) /\ Len(WriterBits) = WritePos
         /\ \A i \in 0..BufLen-1, k \in Byte :
              8*i + k < WritePos => WriterBits[8*i + k + 1] = buf[i][k]
         /\ \A j \in 1..WritePos : \E i \in 0..BufLen-1, k \in Byte : j = 8*i + k + 1
<1> DEFINE t == Bytes(buf, BufLen)
           b == BitsOf(t)
<1>1. BufLen \in Nat /\ WritePos \in 0..8*BufLen /\ buf \in Buffer
  BY Positions DEF TypeInv, TypeOK
<1>2. /\ t \in Seq(StreamByte) /\ Len(t) = BufLen
      /\ \A i \in 1..BufLen : t[i] = IF i <= BufLen THEN buf[i-1] ELSE Junk
  BY <1>1, BytesType
<1> HIDE DEF t
<1>3. /\ b \in Seq(Nat) /\ Len(b) = 8*BufLen
      /\ \A i \in 0..BufLen-1, k \in Byte : b[8*i + k + 1] = t[i+1][k]
      /\ \A j \in 1..8*BufLen : \E i \in 0..BufLen-1, k \in Byte : j = 8*i + k + 1
  BY <1>2, BitsOfBytes
<1> HIDE DEF b
<1>4. 1 \in Int /\ WritePos \in Int /\ \A j \in 1..WritePos : b[j] \in Nat
  <2>1. \A j \in 1..WritePos : j \in 1..Len(b)
    BY <1>1, <1>3
  <2>2. \A j \in 1..Len(b) : b[j] \in Nat
    BY <1>3, ElementOfSeq
  <2>3. WritePos \in Int
    BY <1>1
  <2>4. QED
    BY <2>1, <2>2, <2>3
<1> DEFINE w == SubSeq(b, 1, WritePos)
<1>5. /\ w \in Seq(Nat) /\ Len(w) = IF 1 <= WritePos THEN WritePos - 1 + 1 ELSE 0
      /\ \A j \in 1..WritePos - 1 + 1 : w[j] = b[1 + j - 1]
  BY <1>4, SubSeqProperties
<1>6. WriterBits = w
  BY DEF WriterBits, WritePos, w, b, t
<1> HIDE DEF w
<1>7. Len(w) = WritePos
  BY <1>1, <1>5
<1>8. ASSUME NEW i \in 0..BufLen-1, NEW k \in Byte, 8*i + k < WritePos
      PROVE  w[8*i + k + 1] = buf[i][k]
  <2>1. /\ 8*i + k + 1 \in 1..WritePos - 1 + 1 /\ 1 + (8*i + k + 1) - 1 = 8*i + k + 1
        /\ i + 1 \in 1..BufLen /\ i + 1 <= BufLen /\ (i + 1) - 1 = i
    BY <1>1, <1>8 DEF Byte
  <2>2. w[8*i + k + 1] = b[8*i + k + 1]
    BY <1>5, <2>1
  <2>3. b[8*i + k + 1] = t[i+1][k] /\ t[i+1] = buf[i]
    BY <1>2, <1>3, <2>1
  <2>4. QED
    BY <2>2, <2>3
<1>9. ASSUME NEW j \in 1..WritePos
      PROVE  \E i \in 0..BufLen-1, k \in Byte : j = 8*i + k + 1
  <2>1. j \in 1..8*BufLen
    BY <1>1
  <2>2. QED
    BY <1>3, <2>1
<1>10. QED
  BY <1>5, <1>6, <1>7, <1>8, <1>9

(* A prefix of consecutive numbers, as a function.                          *)
LEMMA FirstOnes ==
  ASSUME NEW t \in Seq(Nat), NEW u \in 0..Len(t), NEW first \in Nat,
         \A j \in 1..u : t[j] = first + j - 1
  PROVE  SubSeq(t, 1, u) = [k \in 1..u |-> first + k - 1]
<1> DEFINE s == SubSeq(t, 1, u)
           r == [k \in 1..u |-> first + k - 1]
<1>1. Len(t) \in Nat /\ u \in Nat /\ 1 \in Int /\ u \in Int
  BY LenProperties
<1>2. \A j \in 1..u : t[j] \in Nat /\ 1 + j - 1 = j
  BY <1>1
<1>3. /\ s \in Seq(Nat) /\ Len(s) = IF 1 <= u THEN u - 1 + 1 ELSE 0
      /\ \A j \in 1..u - 1 + 1 : s[j] = t[1 + j - 1]
  BY <1>1, <1>2, SubSeqProperties
<1>4. r \in Seq(Nat) /\ Len(r) = u /\ \A j \in 1..u : r[j] = first + j - 1
  <2>1. \A k \in 1..u : first + k - 1 \in Nat
    BY <1>1
  <2>2. QED
    BY <1>1, <2>1
<1> HIDE DEF s, r
<1>5. Len(s) = Len(r) /\ u - 1 + 1 = u
  BY <1>1, <1>3, <1>4
<1>6. \A j \in 1..Len(s) : s[j] = r[j]
  BY <1>2, <1>3, <1>4, <1>5
<1>7. s = r
  BY <1>3, <1>4, <1>5, <1>6, SeqEqual
<1>8. QED
  BY <1>7 DEF s, r

(* The elements of a concatenation.                                         *)
LEMMA Joined ==
  ASSUME NEW a \in Seq(Nat), NEW b \in Seq(Nat)
  PROVE  /\ a \o b \in Seq(Nat) /\ Len(a) \in Nat /\ Len(b) \in Nat
         /\ Len(a \o b) = Len(a) + Len(b)
         /\ \A j \in 1..Len(a) : (a \o b)[j] = a[j]
         /\ \A j \in 1..Len(b) : (a \o b)[Len(a) + j] = b[j]
<1> DEFINE t == a \o b
<1>1. Len(a) \in Nat /\ Len(b) \in Nat
  BY LenProperties
<1>2. /\ t \in Seq(Nat) /\ Len(t) = Len(a) + Len(b)
      /\ \A j \in 1..Len(a) + Len(b) : t[j] = IF j <= Len(a) THEN a[j] ELSE b[j - Len(a)]
  BY ConcatProperties
<1> HIDE DEF t
<1>3. ASSUME NEW j \in 1..Len(a)
      PROVE  t[j] = a[j]
  <2>1. j \in 1..Len(a) + Len(b) /\ j <= Len(a)
    BY <1>1
  <2>2. QED
    BY <1>2, <2>1
<1>4. ASSUME NEW j \in 1..Len(b)
      PROVE  t[Len(a) + j] = b[j]
  <2>1. /\ Len(a) + j \in 1..Len(a) + Len(b) /\ ~(Len(a) + j <= Len(a))
        /\ Len(a) + j - Len(a) = j
    BY <1>1
  <2>2. t[Len(a) + j] = b[Len(a) + j - Len(a)]
    BY <1>2, <2>1
  <2>3. QED
    BY <2>1, <2>2
<1>5. QED
  BY <1>1, <1>2, <1>3, <1>4 DEF t

(* The elements of a concatenation of three: written, in the buffer, to     *)
(* come.                                                                    *)
LEMMA ThreeParts ==
  ASSUME NEW a \in Seq(Nat), NEW b \in Seq(Nat), NEW c \in Seq(Nat),
         NEW t, t = a \o b \o c
  PROVE  /\ t \in Seq(Nat) /\ Len(t) = Len(a) + Len(b) + Len(c)
         /\ \A j \in 1..Len(a) : t[j] = a[j]
         /\ \A j \in 1..Len(b) : t[Len(a) + j] = b[j]
         /\ \A j \in 1..Len(c) : t[Len(a) + Len(b) + j] = c[j]
<1> DEFINE ab == a \o b
<1>1. /\ ab \in Seq(Nat) /\ Len(a) \in Nat /\ Len(b) \in Nat
      /\ Len(ab) = Len(a) + Len(b)
      /\ \A j \in 1..Len(a) : ab[j] = a[j]
      /\ \A j \in 1..Len(b) : ab[Len(a) + j] = b[j]
  BY Joined
<1> HIDE DEF ab
<1>2. /\ ab \o c \in Seq(Nat) /\ Len(c) \in Nat /\ Len(ab \o c) = Len(ab) + Len(c)
      /\ \A j \in 1..Len(ab) : (ab \o c)[j] = ab[j]
      /\ \A j \in 1..Len(c) : (ab \o c)[Len(ab) + j] = c[j]
  BY <1>1, Joined
<1>3. t = ab \o c
  BY DEF ab
<1>4. ASSUME NEW j \in 1..Len(a)
      PROVE  t[j] = a[j]
  <2>1. j \in 1..Len(ab)
    BY <1>1
  <2>2. QED
    BY <1>1, <1>2, <1>3, <2>1
<1>5. ASSUME NEW j \in 1..Len(b)
      PROVE  t[Len(a) + j] = b[j]
  <2>1. Len(a) + j \in 1..Len(ab)
    BY <1>1
  <2>2. QED
    BY <1>1, <1>2, <1>3, <2>1
<1>6. QED
  BY <1>1, <1>2, <1>3, <1>4, <1>5

(* While the document is being written.                                     *)
LEMMA WrittenBits ==
  ASSUME Inv, ~closed
  PROVE  NoBitLost
<1> DEFINE a == ReaderBits
           b == BitsOf(file)
           c == WriterBits
           t == OnTheWay
<1>1. /\ TypeInv /\ Tiled /\ Written /\ file \in Seq(StreamByte) /\ Len(file) \in Nat
      /\ BufLen \in Nat /\ bits \in Nat /\ WritePos \in Nat
  BY Positions DEF Inv, TypeInv
<1>2. FirstUnread = 1 /\ 8*Len(file) + WritePos = bits /\ rContent = 0 /\ ReadPos = 0
  BY DEF Inv, Written, ReadPos
<1>3. a \in Seq(Nat) /\ Len(a) = 0
  BY <1>1, <1>2, ReaderSide
<1>4. /\ b \in Seq(Nat) /\ Len(b) = 8*Len(file)
      /\ \A i \in 0..Len(file)-1, k \in Byte : b[8*i + k + 1] = file[i+1][k]
      /\ \A j \in 1..8*Len(file) :
           \E i \in 0..Len(file)-1, k \in Byte : j = 8*i + k + 1
  BY <1>1, BitsOfBytes
<1>5. /\ c \in Seq(Nat) /\ Len(c) = WritePos
      /\ \A i \in 0..BufLen-1, k \in Byte : 8*i + k < WritePos => c[8*i + k + 1] = buf[i][k]
      /\ \A j \in 1..WritePos : \E i \in 0..BufLen-1, k \in Byte : j = 8*i + k + 1
  BY <1>1, WriterSide
<1> HIDE DEF a, b, c
<1>6. /\ t \in Seq(Nat) /\ Len(t) = Len(a) + Len(b) + Len(c)
      /\ \A j \in 1..Len(b) : t[Len(a) + j] = b[j]
      /\ \A j \in 1..Len(c) : t[Len(a) + Len(b) + j] = c[j]
  <2>1. t = a \o b \o c
    BY DEF OnTheWay, a, b, c
  <2> HIDE DEF t
  <2>2. a \in Seq(Nat) /\ b \in Seq(Nat) /\ c \in Seq(Nat)
    BY <1>3, <1>4, <1>5
  <2>3. QED
    BY <2>1, <2>2, ThreeParts
<1> HIDE DEF t
<1>7. Len(t) = bits
  BY <1>1, <1>2, <1>3, <1>4, <1>5, <1>6
<1>8. ASSUME NEW j \in 1..bits
      PROVE  t[j] = 1 + j - 1
  <2>1. CASE j <= 8*Len(file)
    <3>1. j \in 1..8*Len(file) /\ j \in 1..Len(b) /\ Len(a) + j = j
      BY <1>1, <1>3, <1>4, <2>1
    <3>2. PICK i \in 0..Len(file)-1, k \in Byte : j = 8*i + k + 1
      BY <1>4, <3>1
    <3>3. i + 1 \in 1..Len(file) /\ i \in Nat /\ k \in Nat
      BY <1>1 DEF Byte
    <3>4. file[i+1][k] = 8*((i+1)-1) + k + 1
      BY <1>1, <3>3 DEF Written, InStream
    <3>5. b[j] = file[i+1][k]
      BY <1>4, <3>2
    <3>6. QED
      BY <1>6, <3>1, <3>2, <3>3, <3>4, <3>5
  <2>2. CASE ~(j <= 8*Len(file))
    <3> DEFINE m == j - 8*Len(file)
    <3>1. /\ m \in 1..WritePos /\ m \in 1..Len(c) /\ Len(a) + Len(b) + m = j
          /\ j = 8*Len(file) + m
      BY <1>1, <1>2, <1>3, <1>4, <1>5, <2>2
    <3> HIDE DEF m
    <3>2. PICK i \in 0..BufLen-1, k \in Byte : m = 8*i + k + 1
      BY <1>5, <3>1
    <3>3. i \in Nat /\ k \in Nat /\ 8*i + k < WritePos
      BY <1>1, <3>1, <3>2 DEF Byte
    <3>4. buf[i][k] = 8*Len(file) + 8*i + k + 1
      BY <1>1, <3>3 DEF Written, InBuffer
    <3>5. c[m] = buf[i][k]
      BY <1>5, <3>2, <3>3
    <3>6. t[j] = c[m]
      BY <1>6, <3>1
    <3>7. QED
      BY <1>1, <3>1, <3>2, <3>3, <3>4, <3>5, <3>6
  <2>3. QED
    BY <2>1, <2>2
<1>9. SubSeq(t, 1, bits) = [k \in 1..bits |-> 1 + k - 1]
  <2>1. bits \in 0..Len(t) /\ 1 \in Nat
    BY <1>1, <1>7
  <2>2. QED
    BY <1>6, <1>8, <2>1, FirstOnes
<1>10. bits + 1 - FirstUnread = bits /\ Len(t) - bits \in {0}
  BY <1>1, <1>2, <1>7
<1>11. QED
  BY <1>2, <1>9, <1>10 DEF NoBitLost, t

(* While it is being read.                                                  *)
LEMMA BitsToBeRead ==
  ASSUME Inv, closed, err = "EXIP_OK"
  PROVE  NoBitLost
<1> DEFINE a == ReaderBits
           b == BitsOf(file)
           t == OnTheWay
           behind == 8*rContent - ReadPos
<1>1. /\ TypeInv /\ Tiled /\ ToBeRead /\ file \in Seq(StreamByte) /\ Len(file) \in Nat
      /\ BufLen \in Nat /\ bits \in Nat /\ ReadPos \in Nat /\ rContent \in 0..BufLen
      /\ FirstUnread \in 1..bits+1 /\ Unread \in 0..bits /\ Unread = bits + 1 - FirstUnread
  BY Positions, FirstField DEF Inv, TypeInv, Unread
<1>2. /\ 0 <= behind /\ behind + 8*Len(file) - Unread \in 0..8
      /\ \A i \in 0..BufLen-1, k \in Byte :
           ReadPos <= 8*i + k /\ 8*i + k < 8*rContent /\ 8*i + k - ReadPos < Unread
           => rbuf[i][k] = FirstUnread + (8*i + k - ReadPos)
      /\ \A f \in 1..Len(file), k \in Byte :
           behind + 8*(f-1) + k < Unread => file[f][k] = FirstUnread + (behind + 8*(f-1) + k)
  BY <1>1 DEF ToBeRead, Holds
<1>3. /\ a \in Seq(Nat) /\ Len(a) = behind
      /\ \A i \in 0..BufLen-1, k \in Byte :
           ReadPos <= 8*i + k /\ 8*i + k < 8*rContent
           => a[8*i + k - ReadPos + 1] = rbuf[i][k]
      /\ \A j \in 1..behind : \E i \in 0..BufLen-1, k \in Byte : j = 8*i + k - ReadPos + 1
  <2>1. ReadPos <= 8*rContent
    BY <1>1, <1>2
  <2>2. QED
    BY <1>1, <2>1, ReaderSide
<1>4. /\ b \in Seq(Nat) /\ Len(b) = 8*Len(file)
      /\ \A i \in 0..Len(file)-1, k \in Byte : b[8*i + k + 1] = file[i+1][k]
      /\ \A j \in 1..8*Len(file) :
           \E i \in 0..Len(file)-1, k \in Byte : j = 8*i + k + 1
  BY <1>1, BitsOfBytes
<1>5. behind \in Nat /\ behind = 8*rContent - ReadPos
  BY <1>1, <1>2
<1> HIDE DEF a, b, behind
<1>6. /\ t \in Seq(Nat) /\ Len(t) = Len(a) + Len(b) + 0
      /\ \A j \in 1..Len(a) : t[j] = a[j]
      /\ \A j \in 1..Len(b) : t[Len(a) + j] = b[j]
  <2> DEFINE c == WriterBits
  <2>1. t = a \o b \o c /\ c = <<>>
    BY DEF OnTheWay, WriterBits, a, b
  <2>2. c \in Seq(Nat) /\ Len(c) = 0
    BY <2>1
  <2> HIDE DEF c, t
  <2>3. a \in Seq(Nat) /\ b \in Seq(Nat) /\ c \in Seq(Nat) /\ t = a \o b \o c
    BY <1>3, <1>4, <2>1, <2>2
  <2>4. /\ t \in Seq(Nat) /\ Len(t) = Len(a) + Len(b) + Len(c)
        /\ \A j \in 1..Len(a) : t[j] = a[j]
        /\ \A j \in 1..Len(b) : t[Len(a) + j] = b[j]
    BY <2>3, ThreeParts
  <2>5. QED
    BY <2>2, <2>4
<1> HIDE DEF t
<1>7. Len(t) - Unread \in 0..15 /\ Unread \in 0..Len(t)
  <2>1. Len(t) = behind + 8*Len(file)
    <3>1. Len(a) = behind /\ Len(b) = 8*Len(file) /\ Len(t) = Len(a) + Len(b) + 0
      BY <1>3, <1>4, <1>6
    <3>2. 8*Len(file) \in Nat
      BY <1>1
    <3>3. QED
      BY <1>5, <3>1, <3>2
  <2>2. QED
    BY <1>1, <1>2, <1>5, <2>1
<1>8. ASSUME NEW j \in 1..Unread
      PROVE  t[j] = FirstUnread + j - 1
  <2>1. CASE j <= behind
    <3>1. j \in 1..behind /\ j \in 1..Len(a)
      BY <1>1, <1>3, <1>5, <2>1
    <3>2. PICK i \in 0..BufLen-1, k \in Byte : j = 8*i + k - ReadPos + 1
      BY <1>3, <3>1
    <3>3. /\ i \in Nat /\ k \in Nat /\ ReadPos <= 8*i + k /\ 8*i + k < 8*rContent
          /\ 8*i + k - ReadPos < Unread /\ 8*i + k - ReadPos = j - 1
      BY <1>1, <1>5, <3>1, <3>2 DEF Byte
    <3>4. rbuf[i][k] = FirstUnread + (8*i + k - ReadPos)
      BY <1>2, <3>3
    <3>5. a[j] = rbuf[i][k]
      BY <1>3, <3>2, <3>3
    <3>6. t[j] = FirstUnread + (j - 1)
      BY <1>6, <3>1, <3>3, <3>4, <3>5
    <3>7. QED
      BY <1>1, <3>6
  <2>2. CASE ~(j <= behind)
    <3> DEFINE m == j - behind
    <3>1. /\ m \in 1..8*Len(file) /\ m \in 1..Len(b) /\ Len(a) + m = j /\ j = behind + m
      BY <1>1, <1>2, <1>3, <1>4, <1>5, <2>2
    <3> HIDE DEF m
    <3>2. PICK i \in 0..Len(file)-1, k \in Byte : m = 8*i + k + 1
      BY <1>4, <3>1
    <3>3. /\ i + 1 \in 1..Len(file) /\ i \in Nat /\ k \in Nat
          /\ behind + 8*((i+1)-1) + k < Unread /\ behind + 8*((i+1)-1) + k = j - 1
      BY <1>1, <1>5, <3>1, <3>2 DEF Byte
    <3>4. file[i+1][k] = FirstUnread + (behind + 8*((i+1)-1) + k)
      BY <1>2, <3>3
    <3>5. b[m] = file[i+1][k]
      BY <1>4, <3>2
    <3>6. t[j] = FirstUnread + (j - 1)
      BY <1>6, <3>1, <3>3, <3>4, <3>5
    <3>7. QED
      BY <1>1, <3>6
  <2>3. QED
    BY <2>1, <2>2
<1>9. SubSeq(t, 1, Unread) = [k \in 1..Unread |-> FirstUnread + k - 1]
  <2>1. FirstUnread \in Nat
    BY <1>1
  <2>2. QED
    BY <1>6, <1>7, <1>8, <2>1, FirstOnes
<1>10. QED
  BY <1>1, <1>7, <1>9 DEF NoBitLost, t

(* Flushing and refilling neither lose nor repeat nor move a bit.           *)
THEOREM NoBitIsLost == Spec => []NoBitLost
<1>1. Inv => NoBitLost
  <2>1. CASE closed /\ err # "EXIP_OK"
    BY <2>1 DEF NoBitLost
  <2>2. QED
    BY <2>1, WrittenBits, BitsToBeRead
<1>2. QED
  BY <1>1, InvHolds, PTL
=============================================================================
