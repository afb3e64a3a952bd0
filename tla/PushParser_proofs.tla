------------------------- MODULE PushParser_proofs --------------------------
(***************************************************************************)
(* Proofs that the push parser finds every event again at the place where  *)
(* it gave up, for all productions, sizes of the buffer and ways to cut    *)
(* the stream into chunks.                                                 *)
(***************************************************************************)
EXTENDS PushParser, SequenceTheorems, FiniteSetTheorems, WellFoundedInduction, TLAPS

Event == {[kind |-> k, effects |-> Effects(k)] : k \in Kinds}

StreamByte == [kind : Kinds, nth : Nat]

Rest == Unread \o wire

TypeInv ==
  /\ pending \in Seq(Event)
  /\ wire \in Seq(StreamByte) /\ buf \in Seq(StreamByte)
  /\ bufferIndx \in 0..Len(buf)

(* Where the events p begin when one follows the other, and where the last  *)
(* one ends.                                                                *)
IsLayout(at, p) ==
  /\ at \in [1..Len(p)+1 -> Nat]
  /\ at[1] = 0
  /\ \A i \in 1..Len(p) : at[i+1] = at[i] + Size(p[i].kind)
  /\ \A i, j \in 1..Len(p)+1 : i <= j => at[i] <= at[j]

(* The bytes r are those of the events p.                                   *)
Laid(r, p) ==
  \E at : /\ IsLayout(at, p)
          /\ Len(r) = at[Len(p)+1]
          /\ \A i \in 1..Len(p) : \A k \in 1..Size(p[i].kind) :
               r[at[i] + k] = [kind |-> p[i].kind, nth |-> k]

(* What the parser has given up on leaves room for the next chunk.          *)
RoomToMove == status = "EXIP_BUFFER_END_REACHED" => 2 * Len(Unread) <= BufLen

Inv == TypeInv /\ Laid(Rest, pending) /\ RoomToMove /\ NeverStuck

-----------------------------------------------------------------------------
(* Sequences from which some first elements were taken away.                *)
LEMMA Suffix ==
  ASSUME NEW S, NEW s \in Seq(S), NEW z \in 0..Len(s)
  PROVE  LET d == SubSeq(s, z + 1, Len(s))
         IN /\ d \in Seq(S) /\ Len(d) = Len(s) - z
            /\ \A i \in 1..Len(s) - z : d[i] = s[z + i]
<1> DEFINE d == SubSeq(s, z + 1, Len(s))
<1>1. Len(s) \in Nat
  BY LenProperties
<1>2. z + 1 \in Int /\ Len(s) \in Int /\ \A i \in z + 1 .. Len(s) : s[i] \in S
  BY <1>1, ElementOfSeq
<1>3. /\ d \in Seq(S)
      /\ Len(d) = IF z + 1 <= Len(s) THEN Len(s) - (z + 1) + 1 ELSE 0
      /\ \A i \in 1..Len(s) - (z + 1) + 1 : d[i] = s[(z + 1) + i - 1]
  BY <1>2, SubSeqProperties
<1> HIDE DEF d
<1>4. Len(d) = Len(s) - z
  BY <1>1, <1>3
<1>5. ASSUME NEW i \in 1..Len(s) - z
      PROVE  d[i] = s[z + i]
  <2>1. i \in 1..Len(s) - (z + 1) + 1 /\ (z + 1) + i - 1 = z + i
    BY <1>1
  <2>2. d[i] = s[(z + 1) + i - 1]
    BY <1>3, <2>1
  <2>3. QED
    BY <2>1, <2>2
<1>6. QED
  BY <1>3, <1>4, <1>5 DEF d

(* Dropping bytes twice is dropping their sum.                              *)
LEMMA SuffixOfSuffix ==
  ASSUME NEW S, NEW s \in Seq(S), NEW a \in 0..Len(s), NEW z \in 0..Len(s) - a
  PROVE  LET d == SubSeq(s, a + 1, Len(s))
         IN SubSeq(d, z + 1, Len(d)) = SubSeq(s, a + z + 1, Len(s))
<1> DEFINE d == SubSeq(s, a + 1, Len(s))
           e == SubSeq(d, z + 1, Len(d))
           f == SubSeq(s, (a + z) + 1, Len(s))
<1>1. Len(s) \in Nat /\ a + z \in 0..Len(s)
  BY LenProperties
<1>2. /\ d \in Seq(S) /\ Len(d) = Len(s) - a
      /\ \A i \in 1..Len(s) - a : d[i] = s[a + i]
  BY Suffix
<1>3. /\ f \in Seq(S) /\ Len(f) = Len(s) - (a + z)
      /\ \A i \in 1..Len(s) - (a + z) : f[i] = s[(a + z) + i]
  BY <1>1, Suffix
<1> HIDE DEF d, f
<1>4. /\ e \in Seq(S) /\ Len(e) = Len(d) - z
      /\ \A i \in 1..Len(d) - z : e[i] = d[z + i]
  <2>1. z \in 0..Len(d)
    BY <1>1, <1>2
  <2>2. QED
    BY <1>2, <2>1, Suffix
<1> HIDE DEF e
<1>5. ASSUME NEW i \in 1..Len(e)
      PROVE  e[i] = f[i]
  <2>1. /\ i \in 1..Len(d) - z /\ z + i \in 1..Len(s) - a
        /\ i \in 1..Len(s) - (a + z) /\ a + (z + i) = (a + z) + i
    BY <1>1, <1>2, <1>4
  <2>2. e[i] = d[z + i] /\ d[z + i] = s[a + (z + i)] /\ f[i] = s[(a + z) + i]
    BY <1>2, <1>3, <1>4, <2>1
  <2>3. QED
    BY <2>1, <2>2
<1>6. Len(e) = Len(f)
  BY <1>1, <1>2, <1>3, <1>4
<1>7. e = f
  BY <1>3, <1>4, <1>5, <1>6, SeqEqual
<1>8. QED
  BY <1>7 DEF d, e, f

(* Bytes that arrive behind a sequence do not matter to what is dropped in  *)
(* front.                                                                   *)
LEMMA SuffixOfConcat ==
  ASSUME NEW S, NEW s \in Seq(S), NEW t \in Seq(S), NEW z \in 0..Len(s)
  PROVE  SubSeq(s \o t, z + 1, Len(s \o t)) = SubSeq(s, z + 1, Len(s)) \o t
<1> DEFINE x == s \o t
           y == SubSeq(s, z + 1, Len(s))
           l == SubSeq(x, z + 1, Len(x))
           w == y \o t
<1>1. Len(s) \in Nat /\ Len(t) \in Nat
  BY LenProperties
<1>2. /\ x \in Seq(S) /\ Len(x) = Len(s) + Len(t)
      /\ \A i \in 1..Len(s) + Len(t) : x[i] = IF i <= Len(s) THEN s[i] ELSE t[i - Len(s)]
  BY ConcatProperties
<1>3. /\ y \in Seq(S) /\ Len(y) = Len(s) - z
      /\ \A i \in 1..Len(s) - z : y[i] = s[z + i]
  BY Suffix
<1> HIDE DEF x, y
<1>4. /\ l \in Seq(S) /\ Len(l) = Len(x) - z
      /\ \A i \in 1..Len(x) - z : l[i] = x[z + i]
  <2>1. z \in 0..Len(x)
    BY <1>1, <1>2
  <2>2. QED
    BY <1>2, <2>1, Suffix
<1>5. /\ w \in Seq(S) /\ Len(w) = Len(y) + Len(t)
      /\ \A i \in 1..Len(y) + Len(t) : w[i] = IF i <= Len(y) THEN y[i] ELSE t[i - Len(y)]
  BY <1>3, ConcatProperties
<1> HIDE DEF l, w
<1>6. Len(w) = Len(l)
  BY <1>1, <1>2, <1>3, <1>4, <1>5
<1>7. ASSUME NEW i \in 1..Len(l)
      PROVE  l[i] = w[i]
  <2>1. /\ l[i] = x[z + i] /\ z + i \in 1..Len(s) + Len(t)
        /\ i \in 1..Len(y) + Len(t)
    <3>1. /\ i \in 1..Len(x) - z /\ z + i \in 1..Len(s) + Len(t)
          /\ i \in 1..Len(y) + Len(t)
      BY <1>1, <1>2, <1>3, <1>4
    <3>2. QED
      BY <1>4, <3>1
  <2>2. CASE i <= Len(y)
    <3>1. z + i <= Len(s) /\ i \in 1..Len(s) - z
      BY <1>1, <1>3, <2>1, <2>2
    <3>2. QED
      BY <1>2, <1>3, <1>5, <2>1, <2>2, <3>1
  <2>3. CASE ~(i <= Len(y))
    <3>1. ~(z + i <= Len(s)) /\ (z + i) - Len(s) = i - Len(y)
      BY <1>1, <1>3, <2>1, <2>3
    <3>2. QED
      BY <1>2, <1>5, <2>1, <2>3, <3>1
  <2>4. QED
    BY <2>2, <2>3
<1>8. l = w
  BY <1>4, <1>5, <1>6, <1>7, SeqEqual
<1>9. QED
  BY <1>8 DEF l, w, x, y

-----------------------------------------------------------------------------
(* Every production has an event code, so no event is without bytes.        *)
LEMMA SizePositive ==
  \A k \in Kinds : Size(k) \in Nat \ {0}
<1> SUFFICES ASSUME NEW k \in Kinds
             PROVE  Size(k) \in Nat \ {0}
  OBVIOUS
<1> DEFINE S == {i \in 1..Len(Steps[k]) : Steps[k][i] = read}
<1>1. Len(Steps[k]) \in Nat \ {0} /\ Steps[k][1] = read
  <2>1. k \in {"EE", "SE", "CHint", "CHstring", "ATstring", "CHlist"}
    BY PushParserAssumption DEF Steps
  <2>2. QED
    BY <2>1 DEF Steps
<1>2. IsFiniteSet(S)
  <2>1. 1 \in Int /\ Len(Steps[k]) \in Int
    BY <1>1
  <2>2. IsFiniteSet(1..Len(Steps[k]))
    BY <2>1, FS_Interval, Zenon
  <2>3. QED
    BY <2>2, FS_Subset
<1>3. S # {}
  BY <1>1
<1> HIDE DEF S
<1>4. Cardinality(S) \in Nat \ {0}
  BY <1>2, <1>3, FS_CardinalityType, FS_EmptySet
<1>5. QED
  BY <1>4 DEF S, Size

(* The bytes of an event: numbered, and as many as its size.                *)
LEMMA BytesOfType ==
  ASSUME NEW k \in Kinds
  PROVE  /\ BytesOf(k) \in Seq(StreamByte) /\ Len(BytesOf(k)) = Size(k)
         /\ \A i \in 1..Size(k) : BytesOf(k)[i] = [kind |-> k, nth |-> i]
<1>1. Size(k) \in Nat
  BY SizePositive
<1>2. \A i \in 1..Size(k) : [kind |-> k, nth |-> i] \in StreamByte
  BY <1>1 DEF StreamByte
<1> HIDE DEF StreamByte
<1>3. QED
  BY <1>1, <1>2 DEF BytesOf

(* Events in flight are of a known kind.                                    *)
LEMMA EventsType ==
  ASSUME NEW p \in Seq(Event)
  PROVE  Len(p) \in Nat /\ \A i \in 1..Len(p) : p[i] \in Event /\ p[i].kind \in Kinds
<1>1. Len(p) \in Nat /\ \A i \in 1..Len(p) : p[i] \in Event
  BY LenProperties, ElementOfSeq
<1>2. \A e \in Event : e.kind \in Kinds
  BY DEF Event
<1>3. QED
  BY <1>1, <1>2

(* An event is appended with its bytes.                                     *)
LEMMA LaidAppend ==
  ASSUME NEW r \in Seq(StreamByte), NEW p \in Seq(Event), Laid(r, p), NEW k \in Kinds
  PROVE  Laid(r \o BytesOf(k), Append(p, [kind |-> k, effects |-> Effects(k)]))
<1> DEFINE e == [kind |-> k, effects |-> Effects(k)]
           p2 == Append(p, e)
           r2 == r \o BytesOf(k)
           n == Len(p)
<1>1. n \in Nat /\ Len(r) \in Nat /\ Size(k) \in Nat \ {0}
  BY SizePositive, LenProperties
<1>2. PICK at : /\ IsLayout(at, p)
                /\ Len(r) = at[n+1]
                /\ \A i \in 1..n : \A j \in 1..Size(p[i].kind) :
                     r[at[i] + j] = [kind |-> p[i].kind, nth |-> j]
  BY DEF Laid
<1>3. /\ at \in [1..n+1 -> Nat] /\ at[1] = 0
      /\ \A i \in 1..n : at[i+1] = at[i] + Size(p[i].kind)
      /\ \A i, j \in 1..n+1 : i <= j => at[i] <= at[j]
  BY <1>2 DEF IsLayout
<1>4. /\ Len(p2) = n+1 /\ p2[n+1] = e /\ \A i \in 1..n : p2[i] = p[i]
  <2>1. e \in Event
    BY DEF Event
  <2>2. QED
    BY <2>1, AppendProperties, Zenon
<1>5. /\ Len(r2) = Len(r) + Size(k)
      /\ \A i \in 1..Len(r) : r2[i] = r[i]
      /\ \A i \in 1..Size(k) : r2[Len(r) + i] = [kind |-> k, nth |-> i]
  <2>1. /\ Len(r2) = Len(r) + Size(k)
        /\ \A i \in 1..Len(r) + Size(k) :
             r2[i] = IF i <= Len(r) THEN r[i] ELSE BytesOf(k)[i - Len(r)]
    BY BytesOfType, ConcatProperties
  <2>2. \A i \in 1..Size(k) : BytesOf(k)[i] = [kind |-> k, nth |-> i]
    BY BytesOfType
  <2> HIDE DEF r2
  <2>3. \A i \in 1..Len(r) : r2[i] = r[i]
    BY <1>1, <2>1
  <2>4. ASSUME NEW i \in 1..Size(k)
        PROVE  r2[Len(r) + i] = [kind |-> k, nth |-> i]
    <3>1. /\ Len(r) + i \in 1..Len(r) + Size(k) /\ ~(Len(r) + i <= Len(r))
          /\ (Len(r) + i) - Len(r) = i
      BY <1>1
    <3>2. r2[Len(r) + i] = BytesOf(k)[i]
      BY <2>1, <3>1
    <3>3. QED
      BY <2>2, <3>2
  <2>5. QED
    BY <2>1, <2>3, <2>4
<1> DEFINE at2 == [i \in 1..n+2 |-> IF i = n+2 THEN at[n+1] + Size(k) ELSE at[i]]
<1> HIDE DEF p2, r2, e
<1>6. /\ at2[n+2] = at[n+1] + Size(k)
      /\ \A i \in 1..n+1 : at2[i] = at[i]
      /\ at2 \in [1..n+2 -> Nat]
  BY <1>1, <1>3
<1> HIDE DEF at2, n
<1>7. e.kind = k
  BY DEF e
<1>8. \A i \in 1..n+1 : i = n+1 \/ i \in 1..n
  BY <1>1
<1>9. IsLayout(at2, p2)
  <2>1. at2 \in [1..Len(p2)+1 -> Nat] /\ at2[1] = 0
    <3>1. Len(p2)+1 = n+2 /\ 1 \in 1..n+1
      BY <1>1, <1>4
    <3>2. QED
      BY <1>3, <1>6, <3>1
  <2>2. \A i \in 1..Len(p2) : at2[i+1] = at2[i] + Size(p2[i].kind)
    <3>1. at2[(n+1)+1] = at2[n+1] + Size(p2[n+1].kind)
      <4>1. (n+1)+1 = n+2 /\ n+1 \in 1..n+1
        BY <1>1
      <4>2. QED
        BY <1>4, <1>6, <1>7, <4>1
    <3>2. \A i \in 1..n : at2[i+1] = at2[i] + Size(p2[i].kind)
      <4>1. \A i \in 1..n : i \in 1..n+1 /\ i+1 \in 1..n+1
        BY <1>1
      <4>2. QED
        BY <1>3, <1>4, <1>6, <4>1
    <3>3. QED
      BY <1>4, <1>8, <3>1, <3>2
  <2>3. ASSUME NEW i \in 1..n+2, NEW j \in 1..n+2, i <= j
        PROVE  at2[i] <= at2[j]
    <3>1. \/ i = n+2 /\ j = n+2
          \/ i \in 1..n+1 /\ j = n+2
          \/ i \in 1..n+1 /\ j \in 1..n+1
      BY <1>1, <2>3
    <3>2. CASE i = n+2 /\ j = n+2
      BY <1>6, <3>2
    <3>3. CASE i \in 1..n+1 /\ j = n+2
      <4>1. n+1 \in 1..n+1 /\ i <= n+1
        BY <1>1, <3>3
      <4>2. at[i] <= at[n+1] /\ at[i] \in Nat /\ at[n+1] \in Nat
        BY <1>3, <3>3, <4>1
      <4>3. QED
        BY <1>1, <1>6, <3>3, <4>2
    <3>4. CASE i \in 1..n+1 /\ j \in 1..n+1
      BY <1>3, <1>6, <2>3, <3>4
    <3>5. QED
      BY <3>1, <3>2, <3>3, <3>4
  <2>4. Len(p2)+1 = n+2
    BY <1>1, <1>4
  <2>5. QED
    BY <2>1, <2>2, <2>3, <2>4 DEF IsLayout
<1>10. Len(r2) = at2[Len(p2)+1]
  <2>1. Len(p2)+1 = n+2
    BY <1>1, <1>4
  <2>2. QED
    BY <1>2, <1>5, <1>6, <2>1
<1>11. ASSUME NEW i \in 1..Len(p2), NEW j \in 1..Size(p2[i].kind)
       PROVE  r2[at2[i] + j] = [kind |-> p2[i].kind, nth |-> j]
  <2>1. CASE i = n+1
    <3>1. p2[i].kind = k /\ at2[i] = Len(r)
      BY <1>2, <1>4, <1>6, <1>7, <2>1
    <3>2. QED
      BY <1>5, <1>11, <3>1
  <2>2. CASE i \in 1..n
    <3>1. p2[i] = p[i] /\ at2[i] = at[i] /\ at[i] \in Nat
      BY <1>1, <1>3, <1>4, <1>6, <2>2
    <3>2. p[i].kind \in Kinds
      BY <2>2, EventsType DEF n
    <3>3. j \in 1..Size(p[i].kind) /\ Size(p[i].kind) \in Nat
      BY <1>11, <3>1, <3>2, SizePositive
    <3>4. at[i+1] = at[i] + Size(p[i].kind) /\ at[i+1] <= at[n+1] /\ at[n+1] = Len(r)
      BY <1>1, <1>2, <1>3, <2>2
    <3>5. at[i] + j \in 1..Len(r)
      BY <1>1, <3>1, <3>3, <3>4
    <3>6. r[at[i] + j] = [kind |-> p[i].kind, nth |-> j]
      BY <1>2, <2>2, <3>3 DEF n
    <3>7. QED
      BY <1>5, <3>1, <3>5, <3>6
  <2>3. QED
    BY <1>4, <1>8, <2>1, <2>2
<1>12. Laid(r2, p2)
  BY <1>9, <1>10, <1>11 DEF Laid
<1>13. QED
  BY <1>12 DEF p2, r2, e

(* Bytes that are there are those of an event, the first of the pending ones.*)
LEMMA LaidFirst ==
  ASSUME NEW r \in Seq(StreamByte), NEW p \in Seq(Event), Laid(r, p), r # <<>>
  PROVE  /\ p # <<>> /\ p[1].kind \in Kinds /\ Size(p[1].kind) <= Len(r)
         /\ \A k \in 1..Size(p[1].kind) : r[k] = [kind |-> p[1].kind, nth |-> k]
<1> DEFINE n == Len(p)
<1>1. n \in Nat /\ Len(r) \in Nat \ {0}
  BY LenProperties, EmptySeq
<1>2. PICK at : /\ IsLayout(at, p)
                /\ Len(r) = at[n+1]
                /\ \A i \in 1..n : \A j \in 1..Size(p[i].kind) :
                     r[at[i] + j] = [kind |-> p[i].kind, nth |-> j]
  BY DEF Laid
<1>3. /\ at \in [1..n+1 -> Nat] /\ at[1] = 0
      /\ \A i \in 1..n : at[i+1] = at[i] + Size(p[i].kind)
      /\ \A i, j \in 1..n+1 : i <= j => at[i] <= at[j]
  BY <1>2 DEF IsLayout
<1>4. n # 0
  BY <1>1, <1>2, <1>3
<1>5. 1 \in 1..n /\ 2 \in 1..n+1 /\ n+1 \in 1..n+1 /\ 2 <= n+1
  BY <1>1, <1>4
<1>6. p[1].kind \in Kinds
  BY <1>5, EventsType
<1>7. at[2] = Size(p[1].kind) /\ at[2] <= at[n+1]
  <2>1. at[1+1] = at[1] + Size(p[1].kind)
    BY <1>3, <1>5
  <2>2. Size(p[1].kind) \in Nat
    BY <1>6, SizePositive
  <2>3. at[2] <= at[n+1]
    BY <1>3, <1>5
  <2>4. QED
    BY <1>3, <2>1, <2>2, <2>3
<1>8. \A k \in 1..Size(p[1].kind) : r[k] = [kind |-> p[1].kind, nth |-> k]
  <2> TAKE k \in 1..Size(p[1].kind)
  <2>1. r[at[1] + k] = [kind |-> p[1].kind, nth |-> k]
    BY <1>2, <1>5
  <2>2. at[1] + k = k
    BY <1>3, <1>6, SizePositive
  <2>3. QED
    BY <2>1, <2>2
<1>9. QED
  BY <1>2, <1>4, <1>6, <1>7, <1>8

(* When the first event is parsed, the others are left.                     *)
LEMMA LaidTail ==
  ASSUME NEW r \in Seq(StreamByte), NEW p \in Seq(Event), Laid(r, p), p # <<>>
  PROVE  Laid(SubSeq(r, Size(p[1].kind) + 1, Len(r)), Tail(p))
<1> DEFINE n == Len(p)
           z == Size(p[1].kind)
           p2 == Tail(p)
           r2 == SubSeq(r, z + 1, Len(r))
<1>1. n \in Nat \ {0} /\ Len(r) \in Nat
  BY LenProperties, EmptySeq
<1>2. PICK at : /\ IsLayout(at, p)
                /\ Len(r) = at[n+1]
                /\ \A i \in 1..n : \A j \in 1..Size(p[i].kind) :
                     r[at[i] + j] = [kind |-> p[i].kind, nth |-> j]
  BY DEF Laid
<1>3. /\ at \in [1..n+1 -> Nat] /\ at[1] = 0
      /\ \A i \in 1..n : at[i+1] = at[i] + Size(p[i].kind)
      /\ \A i, j \in 1..n+1 : i <= j => at[i] <= at[j]
  BY <1>2 DEF IsLayout
<1>4. z \in Nat \ {0}
  <2>1. 1 \in 1..n
    BY <1>1
  <2>2. QED
    BY <2>1, EventsType, SizePositive
<1>5. at[2] = z /\ \A i \in 2..n+1 : at[i] \in Nat /\ z <= at[i]
  <2>1. at[1+1] = at[1] + z
    BY <1>1, <1>3
  <2>2. \A i \in 2..n+1 : 2 \in 1..n+1 /\ i \in 1..n+1 /\ 2 <= i
    BY <1>1
  <2> HIDE DEF z
  <2>3. at[2] = z
    BY <1>3, <1>4, <2>1
  <2>4. QED
    BY <1>3, <2>2, <2>3
<1>6. /\ p2 \in Seq(Event) /\ Len(p2) = n-1 /\ \A i \in 1..n-1 : p2[i] = p[i+1]
  BY HeadTailProperties
<1>7. /\ Len(r2) = Len(r) - z /\ \A i \in 1..Len(r)-z : r2[i] = r[z+i]
  <2>1. z <= Len(r)
    BY <1>1, <1>2, <1>5
  <2>2. z \in 0..Len(r)
    BY <1>1, <1>4, <2>1
  <2> HIDE DEF z
  <2>3. QED
    BY <2>2, Suffix
<1> DEFINE at2 == [i \in 1..n |-> at[i+1] - z]
<1> HIDE DEF p2, r2, z
<1>8. at2 \in [1..n -> Nat] /\ \A i \in 1..n : at2[i] = at[i+1] - z
  <2>1. \A i \in 1..n : at[i+1] \in Nat /\ z <= at[i+1]
    BY <1>1, <1>5
  <2>2. QED
    BY <1>4, <2>1
<1> HIDE DEF at2
<1>9. IsLayout(at2, p2)
  <2>1. Len(p2)+1 = n /\ 1 \in 1..n
    BY <1>1, <1>6 DEF n
  <2>2. at2[1] = 0
    BY <1>4, <1>5, <1>8, <2>1
  <2>3. ASSUME NEW i \in 1..Len(p2)
        PROVE  at2[i+1] = at2[i] + Size(p2[i].kind)
    <3>1. i \in 1..n /\ i+1 \in 1..n /\ i+1 \in 2..n+1
      BY <1>1, <1>6
    <3>2. /\ at2[i+1] = at[(i+1)+1] - z /\ at2[i] = at[i+1] - z /\ p2[i] = p[i+1]
          /\ at[(i+1)+1] = at[i+1] + Size(p[i+1].kind) /\ at[i+1] \in Nat
      BY <1>3, <1>5, <1>6, <1>8, <3>1
    <3>3. Size(p[i+1].kind) \in Nat
      BY <3>1, EventsType, SizePositive DEF n
    <3>4. QED
      BY <1>4, <3>2, <3>3
  <2>4. ASSUME NEW i \in 1..n, NEW j \in 1..n, i <= j
        PROVE  at2[i] <= at2[j]
    <3>1. i+1 \in 1..n+1 /\ j+1 \in 1..n+1 /\ i+1 <= j+1
      BY <1>1, <2>4
    <3>2. at[i+1] <= at[j+1] /\ at[i+1] \in Nat /\ at[j+1] \in Nat
      BY <1>3, <3>1
    <3>3. QED
      BY <1>4, <1>8, <3>2
  <2>5. QED
    BY <1>8, <2>1, <2>2, <2>3, <2>4 DEF IsLayout
<1>10. Len(r2) = at2[Len(p2)+1]
  <2>1. Len(p2)+1 = n /\ n \in 1..n
    BY <1>1, <1>6
  <2>2. QED
    BY <1>2, <1>7, <1>8, <2>1
<1>11. ASSUME NEW i \in 1..Len(p2), NEW j \in 1..Size(p2[i].kind)
       PROVE  r2[at2[i] + j] = [kind |-> p2[i].kind, nth |-> j]
  <2>1. i \in 1..n /\ i+1 \in 1..n /\ i+1 \in 2..n+1 /\ p2[i] = p[i+1]
    BY <1>1, <1>6
  <2>2. Size(p[i+1].kind) \in Nat
    BY <2>1, EventsType, SizePositive DEF n
  <2>3. r[at[i+1] + j] = [kind |-> p2[i].kind, nth |-> j]
    BY <1>2, <1>11, <2>1
  <2>4. /\ at2[i] = at[i+1] - z /\ at2[i] \in Nat /\ at[i+1] \in Nat
        /\ at[(i+1)+1] = at[i+1] + Size(p[i+1].kind)
        /\ at[(i+1)+1] <= at[n+1]
    <3>1. (i+1)+1 \in 1..n+1 /\ n+1 \in 1..n+1 /\ (i+1)+1 <= n+1
      BY <1>1, <2>1
    <3>2. QED
      BY <1>3, <1>5, <1>8, <2>1, <3>1
  <2>5. at2[i] + j \in 1..Len(r)-z /\ z + (at2[i] + j) = at[i+1] + j
    <3>1. j \in 1..Size(p[i+1].kind)
      BY <1>11, <2>1
    <3> DEFINE a == at[i+1]
               y == Size(p[i+1].kind)
    <3>2. /\ a \in Nat /\ y \in Nat /\ j \in 1..y /\ at2[i] = a - z /\ a - z \in Nat
          /\ a + y <= Len(r)
      BY <1>2, <2>2, <2>4, <3>1
    <3> HIDE DEF a, y
    <3>3. at2[i] + j \in 1..Len(r)-z /\ z + (at2[i] + j) = a + j
      BY <1>1, <1>4, <3>2
    <3>4. QED
      BY <3>3 DEF a
  <2>6. QED
    BY <1>7, <2>3, <2>5
<1>12. Laid(r2, p2)
  BY <1>9, <1>10, <1>11 DEF Laid
<1>13. QED
  BY <1>12 DEF r2, p2, z

(* Every set of natural numbers that is not empty has a least element.      *)
LEMMA LeastNatural ==
  ASSUME NEW T \in SUBSET Nat, T # {}
  PROVE  \E m \in T : \A k \in T : m <= k
<1>1. IsWellFoundedOn(OpToRel(<, Nat), Nat)
  BY NatLessThanWellFounded
<1>2. PICK m \in T : \A k \in T : ~ (<<k, m>> \in OpToRel(<, Nat))
  BY <1>1, WFMin
<1>3. \A k \in T : ~(k < m)
  BY <1>2 DEF OpToRel
<1>4. QED
  BY <1>3

(* The bytes of a layout are what the events are when flattened: the prefix *)
(* of r up to the end of event i solves the recursion of FlattenSeq, and    *)
(* the recursion has no other solution.                                     *)
LEMMA LaidFlat ==
  ASSUME NEW r \in Seq(StreamByte), NEW p \in Seq(Event), Laid(r, p)
  PROVE  r = FlattenSeq([i \in 1..Len(p) |-> BytesOf(p[i].kind)])
<1> DEFINE n == Len(p)
           seqs == [i \in 1..n |-> BytesOf(p[i].kind)]
           Solves(f) == f = [i \in 1..n |-> IF i = 1 THEN seqs[i] ELSE f[i-1] \o seqs[i]]
<1>1. n \in Nat /\ Len(r) \in Nat
  BY LenProperties
<1>2. PICK at : /\ IsLayout(at, p)
                /\ Len(r) = at[n+1]
                /\ \A i \in 1..n : \A j \in 1..Size(p[i].kind) :
                     r[at[i] + j] = [kind |-> p[i].kind, nth |-> j]
  BY DEF Laid
<1>3. /\ at \in [1..n+1 -> Nat] /\ at[1] = 0
      /\ \A i \in 1..n : at[i+1] = at[i] + Size(p[i].kind)
      /\ \A i, j \in 1..n+1 : i <= j => at[i] <= at[j]
  BY <1>2 DEF IsLayout
<1>4. \A i \in 1..n : p[i].kind \in Kinds /\ Size(p[i].kind) \in Nat
  BY EventsType, SizePositive
<1>5. /\ seqs \in Seq(Seq(StreamByte)) /\ Len(seqs) = n
      /\ \A i \in 1..n : seqs[i] = BytesOf(p[i].kind) /\ seqs[i] \in Seq(StreamByte)
  <2>1. \A i \in 1..n : BytesOf(p[i].kind) \in Seq(StreamByte)
    BY <1>4, BytesOfType
  <2> HIDE DEF n
  <2>2. QED
    BY <1>1, <2>1
<1> DEFINE g == [i \in 1..n |-> SubSeq(r, 1, at[i+1])]
<1>6. ASSUME NEW i \in 1..n
      PROVE  /\ at[i] \in 0..Len(r) /\ at[i+1] \in at[i]..Len(r)
             /\ seqs[i] = SubSeq(r, at[i]+1, at[i+1])
  <2>1. i \in 1..n+1 /\ i+1 \in 1..n+1 /\ n+1 \in 1..n+1 /\ i <= i+1 /\ i+1 <= n+1
    BY <1>1
  <2> DEFINE a == at[i]
             b == at[i+1]
             z == Size(p[i].kind)
  <2>2. a \in Nat /\ b \in Nat /\ z \in Nat /\ b = a + z /\ b <= Len(r)
    BY <1>2, <1>3, <1>4, <2>1
  <2>3. \A j \in 1..z : r[a + j] = [kind |-> p[i].kind, nth |-> j]
    BY <1>2
  <2>4. /\ seqs[i] \in Seq(StreamByte) /\ Len(seqs[i]) = z
        /\ \A j \in 1..z : seqs[i][j] = [kind |-> p[i].kind, nth |-> j]
    BY <1>4, <1>5, BytesOfType
  <2> HIDE DEF a, b, z, seqs
  <2>5. /\ SubSeq(r, a+1, b) \in Seq(StreamByte)
        /\ Len(SubSeq(r, a+1, b)) = z
        /\ \A j \in 1..z : SubSeq(r, a+1, b)[j] = r[a + j]
    <3>1. a+1 \in Int /\ b \in Int /\ \A j \in a+1..b : r[j] \in StreamByte
      BY <1>1, <2>2, ElementOfSeq
    <3>2. /\ SubSeq(r, a+1, b) \in Seq(StreamByte)
          /\ Len(SubSeq(r, a+1, b)) = IF a+1 <= b THEN b-(a+1)+1 ELSE 0
          /\ \A j \in 1..b-(a+1)+1 : SubSeq(r, a+1, b)[j] = r[(a+1)+j-1]
      BY <3>1, SubSeqProperties
    <3> DEFINE u == SubSeq(r, a+1, b)
    <3> HIDE DEF u
    <3>3. QED
      BY <2>2, <3>2 DEF u
  <2> DEFINE u == SubSeq(r, a+1, b)
  <2>6. seqs[i] = u
    <3> HIDE DEF u
    <3>1. \A j \in 1..z : seqs[i][j] = u[j]
      BY <2>3, <2>4, <2>5 DEF u
    <3>2. u \in Seq(StreamByte) /\ Len(u) = z
      BY <2>5 DEF u
    <3>3. QED
      BY <2>4, <3>1, <3>2, SeqEqual
  <2>7. QED
    BY <2>2, <2>6 DEF a, b
<1>7. ASSUME NEW i \in 1..n
      PROVE  SubSeq(r, 1, at[i+1]) = SubSeq(r, 1, at[i]) \o seqs[i]
  <2>1. /\ 1 \in 1..Len(r)+1 /\ at[i] \in 1-1..Len(r) /\ at[i+1] \in at[i]..Len(r)
    BY <1>1, <1>6
  <2> HIDE DEF seqs
  <2>2. SubSeq(r, 1, at[i]) \o SubSeq(r, at[i]+1, at[i+1]) = SubSeq(r, 1, at[i+1])
    BY <2>1, ConcatAdjacentSubSeq
  <2>3. QED
    BY <1>6, <2>2
<1>8. CASE n = 0
  <2>1. r = <<>>
    BY <1>1, <1>2, <1>3, <1>8, EmptySeq
  <2>2. FlattenSeq(seqs) = seqs
    BY <1>5, <1>8 DEF FlattenSeq
  <2>3. seqs = <<>>
    <3> HIDE DEF seqs
    <3>1. QED
      BY <1>5, <1>8, EmptySeq
  <2>4. QED
    BY <2>1, <2>2, <2>3
<1>9. CASE n # 0
  <2> DEFINE flatten == CHOOSE f : Solves(f)
  <2>1. FlattenSeq(seqs) = flatten[n]
    BY <1>5, <1>9 DEF FlattenSeq
  <2>2. Solves(g)
    <3> SUFFICES ASSUME NEW i \in 1..n
                 PROVE  SubSeq(r, 1, at[i+1]) = IF i = 1 THEN seqs[i] ELSE g[i-1] \o seqs[i]
      BY Zenon
    <3>1. CASE i = 1
      <4>1. SubSeq(r, 1, at[i]) = <<>>
        BY <1>3, <3>1, SubSeqEmpty
      <4>2. <<>> \o seqs[i] = seqs[i]
        <5> HIDE DEF seqs
        <5>1. QED
          BY <1>5, ConcatEmptySeq
      <4>3. QED
        BY <1>7, <3>1, <4>1, <4>2
    <3>2. CASE i # 1
      <4>1. i-1 \in 1..n /\ (i-1)+1 = i
        BY <1>1, <3>2
      <4>2. g[i-1] = SubSeq(r, 1, at[i])
        BY <4>1
      <4>3. QED
        BY <1>7, <3>2, <4>2
    <3>3. QED
      BY <3>1, <3>2
  <2>3. Solves(flatten)
    <3> HIDE DEF g, Solves
    <3>1. QED
      BY <2>2, Zenon
  <2>4. /\ \A i \in 1..n : flatten[i] = IF i = 1 THEN seqs[i] ELSE flatten[i-1] \o seqs[i]
        /\ \A i \in 1..n : g[i] = IF i = 1 THEN seqs[i] ELSE g[i-1] \o seqs[i]
    <3> DEFINE f == flatten
    <3>1. Solves(f) /\ Solves(g)
      BY <2>2, <2>3
    <3> HIDE DEF f, g, seqs, flatten
    <3>2. QED
      BY <3>1 DEF f
  <2> HIDE DEF flatten, g, Solves, seqs
  <2>5. \A i \in 1..n : flatten[i] = g[i]
    <3> DEFINE T == {i \in 1..n : flatten[i] # g[i]}
    <3> SUFFICES ASSUME T # {}
                 PROVE  FALSE
      OBVIOUS
    <3>1. T \in SUBSET Nat
      OBVIOUS
    <3>2. PICK m \in T : \A k \in T : m <= k
      BY <3>1, LeastNatural
    <3>3. m \in 1..n /\ flatten[m] # g[m]
      OBVIOUS
    <3>4. m # 1
      BY <2>4, <3>3
    <3>5. m-1 \in 1..n /\ ~(m <= m-1)
      BY <1>1, <3>3, <3>4
    <3>6. flatten[m-1] = g[m-1]
      BY <3>2, <3>5
    <3>7. QED
      BY <2>4, <3>3, <3>4, <3>6
  <2>6. g[n] = r
    <3>1. n \in 1..n
      BY <1>1, <1>9
    <3>2. g[n] = SubSeq(r, 1, Len(r))
      BY <1>2, <3>1 DEF g
    <3>3. QED
      BY <3>2, SubSeqFull
  <2>7. QED
    BY <1>1, <1>9, <2>1, <2>5, <2>6 DEF seqs
<1>10. QED
  BY <1>8, <1>9

-----------------------------------------------------------------------------
(* What was not read of the buffer.                                         *)
LEMMA UnreadBytes ==
  ASSUME TypeInv
  PROVE  /\ Unread \in Seq(StreamByte) /\ Len(Unread) = Len(buf) - bufferIndx
         /\ \A i \in 1..Len(Unread) : Unread[i] = buf[bufferIndx + i]
         /\ Rest \in Seq(StreamByte) /\ Len(Rest) = Len(Unread) + Len(wire)
         /\ \A i \in 1..Len(Unread) : Rest[i] = Unread[i]
         /\ Len(buf) \in Nat /\ Len(wire) \in Nat /\ Len(Unread) \in Nat
<1>1. /\ buf \in Seq(StreamByte) /\ wire \in Seq(StreamByte)
      /\ bufferIndx \in 0..Len(buf) /\ Len(buf) \in Nat /\ Len(wire) \in Nat
      /\ \A i \in 1..Len(buf) : buf[i] \in StreamByte
  <2>1. buf \in Seq(StreamByte) /\ wire \in Seq(StreamByte) /\ bufferIndx \in 0..Len(buf)
    BY DEF TypeInv
  <2>2. QED
    BY <2>1, LenProperties, ElementOfSeq
<1>2. /\ Unread \in Seq(StreamByte) /\ Len(Unread) = Len(buf) - bufferIndx
      /\ \A i \in 1..Len(buf) - bufferIndx : Unread[i] = buf[bufferIndx + i]
  BY <1>1, Suffix DEF Unread
<1>3. /\ Rest \in Seq(StreamByte) /\ Len(Rest) = Len(Unread) + Len(wire)
      /\ \A i \in 1..Len(Unread) + Len(wire) :
           Rest[i] = IF i <= Len(Unread) THEN Unread[i] ELSE wire[i - Len(Unread)]
  BY <1>1, <1>2, ConcatProperties DEF Rest
<1>4. ASSUME NEW i \in 1..Len(Unread)
      PROVE  Rest[i] = Unread[i]
  <2>1. i \in 1..Len(Unread) + Len(wire) /\ i <= Len(Unread)
    BY <1>1, <1>2
  <2>2. QED
    BY <1>3, <2>1
<1>5. Len(Unread) \in Nat
  BY <1>1, <1>2
<1>6. QED
  BY <1>1, <1>2, <1>3, <1>4, <1>5

(* The event in front of the parser is the first of the pending ones, and   *)
(* what there is of it is intact.                                           *)
LEMMA EventInFront ==
  ASSUME Inv, Unread # <<>>
  PROVE  /\ pending # <<>> /\ Head(pending) = pending[1] /\ pending[1] \in Event
         /\ Head(Unread).kind = pending[1].kind /\ pending[1].kind \in Kinds
         /\ \A k \in 1..Size(pending[1].kind) :
              k <= Len(Unread) => Unread[k] = [kind |-> pending[1].kind, nth |-> k]
         /\ Size(pending[1].kind) <= Len(Rest)
         /\ IsPrefix(SubSeq(Unread, 1, Smaller(Size(pending[1].kind), Len(Unread))),
                     BytesOf(pending[1].kind))
<1> DEFINE kind == pending[1].kind
           z == Size(kind)
           m == Smaller(z, Len(Unread))
           u == SubSeq(Unread, 1, m)
<1>1. TypeInv /\ Laid(Rest, pending) /\ pending \in Seq(Event)
  BY DEF Inv, TypeInv
<1>2. /\ Unread \in Seq(StreamByte) /\ Len(Unread) \in Nat \ {0}
      /\ Rest \in Seq(StreamByte) /\ Len(Rest) >= Len(Unread) /\ Len(Rest) \in Nat
      /\ \A i \in 1..Len(Unread) : Rest[i] = Unread[i]
  <2>1. Unread \in Seq(StreamByte) /\ Rest \in Seq(StreamByte)
    BY <1>1, UnreadBytes
  <2>2. Len(Unread) \in Nat \ {0} /\ Len(Rest) \in Nat
    BY <2>1, LenProperties, EmptySeq
  <2>3. QED
    BY <1>1, <2>1, <2>2, UnreadBytes
<1>3. Rest # <<>>
  BY <1>2, EmptySeq
<1>4. /\ pending # <<>> /\ kind \in Kinds /\ z <= Len(Rest)
      /\ \A k \in 1..z : Rest[k] = [kind |-> kind, nth |-> k]
  BY <1>1, <1>2, <1>3, LaidFirst
<1>5. z \in Nat \ {0}
  BY <1>4, SizePositive
<1>6. \A k \in 1..z : k <= Len(Unread) => Unread[k] = [kind |-> kind, nth |-> k]
  <2> HIDE DEF z, kind
  <2>1. QED
    BY <1>2, <1>4, <1>5
<1>7. Head(Unread).kind = kind
  <2>1. Head(Unread) = Unread[1]
    BY <1>2
  <2>2. Unread[1] = [kind |-> kind, nth |-> 1]
    <3> HIDE DEF z, kind
    <3>1. QED
      BY <1>2, <1>5, <1>6
  <2>3. QED
    BY <2>1, <2>2
<1>8. Head(pending) = pending[1] /\ pending[1] \in Event
  <2>1. 1 \in 1..Len(pending)
    BY <1>1, <1>4, LenProperties, EmptySeq
  <2>2. QED
    BY <1>1, <1>4, <2>1, EventsType
<1>9. IsPrefix(u, BytesOf(kind))
  <2>1. m \in 1..z /\ m <= Len(Unread)
    <3> HIDE DEF z
    <3>1. QED
      BY <1>2, <1>5 DEF Smaller
  <2> HIDE DEF m, z
  <2>2. /\ u \in Seq(StreamByte) /\ Len(u) = m /\ \A i \in 1..m : u[i] = Unread[i]
    <3>1. 1 \in Int /\ m \in Int /\ \A i \in 1..m : Unread[i] \in StreamByte
      BY <1>2, <1>5, <2>1, ElementOfSeq
    <3>2. /\ u \in Seq(StreamByte) /\ Len(u) = IF 1 <= m THEN m - 1 + 1 ELSE 0
          /\ \A i \in 1..m - 1 + 1 : u[i] = Unread[1 + i - 1]
      BY <3>1, SubSeqProperties
    <3> HIDE DEF u
    <3>3. QED
      BY <1>5, <2>1, <3>2
  <2>3. /\ BytesOf(kind) \in Seq(StreamByte) /\ Len(BytesOf(kind)) = z
        /\ \A i \in 1..z : BytesOf(kind)[i] = [kind |-> kind, nth |-> i]
    BY <1>4, BytesOfType DEF z
  <2> DEFINE v == SubSeq(BytesOf(kind), 1, m)
  <2>4. /\ v \in Seq(StreamByte) /\ Len(v) = m /\ \A i \in 1..m : v[i] = BytesOf(kind)[i]
    <3>1. 1 \in Int /\ m \in Int /\ \A i \in 1..m : BytesOf(kind)[i] \in StreamByte
      BY <1>5, <2>1, <2>3, ElementOfSeq
    <3>2. /\ v \in Seq(StreamByte) /\ Len(v) = IF 1 <= m THEN m - 1 + 1 ELSE 0
          /\ \A i \in 1..m - 1 + 1 : v[i] = BytesOf(kind)[1 + i - 1]
      BY <3>1, SubSeqProperties
    <3> HIDE DEF v
    <3>3. QED
      BY <1>5, <2>1, <3>2
  <2> HIDE DEF u, v, kind
  <2>5. ASSUME NEW i \in 1..m
        PROVE  u[i] = v[i]
    <3>1. i \in 1..z /\ i <= Len(Unread)
      BY <1>2, <1>5, <2>1
    <3>2. Unread[i] = [kind |-> kind, nth |-> i]
      BY <1>6, <3>1 DEF z
    <3>3. BytesOf(kind)[i] = [kind |-> kind, nth |-> i]
      BY <2>3, <3>1
    <3>4. QED
      BY <2>2, <2>4, <3>2, <3>3
  <2>6. u = v
    BY <2>2, <2>4, <2>5, SeqEqual
  <2>7. SubSeq(u, 1, Len(u)) = u
    BY <2>2, SubSeqFull
  <2>8. Len(u) <= Len(BytesOf(kind))
    BY <1>5, <2>1, <2>2, <2>3
  <2>9. QED
    BY <2>2, <2>6, <2>7, <2>8 DEF IsPrefix, v
<1>10. QED
  BY <1>4, <1>6, <1>7, <1>8, <1>9

-----------------------------------------------------------------------------
(* The inductive invariant.                                                 *)

(* The invariant holds initially.                                           *)
LEMMA InitInv == Init => Inv
<1> SUFFICES ASSUME Init
             PROVE  Inv
  OBVIOUS
<1>1. TypeInv
  <2>1. pending = <<>> /\ wire = <<>> /\ buf = <<>> /\ bufferIndx = 0
    BY DEF Init
  <2>2. <<>> \in Seq(Event) /\ <<>> \in Seq(StreamByte) /\ Len(<<>>) = 0
    BY EmptySeq
  <2>3. QED
    BY <2>1, <2>2 DEF TypeInv
<1>2. Unread = <<>> /\ Rest = <<>> /\ Len(Unread) = 0
  <2>1. Unread \in Seq(StreamByte) /\ Len(Unread) = 0
    BY <1>1, UnreadBytes, EmptySeq DEF Init
  <2>2. Unread = <<>>
    BY <2>1, EmptySeq
  <2>3. QED
    BY <2>1, <2>2 DEF Rest, Init
<1>3. Laid(<<>>, <<>>)
  <2> DEFINE at == [i \in 1..1 |-> 0]
  <2>1. Len(<<>>) = 0
    OBVIOUS
  <2>2. IsLayout(at, <<>>) /\ at[Len(<<>>)+1] = 0
    BY <2>1 DEF IsLayout
  <2> HIDE DEF at
  <2>3. QED
    BY <2>1, <2>2 DEF Laid
<1>4. QED
  BY <1>1, <1>2, <1>3 DEF Inv, Init, RoomToMove, NeverStuck

(* An event that is serialized adds its bytes to those on their way.        *)
LEMMA SerializeInv ==
  ASSUME Inv, NEW kind \in Kinds, serialize(kind)
  PROVE  Inv'
<1> DEFINE e == [kind |-> kind, effects |-> Effects(kind)]
<1>1. /\ pending' = Append(pending, e) /\ wire' = wire \o BytesOf(kind)
      /\ buf' = buf /\ bufferIndx' = bufferIndx /\ status' = status
  BY DEF serialize
<1>2. TypeInv /\ Unread \in Seq(StreamByte) /\ Unread' = Unread
  BY <1>1, UnreadBytes DEF Inv, Unread
<1>3. TypeInv'
  <2>1. e \in Event
    BY DEF Event
  <2> HIDE DEF e
  <2>2. pending' \in Seq(Event)
    BY <1>1, <1>2, <2>1, AppendProperties DEF TypeInv
  <2>3. wire' \in Seq(StreamByte)
    BY <1>1, <1>2, BytesOfType, ConcatProperties DEF TypeInv
  <2>4. QED
    BY <1>1, <1>2, <2>2, <2>3 DEF TypeInv
<1>4. Rest' = Rest \o BytesOf(kind)
  <2>1. (Unread \o wire) \o BytesOf(kind) = Unread \o (wire \o BytesOf(kind))
    BY <1>2, BytesOfType, ConcatAssociative DEF TypeInv
  <2>2. QED
    BY <1>1, <1>2, <2>1 DEF Rest
<1>5. Laid(Rest \o BytesOf(kind), Append(pending, e))
  BY <1>2, UnreadBytes, LaidAppend DEF Inv, TypeInv
<1> HIDE DEF e
<1>6. QED
  BY <1>1, <1>2, <1>3, <1>4, <1>5 DEF Inv, RoomToMove, NeverStuck

(* parseNext takes a whole event from the buffer or nothing at all.         *)
LEMMA ParseInv ==
  ASSUME Inv, parseNext
  PROVE  Inv'
<1>1. TypeInv /\ Laid(Rest, pending) /\ wire' = wire /\ buf' = buf
  BY DEF Inv, parseNext
<1>2. Len(Unread) \in Nat /\ Unread \in Seq(StreamByte)
  BY <1>1, UnreadBytes
<1>3. ASSUME BufferEndReached, 2 * Len(Unread) <= BufLen
      PROVE  Inv'
  <2>1. /\ status' = "EXIP_BUFFER_END_REACHED" /\ pending' = pending
        /\ bufferIndx' = bufferIndx
    BY <1>3 DEF BufferEndReached
  <2>2. Unread' = Unread /\ Rest' = Rest /\ TypeInv'
    BY <1>1, <2>1 DEF Unread, Rest, TypeInv
  <2>3. QED
    BY <1>1, <1>3, <2>1, <2>2 DEF Inv, RoomToMove, NeverStuck
<1>4. CASE Unread = <<>>
  <2>1. BufferEndReached /\ Len(Unread) = 0
    BY <1>4 DEF parseNext
  <2>2. QED
    BY <1>3, <2>1, PushParserAssumption
<1>5. CASE Unread # <<>>
  <2> DEFINE kind == pending[1].kind
             z == Size(kind)
  <2>1. /\ kind \in Kinds /\ Head(Unread).kind = kind /\ pending # <<>>
        /\ IsPrefix(SubSeq(Unread, 1, Smaller(z, Len(Unread))), BytesOf(kind))
    BY <1>5, EventInFront
  <2>2. z \in Nat \ {0} /\ 2 * (z - 1) <= BufLen /\ BufLen \in Nat
    BY <2>1, SizePositive, PushParserAssumption
  <2> HIDE DEF kind
  <2>3. IF Len(Unread) < z THEN BufferEndReached ELSE EventParsed(kind)
    BY <1>5, <2>1 DEF parseNext
  <2>4. CASE Len(Unread) < z
    <3>1. 2 * Len(Unread) <= BufLen
      <4> HIDE DEF z
      <4>1. QED
        BY <1>2, <2>2, <2>4
    <3>2. QED
      BY <1>3, <2>3, <2>4, <3>1
  <2>5. CASE ~(Len(Unread) < z)
    <3>1. /\ status' = "EXIP_OK" /\ bufferIndx' = bufferIndx + z
          /\ pending' = Tail(pending)
      BY <2>3, <2>5 DEF EventParsed
    <3> HIDE DEF z
    <3>2. /\ Len(Unread) = Len(buf) - bufferIndx /\ bufferIndx \in Nat /\ Len(buf) \in Nat
          /\ Len(wire) \in Nat
      BY <1>1, UnreadBytes DEF TypeInv
    <3>3. TypeInv'
      <4>1. bufferIndx' \in 0..Len(buf)
        BY <1>2, <2>2, <2>5, <3>1, <3>2
      <4>2. pending' \in Seq(Event)
        BY <1>1, <2>1, <3>1, HeadTailProperties DEF TypeInv
      <4>3. QED
        BY <1>1, <4>1, <4>2 DEF TypeInv
    <3>4. Rest' = SubSeq(Rest, z + 1, Len(Rest))
      <4>1. Unread' = SubSeq(Unread, z + 1, Len(Unread))
        <5>1. Unread' = SubSeq(buf, bufferIndx + z + 1, Len(buf))
          BY <1>1, <3>1 DEF Unread
        <5>2. z \in 0..Len(buf) - bufferIndx
          BY <1>2, <2>2, <2>5, <3>2
        <5>3. QED
          BY <1>1, <5>1, <5>2, SuffixOfSuffix DEF TypeInv, Unread
      <4>2. Rest' = SubSeq(Unread, z + 1, Len(Unread)) \o wire
        BY <1>1, <4>1 DEF Rest
      <4>3. SubSeq(Unread \o wire, z + 1, Len(Unread \o wire)) =
              SubSeq(Unread, z + 1, Len(Unread)) \o wire
        <5>1. z \in 0..Len(Unread) /\ wire \in Seq(StreamByte)
          BY <1>1, <1>2, <2>2, <2>5 DEF TypeInv
        <5>2. QED
          BY <1>2, <5>1, SuffixOfConcat
      <4>4. QED
        BY <4>2, <4>3 DEF Rest
    <3>5. Laid(SubSeq(Rest, z + 1, Len(Rest)), Tail(pending))
      BY <1>1, <2>1, UnreadBytes, LaidTail DEF TypeInv, z, kind
    <3>6. QED
      BY <3>1, <3>3, <3>4, <3>5 DEF Inv, RoomToMove, NeverStuck
  <2>6. QED
    BY <2>4, <2>5
<1>6. QED
  BY <1>4, <1>5

(* pushEXIData moves bytes to the buffer, unread ones first.                *)
LEMMA PushInv ==
  ASSUME Inv, NEW n \in 1..Len(wire), pushEXIData(n)
  PROVE  Inv'
<1> DEFINE br == Smaller(BufLen - Len(Unread), n)
           taken == SubSeq(wire, 1, br)
           left == SubSeq(wire, br + 1, Len(wire))
<1>1. /\ TypeInv /\ Unread \in Seq(StreamByte) /\ wire \in Seq(StreamByte)
      /\ Len(Unread) \in Nat /\ Len(wire) \in Nat
  BY UnreadBytes DEF Inv, TypeInv
<1>2. 2 * Len(Unread) <= BufLen /\ BufLen \in Nat
  BY PushParserAssumption DEF Inv, RoomToMove, pushEXIData
<1>3. br \in 0..Len(wire)
  BY <1>1, <1>2 DEF Smaller
<1>4. /\ buf' = Unread \o taken /\ bufferIndx' = 0 /\ wire' = left
      /\ status' = "EXIP_OK" /\ pending' = pending
  <2>1. ~(2 * Len(Unread) > BufLen)
    BY <1>1, <1>2
  <2>2. QED
    BY <2>1 DEF pushEXIData
<1> HIDE DEF br
<1>5. taken \in Seq(StreamByte) /\ left \in Seq(StreamByte) /\ taken \o left = wire
  <2>1. left \in Seq(StreamByte)
    BY <1>1, <1>3, Suffix
  <2>2. /\ 1 \in Int /\ br \in Int /\ 1 \in 1..Len(wire)+1 /\ br \in 1-1..Len(wire)
        /\ Len(wire) \in br..Len(wire)
        /\ \A i \in 1..br : wire[i] \in StreamByte
    BY <1>1, <1>3, ElementOfSeq
  <2>3. taken \in Seq(StreamByte)
    BY <2>2, SubSeqProperties
  <2>4. taken \o left = SubSeq(wire, 1, Len(wire))
    BY <1>1, <2>2, ConcatAdjacentSubSeq
  <2>5. QED
    BY <1>1, <2>1, <2>3, <2>4, SubSeqFull
<1> HIDE DEF taken, left
<1>6. buf' \in Seq(StreamByte) /\ Len(buf') \in Nat
  BY <1>1, <1>4, <1>5, ConcatProperties, LenProperties
<1>7. TypeInv'
  BY <1>1, <1>4, <1>5, <1>6 DEF TypeInv
<1>8. Unread' = Unread \o taken
  <2>1. SubSeq(buf', 1, Len(buf')) = buf'
    BY <1>6, SubSeqFull
  <2>2. bufferIndx' + 1 = 1
    BY <1>4
  <2>3. Unread' = SubSeq(buf', bufferIndx' + 1, Len(buf'))
    BY DEF Unread
  <2>4. QED
    BY <1>4, <2>1, <2>2, <2>3
<1> DEFINE unread == Unread
<1>8a. unread = Unread
  OBVIOUS
<1>8b. unread \in Seq(StreamByte)
  BY <1>1
<1> HIDE DEF unread
<1>9. Rest' = Rest
  <2>1. (unread \o taken) \o left = unread \o (taken \o left)
    <3>1. taken \in Seq(StreamByte) /\ left \in Seq(StreamByte)
      BY <1>5
    <3>2. \A s, t, u \in Seq(StreamByte) : (s \o t) \o u = s \o (t \o u)
      BY ConcatAssociative
    <3>3. QED
      BY <1>8b, <3>1, <3>2
  <2>2. QED
    BY <1>4, <1>5, <1>8, <1>8a, <2>1 DEF Rest
<1>10. QED
  BY <1>4, <1>7, <1>9 DEF Inv, RoomToMove, NeverStuck

(* Every step keeps the invariant.                                          *)
LEMMA NextInv == Inv /\ [Next]_vars => Inv'
<1> SUFFICES ASSUME Inv, [Next]_vars
             PROVE  Inv'
  OBVIOUS
<1>1. ASSUME NEW kind \in Kinds, serialize(kind)
      PROVE  Inv'
  BY <1>1, SerializeInv
<1>2. CASE parseNext
  BY <1>2, ParseInv
<1>3. CASE Push
  BY <1>3, PushInv DEF Push
<1>4. CASE UNCHANGED vars
  BY <1>4 DEF vars, Inv, TypeInv, Rest, Unread, RoomToMove, NeverStuck
<1>5. QED
  BY <1>1, <1>2, <1>3, <1>4 DEF Next

(* The invariant holds in every state of every behaviour.                   *)
LEMMA InvHolds == Spec => []Inv
<1>1. Init /\ [][Next]_vars => []Inv
  BY InitInv, NextInv, PTL
<1>2. QED
  BY <1>1, PTL DEF Spec

(* The parser never gives up for good: it never takes a byte in the middle  *)
(* of an event for an event code, and pushEXIData always finds room to move *)
(* what parseNext has not read.                                             *)
THEOREM ParserIsNeverStuck == Spec => []NeverStuck
BY InvHolds, PTL DEF Inv

(* Whatever the chunks were and however often an event was tried, the bytes *)
(* from bufferIndx to the end of the stream are those of the pending events.*)
THEOREM NothingIsSkipped == Spec => []NothingSkipped
<1>1. Inv => NothingSkipped
  <2> SUFFICES ASSUME Inv
               PROVE  NothingSkipped
    OBVIOUS
  <2>1. Rest \in Seq(StreamByte) /\ pending \in Seq(Event) /\ Laid(Rest, pending)
    BY UnreadBytes DEF Inv, TypeInv
  <2>2. Rest = FlattenSeq([i \in 1..Len(pending) |-> BytesOf(pending[i].kind)])
    BY <2>1, LaidFlat
  <2>3. QED
    BY <2>2 DEF NothingSkipped, Rest
<1>2. QED
  BY <1>1, InvHolds, PTL

-----------------------------------------------------------------------------
(* What the comment on pushEXIData asks of the productions: nothing is done *)
(* to the application before all bytes of the event are there.  (SelectSeq  *)
(* has no definition in the proof system, hence the type of Effects here.)  *)
EffectsComeLast ==
  \A k \in Kinds : /\ Effects(k) \in Seq(STRING)
                   /\ \A n \in 0..Size(k)-1 : EffectsUpTo(k, n) = <<>>

NothingDone == effects = <<>>

(* An event that is incomplete has done nothing to the application.         *)
LEMMA GivingUpDoesNothing ==
  ASSUME EffectsComeLast, Inv, NothingDone, BufferEndReached,
         Unread # <<>> => Len(Unread) < Size(pending[1].kind)
  PROVE  NothingDone' /\ UNCHANGED <<pending, received>>
<1>1. CASE Unread = <<>>
  BY <1>1 DEF BufferEndReached, NothingDone
<1>2. CASE Unread # <<>>
  <2> DEFINE kind == pending[1].kind
  <2>1. kind \in Kinds /\ Head(Unread).kind = kind
    BY <1>2, EventInFront DEF Inv
  <2> HIDE DEF kind
  <2>2. Size(kind) \in Nat /\ Len(Unread) \in Nat
    BY <2>1, SizePositive, UnreadBytes DEF Inv
  <2>3. Len(Unread) \in 0..Size(kind)-1
    BY <1>2, <2>2 DEF kind
  <2>4. EffectsUpTo(kind, Len(Unread)) = <<>>
    BY <2>1, <2>3 DEF EffectsComeLast
  <2>5. effects' = <<>> \o <<>>
    BY <1>2, <2>1, <2>4 DEF BufferEndReached, NothingDone
  <2>6. QED
    BY <2>5 DEF BufferEndReached, NothingDone
<1>3. QED
  BY <1>1, <1>2

(* parseNext delivers the first pending event as it was serialized, or      *)
(* nothing at all.                                                          *)
LEMMA ParseDelivers ==
  ASSUME EffectsComeLast, Inv, NothingDone, parseNext
  PROVE  NothingDone' /\ [Pipe!Parse]_<<pending, received>>
<1>1. CASE Unread = <<>>
  <2>1. BufferEndReached
    BY <1>1 DEF parseNext
  <2>2. QED
    BY <1>1, <2>1, GivingUpDoesNothing
<1>2. CASE Unread # <<>>
  <2> DEFINE kind == pending[1].kind
             z == Size(kind)
  <2>1. /\ kind \in Kinds /\ Head(Unread).kind = kind /\ pending # <<>>
        /\ IsPrefix(SubSeq(Unread, 1, Smaller(z, Len(Unread))), BytesOf(kind))
        /\ pending \in Seq(Event)
    BY <1>2, EventInFront DEF Inv, TypeInv
  <2>2. IF Len(Unread) < z THEN BufferEndReached ELSE EventParsed(kind)
    BY <1>2, <2>1 DEF parseNext
  <2>3. CASE Len(Unread) < z
    BY <1>2, <2>2, <2>3, GivingUpDoesNothing
  <2>4. CASE ~(Len(Unread) < z)
    <3>1. EventParsed(kind)
      BY <2>2, <2>4
    <3>2. Head(pending) = pending[1] /\ pending[1] \in Event
      BY <2>1, EmptySeq, ElementOfSeq, LenProperties
    <3>3. pending[1] = [kind |-> kind, effects |-> Effects(kind)]
      BY <3>2 DEF Event
    <3> HIDE DEF kind, z
    <3>4. effects \o Effects(kind) = Effects(kind)
      BY <2>1 DEF EffectsComeLast, NothingDone
    <3>5. received' = <<Head(pending)>>
      BY <3>1, <3>2, <3>3, <3>4 DEF EventParsed
    <3>6. pending' = Tail(pending) /\ NothingDone'
      BY <3>1 DEF EventParsed, NothingDone
    <3>7. QED
      BY <2>1, <3>5, <3>6 DEF Pipe!Parse
  <2>5. QED
    BY <2>3, <2>4
<1>3. QED
  BY <1>1, <1>2

(* Under EffectsComeLast a step delivers the oldest event, adds one, or     *)
(* shows nothing.                                                           *)
LEMMA DeliveryStep ==
  ASSUME EffectsComeLast, Inv, NothingDone, [Next]_vars
  PROVE  NothingDone' /\ [Pipe!Next]_<<pending, received>>
<1>1. ASSUME NEW kind \in Kinds, serialize(kind)
      PROVE  NothingDone' /\ [Pipe!Next]_<<pending, received>>
  BY <1>1 DEF serialize, NothingDone, Pipe!Next, Pipe!Serialize
<1>2. CASE parseNext
  BY <1>2, ParseDelivers DEF Pipe!Next
<1>3. ASSUME NEW n \in 1..Len(wire), pushEXIData(n)
      PROVE  NothingDone' /\ [Pipe!Next]_<<pending, received>>
  BY <1>3 DEF pushEXIData, NothingDone
<1>4. CASE UNCHANGED vars
  BY <1>4 DEF vars, NothingDone
<1>5. QED
  BY <1>1, <1>2, <1>3, <1>4 DEF Next, Push

(* However the stream is cut into chunks, every event reaches the           *)
(* application once, in order, and does to it what it would have done in    *)
(* one go: the safety part of DeliversOnce.                                 *)
THEOREM RetriesImplementPipe ==
  EffectsComeLast => (Spec => Pipe!Init /\ [][Pipe!Next]_<<pending, received>>)
<1> SUFFICES ASSUME EffectsComeLast
             PROVE  Spec => Pipe!Init /\ [][Pipe!Next]_<<pending, received>>
  OBVIOUS
<1>1. Init => Pipe!Init /\ NothingDone
  BY DEF Init, Pipe!Init, NothingDone
<1>2. Inv /\ NothingDone /\ [Next]_vars => NothingDone' /\ [Pipe!Next]_<<pending, received>>
  BY DeliveryStep
<1>3. QED
  BY <1>1, <1>2, InvHolds, PTL DEF Spec

(* ... so where the comment's condition holds what it promises does too:    *)
(* the run push_retry, whose productions do not meet it, shows that nothing *)
(* less will do.                                                            *)
THEOREM RetriesActOnce == EffectsComeLast => (Spec => []EffectsOnce)
<1> SUFFICES ASSUME EffectsComeLast
             PROVE  Spec => []EffectsOnce
  OBVIOUS
<1>1. Init => EffectsOnce /\ NothingDone
  BY DEF Init, EffectsOnce, NothingDone
<1>2. ASSUME Inv, NothingDone, EffectsOnce, [Next]_vars
      PROVE  EffectsOnce'
  <2>1. [Pipe!Next]_<<pending, received>>
    BY <1>2, DeliveryStep
  <2>2. CASE UNCHANGED received
    BY <1>2, <2>2 DEF EffectsOnce
  <2>3. CASE Pipe!Parse
    <3>1. pending \in Seq(Event) /\ pending # <<>> /\ received' = <<Head(pending)>>
      BY <1>2, <2>3 DEF Pipe!Parse, Inv, TypeInv
    <3>2. Head(pending) \in Event
      BY <3>1, HeadTailProperties
    <3>3. received'[1] \in Event
      BY <3>1, <3>2
    <3>4. QED
      BY <3>3 DEF Event, EffectsOnce
  <2>4. QED
    BY <2>1, <2>2, <2>3 DEF Pipe!Next, Pipe!Serialize
<1>3. Inv /\ NothingDone /\ [Next]_vars => NothingDone'
  BY DeliveryStep
<1>4. QED
  BY <1>1, <1>2, <1>3, InvHolds, PTL DEF Spec
=============================================================================
