------------------------- MODULE ValueCodec_proofs --------------------------
(***************************************************************************)
(* Proofs that the parser's value partitions follow the serializer's, for  *)
(* every capacity, maximal length, set of strings and names, and however   *)
(* far the parser is behind.                                               *)
(*                                                                         *)
(* The values in the stream lead from the partitions of the parser to      *)
(* those of the serializer: there is a state of the partitions before the  *)
(* first of them, between any two of them, and after the last, and each    *)
(* value means in the state before it what the serializer meant.           *)
(***************************************************************************)
EXTENDS ValueCodec, SequenceTheorems, TLAPS

(* The serializer's partitions, with what is proved about them.             *)
encTable == INSTANCE ValueTable_proofs
              WITH value <- encValue, count <- encCount, globalId <- encGlobalId,
                   vx <- encVx, vxCount <- encVxCount, hash <- encHash,
                   HashTable <- EncHashTable

(* The state of the partitions of either side, without the hash table.      *)
EncState == [value |-> encValue, count |-> encCount, globalId |-> encGlobalId,
             vx |-> encVx, vxCount |-> encVxCount]
DecState == [value |-> decValue, count |-> decCount, globalId |-> decGlobalId,
             vx |-> decVx, vxCount |-> decVxCount]

Wraps(T) == T.globalId < T.count

Slot(T) == IF Wraps(T) THEN T.globalId ELSE T.count

VxAdded(T, q) == [T.vx EXCEPT ![q] =
  [j \in 0..T.vxCount[q] |-> IF j < T.vxCount[q] THEN T.vx[q][j] ELSE T.globalId]]

VxDropped(vxs, old) == [vxs EXCEPT ![old.forQNameId][old.vxEntryId] = INDEX_MAX]

(* addValueEntry as a function of the state.                                *)
Added(T, s, q) ==
  [value |-> [i \in 0..(IF Wraps(T) THEN T.count ELSE T.count + 1)-1 |->
                IF i = Slot(T)
                THEN [valueStr |-> s, forQNameId |-> q, vxEntryId |-> T.vxCount[q]]
                ELSE T.value[i]],
   count |-> IF Wraps(T) THEN T.count ELSE T.count + 1,
   globalId |-> IF T.globalId + 1 = Capacity THEN 0 ELSE T.globalId + 1,
   vx |-> IF Wraps(T) THEN VxDropped(VxAdded(T, q), T.value[T.globalId])
                      ELSE VxAdded(T, q),
   vxCount |-> [T.vxCount EXCEPT ![q] = @ + 1]]

Unique(T) ==
  \A i, k \in 0..T.count-1 : T.value[i].valueStr = T.value[k].valueStr => i = k

SlotsKnowIds(T) ==
  \A i \in 0..T.count-1 :
    LET e == T.value[i] IN e.vxEntryId < T.vxCount[e.forQNameId]
                           /\ T.vx[e.forQNameId][e.vxEntryId] = i

IdsKnowSlots(T) ==
  \A q \in QNameID : \A j \in 0..T.vxCount[q]-1 :
    T.vx[q][j] # INDEX_MAX => /\ T.vx[q][j] < T.count
                              /\ T.value[T.vx[q][j]].forQNameId = q
                              /\ T.value[T.vx[q][j]].vxEntryId = j

Consistent(T) == Unique(T) /\ SlotsKnowIds(T) /\ IdsKnowSlots(T)

(* A value in the stream means its string to a parser in state T ...        *)
LocalMeans(m, T) ==
  /\ m.tag = 0
  /\ T.vxCount[m.qname] > 0
  /\ m.width = getBitsNumber(T.vxCount[m.qname] - 1)
  /\ m.id < T.vxCount[m.qname]
  /\ T.vx[m.qname][m.id] < T.count
  /\ T.value[T.vx[m.qname][m.id]].valueStr = m.chars

GlobalMeans(m, T) ==
  /\ m.tag = 1
  /\ T.count > 0
  /\ m.width = getBitsNumber(T.count - 1)
  /\ m.id < T.count
  /\ T.value[m.id].valueStr = m.chars

(* ... and takes the partitions from state T to state U.                    *)
Leads(m, T, U) ==
  \/ (LocalMeans(m, T) \/ GlobalMeans(m, T)) /\ U = T
  \/ /\ m.tag \in Nat /\ m.tag >= 2
     /\ U = IF Storable(m.chars) THEN Added(T, m.chars, m.qname) ELSE T

Message == [tag : Nat, qname : QNameID, width : {getBitsNumber(n) : n \in Int},
            id : Nat, chars : Str]

Lag(S) ==
  /\ S[0] = DecState
  /\ S[Len(wire)] = EncState
  /\ \A k \in 0..Len(wire) : Consistent(S[k])
  /\ \A k \in 1..Len(wire) : Leads(wire[k], S[k-1], S[k])

Inv ==
  /\ encTable!Inv
  /\ wire \in Seq(Message)
  /\ \E S : Lag(S)

-----------------------------------------------------------------------------
(* The assumption of ValueTable holds for the serializer's partitions.      *)
LEMMA EncAssumption == encTable!ValueTableAssumption
BY ValueCodecAssumption DEF encTable!ValueTableAssumption

(* The partitions of both sides change by the same function of their state. *)
LEMMA EncAdds ==
  ASSUME NEW s \in Str, NEW q \in QNameID, enc!AddValueEntry(s, q)
  PROVE  EncState' = Added(EncState, s, q)
BY DEF enc!AddValueEntry, enc!Evicting, enc!NewSlot, enc!AddVxEntry, enc!DropVxEntry,
       EncState, Added, Wraps, Slot, VxAdded, VxDropped

(* The same for the parser's partitions.                                    *)
LEMMA DecAdds ==
  ASSUME NEW s \in Str, NEW q \in QNameID, dec!AddValueEntry(s, q)
  PROVE  DecState' = Added(DecState, s, q)
BY DEF dec!AddValueEntry, dec!Evicting, dec!NewSlot, dec!AddVxEntry, dec!DropVxEntry,
       DecState, Added, Wraps, Slot, VxAdded, VxDropped

(* The serializer's additions are those that ValueTable_proofs is about.    *)
LEMMA EncAddStep ==
  ASSUME encTable!Inv, NEW s \in Str, NEW q \in QNameID,
         ~enc!LookupVx(s, q), ~enc!LookupValue(s), enc!AddValueEntry(s, q)
  PROVE  encTable!Inv'
<1>1. encTable!AddOnMiss(s, q)
  BY DEF encTable!AddOnMiss, enc!LookupVx, encTable!LookupVx,
         enc!LookupValue, encTable!LookupValue, enc!VxMatches, encTable!VxMatches,
         enc!ValueMatches, encTable!ValueMatches, enc!AddValueEntry, encTable!AddValueEntry,
         enc!AddVxEntry, encTable!AddVxEntry, enc!DropVxEntry, encTable!DropVxEntry,
         enc!Evicting, encTable!Evicting, enc!NewSlot, encTable!NewSlot,
         enc!HashRemove, encTable!HashRemove
<1>2. QED
  BY <1>1, EncAssumption, encTable!AddStep

(* What is known of the serializer's partitions.                            *)
LEMMA EncFacts ==
  ASSUME encTable!Inv
  PROVE  /\ encCount \in Nat
         /\ encVxCount \in [QNameID -> Nat]
         /\ DOMAIN encVx = QNameID
         /\ \A q \in QNameID : \A j \in 0..encVxCount[q]-1 : encVx[q][j] \in Nat
         /\ Consistent(EncState)
         /\ EncHashTable =>
              encHash = {[key |-> encValue[i].valueStr, value |-> i] : i \in 0..encCount-1}
<1> USE DEF encTable!Inv, encTable!TypeOK, encTable!PartitionInv
<1>1. encCount \in Nat /\ encVxCount \in [QNameID -> Nat] /\ DOMAIN encVx = QNameID
  OBVIOUS
<1>2. \A q \in QNameID : \A j \in 0..encVxCount[q]-1 : encVx[q][j] \in Nat
  BY ValueCodecAssumption
<1>3. Consistent(EncState)
  BY DEF Consistent, Unique, SlotsKnowIds, IdsKnowSlots, EncState,
         encTable!UniqueValues, encTable!ValueToVx, encTable!VxToValue
<1>4. EncHashTable =>
        encHash = {[key |-> encValue[i].valueStr, value |-> i] : i \in 0..encCount-1}
  BY DEF encTable!HashMirrorsTable
<1>5. QED
  BY <1>1, <1>2, <1>3, <1>4

(* The invariant of ValueTable gives what the parser relies on ...          *)
LEMMA EncConsistent == encTable!Inv => Consistent(EncState)
BY EncFacts

(* ... and so does that of the state after a step.                          *)
LEMMA EncConsistentNext == encTable!Inv' => Consistent(EncState')
<1>1. (encTable!Inv => Consistent(EncState))'
  BY EncConsistent, PTL
<1>2. QED
  BY <1>1 DEF Consistent, Unique, SlotsKnowIds, IdsKnowSlots

-----------------------------------------------------------------------------
(* encodeStringData: each of the three representations means the string to  *)
(* a parser whose partitions are those of the serializer.                   *)

(* The local identifier that is found is one of the string.                 *)
LEMMA LocalHit ==
  ASSUME encTable!Inv, NEW s \in Str, NEW q \in QNameID, EncodeLocalHit(s, q)
  PROVE  \E m \in Message : /\ wire' = Append(wire, m)
                            /\ m.qname = q /\ m.chars = s
                            /\ Leads(m, EncState, EncState')
<1> DEFINE M == enc!VxMatches(s, q)
           id == enc!VxEntryId(s, q)
           m == Hit(0, q, s, getBitsNumber(encVxCount[q] - 1), id)
<1>1. /\ encVxCount[q] \in Nat /\ encCount \in Nat
      /\ \A j \in 0..encVxCount[q]-1 : encVx[q][j] \in Nat
      /\ Consistent(EncState)
  BY EncFacts
<1>2. \A j \in M : /\ j \in 0..encVxCount[q]-1
                   /\ encVx[q][j] # INDEX_MAX
                   /\ encValue[encVx[q][j]].valueStr = s
  BY DEF enc!VxMatches
<1>3. \A j \in M : /\ encVx[q][j] \in 0..encCount-1
                   /\ encValue[encVx[q][j]].vxEntryId = j
  BY <1>1, <1>2 DEF Consistent, IdsKnowSlots, EncState
<1>4. \A j, k \in M : j = k
  BY <1>1, <1>2, <1>3 DEF Consistent, Unique, EncState
<1>5. M # {}
  BY DEF EncodeLocalHit, enc!LookupVx
<1>6. id \in M
  <2>1. PICK j \in M : TRUE
    BY <1>5
  <2>2. \A k \in M : j <= k
    BY <1>2, <1>4, <2>1
  <2>3. \E i \in M : \A k \in M : i <= k
    BY <2>1, <2>2
  <2>4. QED
    BY <2>3 DEF enc!VxEntryId
<1>7. UNCHANGED EncState
  BY DEF EncodeLocalHit, encVars, EncState
<1> HIDE DEF M, id
<1>8. LocalMeans(m, EncState)
  BY <1>1, <1>2, <1>3, <1>6 DEF LocalMeans, EncState, Hit
<1>9. m \in Message /\ m.qname = q /\ m.chars = s
  BY <1>1, <1>2, <1>6 DEF Message, Hit
<1>10. wire' = Append(wire, m)
  BY DEF EncodeLocalHit, id
<1>11. QED
  BY <1>7, <1>8, <1>9, <1>10 DEF Leads

(* The global identifier that is found, by the hash table or by scanning,   *)
(* is the slot of the string.                                               *)
LEMMA GlobalHit ==
  ASSUME encTable!Inv, NEW s \in Str, NEW q \in QNameID, EncodeGlobalHit(s, q)
  PROVE  \E m \in Message : /\ wire' = Append(wire, m)
                            /\ m.qname = q /\ m.chars = s
                            /\ Leads(m, EncState, EncState')
<1> DEFINE M == enc!ValueMatches(s)
           id == enc!ValueEntryId(s)
           m == Hit(1, q, s, getBitsNumber(encCount - 1), id)
<1>1. /\ encCount \in Nat
      /\ Consistent(EncState)
      /\ EncHashTable =>
           encHash = {[key |-> encValue[i].valueStr, value |-> i] : i \in 0..encCount-1}
  BY EncFacts
<1>2. \A i \in M : i \in 0..encCount-1 /\ encValue[i].valueStr = s
  <2>1. CASE EncHashTable
    <3> SUFFICES ASSUME NEW i \in M PROVE i \in 0..encCount-1 /\ encValue[i].valueStr = s
      OBVIOUS
    <3>1. PICK e \in encHash : e.key = s /\ e.value = i
      BY <2>1 DEF enc!ValueMatches
    <3>2. PICK k \in 0..encCount-1 : e = [key |-> encValue[k].valueStr, value |-> k]
      BY <1>1, <2>1, <3>1
    <3>3. QED
      BY <3>1, <3>2
  <2>2. CASE ~EncHashTable
    BY <2>2 DEF enc!ValueMatches
  <2>3. QED
    BY <2>1, <2>2
<1>3. \A i, k \in M : i = k
  BY <1>1, <1>2 DEF Consistent, Unique, EncState
<1>4. M # {}
  BY DEF EncodeGlobalHit, enc!LookupValue
<1>5. id \in M
  <2>1. PICK j \in M : TRUE
    BY <1>4
  <2>2. \A k \in M : j <= k
    BY <1>2, <1>3, <2>1
  <2>3. \E i \in M : \A k \in M : i <= k
    BY <2>1, <2>2
  <2>4. QED
    BY <2>3 DEF enc!ValueEntryId
<1>6. UNCHANGED EncState
  BY DEF EncodeGlobalHit, encVars, EncState
<1> HIDE DEF M, id
<1>7. GlobalMeans(m, EncState)
  BY <1>1, <1>2, <1>5 DEF GlobalMeans, EncState, Hit
<1>8. m \in Message /\ m.qname = q /\ m.chars = s
  BY <1>1, <1>2, <1>5 DEF Message, Hit
<1>9. wire' = Append(wire, m)
  BY DEF EncodeGlobalHit, id
<1>10. QED
  BY <1>6, <1>7, <1>8, <1>9 DEF Leads

(* A literal takes both sides to the same state, if it is stored.           *)
LEMMA LiteralMiss ==
  ASSUME encTable!Inv, NEW s \in Str, NEW q \in QNameID, EncodeLiteral(s, q)
  PROVE  /\ \E m \in Message : /\ wire' = Append(wire, m)
                               /\ m.qname = q /\ m.chars = s
                               /\ Leads(m, EncState, EncState')
         /\ Storable(s) \/ UNCHANGED encVars
         /\ Storable(s) => encTable!Inv'
<1> DEFINE m == Literal(q, s)
<1>1. Length[s] \in Nat
  BY ValueCodecAssumption
<1>2. /\ m.tag = Length[s] + 2 /\ m.qname = q /\ m.chars = s
      /\ m \in Message
  <2>1. 0 \in Int /\ getBitsNumber(0) = 0
    BY DEF getBitsNumber
  <2>2. QED
    BY <1>1, <2>1 DEF Literal, Message
<1>3. CASE Storable(s)
  <2>1. enc!AddValueEntry(s, q) /\ ~enc!LookupVx(s, q) /\ ~enc!LookupValue(s)
    BY <1>3 DEF EncodeLiteral
  <2>2. EncState' = Added(EncState, s, q)
    BY <2>1, EncAdds
  <2>3. encTable!Inv'
    BY <2>1, EncAddStep
  <2>4. Leads(m, EncState, EncState')
    BY <1>1, <1>2, <1>3, <2>2 DEF Leads
  <2>5. QED
    BY <1>2, <1>3, <2>3, <2>4 DEF EncodeLiteral
<1>4. CASE ~Storable(s)
  <2>1. UNCHANGED encVars /\ EncState' = EncState
    BY <1>4 DEF EncodeLiteral, encVars, EncState
  <2>2. Leads(m, EncState, EncState')
    BY <1>1, <1>2, <1>4, <2>1 DEF Leads
  <2>3. QED
    BY <1>2, <1>4, <2>1, <2>2 DEF EncodeLiteral
<1>5. QED
  BY <1>3, <1>4

(* The invariant of the serializer's partitions depends on them alone.      *)
LEMMA EncStutter == encTable!Inv /\ UNCHANGED encVars => encTable!Inv'
<1>1. UNCHANGED encVars => UNCHANGED encTable!vars
  BY DEF encVars, encTable!vars
<1>2. QED
  BY <1>1, EncAssumption, encTable!StutterStep

(* Whatever encodeStringData does, the stream leads from the serializer's   *)
(* last state to its new one, and its partitions stay consistent.           *)
LEMMA EncodeEffect ==
  ASSUME encTable!Inv, NEW s \in Str, NEW q \in QNameID, encodeStringData(s, q)
  PROVE  /\ encTable!Inv'
         /\ UNCHANGED <<decVars, received>>
         /\ \E m \in Message : /\ wire' = Append(wire, m)
                               /\ m.qname = q /\ m.chars = s
                               /\ Leads(m, EncState, EncState')
<1>1. CASE EncodeLocalHit(s, q)
  BY <1>1, LocalHit, EncStutter DEF EncodeLocalHit, encodeStringData
<1>2. CASE EncodeGlobalHit(s, q)
  BY <1>2, GlobalHit, EncStutter DEF EncodeGlobalHit, encodeStringData
<1>3. CASE EncodeLiteral(s, q)
  BY <1>3, LiteralMiss, EncStutter DEF encodeStringData
<1>4. QED
  BY <1>1, <1>2, <1>3 DEF encodeStringData

(* The state after the new value is the serializer's.                       *)
LEMMA EncodeStep ==
  ASSUME Inv, NEW s \in Str, NEW q \in QNameID, encodeStringData(s, q)
  PROVE  Inv'
<1> DEFINE n == Len(wire)
<1>1. PICK S : Lag(S)
  BY DEF Inv
<1>2. PICK m \in Message : wire' = Append(wire, m) /\ Leads(m, EncState, EncState')
  BY EncodeEffect DEF Inv
<1>3. encTable!Inv' /\ UNCHANGED <<decVars, received>>
  BY EncodeEffect DEF Inv
<1>4. /\ wire \in Seq(Message) /\ n \in Nat
      /\ wire' \in Seq(Message) /\ Len(wire') = n + 1
      /\ \A k \in 1..n : wire'[k] = wire[k]
      /\ wire'[n + 1] = m
  BY <1>2 DEF Inv
<1> DEFINE S2 == [k \in 0..n + 1 |-> IF k = n + 1 THEN EncState' ELSE S[k]]
<1>5. S2[n + 1] = EncState' /\ \A k \in 0..n : S2[k] = S[k]
  BY <1>4
<1>6. S2[0] = DecState'
  <2>1. DecState' = DecState
    BY <1>3 DEF DecState, decVars
  <2>2. QED
    BY <1>1, <1>4, <1>5, <2>1 DEF Lag
<1>7. \A k \in 0..n + 1 : Consistent(S2[k])
  <2>1. Consistent(EncState')
    BY <1>3, EncConsistentNext
  <2>2. \A k \in 0..n : Consistent(S2[k])
    BY <1>1, <1>5 DEF Lag
  <2>3. Consistent(S2[n + 1])
    BY <1>5, <2>1
  <2>4. \A k \in 0..n + 1 : k \in 0..n \/ k = n + 1
    BY <1>4
  <2> HIDE DEF S2
  <2>5. QED
    BY <2>2, <2>3, <2>4
<1>8. \A k \in 1..n + 1 : Leads(wire'[k], S2[k-1], S2[k])
  <2>1. ASSUME NEW k \in 1..n PROVE Leads(wire'[k], S2[k-1], S2[k])
    <3>1. Leads(wire[k], S[k-1], S[k])
      BY <1>1 DEF Lag
    <3>2. wire'[k] = wire[k] /\ S2[k-1] = S[k-1] /\ S2[k] = S[k]
      BY <1>4, <1>5
    <3>3. QED
      BY <3>1, <3>2
  <2>2. Leads(wire'[n + 1], S2[n], S2[n + 1])
    <3>1. S2[n] = EncState
      BY <1>1, <1>4, <1>5 DEF Lag
    <3>2. QED
      BY <1>2, <1>4, <1>5, <3>1
  <2>3. QED
    BY <1>4, <2>1, <2>2
<1> HIDE DEF S2
<1>9. \E T : /\ T[0] = DecState' /\ T[Len(wire')] = EncState'
             /\ \A k \in 0..Len(wire') : Consistent(T[k])
             /\ \A k \in 1..Len(wire') : Leads(wire'[k], T[k-1], T[k])
  BY <1>4, <1>5, <1>6, <1>7, <1>8
<1>10. QED
  BY <1>3, <1>4, <1>9 DEF Inv, Lag

-----------------------------------------------------------------------------
(* decodeStringValue: what the next value means is what the parser reads.   *)
LEMMA DecodeEffect ==
  ASSUME NEW m, NEW U, Leads(m, DecState, U)
  PROVE  Decoded(m) = m.chars
<1>1. CASE LocalMeans(m, DecState)
  BY <1>1 DEF LocalMeans, DecState, Decoded, DecodedLocal
<1>2. CASE GlobalMeans(m, DecState)
  BY <1>2 DEF GlobalMeans, DecState, Decoded, DecodedGlobal
<1>3. CASE m.tag \in Nat /\ m.tag >= 2
  BY <1>3 DEF Decoded
<1>4. QED
  BY <1>1, <1>2, <1>3 DEF Leads

(* ... and the parser goes on to the next state of the lag.                 *)
LEMMA DecodeStep ==
  ASSUME Inv, decodeStringValue
  PROVE  /\ Inv'
         /\ received' = <<[qname |-> Head(wire).qname, str |-> Head(wire).chars]>>
<1> DEFINE n == Len(wire)
           m == Head(wire)
<1>1. PICK S : Lag(S)
  BY DEF Inv
<1>2. /\ wire \in Seq(Message) /\ wire # <<>> /\ wire' = Tail(wire)
      /\ n \in Nat \ {0} /\ m = wire[1] /\ m \in Message
      /\ wire' \in Seq(Message) /\ Len(wire') = n - 1
      /\ \A k \in 1..n - 1 : wire'[k] = wire[k + 1]
  BY DEF Inv, decodeStringValue
<1>3. Leads(m, DecState, S[1])
  <2>1. Leads(wire[1], S[0], S[1])
    BY <1>1, <1>2 DEF Lag
  <2>2. QED
    BY <1>1, <1>2, <2>1 DEF Lag
<1>4. DecState' = S[1]
  <2>1. CASE m.tag >= 2 /\ Storable(m.chars)
    <3>1. dec!AddValueEntry(m.chars, m.qname)
      BY <2>1 DEF decodeStringValue
    <3>2. m.chars \in Str /\ m.qname \in QNameID
      BY <1>2 DEF Message
    <3>3. DecState' = Added(DecState, m.chars, m.qname)
      BY <3>1, <3>2, DecAdds
    <3>4. QED
      BY <1>3, <2>1, <3>3 DEF Leads, LocalMeans, GlobalMeans
  <2>2. CASE ~(m.tag >= 2 /\ Storable(m.chars))
    <3>1. UNCHANGED decVars
      BY <2>2 DEF decodeStringValue
    <3>2. DecState' = DecState
      BY <3>1 DEF decVars, DecState
    <3>3. QED
      BY <1>3, <2>2, <3>2 DEF Leads
  <2>3. QED
    BY <2>1, <2>2
<1>5. encTable!Inv' /\ EncState' = EncState
  <2>1. UNCHANGED encVars
    BY DEF decodeStringValue
  <2>2. EncState' = EncState
    BY <2>1 DEF encVars, EncState
  <2>3. QED
    BY <2>1, <2>2, EncStutter DEF Inv
<1> DEFINE S2 == [k \in 0..n - 1 |-> S[k + 1]]
<1>6. \A k \in 0..n - 1 : S2[k] = S[k + 1]
  OBVIOUS
<1> HIDE DEF S2
<1>7. S2[0] = DecState' /\ S2[n - 1] = EncState'
  BY <1>1, <1>2, <1>4, <1>5, <1>6 DEF Lag
<1>8. \A k \in 0..n - 1 : Consistent(S2[k])
  <2> SUFFICES ASSUME NEW k \in 0..n - 1 PROVE Consistent(S2[k])
    OBVIOUS
  <2>1. k + 1 \in 0..n /\ S2[k] = S[k + 1]
    BY <1>2, <1>6
  <2>2. QED
    BY <1>1, <2>1 DEF Lag
<1>9. \A k \in 1..n - 1 : Leads(wire'[k], S2[k-1], S2[k])
  <2> SUFFICES ASSUME NEW k \in 1..n - 1 PROVE Leads(wire'[k], S2[k-1], S2[k])
    OBVIOUS
  <2>1. /\ k + 1 \in 1..n /\ (k + 1) - 1 = k /\ (k - 1) + 1 = k
        /\ wire'[k] = wire[k + 1] /\ S2[k] = S[k + 1] /\ S2[k-1] = S[k]
    BY <1>2, <1>6
  <2>2. Leads(wire[k + 1], S[(k + 1) - 1], S[k + 1])
    BY <1>1, <2>1 DEF Lag
  <2>3. QED
    BY <2>1, <2>2
<1>10. \E T : /\ T[0] = DecState' /\ T[Len(wire')] = EncState'
              /\ \A k \in 0..Len(wire') : Consistent(T[k])
              /\ \A k \in 1..Len(wire') : Leads(wire'[k], T[k-1], T[k])
  BY <1>2, <1>7, <1>8, <1>9
<1>11. Inv'
  BY <1>2, <1>5, <1>10 DEF Inv, Lag
<1>12. Decoded(m) = m.chars
  BY <1>3, DecodeEffect
<1>13. QED
  BY <1>11, <1>12 DEF decodeStringValue

-----------------------------------------------------------------------------
(* The invariant.                                                           *)

(* Both sides start with empty partitions and nothing between them.         *)
LEMMA InitInv == Init => Inv
<1> SUFFICES ASSUME Init PROVE Inv
  OBVIOUS
<1>1. encTable!Inv
  <2>1. encTable!Init
    BY DEF Init, enc!Init, encTable!Init
  <2>2. QED
    BY <2>1, EncAssumption, encTable!InitInv
<1>2. EncState = DecState
  BY DEF Init, enc!Init, dec!Init, EncState, DecState
<1>3. wire = <<>> /\ Len(wire) = 0 /\ wire \in Seq(Message)
  BY DEF Init
<1>4. Consistent(EncState)
  BY <1>1, EncFacts
<1> DEFINE S == [k \in {0} |-> EncState]
<1>5. Lag(S)
  BY <1>2, <1>3, <1>4 DEF Lag
<1>6. QED
  BY <1>1, <1>3, <1>5 DEF Inv

(* Every step of either side preserves it.                                  *)
LEMMA NextInv == Inv /\ [Next]_vars => Inv'
<1>1. ASSUME Inv, NEW s \in Str, NEW q \in QNameID, encodeStringData(s, q)
      PROVE  Inv'
  BY <1>1, EncodeStep
<1>2. ASSUME Inv, decodeStringValue PROVE Inv'
  BY <1>2, DecodeStep
<1>3. ASSUME Inv, UNCHANGED vars PROVE Inv'
  <2>1. UNCHANGED encVars /\ EncState' = EncState /\ DecState' = DecState /\ wire' = wire
    BY <1>3 DEF vars, encVars, decVars, EncState, DecState
  <2>2. encTable!Inv'
    BY <1>3, <2>1, EncStutter DEF Inv
  <2>3. QED
    BY <1>3, <2>1, <2>2 DEF Inv, Lag
<1>4. QED
  BY <1>1, <1>2, <1>3 DEF Next, Encode

(* The invariant holds in every state of every behaviour.                   *)
LEMMA InvHolds == Spec => []Inv
<1>1. Init => Inv
  BY InitInv
<1>2. Inv /\ [Next]_vars => Inv'
  BY NextInv
<1>3. QED
  BY <1>1, <1>2, PTL DEF Spec

-----------------------------------------------------------------------------
(* The theorems.                                                            *)

(* When the parser has read all that encodeStringData has written, its      *)
(* partitions are those of the serializer, although it looks nothing up.    *)
THEOREM PartitionsAgree == Spec => []TablesAgree
<1>1. Inv => TablesAgree
  <2> SUFFICES ASSUME Inv, wire = <<>> PROVE DecState = EncState
    BY DEF TablesAgree, DecState, EncState
  <2>1. PICK S : Lag(S)
    BY DEF Inv
  <2>2. QED
    BY <2>1 DEF Lag
<1>2. QED
  BY <1>1, InvHolds, PTL

(* However far the parser is behind, decodeStringValue never stores a       *)
(* string twice, and its global and local partitions point at each other.   *)
THEOREM ParserStaysConsistent == Spec => []ParserStoresOnce
<1>1. Inv => ParserStoresOnce
  <2> SUFFICES ASSUME Inv PROVE ParserStoresOnce
    OBVIOUS
  <2>1. PICK S : Lag(S)
    BY DEF Inv
  <2>2. Len(wire) \in Nat
    BY DEF Inv
  <2>3. Consistent(DecState)
    <3>1. Consistent(S[0])
      BY <2>1, <2>2 DEF Lag
    <3>2. QED
      BY <2>1, <3>1 DEF Lag
  <2>4. QED
    BY <2>3 DEF ParserStoresOnce, Consistent, Unique, SlotsKnowIds, IdsKnowSlots, DecState,
                dec!UniqueValues, dec!ValueToVx, dec!VxToValue
<1>2. QED
  BY <1>1, InvHolds, PTL

(* What encodeStringData was given is what decodeStringValue hands to the   *)
(* content handler, in the same order, whichever representation was chosen  *)
(* and whatever was evicted in between: every step of the codec is a step   *)
(* of the abstract pipe.  (That a value arrives at all is liveness.)        *)
THEOREM ImplementsEventPipe == Spec => Pipe!Init /\ [][Pipe!Next]_<<InFlight, received>>
<1>1. Init => Pipe!Init
  BY DEF Init, Pipe!Init, InFlight
<1>2. ASSUME Inv, NEW s \in Str, NEW q \in QNameID, encodeStringData(s, q)
      PROVE  Pipe!Next
  <2> DEFINE item == [qname |-> q, str |-> s]
  <2>1. PICK m \in Message : wire' = Append(wire, m) /\ m.qname = q /\ m.chars = s
    BY <1>2, EncodeEffect DEF Inv
  <2>2. received' = received
    BY <1>2, EncodeEffect DEF Inv
  <2>3. /\ Len(wire) \in Nat /\ Len(wire') = Len(wire) + 1
        /\ \A i \in 1..Len(wire) : wire'[i] = wire[i]
        /\ wire'[Len(wire) + 1] = m
    BY <1>2, <2>1 DEF Inv
  <2>4. InFlight' = Append(InFlight, item)
    <3>1. /\ Len(InFlight) = Len(wire)
          /\ \A i \in 1..Len(wire) :
               InFlight[i] = [qname |-> wire[i].qname, str |-> wire[i].chars]
      BY <2>3 DEF InFlight
    <3>2. Append(InFlight, item) =
            [i \in 1..Len(wire) + 1 |-> IF i = Len(wire) + 1 THEN item ELSE InFlight[i]]
      BY <2>3, <3>1
    <3>3. InFlight' = [i \in 1..Len(wire) + 1 |->
                         [qname |-> wire'[i].qname, str |-> wire'[i].chars]]
      BY <2>3 DEF InFlight
    <3>4. QED
      BY <2>1, <2>3, <3>1, <3>2, <3>3
  <2>5. item \in [qname : QNameID, str : Str]
    OBVIOUS
  <2>6. QED
    BY <2>2, <2>4, <2>5 DEF Pipe!Next, Pipe!Serialize
<1>3. ASSUME Inv, decodeStringValue PROVE Pipe!Next
  <2>1. received' = <<[qname |-> Head(wire).qname, str |-> Head(wire).chars]>>
    BY <1>3, DecodeStep
  <2>2. /\ wire \in Seq(Message) /\ wire # <<>> /\ wire' = Tail(wire)
        /\ Len(wire) \in Nat \ {0} /\ Len(wire') = Len(wire) - 1
        /\ \A i \in 1..Len(wire) - 1 : wire'[i] = wire[i + 1]
    BY <1>3 DEF Inv, decodeStringValue
  <2>3. /\ InFlight # <<>>
        /\ Len(InFlight) = Len(wire)
        /\ Head(InFlight) = [qname |-> Head(wire).qname, str |-> Head(wire).chars]
    BY <2>2 DEF InFlight
  <2>4. InFlight' = Tail(InFlight)
    <3>1. InFlight' = [i \in 1..Len(wire) - 1 |->
                         [qname |-> wire[i + 1].qname, str |-> wire[i + 1].chars]]
      BY <2>2 DEF InFlight
    <3>2. Tail(InFlight) = [i \in 1..Len(wire) - 1 |-> InFlight[i + 1]]
      <4> DEFINE Item == [qname : QNameID, str : Str]
      <4>1. \A i \in 1..Len(wire) : [qname |-> wire[i].qname, str |-> wire[i].chars] \in Item
        <5>1. \A i \in 1..Len(wire) : wire[i] \in Message
          BY <2>2
        <5>2. QED
          BY <5>1 DEF Message
      <4>2. InFlight \in [1..Len(wire) -> Item]
        BY <4>1 DEF InFlight
      <4> HIDE DEF Item
      <4>3. InFlight \in Seq(Item)
        BY <2>2, <4>2
      <4>4. Tail(InFlight) \in Seq(Item) /\ Len(Tail(InFlight)) = Len(wire) - 1
        BY <2>2, <2>3, <4>3
      <4>5. \A i \in 1..Len(wire) - 1 : Tail(InFlight)[i] = InFlight[i + 1]
        BY <2>2, <2>3, <4>3
      <4> DEFINE rest == Tail(InFlight)
      <4> HIDE DEF rest
      <4>6. rest \in [1..Len(wire) - 1 -> Item]
        <5>1. rest \in Seq(Item) /\ Len(rest) = Len(wire) - 1
          BY <4>4 DEF rest
        <5>2. QED
          BY <5>1, LenProperties
      <4>7. rest = [i \in 1..Len(wire) - 1 |-> InFlight[i + 1]]
        BY <4>5, <4>6 DEF rest
      <4>8. QED
        BY <4>7 DEF rest
    <3>3. \A i \in 1..Len(wire) - 1 :
            InFlight[i + 1] = [qname |-> wire[i + 1].qname, str |-> wire[i + 1].chars]
      BY <2>2 DEF InFlight
    <3>4. QED
      BY <3>1, <3>2, <3>3
  <2>5. QED
    BY <2>1, <2>3, <2>4 DEF Pipe!Next, Pipe!Parse
<1>4. UNCHANGED vars => UNCHANGED <<InFlight, received>>
  BY DEF vars, InFlight
<1>5. Inv /\ [Next]_vars => [Pipe!Next]_<<InFlight, received>>
  BY <1>2, <1>3, <1>4 DEF Next, Encode
<1>6. QED
  BY <1>1, <1>5, InvHolds, PTL DEF Spec
=============================================================================
