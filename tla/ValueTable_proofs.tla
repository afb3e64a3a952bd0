------------------------ MODULE ValueTable_proofs -------------------------
(***************************************************************************)
(* Proofs that the value partitions stay consistent for every capacity,    *)
(* every set of strings and qualified names, with and without hash table.  *)
(***************************************************************************)
EXTENDS ValueTable, Sequences, TLAPS

Inv == TypeOK /\ PartitionInv

(* The local id that the reused slot loses, pointwise: what addValueEntry   *)
(* does to local id j of name p when it adds a value for name q.            *)
NextVx(q, p, j) ==
  IF Evicting /\ p = value[globalId].forQNameId /\ j = value[globalId].vxEntryId
  THEN INDEX_MAX
  ELSE IF p = q /\ j = vxCount[q] THEN globalId ELSE vx[p][j]

(* What one addValueEntry does to every array, element by element.          *)
LEMMA AddEffect ==
  ASSUME Inv, NEW s \in Str, NEW q \in QNameID, AddValueEntry(s, q)
  PROVE  /\ vxCount' \in [QNameID -> Nat]
         /\ \A p \in QNameID : vxCount'[p] = IF p = q THEN vxCount[p] + 1
                                                     ELSE vxCount[p]
         /\ DOMAIN vx' = QNameID
         /\ \A p \in QNameID :
              vx'[p] = [j \in 0..vxCount'[p]-1 |-> NextVx(q, p, j)]
         /\ NewSlot = globalId
         /\ count' = IF Evicting THEN count ELSE count + 1
         /\ count' \in Nat
         /\ value' = [i \in 0..count'-1 |->
                        IF i = globalId
                        THEN [valueStr |-> s, forQNameId |-> q,
                              vxEntryId |-> vxCount[q]]
                        ELSE value[i]]
         /\ globalId' \in Nat
<1> DEFINE old == value[globalId]
           new == AddVxEntry(q)
<1>1. vxCount' \in [QNameID -> Nat]
  BY DEF Inv, TypeOK, AddValueEntry
<1>2. \A p \in QNameID : vxCount'[p] = IF p = q THEN vxCount[p] + 1
                                                ELSE vxCount[p]
  BY DEF Inv, TypeOK, AddValueEntry
<1>3. NewSlot = globalId
  BY DEF Inv, TypeOK, PartitionInv, SlotOrder, NewSlot, Evicting
<1>4. /\ count' = IF Evicting THEN count ELSE count + 1
      /\ count' \in Nat
  BY DEF Inv, TypeOK, AddValueEntry
<1>5. value' = [i \in 0..count'-1 |->
                  IF i = globalId
                  THEN [valueStr |-> s, forQNameId |-> q, vxEntryId |-> vxCount[q]]
                  ELSE value[i]]
  BY <1>3 DEF AddValueEntry
<1>6. globalId' \in Nat
  BY DEF Inv, TypeOK, AddValueEntry
<1>7. /\ DOMAIN new = QNameID
      /\ \A p \in QNameID :
           new[p] = [j \in 0..vxCount'[p]-1 |->
                       IF p = q /\ j = vxCount[q] THEN globalId ELSE vx[p][j]]
  <2>1. DOMAIN new = QNameID
    BY DEF AddVxEntry, Inv, TypeOK
  <2>2. new[q] = [j \in 0..vxCount[q] |->
                    IF j < vxCount[q] THEN vx[q][j] ELSE globalId]
    BY DEF AddVxEntry, Inv, TypeOK
  <2>3. \A p \in QNameID \ {q} : new[p] = vx[p]
    BY DEF AddVxEntry, Inv, TypeOK
  <2>4. new[q] = [j \in 0..vxCount'[q]-1 |->
                    IF j = vxCount[q] THEN globalId ELSE vx[q][j]]
    BY <1>2, <2>2 DEF Inv, TypeOK
  <2>5. \A p \in QNameID \ {q} : vx[p] = [j \in 0..vxCount'[p]-1 |-> vx[p][j]]
    BY <1>2 DEF Inv, TypeOK
  <2>6. QED
    BY <2>1, <2>3, <2>4, <2>5
<1>8. /\ DOMAIN vx' = QNameID
      /\ \A p \in QNameID :
           vx'[p] = [j \in 0..vxCount'[p]-1 |-> NextVx(q, p, j)]
  <2>1. CASE ~Evicting
    <3>1. vx' = new
      BY <2>1 DEF AddValueEntry
    <3>2. QED
      BY <1>7, <2>1, <3>1 DEF NextVx
  <2>2. CASE Evicting
    <3>1. vx' = [new EXCEPT ![old.forQNameId][old.vxEntryId] = INDEX_MAX]
      BY <2>2 DEF AddValueEntry, DropVxEntry
    <3>2. globalId \in 0..count-1 /\ old.forQNameId \in QNameID
      BY <2>2 DEF Inv, TypeOK, Evicting, ValueEntry
    <3>3. DOMAIN vx' = QNameID
      BY <1>7, <3>1
    <3>4. ASSUME NEW p \in QNameID, p # old.forQNameId
          PROVE  vx'[p] = [j \in 0..vxCount'[p]-1 |-> NextVx(q, p, j)]
      <4>1. vx'[p] = new[p]
        BY <1>7, <3>1, <3>4
      <4>2. QED
        BY <1>7, <3>4, <4>1 DEF NextVx
    <3>5. ASSUME NEW p \in QNameID, p = old.forQNameId
          PROVE  vx'[p] = [j \in 0..vxCount'[p]-1 |-> NextVx(q, p, j)]
      <4>1. vx'[p] = [new[p] EXCEPT ![old.vxEntryId] = INDEX_MAX]
        BY <1>7, <3>1, <3>5
      <4>2. new[p] = [j \in 0..vxCount'[p]-1 |->
                        IF p = q /\ j = vxCount[q] THEN globalId ELSE vx[p][j]]
        BY <1>7
      <4>3. vx'[p] = [j \in 0..vxCount'[p]-1 |->
                        IF j = old.vxEntryId THEN INDEX_MAX
                        ELSE IF p = q /\ j = vxCount[q] THEN globalId ELSE vx[p][j]]
        BY <4>1, <4>2
      <4>4. QED
        BY <2>2, <3>5, <4>3 DEF NextVx
    <3>6. QED
      BY <3>3, <3>4, <3>5
  <2>3. QED
    BY <2>1, <2>2
<1>9. QED
  BY <1>1, <1>2, <1>3, <1>4, <1>5, <1>6, <1>8

(* A miss in the look-up the build uses means that no slot holds the string.*)
LEMMA MissIsNew ==
  ASSUME Inv, NEW s \in Str, ~LookupValue(s)
  PROVE  \A i \in 0..count-1 : value[i].valueStr # s
<1>1. CASE HashTable
  <2>1. hash = {[key |-> value[i].valueStr, value |-> i] : i \in 0..count-1}
    BY <1>1 DEF Inv, PartitionInv, HashMirrorsTable
  <2>2. SUFFICES ASSUME NEW i \in 0..count-1, value[i].valueStr = s
                 PROVE  FALSE
    OBVIOUS
  <2>3. [key |-> s, value |-> i] \in hash
    BY <2>1, <2>2
  <2>4. i \in ValueMatches(s)
    BY <1>1, <2>3 DEF ValueMatches
  <2>5. QED
    BY <2>4 DEF LookupValue
<1>2. CASE ~HashTable
  BY <1>2 DEF LookupValue, ValueMatches
<1>3. QED
  BY <1>1, <1>2

(* addValueEntry keeps every array well typed and its length as counted.    *)
LEMMA TypeStep ==
  ASSUME Inv, NEW s \in Str, NEW q \in QNameID, AddValueEntry(s, q)
  PROVE  TypeOK'
<1> USE AddEffect DEF Inv
<1>1. globalId \in 0..INDEX_MAX /\ INDEX_MAX \in 0..INDEX_MAX
  BY ValueTableAssumption DEF PartitionInv, SlotOrder, TypeOK
<1>2. value' \in [0..count'-1 -> ValueEntry]
  <2>1. [valueStr |-> s, forQNameId |-> q, vxEntryId |-> vxCount[q]] \in ValueEntry
    BY DEF ValueEntry, TypeOK
  <2>2. \A i \in 0..count'-1 : i # globalId => value[i] \in ValueEntry
    BY DEF TypeOK, Evicting, PartitionInv, SlotOrder
  <2>3. QED
    BY <2>1, <2>2
<1>3. ASSUME NEW p \in QNameID
      PROVE  vx'[p] \in [0..vxCount'[p]-1 -> 0..INDEX_MAX]
  <2>1. vx'[p] = [j \in 0..vxCount'[p]-1 |-> NextVx(q, p, j)]
    OBVIOUS
  <2>2. vxCount[p] \in Nat /\ vx[p] \in [0..vxCount[p]-1 -> 0..INDEX_MAX]
    BY DEF TypeOK
  <2>3. vxCount'[p] = IF p = q THEN vxCount[p] + 1 ELSE vxCount[p]
    OBVIOUS
  <2>4. ASSUME NEW j \in 0..vxCount'[p]-1
        PROVE  NextVx(q, p, j) \in 0..INDEX_MAX
    <3>1. (p = q /\ j = vxCount[q]) \/ j \in 0..vxCount[p]-1
      BY <2>2, <2>3
    <3>2. QED
      BY <1>1, <2>2, <3>1 DEF NextVx
  <2>5. QED
    BY <2>1, <2>4
<1>4. hash' \subseteq [key : Str, value : Nat]
  <2>1. \A t : HashRemove(hash, t) \subseteq hash
    BY DEF HashRemove
  <2>2. [key |-> s, value |-> globalId] \in [key : Str, value : Nat]
    BY DEF TypeOK
  <2>3. QED
    BY <2>1, <2>2 DEF TypeOK, AddValueEntry
<1>5. QED
  BY <1>2, <1>3, <1>4 DEF TypeOK

(* addValueEntry keeps globalId a legal slot that trails the table only when *)
(* the table is full.                                                       *)
LEMMA SlotOrderStep ==
  ASSUME Inv, NEW s \in Str, NEW q \in QNameID, AddValueEntry(s, q)
  PROVE  SlotOrder'
BY ValueTableAssumption
   DEF Inv, TypeOK, PartitionInv, SlotOrder, AddValueEntry, Evicting

(* addValueEntry after a miss gives no string a second global identifier.   *)
LEMMA UniqueValuesStep ==
  ASSUME Inv, NEW s \in Str, NEW q \in QNameID, ~LookupValue(s),
         AddValueEntry(s, q)
  PROVE  UniqueValues'
<1>1. \A i \in 0..count-1 : value[i].valueStr # s
  BY MissIsNew
<1>2. globalId \in Nat /\ count \in Nat /\ globalId <= count
  BY DEF Inv, TypeOK, PartitionInv, SlotOrder
<1>3. \A i \in 0..count'-1 : value'[i].valueStr = IF i = globalId THEN s
                                                  ELSE value[i].valueStr
  BY AddEffect
<1>4. \A i \in 0..count'-1 : i # globalId => i \in 0..count-1
  BY <1>2, AddEffect DEF Evicting
<1>5. QED
  BY <1>1, <1>3, <1>4 DEF Inv, PartitionInv, UniqueValues

(* addValueEntry keeps the hash table equal to the live slots.              *)
LEMMA HashStep ==
  ASSUME Inv, NEW s \in Str, NEW q \in QNameID, AddValueEntry(s, q)
  PROVE  HashMirrorsTable'
<1> DEFINE Pair(i) == [key |-> value[i].valueStr, value |-> i]
           rest == {Pair(i) : i \in (0..count-1) \ {globalId}}
           newPair == [key |-> s, value |-> globalId]
<1> SUFFICES ASSUME HashTable
             PROVE  hash' = {[key |-> value'[i].valueStr, value |-> i] :
                               i \in 0..count'-1}
  BY DEF HashMirrorsTable
<1>1. hash = {Pair(i) : i \in 0..count-1}
  BY DEF Inv, PartitionInv, HashMirrorsTable
<1>2. globalId \in Nat /\ count \in Nat /\ globalId <= count
  BY DEF Inv, TypeOK, PartitionInv, SlotOrder
<1>3. hash' = rest \union {newPair}
  <2>1. CASE Evicting
    <3>1. globalId \in 0..count-1
      BY <1>2, <2>1 DEF Evicting
    <3>2. \A e \in hash : e.key = value[globalId].valueStr <=> e = Pair(globalId)
      BY <1>1, <3>1 DEF Inv, PartitionInv, UniqueValues
    <3>3. Pair(globalId) \in hash
      BY <1>1, <3>1
    <3>4. HashRemove(hash, value[globalId].valueStr) = hash \ {Pair(globalId)}
      <4>1. \E e \in hash : e.key = value[globalId].valueStr
        BY <3>2, <3>3
      <4>2. (CHOOSE e \in hash : e.key = value[globalId].valueStr) = Pair(globalId)
        BY <3>2, <4>1
      <4>3. QED
        BY <4>1, <4>2 DEF HashRemove
    <3>5. hash \ {Pair(globalId)} = rest
      <4>1. \A i \in 0..count-1 : Pair(i) = Pair(globalId) <=> i = globalId
        OBVIOUS
      <4>2. QED
        BY <1>1, <4>1
    <3>6. QED
      BY <2>1, <3>4, <3>5 DEF AddValueEntry
  <2>2. CASE ~Evicting
    <3>1. 0..count-1 = (0..count-1) \ {globalId}
      BY <1>2, <2>2 DEF Evicting
    <3>2. QED
      BY <1>1, <2>2, <3>1 DEF AddValueEntry
  <2>3. QED
    BY <2>1, <2>2
<1>4. 0..count'-1 = ((0..count-1) \ {globalId}) \union {globalId}
  BY <1>2, AddEffect DEF Evicting
<1>5. \A i \in 0..count'-1 : value'[i].valueStr = IF i = globalId THEN s
                                                  ELSE value[i].valueStr
  BY AddEffect
<1>6. QED
  BY <1>3, <1>4, <1>5

(* addValueEntry keeps global slots and local ids pointing at each other.   *)
LEMMA CrossLinkStep ==
  ASSUME Inv, NEW s \in Str, NEW q \in QNameID, AddValueEntry(s, q)
  PROVE  ValueToVx' /\ VxToValue'
<1>1. /\ globalId \in Nat /\ count \in Nat /\ globalId <= count
      /\ globalId # INDEX_MAX /\ count' \in Nat
  BY AddEffect, ValueTableAssumption DEF Inv, TypeOK, PartitionInv, SlotOrder
<1>2. /\ globalId \in 0..count'-1 /\ globalId < count'
      /\ \A i \in 0..count'-1 : i # globalId => i \in 0..count-1
      /\ \A i \in 0..count-1 : i \in 0..count'-1
  <2>1. count' = IF globalId < count THEN count ELSE count + 1
    BY AddEffect DEF Evicting
  <2>2. QED
    BY <1>1, <2>1
<1>3. \A i \in 0..count'-1 :
        /\ value'[i].forQNameId = IF i = globalId THEN q ELSE value[i].forQNameId
        /\ value'[i].vxEntryId = IF i = globalId THEN vxCount[q]
                                                 ELSE value[i].vxEntryId
  BY AddEffect
<1>4. \A i \in 0..count-1 :
        /\ value[i].forQNameId \in QNameID
        /\ value[i].vxEntryId \in Nat
        /\ value[i].vxEntryId < vxCount[value[i].forQNameId]
        /\ vx[value[i].forQNameId][value[i].vxEntryId] = i
  BY DEF Inv, TypeOK, PartitionInv, ValueToVx, ValueEntry
<1>5. \A p \in QNameID : vxCount[p] \in Nat /\ vxCount'[p] \in Nat
  BY AddEffect DEF Inv, TypeOK
<1>6. \A p \in QNameID : \A j \in 0..vxCount'[p]-1 : vx'[p][j] = NextVx(q, p, j)
  <2>1. \A p \in QNameID : vx'[p] = [j \in 0..vxCount'[p]-1 |-> NextVx(q, p, j)]
    BY AddEffect
  <2>2. QED
    BY <2>1, Zenon
<1>7. \A p \in QNameID : vxCount'[p] = IF p = q THEN vxCount[p] + 1 ELSE vxCount[p]
  BY AddEffect
<1>8. ASSUME NEW i \in 0..count'-1
      PROVE  /\ value'[i].vxEntryId < vxCount'[value'[i].forQNameId]
             /\ vx'[value'[i].forQNameId][value'[i].vxEntryId] = i
  <2>1. CASE i = globalId
    <3>1. value'[i].forQNameId = q /\ value'[i].vxEntryId = vxCount[q]
      BY <1>3, <2>1
    <3>2. vxCount[q] \in 0..vxCount'[q]-1
      BY <1>5, <1>7
    <3>3. NextVx(q, q, vxCount[q]) = globalId
      BY <1>1, <1>4, <1>5 DEF NextVx, Evicting
    <3>4. QED
      BY <1>5, <1>6, <1>7, <2>1, <3>1, <3>2, <3>3
  <2>2. CASE i # globalId
    <3> DEFINE p == value[i].forQNameId
               j == value[i].vxEntryId
    <3>1. i \in 0..count-1 /\ value'[i].forQNameId = p /\ value'[i].vxEntryId = j
      BY <1>2, <1>3, <2>2
    <3>2. p \in QNameID /\ j \in 0..vxCount[p]-1 /\ vx[p][j] = i
      BY <1>4, <1>5, <3>1
    <3>3. j \in 0..vxCount'[p]-1 /\ ~(p = q /\ j = vxCount[q])
      BY <1>5, <1>7, <3>2
    <3>4. ~(Evicting /\ p = value[globalId].forQNameId
                     /\ j = value[globalId].vxEntryId)
      BY <1>1, <1>4, <2>2, <3>2 DEF Evicting
    <3>5. vx'[p][j] = i
      BY <1>6, <3>2, <3>3, <3>4 DEF NextVx
    <3>6. QED
      BY <1>5, <3>1, <3>2, <3>3, <3>5
  <2>3. QED
    BY <2>1, <2>2
<1>9. ASSUME NEW p \in QNameID, NEW j \in 0..vxCount'[p]-1, vx'[p][j] # INDEX_MAX
      PROVE  /\ vx'[p][j] < count'
             /\ value'[vx'[p][j]].forQNameId = p
             /\ value'[vx'[p][j]].vxEntryId = j
  <2>1. vx'[p][j] = IF p = q /\ j = vxCount[q] THEN globalId ELSE vx[p][j]
    BY <1>6, <1>9 DEF NextVx
  <2>2. CASE p = q /\ j = vxCount[q]
    <3>1. vx'[p][j] = globalId
      BY <2>1, <2>2
    <3>2. globalId < count'
      BY <1>2, Zenon
    <3>3. QED
      BY <1>2, <1>3, <2>2, <3>1, <3>2
  <2>3. CASE ~(p = q /\ j = vxCount[q])
    <3> DEFINE i == vx[p][j]
    <3>1. j \in 0..vxCount[p]-1 /\ vx'[p][j] = i /\ i # INDEX_MAX
      BY <1>5, <1>7, <1>9, <2>1, <2>3
    <3>2. /\ i \in 0..count-1
          /\ value[i].forQNameId = p
          /\ value[i].vxEntryId = j
      BY <1>5, <3>1 DEF Inv, TypeOK, PartitionInv, VxToValue
    <3>3. i # globalId
      <4>1. SUFFICES ASSUME i = globalId PROVE FALSE
        OBVIOUS
      <4>2. Evicting
        BY <1>1, <3>2, <4>1 DEF Evicting
      <4>3. NextVx(q, p, j) = INDEX_MAX
        BY <3>2, <4>1, <4>2 DEF NextVx
      <4>4. QED
        BY <1>6, <1>9, <4>3
    <3>4. i \in 0..count'-1
      BY <1>2, <3>2
    <3>5. i < count'
      BY <1>1, <3>4
    <3>6. QED
      BY <1>3, <3>1, <3>2, <3>3, <3>4, <3>5
  <2>4. QED
    BY <2>2, <2>3
<1>10. QED
  BY <1>8, <1>9 DEF ValueToVx, VxToValue

(* Initially every partition is empty.                                      *)
LEMMA InitInv == Init => Inv
BY ValueTableAssumption
   DEF Init, Inv, TypeOK, PartitionInv, SlotOrder, UniqueValues,
       HashMirrorsTable, ValueToVx, VxToValue

(* One addition after a miss preserves the whole inductive invariant.       *)
LEMMA AddStep ==
  ASSUME Inv, NEW s \in Str, NEW q \in QNameID, AddOnMiss(s, q)
  PROVE  Inv'
<1>1. ~LookupValue(s) /\ AddValueEntry(s, q)
  BY DEF AddOnMiss
<1>2. TypeOK'
  BY <1>1, TypeStep
<1>3. SlotOrder'
  BY <1>1, SlotOrderStep
<1>4. UniqueValues'
  BY <1>1, UniqueValuesStep
<1>5. HashMirrorsTable'
  BY <1>1, HashStep
<1>6. ValueToVx' /\ VxToValue'
  BY <1>1, CrossLinkStep
<1>7. QED
  BY <1>2, <1>3, <1>4, <1>5, <1>6 DEF Inv, PartitionInv

(* A hit changes nothing, so it preserves the invariant.                    *)
LEMMA StutterStep == Inv /\ UNCHANGED vars => Inv'
BY DEF vars, Inv, TypeOK, PartitionInv, SlotOrder, UniqueValues,
       HashMirrorsTable, ValueToVx, VxToValue, Evicting

(* Every step of the partitions preserves the inductive invariant.          *)
LEMMA NextInv == Inv /\ [Next]_vars => Inv'
<1>1. ASSUME Inv, NEW s \in Str, NEW q \in QNameID, AddOnMiss(s, q)
      PROVE  Inv'
  BY <1>1, AddStep
<1>2. ASSUME Inv, NEW s \in Str, NEW q \in QNameID, KeepOnHit(s, q)
      PROVE  Inv'
  BY <1>2, StutterStep DEF KeepOnHit
<1>3. QED
  BY <1>1, <1>2, StutterStep DEF Next

(* The global partition, the value cross tables and the hash table of       *)
(* addValueEntry agree after any number of additions, wrap-arounds and      *)
(* evictions, whatever the capacity.                                        *)
THEOREM PartitionsConsistent == Spec => [](TypeOK /\ PartitionInv)
<1>1. Init => Inv
  BY InitInv
<1>2. Inv /\ [Next]_vars => Inv'
  BY NextInv
<1>3. Inv => TypeOK /\ PartitionInv
  BY DEF Inv
<1>4. QED
  BY <1>1, <1>2, <1>3, PTL DEF Spec

(* addValueEntry never re-assigns a local compact identifier: the one it    *)
(* appends is new, the one it nulls is the evicted value's.                 *)
THEOREM LocalIdsArePermanent == Spec => LocalIdsPermanent
<1> DEFINE Permanent == \A q \in QNameID : \A j \in 0..vxCount[q]-1 :
                          /\ j < vxCount'[q]
                          /\ vx'[q][j] \in {vx[q][j], INDEX_MAX}
<1>1. ASSUME Inv, NEW s \in Str, NEW q \in QNameID, AddOnMiss(s, q)
      PROVE  Permanent
  <2>1. AddValueEntry(s, q)
    BY <1>1 DEF AddOnMiss
  <2>2. ASSUME NEW p \in QNameID, NEW j \in 0..vxCount[p]-1
        PROVE  j < vxCount'[p] /\ vx'[p][j] \in {vx[p][j], INDEX_MAX}
    <3>1. vxCount[p] \in Nat
      BY <1>1 DEF Inv, TypeOK
    <3>2. vxCount'[p] = IF p = q THEN vxCount[p] + 1 ELSE vxCount[p]
      BY <1>1, <2>1, AddEffect
    <3>3. vx'[p] = [k \in 0..vxCount'[p]-1 |-> NextVx(q, p, k)]
      BY <1>1, <2>1, AddEffect
    <3>4. j \in 0..vxCount'[p]-1 /\ j < vxCount'[p] /\ ~(p = q /\ j = vxCount[q])
      BY <3>1, <3>2
    <3>5. QED
      BY <3>3, <3>4 DEF NextVx
  <2>3. QED
    BY <2>2
<1>2. Inv /\ [Next]_vars => [Permanent]_vars
  BY <1>1 DEF Next, KeepOnHit
<1>3. Spec => []Inv
  BY PartitionsConsistent, PTL DEF Inv
<1>4. QED
  BY <1>2, <1>3, PTL DEF Spec, LocalIdsPermanent

-----------------------------------------------------------------------------
(* The named invariants, one by one.                                        *)

(* No string ever holds two compact identifiers.                            *)
THEOREM NoDuplicateValues == Spec => []UniqueValues
BY PartitionsConsistent, PTL DEF PartitionInv

(* The serializer's hash table never holds a freed or misplaced string.     *)
THEOREM HashTableFollows == Spec => []HashMirrorsTable
BY PartitionsConsistent, PTL DEF PartitionInv

(* The slot of the next value is a legal one, and a slot is used again only *)
(* when the table is full (addValueEntry).                                  *)
THEOREM SlotsInOrder == Spec => []SlotOrder
BY PartitionsConsistent, PTL DEF PartitionInv

(* No assigned local id leads to a slot that is dead or of another name.    *)
THEOREM LocalIdsAreLive == Spec => []VxToValue
BY PartitionsConsistent, PTL DEF PartitionInv

(* Global and local partitions point at each other, both ways, so lookupVx  *)
(* dereferences only live entries and eviction nulls the right local id.    *)
THEOREM CrossLinked == Spec => [](ValueToVx /\ VxToValue)
BY PartitionsConsistent, PTL DEF PartitionInv

-----------------------------------------------------------------------------
(* Refinement: the table is the window of the last Capacity distinct        *)
(* strings.                                                                 *)

(* The slot of the k-th oldest value when n slots are in use and g is next. *)
AgeSlot(g, n, k) == IF g + k - 1 < n THEN g + k - 1 ELSE g + k - 1 - n

Remembered(entry) == [str |-> entry.valueStr, qname |-> entry.forQNameId]

(* The slot of the k-th oldest value is a live slot.                        *)
LEMMA AgeSlotRange ==
  ASSUME NEW g \in Nat, NEW n \in Nat, g <= n, NEW k \in 1..n
  PROVE  AgeSlot(g, n, k) \in 0..n-1
BY DEF AgeSlot

(* The refinement mapping yields a sequence with one element per live slot. *)
LEMMA WindowIsSequence ==
  ASSUME Inv
  PROVE  /\ Window = [k \in 1..count |-> Remembered(value[AgeSlot(globalId, count, k)])]
         /\ \A k \in 1..count : AgeSlot(globalId, count, k) \in 0..count-1
         /\ Window \in Seq([str : Str, qname : QNameID])
         /\ Len(Window) = count
<1>1. Window = [k \in 1..count |-> Remembered(value[AgeSlot(globalId, count, k)])]
  BY DEF Window, Remembered, AgeSlot
<1>2. globalId \in Nat /\ count \in Nat /\ globalId <= count
  BY DEF Inv, TypeOK, PartitionInv, SlotOrder
<1>3. \A k \in 1..count : AgeSlot(globalId, count, k) \in 0..count-1
  BY <1>2 DEF AgeSlot
<1>4. \A i \in 0..count-1 : Remembered(value[i]) \in [str : Str, qname : QNameID]
  BY DEF Inv, TypeOK, ValueEntry, Remembered
<1>5. Window \in [1..count -> [str : Str, qname : QNameID]]
  BY <1>1, <1>3, <1>4
<1>6. QED
  BY <1>1, <1>2, <1>3, <1>5

(* The empty table is the empty window.                                     *)
LEMMA RefinesInit == Init => Recent!Init
<1> SUFFICES ASSUME Init PROVE Window = <<>>
  BY DEF Recent!Init
<1>1. Inv /\ count = 0
  BY InitInv DEF Init
<1>2. QED
  BY <1>1, WindowIsSequence

(* An addition is one Remember step: the oldest value leaves iff full.      *)
LEMMA RefinesAdd ==
  ASSUME Inv, NEW s \in Str, NEW q \in QNameID, AddOnMiss(s, q)
  PROVE  Recent!Remember(s, q)
<1> DEFINE kept == IF Len(Window) = Capacity THEN Tail(Window) ELSE Window
           new == [str |-> s, qname |-> q]
<1>1. AddValueEntry(s, q) /\ ~LookupValue(s) /\ Inv'
  BY AddStep DEF AddOnMiss
<1>2. ~Recent!Known(s)
  <2>1. \A k \in 1..count : Window[k].str = value[AgeSlot(globalId, count, k)].valueStr
    BY WindowIsSequence DEF Remembered
  <2>2. QED
    BY <1>1, <2>1, WindowIsSequence, MissIsNew DEF Recent!Known
<1>3. /\ globalId \in Nat /\ count \in Nat /\ globalId <= count
      /\ count <= Capacity /\ globalId < Capacity /\ Capacity \in Nat
      /\ globalId < count => count = Capacity
  BY ValueTableAssumption DEF Inv, TypeOK, PartitionInv, SlotOrder
<1>4. /\ count' = IF globalId < count THEN count ELSE count + 1
      /\ globalId' = IF globalId + 1 = Capacity THEN 0 ELSE globalId + 1
  BY <1>1 DEF AddValueEntry, Evicting
<1>5. \A i \in 0..count'-1 :
        Remembered(value'[i]) = IF i = globalId THEN new ELSE Remembered(value[i])
  <2>1. \A i \in 0..count'-1 :
          value'[i] = IF i = globalId
                      THEN [valueStr |-> s, forQNameId |-> q,
                            vxEntryId |-> vxCount[q]]
                      ELSE value[i]
    BY <1>1, AddEffect
  <2>2. QED
    BY <2>1 DEF Remembered
<1>6. /\ Window' = [k \in 1..count' |-> Remembered(value'[AgeSlot(globalId', count', k)])]
      /\ \A k \in 1..count' : AgeSlot(globalId', count', k) \in 0..count'-1
  <2>1. Window' = [k \in 1..count' |-> Remembered(value'[AgeSlot(globalId', count', k)])]
    BY DEF Window, Remembered, AgeSlot
  <2>2. globalId' \in Nat /\ count' \in Nat /\ globalId' <= count'
    BY <1>3, <1>4
  <2>3. \A k \in 1..count' : AgeSlot(globalId', count', k) \in 0..count'-1
    BY <2>2, AgeSlotRange
  <2>4. QED
    BY <2>1, <2>3
<1>7. \A k \in 1..count' : Remembered(value'[AgeSlot(globalId', count', k)]) =
        IF AgeSlot(globalId', count', k) = globalId THEN new ELSE Remembered(value[AgeSlot(globalId', count', k)])
  BY <1>5, <1>6 DEF Remembered
<1>8. CASE globalId < count
  <2>1. count = Capacity /\ count' = count /\ count > 0
    BY <1>3, <1>4, <1>8
  <2>2. /\ AgeSlot(globalId', count', count) = globalId
        /\ \A k \in 1..count-1 : /\ AgeSlot(globalId', count', k) = AgeSlot(globalId, count, k+1)
                                 /\ AgeSlot(globalId', count', k) # globalId
    BY <1>3, <1>4, <1>8, <2>1 DEF AgeSlot
  <2>3. /\ kept = Tail(Window)
        /\ kept \in Seq([str : Str, qname : QNameID])
        /\ Len(kept) = count - 1
        /\ \A k \in 1..count-1 : kept[k] = Window[k+1]
    BY <1>3, <2>1, WindowIsSequence
  <2>4. \A k \in 1..count-1 : kept[k] = Remembered(value[AgeSlot(globalId, count, k+1)])
    BY <1>3, <2>3, WindowIsSequence
  <2>5. Append(kept, new) = [k \in 1..count |-> IF k = count THEN new ELSE kept[k]]
    BY <1>3, <2>1, <2>3
  <2>6. Window' = [k \in 1..count |-> IF k = count THEN new ELSE kept[k]]
    <3>1. \A k \in 1..count :
            Remembered(value'[AgeSlot(globalId', count', k)])
              = IF k = count THEN new ELSE kept[k]
      <4>1. Remembered(value'[AgeSlot(globalId', count', count)]) = new
        <5>1. count \in 1..count'
          BY <1>3, <2>1
        <5>2. QED
          BY <1>7, <2>2, <5>1, Zenon
      <4>2. ASSUME NEW k \in 1..count-1
            PROVE  Remembered(value'[AgeSlot(globalId', count', k)]) = kept[k]
        <5> DEFINE slot == AgeSlot(globalId', count', k)
        <5>1. k \in 1..count'
          BY <1>3, <2>1
        <5>2. slot = AgeSlot(globalId, count, k+1) /\ slot # globalId
          BY <2>2
        <5>3. Remembered(value'[slot]) = Remembered(value[slot])
          BY <1>7, <5>1, <5>2, Zenon
        <5>4. kept[k] = Remembered(value[AgeSlot(globalId, count, k+1)])
          BY <2>4
        <5>5. QED
          BY <5>2, <5>3, <5>4, Zenon
      <4>3. QED
        <5>1. \A k \in 1..count : k = count \/ k \in 1..count-1
          BY <1>3
        <5>2. \A k \in 1..count-1 : k # count
          BY <1>3
        <5>3. QED
          BY <4>1, <4>2, <5>1, <5>2, Zenon
    <3>2. QED
      BY <1>6, <2>1, <3>1
  <2>7. QED
    BY <1>2, <2>5, <2>6 DEF Recent!Remember
<1>9. CASE ~(globalId < count)
  <2>1. globalId = count /\ count' = count + 1 /\ count < Capacity
    BY <1>3, <1>4, <1>9
  <2>2. /\ AgeSlot(globalId', count', count') = globalId
        /\ \A k \in 1..count : /\ AgeSlot(globalId', count', k) = AgeSlot(globalId, count, k)
                               /\ AgeSlot(globalId', count', k) # globalId
    BY <1>3, <1>4, <2>1 DEF AgeSlot
  <2>3. kept = Window
    BY <1>3, <2>1, WindowIsSequence
  <2>4. Append(kept, new) = [k \in 1..count' |-> IF k = count' THEN new ELSE Window[k]]
    BY <1>3, <2>1, <2>3, WindowIsSequence
  <2>5. Window' = [k \in 1..count' |-> IF k = count' THEN new ELSE Window[k]]
    BY <1>3, <1>6, <1>7, <2>1, <2>2, WindowIsSequence
  <2>6. QED
    BY <1>2, <2>4, <2>5 DEF Recent!Remember
<1>10. QED
  BY <1>8, <1>9

(* addValueEntry with its wrap-around implements the first-in first-out     *)
(* window of the last valuePartitionCapacity strings.                       *)
THEOREM RefinesRecentValues == Spec => ImplementsRecentValues
<1>1. Init => Recent!Init
  BY RefinesInit
<1>2. Inv /\ [Next]_vars => [Recent!Next]_Window
  <2>1. ASSUME Inv, NEW s \in Str, NEW q \in QNameID, AddOnMiss(s, q)
        PROVE  Recent!Next
    BY <2>1, RefinesAdd DEF Recent!Next
  <2>2. UNCHANGED vars => UNCHANGED Window
    BY DEF vars, Window
  <2>3. QED
    BY <2>1, <2>2 DEF Next, KeepOnHit
<1>3. Spec => []Inv
  BY PartitionsConsistent, PTL DEF Inv
<1>4. QED
  BY <1>1, <1>2, <1>3, PTL DEF Spec, ImplementsRecentValues, Recent!Spec
=============================================================================
