---------------------------- MODULE ValueTable ----------------------------
(***************************************************************************)
(* The value partitions of one EXI stream, as src/stringTables/sTables.c   *)
(* keeps them: the global value table (value, count, globalId), one value  *)
(* cross table (vxTable) per qualified name, and the optional hash table   *)
(* that mirrors the global table in the serializer.  Arrays are functions  *)
(* on 0..count-1, indexed as in the code.                                  *)
(***************************************************************************)
EXTENDS Integers

CONSTANTS QNameID,     \* the qualified names values are attributed to
          Str,         \* the strings that may enter the partitions
          INDEX_MAX,   \* the value of an unassigned identifier
          Capacity,    \* opts.valuePartitionCapacity
          HashTable    \* TRUE iff valueTable.hashTbl # NULL

ASSUME ValueTableAssumption ==
  /\ INDEX_MAX \in Nat
  /\ Capacity \in 1..INDEX_MAX   \* the callers test capacity > 0 first
  /\ HashTable \in BOOLEAN

VARIABLES value,     \* valueTable.value: the entries of the global partition
          count,     \* valueTable.count
          globalId,  \* valueTable.globalId: the slot the next value takes
          vx,        \* vx[q][j]: the global id behind local id j of q
          vxCount,   \* vxCount[q]: vxTable->count, 0 while vxTable = NULL
          hash       \* the pairs stored in the hash table

vars == <<value, count, globalId, vx, vxCount, hash>>

ValueEntry == [valueStr : Str, forQNameId : QNameID, vxEntryId : Nat]

Init == 
  /\ value = [i \in {} |-> 0]
  /\ count = 0
  /\ globalId = 0
  /\ vx = [q \in QNameID |-> [j \in {} |-> 0]]
  /\ vxCount = [q \in QNameID |-> 0]
  /\ hash = {}

-----------------------------------------------------------------------------
(* Look-ups: sets of the identifiers that match; the code scans upwards and *)
(* returns the least one.                                                   *)

VxMatches(s, q) ==
  {j \in 0..vxCount[q]-1 : /\ vx[q][j] # INDEX_MAX
                           /\ value[vx[q][j]].valueStr = s}

LookupVx(s, q) == VxMatches(s, q) # {}

VxEntryId(s, q) ==
  CHOOSE j \in VxMatches(s, q) : \A k \in VxMatches(s, q) : j <= k

ValueMatches(s) ==
  IF HashTable THEN {e.value : e \in {h \in hash : h.key = s}}
               ELSE {i \in 0..count-1 : value[i].valueStr = s}

LookupValue(s) == ValueMatches(s) # {}

ValueEntryId(s) ==
  CHOOSE i \in ValueMatches(s) : \A k \in ValueMatches(s) : i <= k

(* Mutant of HashRemove: the entry of an evicted string stays.              *)
HashRemoveForgotten(h, s) == h

HashRemove(h, s) ==
  IF \E e \in h : e.key = s THEN h \ {CHOOSE e \in h : e.key = s} ELSE h

-----------------------------------------------------------------------------
(* addValueEntry(strm, s, q).  Every step of the C function, in its order:  *)
(* a local id is appended for the new value, the value that the reused slot *)
(* held loses its local id and its hash entry, the slot is written, the     *)
(* hash entry inserted and globalId advanced modulo the capacity.           *)

(* Mutant of Evicting: the wrap-around is noticed one slot too late.        *)
EvictingOffByOne == globalId + 1 < count

Evicting == globalId < count

(* Mutant of NewSlot: the value is always appended.                         *)
NewSlotAppended == count

NewSlot == IF Evicting THEN globalId ELSE count

(* Mutants of AddVxEntry: the entry is counted but not stored; the entry is *)
(* written over the last one as well.                                       *)
AddVxEntryLost(q) == vx

AddVxEntryOverwrites(q) == [vx EXCEPT ![q] =
  [j \in 0..vxCount[q] |-> IF j + 1 < vxCount[q] THEN vx[q][j] ELSE globalId]]

AddVxEntry(q) == [vx EXCEPT ![q] =
  [j \in 0..vxCount[q] |-> IF j < vxCount[q] THEN vx[q][j] ELSE globalId]]

(* Mutants of DropVxEntry: the local id of the evicted value is kept; the   *)
(* local id that was appended last is unassigned in its stead.              *)
DropVxEntryForgotten(vxs, old) == vxs

DropVxEntryNewest(vxs, old) ==
  [vxs EXCEPT ![old.forQNameId][vxCount[old.forQNameId] - 1] = INDEX_MAX]

DropVxEntry(vxs, old) ==
  [vxs EXCEPT ![old.forQNameId][old.vxEntryId] = INDEX_MAX]

AddValueEntry(s, q) ==
  /\ vxCount' = [vxCount EXCEPT ![q] = @ + 1]
  /\ vx' = IF Evicting THEN DropVxEntry(AddVxEntry(q), value[globalId])
                       ELSE AddVxEntry(q)
  /\ count' = IF Evicting THEN count ELSE count + 1
  /\ value' = [i \in 0..count'-1 |->
                 IF i = NewSlot
                 THEN [valueStr |-> s, forQNameId |-> q, vxEntryId |-> vxCount[q]]
                 ELSE value[i]]
  /\ hash' = IF HashTable
             THEN (IF Evicting THEN HashRemove(hash, value[globalId].valueStr)
                               ELSE hash)
                  \union {[key |-> s, value |-> globalId]}
             ELSE hash
  /\ globalId' = IF globalId + 1 = Capacity THEN 0 ELSE globalId + 1

(* Mutant of AddOnMiss: the global partition is not consulted.              *)
AddOnLocalMiss(s, q) == ~LookupVx(s, q) /\ AddValueEntry(s, q)

(* The caller, encodeStringData, adds a value exactly when both look-ups    *)
(* missed; a hit leaves the partitions alone.                               *)
AddOnMiss(s, q) ==
  /\ ~LookupVx(s, q)
  /\ ~LookupValue(s)
  /\ AddValueEntry(s, q)

KeepOnHit(s, q) ==
  /\ LookupVx(s, q) \/ LookupValue(s)
  /\ UNCHANGED vars

Next == \E s \in Str, q \in QNameID : AddOnMiss(s, q) \/ KeepOnHit(s, q)

Spec == Init /\ [][Next]_vars

-----------------------------------------------------------------------------
(* Properties.                                                              *)

TypeOK ==
  /\ count \in Nat
  /\ globalId \in Nat
  /\ value \in [0..count-1 -> ValueEntry]
  /\ vxCount \in [QNameID -> Nat]
  /\ DOMAIN vx = QNameID
  /\ \A q \in QNameID : vx[q] \in [0..vxCount[q]-1 -> 0..INDEX_MAX]
  /\ hash \subseteq [key : Str, value : Nat]

(* globalId is a legal slot and the table wraps only once it is full, so    *)
(* `globalId < count` in addValueEntry does mean that a slot is reused, and *)
(* an append happens exactly at slot globalId.                              *)
SlotOrder ==
  /\ count <= Capacity
  /\ globalId < Capacity
  /\ globalId <= count
  /\ globalId < count => count = Capacity

(* No string has two compact identifiers: two slots never hold equal        *)
(* strings, although hits and misses are decided by three different         *)
(* look-up structures.                                                      *)
UniqueValues ==
  \A i, k \in 0..count-1 : value[i].valueStr = value[k].valueStr => i = k

(* The hash table holds exactly the live slots under their current strings: *)
(* no entry survives the eviction of its string (whose memory is freed) and *)
(* none is removed for the wrong one.                                       *)
HashMirrorsTable ==
  HashTable => hash = {[key |-> value[i].valueStr, value |-> i] : i \in 0..count-1}

(* Each live value's locValuePartition designates its own local id ...      *)
ValueToVx ==
  \A i \in 0..count-1 :
    LET e == value[i] IN e.vxEntryId < vxCount[e.forQNameId]
                         /\ vx[e.forQNameId][e.vxEntryId] = i

(* ... and each assigned local id designates a live value of its own        *)
(* qualified name that points back: lookupVx never reads a dead slot, and   *)
(* nulling on eviction hits the right local id.                             *)
VxToValue ==
  \A q \in QNameID : \A j \in 0..vxCount[q]-1 :
    vx[q][j] # INDEX_MAX => /\ vx[q][j] < count
                            /\ value[vx[q][j]].forQNameId = q
                            /\ value[vx[q][j]].vxEntryId = j

PartitionInv == 
  /\ SlotOrder
  /\ UniqueValues
  /\ HashMirrorsTable
  /\ ValueToVx
  /\ VxToValue

(* The abstract specification the table implements: the last Capacity       *)
(* distinct values, oldest first.  The oldest is in slot globalId once the  *)
(* table has wrapped, and in slot 0 before.                                 *)
Window ==
  [k \in 1..count |->
     LET i == IF globalId + k - 1 < count THEN globalId + k - 1
                                          ELSE globalId + k - 1 - count
     IN [str |-> value[i].valueStr, qname |-> value[i].forQNameId]]

Recent == INSTANCE RecentValues WITH window <- Window

(* Eviction is first-in first-out and nothing else ever drops, moves or     *)
(* duplicates a value: the table behaves as the window of recent values.    *)
ImplementsRecentValues == Recent!Spec

(* A local id is permanent: once the wrap-around has unassigned it, it is   *)
(* never assigned again, and an assigned one never moves to another value   *)
(* slot.                                                                    *)
LocalIdsPermanent ==
  [][\A q \in QNameID : \A j \in 0..vxCount[q]-1 :
       /\ j < vxCount'[q]
       /\ vx'[q][j] \in {vx[q][j], INDEX_MAX}]_vars
=============================================================================
