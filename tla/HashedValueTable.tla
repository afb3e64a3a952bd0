-------------------------- MODULE HashedValueTable ------------------------
(***************************************************************************)
(* The value partitions of ValueTable with the hash table that the         *)
(* serializer looks values up in: what ValueTable has as a set of pairs is *)
(* kept in chains.                                                         *)
(***************************************************************************)
EXTENDS ValueTable, FiniteSets, Sequences

CONSTANTS hashfn,                  \* djbHash of each string
          primes, MAX_HASH_TABLE_SIZE, INITIAL_HASH_TABLE_SIZE

ASSUME HashedValueTableAssumption ==
  /\ hashfn \in [Str -> Nat]
  /\ primes \in Seq(Nat \ {0}) /\ primes # <<>>
  /\ \A i \in 1..Len(primes) - 1 : primes[i] < primes[i+1]
  /\ INITIAL_HASH_TABLE_SIZE \in 1..MAX_HASH_TABLE_SIZE
  /\ \E i \in 1..Len(primes) : primes[i] >= INITIAL_HASH_TABLE_SIZE

VARIABLE hashTbl     \* valueTable.hashTbl

Chained == INSTANCE ChainedHashTable WITH Key <- Str, NOT_FOUND <- INDEX_MAX

hashedVars == <<vars, hashTbl>>

HashedInit == Init /\ hashTbl = Chained!create_hashtable(INITIAL_HASH_TABLE_SIZE)

(* The string of a slot that is used again is removed, then the new one is  *)
(* inserted.                                                                *)
HashTblWith(s, memory) ==
  Chained!hashtable_insert(
    IF Evicting THEN Chained!hashtable_remove(hashTbl, value[globalId].valueStr) ELSE hashTbl,
    s, globalId, memory)

AddHashed(s, q) ==
  /\ AddOnMiss(s, q)
  /\ IF HashTable THEN \E memory \in BOOLEAN : hashTbl' = HashTblWith(s, memory)
     ELSE UNCHANGED hashTbl

KeepHashed(s, q) == KeepOnHit(s, q) /\ UNCHANGED hashTbl

HashedNext == \E s \in Str, q \in QNameID : AddHashed(s, q) \/ KeepHashed(s, q)

HashedSpec == HashedInit /\ [][HashedNext]_hashedVars

(* The chains hold the pairs and nothing else: a look-up finds the slot of  *)
(* a string, through growth of the table, collisions, removals from the     *)
(* middle of a chain, and when the table cannot grow any more; and the      *)
(* count that makes it grow is that of the live entries.                    *)
ChainsHoldPairs ==
  HashTable =>
    /\ \A s \in Str :
         Chained!hashtable_search(hashTbl, s) =
           IF LookupValue(s) THEN ValueEntryId(s) ELSE INDEX_MAX
    /\ Chained!hashtable_count(hashTbl) = Cardinality(hash)
=============================================================================
