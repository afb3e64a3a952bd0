-------------------------- MODULE ChainedHashTable ------------------------
(***************************************************************************)
(* src/common/src/hashtable.c: chains of entries, a prime number of them,  *)
(* that grow in number when the entries outnumber the load limit and never *)
(* shrink.  A chain is a sequence, its head first.                         *)
(***************************************************************************)
EXTENDS Integers, Sequences, SequencesExt

CONSTANTS Key, hashfn,            \* the keys and h->hashfn, a function on them
          primes,                 \* the table sizes, a sequence
          MAX_HASH_TABLE_SIZE,
          NOT_FOUND               \* INDEX_MAX

(* 65 per cent, rounded up.                                                 *)
loadlimit(size) == (65 * size + 99) \div 100

indexFor(tablelength, hashvalue) == hashvalue % tablelength

(* primeindex counts from 1 here.                                           *)
create_hashtable(minsize) ==
  LET fits == {i \in 1..Len(primes) : primes[i] >= minsize}
      size == IF fits = {} THEN primes[1] ELSE primes[Min(fits)]
  IN [table |-> [i \in 0..size-1 |-> <<>>], tablelength |-> size, entrycount |-> 0,
      primeindex |-> IF fits = {} THEN Len(primes) + 1 ELSE Min(fits),
      loadlimit |-> loadlimit(size)]

Chain(h, key) == h.table[indexFor(h.tablelength, hashfn[key])]

Places(h, key) == {i \in DOMAIN Chain(h, key) : Chain(h, key)[i].key = key}

hashtable_count(h) == h.entrycount

hashtable_search(h, key) ==
  IF Places(h, key) = {} THEN NOT_FOUND ELSE Chain(h, key)[Min(Places(h, key))].value

AtMaximum(h) ==
  h.primeindex = Len(primes) \/ primes[h.primeindex + 1] > MAX_HASH_TABLE_SIZE

(* An entry of the table is at a place <<chain, position>>.                 *)
PlacesInUse(h) == UNION {{<<b, k>> : k \in DOMAIN h.table[b]} : b \in 0..h.tablelength-1}

EntryAt(h, p) == h.table[p[1]][p[2]]

MovedAfter(p, q) == p[1] > q[1] \/ (p[1] = q[1] /\ p[2] > q[2])

(* The entries go to their new chain one by one, each to the front: before  *)
(* an entry are those that are moved after it.                              *)
NewChain(h, moved) ==
  [n \in 1..Cardinality(moved) |->
     EntryAt(h, CHOOSE p \in moved :
                  Cardinality({q \in moved : MovedAfter(q, p)}) = n - 1)]

(* Mutant: the new chains are chosen by the old size.                       *)
TransferredByOldSize(h, newsize) ==
  [b \in 0..newsize-1 |->
     NewChain(h, {p \in PlacesInUse(h) :
                    indexFor(h.tablelength, hashfn[EntryAt(h, p).key]) = b})]

Transferred(h, newsize) ==
  [b \in 0..newsize-1 |->
     NewChain(h, {p \in PlacesInUse(h) :
                    indexFor(newsize, hashfn[EntryAt(h, p).key]) = b})]

hashtable_expand(h) ==
  IF AtMaximum(h) THEN h
  ELSE LET newsize == primes[h.primeindex + 1]
       IN [h EXCEPT !.table = Transferred(h, newsize), !.tablelength = newsize,
                    !.primeindex = @ + 1, !.loadlimit = loadlimit(newsize)]

(* An insertion beyond the load limit expands the table, unless there is no *)
(* memory for a larger one: the entry then goes into the table as it is.    *)
hashtable_insert(h, key, value, memory) ==
  LET counted == [h EXCEPT !.entrycount = @ + 1]
      grown == IF counted.entrycount > h.loadlimit /\ memory
               THEN hashtable_expand(counted) ELSE counted
  IN [grown EXCEPT !.table[indexFor(grown.tablelength, hashfn[key])] =
        <<[key |-> key, value |-> value]>> \o @]

hashtable_remove(h, key) ==
  IF Places(h, key) = {} THEN h
  ELSE LET counted == [h EXCEPT !.entrycount = @ - 1]
       IN [counted EXCEPT !.table[indexFor(h.tablelength, hashfn[key])] =
             RemoveAt(@, Min(Places(h, key)))]
=============================================================================
