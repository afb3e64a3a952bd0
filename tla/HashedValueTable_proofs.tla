---------------------- MODULE HashedValueTable_proofs -----------------------
(***************************************************************************)
(* Proofs that the chains of the hash table hold exactly the pairs that    *)
(* ValueTable keeps as a set, for every hash function, every table of      *)
(* primes and every maximal size, whether or not there is memory to grow.  *)
(***************************************************************************)
EXTENDS HashedValueTable, ValueTable_proofs, SequenceTheorems, FiniteSetTheorems,
        WellFoundedInduction

Pair == [key : Str, value : Nat]

Chains(size) == [0..size-1 -> Seq(Pair)]

(* A table of the size it says, somewhere in the sequence of primes.        *)
WellFormed(h) ==
  /\ h = [table |-> h.table, tablelength |-> h.tablelength, entrycount |-> h.entrycount,
          primeindex |-> h.primeindex, loadlimit |-> h.loadlimit]
  /\ h.tablelength \in Nat \ {0}
  /\ h.table \in Chains(h.tablelength)
  /\ h.primeindex \in 1..Len(primes)

IndexOf(size, e) == Chained!indexFor(size, hashfn[e.key])

(* The entries of the chains are the pairs of H, each in the chain of its   *)
(* key and each once.                                                       *)
InPlace(h, H) ==
  \A b \in 0..h.tablelength-1 : \A k \in 1..Len(h.table[b]) :
    h.table[b][k] \in H /\ IndexOf(h.tablelength, h.table[b][k]) = b

Complete(h, H) ==
  \A e \in H : \E k \in 1..Len(h.table[IndexOf(h.tablelength, e)]) :
    h.table[IndexOf(h.tablelength, e)][k] = e

Once(h) ==
  \A b \in 0..h.tablelength-1 : \A k, l \in 1..Len(h.table[b]) :
    h.table[b][k].key = h.table[b][l].key => k = l

Holds(h, H) == WellFormed(h) /\ InPlace(h, H) /\ Complete(h, H) /\ Once(h)

Keyed(H) == H \subseteq Pair /\ \A e, f \in H : e.key = f.key => e = f

Counted(h, H) == IsFiniteSet(H) /\ h.entrycount = Cardinality(H)

HashInv ==
  HashTable => Holds(hashTbl, hash) /\ Counted(hashTbl, hash) /\ Keyed(hash)

-----------------------------------------------------------------------------
(* Numbers.                                                                 *)

(* Every set of natural numbers that is not empty has a least element.      *)
LEMMA LeastNatural ==
  ASSUME NEW T \in SUBSET Nat, T # {}
  PROVE  \E m \in T : \A k \in T : m <= k
<1>1. IsWellFoundedOn(OpToRel(<, Nat), Nat)
  BY NatLessThanWellFounded
<1>2. PICK m \in T : \A k \in T : ~ (<<k, m>> \in OpToRel(<, Nat))
  BY <1>1, WFMin
<1>3. \A k \in T : ~(k < m)
  BY <1>2 DEF OpToRel
<1>4. QED
  BY <1>3

(* The hash of a key always leads to one of the chains.                     *)
LEMMA IndexRange ==
  ASSUME NEW size \in Nat \ {0}, NEW s \in Str
  PROVE  Chained!indexFor(size, hashfn[s]) \in 0..size-1
BY HashedValueTableAssumption DEF Chained!indexFor

-----------------------------------------------------------------------------
(* Looking up.                                                              *)

(* The place of a key in its chain: one if it is there, none if it is not.  *)
LEMMA PlacesOfKey ==
  ASSUME NEW h, NEW H, Holds(h, H), Keyed(H), NEW s \in Str
  PROVE  /\ (\A e \in H : e.key # s) => Chained!Places(h, s) = {}
         /\ \A e \in H : e.key = s =>
              \E k \in 1..Len(Chained!Chain(h, s)) :
                 Chained!Places(h, s) = {k} /\ Chained!Chain(h, s)[k] = e
<1> DEFINE b == Chained!indexFor(h.tablelength, hashfn[s])
           c == h.table[b]
<1>1. b \in 0..h.tablelength-1
  BY IndexRange DEF Holds, WellFormed
<1>2. c \in Seq(Pair) /\ Len(c) \in Nat /\ DOMAIN c = 1..Len(c)
  BY <1>1 DEF Holds, WellFormed, Chains
<1>3. Chained!Chain(h, s) = c /\ Chained!Places(h, s) = {i \in 1..Len(c) : c[i].key = s}
  BY <1>2 DEF Chained!Chain, Chained!Places
<1>4. \A k \in 1..Len(c) : c[k] \in H
  BY <1>1 DEF Holds, InPlace
<1>5. \A k, l \in 1..Len(c) : c[k].key = c[l].key => k = l
  BY <1>1 DEF Holds, Once
<1>6. \A e \in H : e.key = s => \E k \in 1..Len(c) : c[k] = e
  BY DEF Holds, Complete, IndexOf
<1> HIDE DEF c, b
<1>7. QED
  BY <1>3, <1>4, <1>5, <1>6

(* hashtable_search finds the value that is stored for a key.               *)
LEMMA SearchFinds ==
  ASSUME NEW h, NEW H, Holds(h, H), Keyed(H), NEW s \in Str
  PROVE  /\ (\A e \in H : e.key # s) => Chained!hashtable_search(h, s) = INDEX_MAX
         /\ \A e \in H : e.key = s => Chained!hashtable_search(h, s) = e.value
<1>1. (\A e \in H : e.key # s) => Chained!hashtable_search(h, s) = INDEX_MAX
  BY PlacesOfKey DEF Chained!hashtable_search
<1>2. ASSUME NEW e \in H, e.key = s
      PROVE  Chained!hashtable_search(h, s) = e.value
  <2>1. PICK k \in 1..Len(Chained!Chain(h, s)) :
          Chained!Places(h, s) = {k} /\ Chained!Chain(h, s)[k] = e
    BY <1>2, PlacesOfKey
  <2>2. Chained!Min({k}) = k
    BY DEF Chained!Min
  <2>3. QED
    BY <2>1, <2>2 DEF Chained!hashtable_search
<1>3. QED
  BY <1>1, <1>2

-----------------------------------------------------------------------------
(* Changing one chain.                                                      *)

(* The table with chain b replaced.                                         *)
Rechained(h, b, c) ==
  [table |-> [i \in 0..h.tablelength-1 |-> IF i = b THEN c ELSE h.table[i]],
   tablelength |-> h.tablelength, entrycount |-> h.entrycount,
   primeindex |-> h.primeindex, loadlimit |-> h.loadlimit]

(* The table with n entries on its books.                                   *)
Booked(h, n) ==
  [table |-> h.table, tablelength |-> h.tablelength, entrycount |-> n,
   primeindex |-> h.primeindex, loadlimit |-> h.loadlimit]

(* What an update of a field does to a record of the table's fields.        *)
LEMMA FieldUpdates ==
  /\ \A t, l, e, p, m, u :
       [[table |-> t, tablelength |-> l, entrycount |-> e, primeindex |-> p,
         loadlimit |-> m] EXCEPT !.table = u] =
         [table |-> u, tablelength |-> l, entrycount |-> e, primeindex |-> p,
          loadlimit |-> m]
  /\ \A t, l, e, p, m, u :
       [[table |-> t, tablelength |-> l, entrycount |-> e, primeindex |-> p,
         loadlimit |-> m] EXCEPT !.entrycount = u] =
         [table |-> t, tablelength |-> l, entrycount |-> u, primeindex |-> p,
          loadlimit |-> m]
OBVIOUS

(* The updates hashtable_expand makes to the fields of h, one field at a    *)
(* time.                                                                    *)
LEMMA GrowthUpdates ==
  /\ \A t, l, e, p, m, v :
       [[table |-> t, tablelength |-> l, entrycount |-> e, primeindex |-> p,
         loadlimit |-> m] EXCEPT !.tablelength = v] =
         [table |-> t, tablelength |-> v, entrycount |-> e, primeindex |-> p,
          loadlimit |-> m]
  /\ \A t, l, e, p, m, v :
       [[table |-> t, tablelength |-> l, entrycount |-> e, primeindex |-> p,
         loadlimit |-> m] EXCEPT !.primeindex = v] =
         [table |-> t, tablelength |-> l, entrycount |-> e, primeindex |-> v,
          loadlimit |-> m]
  /\ \A t, l, e, p, m, v :
       [[table |-> t, tablelength |-> l, entrycount |-> e, primeindex |-> p,
         loadlimit |-> m] EXCEPT !.loadlimit = v] =
         [table |-> t, tablelength |-> l, entrycount |-> e, primeindex |-> p,
          loadlimit |-> v]
OBVIOUS

(* Counting does not touch the chains.                                      *)
LEMMA BookedWellFormed ==
  ASSUME NEW h, WellFormed(h), NEW n
  PROVE  /\ WellFormed(Booked(h, n))
         /\ [h EXCEPT !.entrycount = n] = Booked(h, n)
         /\ \A H : Holds(h, H) => Holds(Booked(h, n), H)
<1>1. [h EXCEPT !.entrycount = n] = Booked(h, n)
  BY FieldUpdates DEF WellFormed, Booked
<1>2. WellFormed(Booked(h, n))
  BY DEF WellFormed, Booked
<1>3. \A H : Holds(h, H) => Holds(Booked(h, n), H)
  BY <1>2 DEF Holds, InPlace, Complete, Once, Booked
<1>4. QED
  BY <1>1, <1>2, <1>3

(* A new chain does not touch the others.                                   *)
LEMMA RechainedWellFormed ==
  ASSUME NEW h, WellFormed(h), NEW b \in 0..h.tablelength-1, NEW c \in Seq(Pair)
  PROVE  /\ WellFormed(Rechained(h, b, c))
         /\ [h EXCEPT !.table[b] = c] = Rechained(h, b, c)
<1> DEFINE t == [h.table EXCEPT ![b] = c]
<1>1. h.table \in [0..h.tablelength-1 -> Seq(Pair)]
  BY DEF WellFormed, Chains
<1>2. t = [i \in 0..h.tablelength-1 |-> IF i = b THEN c ELSE h.table[i]]
  BY <1>1
<1>3. [h EXCEPT !.table[b] = c] = Rechained(h, b, c)
  <2>1. [h EXCEPT !.table[b] = c] = [h EXCEPT !.table = t]
    OBVIOUS
  <2> HIDE DEF t
  <2>2. [h EXCEPT !.table = t] =
          [table |-> t, tablelength |-> h.tablelength, entrycount |-> h.entrycount,
           primeindex |-> h.primeindex, loadlimit |-> h.loadlimit]
    BY FieldUpdates DEF WellFormed
  <2>3. QED
    BY <1>2, <2>1, <2>2 DEF Rechained
<1>4. [i \in 0..h.tablelength-1 |-> IF i = b THEN c ELSE h.table[i]]
        \in Chains(h.tablelength)
  BY <1>1 DEF Chains
<1>5. WellFormed(Rechained(h, b, c))
  BY <1>4 DEF WellFormed, Rechained
<1>6. QED
  BY <1>3, <1>5

(* A new entry at the head of its chain.                                    *)
LEMMA Prepended ==
  ASSUME NEW h, NEW H, Holds(h, H), Keyed(H),
         NEW e \in Pair, \A f \in H : f.key # e.key
  PROVE  LET b == IndexOf(h.tablelength, e)
         IN Holds(Rechained(h, b, <<e>> \o h.table[b]), H \union {e})
<1> DEFINE b == IndexOf(h.tablelength, e)
           c == h.table[b]
           d == <<e>> \o c
           g == Rechained(h, b, d)
<1>1. b \in 0..h.tablelength-1 /\ h.table \in [0..h.tablelength-1 -> Seq(Pair)]
  BY IndexRange DEF Holds, WellFormed, IndexOf, Pair, Chains
<1>2. c \in Seq(Pair) /\ Len(c) \in Nat
  <2>1. c \in Seq(Pair)
    <3> HIDE DEF b
    <3>1. QED
      BY <1>1
  <2>2. QED
    BY <2>1, LenProperties
<1>3. /\ d \in Seq(Pair) /\ Len(d) = Len(c) + 1 /\ d[1] = e
      /\ \A k \in 1..Len(c) : d[k+1] = c[k]
  <2> HIDE DEF c
  <2>1. QED
    BY <1>2
<1>4. WellFormed(g)
  BY <1>1, <1>3, RechainedWellFormed DEF Holds
<1>5. /\ g.tablelength = h.tablelength /\ g.table[b] = d
      /\ \A i \in 0..h.tablelength-1 : i # b => g.table[i] = h.table[i]
  BY <1>1 DEF Rechained
<1>6. \A k \in 1..Len(d) : k = 1 \/ (k-1 \in 1..Len(c) /\ d[k] = c[k-1])
  <2> HIDE DEF c, d
  <2>1. QED
    BY <1>2, <1>3
<1>7. \A k \in 1..Len(c) : c[k] \in H /\ IndexOf(h.tablelength, c[k]) = b
  BY <1>1 DEF Holds, InPlace
<1>8. InPlace(g, H \union {e})
  <2>1. \A k \in 1..Len(d) : d[k] \in H \union {e} /\ IndexOf(h.tablelength, d[k]) = b
    <3> HIDE DEF c, d
    <3>1. b = IndexOf(h.tablelength, e)
      OBVIOUS
    <3>2. QED
      BY <1>3, <1>6, <1>7, <3>1
  <2> HIDE DEF b, c, d, g
  <2>2. QED
    BY <1>5, <2>1 DEF Holds, InPlace
<1>9. Complete(g, H \union {e})
  <2> SUFFICES ASSUME NEW f \in H \union {e}
               PROVE  \E k \in 1..Len(g.table[IndexOf(h.tablelength, f)]) :
                        g.table[IndexOf(h.tablelength, f)][k] = f
    BY <1>5 DEF Complete
  <2>1. CASE f = e
    <3>1. IndexOf(h.tablelength, f) = b
      BY <2>1
    <3> HIDE DEF b, c, d, g
    <3>2. QED
      BY <1>2, <1>3, <1>5, <2>1, <3>1
  <2>2. CASE f \in H
    <3>1. PICK k \in 1..Len(h.table[IndexOf(h.tablelength, f)]) :
            h.table[IndexOf(h.tablelength, f)][k] = f
      BY <2>2 DEF Holds, Complete
    <3>2. IndexOf(h.tablelength, f) \in 0..h.tablelength-1
      BY <2>2, IndexRange DEF Holds, WellFormed, IndexOf, Pair, Keyed
    <3>3. CASE IndexOf(h.tablelength, f) = b
      <4> HIDE DEF b, d, g
      <4>1. k \in 1..Len(c) /\ c[k] = f
        BY <3>1, <3>3
      <4> HIDE DEF c
      <4>2. k+1 \in 1..Len(d) /\ d[k+1] = f
        BY <1>2, <1>3, <4>1
      <4>3. QED
        BY <1>5, <3>3, <4>2
    <3>4. CASE IndexOf(h.tablelength, f) # b
      <4> HIDE DEF b, c, d, g
      <4>1. QED
        BY <1>5, <3>1, <3>2, <3>4
    <3>5. QED
      BY <3>3, <3>4
  <2>3. QED
    BY <2>1, <2>2
<1>10. Once(g)
  <2>1. \A k, l \in 1..Len(c) : c[k].key = c[l].key => k = l
    BY <1>1 DEF Holds, Once
  <2>2. \A k, l \in 1..Len(d) : d[k].key = d[l].key => k = l
    <3> HIDE DEF c, d
    <3>1. \A k \in 1..Len(c) : c[k].key # e.key
      BY <1>7
    <3> SUFFICES ASSUME NEW k \in 1..Len(d), NEW l \in 1..Len(d), d[k].key = d[l].key
                 PROVE  k = l
      OBVIOUS
    <3>2. CASE k = 1 /\ l # 1
      BY <1>3, <1>6, <3>1, <3>2
    <3>3. CASE k # 1 /\ l = 1
      BY <1>3, <1>6, <3>1, <3>3
    <3>4. CASE k # 1 /\ l # 1
      <4>1. /\ k-1 \in 1..Len(c) /\ d[k] = c[k-1]
            /\ l-1 \in 1..Len(c) /\ d[l] = c[l-1]
        BY <1>6, <3>4
      <4>2. k-1 = l-1
        BY <2>1, <4>1
      <4>3. QED
        BY <1>2, <1>3, <4>2
    <3>5. QED
      BY <3>2, <3>3, <3>4
  <2> HIDE DEF b, c, d, g
  <2>3. QED
    BY <1>5, <2>2 DEF Holds, Once
<1>11. QED
  BY <1>4, <1>8, <1>9, <1>10 DEF Holds

(* What is left of a chain when a place of it is taken out.                 *)
LEMMA RemovedAt ==
  ASSUME NEW c \in Seq(Pair), NEW k \in 1..Len(c)
  PROVE  LET d == Chained!RemoveAt(c, k)
         IN /\ d \in Seq(Pair)
            /\ Len(d) = Len(c) - 1
            /\ \A i \in 1..Len(c)-1 : d[i] = IF i < k THEN c[i] ELSE c[i+1]
<1> DEFINE u == SubSeq(c, 1, k-1)
           v == SubSeq(c, k+1, Len(c))
<1>1. Len(c) \in Nat /\ \A i \in 1..Len(c) : c[i] \in Pair
  BY LenProperties, ElementOfSeq
<1>2. /\ u \in Seq(Pair) /\ Len(u) = k-1 /\ \A i \in 1..k-1 : u[i] = c[i]
  <2>1. \A i \in 1..k-1 : c[i] \in Pair
    BY <1>1
  <2>2. 1 \in Int /\ k-1 \in Int
    BY <1>1
  <2>3. /\ u \in Seq(Pair)
        /\ Len(u) = IF 1 <= k-1 THEN (k-1)-1+1 ELSE 0
        /\ \A i \in 1..(k-1)-1+1 : u[i] = c[1+i-1]
    BY <2>1, <2>2, SubSeqProperties
  <2> HIDE DEF u
  <2>4. QED
    BY <1>1, <2>3
<1>3. /\ v \in Seq(Pair) /\ Len(v) = Len(c)-k
      /\ \A i \in 1..Len(c)-k : v[i] = c[k+i]
  <2>1. \A i \in k+1..Len(c) : c[i] \in Pair
    BY <1>1
  <2>2. k+1 \in Int /\ Len(c) \in Int
    BY <1>1
  <2>3. /\ v \in Seq(Pair)
        /\ Len(v) = IF k+1 <= Len(c) THEN Len(c)-(k+1)+1 ELSE 0
        /\ \A i \in 1..Len(c)-(k+1)+1 : v[i] = c[(k+1)+i-1]
    BY <2>1, <2>2, SubSeqProperties
  <2> HIDE DEF v
  <2>4. QED
    BY <1>1, <2>3
<1>4. Chained!RemoveAt(c, k) = u \o v
  BY DEF Chained!RemoveAt
<1> HIDE DEF u, v
<1>5. /\ u \o v \in Seq(Pair) /\ Len(u \o v) = Len(u) + Len(v)
      /\ \A i \in 1..Len(u) + Len(v) :
           (u \o v)[i] = IF i <= Len(u) THEN u[i] ELSE v[i - Len(u)]
  BY <1>2, <1>3, ConcatProperties
<1> DEFINE d == u \o v
<1>6. d = u \o v
  OBVIOUS
<1> HIDE DEF d
<1>7. /\ d \in Seq(Pair) /\ Len(d) = Len(c) - 1
      /\ \A i \in 1..Len(c)-1 : d[i] = IF i < k THEN c[i] ELSE c[i+1]
  <2>1. Len(d) = Len(c) - 1
    BY <1>1, <1>2, <1>3, <1>5, <1>6
  <2>2. ASSUME NEW i \in 1..Len(c)-1
        PROVE  d[i] = IF i < k THEN c[i] ELSE c[i+1]
    <3>1. i \in 1..Len(u) + Len(v)
      BY <1>1, <1>2, <1>3
    <3>2. d[i] = IF i <= Len(u) THEN u[i] ELSE v[i - Len(u)]
      BY <1>5, <1>6, <3>1
    <3>3. CASE i < k
      BY <1>1, <1>2, <3>2, <3>3
    <3>4. CASE ~(i < k)
      <4>1. i - Len(u) \in 1..Len(c)-k /\ k + (i - Len(u)) = i+1
        BY <1>1, <1>2, <3>4
      <4>2. v[i - Len(u)] = c[i+1]
        BY <1>3, <4>1
      <4>3. QED
        BY <1>1, <1>2, <3>2, <3>4, <4>2
    <3>5. QED
      BY <3>3, <3>4
  <2>3. QED
    BY <1>5, <1>6, <2>1, <2>2
<1>8. QED
  BY <1>4, <1>6, <1>7

(* An entry taken out of its chain, wherever in it it was.                  *)
LEMMA Removed ==
  ASSUME NEW h, NEW H, Holds(h, H), Keyed(H), NEW e \in H, h.entrycount \in Int
  PROVE  LET g == Chained!hashtable_remove(h, e.key)
         IN Holds(g, H \ {e}) /\ g.entrycount = h.entrycount - 1
<1> DEFINE b == IndexOf(h.tablelength, e)
           c == h.table[b]
           n == h.entrycount - 1
           g0 == Booked(h, n)
<1>1. b \in 0..h.tablelength-1 /\ h.table \in [0..h.tablelength-1 -> Seq(Pair)]
      /\ e \in Pair /\ e.key \in Str
  BY IndexRange DEF Holds, WellFormed, IndexOf, Pair, Chains, Keyed
<1>2. c \in Seq(Pair) /\ Len(c) \in Nat
  <2>1. c \in Seq(Pair)
    <3> HIDE DEF b
    <3>1. QED
      BY <1>1
  <2>2. QED
    BY <2>1, LenProperties
<1>3. Chained!Chain(h, e.key) = c
  BY DEF Chained!Chain, IndexOf
<1>4. PICK k \in 1..Len(c) : Chained!Places(h, e.key) = {k} /\ c[k] = e
  BY <1>1, <1>3, PlacesOfKey
<1> DEFINE d == Chained!RemoveAt(c, k)
           g == Rechained(g0, b, d)
<1>5. /\ d \in Seq(Pair) /\ Len(d) = Len(c) - 1
      /\ \A i \in 1..Len(c)-1 : d[i] = IF i < k THEN c[i] ELSE c[i+1]
  <2> HIDE DEF c
  <2>1. QED
    BY <1>2, RemovedAt
<1>6. g0.table = h.table /\ g0.tablelength = h.tablelength /\ g0.entrycount = n
      /\ WellFormed(g0) /\ g0 = [h EXCEPT !.entrycount = n]
  BY BookedWellFormed DEF Holds, Booked
<1>7. Chained!hashtable_remove(h, e.key) = [g0 EXCEPT !.table[b] = d]
  <2>1. Chained!Min(Chained!Places(h, e.key)) = k
    BY <1>4 DEF Chained!Min
  <2>2. b = Chained!indexFor(h.tablelength, hashfn[e.key])
    BY DEF IndexOf
  <2>3. [h EXCEPT !.entrycount = @ - 1] = g0
    BY <1>6
  <2>4. g0.table[b] = c
    BY <1>6
  <2>5. Chained!Places(h, e.key) # {}
    BY <1>4
  <2> DEFINE j == Chained!indexFor(h.tablelength, hashfn[e.key])
             m == Chained!Min(Chained!Places(h, e.key))
             f == [h EXCEPT !.entrycount = @ - 1]
  <2>6. Chained!hashtable_remove(h, e.key) = [f EXCEPT !.table[j] = Chained!RemoveAt(@, m)]
    BY <2>5 DEF Chained!hashtable_remove
  <2>7. f = g0 /\ j = b /\ m = k
    BY <2>1, <2>2, <2>3
  <2> HIDE DEF b, c, j, m, f, g0
  <2>8. [f EXCEPT !.table[j] = Chained!RemoveAt(@, m)] =
          [g0 EXCEPT !.table[b] = Chained!RemoveAt(@, k)]
    BY <2>7, Zenon
  <2>9. [g0 EXCEPT !.table[b] = Chained!RemoveAt(@, k)] = [g0 EXCEPT !.table[b] = d]
    BY <2>4, Zenon
  <2>10. QED
    BY <2>6, <2>8, <2>9
<1>8. WellFormed(g) /\ [g0 EXCEPT !.table[b] = d] = g
  <2> HIDE DEF g0, b, d
  <2>1. b \in 0..g0.tablelength-1 /\ d \in Seq(Pair) /\ WellFormed(g0)
    BY <1>1, <1>5, <1>6
  <2>2. QED
    BY <2>1, RechainedWellFormed, Zenon
<1>9. /\ g.tablelength = h.tablelength /\ g.table[b] = d /\ g.entrycount = n
      /\ \A i \in 0..h.tablelength-1 : i # b => g.table[i] = h.table[i]
  <2> HIDE DEF g0, b, d
  <2>1. QED
    BY <1>1, <1>6 DEF Rechained
<1>10. \A i \in 1..Len(d) : \E l \in 1..Len(c) : 
        l # k /\ d[i] = c[l] /\ l = IF i < k THEN i ELSE i+1
  <2> HIDE DEF c, d
  <2>1. QED
    BY <1>2, <1>5
<1>11. \A l \in 1..Len(c) : l # k => \E i \in 1..Len(d) : d[i] = c[l]
  <2> HIDE DEF c, d
  <2> SUFFICES ASSUME NEW l \in 1..Len(c), l # k
               PROVE  \E i \in 1..Len(d) : d[i] = c[l]
    OBVIOUS
  <2>1. CASE l < k
    BY <1>2, <1>5, <2>1
  <2>2. CASE l > k
    <3>1. l-1 \in 1..Len(c)-1 /\ ~(l-1 < k) /\ (l-1)+1 = l
      BY <1>2, <2>2
    <3>2. QED
      BY <1>5, <3>1
  <2>3. QED
    BY <2>1, <2>2
<1>12. \A l, m \in 1..Len(c) : c[l].key = c[m].key => l = m
  BY <1>1 DEF Holds, Once
<1>13. \A l \in 1..Len(c) : c[l] \in H /\ IndexOf(h.tablelength, c[l]) = b
  BY <1>1 DEF Holds, InPlace
<1> HIDE DEF b, c, d, g, g0
<1>14. InPlace(g, H \ {e})
  <2>1. \A i \in 1..Len(d) : d[i] \in H \ {e} /\ IndexOf(h.tablelength, d[i]) = b
    BY <1>4, <1>10, <1>12, <1>13
  <2>2. ASSUME NEW i \in 0..h.tablelength-1, i # b
        PROVE  \A l \in 1..Len(h.table[i]) :
                 /\ h.table[i][l] \in H \ {e}
                 /\ IndexOf(h.tablelength, h.table[i][l]) = i
    <3>1. IndexOf(h.tablelength, e) = b
      BY DEF b
    <3>2. QED
      BY <2>2, <3>1 DEF Holds, InPlace
  <2>3. QED
    BY <1>9, <2>1, <2>2 DEF InPlace
<1>15. Complete(g, H \ {e})
  <2> SUFFICES ASSUME NEW f \in H \ {e}
               PROVE  \E i \in 1..Len(g.table[IndexOf(h.tablelength, f)]) :
                        g.table[IndexOf(h.tablelength, f)][i] = f
    BY <1>9 DEF Complete
  <2>1. PICK l \in 1..Len(h.table[IndexOf(h.tablelength, f)]) :
          h.table[IndexOf(h.tablelength, f)][l] = f
    BY DEF Holds, Complete
  <2>2. IndexOf(h.tablelength, f) \in 0..h.tablelength-1
    BY IndexRange DEF Holds, WellFormed, IndexOf, Pair, Keyed
  <2>3. CASE IndexOf(h.tablelength, f) = b
    <3>1. l \in 1..Len(c) /\ c[l] = f
      BY <2>1, <2>3 DEF c
    <3>2. l # k
      BY <1>4, <3>1
    <3>3. QED
      BY <1>9, <1>11, <2>3, <3>1, <3>2
  <2>4. CASE IndexOf(h.tablelength, f) # b
    BY <1>9, <2>1, <2>2, <2>4
  <2>5. QED
    BY <2>3, <2>4
<1>16. Once(g)
  <2>1. ASSUME NEW i \in 1..Len(d), NEW j \in 1..Len(d), d[i].key = d[j].key
        PROVE  i = j
    <3>1. PICK l \in 1..Len(c) : d[i] = c[l] /\ l = IF i < k THEN i ELSE i+1
      BY <1>10
    <3>2. PICK m \in 1..Len(c) : d[j] = c[m] /\ m = IF j < k THEN j ELSE j+1
      BY <1>10
    <3>3. l = m
      BY <1>12, <2>1, <3>1, <3>2
    <3>4. Len(d) \in Nat /\ k \in Nat
      BY <1>2, <1>5
    <3>5. QED
      BY <3>1, <3>2, <3>3, <3>4
  <2>2. QED
    BY <1>9, <2>1 DEF Holds, Once
<1>17. QED
  BY <1>7, <1>8, <1>9, <1>14, <1>15, <1>16 DEF Holds, n

-----------------------------------------------------------------------------
(* Growing.                                                                 *)

(* The places of the table's entries.                                       *)
LEMMA PlacesOfTable ==
  ASSUME NEW h, WellFormed(h)
  PROVE  /\ \A p \in Chained!PlacesInUse(h) :
              /\ p[1] \in 0..h.tablelength-1
              /\ p[2] \in 1..Len(h.table[p[1]])
              /\ p = <<p[1], p[2]>>
              /\ Chained!EntryAt(h, p) = h.table[p[1]][p[2]]
              /\ Chained!EntryAt(h, p) \in Pair
         /\ \A b \in 0..h.tablelength-1 : \A k \in 1..Len(h.table[b]) :
              <<b, k>> \in Chained!PlacesInUse(h)
         /\ IsFiniteSet(Chained!PlacesInUse(h))
<1> DEFINE B == 0..h.tablelength-1
           Row(b) == {<<b, k>> : k \in 1..Len(h.table[b])}
           rows == {Row(b) : b \in B}
           f == [b \in B |-> Row(b)]
<1>1. \A b \in B : /\ h.table[b] \in Seq(Pair) /\ Len(h.table[b]) \in Nat
                   /\ DOMAIN h.table[b] = 1..Len(h.table[b])
                   /\ \A k \in 1..Len(h.table[b]) : h.table[b][k] \in Pair
  <2> TAKE b \in B
  <2>1. h.table[b] \in Seq(Pair)
    BY DEF WellFormed, Chains
  <2>2. QED
    BY <2>1, LenProperties, ElementOfSeq
<1>2. Chained!PlacesInUse(h) = UNION rows
  BY <1>1 DEF Chained!PlacesInUse
<1>3. \A p \in UNION rows : p[1] \in B /\ p[2] \in 1..Len(h.table[p[1]])
                          /\ p = <<p[1], p[2]>>
  OBVIOUS
<1>4. \A b \in B : \A k \in 1..Len(h.table[b]) : <<b, k>> \in UNION rows
  OBVIOUS
<1>5. IsFiniteSet(UNION rows)
  <2>1. IsFiniteSet(B)
    <3>1. 0 \in Int /\ h.tablelength-1 \in Int
      BY DEF WellFormed
    <3>2. QED
      BY <3>1, FS_Interval, Zenon
  <2>2. f \in Surjection(B, rows)
    <3>1. f \in [B -> rows]
      OBVIOUS
    <3>2. \A R \in rows : \E b \in B : f[b] = R
      <4> HIDE DEF Row, B
      <4>1. QED
        OBVIOUS
    <3>3. QED
      BY <3>1, <3>2, Zenon DEF Surjection
  <2>3. IsFiniteSet(rows)
    <3> HIDE DEF f, B, rows
    <3>1. QED
      BY <2>1, <2>2, FS_Surjection
  <2>4. ASSUME NEW b \in B
        PROVE  IsFiniteSet(Row(b))
    <3>1. IsFiniteSet({b}) /\ IsFiniteSet(1..Len(h.table[b]))
      <4>1. 1 \in Int /\ Len(h.table[b]) \in Int
        BY <1>1
      <4>2. QED
        BY <4>1, FS_Interval, FS_Singleton, Zenon
    <3>2. Row(b) = {b} \X (1..Len(h.table[b]))
      OBVIOUS
    <3>3. IsFiniteSet({b} \X (1..Len(h.table[b])))
      BY <3>1, FS_Product, Zenon
    <3>4. QED
      BY <3>2, <3>3, Zenon
  <2>5. \A T \in rows : IsFiniteSet(T)
    BY <2>4
  <2>6. QED
    <3> HIDE DEF rows
    <3>1. QED
      BY <2>3, <2>5, FS_UNION
<1>6. QED
  <2> HIDE DEF rows
  <2>1. QED
    BY <1>1, <1>2, <1>3, <1>4, <1>5 DEF Chained!EntryAt

(* The new chain has an entry for each place that is moved to it, and for   *)
(* each once: as many of the places are moved after one of them as its      *)
(* position in the chain says, and these numbers are different for          *)
(* different places and so take each value there is.                        *)
LEMMA NewChainOfMoved ==
  ASSUME NEW h, WellFormed(h), NEW moved \in SUBSET Chained!PlacesInUse(h)
  PROVE  LET c == Chained!NewChain(h, moved)
         IN /\ c \in Seq(Pair)
            /\ \A k \in 1..Len(c) : \E p \in moved : c[k] = Chained!EntryAt(h, p)
            /\ \A p \in moved : \E k \in 1..Len(c) : c[k] = Chained!EntryAt(h, p)
            /\ \A k, l \in 1..Len(c) : k # l =>
                 \E p, q \in moved : /\ p # q
                                     /\ c[k] = Chained!EntryAt(h, p)
                                     /\ c[l] = Chained!EntryAt(h, q)
<1> DEFINE Later(p) == {q \in moved : Chained!MovedAfter(q, p)}
           n == Cardinality(moved)
           rank == [p \in moved |-> Cardinality(Later(p))]
           Of(k) == CHOOSE p \in moved : Cardinality(Later(p)) = k - 1
           c == [k \in 1..n |-> Chained!EntryAt(h, Of(k))]
<1>1. IsFiniteSet(moved) /\ n \in Nat
  <2>1. IsFiniteSet(moved)
    BY PlacesOfTable, FS_Subset, Zenon
  <2>2. QED
    BY <2>1, FS_CardinalityType, Zenon
<1>2. \A p \in moved : p[1] \in Int /\ p[2] \in Int /\ p = <<p[1], p[2]>>
                      /\ Chained!EntryAt(h, p) \in Pair
  <2> TAKE p \in moved
  <2>1. p \in Chained!PlacesInUse(h)
    OBVIOUS
  <2>2. /\ p[1] \in 0..h.tablelength-1 /\ p[2] \in 1..Len(h.table[p[1]])
        /\ p = <<p[1], p[2]>> /\ Chained!EntryAt(h, p) \in Pair
    BY <2>1, PlacesOfTable, Zenon
  <2>3. QED
    BY <2>2
<1>3. \A p, q \in moved : Chained!MovedAfter(p, q) <=>
                          p[1] > q[1] \/ (p[1] = q[1] /\ p[2] > q[2])
  BY DEF Chained!MovedAfter
<1>4. ASSUME NEW p \in moved
      PROVE  /\ IsFiniteSet(Later(p)) /\ Cardinality(Later(p)) \in 0..n-1
             /\ p \notin Later(p)
  <2>1. p \notin Later(p)
    BY <1>2, <1>3
  <2>2. Later(p) \subseteq moved \ {p}
    BY <2>1
  <2> HIDE DEF Later, n
  <2>3. IsFiniteSet(moved \ {p}) /\ Cardinality(moved \ {p}) = n-1
    BY <1>1, FS_RemoveElement DEF n
  <2>4. IsFiniteSet(Later(p)) /\ Cardinality(Later(p)) <= Cardinality(moved \ {p})
    BY <2>2, <2>3, FS_Subset, Zenon
  <2>5. Cardinality(Later(p)) \in Nat
    BY <2>4, FS_CardinalityType, Zenon
  <2>6. QED
    BY <1>1, <2>1, <2>3, <2>4, <2>5
<1>5. ASSUME NEW p \in moved, NEW q \in moved, Chained!MovedAfter(p, q)
      PROVE  Cardinality(Later(p)) < Cardinality(Later(q))
  <2>1. Later(p) \subseteq Later(q)
    BY <1>2, <1>3, <1>5
  <2>2. p \in Later(q) /\ p \notin Later(p)
    BY <1>4, <1>5
  <2> HIDE DEF Later, n
  <2>3. Later(p) # Later(q)
    BY <2>2
  <2>4. /\ IsFiniteSet(Later(q)) /\ Cardinality(Later(p)) \in 0..n-1
        /\ Cardinality(Later(q)) \in 0..n-1
    BY <1>4
  <2>5. /\ Cardinality(Later(p)) <= Cardinality(Later(q))
        /\ Cardinality(Later(p)) # Cardinality(Later(q))
    BY <2>1, <2>3, <2>4, FS_Subset, Zenon
  <2>6. QED
    BY <1>1, <2>4, <2>5
<1>6. \A p, q \in moved : Cardinality(Later(p)) = Cardinality(Later(q)) => p = q
  <2> SUFFICES ASSUME NEW p \in moved, NEW q \in moved, p # q
               PROVE  Cardinality(Later(p)) # Cardinality(Later(q))
    OBVIOUS
  <2>1. Chained!MovedAfter(p, q) \/ Chained!MovedAfter(q, p)
    BY <1>2, <1>3
  <2> HIDE DEF Later, n
  <2>2. Cardinality(Later(p)) \in 0..n-1 /\ Cardinality(Later(q)) \in 0..n-1
    BY <1>4
  <2>3. QED
    BY <1>1, <1>5, <2>1, <2>2
<1>7. \A k \in 0..n-1 : \E p \in moved : Cardinality(Later(p)) = k
  <2> HIDE DEF Later, n
  <2>1. rank \in Injection(moved, 0..n-1)
    <3>1. rank \in [moved -> 0..n-1]
      BY <1>4
    <3>2. IsInjective(rank)
      BY <1>6 DEF IsInjective
    <3>3. QED
      BY <3>1, <3>2, Zenon DEF Injection
  <2>2. IsFiniteSet(0..n-1) /\ Cardinality(0..n-1) = n
    <3>1. 0 \in Int /\ n-1 \in Int
      BY <1>1
    <3>2. IsFiniteSet(0..n-1) /\ Cardinality(0..n-1) = IF 0 > n-1 THEN 0 ELSE n-1-0+1
      BY <3>1, FS_Interval, Zenon
    <3>3. QED
      BY <1>1, <3>2
  <2>3. rank \in Surjection(moved, 0..n-1)
    <3> HIDE DEF rank
    <3>1. QED
      BY <2>1, <2>2, FS_Injection, Zenon DEF n
  <2>4. QED
    BY <2>3 DEF Surjection
<1>8. \A k \in 1..n : Of(k) \in moved /\ Cardinality(Later(Of(k))) = k - 1
  <2> TAKE k \in 1..n
  <2>1. k-1 \in 0..n-1
    BY <1>1
  <2> HIDE DEF Later, n
  <2>2. \E p \in moved : Cardinality(Later(p)) = k-1
    BY <1>7, <2>1
  <2>3. QED
    BY <2>2, Zenon
<1>9. \A p \in moved : Cardinality(Later(p)) + 1 \in 1..n
                       /\ Of(Cardinality(Later(p)) + 1) = p
  <2> TAKE p \in moved
  <2> HIDE DEF Later, n
  <2>1. Cardinality(Later(p)) \in 0..n-1
    BY <1>4
  <2> DEFINE k == Cardinality(Later(p)) + 1
  <2>2. k \in 1..n /\ k - 1 = Cardinality(Later(p))
    BY <1>1, <2>1
  <2>3. Of(k) \in moved /\ Cardinality(Later(Of(k))) = k - 1
    <3> HIDE DEF Of, k
    <3>1. QED
      BY <1>8, <2>2
  <2>4. QED
    <3> HIDE DEF Of, k
    <3>1. Of(k) = p
      BY <1>6, <2>2, <2>3
    <3>2. QED
      BY <2>2, <3>1 DEF k
<1>10. Chained!NewChain(h, moved) = c
  BY DEF Chained!NewChain, Chained!Cardinality, Cardinality
<1> HIDE DEF Of, Later, n
<1>11. c \in Seq(Pair) /\ Len(c) = n /\ \A k \in 1..n : c[k] = Chained!EntryAt(h, Of(k))
  <2>1. \A k \in 1..n : Chained!EntryAt(h, Of(k)) \in Pair
    BY <1>2, <1>8
  <2>2. QED
    BY <1>1, <2>1
<1> HIDE DEF c
<1>12. \A k, l \in 1..n : k # l => Of(k) # Of(l)
  <2> SUFFICES ASSUME NEW k \in 1..n, NEW l \in 1..n, Of(k) = Of(l)
               PROVE  k = l
    OBVIOUS
  <2>1. Cardinality(Later(Of(k))) = k - 1 /\ Cardinality(Later(Of(l))) = l - 1
    BY <1>8, Zenon
  <2>2. k - 1 = l - 1
    BY <2>1
  <2>3. QED
    BY <1>1, <2>2
<1>13. \A p \in moved : \E k \in 1..n : c[k] = Chained!EntryAt(h, p)
  <2> TAKE p \in moved
  <2>1. PICK k \in 1..n : Of(k) = p
    BY <1>9, Zenon
  <2>2. QED
    BY <1>11, <2>1
<1>14. \A k, l \in 1..n : k # l =>
         \E p, q \in moved : /\ p # q
                             /\ c[k] = Chained!EntryAt(h, p)
                             /\ c[l] = Chained!EntryAt(h, q)
  <2> SUFFICES ASSUME NEW k \in 1..n, NEW l \in 1..n, k # l
               PROVE  \E p, q \in moved : /\ p # q
                                          /\ c[k] = Chained!EntryAt(h, p)
                                          /\ c[l] = Chained!EntryAt(h, q)
    OBVIOUS
  <2>1. Of(k) \in moved /\ Of(l) \in moved /\ Of(k) # Of(l)
    BY <1>8, <1>12, Zenon
  <2>2. c[k] = Chained!EntryAt(h, Of(k)) /\ c[l] = Chained!EntryAt(h, Of(l))
    BY <1>11
  <2>3. QED
    BY <2>1, <2>2, Zenon
<1>15. \A k \in 1..n : \E p \in moved : c[k] = Chained!EntryAt(h, p)
  BY <1>8, <1>11, Zenon
<1>16. n = Len(c)
  BY <1>11
<1>17. QED
  BY <1>10, <1>11, <1>13, <1>14, <1>15, <1>16

(* Growing keeps every entry and moves it to the chain of its key.          *)
LEMMA Expanded ==
  ASSUME NEW h, NEW H, Holds(h, H), Keyed(H)
  PROVE  LET g == Chained!hashtable_expand(h)
         IN Holds(g, H) /\ g.entrycount = h.entrycount
<1>1. CASE Chained!AtMaximum(h)
  BY <1>1 DEF Chained!hashtable_expand
<1>2. CASE ~Chained!AtMaximum(h)
  <2> DEFINE size == primes[h.primeindex + 1]
             At(p) == Chained!EntryAt(h, p)
             M(b) == {p \in Chained!PlacesInUse(h) :
                        Chained!indexFor(size, hashfn[At(p).key]) = b}
             t == Chained!Transferred(h, size)
             g == [table |-> t, tablelength |-> size, entrycount |-> h.entrycount,
                   primeindex |-> h.primeindex + 1, loadlimit |-> Chained!loadlimit(size)]
  <2>1. h.primeindex + 1 \in 1..Len(primes) /\ size \in Nat \ {0}
    <3>1. h.primeindex \in 1..Len(primes) /\ h.primeindex # Len(primes)
      BY <1>2 DEF Chained!AtMaximum, Holds, WellFormed
    <3>2. primes \in Seq(Nat \ {0}) /\ Len(primes) \in Nat
      BY HashedValueTableAssumption, LenProperties
    <3>3. h.primeindex + 1 \in 1..Len(primes)
      BY <3>1, <3>2
    <3>4. QED
      BY <3>2, <3>3, ElementOfSeq, Zenon
  <2>2. Chained!hashtable_expand(h) = g
    <3> DEFINE x == [h EXCEPT !.table = t, !.tablelength = size, !.primeindex = @ + 1,
                              !.loadlimit = Chained!loadlimit(size)]
    <3>1. Chained!hashtable_expand(h) = x
      BY <1>2 DEF Chained!hashtable_expand
    <3>2. x = g
      <4> DEFINE x1 == [h EXCEPT !.table = t]
                 x2 == [x1 EXCEPT !.tablelength = size]
                 x3 == [x2 EXCEPT !.primeindex = h.primeindex + 1]
                 x4 == [x3 EXCEPT !.loadlimit = Chained!loadlimit(size)]
      <4>1. x = x4
        OBVIOUS
      <4> HIDE DEF t, size
      <4>2. x1 = [table |-> t, tablelength |-> h.tablelength,
                  entrycount |-> h.entrycount, primeindex |-> h.primeindex,
                  loadlimit |-> h.loadlimit]
        BY FieldUpdates DEF Holds, WellFormed
      <4> HIDE DEF x1
      <4>3. x2 = [table |-> t, tablelength |-> size,
                  entrycount |-> h.entrycount, primeindex |-> h.primeindex,
                  loadlimit |-> h.loadlimit]
        BY <4>2, GrowthUpdates
      <4> HIDE DEF x2
      <4>4. x3 = [table |-> t, tablelength |-> size,
                  entrycount |-> h.entrycount, primeindex |-> h.primeindex + 1,
                  loadlimit |-> h.loadlimit]
        BY <4>3, GrowthUpdates
      <4> HIDE DEF x3
      <4>5. x4 = [table |-> t, tablelength |-> size,
                  entrycount |-> h.entrycount, primeindex |-> h.primeindex + 1,
                  loadlimit |-> Chained!loadlimit(size)]
        BY <4>4, GrowthUpdates
      <4>6. QED
        BY <4>1, <4>5
    <3>3. QED
      BY <3>1, <3>2
  <2>3. \A b \in 0..size-1 : t[b] = Chained!NewChain(h, M(b))
    BY DEF Chained!Transferred
  <2>4. DOMAIN t = 0..size-1 /\ t = [b \in 0..size-1 |-> t[b]]
    BY DEF Chained!Transferred
  <2>5. \A p \in Chained!PlacesInUse(h) :
          /\ p = <<p[1], p[2]>> /\ At(p) \in H /\ p[1] = IndexOf(h.tablelength, At(p))
          /\ p[2] \in 1..Len(h.table[p[1]]) /\ At(p) = h.table[p[1]][p[2]]
    <3> TAKE p \in Chained!PlacesInUse(h)
    <3>1. /\ p[1] \in 0..h.tablelength-1 /\ p[2] \in 1..Len(h.table[p[1]])
          /\ p = <<p[1], p[2]>> /\ At(p) = h.table[p[1]][p[2]]
      BY PlacesOfTable, Zenon DEF Holds
    <3> HIDE DEF At
    <3>2. At(p) \in H /\ IndexOf(h.tablelength, At(p)) = p[1]
      BY <3>1 DEF Holds, InPlace
    <3>3. QED
      BY <3>1, <3>2
  <2>6. \A p, q \in Chained!PlacesInUse(h) : At(p).key = At(q).key => p = q
    <3> SUFFICES ASSUME NEW p \in Chained!PlacesInUse(h), NEW q \in Chained!PlacesInUse(h),
                        At(p).key = At(q).key
                 PROVE  p = q
      OBVIOUS
    <3> HIDE DEF At
    <3>1. At(p) = At(q)
      BY <2>5 DEF Keyed
    <3>2. p[1] = q[1] /\ p[1] \in 0..h.tablelength-1
      BY <2>5, <3>1, PlacesOfTable DEF Holds
    <3>3. p[2] = q[2]
      BY <2>5, <3>1, <3>2 DEF Holds, Once
    <3>4. QED
      BY <2>5, <3>2, <3>3, Zenon
  <2>7. ASSUME NEW b \in 0..size-1
        PROVE  /\ t[b] \in Seq(Pair)
               /\ \A k \in 1..Len(t[b]) : \E p \in M(b) : t[b][k] = At(p)
               /\ \A p \in M(b) : \E k \in 1..Len(t[b]) : t[b][k] = At(p)
               /\ \A k, l \in 1..Len(t[b]) : k # l =>
                    \E p, q \in M(b) : p # q /\ t[b][k] = At(p) /\ t[b][l] = At(q)
    <3>1. M(b) \in SUBSET Chained!PlacesInUse(h)
      OBVIOUS
    <3>2. t[b] = Chained!NewChain(h, M(b))
      BY <2>3
    <3> HIDE DEF M, t
    <3>3. WellFormed(h)
      BY DEF Holds
    <3>4. QED
      BY <3>1, <3>2, <3>3, NewChainOfMoved
  <2>8. g.table = t /\ g.tablelength = size /\ g.entrycount = h.entrycount
    OBVIOUS
  <2>9. WellFormed(g)
    <3>1. t \in Chains(size)
      <4> HIDE DEF t, size
      <4>1. QED
        BY <2>4, <2>7 DEF Chains
    <3> HIDE DEF t, size
    <3>2. QED
      BY <2>1, <3>1 DEF WellFormed
  <2>10. \A b \in 0..size-1 : \A p \in M(b) :
           p \in Chained!PlacesInUse(h) /\ IndexOf(size, At(p)) = b
    BY DEF IndexOf
  <2>11. \A p \in Chained!PlacesInUse(h) : p \in M(IndexOf(size, At(p)))
    BY DEF IndexOf
  <2> HIDE DEF M, t, size, g, At
  <2>12. InPlace(g, H)
    <3> SUFFICES ASSUME NEW b \in 0..size-1, NEW k \in 1..Len(t[b])
                 PROVE  t[b][k] \in H /\ IndexOf(size, t[b][k]) = b
      BY <2>8 DEF InPlace
    <3>1. PICK p \in M(b) : t[b][k] = At(p)
      BY <2>7
    <3>2. QED
      BY <2>5, <2>10, <3>1
  <2>13. Complete(g, H)
    <3> SUFFICES ASSUME NEW e \in H
                 PROVE  \E k \in 1..Len(t[IndexOf(size, e)]) : t[IndexOf(size, e)][k] = e
      BY <2>8 DEF Complete
    <3>1. IndexOf(h.tablelength, e) \in 0..h.tablelength-1
      BY IndexRange DEF Holds, WellFormed, IndexOf, Pair, Keyed
    <3>2. IndexOf(size, e) \in 0..size-1
      BY <2>1, IndexRange DEF IndexOf, Pair, Keyed
    <3>3. PICK k \in 1..Len(h.table[IndexOf(h.tablelength, e)]) :
            h.table[IndexOf(h.tablelength, e)][k] = e
      BY DEF Holds, Complete
    <3> DEFINE p == <<IndexOf(h.tablelength, e), k>>
    <3>4. p \in Chained!PlacesInUse(h)
      BY <3>1, PlacesOfTable, Zenon DEF Holds
    <3>5. At(p) = e
      BY <3>3, <3>4, PlacesOfTable DEF Holds, At
    <3>6. p \in M(IndexOf(size, e))
      BY <2>11, <3>4, <3>5, Zenon
    <3> HIDE DEF p
    <3>7. \E l \in 1..Len(t[IndexOf(size, e)]) : t[IndexOf(size, e)][l] = At(p)
      BY <2>7, <3>2, <3>6, Zenon
    <3>8. QED
      BY <3>5, <3>7, Zenon
  <2>14. Once(g)
    <3> SUFFICES ASSUME NEW b \in 0..size-1, NEW k \in 1..Len(t[b]), NEW l \in 1..Len(t[b]),
                        t[b][k].key = t[b][l].key, k # l
                 PROVE  FALSE
      BY <2>8 DEF Once
    <3>1. PICK p \in M(b), q \in M(b) : p # q /\ t[b][k] = At(p) /\ t[b][l] = At(q)
      BY <2>7
    <3>2. QED
      BY <2>6, <2>10, <3>1, Zenon
  <2>15. QED
    BY <2>2, <2>8, <2>9, <2>12, <2>13, <2>14 DEF Holds
<1>3. QED
  BY <1>1, <1>2

-----------------------------------------------------------------------------
(* The operations of the hash table.                                        *)

(* hashtable_insert adds the pair, whether the table grows or not.          *)
LEMMA Inserted ==
  ASSUME NEW h, NEW H, Holds(h, H), Keyed(H), h.entrycount \in Int,
         NEW s \in Str, NEW v \in Nat, NEW memory \in BOOLEAN,
         \A f \in H : f.key # s
  PROVE  LET g == Chained!hashtable_insert(h, s, v, memory)
         IN /\ Holds(g, H \union {[key |-> s, value |-> v]})
            /\ g.entrycount = h.entrycount + 1
<1> DEFINE e == [key |-> s, value |-> v]
           counted == [h EXCEPT !.entrycount = @ + 1]
           grown == IF counted.entrycount > h.loadlimit /\ memory
                    THEN Chained!hashtable_expand(counted) ELSE counted
           b == IndexOf(grown.tablelength, e)
           d == <<e>> \o grown.table[b]
<1>1. Holds(counted, H) /\ counted.entrycount = h.entrycount + 1
  <2>1. counted = Booked(h, h.entrycount + 1)
    BY BookedWellFormed DEF Holds
  <2> HIDE DEF counted
  <2>2. QED
    BY <2>1, BookedWellFormed DEF Holds, Booked
<1>2. Holds(grown, H) /\ grown.entrycount = h.entrycount + 1
  <2> HIDE DEF counted
  <2>1. QED
    BY <1>1, Expanded
<1>3. e \in Pair /\ e.key = s /\ b = Chained!indexFor(grown.tablelength, hashfn[s])
  BY DEF Pair, IndexOf
<1>4. Chained!hashtable_insert(h, s, v, memory) = [grown EXCEPT !.table[b] = d]
  <2> DEFINE j == Chained!indexFor(grown.tablelength, hashfn[s])
  <2>1. Chained!hashtable_insert(h, s, v, memory) =
          [grown EXCEPT !.table[j] = <<[key |-> s, value |-> v]>> \o @]
    BY Zenon DEF Chained!hashtable_insert
  <2>2. j = b
    BY <1>3
  <2> HIDE DEF grown, j, b
  <2>3. QED
    BY <2>1, <2>2, Zenon
<1> HIDE DEF grown, e
<1>5. b \in 0..grown.tablelength-1
  BY <1>2, <1>3, IndexRange DEF Holds, WellFormed
<1>6. d \in Seq(Pair)
  <2>1. grown.table[b] \in Seq(Pair)
    <3> HIDE DEF b
    <3>1. QED
      BY <1>2, <1>5 DEF Holds, WellFormed, Chains
  <2> HIDE DEF b
  <2>2. <<e>> \in Seq(Pair)
    BY <1>3
  <2>3. QED
    BY <2>1, <2>2, ConcatProperties, Zenon
<1>7. \A f \in H : f.key # e.key
  BY <1>3
<1>8. Holds(Rechained(grown, b, d), H \union {e})
  BY <1>2, <1>3, <1>7, Prepended, Zenon
<1> HIDE DEF b, d
<1>9. [grown EXCEPT !.table[b] = d] = Rechained(grown, b, d)
  BY <1>2, <1>5, <1>6, RechainedWellFormed, Zenon DEF Holds
<1>10. Rechained(grown, b, d).entrycount = h.entrycount + 1
  BY <1>2 DEF Rechained
<1>11. QED
  BY <1>4, <1>8, <1>9, <1>10 DEF e

(* create_hashtable makes a table without entries.                          *)
LEMMA Created ==
  LET g == Chained!create_hashtable(INITIAL_HASH_TABLE_SIZE)
  IN Holds(g, {}) /\ g.entrycount = 0
<1> DEFINE fits == {i \in 1..Len(primes) : primes[i] >= INITIAL_HASH_TABLE_SIZE}
           m == Chained!Min(fits)
           size == primes[m]
           g == [table |-> [i \in 0..size-1 |-> <<>>], tablelength |-> size,
                 entrycount |-> 0, primeindex |-> m,
                 loadlimit |-> Chained!loadlimit(size)]
<1>1. fits # {} /\ fits \in SUBSET Nat /\ fits \subseteq 1..Len(primes)
  BY HashedValueTableAssumption
<1>2. m \in 1..Len(primes)
  <2> HIDE DEF fits
  <2>1. \E i \in fits : \A k \in fits : i <= k
    BY <1>1, LeastNatural
  <2>2. m \in fits
    BY <2>1, Zenon DEF Chained!Min
  <2>3. QED
    BY <1>1, <2>2
<1>3. size \in Nat \ {0}
  <2> HIDE DEF m
  <2>1. QED
    BY <1>2, HashedValueTableAssumption, ElementOfSeq
<1>4. Chained!create_hashtable(INITIAL_HASH_TABLE_SIZE) = g
  <2>1. fits # {}
    BY <1>1
  <2>2. QED
    BY <2>1 DEF Chained!create_hashtable
<1> HIDE DEF size, m
<1>5. /\ g.table = [i \in 0..size-1 |-> <<>>] /\ g.tablelength = size
      /\ g.entrycount = 0
      /\ \A i \in 0..size-1 : g.table[i] = <<>>
  OBVIOUS
<1>6. <<>> \in Seq(Pair) /\ Len(<<>>) = 0
  BY EmptySeq
<1>7. WellFormed(g)
  BY <1>2, <1>3, <1>6 DEF WellFormed, Chains
<1> HIDE DEF g
<1>8. Holds(g, {})
  BY <1>5, <1>6, <1>7 DEF Holds, InPlace, Complete, Once
<1>9. QED
  BY <1>4, <1>5, <1>8

(* What the hash table holds stays what ValueTable has as a set of pairs.   *)
LEMMA HashInit ==
  HashedInit => HashInv
<1> SUFFICES ASSUME HashedInit
             PROVE  HashInv
  OBVIOUS
<1>1. hash = {} /\ hashTbl = Chained!create_hashtable(INITIAL_HASH_TABLE_SIZE)
  BY DEF HashedInit, Init
<1>2. Keyed({}) /\ IsFiniteSet({}) /\ Cardinality({}) = 0
  BY FS_EmptySet DEF Keyed
<1>3. QED
  BY <1>1, <1>2, Created DEF HashInv, Counted

(* The step of ValueTable that AddHashed takes on the set of pairs.         *)
LEMMA AddHashedStep ==
  ASSUME Inv, Inv', HashInv, NEW s \in Str, NEW q \in QNameID, AddHashed(s, q)
  PROVE  HashInv'
<1> SUFFICES ASSUME HashTable
             PROVE  /\ Holds(hashTbl', hash') /\ Counted(hashTbl', hash')
                    /\ Keyed(hash')
  BY DEF HashInv
<1> DEFINE old == value[globalId].valueStr
           h0 == IF Evicting THEN Chained!hashtable_remove(hashTbl, old) ELSE hashTbl
           H0 == IF Evicting THEN HashRemove(hash, old) ELSE hash
           new == [key |-> s, value |-> globalId]
<1>1. /\ Holds(hashTbl, hash) /\ Keyed(hash) /\ IsFiniteSet(hash)
      /\ hashTbl.entrycount = Cardinality(hash) /\ Cardinality(hash) \in Nat
  BY FS_CardinalityType DEF HashInv, Counted
<1>2. PICK memory \in BOOLEAN :
        hashTbl' = Chained!hashtable_insert(h0, s, globalId, memory)
  BY DEF AddHashed, HashTblWith
<1>3. hash' = H0 \union {new}
  BY DEF AddHashed, AddOnMiss, AddValueEntry
<1>4. \A e \in hash : e.key # s
  BY DEF AddHashed, AddOnMiss, LookupValue, ValueMatches
<1>5. globalId \in Nat /\ new \in Pair
  BY DEF Inv, TypeOK, Pair
<1>6. Keyed(hash')
  <2>1. hash' = {[key |-> value'[i].valueStr, value |-> i] : i \in 0..count'-1}
    BY DEF Inv, PartitionInv, HashMirrorsTable
  <2>2. \A i, k \in 0..count'-1 : value'[i].valueStr = value'[k].valueStr => i = k
    BY DEF Inv, PartitionInv, UniqueValues
  <2>3. \A e, f \in hash' : e.key = f.key => e = f
    BY <2>1, <2>2
  <2>4. hash' \subseteq Pair
    BY DEF Inv, TypeOK, Pair
  <2>5. QED
    BY <2>3, <2>4 DEF Keyed
<1>7. /\ Holds(h0, H0) /\ Keyed(H0) /\ IsFiniteSet(H0)
      /\ h0.entrycount = Cardinality(H0) /\ H0 \subseteq hash
  <2>1. CASE ~Evicting
    BY <1>1, <2>1
  <2>2. CASE Evicting
    <3>1. globalId \in 0..count-1
      BY <2>2 DEF Inv, TypeOK, Evicting
    <3>2. PICK e \in hash : e.key = old
      <4>1. hash = {[key |-> value[i].valueStr, value |-> i] : i \in 0..count-1}
        BY DEF Inv, PartitionInv, HashMirrorsTable
      <4>2. [key |-> old, value |-> globalId] \in hash
        BY <3>1, <4>1
      <4>3. QED
        BY <4>2
    <3>3. (CHOOSE f \in hash : f.key = old) = e
      BY <1>1, <3>2 DEF Keyed
    <3>4. H0 = hash \ {e}
      BY <2>2, <3>2, <3>3 DEF HashRemove
    <3>5. h0 = Chained!hashtable_remove(hashTbl, e.key)
      BY <2>2, <3>2
    <3> HIDE DEF h0, H0, old
    <3>6. Holds(h0, H0) /\ h0.entrycount = hashTbl.entrycount - 1
      <4>1. hashTbl.entrycount \in Int
        BY <1>1
      <4>2. QED
        BY <1>1, <3>4, <3>5, <4>1, Removed
    <3>7. IsFiniteSet(H0) /\ Cardinality(H0) = Cardinality(hash) - 1
      BY <1>1, <3>4, FS_RemoveElement
    <3>8. Keyed(H0)
      BY <1>1, <3>4 DEF Keyed
    <3>9. QED
      BY <1>1, <3>4, <3>6, <3>7, <3>8
  <2>3. QED
    BY <2>1, <2>2
<1> HIDE DEF h0, H0, new
<1>8. \A f \in H0 : f.key # s
  BY <1>4, <1>7
<1>9. h0.entrycount \in Int /\ Cardinality(H0) \in Nat
  BY <1>7, FS_CardinalityType
<1>10. Holds(hashTbl', hash') /\ hashTbl'.entrycount = h0.entrycount + 1
  <2> DEFINE g == Chained!hashtable_insert(h0, s, globalId, memory)
  <2>1. /\ Holds(g, H0 \union {[key |-> s, value |-> globalId]})
        /\ g.entrycount = h0.entrycount + 1
    <3>1. globalId \in Nat
      BY <1>5
    <3>2. Holds(h0, H0) /\ Keyed(H0) /\ h0.entrycount \in Int
      BY <1>7, <1>9
    <3> HIDE DEF g
    <3>3. QED
      BY <1>8, <3>1, <3>2, Inserted, Zenon DEF g
  <2>2. hash' = H0 \union {[key |-> s, value |-> globalId]} /\ hashTbl' = g
    BY <1>2, <1>3 DEF new
  <2> HIDE DEF g
  <2>3. QED
    BY <2>1, <2>2, Zenon
<1>11. IsFiniteSet(hash') /\ Cardinality(hash') = Cardinality(H0) + 1
  <2>1. new \notin H0
    BY <1>8 DEF new
  <2>2. QED
    BY <1>3, <1>7, <2>1, FS_AddElement
<1>12. QED
  BY <1>6, <1>7, <1>10, <1>11 DEF Counted

-----------------------------------------------------------------------------
(* HashedValueTable takes the steps of ValueTable.                          *)
LEMMA HashedImplementsTable ==
  HashedSpec => Spec
<1>1. HashedInit => Init
  BY DEF HashedInit
<1>2. [HashedNext]_hashedVars => [Next]_vars
  BY DEF HashedNext, AddHashed, KeepHashed, Next, hashedVars, vars
<1>3. QED
  BY <1>1, <1>2, PTL DEF HashedSpec, Spec

(* The inductive invariant.                                                 *)
LEMMA HashInvStep ==
  Inv /\ Inv' /\ HashInv /\ [HashedNext]_hashedVars => HashInv'
<1> SUFFICES ASSUME Inv, Inv', HashInv, [HashedNext]_hashedVars
             PROVE  HashInv'
  OBVIOUS
<1>1. ASSUME NEW s \in Str, NEW q \in QNameID, AddHashed(s, q)
      PROVE  HashInv'
  BY <1>1, AddHashedStep
<1>2. ASSUME NEW s \in Str, NEW q \in QNameID, KeepHashed(s, q)
      PROVE  HashInv'
  BY <1>2 DEF KeepHashed, KeepOnHit, vars, HashInv, Holds, WellFormed, InPlace, Complete,
              Once, Counted
<1>3. CASE UNCHANGED hashedVars
  BY <1>3 DEF hashedVars, vars, HashInv
<1>4. QED
  BY <1>1, <1>2, <1>3 DEF HashedNext

(* The invariant says what a look-up in the chains returns.                 *)
LEMMA HashInvSuffices ==
  Inv /\ HashInv => ChainsHoldPairs
<1> SUFFICES ASSUME Inv, HashInv, HashTable
             PROVE  /\ \A s \in Str :
                         Chained!hashtable_search(hashTbl, s) =
                           IF LookupValue(s) THEN ValueEntryId(s) ELSE INDEX_MAX
                    /\ Chained!hashtable_count(hashTbl) = Cardinality(hash)
  BY DEF ChainsHoldPairs
<1>1. Holds(hashTbl, hash) /\ Keyed(hash)
  BY DEF HashInv
<1>2. Chained!hashtable_count(hashTbl) = Cardinality(hash)
  BY DEF HashInv, Counted, Chained!hashtable_count
<1>3. ASSUME NEW s \in Str
      PROVE  Chained!hashtable_search(hashTbl, s) =
               IF LookupValue(s) THEN ValueEntryId(s) ELSE INDEX_MAX
  <2>1. ValueMatches(s) = {e.value : e \in {f \in hash : f.key = s}}
    BY DEF ValueMatches
  <2>2. CASE LookupValue(s)
    <3>1. PICK e \in hash : e.key = s
      BY <2>1, <2>2 DEF LookupValue
    <3>2. {f \in hash : f.key = s} = {e}
      BY <1>1, <3>1 DEF Keyed
    <3>3. ValueMatches(s) = {e.value} /\ e.value \in Nat
      BY <1>1, <2>1, <3>1, <3>2 DEF Keyed, Pair
    <3>4. ValueEntryId(s) = e.value
      BY <3>3 DEF ValueEntryId
    <3>5. QED
      BY <1>1, <2>2, <3>1, <3>4, SearchFinds
  <2>3. CASE ~LookupValue(s)
    <3>1. \A e \in hash : e.key # s
      BY <2>1, <2>3 DEF LookupValue
    <3>2. QED
      BY <1>1, <2>3, <3>1, SearchFinds
  <2>4. QED
    BY <2>2, <2>3
<1>4. QED
  BY <1>2, <1>3

(* In every state of the serializer's value table a look-up in the chains   *)
(* finds the slot that holds the string and only that one, and the number   *)
(* of entries that decides about growth is the number of pairs              *)
(* (hashtable_search, hashtable_insert, hashtable_expand, hashtable_remove).*)
THEOREM ChainsAlwaysHoldPairs ==
  HashedSpec => []ChainsHoldPairs
<1>1. HashedSpec => []Inv
  BY HashedImplementsTable, PartitionsConsistent, PTL DEF Inv
<1>2. HashedSpec => []HashInv
  BY <1>1, HashInit, HashInvStep, PTL DEF HashedSpec
<1>3. QED
  BY <1>1, <1>2, HashInvSuffices, PTL
=============================================================================
