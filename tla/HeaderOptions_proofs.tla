------------------------ MODULE HeaderOptions_proofs ------------------------
(***************************************************************************)
(* The parser reads, by the grammar of the options document, what the      *)
(* serializer writes from its formulas, whatever the options are.  First   *)
(* the two sides are taken through the document part by part (Agree), with *)
(* the options found after each of its fourteen contents (Found), up to    *)
(* OptionsReadBack; then follow what the serializer gives up on            *)
(* (NotWritten), the fixed part of the header (FixedIsRead), and the       *)
(* inductive invariant over the calls of the application (IInv).           *)
(***************************************************************************)
EXTENDS HeaderOptions, SequenceTheorems, NaturalsInduction, WellFoundedInduction, TLAPS

-----------------------------------------------------------------------------
(* Runs of the serializer and of the parser.                                *)

(* Every set of natural numbers that is not empty has a least element.      *)
LEMMA LeastNatural ==
  ASSUME NEW T \in SUBSET Nat, T # {}
  PROVE  \E m \in T : \A k \in T : ~(k < m)
<1>1. IsWellFoundedOn(OpToRel(<, Nat), Nat)
  BY NatLessThanWellFounded
<1>2. PICK m \in T : \A k \in T : ~ (<<k, m>> \in OpToRel(<, Nat))
  BY <1>1, WFMin
<1>3. QED
  BY <1>2 DEF OpToRel

(* serializeCalls is what its steps lead to.                                *)
WritesAll(calls, s, r) ==
  \E g : /\ g = [n \in 0..Len(calls) |-> IF n = 0 THEN s ELSE serializeCall(g[n-1], calls[n])]
         /\ g[Len(calls)] = r

(* A run of the calls, step by step, gives serializeCalls.                  *)
LEMMA SerializeCalls ==
  ASSUME NEW calls, NEW s, NEW r, WritesAll(calls, s, r), Len(calls) \in Nat
  PROVE  serializeCalls(calls, s) = r
<1> DEFINE L == Len(calls)
           Is(g) == g = [n \in 0..L |-> IF n = 0 THEN s ELSE serializeCall(g[n-1], calls[n])]
           after == CHOOSE g : Is(g)
<1>1. serializeCalls(calls, s) = after[L]
  BY DEF serializeCalls
<1>2. PICK g : Is(g) /\ g[L] = r
  BY DEF WritesAll
<1>3. Is(after)
  BY <1>2
<1> DEFINE h == after
<1> HIDE DEF after
<1> DEFINE T == {n \in 0..L : g[n] # after[n]}
<1>4. T = {}
  <2>1. SUFFICES ASSUME T # {} PROVE FALSE
    OBVIOUS
  <2>2. T \in SUBSET Nat
    OBVIOUS
  <2>3. PICK m \in T : \A k \in T : ~(k < m)
    BY <2>1, <2>2, LeastNatural
  <2>4. m \in 0..L /\ g[m] # after[m]
    OBVIOUS
  <2>5. g[m] = IF m = 0 THEN s ELSE serializeCall(g[m-1], calls[m])
    BY <1>2, <2>4
  <2>6. after[m] = IF m = 0 THEN s ELSE serializeCall(after[m-1], calls[m])
    BY <1>3, <2>4
  <2>7. CASE m = 0
    BY <2>4, <2>5, <2>6, <2>7
  <2>8. CASE m # 0
    <3>1. m - 1 \in 0..L /\ m - 1 < m
      BY <2>4, <2>8
    <3>2. g[m-1] = after[m-1]
      BY <2>3, <3>1
    <3>3. QED
      BY <2>4, <2>5, <2>6, <2>8, <3>2
  <2>9. QED
    BY <2>7, <2>8
<1>5. L \in 0..L
  OBVIOUS
<1>6. g[L] = after[L]
  BY <1>4, <1>5
<1>7. QED
  BY <1>1, <1>2, <1>6

(* The same for the parser's loop; behind the end it does nothing.          *)
ReadsAll(n, d, r) ==
  \E g : /\ g = [i \in 0..n |-> IF i = 0 THEN d ELSE parseNext(g[i-1])]
         /\ g[n] = r

(* A run of parseNext that has come to a standstill gives parseOptions,     *)
(* whose loop is longer.                                                    *)
LEMMA ParseOptions ==
  ASSUME NEW n \in 0..MaxOptionEvents, NEW d, NEW r, ReadsAll(n, d, r), parseNext(r) = r
  PROVE  parseOptions(d) = r
<1> DEFINE L == MaxOptionEvents
           Is(g) == g = [i \in 0..L |-> IF i = 0 THEN d ELSE parseNext(g[i-1])]
           after == CHOOSE g : Is(g)
<1>0. L \in Nat
  BY HeaderAssumption
<1>1. parseOptions(d) = after[L]
  BY DEF parseOptions
<1>2. PICK f : f = [i \in 0..n |-> IF i = 0 THEN d ELSE parseNext(f[i-1])] /\ f[n] = r
  BY DEF ReadsAll
<1> DEFINE g == [i \in 0..L |-> IF i <= n THEN f[i] ELSE r]
<1>3. Is(g)
  <2>1. ASSUME NEW i \in 0..L
        PROVE  g[i] = IF i = 0 THEN d ELSE parseNext(g[i-1])
    <3>1. CASE i = 0
      BY <1>2, <3>1
    <3>2. CASE i # 0 /\ i <= n
      <4>1. i \in 0..n /\ i-1 \in 0..L /\ i-1 <= n
        BY <1>0, <3>2
      <4>2. f[i] = parseNext(f[i-1])
        BY <1>2, <3>2, <4>1
      <4>3. g[i] = f[i] /\ g[i-1] = f[i-1]
        BY <3>2, <4>1
      <4>4. QED
        BY <3>2, <4>2, <4>3
    <3>3. CASE ~(i <= n)
      <4>1. i-1 \in 0..L /\ i # 0 /\ (i-1 <= n => i-1 = n)
        BY <1>0, <3>3
      <4>2. g[i-1] = r /\ g[i] = r
        BY <1>2, <3>3, <4>1
      <4>3. QED
        BY <4>1, <4>2
    <3>4. QED
      BY <3>1, <3>2, <3>3
  <2>2. g = [i \in 0..L |-> g[i]]
    OBVIOUS
  <2> HIDE DEF g
  <2>3. g = [i \in 0..L |-> IF i = 0 THEN d ELSE parseNext(g[i-1])]
    BY <2>1, <2>2
  <2>4. QED
    BY <2>3
<1>4. g[L] = r
  BY <1>0, <1>2
<1> HIDE DEF g
<1>5. Is(after)
  BY <1>3
<1> HIDE DEF after
<1> DEFINE T == {i \in 0..L : g[i] # after[i]}
<1>6. T = {}
  <2>1. SUFFICES ASSUME T # {} PROVE FALSE
    OBVIOUS
  <2>2. T \in SUBSET Nat
    OBVIOUS
  <2>3. PICK m \in T : \A k \in T : ~(k < m)
    BY <2>1, <2>2, LeastNatural
  <2>4. m \in 0..L /\ g[m] # after[m]
    OBVIOUS
  <2>5. g[m] = IF m = 0 THEN d ELSE parseNext(g[m-1])
    BY <1>3, <2>4
  <2>6. after[m] = IF m = 0 THEN d ELSE parseNext(after[m-1])
    BY <1>5, <2>4
  <2>7. CASE m = 0
    BY <2>4, <2>5, <2>6, <2>7
  <2>8. CASE m # 0
    <3>1. m - 1 \in 0..L /\ m - 1 < m
      BY <1>0, <2>4, <2>8
    <3>2. g[m-1] = after[m-1]
      BY <2>3, <3>1
    <3>3. QED
      BY <2>4, <2>5, <2>6, <2>8, <3>2
  <2>9. QED
    BY <2>7, <2>8
<1>7. L \in 0..L
  BY <1>0
<1>8. QED
  BY <1>1, <1>4, <1>6, <1>7

(* One run behind the other.                                                *)
LEMMA ReadsOn ==
  ASSUME NEW n1 \in Nat, NEW n2 \in Nat, NEW d, NEW d1, NEW d2,
         ReadsAll(n1, d, d1), ReadsAll(n2, d1, d2)
  PROVE  ReadsAll(n1 + n2, d, d2)
<1>1. PICK f : f = [i \in 0..n1 |-> IF i = 0 THEN d ELSE parseNext(f[i-1])] /\ f[n1] = d1
  BY DEF ReadsAll
<1>2. PICK h : h = [i \in 0..n2 |-> IF i = 0 THEN d1 ELSE parseNext(h[i-1])] /\ h[n2] = d2
  BY DEF ReadsAll
<1> DEFINE g == [i \in 0..n1+n2 |-> IF i <= n1 THEN f[i] ELSE h[i-n1]]
<1>3. ASSUME NEW i \in 0..n1+n2
      PROVE  g[i] = IF i = 0 THEN d ELSE parseNext(g[i-1])
  <2>1. CASE i = 0
    BY <1>1, <2>1
  <2>2. CASE i # 0 /\ i <= n1
    <3>1. i \in 0..n1 /\ i-1 \in 0..n1+n2 /\ i-1 <= n1
      BY <2>2
    <3>2. f[i] = parseNext(f[i-1])
      BY <1>1, <2>2, <3>1
    <3>3. QED
      BY <2>2, <3>1, <3>2
  <2>3. CASE ~(i <= n1)
    <3>1. i-n1 \in 0..n2 /\ i-n1 # 0 /\ i-1 \in 0..n1+n2 /\ i # 0
      BY <2>3
    <3>2. h[i-n1] = parseNext(h[i-n1-1])
      BY <1>2, <3>1
    <3>3. g[i-1] = h[i-n1-1]
      <4>1. CASE i-1 = n1
        <5>1. g[i-1] = f[n1] /\ i-n1-1 = 0
          BY <3>1, <4>1
        <5>2. h[0] = d1
          BY <1>2
        <5>3. QED
          BY <1>1, <5>1, <5>2
      <4>2. CASE i-1 # n1
        <5>1. ~(i-1 <= n1) /\ (i-1)-n1 = i-n1-1
          BY <2>3, <4>2
        <5>2. QED
          BY <3>1, <5>1
      <4>3. QED
        BY <4>1, <4>2
    <3>4. QED
      BY <2>3, <3>1, <3>2, <3>3
  <2>4. QED
    BY <2>1, <2>2, <2>3
<1>4. g[n1+n2] = d2
  <2>1. n1+n2 \in 0..n1+n2
    OBVIOUS
  <2>2. CASE n2 = 0
    BY <1>1, <1>2, <2>1, <2>2
  <2>3. CASE n2 # 0
    <3>1. ~(n1+n2 <= n1) /\ n1+n2-n1 = n2
      BY <2>3
    <3>2. QED
      BY <1>2, <2>1, <3>1
  <2>4. QED
    BY <2>2, <2>3
<1>5. g = [i \in 0..n1+n2 |-> g[i]]
  OBVIOUS
<1> HIDE DEF g
<1>6. g = [i \in 0..n1+n2 |-> IF i = 0 THEN d ELSE parseNext(g[i-1])]
  BY <1>3, <1>5
<1>7. QED
  BY <1>4, <1>6 DEF ReadsAll

(* The same for the calls of the serializer.                                *)
ValT == Int \cup STRING \cup {""}
CallT == [call : {"event", "fail", "int", "string"}, bits : Int, val : ValT]
FieldT == [kind : {"bits", "int", "string", "cookie", "padding"}, width : Int, val : ValT]

(* Two lists of calls, one behind the other, run one after the other.       *)
LEMMA WritesOn ==
  ASSUME NEW c1 \in Seq(CallT), NEW c2 \in Seq(CallT), NEW d, NEW d1, NEW d2,
         WritesAll(c1, d, d1), WritesAll(c2, d1, d2)
  PROVE  WritesAll(c1 \o c2, d, d2)
<1> DEFINE n1 == Len(c1)
           n2 == Len(c2)
           c == c1 \o c2
<1>0. /\ n1 \in Nat /\ n2 \in Nat /\ Len(c) = n1 + n2
      /\ \A i \in 1..n1 : c[i] = c1[i]
      /\ \A i \in 1..n2 : c[n1+i] = c2[i]
  OBVIOUS
<1>1. PICK f : f = [i \in 0..n1 |-> IF i = 0 THEN d ELSE serializeCall(f[i-1], c1[i])]
               /\ f[n1] = d1
  BY DEF WritesAll
<1>2. PICK h : h = [i \in 0..n2 |-> IF i = 0 THEN d1 ELSE serializeCall(h[i-1], c2[i])]
               /\ h[n2] = d2
  BY DEF WritesAll
<1> HIDE DEF n1, n2, c
<1>9. n1 \in Nat /\ n2 \in Nat
  BY <1>0
<1> DEFINE g == [i \in 0..n1+n2 |-> IF i <= n1 THEN f[i] ELSE h[i-n1]]
<1>3. ASSUME NEW i \in 0..n1+n2
      PROVE  g[i] = IF i = 0 THEN d ELSE serializeCall(g[i-1], c[i])
  <2>1. CASE i = 0
    BY <1>0, <1>1, <2>1
  <2>2. CASE i # 0 /\ i <= n1
    <3>1. i \in 0..n1 /\ i \in 1..n1 /\ i-1 \in 0..n1+n2 /\ i-1 <= n1
      BY <1>0, <2>2
    <3>2. f[i] = serializeCall(f[i-1], c1[i])
      BY <1>1, <2>2, <3>1
    <3>3. c[i] = c1[i]
      BY <1>0, <3>1
    <3>4. QED
      BY <2>2, <3>1, <3>2, <3>3
  <2>3. CASE ~(i <= n1)
    <3>1. /\ i-n1 \in 0..n2 /\ i-n1 \in 1..n2 /\ i-n1 # 0
          /\ i-1 \in 0..n1+n2 /\ i # 0 /\ n1 + (i-n1) = i
      BY <1>0, <2>3
    <3>2. h[i-n1] = serializeCall(h[i-n1-1], c2[i-n1])
      BY <1>2, <3>1
    <3>5. c[i] = c2[i-n1]
      BY <1>0, <3>1
    <3>3. g[i-1] = h[i-n1-1]
      <4>1. CASE i-1 = n1
        <5>1. g[i-1] = f[n1] /\ i-n1-1 = 0
          BY <1>9, <3>1, <4>1
        <5>2. h[0] = d1
          BY <1>0, <1>2
        <5>3. QED
          BY <1>1, <5>1, <5>2
      <4>2. CASE i-1 # n1
        <5>1. ~(i-1 <= n1) /\ (i-1)-n1 = i-n1-1
          BY <1>0, <2>3, <4>2
        <5>2. QED
          BY <3>1, <5>1
      <4>3. QED
        BY <4>1, <4>2
    <3>4. QED
      BY <2>3, <3>1, <3>2, <3>3, <3>5
  <2>4. QED
    BY <2>1, <2>2, <2>3
<1>4. g[n1+n2] = d2
  <2>1. n1+n2 \in 0..n1+n2
    BY <1>0
  <2>2. CASE n2 = 0
    BY <1>0, <1>1, <1>2, <2>1, <2>2
  <2>3. CASE n2 # 0
    <3>1. ~(n1+n2 <= n1) /\ n1+n2-n1 = n2
      BY <1>9, <2>3
    <3>2. g[n1+n2] = h[n2]
      BY <1>9, <2>1, <3>1
    <3>3. QED
      BY <1>2, <3>2
  <2>4. QED
    BY <2>2, <2>3
<1>5. g = [i \in 0..n1+n2 |-> g[i]]
  OBVIOUS
<1> HIDE DEF g
<1>6. g = [i \in 0..n1+n2 |-> IF i = 0 THEN d ELSE serializeCall(g[i-1], c[i])]
  BY <1>3, <1>5
<1>7. g = [i \in 0..Len(c) |-> IF i = 0 THEN d ELSE serializeCall(g[i-1], c[i])]
      /\ g[Len(c)] = d2
  BY <1>0, <1>4, <1>6
<1>8. QED
  BY <1>7 DEF WritesAll, c

(* No step and a single step.                                               *)
LEMMA NoStep ==
  ASSUME NEW d
  PROVE  ReadsAll(0, d, d) /\ WritesAll(<<>>, d, d)
<1> DEFINE g == [i \in 0..0 |-> d]
<1>1. g[0] = d /\ Len(<<>>) = 0
  OBVIOUS
<1>2. g = [i \in 0..0 |-> IF i = 0 THEN d ELSE parseNext(g[i-1])]
  BY <1>1
<1>3. g = [i \in 0..Len(<<>>) |-> IF i = 0 THEN d ELSE serializeCall(g[i-1], <<>>[i])]
  BY <1>1
<1> HIDE DEF g
<1>4. ReadsAll(0, d, d)
  BY <1>1, <1>2 DEF ReadsAll
<1>5. g[Len(<<>>)] = d
  BY <1>1
<1>6. WritesAll(<<>>, d, d)
  BY <1>3, <1>5 DEF WritesAll
<1>7. QED
  BY <1>4, <1>6

(* One event is a run of the parser.                                        *)
LEMMA OneRead ==
  ASSUME NEW d, NEW r, parseNext(d) = r
  PROVE  ReadsAll(1, d, r)
<1> DEFINE g == [i \in 0..1 |-> IF i = 0 THEN d ELSE r]
<1>1. g[0] = d /\ g[1] = r
  OBVIOUS
<1>2. ASSUME NEW i \in 0..1 PROVE g[i] = IF i = 0 THEN d ELSE parseNext(g[i-1])
  BY <1>1
<1>3. g = [i \in 0..1 |-> g[i]]
  OBVIOUS
<1> HIDE DEF g
<1>4. g = [i \in 0..1 |-> IF i = 0 THEN d ELSE parseNext(g[i-1])]
  BY <1>2, <1>3
<1>5. QED
  BY <1>1, <1>4 DEF ReadsAll

(* One call is a run of the serializer.                                     *)
LEMMA OneWritten ==
  ASSUME NEW c, NEW s, NEW r, serializeCall(s, c) = r
  PROVE  WritesAll(<<c>>, s, r)
<1> DEFINE g == [i \in 0..1 |-> IF i = 0 THEN s ELSE r]
           cs == <<c>>
<1>1. g[0] = s /\ g[1] = r /\ Len(cs) = 1 /\ cs[1] = c
  OBVIOUS
<1>2. ASSUME NEW i \in 0..1 PROVE g[i] = IF i = 0 THEN s ELSE serializeCall(g[i-1], cs[i])
  BY <1>1
<1>3. g = [i \in 0..1 |-> g[i]]
  OBVIOUS
<1> HIDE DEF g, cs
<1>4. g = [i \in 0..Len(cs) |-> IF i = 0 THEN s ELSE serializeCall(g[i-1], cs[i])]
  BY <1>1, <1>2, <1>3
<1>5. g[Len(cs)] = r
  BY <1>1
<1>6. WritesAll(cs, s, r)
  BY <1>4, <1>5 DEF WritesAll
<1>7. QED
  BY <1>6 DEF cs

-----------------------------------------------------------------------------
(* What a group of calls writes is read by the same grammar: from the open  *)
(* elements `t` to `t2`, while the options found become `o2`, in at most m  *)
(* steps of the parser.                                                     *)

S(out, t) == [out |-> out, stack |-> t, err |-> "EXIP_OK"]
D(in, t, o, p) == [in |-> in, stack |-> t, opts |-> o, prev |-> p, err |-> "EXIP_OK"]

Writes(t, calls, t2, f) ==
  \A out \in Seq(FieldT) : WritesAll(calls, S(out, t), S(out \o f, t2))

ReadsTo(d, rest, t2, o2, m) ==
  \E n \in 0..m : \E p2 : ReadsAll(n, d, D(rest, t2, o2, p2))

Reads(t, o, f, t2, o2, m) ==
  \A rest \in Seq(FieldT) : \A p : ReadsTo(D(f \o rest, t, o, p), rest, t2, o2, m)

Agree(t, o, calls, t2, o2, m) ==
  \E f \in Seq(FieldT) : Writes(t, calls, t2, f) /\ Reads(t, o, f, t2, o2, m)

(* What two lists of calls write is written by both, the fields one behind  *)
(* the other.                                                               *)
LEMMA WritesChain ==
  ASSUME NEW c1 \in Seq(CallT), NEW c2 \in Seq(CallT), NEW t, NEW t1, NEW t2,
         NEW f1 \in Seq(FieldT), NEW f2 \in Seq(FieldT),
         Writes(t, c1, t1, f1), Writes(t1, c2, t2, f2)
  PROVE  Writes(t, c1 \o c2, t2, f1 \o f2)
<1> DEFINE f == f1 \o f2
<1>1. SUFFICES ASSUME NEW out \in Seq(FieldT)
               PROVE  WritesAll(c1 \o c2, S(out, t), S(out \o f, t2))
  BY DEF Writes
<1>2. out \o f1 \in Seq(FieldT) /\ (out \o f1) \o f2 = out \o f
  OBVIOUS
<1>3. WritesAll(c1, S(out, t), S(out \o f1, t1))
  BY DEF Writes
<1>4. WritesAll(c2, S(out \o f1, t1), S((out \o f1) \o f2, t2))
  BY <1>2 DEF Writes
<1>5. WritesAll(c2, S(out \o f1, t1), S(out \o f, t2))
  BY <1>2, <1>4
<1> HIDE DEF f
<1>6. QED
  BY <1>3, <1>5, WritesOn

(* Agreement is kept along the document: where one part ends the next one   *)
(* begins.                                                                  *)
LEMMA AgreeOn ==
  ASSUME NEW c1 \in Seq(CallT), NEW c2 \in Seq(CallT), NEW m1 \in Nat, NEW m2 \in Nat,
         NEW t, NEW o, NEW t1, NEW o1, NEW t2, NEW o2,
         Agree(t, o, c1, t1, o1, m1), Agree(t1, o1, c2, t2, o2, m2)
  PROVE  Agree(t, o, c1 \o c2, t2, o2, m1 + m2)
<1>1. PICK f1 \in Seq(FieldT) : Writes(t, c1, t1, f1) /\ Reads(t, o, f1, t1, o1, m1)
  BY DEF Agree
<1>2. PICK f2 \in Seq(FieldT) : Writes(t1, c2, t2, f2) /\ Reads(t1, o1, f2, t2, o2, m2)
  BY DEF Agree
<1> DEFINE f == f1 \o f2
<1>3. f \in Seq(FieldT)
  OBVIOUS
<1>4. Writes(t, c1 \o c2, t2, f)
  BY <1>1, <1>2, WritesChain
<1>5. Reads(t, o, f, t2, o2, m1 + m2)
  <2>1. SUFFICES ASSUME NEW rest \in Seq(FieldT), NEW p
                 PROVE  ReadsTo(D(f \o rest, t, o, p), rest, t2, o2, m1 + m2)
    BY DEF Reads
  <2>2. f2 \o rest \in Seq(FieldT) /\ f1 \o (f2 \o rest) = f \o rest
    OBVIOUS
  <2>3. ReadsTo(D(f1 \o (f2 \o rest), t, o, p), f2 \o rest, t1, o1, m1)
    BY <1>1, <2>2 DEF Reads
  <2>4. PICK n1 \in 0..m1 :
          \E p1 : ReadsAll(n1, D(f1 \o (f2 \o rest), t, o, p), D(f2 \o rest, t1, o1, p1))
    BY <2>3 DEF ReadsTo
  <2>11. PICK p1 : ReadsAll(n1, D(f1 \o (f2 \o rest), t, o, p), D(f2 \o rest, t1, o1, p1))
    BY <2>4
  <2>5. ReadsTo(D(f2 \o rest, t1, o1, p1), rest, t2, o2, m2)
    BY <1>2 DEF Reads
  <2>6. PICK n2 \in 0..m2 :
          \E p2 : ReadsAll(n2, D(f2 \o rest, t1, o1, p1), D(rest, t2, o2, p2))
    BY <2>5 DEF ReadsTo
  <2>12. PICK p2 : ReadsAll(n2, D(f2 \o rest, t1, o1, p1), D(rest, t2, o2, p2))
    BY <2>6
  <2>7. n1 \in Nat /\ n2 \in Nat /\ n1 + n2 \in 0..m1 + m2
    OBVIOUS
  <2>8. ReadsAll(n1 + n2, D(f1 \o (f2 \o rest), t, o, p), D(rest, t2, o2, p2))
    BY <2>7, <2>11, <2>12, ReadsOn
  <2>9. ReadsAll(n1 + n2, D(f \o rest, t, o, p), D(rest, t2, o2, p2))
    BY <2>2, <2>8
  <2> HIDE DEF f
  <2>10. QED
    BY <2>7, <2>9 DEF ReadsTo
<1> HIDE DEF f
<1>6. QED
  BY <1>3, <1>4, <1>5 DEF Agree

(* No calls write nothing, and the parser has nothing to read.              *)
LEMMA AgreeNothing ==
  ASSUME NEW t, NEW o, NEW m \in Nat
  PROVE  Agree(t, o, <<>>, t, o, m)
<1>1. <<>> \in Seq(FieldT) /\ 0 \in 0..m
  OBVIOUS
<1>2. Writes(t, <<>>, t, <<>>)
  <2>1. SUFFICES ASSUME NEW out \in Seq(FieldT)
                 PROVE  WritesAll(<<>>, S(out, t), S(out \o <<>>, t))
    BY DEF Writes
  <2>2. out \o <<>> = out
    OBVIOUS
  <2>3. QED
    BY <2>2, NoStep
<1>3. Reads(t, o, <<>>, t, o, m)
  <2>1. SUFFICES ASSUME NEW rest \in Seq(FieldT), NEW p
                 PROVE  ReadsTo(D(<<>> \o rest, t, o, p), rest, t, o, m)
    BY DEF Reads
  <2>2. <<>> \o rest = rest
    OBVIOUS
  <2>3. ReadsAll(0, D(<<>> \o rest, t, o, p), D(rest, t, o, p))
    BY <2>2, NoStep
  <2>4. QED
    BY <1>1, <2>3 DEF ReadsTo
<1>4. QED
  BY <1>1, <1>2, <1>3 DEF Agree

(* Calls that are made on a condition.                                      *)
LEMMA AgreeWhen ==
  ASSUME NEW cond, NEW calls, NEW m \in Nat, NEW t, NEW o, NEW t2, NEW o2,
         cond => Agree(t, o, calls, t2, o2, m), ~cond => t2 = t /\ o2 = o
  PROVE  Agree(t, o, When(cond, calls), t2, o2, m)
<1>1. CASE cond
  BY <1>1 DEF When
<1>2. CASE ~cond
  BY <1>2, AgreeNothing DEF When
<1>3. QED
  BY <1>1, <1>2

(* A part of the document that is there on a condition, and a group of      *)
(* calls followed by one, as they are strung together.                      *)
Part(cond, calls, t, o, t2, o2, m) ==
  /\ cond => Agree(t, o, calls, t2, o2, m) /\ calls \in Seq(CallT)
  /\ ~cond => t2 = t /\ o2 = o

(* The next part may be absent.                                             *)
LEMMA AgreeThenWhen ==
  ASSUME NEW c1 \in Seq(CallT), NEW cond, NEW c2,
         NEW m1 \in Nat, NEW m2 \in Nat,
         NEW t, NEW o, NEW t1, NEW o1, NEW t2, NEW o2,
         Agree(t, o, c1, t1, o1, m1), Part(cond, c2, t1, o1, t2, o2, m2)
  PROVE  /\ Agree(t, o, c1 \o When(cond, c2), t2, o2, m1 + m2)
         /\ c1 \o When(cond, c2) \in Seq(CallT)
<1>1. When(cond, c2) \in Seq(CallT)
  BY DEF When, Part
<1>2. Agree(t1, o1, When(cond, c2), t2, o2, m2)
  BY AgreeWhen DEF Part
<1>3. QED
  BY <1>1, <1>2, AgreeOn

-----------------------------------------------------------------------------
(* The open elements.                                                       *)

Elems == {"document", "header", "lesscommon", "common", "strict", "uncommon", "preserve",
          "blockSize", "alignment", "selfContained", "valueMaxLength",
          "valuePartitionCapacity", "datatypeRepresentationMap", "dtd", "prefixes",
          "lexicalValues", "comments", "pis", "compression", "fragment", "schemaId",
          "byte", "pre-compress"}
NodeT == [elem : Elems, k : Nat]
Push(e, k, t) == <<[elem |-> e, k |-> k]>> \o t

(* The top of a stack, and the rule it is in.                               *)
LEMMA Pushed ==
  ASSUME NEW e \in Elems, NEW k \in Nat, NEW t \in Seq(NodeT)
  PROVE  /\ Push(e, k, t) \in Seq(NodeT) /\ Push(e, k, t) # <<>>
         /\ Head(Push(e, k, t)) = [elem |-> e, k |-> k]
         /\ Tail(Push(e, k, t)) = t
         /\ CurrentRule(Push(e, k, t)) = Rule(e, k)
<1> DEFINE n == [elem |-> e, k |-> k]
<1>1. n \in NodeT /\ n.elem = e /\ n.k = k
  BY DEF NodeT
<1> HIDE DEF n
<1>2. /\ <<n>> \o t \in Seq(NodeT) /\ <<n>> \o t # <<>>
      /\ Head(<<n>> \o t) = n /\ Tail(<<n>> \o t) = t
  BY <1>1
<1>3. Push(e, k, t) = <<n>> \o t
  BY DEF Push, n
<1>4. CurrentRule(Push(e, k, t)) = Rule(e, k)
  BY <1>1, <1>2, <1>3 DEF CurrentRule
<1>5. QED
  BY <1>2, <1>3, <1>4 DEF n

(* The first event of schemaId has a second level; no other is asked.       *)
LEMMA FirstPart ==
  ASSUME NEW e \in Elems, NEW k \in Nat, NEW t \in Seq(NodeT)
  PROVE  getBitsFirstPartCode(Push(e, k, t)) =
           getBitsNumber(Len(Rule(e, k)) - 1 + (IF e = "schemaId" /\ k = 0 THEN 1 ELSE 0))
<1>1. Head(Push(e, k, t)) = [elem |-> e, k |-> k] /\ CurrentRule(Push(e, k, t)) = Rule(e, k)
  BY Pushed
<1>2. Open("schemaId")[1] = [elem |-> "schemaId", k |-> 0]
  BY DEF Open
<1>3. [elem |-> e, k |-> k] = [elem |-> "schemaId", k |-> 0] <=> e = "schemaId" /\ k = 0
  <2> DEFINE n == [elem |-> e, k |-> k]
  <2>1. n.elem = e /\ n.k = k
    OBVIOUS
  <2>2. QED
    BY <2>1
<1>4. QED
  BY <1>1, <1>2, <1>3 DEF getBitsFirstPartCode

(* The grammar moves of the stack, by the event of the production.          *)
LEMMA Follows ==
  ASSUME NEW e \in Elems, NEW k \in Nat, NEW t \in Seq(NodeT), NEW n \in Nat
  PROVE  /\ Followed(Push(e, k, t), EE) = t
         /\ Followed(Push(e, k, t), Prod("ED", n)) = t
         /\ Followed(Push(e, k, t), Prod("CH", n)) = Push(e, n, t)
         /\ \A c \in Elems : Followed(Push(e, k, t), Prod(c, n)) = Push(c, 0, Push(e, n, t))
<1>1. Head(Push(e, k, t)) = [elem |-> e, k |-> k] /\ Tail(Push(e, k, t)) = t
  BY Pushed
<1>2. \A c : Prod(c, n).event = c /\ Prod(c, n).next = n
  BY DEF Prod
<1>3. [Head(Push(e, k, t)) EXCEPT !.k = n] = [elem |-> e, k |-> n]
  BY <1>1
<1>4. EE.event = "EE"
  BY DEF EE, Prod
<1>5. Followed(Push(e, k, t), EE) = t
  BY <1>1, <1>4 DEF Followed
<1>6. Followed(Push(e, k, t), Prod("ED", n)) = t
  <2> DEFINE p == Prod("ED", n)
  <2>1. p.event = "ED"
    BY <1>2
  <2> HIDE DEF p
  <2>2. Followed(Push(e, k, t), p) = t
    BY <1>1, <2>1 DEF Followed
  <2>3. QED
    BY <2>2 DEF p
<1>7. Followed(Push(e, k, t), Prod("CH", n)) = Push(e, n, t)
  BY <1>1, <1>2, <1>3 DEF Followed, Push
<1>8. ASSUME NEW c \in Elems
      PROVE  Followed(Push(e, k, t), Prod(c, n)) = Push(c, 0, Push(e, n, t))
  <2> DEFINE p == Prod(c, n)
             a == [elem |-> c, k |-> 0]
             b == [elem |-> e, k |-> n]
  <2>1. p.event = c /\ p.next = n /\ c \notin {"EE", "ED", "CH"}
    BY <1>2 DEF Elems
  <2>2. Followed(Push(e, k, t), p) =
          Open(c) \o <<[Head(Push(e, k, t)) EXCEPT !.k = n]>> \o Tail(Push(e, k, t))
    BY <2>1 DEF Followed
  <2>3. Followed(Push(e, k, t), p) = (<<a>> \o <<b>>) \o t
    BY <1>1, <1>3, <2>2 DEF Open
  <2>4. a \in NodeT /\ b \in NodeT
    BY DEF NodeT
  <2>6. Push(c, 0, Push(e, n, t)) = <<a>> \o (<<b>> \o t)
    BY DEF Push
  <2> HIDE DEF a, b
  <2>5. (<<a>> \o <<b>>) \o t = <<a>> \o (<<b>> \o t)
    BY <2>4
  <2>7. QED
    BY <2>3, <2>5, <2>6
<1>9. QED
  BY <1>5, <1>6, <1>7, <1>8

-----------------------------------------------------------------------------
(* One event.                                                               *)

Narrow(bits, v) == \/ bits = 0 /\ v = 0
                   \/ bits = 1 /\ v \in 0..1
                   \/ bits = 2 /\ v \in 0..3
                   \/ bits = 3 /\ v \in 0..7

(* A code that fits its width is written as one field that holds it, and as *)
(* none of width 0.                                                         *)
LEMMA Narrows ==
  ASSUME NEW bits, NEW v, Narrow(bits, v)
  PROVE  /\ bits \in Nat /\ v \in Nat
         /\ NBits(bits, v) \in Seq(FieldT)
         /\ bits = 0 => v = 0 /\ NBits(bits, v) = <<>>
         /\ bits # 0 => /\ Field("bits", bits, v) \in FieldT
                        /\ NBits(bits, v) = <<Field("bits", bits, v)>>
         /\ Ev(bits, v) \in CallT
<1>1. 2^0 = 1 /\ 2^1 = 2 /\ 2^2 = 4 /\ 2^3 = 8
  OBVIOUS
<1>2. bits \in Nat /\ v \in Nat /\ (bits = 0 => v = 0)
  BY DEF Narrow
<1>3. v % 2^bits = v
  <2>1. \A m \in Nat : v < m => v % m = v
    BY <1>2
  <2>2. CASE bits = 0
    BY <1>1, <2>1, <2>2 DEF Narrow
  <2>3. CASE bits = 1
    BY <1>1, <2>1, <2>3 DEF Narrow
  <2>4. CASE bits = 2
    BY <1>1, <2>1, <2>4 DEF Narrow
  <2>5. CASE bits = 3
    BY <1>1, <2>1, <2>5 DEF Narrow
  <2>6. QED
    BY <2>2, <2>3, <2>4, <2>5 DEF Narrow
<1>4. NBits(bits, v) = IF bits = 0 THEN <<>> ELSE <<Field("bits", bits, v)>>
  BY <1>3 DEF NBits
<1>10. v \in Int /\ bits \in Int
  BY <1>2
<1>5. v \in ValT /\ bits \in Int
  BY <1>10, Zenon DEF ValT
<1>6. Field("bits", bits, v) \in FieldT
  BY <1>5 DEF Field, FieldT
<1>7. <<Field("bits", bits, v)>> \in Seq(FieldT) /\ <<>> \in Seq(FieldT)
  BY <1>6
<1>8. Ev(bits, v) \in CallT
  BY <1>5 DEF Ev, CallT
<1>9. QED
  BY <1>2, <1>4, <1>6, <1>7, <1>8

(* The event code (bits, v) leads to the production q of a rule.            *)
Code(e, k, bits, v, q) ==
  /\ Narrow(bits, v)
  /\ getBitsNumber(Len(Rule(e, k)) - 1 + (IF e = "schemaId" /\ k = 0 THEN 1 ELSE 0)) = bits
  /\ Len(Rule(e, k)) \in Nat /\ v < Len(Rule(e, k))
  /\ Rule(e, k)[v + 1] = q

(* An event whose code is that of a production is written, and the          *)
(* production followed.                                                     *)
LEMMA EventWritten ==
  ASSUME NEW e \in Elems, NEW k \in Nat, NEW t \in Seq(NodeT), NEW bits, NEW v, NEW q,
         Code(e, k, bits, v, q)
  PROVE  Writes(Push(e, k, t), <<Ev(bits, v)>>, Followed(Push(e, k, t), q), NBits(bits, v))
<1> DEFINE st == Push(e, k, t)
<1>1. CurrentRule(st) = Rule(e, k)
  BY Pushed
<1> HIDE DEF st
<1>2. SUFFICES ASSUME NEW out \in Seq(FieldT)
               PROVE  WritesAll(<<Ev(bits, v)>>, S(out, st),
                                S(out \o NBits(bits, v), Followed(st, q)))
  BY DEF Writes, st
<1>3. v \in 0..Len(Rule(e, k)) - 1 /\ Rule(e, k)[v + 1] = q
  BY Narrows DEF Code
<1> DEFINE s == S(out, st)
           c == Ev(bits, v)
<1>4. s.out = out /\ s.stack = st /\ s.err = "EXIP_OK"
  BY DEF S
<1>5. c.call = "event" /\ c.bits = bits /\ c.val = v
  BY DEF Ev
<1>6. ASSUME NEW b, NEW u
      PROVE  [s EXCEPT !.out = @ \o b, !.stack = u] = S(out \o b, u)
  <2> DEFINE x == [s EXCEPT !.out = @ \o b, !.stack = u]
  <2>1. x = [s EXCEPT !.out = out \o b, !.stack = u]
    BY <1>4
  <2> HIDE DEF x
  <2> DEFINE w == out \o b
  <2> HIDE DEF w
  <2>2. [s EXCEPT !.out = w] = S(w, st)
    BY DEF S
  <2>3. [S(w, st) EXCEPT !.stack = u] = S(w, u)
    BY DEF S
  <2>4. QED
    BY <2>1, <2>2, <2>3 DEF x, w
<1> HIDE DEF s, c
<1>7. serializeCall(s, c) = serializeEvent(s, c)
  BY <1>4, <1>5 DEF serializeCall, Ok
<1>8. serializeEvent(s, c) = [s EXCEPT !.out = @ \o NBits(bits, v), !.stack = Followed(st, q)]
  BY <1>1, <1>3, <1>4, <1>5 DEF serializeEvent
<1>9. serializeCall(s, c) = S(out \o NBits(bits, v), Followed(st, q))
  BY <1>6, <1>7, <1>8
<1>10. WritesAll(<<c>>, s, S(out \o NBits(bits, v), Followed(st, q)))
  BY <1>9, OneWritten
<1>11. QED
  BY <1>10 DEF s, c

ReadsEvent(bits, v, rest, st, o, p, q) ==
  parseNext(D(NBits(bits, v) \o rest, st, o, p)) = DecodeEvent(D(rest, st, o, p), q)

(* The parser takes the same production from the field.                     *)
LEMMA EventRead ==
  ASSUME NEW e \in Elems, NEW k \in Nat, NEW t \in Seq(NodeT), NEW bits, NEW v, NEW q,
         Code(e, k, bits, v, q), NEW rest \in Seq(FieldT), NEW o, NEW p
  PROVE  ReadsEvent(bits, v, rest, Push(e, k, t), o, p, q)
<1> DEFINE st == Push(e, k, t)
           in == NBits(bits, v) \o rest
           d == D(in, st, o, p)
<1>1. CurrentRule(st) = Rule(e, k) /\ getBitsFirstPartCode(st) = bits /\ st # <<>>
  BY Pushed, FirstPart DEF Code
<1>2. v < Len(Rule(e, k)) /\ Rule(e, k)[v + 1] = q /\ Len(Rule(e, k)) \in Nat
  BY DEF Code
<1>3. Readable(in, bits) /\ ValueAt(in, bits) = v /\ Behind(in, bits) = rest
  <2>1. CASE bits = 0
    <3>1. v = 0 /\ in = rest
      BY <2>1, Narrows DEF Code
    <3>2. QED
      BY <2>1, <3>1 DEF Readable, ValueAt, Behind
  <2>2. CASE bits # 0
    <3> DEFINE f == Field("bits", bits, v)
    <3>1. f \in FieldT /\ in = <<f>> \o rest
      BY <2>2, Narrows DEF Code
    <3>2. f.kind = "bits" /\ f.width = bits /\ f.val = v
      BY DEF Field
    <3> HIDE DEF f, in
    <3>3. in # <<>> /\ Head(in) = f /\ Tail(in) = rest
      BY <3>1
    <3>4. Next1(in) = f
      BY <3>3 DEF Next1
    <3>5. QED
      BY <2>2, <3>2, <3>3, <3>4 DEF Readable, ValueAt, Behind
  <2>3. QED
    BY <2>1, <2>2
<1>4. d.in = in /\ d.stack = st /\ d.err = "EXIP_OK"
  BY DEF D
<1>5. [d EXCEPT !.in = rest] = D(rest, st, o, p)
  BY DEF D
<1> HIDE DEF d, in, st
<1>6. parseNext(d) = parseNextOption(d, bits)
  BY <1>1, <1>4 DEF parseNext, Ok
<1>9. v \in Nat
  BY Narrows DEF Code
<1>10. ~(v >= Len(Rule(e, k)))
  BY <1>2, <1>9
<1>7. parseNextOption(d, bits) = DecodeEvent([d EXCEPT !.in = rest], q)
  BY <1>1, <1>2, <1>3, <1>4, <1>10 DEF parseNextOption
<1>8. QED
  BY <1>5, <1>6, <1>7 DEF ReadsEvent, d, in, st

(* An event behind which the options found are `o2`.                        *)
Finds(e, k, t, q, o, o2) ==
  \A rest, p : \E p2 : DecodeEvent(D(rest, Push(e, k, t), o, p), q)
                          = D(rest, Followed(Push(e, k, t), q), o2, p2)

(* Both together, with what the production does to the options found.       *)
LEMMA EventAgrees ==
  ASSUME NEW e \in Elems, NEW k \in Nat, NEW t \in Seq(NodeT), NEW bits, NEW v, NEW q,
         Code(e, k, bits, v, q), NEW o, NEW o2,
         Finds(e, k, t, q, o, o2)
  PROVE  /\ Agree(Push(e, k, t), o, <<Ev(bits, v)>>, Followed(Push(e, k, t), q), o2, 1)
         /\ <<Ev(bits, v)>> \in Seq(CallT)
<1> DEFINE st == Push(e, k, t)
           f == NBits(bits, v)
           t2 == Followed(Push(e, k, t), q)
<1>1. f \in Seq(FieldT) /\ Ev(bits, v) \in CallT
  BY Narrows DEF Code
<1>2. Writes(st, <<Ev(bits, v)>>, t2, f)
  BY EventWritten
<1>3. Reads(st, o, f, t2, o2, 1)
  <2>1. SUFFICES ASSUME NEW rest \in Seq(FieldT), NEW p
                 PROVE  ReadsTo(D(f \o rest, st, o, p), rest, t2, o2, 1)
    BY DEF Reads
  <2>2. PICK p2 : DecodeEvent(D(rest, st, o, p), q) = D(rest, t2, o2, p2)
    BY DEF Finds
  <2>8. ReadsEvent(bits, v, rest, st, o, p, q)
    BY EventRead
  <2>3. parseNext(D(f \o rest, st, o, p)) = DecodeEvent(D(rest, st, o, p), q)
    BY <2>8 DEF ReadsEvent
  <2>4. parseNext(D(f \o rest, st, o, p)) = D(rest, t2, o2, p2)
    BY <2>2, <2>3
  <2> HIDE DEF f, st, t2
  <2>5. ReadsAll(1, D(f \o rest, st, o, p), D(rest, t2, o2, p2))
    BY <2>4, OneRead
  <2>6. 1 \in 0..1
    OBVIOUS
  <2>7. QED
    BY <2>5, <2>6 DEF ReadsTo
<1>4. <<Ev(bits, v)>> \in Seq(CallT)
  BY <1>1
<1> HIDE DEF f, st, t2
<1>5. Agree(st, o, <<Ev(bits, v)>>, t2, o2, 1)
  BY <1>1, <1>2, <1>3 DEF Agree
<1>6. QED
  BY <1>4, <1>5 DEF st, t2

(* The end of an element, and the start of one.                             *)
LEMMA EndAgrees ==
  ASSUME NEW e \in Elems, NEW k \in Nat, NEW t \in Seq(NodeT), NEW bits, NEW v, NEW q,
         q \in {EE, Prod("ED", 0)}, Code(e, k, bits, v, q), NEW o
  PROVE  /\ Agree(Push(e, k, t), o, <<Ev(bits, v)>>, t, o, 1)
         /\ <<Ev(bits, v)>> \in Seq(CallT)
<1>1. q.event \in {"EE", "ED"} /\ Followed(Push(e, k, t), q) = t
  <2>1. EE.event = "EE" /\ Prod("ED", 0).event = "ED"
    BY DEF EE, Prod
  <2>2. QED
    BY <2>1, Follows
<1>2. ASSUME NEW rest, NEW p
      PROVE  DecodeEvent(D(rest, Push(e, k, t), o, p), q) =
               D(rest, Followed(Push(e, k, t), q), o, p)
  <2>1. DecodeEvent(D(rest, Push(e, k, t), o, p), q) =
          [D(rest, Push(e, k, t), o, p) EXCEPT !.stack = Followed(@, q)]
    BY <1>1 DEF DecodeEvent
  <2>2. QED
    BY <2>1 DEF D
<1>3. Finds(e, k, t, q, o, o)
  BY <1>2 DEF Finds
<1>4. QED
  BY <1>1, <1>3, EventAgrees

(* An event that opens a child.                                             *)
LEMMA StartAgrees ==
  ASSUME NEW e \in Elems, NEW k \in Nat, NEW t \in Seq(NodeT), NEW bits, NEW v,
         NEW c \in Elems, NEW n \in Nat, Code(e, k, bits, v, Prod(c, n)), NEW o
  PROVE  /\ Agree(Push(e, k, t), o, <<Ev(bits, v)>>, Push(c, 0, Push(e, n, t)),
                  Flags(o, c), 1)
         /\ <<Ev(bits, v)>> \in Seq(CallT)
<1> DEFINE q == Prod(c, n)
           t2 == Push(c, 0, Push(e, n, t))
<1>5. Followed(Push(e, k, t), Prod(c, n)) = Push(c, 0, Push(e, n, t))
  BY Follows
<1>6. q.event = c
  BY DEF Prod
<1>7. c \notin {"EE", "ED", "CH", "any"}
  BY DEF Elems
<1>1. q.event = c /\ c \notin {"EE", "ED", "CH", "any"} /\ Followed(Push(e, k, t), q) = t2
  BY <1>5, <1>6, <1>7
<1> HIDE DEF q
<1>2. ASSUME NEW rest, NEW p
      PROVE  \E p2 : DecodeEvent(D(rest, Push(e, k, t), o, p), q) =
                       D(rest, Followed(Push(e, k, t), q), Flags(o, c), p2)
  <2> DEFINE d == D(rest, Push(e, k, t), o, p)
  <2>1. DecodeEvent(d, q) = [ops_startElement(d, c) EXCEPT !.stack = Followed(@, q)]
    BY <1>1 DEF DecodeEvent
  <2>2. DecodeEvent(d, q) = D(rest, Followed(Push(e, k, t), q), Flags(o, c),
                              IF c \in Remembered THEN c ELSE p)
    BY <2>1 DEF D, ops_startElement
  <2>3. QED
    BY <2>2
<1>3. Code(e, k, bits, v, q)
  BY DEF q
<1>8. Finds(e, k, t, q, o, Flags(o, c))
  BY <1>2 DEF Finds
<1>4. QED
  BY <1>1, <1>3, <1>8, EventAgrees

-----------------------------------------------------------------------------
(* The rules of the document and the widths of their event codes.           *)

(* Three bits hold eight values.                                            *)
LEMMA LargePowers ==
  ASSUME NEW r \in 3..30
  PROVE  2^r >= 8
<1>1. /\ 2^3 >= 8 /\ 2^4 >= 8 /\ 2^5 >= 8 /\ 2^6 >= 8 /\ 2^7 >= 8 /\ 2^8 >= 8 /\ 2^9 >= 8
      /\ 2^10 >= 8 /\ 2^11 >= 8 /\ 2^12 >= 8 /\ 2^13 >= 8 /\ 2^14 >= 8 /\ 2^15 >= 8
      /\ 2^16 >= 8 /\ 2^17 >= 8 /\ 2^18 >= 8 /\ 2^19 >= 8 /\ 2^20 >= 8 /\ 2^21 >= 8
      /\ 2^22 >= 8 /\ 2^23 >= 8 /\ 2^24 >= 8 /\ 2^25 >= 8 /\ 2^26 >= 8 /\ 2^27 >= 8
      /\ 2^28 >= 8 /\ 2^29 >= 8 /\ 2^30 >= 8
  OBVIOUS
<1>2. \/ r \in {3, 4, 5, 6, 7, 8, 9, 10, 11, 12, 13, 14, 15, 16}
      \/ r \in {17, 18, 19, 20, 21, 22, 23, 24, 25, 26, 27, 28, 29, 30}
  OBVIOUS
<1>3. QED
  BY <1>1, <1>2, Zenon

(* The width of a code, for rules as short as those of the options          *)
(* document.                                                                *)
LEMMA SmallWidths ==
  ASSUME NEW n \in 0..7
  PROVE  getBitsNumber(n) = IF n = 0 THEN 0 ELSE IF n = 1 THEN 1 ELSE IF n <= 3 THEN 2 ELSE 3
<1>1. 2^0 = 1 /\ 2^1 = 2 /\ 2^2 = 4 /\ 2^3 = 8
  OBVIOUS
<1> DEFINE IsLog(r) == 2^r <= n /\ n < 2^(r+1)
<1>2. \A r \in 0..30 : r >= 3 => ~IsLog(r)
  <2>1. SUFFICES ASSUME NEW r \in 0..30, r >= 3 PROVE ~(2^r <= n)
    OBVIOUS
  <2>2. r \in 3..30
    BY <2>1
  <2>3. 2^r >= 8
    BY <2>2, LargePowers
  <2>4. 2^r \in Int
    BY <2>2
  <2>5. QED
    BY <2>3, <2>4
<1>3. \A r \in 0..30 : r >= 3 \/ r = 0 \/ r = 1 \/ r = 2
  OBVIOUS
<1>4. /\ IsLog(0) <=> 1 <= n /\ n < 2
      /\ IsLog(1) <=> 2 <= n /\ n < 4
      /\ IsLog(2) <=> 4 <= n /\ n < 8
  <2>1. 0+1 = 1 /\ 1+1 = 2 /\ 2+1 = 3
    OBVIOUS
  <2>2. QED
    BY <1>1, <2>1, Zenon
<1>5. log2INT(n) = CHOOSE r \in 0..30 : IsLog(r)
  BY DEF log2INT
<1> HIDE DEF IsLog
<1>6. ASSUME n # 0
      PROVE  log2INT(n) = IF n = 1 THEN 0 ELSE IF n <= 3 THEN 1 ELSE 2
  <2>1. CASE n = 1
    <3>1. IsLog(0) /\ ~IsLog(1) /\ ~IsLog(2)
      BY <1>4, <2>1
    <3>2. 0 \in 0..30 /\ \A r \in 0..30 : IsLog(r) => r = 0
      BY <1>2, <1>3, <3>1
    <3>3. QED
      BY <1>5, <2>1, <3>1, <3>2
  <2>2. CASE n = 2 \/ n = 3
    <3>1. IsLog(1) /\ ~IsLog(0) /\ ~IsLog(2)
      BY <1>4, <2>2
    <3>2. 1 \in 0..30 /\ \A r \in 0..30 : IsLog(r) => r = 1
      BY <1>2, <1>3, <3>1
    <3>3. QED
      BY <1>5, <2>2, <3>1, <3>2
  <2>3. CASE n >= 4
    <3>1. IsLog(2) /\ ~IsLog(0) /\ ~IsLog(1)
      BY <1>4, <2>3
    <3>2. 2 \in 0..30 /\ \A r \in 0..30 : IsLog(r) => r = 2
      BY <1>2, <1>3, <3>1
    <3>3. QED
      BY <1>5, <2>3, <3>1, <3>2
  <2>4. QED
    BY <1>6, <2>1, <2>2, <2>3
<1>7. QED
  BY <1>6 DEF getBitsNumber

(* A rule of optional children that ends with EE.                           *)
LEMMA OptionalRule ==
  ASSUME NEW names \in Seq(Elems), NEW k \in 0..Len(names), NEW R,
         R = Optional(names, k) \o <<EE>>
  PROVE  /\ Len(R) = Len(names) - k + 1
         /\ \A i \in k+1..Len(names) : R[i-k] = Prod(names[i], i)
         /\ R[Len(names) - k + 1] = EE
<1> DEFINE O == Optional(names, k)
           n == Len(names) - k
<1>1. n \in Nat
  OBVIOUS
<1>2. O = [i \in 1..n |-> Prod(names[k+i], k+i)]
  BY DEF Optional
<1> HIDE DEF O, n
<1>3. O \in Seq({O[i] : i \in 1..n}) /\ Len(O) = n
  <2> DEFINE U == {O[i] : i \in 1..n}
  <2>1. \A i \in 1..n : O[i] \in U
    OBVIOUS
  <2> HIDE DEF U
  <2>2. O \in [1..n -> U]
    BY <1>2, <2>1
  <2>3. O \in Seq(U) /\ Len(O) = n
    BY <1>1, <2>2
  <2>4. QED
    BY <2>3, Zenon DEF U
<1> DEFINE T == {O[i] : i \in 1..n} \cup {EE}
<1>4. O \in Seq(T) /\ <<EE>> \in Seq(T)
  BY <1>3
<1>5. /\ Len(O \o <<EE>>) = n + 1
      /\ \A i \in 1..n : (O \o <<EE>>)[i] = O[i]
      /\ (O \o <<EE>>)[n+1] = EE
  <2> HIDE DEF T
  <2>1. QED
    BY <1>1, <1>3, <1>4
<1>6. R = O \o <<EE>>
  BY DEF O
<1>7. ASSUME NEW i \in k+1..Len(names)
      PROVE  R[i-k] = Prod(names[i], i)
  <2>1. i-k \in 1..n /\ k+(i-k) = i
    BY DEF n
  <2>2. QED
    BY <1>2, <1>5, <1>6, <2>1
<1>8. QED
  BY <1>5, <1>6, <1>7 DEF n

(* The widths of the codes of up to eight productions.                      *)
W(n) == IF n = 0 THEN 0 ELSE IF n = 1 THEN 1 ELSE IF n <= 3 THEN 2 ELSE 3

(* A place in a rule, in the width of the rule's length, is a code.         *)
LEMMA CodeOf ==
  ASSUME NEW e \in Elems, NEW k \in Nat, NEW n \in 0..7, NEW v \in 0..n, NEW q,
         Len(Rule(e, k)) = n + 1, Rule(e, k)[v+1] = q, e # "schemaId" \/ k # 0
  PROVE  Code(e, k, W(n), v, q)
<1>1. getBitsNumber(n) = W(n)
  BY SmallWidths DEF W
<1>2. Narrow(W(n), v)
  <2>1. n = 0 \/ n = 1 \/ n \in 2..3 \/ n \in 4..7
    OBVIOUS
  <2>2. CASE n = 0
    BY <2>2 DEF Narrow, W
  <2>3. CASE n = 1
    BY <2>3 DEF Narrow, W
  <2>4. CASE n \in 2..3
    <3>1. W(n) = 2
      BY <2>4 DEF W
    <3>2. v \in 0..3
      BY <2>4
    <3>3. QED
      BY <3>1, <3>2 DEF Narrow
  <2>5. CASE n \in 4..7
    <3>1. W(n) = 3
      BY <2>5 DEF W
    <3>2. v \in 0..7
      BY <2>5
    <3>3. QED
      BY <3>1, <3>2 DEF Narrow
  <2>6. QED
    BY <2>1, <2>2, <2>3, <2>4, <2>5
<1>3. Len(Rule(e, k)) - 1 + (IF e = "schemaId" /\ k = 0 THEN 1 ELSE 0) = n
  BY SMT
<1>4. Len(Rule(e, k)) \in Nat /\ v < Len(Rule(e, k))
  BY SMT
<1>5. QED
  BY <1>1, <1>2, <1>3, <1>4 DEF Code

(* In an element with optional children: the codes of those behind the      *)
(* k-th, and of the end.                                                    *)
LEMMA ParentCodes ==
  ASSUME NEW e \in Elems, e # "schemaId", NEW names \in Seq(Elems), Len(names) <= 6,
         NEW k \in 0..Len(names), Rule(e, k) = Optional(names, k) \o <<EE>>
  PROVE  /\ \A i \in k+1..Len(names) :
              Code(e, k, W(Len(names) - k), i - k - 1, Prod(names[i], i))
         /\ Code(e, k, W(Len(names) - k), Len(names) - k, EE)
<1> DEFINE R == Rule(e, k)
           n == Len(names) - k
<1>1. n \in 0..7 /\ n = Len(names) - k /\ k \in Nat
  OBVIOUS
<1>2. /\ Len(R) = n + 1
      /\ \A i \in k+1..Len(names) : R[i-k] = Prod(names[i], i)
      /\ R[n + 1] = EE
  BY OptionalRule
<1>3. ASSUME NEW i \in k+1..Len(names)
      PROVE  Code(e, k, W(n), i - k - 1, Prod(names[i], i))
  <2>1. i - k - 1 \in 0..n /\ (i - k - 1) + 1 = i - k
    OBVIOUS
  <2>2. R[(i - k - 1) + 1] = Prod(names[i], i)
    BY <1>2, <2>1
  <2> DEFINE v == i - k - 1
  <2> HIDE DEF n
  <2>4. v \in 0..n /\ R[v + 1] = Prod(names[i], i)
    BY <2>1, <2>2
  <2> HIDE DEF v
  <2>3. Code(e, k, W(n), v, Prod(names[i], i))
    BY <1>1, <1>2, <2>4, CodeOf
  <2>5. QED
    BY <2>3 DEF v
<1>4. Code(e, k, W(n), n, EE)
  <2> HIDE DEF n
  <2>1. n \in 0..n
    BY <1>1
  <2>2. QED
    BY <1>1, <1>2, <2>1, CodeOf
<1>5. QED
  BY <1>3, <1>4

(* The names of the children.                                               *)
LEMMA ChildNames ==
  /\ Children("header") = <<"lesscommon", "common", "strict">>
  /\ Children("lesscommon") = <<"uncommon", "preserve", "blockSize">>
  /\ Children("uncommon") = <<"alignment", "selfContained", "valueMaxLength",
                              "valuePartitionCapacity", "datatypeRepresentationMap">>
  /\ Children("preserve") = <<"dtd", "prefixes", "lexicalValues", "comments", "pis">>
  /\ Children("common") = <<"compression", "fragment", "schemaId">>
  /\ \A e : e \notin {"header", "lesscommon", "uncommon", "preserve", "common"} =>
       Children(e) = <<>>
BY DEF Children

(* Short tuples are sequences.                                              *)
LEMMA ShortSequences ==
  ASSUME NEW E
  PROVE  /\ \A a, b, c \in E : <<a, b, c>> \in Seq(E) /\ Len(<<a, b, c>>) = 3
         /\ \A a, b, c, d, e \in E :
              <<a, b, c, d, e>> \in Seq(E) /\ Len(<<a, b, c, d, e>>) = 5
OBVIOUS

(* How many children the elements of the document have.                     *)
LEMMA ChildTypes ==
  /\ \A e \in {"header", "lesscommon", "common"} :
       Children(e) \in Seq(Elems) /\ Len(Children(e)) = 3
  /\ \A e \in {"preserve", "uncommon"} :
       Children(e) \in Seq(Elems) /\ Len(Children(e)) = 5
<1>1. /\ "lesscommon" \in Elems /\ "common" \in Elems /\ "strict" \in Elems
      /\ "uncommon" \in Elems /\ "preserve" \in Elems /\ "blockSize" \in Elems
      /\ "compression" \in Elems /\ "fragment" \in Elems /\ "schemaId" \in Elems
  BY DEF Elems
<1>2. /\ "alignment" \in Elems /\ "selfContained" \in Elems /\ "valueMaxLength" \in Elems
      /\ "valuePartitionCapacity" \in Elems /\ "datatypeRepresentationMap" \in Elems
      /\ "dtd" \in Elems /\ "prefixes" \in Elems /\ "lexicalValues" \in Elems
      /\ "comments" \in Elems /\ "pis" \in Elems
  BY DEF Elems
<1>3. Children("header") \in Seq(Elems) /\ Len(Children("header")) = 3
  <2> DEFINE s == <<"lesscommon", "common", "strict">>
  <2>1. s \in Seq(Elems) /\ Len(s) = 3
    BY <1>1, ShortSequences, Zenon
  <2>2. QED
    BY <2>1, ChildNames
<1>4. Children("lesscommon") \in Seq(Elems) /\ Len(Children("lesscommon")) = 3
  <2> DEFINE s == <<"uncommon", "preserve", "blockSize">>
  <2>1. s \in Seq(Elems) /\ Len(s) = 3
    BY <1>1, ShortSequences, Zenon
  <2>2. QED
    BY <2>1, ChildNames
<1>5. Children("common") \in Seq(Elems) /\ Len(Children("common")) = 3
  <2> DEFINE s == <<"compression", "fragment", "schemaId">>
  <2>1. s \in Seq(Elems) /\ Len(s) = 3
    BY <1>1, ShortSequences, Zenon
  <2>2. QED
    BY <2>1, ChildNames
<1>6. Children("preserve") \in Seq(Elems) /\ Len(Children("preserve")) = 5
  <2> DEFINE s == <<"dtd", "prefixes", "lexicalValues", "comments", "pis">>
  <2>1. s \in Seq(Elems) /\ Len(s) = 5
    BY <1>2, ShortSequences, Zenon
  <2>2. QED
    BY <2>1, ChildNames
<1>7. Children("uncommon") \in Seq(Elems) /\ Len(Children("uncommon")) = 5
  <2> DEFINE s == <<"alignment", "selfContained", "valueMaxLength",
                              "valuePartitionCapacity", "datatypeRepresentationMap">>
  <2>1. s \in Seq(Elems) /\ Len(s) = 5
    BY <1>2, ShortSequences, Zenon
  <2>2. QED
    BY <2>1, ChildNames
<1>8. QED
  BY <1>3, <1>4, <1>5, <1>6, <1>7

(* Elements without content.                                                *)
Empties == {"strict", "selfContained", "dtd", "prefixes", "lexicalValues", "comments", "pis",
            "compression", "fragment", "byte", "pre-compress"}

(* The rules that are not special.                                          *)
LEMMA OtherRules ==
  ASSUME NEW e, NEW k,
         e \notin {"document", "alignment", "valueMaxLength", "valuePartitionCapacity",
                   "blockSize", "schemaId"},
         e # "uncommon" \/ (k # 0 /\ k # 5)
  PROVE  Rule(e, k) = Optional(Children(e), k) \o <<EE>>
BY DEF Rule

(* An empty element ends with no bits at all.                               *)
LEMMA EmptyCodes ==
  ASSUME NEW e \in Empties
  PROVE  Code(e, 0, 0, 0, EE)
<1>1. e \in Elems /\ e # "schemaId"
  BY DEF Empties, Elems
<1>2. Rule(e, 0) = Optional(Children(e), 0) \o <<EE>>
  BY OtherRules DEF Empties
<1>3. Children(e) = <<>>
  BY ChildNames DEF Empties
<1> DEFINE names == <<>>
<1>4. names \in Seq(Elems) /\ Len(names) = 0 /\ Len(names) <= 6 /\ 0 \in 0..Len(names)
      /\ 0 - 0 = 0
  OBVIOUS
<1>5. Rule(e, 0) = Optional(names, 0) \o <<EE>>
  BY <1>2, <1>3
<1> HIDE DEF names
<1>6. Code(e, 0, W(Len(names) - 0), Len(names) - 0, EE)
  BY <1>1, <1>4, <1>5, ParentCodes
<1>7. W(0) = 0
  BY DEF W
<1>8. QED
  BY <1>4, <1>6, <1>7

(* Elements with a value; schemaId has nil in its second level.             *)
Values == {"valueMaxLength", "valuePartitionCapacity", "blockSize"}

(* The codes in an element with a value; one bit tells the value of         *)
(* schemaId from its attribute.                                             *)
LEMMA ValueCodes ==
  /\ \A e \in Values : Code(e, 0, 0, 0, Prod("CH", 1))
  /\ \A e \in Values \cup {"schemaId"} : Code(e, 1, 0, 0, EE)
  /\ Code("schemaId", 0, 1, 0, Prod("CH", 1))
<1>1. ASSUME NEW e \in Values \cup {"schemaId"}
      PROVE  Rule(e, 0) = <<Prod("CH", 1)>> /\ Rule(e, 1) = <<EE>> /\ e \in Elems
  BY DEF Rule, Values, Elems
<1>2. W(0) = 0 /\ W(1) = 1 /\ 0 \in 0..0 /\ 0 \in 0..7
  BY DEF W
<1>3. \A q : Len(<<q>>) = 0 + 1 /\ <<q>>[0+1] = q
  OBVIOUS
<1>4. ASSUME NEW e \in Values
      PROVE  Code(e, 0, 0, 0, Prod("CH", 1))
  <2>1. e # "schemaId"
    BY DEF Values
  <2>2. Len(Rule(e, 0)) = 0 + 1 /\ Rule(e, 0)[0+1] = Prod("CH", 1) /\ e \in Elems
    BY <1>1, <1>3
  <2>3. QED
    BY <1>2, <2>1, <2>2, CodeOf
<1>5. ASSUME NEW e \in Values \cup {"schemaId"}
      PROVE  Code(e, 1, 0, 0, EE)
  <2>2. Len(Rule(e, 1)) = 0 + 1 /\ Rule(e, 1)[0+1] = EE /\ e \in Elems /\ 1 # 0
    BY <1>1, <1>3
  <2>3. QED
    BY <1>2, <2>2, CodeOf
<1>6. Code("schemaId", 0, 1, 0, Prod("CH", 1))
  <2>1. getBitsNumber(1) = 1
    BY SmallWidths
  <2>2. Rule("schemaId", 0) = <<Prod("CH", 1)>>
    BY <1>1
  <2>3. Len(Rule("schemaId", 0)) = 1 /\ Rule("schemaId", 0)[0+1] = Prod("CH", 1)
    BY <2>2
  <2>4. Len(Rule("schemaId", 0)) - 1 + (IF "schemaId" = "schemaId" /\ 0 = 0 THEN 1 ELSE 0) = 1
    BY <2>3
  <2>5. Narrow(1, 0) /\ 0 < 1 /\ 1 \in Nat
    BY DEF Narrow
  <2>6. QED
    BY <2>1, <2>3, <2>4, <2>5 DEF Code
<1>7. QED
  BY <1>4, <1>5, <1>6

(* The codes in <alignment>.                                                *)
LEMMA AlignmentCodes ==
  /\ Code("alignment", 0, 1, 0, Prod("byte", 1))
  /\ Code("alignment", 0, 1, 1, Prod("pre-compress", 1))
  /\ Code("alignment", 1, 0, 0, EE)
<1>1. /\ Rule("alignment", 0) = <<Prod("byte", 1), Prod("pre-compress", 1)>>
      /\ Rule("alignment", 1) = <<EE>> /\ "alignment" \in Elems
  BY DEF Rule, Elems
<1>2. W(0) = 0 /\ W(1) = 1 /\ 0 \in 0..0 /\ 0 \in 0..1 /\ 1 \in 0..1 /\ 0 \in 0..7 /\ 1 \in 0..7
  BY DEF W
<1>3. /\ Len(Rule("alignment", 0)) = 1+1
      /\ Rule("alignment", 0)[0+1] = Prod("byte", 1)
      /\ Rule("alignment", 0)[1+1] = Prod("pre-compress", 1)
      /\ Len(Rule("alignment", 1)) = 0+1
      /\ Rule("alignment", 1)[0+1] = EE
  BY <1>1
<1>4. QED
  BY <1>1, <1>2, <1>3, CodeOf

(* The codes outside the root element.                                      *)
LEMMA DocumentCodes ==
  /\ Code("document", 0, 1, 0, Prod("header", 1))
  /\ Code("document", 1, 0, 0, Prod("ED", 0))
<1>1. /\ Rule("document", 0) = <<Prod("header", 1), Prod("any", 0)>>
      /\ Rule("document", 1) = <<Prod("ED", 0)>> /\ "document" \in Elems
  BY DEF Rule, Elems
<1>2. W(0) = 0 /\ W(1) = 1 /\ 0 \in 0..0 /\ 0 \in 0..1 /\ 0 \in 0..7 /\ 1 \in 0..7
  BY DEF W
<1>3. /\ Len(Rule("document", 0)) = 1+1
      /\ Rule("document", 0)[0+1] = Prod("header", 1)
      /\ Len(Rule("document", 1)) = 0+1
      /\ Rule("document", 1)[0+1] = Prod("ED", 0)
  BY <1>1
<1>4. QED
  BY <1>1, <1>2, <1>3, CodeOf

(* Elements with optional children, each behind the last one written.       *)
LEMMA ChildCodes ==
  /\ \A e \in {"header", "lesscommon", "common"}, k \in 0..3 :
       /\ \A i \in k+1..3 : Code(e, k, W(3-k), i-k-1, Prod(Children(e)[i], i))
       /\ Code(e, k, W(3-k), 3-k, EE)
  /\ \A k \in 0..5 :
       /\ \A i \in k+1..5 : Code("preserve", k, W(5-k), i-k-1, Prod(Children("preserve")[i], i))
       /\ Code("preserve", k, W(5-k), 5-k, EE)
  /\ \A k \in 1..4 :
       /\ \A i \in k+1..5 : Code("uncommon", k, W(5-k), i-k-1, Prod(Children("uncommon")[i], i))
       /\ Code("uncommon", k, W(5-k), 5-k, EE)
<1>1. ASSUME NEW e \in {"header", "lesscommon", "common"}, NEW k \in 0..3
      PROVE  /\ \A i \in k+1..3 : Code(e, k, W(3-k), i-k-1, Prod(Children(e)[i], i))
             /\ Code(e, k, W(3-k), 3-k, EE)
  <2> DEFINE names == Children(e)
  <2>1. names \in Seq(Elems) /\ Len(names) = 3
    BY ChildTypes
  <2>2. e \in Elems /\ e # "schemaId"
    BY DEF Elems
  <2>3. Rule(e, k) = Optional(names, k) \o <<EE>>
    BY OtherRules
  <2> HIDE DEF names
  <2>4. Len(names) <= 6 /\ k \in 0..Len(names)
    BY <2>1
  <2>5. /\ \A i \in k+1..Len(names) :
              Code(e, k, W(Len(names) - k), i - k - 1, Prod(names[i], i))
        /\ Code(e, k, W(Len(names) - k), Len(names) - k, EE)
    BY <2>1, <2>2, <2>3, <2>4, ParentCodes
  <2>6. QED
    BY <2>1, <2>5, Zenon DEF names
<1>2. ASSUME NEW e \in {"preserve", "uncommon"}, NEW k \in 0..5,
             e = "uncommon" => k # 0 /\ k # 5
      PROVE  /\ \A i \in k+1..5 : Code(e, k, W(5-k), i-k-1, Prod(Children(e)[i], i))
             /\ Code(e, k, W(5-k), 5-k, EE)
  <2> DEFINE names == Children(e)
  <2>1. names \in Seq(Elems) /\ Len(names) = 5
    BY ChildTypes
  <2>2. e \in Elems /\ e # "schemaId"
    BY DEF Elems
  <2>3. Rule(e, k) = Optional(names, k) \o <<EE>>
    BY <1>2, OtherRules
  <2> HIDE DEF names
  <2>4. Len(names) <= 6 /\ k \in 0..Len(names)
    BY <2>1
  <2>5. /\ \A i \in k+1..Len(names) :
              Code(e, k, W(Len(names) - k), i - k - 1, Prod(names[i], i))
        /\ Code(e, k, W(Len(names) - k), Len(names) - k, EE)
    BY <2>1, <2>2, <2>3, <2>4, ParentCodes
  <2>6. QED
    BY <2>1, <2>5, Zenon DEF names
<1>3. \A k \in 1..4 : k \in 0..5 /\ k # 0 /\ k # 5
  OBVIOUS
<1>4. "preserve" # "uncommon"
  OBVIOUS
<1>5. QED
  BY <1>1, <1>2, <1>3, <1>4, Zenon

(* Before the first child of uncommon there is a wildcard.                  *)
LEMMA FirstUncommonCodes ==
  /\ \A i \in 1..5 : Code("uncommon", 0, 3, i-1, Prod(Children("uncommon")[i], i))
  /\ Code("uncommon", 0, 3, 6, EE)
<1> DEFINE names == Children("uncommon")
           O == Optional(names, 0)
           R == Rule("uncommon", 0)
<1>1. names \in Seq(Elems) /\ Len(names) = 5
  BY ChildTypes
<1>2. R = O \o <<Prod("any", 0), EE>>
  BY DEF Rule
<1>3. O = [i \in 1..Len(names) - 0 |-> Prod(names[0 + i], 0 + i)]
  BY DEF Optional
<1> HIDE DEF names, O
<1>4. O = [i \in 1..5 |-> Prod(names[i], i)]
  BY <1>1, <1>3
<1> DEFINE T == {O[i] : i \in 1..5} \cup {Prod("any", 0), EE}
<1>5. \A i \in 1..5 : O[i] \in T
  OBVIOUS
<1>6. Prod("any", 0) \in T /\ EE \in T
  OBVIOUS
<1> HIDE DEF T
<1>7. O \in [1..5 -> T]
  BY <1>4, <1>5
<1>8. O \in Seq(T) /\ Len(O) = 5
  <2> DEFINE n == 5
  <2>1. n \in Nat /\ O \in [1..n -> T]
    BY <1>7
  <2> HIDE DEF n
  <2>2. O \in Seq(T) /\ Len(O) = n
    BY <2>1
  <2>3. QED
    BY <2>2 DEF n
<1>9. /\ Len(O \o <<Prod("any", 0), EE>>) = 7
      /\ \A i \in 1..5 : (O \o <<Prod("any", 0), EE>>)[i] = O[i]
      /\ (O \o <<Prod("any", 0), EE>>)[7] = EE
  <2> DEFINE a == Prod("any", 0)
             b == EE
             y == <<a, b>>
  <2>1. a \in T /\ b \in T
    BY <1>6
  <2> HIDE DEF a, b
  <2>2. y \in Seq(T) /\ Len(y) = 2 /\ y[2] = b
    BY <2>1
  <2> HIDE DEF y
  <2>3. /\ Len(O \o y) = 7
        /\ \A i \in 1..5 : (O \o y)[i] = O[i]
        /\ (O \o y)[7] = y[2]
    <3>1. /\ Len(O \o y) = Len(O) + Len(y)
          /\ \A i \in 1..Len(O) + Len(y) :
               (O \o y)[i] = IF i <= Len(O) THEN O[i] ELSE y[i - Len(O)]
      BY <1>8, <2>2, ConcatProperties
    <3>2. /\ Len(O \o y) = 5 + 2
          /\ \A i \in 1..5 + 2 : (O \o y)[i] = IF i <= 5 THEN O[i] ELSE y[i - 5]
      BY <1>8, <2>2, <3>1
    <3>3. QED
      BY <3>2
  <2>4. QED
    BY <2>2, <2>3 DEF a, b, y
<1>10. Len(R) = 6 + 1 /\ R[6+1] = EE /\ \A i \in 1..5 : R[i] = Prod(names[i], i)
  BY <1>2, <1>4, <1>9
<1>11. W(6) = 3 /\ 6 \in 0..7 /\ 6 \in 0..6 /\ "uncommon" \in Elems /\ "uncommon" # "schemaId"
  BY DEF W, Elems
<1>12. Code("uncommon", 0, 3, 6, EE)
  BY <1>10, <1>11, CodeOf
<1>13. ASSUME NEW i \in 1..5
       PROVE  Code("uncommon", 0, 3, i-1, Prod(names[i], i))
  <2> DEFINE v == i - 1
  <2>1. v \in 0..6 /\ R[v+1] = Prod(names[i], i)
    BY <1>10
  <2> HIDE DEF v
  <2>2. Code("uncommon", 0, 3, v, Prod(names[i], i))
    BY <1>10, <1>11, <2>1, CodeOf
  <2>3. QED
    BY <2>2 DEF v
<1>14. QED
  BY <1>12, <1>13 DEF names

-----------------------------------------------------------------------------
(* Elements.                                                                *)

(* Tuples from their members.                                               *)
LEMMA Joining ==
  ASSUME NEW T, NEW x \in T, NEW y \in T, NEW z \in T
  PROVE  <<x>> \o <<y>> = <<x, y>> /\ (<<x>> \o <<y>>) \o <<z>> = <<x, y, z>>
<1> DEFINE a == <<x>>
           b == <<y>>
           c == <<z>>
           xy == <<x, y>>
           xyz == <<x, y, z>>
<1>1. /\ a \in Seq(T) /\ Len(a) = 1 /\ a[1] = x
      /\ b \in Seq(T) /\ Len(b) = 1 /\ b[1] = y
      /\ c \in Seq(T) /\ Len(c) = 1 /\ c[1] = z
  OBVIOUS
<1>2. xy \in Seq(T) /\ Len(xy) = 2 /\ xy[1] = x /\ xy[2] = y
  OBVIOUS
<1>3. xyz \in Seq(T) /\ Len(xyz) = 3 /\ xyz[1] = x /\ xyz[2] = y /\ xyz[3] = z
  OBVIOUS
<1> HIDE DEF a, b, c, xy, xyz
<1>4. a \o b = xy
  <2>4. /\ a \o b \in Seq(T) /\ Len(a \o b) = Len(a) + Len(b)
        /\ \A i \in 1..Len(a) + Len(b) :
             (a \o b)[i] = IF i <= Len(a) THEN a[i] ELSE b[i - Len(a)]
    BY <1>1, ConcatProperties
  <2>5. /\ a \o b \in Seq(T) /\ Len(a \o b) = 2
        /\ \A i \in 1..2 : (a \o b)[i] = IF i <= 1 THEN a[i] ELSE b[i - 1]
    BY <1>1, <2>4
  <2>1. a \o b \in Seq(T) /\ Len(a \o b) = 2 /\ (a \o b)[1] = x /\ (a \o b)[2] = y
    BY <1>1, <2>5
  <2>2. \A i \in 1..2 : (a \o b)[i] = xy[i]
    BY <1>2, <2>1
  <2>3. QED
    BY <1>2, <2>1, <2>2, SeqEqual
<1>5. xy \o c = xyz
  <2>1. /\ xy \o c \in Seq(T) /\ Len(xy \o c) = 3
        /\ (xy \o c)[1] = x /\ (xy \o c)[2] = y /\ (xy \o c)[3] = z
    <3>1. /\ xy \o c \in Seq(T) /\ Len(xy \o c) = Len(xy) + Len(c)
          /\ \A i \in 1..Len(xy) + Len(c) :
               (xy \o c)[i] = IF i <= Len(xy) THEN xy[i] ELSE c[i - Len(xy)]
      BY <1>1, <1>2, ConcatProperties
    <3>2. /\ xy \o c \in Seq(T) /\ Len(xy \o c) = 3
          /\ \A i \in 1..3 : (xy \o c)[i] = IF i <= 2 THEN xy[i] ELSE c[i - 2]
      BY <1>1, <1>2, <3>1
    <3>3. QED
      BY <1>1, <1>2, <3>2
  <2>2. \A i \in 1..3 : (xy \o c)[i] = xyz[i]
    BY <1>3, <2>1
  <2>3. QED
    BY <1>3, <2>1, <2>2, SeqEqual
<1>6. QED
  BY <1>4, <1>5 DEF a, b, c, xy, xyz

(* An empty child sets its flag on both sides.                              *)
LEMMA EmptyChild ==
  ASSUME NEW e \in Elems, NEW k \in Nat, NEW t \in Seq(NodeT), NEW bits, NEW v,
         NEW c \in Empties, NEW i \in Nat, Code(e, k, bits, v, Prod(c, i)), NEW o
  PROVE  /\ Agree(Push(e, k, t), o, EmptyElement(bits, v), Push(e, i, t), Flags(o, c), 2)
         /\ EmptyElement(bits, v) \in Seq(CallT)
<1> DEFINE a == <<Ev(bits, v)>>
           b == <<Ev(0, 0)>>
           st == Push(e, k, t)
           t2 == Push(e, i, t)
           t1 == Push(c, 0, t2)
<1>1. c \in Elems
  BY DEF Empties, Elems
<1>2. Agree(st, o, a, t1, Flags(o, c), 1) /\ a \in Seq(CallT)
  BY <1>1, StartAgrees
<1>3. Agree(t1, Flags(o, c), b, t2, Flags(o, c), 1) /\ b \in Seq(CallT)
  <2>1. Push(e, i, t) \in Seq(NodeT)
    BY Pushed
  <2>2. Code(c, 0, 0, 0, EE)
    BY EmptyCodes
  <2>3. 0 \in Nat
    OBVIOUS
  <2>4. EE \in {EE, Prod("ED", 0)}
    OBVIOUS
  <2>5. QED
    BY <1>1, <2>1, <2>2, <2>3, <2>4, EndAgrees
<1>4. EmptyElement(bits, v) = a \o b
  <2>1. EmptyElement(bits, v) = <<Ev(bits, v), Ev(0, 0)>>
    BY DEF EmptyElement, EndEv
  <2>2. Ev(bits, v) \in CallT /\ Ev(0, 0) \in CallT
    <3>1. Code(c, 0, 0, 0, EE)
      BY EmptyCodes
    <3>2. QED
      BY <3>1, Narrows DEF Code
  <2>3. a \o b = <<Ev(bits, v), Ev(0, 0)>>
    BY <2>2, Joining
  <2>4. QED
    BY <2>1, <2>3
<1> HIDE DEF a, b, st, t1, t2
<1>5. Agree(st, o, a \o b, t2, Flags(o, c), 1 + 1)
  <2>1. 1 \in Nat
    OBVIOUS
  <2>2. QED
    BY <1>2, <1>3, <2>1, AgreeOn
<1>6. 1 + 1 = 2 /\ a \o b \in Seq(CallT)
  BY <1>2, <1>3
<1>7. QED
  BY <1>4, <1>5, <1>6 DEF st, t2

(* The value of an element.                                                 *)
ValuePart(e) == NBits(IF e = "schemaId" THEN 1 ELSE 0, 0)

(* The value of an element is written behind its own code, if that has any  *)
(* bits.                                                                    *)
LEMMA DataWritten ==
  ASSUME NEW e \in Values \cup {"schemaId"}, NEW t \in Seq(NodeT),
         NEW kind \in {"int", "string"}, NEW val \in ValT
  PROVE  /\ Writes(Push(e, 0, t), <<[call |-> kind, bits |-> 0, val |-> val]>>, Push(e, 1, t),
                   ValuePart(e) \o <<Field(kind, 0, val)>>)
         /\ ValuePart(e) \o <<Field(kind, 0, val)>> \in Seq(FieldT)
         /\ ValuePart(e) \in Seq(FieldT)
         /\ Field(kind, 0, val) \in FieldT
         /\ <<[call |-> kind, bits |-> 0, val |-> val]>> \in Seq(CallT)
<1> DEFINE c == [call |-> kind, bits |-> 0, val |-> val]
           w == IF e = "schemaId" THEN 1 ELSE 0
           st == Push(e, 0, t)
           t2 == Push(e, 1, t)
           x == NBits(w, 0)
           y == <<Field(kind, 0, val)>>
<1>1. e \in Elems
  BY DEF Values, Elems
<1>2. Code(e, 0, w, 0, Prod("CH", 1))
  BY ValueCodes DEF Values
<1>3. x \in Seq(FieldT)
  BY <1>2, Narrows DEF Code
<1>11. 0 \in Int
  OBVIOUS
<1>4. Field(kind, 0, val) \in FieldT
  BY <1>11 DEF Field, FieldT
<1>5. c \in CallT
  BY <1>11 DEF CallT
<1>6. CurrentRule(st) = Rule(e, 0) /\ getBitsFirstPartCode(st) = w
  BY <1>1, <1>2, Pushed, FirstPart DEF Code
<1>7. Rule(e, 0)[1] = Prod("CH", 1)
  <2>1. 0 + 1 = 1
    OBVIOUS
  <2>2. QED
    BY <1>2, <2>1 DEF Code
<1>8. Followed(st, Prod("CH", 1)) = t2 /\ Prod("CH", 1).event = "CH"
  <2>1. Prod("CH", 1).event = "CH"
    BY DEF Prod
  <2>2. QED
    BY <1>1, <2>1, Follows
<1>9. y \in Seq(FieldT) /\ x \o y \in Seq(FieldT) /\ <<c>> \in Seq(CallT)
  BY <1>3, <1>4, <1>5
<1>13. c.call = kind /\ c.val = val
  OBVIOUS
<1> HIDE DEF c, w, st, t2
<1>10. Writes(st, <<c>>, t2, x \o y)
  <2>1. SUFFICES ASSUME NEW out \in Seq(FieldT)
                 PROVE  WritesAll(<<c>>, S(out, st), S(out \o (x \o y), t2))
    BY DEF Writes
  <2> DEFINE s == S(out, st)
             z == out \o x \o y
  <2>2. s.out = out /\ s.stack = st /\ s.err = "EXIP_OK"
    BY DEF S
  <2>3. z = out \o (x \o y)
    BY <1>3, <1>9
  <2>4. [s EXCEPT !.out = z, !.stack = t2] = S(z, t2)
    <3> HIDE DEF z
    <3>1. [s EXCEPT !.out = z] = S(z, st)
      BY DEF S
    <3>2. [S(z, st) EXCEPT !.stack = t2] = S(z, t2)
      BY DEF S
    <3>3. QED
      BY <3>1, <3>2
  <2> HIDE DEF s
  <2>5. serializeData(s, kind, val) = [s EXCEPT !.out = z, !.stack = t2]
    BY <1>6, <1>7, <1>8, <2>2 DEF serializeData
  <2>6. serializeCall(s, c) = serializeData(s, kind, val)
    BY <1>13, <2>2 DEF serializeCall, Ok
  <2> HIDE DEF x, y, z
  <2>7. serializeCall(s, c) = S(z, t2)
    BY <2>4, <2>5, <2>6
  <2>8. WritesAll(<<c>>, s, S(z, t2))
    BY <2>7, OneWritten
  <2>9. QED
    BY <2>3, <2>8 DEF s
<1>12. QED
  BY <1>3, <1>4, <1>9, <1>10 DEF ValuePart, c, w, st, t2

GetsValue(d, rest, o2) == DecodeCH(d) = [d EXCEPT !.in = rest, !.opts = o2]

ReadsValue(x, st, o, p, rest, t2, o2) ==
  parseNext(D(x, st, o, p)) = D(rest, t2, o2, p)

(* The parser comes to the value behind the same code.                      *)
LEMMA DataRead ==
  ASSUME NEW e \in Values \cup {"schemaId"}, NEW t \in Seq(NodeT), NEW f \in FieldT,
         NEW rest \in Seq(FieldT), NEW o, NEW p, NEW o2,
         GetsValue(D(<<f>> \o rest, Push(e, 0, t), o, p), rest, o2)
  PROVE  ReadsValue(ValuePart(e) \o (<<f>> \o rest), Push(e, 0, t), o, p,
                    rest, Push(e, 1, t), o2)
<1> DEFINE st == Push(e, 0, t)
           in == <<f>> \o rest
           q == Prod("CH", 1)
           w == IF e = "schemaId" THEN 1 ELSE 0
           d == D(in, st, o, p)
<1>1. e \in Elems /\ 0 \in Nat /\ 1 \in Nat
  BY DEF Values, Elems
<1>2. Code(e, 0, w, 0, q)
  BY ValueCodes DEF Values
<1>3. in \in Seq(FieldT)
  OBVIOUS
<1>4. parseNext(D(NBits(w, 0) \o in, st, o, p)) = DecodeEvent(d, q)
  <2> HIDE DEF in, q, w
  <2>1. ReadsEvent(w, 0, in, st, o, p, q)
    BY <1>1, <1>2, <1>3, EventRead
  <2>2. QED
    BY <2>1 DEF ReadsEvent
<1>5. q.event = "CH" /\ Followed(st, q) = Push(e, 1, t)
  <2>1. q.event = "CH"
    BY DEF Prod
  <2>2. QED
    BY <1>1, <2>1, Follows
<1>6. DecodeCH(d) = [d EXCEPT !.in = rest, !.opts = o2]
  BY DEF GetsValue
<1>7. DecodeCH(d) = D(rest, st, o2, p)
  <2> HIDE DEF in, st
  <2>1. [d EXCEPT !.in = rest] = D(rest, st, o, p)
    BY DEF D
  <2>2. [D(rest, st, o, p) EXCEPT !.opts = o2] = D(rest, st, o2, p)
    BY DEF D
  <2> HIDE DEF d
  <2>3. QED
    BY <1>6, <2>1, <2>2
<1> HIDE DEF d, q, st
<1>8. DecodeEvent(d, q) = [D(rest, st, o2, p) EXCEPT !.stack = Followed(@, q)]
  BY <1>5, <1>7 DEF DecodeEvent
<1>9. DecodeEvent(d, q) = D(rest, Followed(st, q), o2, p)
  BY <1>8 DEF D
<1>10. QED
  BY <1>4, <1>5, <1>9 DEF ReadsValue, ValuePart, st, q, d

(* What a value element and its end leave behind.                           *)
LEMMA DataAgrees ==
  ASSUME NEW e \in Values, NEW t \in Seq(NodeT), NEW val \in Int, NEW o
  PROVE  /\ Agree(Push(e, 0, t), o, <<[call |-> "int", bits |-> 0, val |-> val]>>,
                  Push(e, 1, t), ops_intData(o, e, val), 1)
         /\ <<[call |-> "int", bits |-> 0, val |-> val]>> \in Seq(CallT)
<1> DEFINE c == [call |-> "int", bits |-> 0, val |-> val]
           st == Push(e, 0, t)
           t2 == Push(e, 1, t)
           x == ValuePart(e)
           g == Field("int", 0, val)
           o2 == ops_intData(o, e, val)
<1>1. val \in ValT
  BY Zenon DEF ValT
<1>2. /\ Writes(st, <<c>>, t2, x \o <<g>>)
      /\ x \o <<g>> \in Seq(FieldT) /\ x \in Seq(FieldT) /\ g \in FieldT
      /\ <<c>> \in Seq(CallT)
  BY <1>1, DataWritten
<1>3. g.kind = "int" /\ g.val = val
  BY DEF Field
<1>9. e \in Elems /\ e # "schemaId"
  BY DEF Values, Elems
<1>10. Head(st).elem = e
  BY <1>9, Pushed
<1> HIDE DEF g, x
<1>4. ASSUME NEW rest \in Seq(FieldT), NEW p
      PROVE  ReadsTo(D((x \o <<g>>) \o rest, st, o, p), rest, t2, o2, 1)
  <2> DEFINE in == <<g>> \o rest
             d == D(in, st, o, p)
  <2>1. in \in Seq(FieldT) /\ in # <<>> /\ Head(in) = g /\ Tail(in) = rest
        /\ (x \o <<g>>) \o rest = x \o in
    <3>1. x \in Seq(FieldT) /\ g \in FieldT
      BY <1>2
    <3>2. QED
      BY <3>1
  <2> HIDE DEF in, st
  <2>2. d.in = in /\ d.stack = st /\ d.opts = o
    BY DEF D
  <2> HIDE DEF d, o2
  <2>3. Next1(in) = g
    BY <2>1 DEF Next1
  <2>4. DecodeCH(d) = [d EXCEPT !.in = rest, !.opts = o2]
    BY <1>3, <1>9, <1>10, <2>1, <2>2, <2>3 DEF DecodeCH, o2
  <2>9. GetsValue(D(<<g>> \o rest, st, o, p), rest, o2)
    BY <2>4 DEF GetsValue, in, d
  <2>10. e \in Values \cup {"schemaId"} /\ g \in FieldT
    BY <1>2
  <2>11. ReadsValue(x \o (<<g>> \o rest), st, o, p, rest, t2, o2)
    BY <2>9, <2>10, DataRead DEF st, x
  <2>5. parseNext(D(x \o in, st, o, p)) = D(rest, t2, o2, p)
    BY <2>11 DEF ReadsValue, in
  <2>6. ReadsAll(1, D((x \o <<g>>) \o rest, st, o, p), D(rest, t2, o2, p))
    BY <2>1, <2>5, OneRead
  <2>7. 1 \in 0..1
    OBVIOUS
  <2>8. QED
    BY <2>6, <2>7 DEF ReadsTo
<1> HIDE DEF st, c, t2, o2
<1>5. Reads(st, o, x \o <<g>>, t2, o2, 1)
  BY <1>4 DEF Reads
<1>6. Agree(st, o, <<c>>, t2, o2, 1)
  BY <1>2, <1>5 DEF Agree
<1>7. QED
  BY <1>2, <1>6 DEF st, c, t2, o2

(* A child with a number: the parser keeps it as an unsigned int holds it.  *)
LEMMA ValueChild ==
  ASSUME NEW e \in Elems, NEW k \in Nat, NEW t \in Seq(NodeT), NEW bits, NEW v,
         NEW c \in Values, NEW i \in Nat, Code(e, k, bits, v, Prod(c, i)),
         NEW val \in Int, NEW o
  PROVE  /\ Agree(Push(e, k, t), o, ValueElement(bits, v, "int", val), Push(e, i, t),
                  ops_intData(o, c, val), 3)
         /\ ValueElement(bits, v, "int", val) \in Seq(CallT)
<1> DEFINE x == Ev(bits, v)
           y == [call |-> "int", bits |-> 0, val |-> val]
           z == Ev(0, 0)
           st == Push(e, k, t)
           t2 == Push(e, i, t)
           o2 == ops_intData(o, c, val)
<1>1. c \in Elems /\ Flags(o, c) = o
  BY DEF Values, Elems, Flags
<1>2. Agree(st, o, <<x>>, Push(c, 0, t2), o, 1) /\ <<x>> \in Seq(CallT)
  <2>1. Agree(st, o, <<x>>, Push(c, 0, t2), Flags(o, c), 1) /\ <<x>> \in Seq(CallT)
    BY <1>1, StartAgrees
  <2>2. QED
    BY <1>1, <2>1
<1>3. t2 \in Seq(NodeT)
  BY Pushed
<1>4. Agree(Push(c, 0, t2), o, <<y>>, Push(c, 1, t2), o2, 1) /\ <<y>> \in Seq(CallT)
  BY <1>3, DataAgrees
<1>5. Agree(Push(c, 1, t2), o2, <<z>>, t2, o2, 1) /\ <<z>> \in Seq(CallT)
  <2>1. Code(c, 1, 0, 0, EE) /\ EE \in {EE, Prod("ED", 0)} /\ 1 \in Nat
    BY ValueCodes
  <2>2. QED
    BY <1>1, <1>3, <2>1, EndAgrees
<1>6. ValueElement(bits, v, "int", val) = (<<x>> \o <<y>>) \o <<z>>
  <2>1. ValueElement(bits, v, "int", val) = <<x, y, z>>
    BY DEF ValueElement, EndEv
  <2> HIDE DEF x, y, z
  <2>2. x \in CallT /\ y \in CallT /\ z \in CallT
    <3>1. \A u : <<u>> \in Seq(CallT) => u \in CallT
      OBVIOUS
    <3>2. QED
      BY <1>2, <1>4, <1>5, <3>1
  <2>3. QED
    BY <2>1, <2>2, Joining
<1> HIDE DEF x, y, z, st, t2, o2
<1>7. Agree(st, o, <<x>> \o <<y>>, Push(c, 1, t2), o2, 1 + 1) /\ <<x>> \o <<y>> \in Seq(CallT)
  <2>1. 1 \in Nat
    OBVIOUS
  <2>2. QED
    BY <1>2, <1>4, <2>1, AgreeOn, ConcatProperties
<1>8. /\ Agree(st, o, (<<x>> \o <<y>>) \o <<z>>, t2, o2, 1 + 1 + 1)
      /\ (<<x>> \o <<y>>) \o <<z>> \in Seq(CallT)
  <2>1. 1 \in Nat /\ 1 + 1 \in Nat
    OBVIOUS
  <2>2. QED
    BY <1>5, <1>7, <2>1, AgreeOn, ConcatProperties
<1>9. 1 + 1 + 1 = 3
  OBVIOUS
<1>10. QED
  BY <1>6, <1>8, <1>9 DEF st, t2, o2

(* The identifier of the schema: what it sets depends on the element that   *)
(* has been opened before.                                                  *)
Identified(o, val) ==
  IF val = "" THEN [o EXCEPT !.schemaIDMode = SCHEMA_ID_EMPTY]
  ELSE [o EXCEPT !.schemaIDMode = SCHEMA_ID_SET, !.schemaID = val]

(* ops_stringData keeps the identifier, since schemaId was opened just      *)
(* before.                                                                  *)
LEMMA StringRead ==
  ASSUME NEW t \in Seq(NodeT), NEW val, NEW rest \in Seq(FieldT), NEW o,
         Field("string", 0, val) \in FieldT
  PROVE  GetsValue(D(<<Field("string", 0, val)>> \o rest, Push("schemaId", 0, t),
                     Flags(o, "schemaId"), "schemaId"),
                   rest, Identified(o, val))
<1> DEFINE g == Field("string", 0, val)
           in == <<g>> \o rest
           st == Push("schemaId", 0, t)
           o1 == Flags(o, "schemaId")
           d == D(in, st, o1, "schemaId")
           o2 == Identified(o, val)
           u == ops_stringData(d, val)
<1>1. g.kind = "string" /\ g.val = val
  BY DEF Field
<1>2. Head(st).elem = "schemaId"
  <2>1. "schemaId" \in Elems /\ 0 \in Nat
    BY DEF Elems
  <2>2. Head(st) = [elem |-> "schemaId", k |-> 0]
    BY <2>1, Pushed
  <2>3. QED
    BY <2>2
<1>3. o1 = [o EXCEPT !.schemaIDMode = SCHEMA_ID_EMPTY]
  BY DEF Flags
<1> HIDE DEF g
<1>4. in # <<>> /\ Head(in) = g /\ Tail(in) = rest
  BY DEF g
<1> HIDE DEF in, st
<1>5. Next1(in) = g
  BY <1>4 DEF Next1
<1>6. d.in = in /\ d.stack = st /\ d.opts = o1 /\ d.prev = "schemaId"
  BY DEF D
<1>7. u = D(in, st, o2, "schemaId")
  <2>1. CASE val = ""
    <3>1. u = [d EXCEPT !.opts.schemaIDMode = SCHEMA_ID_EMPTY]
      BY <1>6, <2>1 DEF ops_stringData
    <3>2. u = D(in, st, [o1 EXCEPT !.schemaIDMode = SCHEMA_ID_EMPTY], "schemaId")
      <4> HIDE DEF o1
      <4>1. QED
        BY <3>1 DEF D
    <3>3. [o1 EXCEPT !.schemaIDMode = SCHEMA_ID_EMPTY] = o2
      BY <1>3, <2>1 DEF Identified
    <3>4. QED
      BY <3>2, <3>3
  <2>2. CASE val # ""
    <3>1. u = [d EXCEPT !.opts.schemaIDMode = SCHEMA_ID_SET, !.opts.schemaID = val]
      BY <1>6, <2>2 DEF ops_stringData
    <3> DEFINE o3 == [o1 EXCEPT !.schemaIDMode = SCHEMA_ID_SET]
               o4 == [o3 EXCEPT !.schemaID = val]
    <3>2. [d EXCEPT !.opts.schemaIDMode = SCHEMA_ID_SET] = D(in, st, o3, "schemaId")
      <4> HIDE DEF o1
      <4>1. QED
        BY DEF D
    <3>3. [D(in, st, o3, "schemaId") EXCEPT !.opts.schemaID = val] = D(in, st, o4, "schemaId")
      <4> HIDE DEF o3
      <4>1. QED
        BY DEF D
    <3>4. o4 = o2
      BY <1>3, <2>2 DEF Identified
    <3> HIDE DEF d, o3, o4, o2, u
    <3>5. QED
      BY <3>1, <3>2, <3>3, <3>4
  <2>3. QED
    BY <2>1, <2>2
<1> HIDE DEF d, o1, o2
<1>8. DecodeCH(d) = [u EXCEPT !.in = Tail(@)]
  BY <1>1, <1>2, <1>5, <1>6 DEF DecodeCH
<1> HIDE DEF u
<1>9. [u EXCEPT !.in = Tail(@)] = D(rest, st, o2, "schemaId")
  <2>1. u.in = in
    BY <1>7 DEF D
  <2>2. [u EXCEPT !.in = Tail(@)] = [u EXCEPT !.in = rest]
    BY <1>4, <2>1
  <2>3. [D(in, st, o2, "schemaId") EXCEPT !.in = rest] = D(rest, st, o2, "schemaId")
    BY DEF D
  <2>4. QED
    BY <1>7, <2>2, <2>3
<1>10. [d EXCEPT !.in = rest, !.opts = o2] = D(rest, st, o2, "schemaId")
  <2>1. [d EXCEPT !.in = rest] = D(rest, st, o1, "schemaId")
    BY DEF D, d
  <2>2. [D(rest, st, o1, "schemaId") EXCEPT !.opts = o2] = D(rest, st, o2, "schemaId")
    BY DEF D
  <2>3. QED
    BY <2>1, <2>2
<1>11. DecodeCH(d) = [d EXCEPT !.in = rest, !.opts = o2]
  BY <1>8, <1>9, <1>10
<1>12. QED
  BY <1>11 DEF GetsValue, d, in, st, g, o1, o2

(* The identifier of the schema, up to the end of its value.                *)
LEMMA SchemaIdValue ==
  ASSUME NEW e \in Elems, NEW k \in Nat, NEW t \in Seq(NodeT), NEW bits, NEW v,
         NEW i \in Nat, Code(e, k, bits, v, Prod("schemaId", i)),
         NEW val \in ValT, NEW o
  PROVE  /\ Agree(Push(e, k, t), o,
                  <<Ev(bits, v)>> \o <<[call |-> "string", bits |-> 0, val |-> val]>>,
                  Push("schemaId", 1, Push(e, i, t)), Identified(o, val), 2)
         /\ <<Ev(bits, v)>> \in Seq(CallT)
         /\ <<[call |-> "string", bits |-> 0, val |-> val]>> \in Seq(CallT)
<1> DEFINE a == <<Ev(bits, v)>>
           c == <<[call |-> "string", bits |-> 0, val |-> val]>>
           st == Push(e, k, t)
           t0 == Push(e, i, t)
           t1 == Push("schemaId", 0, t0)
           t2 == Push("schemaId", 1, t0)
           q == Prod("schemaId", i)
           f1 == NBits(bits, v)
           x == ValuePart("schemaId")
           g == Field("string", 0, val)
           o1 == Flags(o, "schemaId")
           o2 == Identified(o, val)
<1>1. "schemaId" \in Elems /\ t0 \in Seq(NodeT) /\ "schemaId" \in Values \cup {"schemaId"}
  <2>1. "schemaId" \in Elems
    BY DEF Elems
  <2>2. t0 \in Seq(NodeT)
    BY Pushed
  <2>3. QED
    BY <2>1, <2>2
<1>2. f1 \in Seq(FieldT) /\ a \in Seq(CallT)
  <2>1. Ev(bits, v) \in CallT /\ f1 \in Seq(FieldT)
    BY Narrows DEF Code
  <2>2. QED
    BY <2>1
<1>3. Followed(st, q) = t1
  BY <1>1, Follows
<1>4. Writes(st, a, t1, f1)
  <2>1. Writes(st, a, Followed(st, q), f1)
    BY EventWritten
  <2>2. QED
    BY <1>3, <2>1
<1>5. /\ Writes(t1, c, t2, x \o <<g>>) /\ x \o <<g>> \in Seq(FieldT)
      /\ x \in Seq(FieldT) /\ g \in FieldT /\ c \in Seq(CallT)
  <2>1. "string" \in {"int", "string"}
    OBVIOUS
  <2>2. QED
    BY <1>1, <2>1, DataWritten
<1> DEFINE f == f1 \o (x \o <<g>>)
<1>6. Writes(st, a \o c, t2, f) /\ f \in Seq(FieldT)
  <2> HIDE DEF a, c, st, t1, t2, f1, x, g
  <2>1. Writes(st, a \o c, t2, f)
    BY <1>2, <1>4, <1>5, WritesChain
  <2>2. QED
    BY <1>2, <1>5, <2>1, ConcatProperties
<1>7. ASSUME NEW rest \in Seq(FieldT), NEW p
      PROVE  ReadsTo(D(f \o rest, st, o, p), rest, t2, o2, 2)
  <2> DEFINE in == x \o (<<g>> \o rest)
             d1 == D(in, t1, o1, "schemaId")
  <2>1. in \in Seq(FieldT) /\ f \o rest = f1 \o in
    <3>1. f1 \in Seq(FieldT) /\ x \in Seq(FieldT) /\ g \in FieldT
      BY <1>2, <1>5
    <3> HIDE DEF f1, x, g
    <3>2. QED
      BY <3>1
  <2>2. DecodeEvent(D(in, st, o, p), q) = d1
    <3>1. q.event = "schemaId"
      BY DEF Prod
    <3> HIDE DEF in, q, st, t1, o1
    <3>2. DecodeEvent(D(in, st, o, p), q) =
            [ops_startElement(D(in, st, o, p), "schemaId") EXCEPT !.stack = Followed(@, q)]
      BY <3>1 DEF DecodeEvent
    <3>3. ops_startElement(D(in, st, o, p), "schemaId") = D(in, st, o1, "schemaId")
      <4>1. D(in, st, o, p).opts = o /\ "schemaId" \in Remembered
        BY DEF D, Remembered
      <4>2. [D(in, st, o, p) EXCEPT !.opts = o1] = D(in, st, o1, p)
        BY DEF D
      <4>3. [D(in, st, o1, p) EXCEPT !.prev = "schemaId"] = D(in, st, o1, "schemaId")
        BY DEF D
      <4>4. QED
        BY <4>1, <4>2, <4>3 DEF ops_startElement, o1
    <3>4. [D(in, st, o1, "schemaId") EXCEPT !.stack = Followed(@, q)]
            = D(in, Followed(st, q), o1, "schemaId")
      BY DEF D
    <3>5. QED
      BY <1>3, <3>2, <3>3, <3>4
  <2>3. ReadsEvent(bits, v, in, st, o, p, q)
    <3> HIDE DEF in, q
    <3>1. QED
      BY <2>1, EventRead DEF q
  <2>4. parseNext(D(f \o rest, st, o, p)) = d1
    BY <2>1, <2>2, <2>3 DEF ReadsEvent
  <2>5. GetsValue(D(<<g>> \o rest, t1, o1, "schemaId"), rest, o2)
    BY <1>1, <1>5, StringRead
  <2>6. ReadsValue(in, t1, o1, "schemaId", rest, t2, o2)
    <3> HIDE DEF g, x, o1, o2
    <3>1. QED
      BY <1>1, <1>5, <2>5, DataRead DEF x
  <2>7. parseNext(d1) = D(rest, t2, o2, "schemaId")
    BY <2>6 DEF ReadsValue
  <2>8. ReadsAll(1, D(f \o rest, st, o, p), d1)
    BY <2>4, OneRead
  <2>9. ReadsAll(1, d1, D(rest, t2, o2, "schemaId"))
    BY <2>7, OneRead
  <2> HIDE DEF d1
  <2>10. ReadsAll(1 + 1, D(f \o rest, st, o, p), D(rest, t2, o2, "schemaId"))
    <3>1. 1 \in Nat
      OBVIOUS
    <3>2. QED
      BY <2>8, <2>9, <3>1, ReadsOn
  <2>11. 1 + 1 \in 0..2
    OBVIOUS
  <2>12. QED
    BY <2>10, <2>11 DEF ReadsTo
<1> HIDE DEF a, c, st, t0, t1, t2, f1, x, g, o1, o2, f
<1>8. Reads(st, o, f, t2, o2, 2)
  BY <1>7 DEF Reads
<1>9. Agree(st, o, a \o c, t2, o2, 2)
  BY <1>6, <1>8 DEF Agree
<1>10. QED
  BY <1>2, <1>5, <1>9 DEF a, c, st, t0, t2, o2

(* The same with the end of the element.                                    *)
LEMMA SchemaIdChild ==
  ASSUME NEW e \in Elems, NEW k \in Nat, NEW t \in Seq(NodeT), NEW bits, NEW v,
         NEW i \in Nat, Code(e, k, bits, v, Prod("schemaId", i)),
         NEW val \in ValT, NEW o
  PROVE  /\ Agree(Push(e, k, t), o, ValueElement(bits, v, "string", val), Push(e, i, t),
                  Identified(o, val), 3)
         /\ ValueElement(bits, v, "string", val) \in Seq(CallT)
<1> DEFINE x == Ev(bits, v)
           y == [call |-> "string", bits |-> 0, val |-> val]
           z == Ev(0, 0)
           st == Push(e, k, t)
           t0 == Push(e, i, t)
           o2 == Identified(o, val)
<1>1. /\ Agree(st, o, <<x>> \o <<y>>, Push("schemaId", 1, t0), o2, 2)
      /\ <<x>> \in Seq(CallT) /\ <<y>> \in Seq(CallT)
  BY SchemaIdValue
<1>2. Agree(Push("schemaId", 1, t0), o2, <<z>>, t0, o2, 1) /\ <<z>> \in Seq(CallT)
  <2>1. Code("schemaId", 1, 0, 0, EE) /\ EE \in {EE, Prod("ED", 0)} /\ 1 \in Nat
    BY ValueCodes
  <2>2. "schemaId" \in Elems /\ t0 \in Seq(NodeT)
    BY Pushed DEF Elems
  <2>3. QED
    BY <2>1, <2>2, EndAgrees
<1>3. ValueElement(bits, v, "string", val) = (<<x>> \o <<y>>) \o <<z>>
  <2>1. ValueElement(bits, v, "string", val) = <<x, y, z>>
    BY DEF ValueElement, EndEv
  <2> HIDE DEF x, y, z
  <2>2. x \in CallT /\ y \in CallT /\ z \in CallT
    <3>1. \A u : <<u>> \in Seq(CallT) => u \in CallT
      OBVIOUS
    <3>2. QED
      BY <1>1, <1>2, <3>1
  <2>3. QED
    BY <2>1, <2>2, Joining
<1> HIDE DEF x, y, z, st, t0, o2
<1>4. /\ Agree(st, o, (<<x>> \o <<y>>) \o <<z>>, t0, o2, 2 + 1)
      /\ (<<x>> \o <<y>>) \o <<z>> \in Seq(CallT)
  <2>1. 1 \in Nat /\ 2 \in Nat
    OBVIOUS
  <2>2. <<x>> \o <<y>> \in Seq(CallT)
    BY <1>1, ConcatProperties
  <2>3. QED
    BY <1>1, <1>2, <2>1, <2>2, AgreeOn, ConcatProperties
<1>5. 2 + 1 = 3
  OBVIOUS
<1>6. QED
  BY <1>3, <1>4, <1>5 DEF st, t0, o2

-----------------------------------------------------------------------------
(* The options found when the first n of fourteen contents have gone by.    *)

Opt(al, en, pr, mo, id, dr, bs, ml, cp) ==
  [alignment |-> al, enumOpt |-> en, preserve |-> pr, schemaIDMode |-> mo, schemaID |-> id,
   drMap |-> dr, blockSize |-> bs, valueMaxLength |-> ml, valuePartitionCapacity |-> cp]

EnumPlace(x) == CASE x = "selfContained" -> 2 [] x = "compression" -> 11
                  [] x = "fragment" -> 12 [] OTHER -> 14
PreservePlace(x) == CASE x = "dtd" -> 5 [] x = "prefixes" -> 6 [] x = "lexicalValues" -> 7
                      [] x = "comments" -> 8 [] OTHER -> 9

EnumFound(o, n) == {x \in o.enumOpt : EnumPlace(x) <= n}
PreserveFound(o, n) == {x \in o.preserve : PreservePlace(x) <= n}
Cast(v) == IF v = INDEX_MAX THEN v ELSE v % UIntRange
SentMode(o) == IF o.schemaIDMode = SCHEMA_ID_ABSENT THEN SCHEMA_ID_ABSENT
               ELSE IF o.schemaID = "" THEN SCHEMA_ID_EMPTY ELSE SCHEMA_ID_SET

NoMap == FALSE
NoId == ""

Found(o, n) ==
  Opt(IF n >= 1 THEN o.alignment ELSE "BIT_PACKED", EnumFound(o, n), PreserveFound(o, n),
      IF n >= 13 THEN SentMode(o) ELSE SCHEMA_ID_ABSENT, IF n >= 13 THEN o.schemaID ELSE NoId,
      NoMap,
      IF n >= 10 THEN o.blockSize ELSE DefaultBlockSize,
      IF n >= 3 THEN Cast(o.valueMaxLength) ELSE INDEX_MAX,
      IF n >= 4 THEN Cast(o.valuePartitionCapacity) ELSE INDEX_MAX)

Identifiable(o) == o.schemaIDMode \in {SCHEMA_ID_ABSENT, SCHEMA_ID_EMPTY} => o.schemaID = ""

(* What the flags found are, at the beginning, at the end and from one      *)
(* place to the next.                                                       *)
LEMMA FoundSets ==
  ASSUME NEW o \in Options
  PROVE  /\ EnumFound(o, 0) = {} /\ PreserveFound(o, 0) = {}
         /\ EnumFound(o, 14) = o.enumOpt /\ PreserveFound(o, 9) = o.preserve
         /\ \A n \in 1..14 :
              /\ EnumFound(o, n) =
                   EnumFound(o, n-1) \cup {x \in o.enumOpt : EnumPlace(x) = n}
              /\ PreserveFound(o, n) =
                   PreserveFound(o, n-1) \cup {x \in o.preserve : PreservePlace(x) = n}
<1>1. /\ o.enumOpt \in SUBSET {"compression", "strict", "fragment", "selfContained"}
      /\ o.preserve \in SUBSET {"dtd", "prefixes", "lexicalValues", "comments", "pis"}
  BY DEF Options
<1>2. /\ \A x \in o.enumOpt : EnumPlace(x) \in 1..14
      /\ \A x \in o.preserve : PreservePlace(x) \in 1..9
  BY <1>1 DEF EnumPlace, PreservePlace
<1>3. EnumFound(o, 0) = {} /\ PreserveFound(o, 0) = {}
  BY <1>2 DEF EnumFound, PreserveFound
<1>4. EnumFound(o, 14) = o.enumOpt /\ PreserveFound(o, 9) = o.preserve
  BY <1>2 DEF EnumFound, PreserveFound
<1>5. ASSUME NEW n \in 1..14
      PROVE  /\ EnumFound(o, n) =
                  EnumFound(o, n-1) \cup {x \in o.enumOpt : EnumPlace(x) = n}
             /\ PreserveFound(o, n) =
                  PreserveFound(o, n-1) \cup {x \in o.preserve : PreservePlace(x) = n}
  BY <1>2 DEF EnumFound, PreserveFound
<1>6. QED
  BY <1>3, <1>4, <1>5

(* What the n-th content adds to the sets, when it is there.                *)
Added(x, A) == IF x \in A THEN {x} ELSE {}

(* Which places add which flag.                                             *)
LEMMA FoundAdded ==
  ASSUME NEW o \in Options
  PROVE  /\ \A n \in {1, 3, 4, 5, 6, 7, 8, 9, 10, 13} : EnumFound(o, n) = EnumFound(o, n-1)
         /\ \A n \in {1, 2, 3, 4, 10, 11, 12, 13, 14} :
              PreserveFound(o, n) = PreserveFound(o, n-1)
         /\ EnumFound(o, 2) = EnumFound(o, 1) \cup Added("selfContained", o.enumOpt)
         /\ EnumFound(o, 11) = EnumFound(o, 10) \cup Added("compression", o.enumOpt)
         /\ EnumFound(o, 12) = EnumFound(o, 11) \cup Added("fragment", o.enumOpt)
         /\ EnumFound(o, 14) = EnumFound(o, 13) \cup Added("strict", o.enumOpt)
         /\ PreserveFound(o, 5) = PreserveFound(o, 4) \cup Added("dtd", o.preserve)
         /\ PreserveFound(o, 6) = PreserveFound(o, 5) \cup Added("prefixes", o.preserve)
         /\ PreserveFound(o, 7) = PreserveFound(o, 6) \cup Added("lexicalValues", o.preserve)
         /\ PreserveFound(o, 8) = PreserveFound(o, 7) \cup Added("comments", o.preserve)
         /\ PreserveFound(o, 9) = PreserveFound(o, 8) \cup Added("pis", o.preserve)
<1> DEFINE E(n) == {x \in o.enumOpt : EnumPlace(x) = n}
           P(n) == {x \in o.preserve : PreservePlace(x) = n}
<1>1. /\ o.enumOpt \in SUBSET {"compression", "strict", "fragment", "selfContained"}
      /\ o.preserve \in SUBSET {"dtd", "prefixes", "lexicalValues", "comments", "pis"}
  BY DEF Options
<1>2. /\ EnumPlace("compression") = 11 /\ EnumPlace("strict") = 14
      /\ EnumPlace("fragment") = 12 /\ EnumPlace("selfContained") = 2
      /\ PreservePlace("dtd") = 5 /\ PreservePlace("prefixes") = 6
      /\ PreservePlace("lexicalValues") = 7 /\ PreservePlace("comments") = 8
      /\ PreservePlace("pis") = 9
  BY DEF EnumPlace, PreservePlace
<1>3. \A n \in {1, 3, 4, 5, 6, 7, 8, 9, 10, 13} : E(n) = {}
  BY <1>1, <1>2
<1>4. \A n \in {1, 2, 3, 4, 10, 11, 12, 13, 14} : P(n) = {}
  BY <1>1, <1>2
<1>5. /\ E(2) = Added("selfContained", o.enumOpt) /\ E(11) = Added("compression", o.enumOpt)
      /\ E(12) = Added("fragment", o.enumOpt) /\ E(14) = Added("strict", o.enumOpt)
  BY <1>1, <1>2 DEF Added
<1>6. /\ P(5) = Added("dtd", o.preserve) /\ P(6) = Added("prefixes", o.preserve)
      /\ P(7) = Added("lexicalValues", o.preserve) /\ P(8) = Added("comments", o.preserve)
      /\ P(9) = Added("pis", o.preserve)
  BY <1>1, <1>2 DEF Added
<1>7. \A n \in 1..14 : /\ EnumFound(o, n) = EnumFound(o, n-1) \cup E(n)
                       /\ PreserveFound(o, n) = PreserveFound(o, n-1) \cup P(n)
  BY FoundSets
<1> HIDE DEF E, P
<1>8. \A n \in {1, 3, 4, 5, 6, 7, 8, 9, 10, 13} : EnumFound(o, n) = EnumFound(o, n-1)
  <2>1. \A n \in {1, 3, 4, 5, 6, 7, 8, 9, 10, 13} : n \in 1..14
    OBVIOUS
  <2>2. \A A : A \cup {} = A
    OBVIOUS
  <2>3. QED
    BY <1>3, <1>7, <2>1, <2>2, Zenon
<1>9. \A n \in {1, 2, 3, 4, 10, 11, 12, 13, 14} : PreserveFound(o, n) = PreserveFound(o, n-1)
  <2>1. \A n \in {1, 2, 3, 4, 10, 11, 12, 13, 14} : n \in 1..14
    OBVIOUS
  <2>2. \A A : A \cup {} = A
    OBVIOUS
  <2>3. QED
    BY <1>4, <1>7, <2>1, <2>2, Zenon
<1>10. /\ 2-1 = 1 /\ 5-1 = 4 /\ 6-1 = 5 /\ 7-1 = 6 /\ 8-1 = 7 /\ 9-1 = 8
       /\ 11-1 = 10 /\ 12-1 = 11 /\ 14-1 = 13
       /\ \A n \in {2, 5, 6, 7, 8, 9, 11, 12, 14} : n \in 1..14
  OBVIOUS
<1>11. \A n \in {2, 5, 6, 7, 8, 9, 11, 12, 14} :
         /\ EnumFound(o, n) = EnumFound(o, n-1) \cup E(n)
         /\ PreserveFound(o, n) = PreserveFound(o, n-1) \cup P(n)
  BY <1>7, <1>10, Zenon
<1>12. /\ EnumFound(o, 2) = EnumFound(o, 1) \cup E(2)
       /\ EnumFound(o, 11) = EnumFound(o, 10) \cup E(11)
       /\ EnumFound(o, 12) = EnumFound(o, 11) \cup E(12)
       /\ EnumFound(o, 14) = EnumFound(o, 13) \cup E(14)
       /\ PreserveFound(o, 5) = PreserveFound(o, 4) \cup P(5)
       /\ PreserveFound(o, 6) = PreserveFound(o, 5) \cup P(6)
       /\ PreserveFound(o, 7) = PreserveFound(o, 6) \cup P(7)
       /\ PreserveFound(o, 8) = PreserveFound(o, 7) \cup P(8)
       /\ PreserveFound(o, 9) = PreserveFound(o, 8) \cup P(9)
  BY <1>10, <1>11
<1>13. QED
  BY <1>5, <1>6, <1>8, <1>9, <1>12, Zenon

(* A content that is there is found; one that is not changes nothing.       *)
FlagStep(o, n, x, A) ==
  /\ x \in A => Flags(Found(o, n-1), x) = Found(o, n)
  /\ x \notin A => Found(o, n) = Found(o, n-1)

(* Opening the element of a flag finds it.                                  *)
LEMMA FoundFlag ==
  ASSUME NEW o, NEW n \in {2, 5, 6, 7, 8, 9, 11, 12, 14}, NEW x,
         \/ /\ x \in {"strict", "compression", "fragment", "selfContained"}
            /\ EnumFound(o, n) = EnumFound(o, n-1) \cup Added(x, o.enumOpt)
            /\ PreserveFound(o, n) = PreserveFound(o, n-1)
         \/ /\ x \in {"dtd", "prefixes", "lexicalValues", "comments", "pis"}
            /\ PreserveFound(o, n) = PreserveFound(o, n-1) \cup Added(x, o.preserve)
            /\ EnumFound(o, n) = EnumFound(o, n-1)
  PROVE  FlagStep(o, n, x, IF x \in {"strict", "compression", "fragment", "selfContained"}
                           THEN o.enumOpt ELSE o.preserve)
<1> DEFINE al == IF n >= 1 THEN o.alignment ELSE "BIT_PACKED"
           mo == IF n >= 13 THEN SentMode(o) ELSE SCHEMA_ID_ABSENT
           id == IF n >= 13 THEN o.schemaID ELSE NoId
           bs == IF n >= 10 THEN o.blockSize ELSE DefaultBlockSize
           ml == IF n >= 3 THEN Cast(o.valueMaxLength) ELSE INDEX_MAX
           cp == IF n >= 4 THEN Cast(o.valuePartitionCapacity) ELSE INDEX_MAX
           Rest(en, pr) == Opt(al, en, pr, mo, id, NoMap, bs, ml, cp)
<1>1. /\ n >= 1 <=> n-1 >= 1
      /\ n >= 3 <=> n-1 >= 3
      /\ n >= 4 <=> n-1 >= 4
      /\ n >= 10 <=> n-1 >= 10
      /\ n >= 13 <=> n-1 >= 13
  OBVIOUS
<1>2. Found(o, n) = Rest(EnumFound(o, n), PreserveFound(o, n))
  BY DEF Found
<1>3. Found(o, n-1) = Rest(EnumFound(o, n-1), PreserveFound(o, n-1))
  BY <1>1, Zenon DEF Found
<1> HIDE DEF al, mo, id, bs, ml, cp
<1>4. CASE x \in {"strict", "compression", "fragment", "selfContained"}
  <2>1. x \notin {"dtd", "prefixes", "lexicalValues", "comments", "pis"}
    BY <1>4
  <2>8. ASSUME NEW e, NEW p PROVE Flags(Rest(e, p), x) = Rest(e \cup {x}, p)
    <3> DEFINE r == Rest(e, p)
    <3>1. Flags(r, x) = [r EXCEPT !.enumOpt = @ \cup {x}]
      BY <1>4 DEF Flags
    <3>2. r.enumOpt = e
      BY DEF Opt
    <3>3. [r EXCEPT !.enumOpt = @ \cup {x}] = [r EXCEPT !.enumOpt = e \cup {x}]
      BY <3>2
    <3>4. ASSUME NEW y PROVE [r EXCEPT !.enumOpt = y] = Rest(y, p)
      BY DEF Opt
    <3>5. QED
      BY <3>1, <3>3, <3>4
  <2>2. Flags(Found(o, n-1), x) = Rest(EnumFound(o, n-1) \cup {x}, PreserveFound(o, n-1))
    BY <1>3, <2>8
  <2>3. x \in o.enumOpt => EnumFound(o, n) = EnumFound(o, n-1) \cup {x}
    BY <2>1 DEF Added
  <2>4. x \notin o.enumOpt => EnumFound(o, n) = EnumFound(o, n-1)
    BY <2>1 DEF Added
  <2>5. PreserveFound(o, n) = PreserveFound(o, n-1)
    BY <2>1
  <2> HIDE DEF Rest
  <2>6. FlagStep(o, n, x, o.enumOpt)
    BY <1>2, <1>3, <2>2, <2>3, <2>4, <2>5 DEF FlagStep
  <2>7. QED
    BY <1>4, <2>6
<1>5. CASE x \in {"dtd", "prefixes", "lexicalValues", "comments", "pis"}
  <2>1. x \notin {"strict", "compression", "fragment", "selfContained"}
    BY <1>5
  <2>8. ASSUME NEW e, NEW p PROVE Flags(Rest(e, p), x) = Rest(e, p \cup {x})
    <3> DEFINE r == Rest(e, p)
    <3>1. Flags(r, x) = [r EXCEPT !.preserve = @ \cup {x}]
      BY <1>5 DEF Flags
    <3>2. r.preserve = p
      BY DEF Opt
    <3>3. [r EXCEPT !.preserve = @ \cup {x}] = [r EXCEPT !.preserve = p \cup {x}]
      BY <3>2
    <3>4. ASSUME NEW y PROVE [r EXCEPT !.preserve = y] = Rest(e, y)
      BY DEF Opt
    <3>5. QED
      BY <3>1, <3>3, <3>4
  <2>2. Flags(Found(o, n-1), x) = Rest(EnumFound(o, n-1), PreserveFound(o, n-1) \cup {x})
    BY <1>3, <2>8
  <2>3. x \in o.preserve => PreserveFound(o, n) = PreserveFound(o, n-1) \cup {x}
    BY <2>1 DEF Added
  <2>4. x \notin o.preserve => PreserveFound(o, n) = PreserveFound(o, n-1)
    BY <2>1 DEF Added
  <2>5. EnumFound(o, n) = EnumFound(o, n-1)
    BY <2>1
  <2> HIDE DEF Rest
  <2>6. FlagStep(o, n, x, o.preserve)
    BY <1>2, <1>3, <2>2, <2>3, <2>4, <2>5 DEF FlagStep
  <2>7. QED
    BY <2>1, <2>6
<1>6. QED
  BY <1>4, <1>5

(* The same for the flags and places of the document.                       *)
LEMMA FlagSteps ==
  ASSUME NEW o \in Options
  PROVE  /\ FlagStep(o, 2, "selfContained", o.enumOpt)
         /\ FlagStep(o, 11, "compression", o.enumOpt)
         /\ FlagStep(o, 12, "fragment", o.enumOpt)
         /\ FlagStep(o, 14, "strict", o.enumOpt)
         /\ FlagStep(o, 5, "dtd", o.preserve)
         /\ FlagStep(o, 6, "prefixes", o.preserve)
         /\ FlagStep(o, 7, "lexicalValues", o.preserve)
         /\ FlagStep(o, 8, "comments", o.preserve)
         /\ FlagStep(o, 9, "pis", o.preserve)
<1>1. /\ 2-1 = 1 /\ 5-1 = 4 /\ 6-1 = 5 /\ 7-1 = 6 /\ 8-1 = 7 /\ 9-1 = 8
      /\ 11-1 = 10 /\ 12-1 = 11 /\ 14-1 = 13
  OBVIOUS
<1>2. /\ EnumFound(o, 2) = EnumFound(o, 2-1) \cup Added("selfContained", o.enumOpt)
      /\ EnumFound(o, 11) = EnumFound(o, 11-1) \cup Added("compression", o.enumOpt)
      /\ EnumFound(o, 12) = EnumFound(o, 12-1) \cup Added("fragment", o.enumOpt)
      /\ EnumFound(o, 14) = EnumFound(o, 14-1) \cup Added("strict", o.enumOpt)
      /\ PreserveFound(o, 5) = PreserveFound(o, 5-1) \cup Added("dtd", o.preserve)
      /\ PreserveFound(o, 6) = PreserveFound(o, 6-1) \cup Added("prefixes", o.preserve)
      /\ PreserveFound(o, 7) = PreserveFound(o, 7-1) \cup Added("lexicalValues", o.preserve)
      /\ PreserveFound(o, 8) = PreserveFound(o, 8-1) \cup Added("comments", o.preserve)
      /\ PreserveFound(o, 9) = PreserveFound(o, 9-1) \cup Added("pis", o.preserve)
  BY <1>1, FoundAdded
<1>3. /\ \A n \in {5, 6, 7, 8, 9} : EnumFound(o, n) = EnumFound(o, n-1)
      /\ \A n \in {2, 11, 12, 14} : PreserveFound(o, n) = PreserveFound(o, n-1)
  BY FoundAdded, Zenon
<1> DEFINE Enums == {"strict", "compression", "fragment", "selfContained"}
           Step(n, x) == FlagStep(o, n, x, IF x \in Enums THEN o.enumOpt ELSE o.preserve)
<1>4. Step(2, "selfContained") /\ Step(11, "compression") /\ Step(12, "fragment")
      /\ Step(14, "strict")
  BY <1>2, <1>3, FoundFlag, Zenon
<1>5. Step(5, "dtd") /\ Step(6, "prefixes") /\ Step(7, "lexicalValues")
      /\ Step(8, "comments") /\ Step(9, "pis")
  BY <1>2, <1>3, FoundFlag, Zenon
<1>6. /\ "selfContained" \in Enums /\ "compression" \in Enums /\ "fragment" \in Enums
      /\ "strict" \in Enums /\ "dtd" \notin Enums /\ "prefixes" \notin Enums
      /\ "lexicalValues" \notin Enums /\ "comments" \notin Enums /\ "pis" \notin Enums
  OBVIOUS
<1> HIDE DEF Enums
<1>7. QED
  BY <1>4, <1>5, <1>6

(* The first content is the alignment.                                      *)
LEMMA FoundAlignment ==
  ASSUME NEW o \in Options
  PROVE  /\ o.alignment = "BIT_PACKED" => Found(o, 1) = Found(o, 0)
         /\ o.alignment = "BYTE_ALIGNMENT" => Flags(Found(o, 0), "byte") = Found(o, 1)
         /\ o.alignment = "PRE_COMPRESSION" => Flags(Found(o, 0), "pre-compress") = Found(o, 1)
         /\ o.alignment \in {"BIT_PACKED", "BYTE_ALIGNMENT", "PRE_COMPRESSION"}
<1> DEFINE en == EnumFound(o, 0)
           pr == PreserveFound(o, 0)
           Rest(al) == Opt(al, en, pr, SCHEMA_ID_ABSENT, NoId, NoMap, DefaultBlockSize,
                           INDEX_MAX, INDEX_MAX)
<1>1. EnumFound(o, 1) = en /\ PreserveFound(o, 1) = pr
  <2>1. 1 - 1 = 0
    OBVIOUS
  <2>2. EnumFound(o, 1) = EnumFound(o, 1-1) /\ PreserveFound(o, 1) = PreserveFound(o, 1-1)
    BY FoundAdded, Zenon
  <2>3. QED
    BY <2>1, <2>2
<1> HIDE DEF en, pr
<1>2. Found(o, 0) = Rest("BIT_PACKED")
  BY DEF Found, en, pr
<1>3. Found(o, 1) = Rest(o.alignment)
  BY <1>1 DEF Found
<1>4. ASSUME NEW a PROVE [Rest("BIT_PACKED") EXCEPT !.alignment = a] = Rest(a)
  BY DEF Opt
<1> HIDE DEF Rest
<1>5. /\ Flags(Found(o, 0), "byte") = Rest("BYTE_ALIGNMENT")
      /\ Flags(Found(o, 0), "pre-compress") = Rest("PRE_COMPRESSION")
  BY <1>2, <1>4 DEF Flags
<1>6. o.alignment \in {"BIT_PACKED", "BYTE_ALIGNMENT", "PRE_COMPRESSION"}
  BY DEF Options
<1>7. QED
  BY <1>2, <1>3, <1>5, <1>6

(* The contents with a number.                                              *)
LEMMA FoundNumbers ==
  ASSUME NEW o \in Options
  PROVE  /\ o.valueMaxLength # INDEX_MAX =>
              ops_intData(Found(o, 2), "valueMaxLength", o.valueMaxLength) = Found(o, 3)
         /\ o.valueMaxLength = INDEX_MAX => Found(o, 3) = Found(o, 2)
         /\ o.valuePartitionCapacity # INDEX_MAX =>
              ops_intData(Found(o, 3), "valuePartitionCapacity", o.valuePartitionCapacity)
                = Found(o, 4)
         /\ o.valuePartitionCapacity = INDEX_MAX => Found(o, 4) = Found(o, 3)
         /\ o.blockSize # DefaultBlockSize =>
              ops_intData(Found(o, 9), "blockSize", o.blockSize) = Found(o, 10)
         /\ o.blockSize = DefaultBlockSize => Found(o, 10) = Found(o, 9)
<1>1. /\ EnumFound(o, 3) = EnumFound(o, 2) /\ PreserveFound(o, 3) = PreserveFound(o, 2)
      /\ EnumFound(o, 4) = EnumFound(o, 3) /\ PreserveFound(o, 4) = PreserveFound(o, 3)
      /\ EnumFound(o, 10) = EnumFound(o, 9) /\ PreserveFound(o, 10) = PreserveFound(o, 9)
  <2>1. 3-1 = 2 /\ 4-1 = 3 /\ 10-1 = 9
    OBVIOUS
  <2>2. /\ EnumFound(o, 3) = EnumFound(o, 3-1) /\ PreserveFound(o, 3) = PreserveFound(o, 3-1)
        /\ EnumFound(o, 4) = EnumFound(o, 4-1) /\ PreserveFound(o, 4) = PreserveFound(o, 4-1)
        /\ EnumFound(o, 10) = EnumFound(o, 10-1)
        /\ PreserveFound(o, 10) = PreserveFound(o, 10-1)
    BY FoundAdded, Zenon
  <2>3. QED
    BY <2>1, <2>2
<1> DEFINE e2 == EnumFound(o, 2)
           p2 == PreserveFound(o, 2)
           e9 == EnumFound(o, 9)
           p9 == PreserveFound(o, 9)
           ml == Cast(o.valueMaxLength)
           cp == Cast(o.valuePartitionCapacity)
           al == o.alignment
           mo == SCHEMA_ID_ABSENT
           id == NoId
           no == NoMap
           bs == DefaultBlockSize
           Low(m, c) == Opt(al, e2, p2, mo, id, no, bs, m, c)
           High(b) == Opt(al, e9, p9, mo, id, no, b, ml, cp)
<1> HIDE DEF e2, p2, e9, p9, ml, cp, al, mo, id, no, bs
<1>2. /\ Found(o, 2) = Low(INDEX_MAX, INDEX_MAX)
      /\ Found(o, 3) = Low(ml, INDEX_MAX)
      /\ Found(o, 4) = Low(ml, cp)
  BY <1>1 DEF Found, e2, p2, ml, cp, al, mo, id, no, bs
<1>3. Found(o, 9) = High(DefaultBlockSize) /\ Found(o, 10) = High(o.blockSize)
  BY <1>1 DEF Found, e9, p9, ml, cp, al, mo, id, no, bs
<1>4. ASSUME NEW x, NEW m, NEW c
      PROVE  /\ [Low(m, c) EXCEPT !["valueMaxLength"] = x] = Low(x, c)
             /\ [Low(m, c) EXCEPT !["valuePartitionCapacity"] = x] = Low(m, x)
  <2>1. [Low(m, c) EXCEPT !["valueMaxLength"] = x] = Low(x, c)
    BY DEF Opt
  <2>2. [Low(m, c) EXCEPT !["valuePartitionCapacity"] = x] = Low(m, x)
    BY DEF Opt
  <2>3. QED
    BY <2>1, <2>2
<1>5. ASSUME NEW x, NEW b PROVE [High(b) EXCEPT !["blockSize"] = x] = High(x)
  BY DEF Opt
<1> HIDE DEF Low, High
<1>6. /\ o.valueMaxLength = INDEX_MAX => ml = INDEX_MAX
      /\ o.valueMaxLength # INDEX_MAX => ml = o.valueMaxLength % UIntRange
      /\ o.valuePartitionCapacity = INDEX_MAX => cp = INDEX_MAX
      /\ o.valuePartitionCapacity # INDEX_MAX => cp = o.valuePartitionCapacity % UIntRange
  BY DEF Cast, ml, cp
<1>7. o.blockSize % UIntRange = o.blockSize
  <2>1. o.blockSize \in 0..UIntRange - 1 /\ UIntRange \in Nat
    BY HeaderAssumption DEF Options
  <2>2. QED
    BY <2>1
<1>8. QED
  BY <1>2, <1>3, <1>4, <1>5, <1>6, <1>7 DEF ops_intData

(* The identifier of the schema.                                            *)
LEMMA FoundIdentifier ==
  ASSUME NEW o \in Options, Identifiable(o)
  PROVE  /\ o.schemaIDMode # SCHEMA_ID_ABSENT =>
              Identified(Found(o, 12), o.schemaID) = Found(o, 13)
         /\ o.schemaIDMode = SCHEMA_ID_ABSENT => Found(o, 13) = Found(o, 12)
<1> DEFINE en == EnumFound(o, 12)
           pr == PreserveFound(o, 12)
           ml == Cast(o.valueMaxLength)
           cp == Cast(o.valuePartitionCapacity)
           Rest(mo, id) == Opt(o.alignment, en, pr, mo, id, NoMap, o.blockSize, ml, cp)
<1>1. EnumFound(o, 13) = en /\ PreserveFound(o, 13) = pr
  <2>1. 13 - 1 = 12
    OBVIOUS
  <2>2. EnumFound(o, 13) = EnumFound(o, 13-1) /\ PreserveFound(o, 13) = PreserveFound(o, 13-1)
    BY FoundAdded, Zenon
  <2>3. QED
    BY <2>1, <2>2
<1> HIDE DEF en, pr, ml, cp
<1>2. Found(o, 12) = Rest(SCHEMA_ID_ABSENT, NoId)
  BY DEF Found, en, pr, ml, cp
<1>3. Found(o, 13) = Rest(SentMode(o), o.schemaID)
  BY <1>1 DEF Found, ml, cp
<1>4. ASSUME NEW x, NEW mo, NEW id
      PROVE  /\ [Rest(mo, id) EXCEPT !.schemaIDMode = x] = Rest(x, id)
             /\ [Rest(mo, id) EXCEPT !.schemaID = x] = Rest(mo, x)
  BY DEF Opt
<1> HIDE DEF Rest
<1>5. Identified(Found(o, 12), o.schemaID) =
        IF o.schemaID = NoId THEN Rest(SCHEMA_ID_EMPTY, NoId) ELSE Rest(SCHEMA_ID_SET, o.schemaID)
  <2>1. CASE o.schemaID = NoId
    <3>1. Identified(Found(o, 12), o.schemaID) =
            [Found(o, 12) EXCEPT !.schemaIDMode = SCHEMA_ID_EMPTY]
      BY <2>1 DEF Identified, NoId
    <3>2. QED
      BY <1>2, <1>4, <2>1, <3>1
  <2>2. CASE o.schemaID # NoId
    <3>1. [Found(o, 12) EXCEPT !.schemaIDMode = SCHEMA_ID_SET] = Rest(SCHEMA_ID_SET, NoId)
      BY <1>2, <1>4
    <3>2. o.schemaID # ""
      BY <2>2 DEF NoId
    <3>3. Identified(Found(o, 12), o.schemaID) =
            [Found(o, 12) EXCEPT !.schemaIDMode = SCHEMA_ID_SET, !.schemaID = o.schemaID]
      BY <3>2 DEF Identified
    <3>4. Identified(Found(o, 12), o.schemaID) =
            [Rest(SCHEMA_ID_SET, NoId) EXCEPT !.schemaID = o.schemaID]
      BY <3>1, <3>3
    <3>5. QED
      BY <1>4, <2>2, <3>4
  <2>3. QED
    BY <2>1, <2>2
<1>6. CASE o.schemaIDMode # SCHEMA_ID_ABSENT
  BY <1>3, <1>5, <1>6 DEF SentMode, NoId
<1>7. CASE o.schemaIDMode = SCHEMA_ID_ABSENT
  <2>1. o.schemaID = ""
    BY <1>7 DEF Identifiable
  <2>2. QED
    BY <1>2, <1>3, <1>7, <2>1 DEF SentMode, NoId
<1>8. QED
  BY <1>6, <1>7

(* At the beginning the defaults are found, at the end all the flags.       *)
LEMMA FoundEnds ==
  ASSUME NEW o \in Options
  PROVE  /\ Found(o, 0) = makeDefaultOpts
         /\ EnumFound(o, 14) = o.enumOpt /\ PreserveFound(o, 14) = o.preserve
<1>1. Found(o, 0) = makeDefaultOpts
  <2>1. Found(o, 0) = Opt("BIT_PACKED", {}, {}, SCHEMA_ID_ABSENT, NoId, NoMap,
                          DefaultBlockSize, INDEX_MAX, INDEX_MAX)
    <3>1. ~(0 >= 1) /\ ~(0 >= 13) /\ ~(0 >= 10) /\ ~(0 >= 3) /\ ~(0 >= 4)
      OBVIOUS
    <3>2. EnumFound(o, 0) = {} /\ PreserveFound(o, 0) = {}
      BY FoundSets
    <3>3. QED
      BY <3>1, <3>2, Zenon DEF Found
  <2>2. QED
    BY <2>1, Zenon DEF Opt, NoMap, NoId, makeDefaultOpts
<1>2. PreserveFound(o, 14) = o.preserve
  <2>1. \A n \in 10..14 : PreserveFound(o, n) = PreserveFound(o, n-1)
    BY FoundAdded
  <2>2. /\ PreserveFound(o, 14) = PreserveFound(o, 13)
        /\ PreserveFound(o, 13) = PreserveFound(o, 12)
        /\ PreserveFound(o, 12) = PreserveFound(o, 11)
        /\ PreserveFound(o, 11) = PreserveFound(o, 10)
        /\ PreserveFound(o, 10) = PreserveFound(o, 9)
    BY <2>1
  <2>3. QED
    BY <2>2, FoundSets
<1>3. QED
  BY <1>1, <1>2, FoundSets

-----------------------------------------------------------------------------
(* The context of a child is the place of the last child before it.         *)

Context(P, i, m) ==
  m \in {0} \cup {n \in P : n < i} /\ \A n \in {0} \cup {n \in P : n < i} : m >= n

(* The context is the maximum that RuleContext takes.                       *)
LEMMA ContextIs ==
  ASSUME NEW P \in SUBSET Nat, NEW i, NEW m, Context(P, i, m)
  PROVE  RuleContext(P, i) = m
<1> DEFINE A == {0} \cup {n \in P : n < i}
<1>0. m \in A /\ \A n \in A : m >= n
  BY Zenon DEF Context
<1>9. A \subseteq Nat
  <2>1. 0 \in Nat
    OBVIOUS
  <2>2. QED
    BY <2>1, Zenon
<1>1. A \subseteq Nat /\ m \in A /\ \A n \in A : m >= n
  BY <1>0, <1>9
<1>2. RuleContext(P, i) = CHOOSE x \in A : \A y \in A : x >= y
  BY DEF RuleContext, Max
<1> HIDE DEF A
<1>3. \A x \in A : (\A y \in A : x >= y) => x = m
  BY <1>1
<1>4. QED
  BY <1>1, <1>2, <1>3

(* How the context changes from one position to the next.                   *)
LEMMA ContextMoves ==
  ASSUME NEW P \in SUBSET Nat, 0 \notin P, NEW i \in Nat, i > 0, NEW m, Context(P, i, m)
  PROVE  Context(P, i + 1, IF i \in P THEN i ELSE m)
<1> DEFINE A == {0} \cup {n \in P : n < i}
           B == {0} \cup {n \in P : n < i + 1}
<1>0. m \in A /\ \A n \in A : m >= n
  BY Zenon DEF Context
<1>9. A \subseteq Nat
  <2>1. 0 \in Nat
    OBVIOUS
  <2>2. QED
    BY <2>1, Zenon
<1>1. A \subseteq Nat /\ m \in A /\ \A n \in A : m >= n
  BY <1>0, <1>9
<1>2. B = IF i \in P THEN A \cup {i} ELSE A
  <2>1. \A n \in P : n < i + 1 <=> n < i \/ n = i
    OBVIOUS
  <2>2. QED
    BY <2>1
<1>3. \A n \in A : i >= n
  OBVIOUS
<1> HIDE DEF A
<1>4. CASE i \in P
  <2>1. i \in B /\ \A n \in B : i >= n
    BY <1>2, <1>3, <1>4
  <2> HIDE DEF B
  <2>2. QED
    BY <1>4, <2>1 DEF Context, B
<1>5. CASE i \notin P
  <2>1. m \in B /\ \A n \in B : m >= n
    BY <1>1, <1>2, <1>5
  <2> HIDE DEF B
  <2>2. QED
    BY <1>5, <2>1 DEF Context, B
<1>6. QED
  BY <1>4, <1>5

(* The contexts of up to five children, each from the one before.           *)
After(P, i, k) == IF i \in P THEN i ELSE k

(* The same for the contexts of a list of children.                         *)
LEMMA Contexts ==
  ASSUME NEW P \in SUBSET (1..5)
  PROVE  /\ RuleContext(P, 1) = 0
         /\ \A i \in 1..5 : RuleContext(P, i + 1) = After(P, i, RuleContext(P, i))
         /\ \A i \in 1..6 : RuleContext(P, i) \in 0..i-1
<1>1. P \in SUBSET Nat /\ 0 \notin P
  OBVIOUS
<1>2. Context(P, 1, 0)
  BY DEF Context
<1>3. ASSUME NEW i \in Nat, i > 0, NEW k \in 0..i-1, Context(P, i, k)
      PROVE  /\ Context(P, i + 1, After(P, i, k)) /\ After(P, i, k) \in 0..i
             /\ RuleContext(P, i) = k /\ RuleContext(P, i + 1) = After(P, i, RuleContext(P, i))
  <2>1. RuleContext(P, i) = k
    BY <1>1, <1>3, ContextIs
  <2>2. Context(P, i + 1, After(P, i, k))
    BY <1>1, <1>3, ContextMoves DEF After
  <2>3. RuleContext(P, i + 1) = After(P, i, k)
    BY <1>1, <2>2, ContextIs
  <2>4. QED
    BY <2>1, <2>2, <2>3 DEF After
<1> DEFINE R(i) == /\ Context(P, i, RuleContext(P, i)) /\ RuleContext(P, i) \in 0..i-1
           Q(i) == RuleContext(P, i + 1) = After(P, i, RuleContext(P, i))
<1>4. ASSUME NEW i \in Nat, i > 0, R(i) PROVE R(i + 1) /\ Q(i)
  <2>1. i + 1 - 1 = i
    OBVIOUS
  <2>2. QED
    BY <1>3, <1>4, <2>1
<1>5. R(1) /\ RuleContext(P, 1) = 0
  BY <1>1, <1>2, ContextIs
<1> HIDE DEF R, Q
<1>6. R(2) /\ Q(1)
  BY <1>4, <1>5
<1>7. R(3) /\ Q(2)
  BY <1>4, <1>6
<1>8. R(4) /\ Q(3)
  BY <1>4, <1>7
<1>9. R(5) /\ Q(4)
  BY <1>4, <1>8
<1>10. R(6) /\ Q(5)
  BY <1>4, <1>9
<1>11. \A i \in 1..5 : Q(i)
  BY <1>6, <1>7, <1>8, <1>9, <1>10
<1>12. \A i \in 1..6 : R(i)
  BY <1>5, <1>6, <1>7, <1>8, <1>9, <1>10
<1>13. QED
  BY <1>5, <1>11, <1>12 DEF Q, R

-----------------------------------------------------------------------------
(* The parts of the document.                                               *)

(* An empty child that stands for one option.                               *)
LEMMA EmptyPart ==
  ASSUME NEW e \in Elems, NEW k \in Nat, NEW t \in Seq(NodeT), NEW bits, NEW v,
         NEW c \in Empties, NEW i \in Nat, Code(e, k, bits, v, Prod(c, i)),
         NEW o, NEW n, NEW n0, n0 = n - 1, NEW A, FlagStep(o, n, c, A),
         NEW P, i \in P <=> c \in A
  PROVE  Part(c \in A, EmptyElement(bits, v), Push(e, k, t), Found(o, n0),
              Push(e, After(P, i, k), t), Found(o, n), 2)
<1>1. /\ Agree(Push(e, k, t), Found(o, n0), EmptyElement(bits, v), Push(e, i, t),
               Flags(Found(o, n0), c), 2)
      /\ EmptyElement(bits, v) \in Seq(CallT)
  BY EmptyChild
<1>2. After(P, i, k) = IF c \in A THEN i ELSE k
  BY DEF After
<1>3. /\ c \in A => Flags(Found(o, n0), c) = Found(o, n)
      /\ c \notin A => Found(o, n) = Found(o, n0)
  BY DEF FlagStep
<1>4. CASE c \in A
  BY <1>1, <1>2, <1>3, <1>4 DEF Part
<1>5. CASE c \notin A
  BY <1>2, <1>3, <1>5 DEF Part
<1>6. QED
  BY <1>4, <1>5

(* A child with a number.                                                   *)
LEMMA NumberPart ==
  ASSUME NEW e \in Elems, NEW k \in Nat, NEW t \in Seq(NodeT), NEW bits, NEW v,
         NEW c \in Values, NEW i \in Nat, Code(e, k, bits, v, Prod(c, i)),
         NEW val \in Int, NEW o, NEW o2, NEW cond,
         cond => ops_intData(o, c, val) = o2, ~cond => o2 = o,
         NEW P, i \in P <=> cond
  PROVE  Part(cond, ValueElement(bits, v, "int", val), Push(e, k, t), o,
              Push(e, After(P, i, k), t), o2, 3)
<1>1. /\ Agree(Push(e, k, t), o, ValueElement(bits, v, "int", val), Push(e, i, t),
               ops_intData(o, c, val), 3)
      /\ ValueElement(bits, v, "int", val) \in Seq(CallT)
  BY ValueChild
<1>2. CASE cond
  BY <1>1, <1>2 DEF After, Part
<1>3. CASE ~cond
  BY <1>3 DEF After, Part
<1>4. QED
  BY <1>2, <1>3

(* The end of an element, and the start of one that sets no option.         *)
LEMMA LastAgrees ==
  ASSUME NEW e \in Elems, NEW k \in Nat, NEW t \in Seq(NodeT), NEW v \in 0..7,
         Code(e, k, W(v), v, EE), NEW o
  PROVE  Agree(Push(e, k, t), o, LastEv(v), t, o, 1) /\ LastEv(v) \in Seq(CallT)
<1>1. LastEv(v) = <<Ev(W(v), v)>>
  BY SmallWidths DEF LastEv, W
<1>2. QED
  BY <1>1, EndAgrees

Structure == {"header", "lesscommon", "common", "uncommon", "preserve", "alignment"}

(* Opening an element that sets no option.                                  *)
LEMMA OpenAgrees ==
  ASSUME NEW e \in Elems, NEW k \in Nat, NEW t \in Seq(NodeT), NEW bits, NEW v,
         NEW c \in Structure, NEW n \in Nat, Code(e, k, bits, v, Prod(c, n)), NEW o
  PROVE  /\ Agree(Push(e, k, t), o, <<Ev(bits, v)>>, Push(c, 0, Push(e, n, t)), o, 1)
         /\ <<Ev(bits, v)>> \in Seq(CallT)
<1>1. c \in Elems /\ Flags(o, c) = o
  BY DEF Structure, Elems, Flags
<1>2. QED
  BY <1>1, StartAgrees

(* Stacks stay stacks.                                                      *)
LEMMA PushTypes ==
  ASSUME NEW e \in Elems, NEW k \in Nat, NEW t \in Seq(NodeT)
  PROVE  Push(e, k, t) \in Seq(NodeT)
<1>1. [elem |-> e, k |-> k] \in NodeT
  BY DEF NodeT
<1>2. QED
  BY <1>1 DEF Push

(* The codes of the children of the elements with three and with five.      *)
LEMMA KidCodes ==
  /\ \A k \in 0..0 : Code("common", k, 2, 0, Prod("compression", 1))
  /\ \A k \in 0..1 : Code("common", k, 2, 1-k, Prod("fragment", 2))
  /\ \A k \in 0..2 : Code("common", k, 2 - Num(k = 2), 2-k, Prod("schemaId", 3))
  /\ \A k \in 0..0 : Code("lesscommon", k, 2, 0, Prod("uncommon", 1))
  /\ \A k \in 0..1 : Code("lesscommon", k, 2, 1-k, Prod("preserve", 2))
  /\ \A k \in 0..2 : Code("lesscommon", k, 2 - Num(k = 2), 2-k, Prod("blockSize", 3))
  /\ \A k \in 0..0 : Code("header", k, 2, 0, Prod("lesscommon", 1))
  /\ \A k \in 0..1 : Code("header", k, 2, 1-k, Prod("common", 2))
  /\ \A k \in 0..2 : Code("header", k, 2 - Num(k = 2), 2-k, Prod("strict", 3))
  /\ \A e \in {"header", "lesscommon", "common"}, k \in 0..3 : Code(e, k, W(3-k), 3-k, EE)
<1> DEFINE Three(e) == \A k \in 0..3 :
             /\ \A i \in k+1..3 : Code(e, k, W(3-k), i-k-1, Prod(Children(e)[i], i))
             /\ Code(e, k, W(3-k), 3-k, EE)
<1>1. Three("header") /\ Three("lesscommon") /\ Three("common")
  BY ChildCodes
<1>2. ASSUME NEW e, Three(e)
      PROVE  /\ \A k \in 0..0 : Code(e, k, 2, 0, Prod(Children(e)[1], 1))
             /\ \A k \in 0..1 : Code(e, k, 2, 1-k, Prod(Children(e)[2], 2))
             /\ \A k \in 0..2 : Code(e, k, 2 - Num(k = 2), 2-k, Prod(Children(e)[3], 3))
             /\ \A k \in 0..3 : Code(e, k, W(3-k), 3-k, EE)
  <2> DEFINE C(k, i) == Code(e, k, W(3-k), i-k-1, Prod(Children(e)[i], i))
  <2>0. /\ \A k \in 0..3 : \A i \in k+1..3 : C(k, i)
        /\ \A k \in 0..3 : Code(e, k, W(3-k), 3-k, EE)
    BY <1>2
  <2> HIDE DEF C
  <2>1. C(0, 1) /\ C(0, 2) /\ C(1, 2) /\ C(0, 3) /\ C(1, 3) /\ C(2, 3)
    BY <2>0
  <2>2. /\ W(3-0) = 2 /\ W(3-1) = 2 /\ W(3-2) = 1
        /\ 2 - Num(0 = 2) = 2 /\ 2 - Num(1 = 2) = 2 /\ 2 - Num(2 = 2) = 1
        /\ 1-0-1 = 0 /\ 2-0-1 = 1-0 /\ 2-1-1 = 1-1 /\ 3-0-1 = 2-0 /\ 3-1-1 = 2-1
        /\ 3-2-1 = 2-2
    BY DEF W, Num
  <2>3. /\ \A k \in 0..0 : k = 0
        /\ \A k \in 0..1 : k = 0 \/ k = 1
        /\ \A k \in 0..2 : k = 0 \/ k = 1 \/ k = 2
    OBVIOUS
  <2>4. Code(e, 0, 2, 0, Prod(Children(e)[1], 1))
    BY <2>1, <2>2 DEF C
  <2>5. Code(e, 0, 2, 1-0, Prod(Children(e)[2], 2)) /\ Code(e, 1, 2, 1-1, Prod(Children(e)[2], 2))
    BY <2>1, <2>2 DEF C
  <2>6. /\ Code(e, 0, 2 - Num(0 = 2), 2-0, Prod(Children(e)[3], 3))
        /\ Code(e, 1, 2 - Num(1 = 2), 2-1, Prod(Children(e)[3], 3))
        /\ Code(e, 2, 2 - Num(2 = 2), 2-2, Prod(Children(e)[3], 3))
    BY <2>1, <2>2 DEF C
  <2>7. QED
    BY <2>0, <2>3, <2>4, <2>5, <2>6, Zenon
<1> HIDE DEF Three
<1>3. /\ Children("header")[1] = "lesscommon" /\ Children("header")[2] = "common"
      /\ Children("header")[3] = "strict"
      /\ Children("lesscommon")[1] = "uncommon" /\ Children("lesscommon")[2] = "preserve"
      /\ Children("lesscommon")[3] = "blockSize"
      /\ Children("common")[1] = "compression" /\ Children("common")[2] = "fragment"
      /\ Children("common")[3] = "schemaId"
  BY ChildNames
<1>4. /\ \A k \in 0..0 : Code("common", k, 2, 0, Prod("compression", 1))
      /\ \A k \in 0..1 : Code("common", k, 2, 1-k, Prod("fragment", 2))
      /\ \A k \in 0..2 : Code("common", k, 2 - Num(k = 2), 2-k, Prod("schemaId", 3))
      /\ \A k \in 0..3 : Code("common", k, W(3-k), 3-k, EE)
  BY <1>1, <1>2, <1>3, Zenon
<1>5. /\ \A k \in 0..0 : Code("lesscommon", k, 2, 0, Prod("uncommon", 1))
      /\ \A k \in 0..1 : Code("lesscommon", k, 2, 1-k, Prod("preserve", 2))
      /\ \A k \in 0..2 : Code("lesscommon", k, 2 - Num(k = 2), 2-k, Prod("blockSize", 3))
      /\ \A k \in 0..3 : Code("lesscommon", k, W(3-k), 3-k, EE)
  BY <1>1, <1>2, <1>3, Zenon
<1>6. /\ \A k \in 0..0 : Code("header", k, 2, 0, Prod("lesscommon", 1))
      /\ \A k \in 0..1 : Code("header", k, 2, 1-k, Prod("common", 2))
      /\ \A k \in 0..2 : Code("header", k, 2 - Num(k = 2), 2-k, Prod("strict", 3))
      /\ \A k \in 0..3 : Code("header", k, W(3-k), 3-k, EE)
  BY <1>1, <1>2, <1>3, Zenon
<1>7. QED
  BY <1>4, <1>5, <1>6, Zenon

(* What initStream lets through and the code of the nil attribute does not  *)
(* concern.                                                                 *)
NotNil(o) == o.schemaIDMode = SCHEMA_ID_EMPTY \/ Len(o.schemaID) # SCHEMA_ID_NIL

(* <common>: behind <lesscommon>, if that was there.                        *)
LEMMA CommonAgrees ==
  ASSUME NEW o \in Options, Identifiable(o), o.schemaIDMode # SCHEMA_ID_ABSENT => NotNil(o),
         NEW t \in Seq(NodeT)
  PROVE  /\ Agree(Push("header", Num(HasLesscommon(o)), t), Found(o, 10), common(o),
                  Push("header", 2, t), Found(o, 13), 9)
         /\ common(o) \in Seq(CallT)
<1> DEFINE P == {n \in 1..3 : \/ n = 1 /\ "compression" \in o.enumOpt
                              \/ n = 2 /\ "fragment" \in o.enumOpt
                              \/ n = 3 /\ o.schemaIDMode # SCHEMA_ID_ABSENT}
           rc(i) == RuleContext(P, i)
           less == Num(HasLesscommon(o))
           start == Push("header", less, t)
           u == Push("header", 2, t)
           N(k) == Push("common", k, u)
           p1 == "compression" \in o.enumOpt
           p2 == "fragment" \in o.enumOpt
           p3 == o.schemaIDMode # SCHEMA_ID_ABSENT
           c0 == <<Ev(2, 1 - less)>>
           c1 == EmptyElement(2, 0)
           c2 == EmptyElement(2, 1 - rc(2))
           c3 == schemaId(o, 2 - Num(rc(3) = 2), 2 - rc(3))
           c4 == LastEv(3 - rc(4))
           d1 == c0 \o When(p1, c1)
           d2 == d1 \o When(p2, c2)
           d3 == d2 \o When(p3, c3)
<1>1. common(o) = d3 \o c4
  BY DEF common
<1>2. /\ P \in SUBSET (1..5) /\ (1 \in P <=> p1) /\ (2 \in P <=> p2) /\ (3 \in P <=> p3)
  OBVIOUS
<1> HIDE DEF P
<1>3. /\ rc(1) = 0 /\ rc(2) = After(P, 1, 0) /\ rc(3) = After(P, 2, rc(2))
      /\ rc(4) = After(P, 3, rc(3))
      /\ rc(2) \in 0..1 /\ rc(3) \in 0..2 /\ rc(4) \in 0..3
  <2>1. 1 + 1 = 2 /\ 2 + 1 = 3 /\ 3 + 1 = 4 /\ 2 - 1 = 1 /\ 3 - 1 = 2 /\ 4 - 1 = 3
    OBVIOUS
  <2>2. rc(1) = 0 /\ rc(1+1) = After(P, 1, rc(1)) /\ rc(2+1) = After(P, 2, rc(2))
        /\ rc(3+1) = After(P, 3, rc(3))
        /\ rc(2) \in 0..2-1 /\ rc(3) \in 0..3-1 /\ rc(4) \in 0..4-1
    BY <1>2, Contexts
  <2> HIDE DEF rc
  <2>3. QED
    BY <2>1, <2>2
<1> HIDE DEF rc
<1>4. less \in 0..1
  BY DEF Num
<1> HIDE DEF less
<1>5. /\ {"header", "common"} \subseteq Elems /\ "common" \in Structure
      /\ {"compression", "fragment"} \subseteq Empties
  BY DEF Elems, Structure, Empties
<1>6. u \in Seq(NodeT) /\ start \in Seq(NodeT)
  BY <1>4, <1>5, PushTypes
<1> HIDE DEF u
<1>7. Agree(start, Found(o, 10), c0, N(0), Found(o, 10), 1) /\ c0 \in Seq(CallT)
  <2>1. Code("header", less, 2, 1 - less, Prod("common", 2))
    BY <1>4, KidCodes
  <2>2. less \in Nat /\ 2 \in Nat
    BY <1>4
  <2>3. QED
    BY <1>5, <2>1, <2>2, OpenAgrees DEF u
<1>8. Part(p1, c1, N(0), Found(o, 10), N(rc(2)), Found(o, 11), 2)
  <2>1. Code("common", 0, 2, 0, Prod("compression", 1))
    BY KidCodes
  <2>2. 0 \in Nat /\ 1 \in Nat /\ 11 - 1 = 10
    OBVIOUS
  <2>3. Part(p1, c1, N(0), Found(o, 10), N(After(P, 1, 0)), Found(o, 11), 2)
    BY <1>2, <1>5, <1>6, <2>1, <2>2, FlagSteps, EmptyPart
  <2>4. QED
    BY <1>3, <2>3
<1>9. Part(p2, c2, N(rc(2)), Found(o, 11), N(rc(3)), Found(o, 12), 2)
  <2>1. Code("common", rc(2), 2, 1 - rc(2), Prod("fragment", 2))
    BY <1>3, KidCodes
  <2>2. rc(2) \in Nat /\ 2 \in Nat /\ 12 - 1 = 11
    BY <1>3
  <2>3. Part(p2, c2, N(rc(2)), Found(o, 11), N(After(P, 2, rc(2))), Found(o, 12), 2)
    BY <1>2, <1>5, <1>6, <2>1, <2>2, FlagSteps, EmptyPart
  <2>4. QED
    BY <1>3, <2>3
<1>10. Part(p3, c3, N(rc(3)), Found(o, 12), N(rc(4)), Found(o, 13), 3)
  <2>1. Code("common", rc(3), 2 - Num(rc(3) = 2), 2 - rc(3), Prod("schemaId", 3))
    BY <1>3, KidCodes
  <2>2. rc(3) \in Nat /\ 3 \in Nat
    BY <1>3
  <2>3. CASE p3
    <3>1. c3 = ValueElement(2 - Num(rc(3) = 2), 2 - rc(3), "string", o.schemaID)
      BY <2>3, Zenon DEF schemaId, NotNil, Identifiable
    <3>2. o.schemaID \in ValT
      <4>1. o.schemaID \in STRING
        BY DEF Options
      <4>2. QED
        BY <4>1, Zenon DEF ValT
    <3>3. Identified(Found(o, 12), o.schemaID) = Found(o, 13)
      BY <2>3, FoundIdentifier
    <3>4. /\ Agree(N(rc(3)), Found(o, 12),
                   ValueElement(2 - Num(rc(3) = 2), 2 - rc(3), "string", o.schemaID),
                   N(3), Identified(Found(o, 12), o.schemaID), 3)
          /\ ValueElement(2 - Num(rc(3) = 2), 2 - rc(3), "string", o.schemaID) \in Seq(CallT)
      BY <1>5, <1>6, <2>1, <2>2, <3>2, SchemaIdChild
    <3>5. rc(4) = 3
      BY <1>2, <1>3, <2>3 DEF After
    <3>6. QED
      BY <2>3, <3>1, <3>3, <3>4, <3>5 DEF Part
  <2>4. CASE ~p3
    <3>1. Found(o, 13) = Found(o, 12)
      BY <2>4, FoundIdentifier
    <3>2. rc(4) = rc(3)
      BY <1>2, <1>3, <2>4 DEF After
    <3>3. QED
      BY <2>4, <3>1, <3>2 DEF Part
  <2>5. QED
    BY <2>3, <2>4
<1>11. Agree(N(rc(4)), Found(o, 13), c4, u, Found(o, 13), 1) /\ c4 \in Seq(CallT)
  <2>1. Code("common", rc(4), W(3 - rc(4)), 3 - rc(4), EE)
    BY <1>3, KidCodes
  <2>2. rc(4) \in Nat /\ 3 - rc(4) \in 0..7
    BY <1>3
  <2>3. QED
    BY <1>5, <1>6, <2>1, <2>2, LastAgrees
<1> HIDE DEF start, N, p1, p2, p3, c0, c1, c2, c3, c4
<1> USE DEF u
<1>12. Agree(start, Found(o, 10), d1, N(rc(2)), Found(o, 11), 1 + 2) /\ d1 \in Seq(CallT)
  BY <1>7, <1>8, AgreeThenWhen
<1> HIDE DEF d1
<1>13. /\ Agree(start, Found(o, 10), d2, N(rc(3)), Found(o, 12), (1 + 2) + 2)
       /\ d2 \in Seq(CallT)
  BY <1>9, <1>12, AgreeThenWhen
<1> HIDE DEF d2
<1>14. /\ Agree(start, Found(o, 10), d3, N(rc(4)), Found(o, 13), ((1 + 2) + 2) + 3)
       /\ d3 \in Seq(CallT)
  BY <1>10, <1>13, AgreeThenWhen
<1> HIDE DEF d3
<1>15. Agree(start, Found(o, 10), d3 \o c4, u, Found(o, 13), (((1 + 2) + 2) + 3) + 1)
  BY <1>11, <1>14, AgreeOn
<1>16. (((1 + 2) + 2) + 3) + 1 = 9
  OBVIOUS
<1>17. Agree(start, Found(o, 10), common(o), u, Found(o, 13), 9)
  BY <1>1, <1>15, <1>16
<1>18. common(o) \in Seq(CallT)
  BY <1>1, <1>11, <1>14
<1>19. QED
  BY <1>17, <1>18 DEF start, u, less

(* The same for the elements with five children.                            *)
LEMMA FiveKidCodes ==
  /\ \A k \in 0..0 : Code("preserve", k, 3, 0, Prod("dtd", 1))
  /\ \A k \in 0..1 : Code("preserve", k, 3, 1-k, Prod("prefixes", 2))
  /\ \A k \in 0..2 : Code("preserve", k, 3 - Num(k = 2), 2-k, Prod("lexicalValues", 3))
  /\ \A k \in 0..3 : Code("preserve", k, 3 - Num(3-k < 2), 3-k, Prod("comments", 4))
  /\ \A k \in 0..4 : Code("preserve", k, 3 - Num(4-k < 3) - Num(4-k = 0), 4-k, Prod("pis", 5))
  /\ \A k \in 0..5 : Code("preserve", k, W(5-k), 5-k, EE)
  /\ \A k \in 0..0 : Code("uncommon", k, 3, 0, Prod("alignment", 1))
  /\ \A k \in 0..1 : Code("uncommon", k, 3, 1-k, Prod("selfContained", 2))
  /\ \A k \in 0..2 : Code("uncommon", k, 3 - Num(k = 2), 2-k, Prod("valueMaxLength", 3))
  /\ \A k \in 0..3 : Code("uncommon", k, 3 - Num(3-k < 2), 3-k,
                          Prod("valuePartitionCapacity", 4))
  /\ \A k \in 0..4 : Code("uncommon", k, W(UncommonEnd(k)), UncommonEnd(k), EE)
<1> DEFINE C(e, k, i) == Code(e, k, IF e = "uncommon" /\ k = 0 THEN 3 ELSE W(5-k), i-k-1,
                              Prod(Children(e)[i], i))
<1>1. \A k \in 0..5 : \A i \in k+1..5 : C("preserve", k, i)
  BY ChildCodes
<1>2. \A k \in 1..4 : \A i \in k+1..5 : C("uncommon", k, i)
  BY ChildCodes
<1>3. \A i \in 1..5 : C("uncommon", 0, i)
  <2>1. \A i \in 1..5 : i - 0 - 1 = i - 1
    OBVIOUS
  <2>2. QED
    BY <2>1, FirstUncommonCodes
<1> HIDE DEF C
<1>4. ASSUME NEW e \in {"preserve", "uncommon"}
      PROVE  /\ C(e, 0, 1)
             /\ C(e, 0, 2) /\ C(e, 1, 2)
             /\ C(e, 0, 3) /\ C(e, 1, 3) /\ C(e, 2, 3)
             /\ C(e, 0, 4) /\ C(e, 1, 4) /\ C(e, 2, 4) /\ C(e, 3, 4)
             /\ C(e, 0, 5) /\ C(e, 1, 5) /\ C(e, 2, 5) /\ C(e, 3, 5) /\ C(e, 4, 5)
  <2>1. CASE e = "preserve"
    BY <1>1, <2>1
  <2>2. CASE e = "uncommon"
    BY <1>2, <1>3, <2>2
  <2>3. QED
    BY <2>1, <2>2
<1>5. /\ W(5-0) = 3 /\ W(5-1) = 3 /\ W(5-2) = 2 /\ W(5-3) = 2 /\ W(5-4) = 1
      /\ 1-0-1 = 0
      /\ 2-0-1 = 1-0 /\ 2-1-1 = 1-1
      /\ 3-0-1 = 2-0 /\ 3-1-1 = 2-1 /\ 3-2-1 = 2-2
      /\ 4-0-1 = 3-0 /\ 4-1-1 = 3-1 /\ 4-2-1 = 3-2 /\ 4-3-1 = 3-3
      /\ 5-0-1 = 4-0 /\ 5-1-1 = 4-1 /\ 5-2-1 = 4-2 /\ 5-3-1 = 4-3 /\ 5-4-1 = 4-4
  BY DEF W
<1>6. /\ 3 - Num(0 = 2) = 3 /\ 3 - Num(1 = 2) = 3 /\ 3 - Num(2 = 2) = 2
      /\ 3 - Num(3-0 < 2) = 3 /\ 3 - Num(3-1 < 2) = 3 /\ 3 - Num(3-2 < 2) = 2
      /\ 3 - Num(3-3 < 2) = 2
      /\ 3 - Num(4-0 < 3) - Num(4-0 = 0) = 3 /\ 3 - Num(4-1 < 3) - Num(4-1 = 0) = 3
      /\ 3 - Num(4-2 < 3) - Num(4-2 = 0) = 2 /\ 3 - Num(4-3 < 3) - Num(4-3 = 0) = 2
      /\ 3 - Num(4-4 < 3) - Num(4-4 = 0) = 1
  BY DEF Num
<1>7. /\ \A k \in 0..0 : k = 0
      /\ \A k \in 0..1 : k = 0 \/ k = 1
      /\ \A k \in 0..2 : k = 0 \/ k = 1 \/ k = 2
      /\ \A k \in 0..3 : k = 0 \/ k = 1 \/ k = 2 \/ k = 3
      /\ \A k \in 0..4 : k = 0 \/ k = 1 \/ k = 2 \/ k = 3 \/ k = 4
  OBVIOUS
<1>8. ASSUME NEW e \in {"preserve", "uncommon"}
      PROVE  /\ \A k \in 0..0 : Code(e, k, 3, 0, Prod(Children(e)[1], 1))
             /\ \A k \in 0..1 : Code(e, k, 3, 1-k, Prod(Children(e)[2], 2))
             /\ \A k \in 0..2 : Code(e, k, 3 - Num(k = 2), 2-k, Prod(Children(e)[3], 3))
             /\ \A k \in 0..3 : Code(e, k, 3 - Num(3-k < 2), 3-k, Prod(Children(e)[4], 4))
             /\ \A k \in 0..4 : Code(e, k, 3 - Num(4-k < 3) - Num(4-k = 0), 4-k,
                                     Prod(Children(e)[5], 5))
  <2>1. \A k \in 0..0 : Code(e, k, 3, 0, Prod(Children(e)[1], 1))
    <3>1. Code(e, 0, 3, 0, Prod(Children(e)[1], 1))
      BY <1>4, <1>5 DEF C
    <3>2. QED
      BY <1>7, <3>1, Zenon
  <2>2. \A k \in 0..1 : Code(e, k, 3, 1-k, Prod(Children(e)[2], 2))
    <3>1. Code(e, 0, 3, 1-0, Prod(Children(e)[2], 2)) /\ Code(e, 1, 3, 1-1, Prod(Children(e)[2], 2))
      BY <1>4, <1>5 DEF C
    <3>2. QED
      BY <1>7, <3>1, Zenon
  <2>3. \A k \in 0..2 : Code(e, k, 3 - Num(k = 2), 2-k, Prod(Children(e)[3], 3))
    <3>1. /\ Code(e, 0, 3 - Num(0 = 2), 2-0, Prod(Children(e)[3], 3))
          /\ Code(e, 1, 3 - Num(1 = 2), 2-1, Prod(Children(e)[3], 3))
          /\ Code(e, 2, 3 - Num(2 = 2), 2-2, Prod(Children(e)[3], 3))
      BY <1>4, <1>5, <1>6 DEF C
    <3>2. QED
      BY <1>7, <3>1, Zenon
  <2>4. \A k \in 0..3 : Code(e, k, 3 - Num(3-k < 2), 3-k, Prod(Children(e)[4], 4))
    <3>1. /\ Code(e, 0, 3 - Num(3-0 < 2), 3-0, Prod(Children(e)[4], 4))
          /\ Code(e, 1, 3 - Num(3-1 < 2), 3-1, Prod(Children(e)[4], 4))
          /\ Code(e, 2, 3 - Num(3-2 < 2), 3-2, Prod(Children(e)[4], 4))
          /\ Code(e, 3, 3 - Num(3-3 < 2), 3-3, Prod(Children(e)[4], 4))
      BY <1>4, <1>5, <1>6 DEF C
    <3>2. QED
      BY <1>7, <3>1, Zenon
  <2>5. \A k \in 0..4 : Code(e, k, 3 - Num(4-k < 3) - Num(4-k = 0), 4-k,
                             Prod(Children(e)[5], 5))
    <3>1. /\ Code(e, 0, 3 - Num(4-0 < 3) - Num(4-0 = 0), 4-0, Prod(Children(e)[5], 5))
          /\ Code(e, 1, 3 - Num(4-1 < 3) - Num(4-1 = 0), 4-1, Prod(Children(e)[5], 5))
          /\ Code(e, 2, 3 - Num(4-2 < 3) - Num(4-2 = 0), 4-2, Prod(Children(e)[5], 5))
          /\ Code(e, 3, 3 - Num(4-3 < 3) - Num(4-3 = 0), 4-3, Prod(Children(e)[5], 5))
          /\ Code(e, 4, 3 - Num(4-4 < 3) - Num(4-4 = 0), 4-4, Prod(Children(e)[5], 5))
      BY <1>4, <1>5, <1>6 DEF C
    <3>2. QED
      BY <1>7, <3>1, Zenon
  <2>6. QED
    BY <2>1, <2>2, <2>3, <2>4, <2>5, Zenon
<1>9. \A k \in 0..4 : Code("uncommon", k, W(UncommonEnd(k)), UncommonEnd(k), EE)
  <2>1. /\ UncommonEnd(0) = 6 /\ W(6) = 3
        /\ \A k \in 1..4 : UncommonEnd(k) = 5 - k
        /\ \A k \in 0..4 : k = 0 \/ k \in 1..4
    BY DEF UncommonEnd, Num, W
  <2>2. Code("uncommon", 0, 3, 6, EE)
    BY FirstUncommonCodes
  <2>3. \A k \in 1..4 : Code("uncommon", k, W(5-k), 5-k, EE)
    BY ChildCodes
  <2>4. QED
    BY <2>1, <2>2, <2>3
<1>10. /\ Children("preserve")[1] = "dtd" /\ Children("preserve")[2] = "prefixes"
       /\ Children("preserve")[3] = "lexicalValues" /\ Children("preserve")[4] = "comments"
       /\ Children("preserve")[5] = "pis"
       /\ Children("uncommon")[1] = "alignment" /\ Children("uncommon")[2] = "selfContained"
       /\ Children("uncommon")[3] = "valueMaxLength"
       /\ Children("uncommon")[4] = "valuePartitionCapacity"
  BY ChildNames
<1>11. \A k \in 0..5 : Code("preserve", k, W(5-k), 5-k, EE)
  BY ChildCodes
<1>12. "preserve" \in {"preserve", "uncommon"} /\ "uncommon" \in {"preserve", "uncommon"}
  OBVIOUS
<1>13. QED
  BY <1>8, <1>9, <1>10, <1>11, <1>12, Zenon

(* <preserve>: behind <uncommon>, if that was there.                        *)
LEMMA PreserveAgrees ==
  ASSUME NEW o \in Options, NEW t \in Seq(NodeT)
  PROVE  /\ Agree(Push("lesscommon", Num(HasUncommon(o)), t), Found(o, 4), preserve(o),
                  Push("lesscommon", 2, t), Found(o, 9), 12)
         /\ preserve(o) \in Seq(CallT)
<1> DEFINE A == o.preserve
           P == {n \in 1..5 : Children("preserve")[n] \in A}
           rc(i) == RuleContext(P, i)
           un == Num(HasUncommon(o))
           start == Push("lesscommon", un, t)
           u == Push("lesscommon", 2, t)
           N(k) == Push("preserve", k, u)
           c0 == <<Ev(2, 1 - un)>>
           c1 == EmptyElement(3, 0)
           c2 == EmptyElement(3, 1 - rc(2))
           c3 == EmptyElement(3 - Num(rc(3) = 2), 2 - rc(3))
           c4 == EmptyElement(3 - Num(3 - rc(4) < 2), 3 - rc(4))
           c5 == EmptyElement(3 - Num(4 - rc(5) < 3) - Num(4 - rc(5) = 0), 4 - rc(5))
           c6 == LastEv(5 - rc(6))
           d1 == c0 \o When("dtd" \in A, c1)
           d2 == d1 \o When("prefixes" \in A, c2)
           d3 == d2 \o When("lexicalValues" \in A, c3)
           d4 == d3 \o When("comments" \in A, c4)
           d5 == d4 \o When("pis" \in A, c5)
<1>1. preserve(o) = d5 \o c6
  BY DEF preserve, CommentsBits
<1>2. /\ P \in SUBSET (1..5)
      /\ 1 \in P <=> "dtd" \in A
      /\ 2 \in P <=> "prefixes" \in A
      /\ 3 \in P <=> "lexicalValues" \in A
      /\ 4 \in P <=> "comments" \in A
      /\ 5 \in P <=> "pis" \in A
  BY ChildNames
<1> HIDE DEF P
<1>3. /\ rc(1) = 0 /\ rc(2) = After(P, 1, 0) /\ rc(3) = After(P, 2, rc(2))
      /\ rc(4) = After(P, 3, rc(3)) /\ rc(5) = After(P, 4, rc(4)) /\ rc(6) = After(P, 5, rc(5))
      /\ rc(2) \in 0..1 /\ rc(3) \in 0..2 /\ rc(4) \in 0..3 /\ rc(5) \in 0..4 /\ rc(6) \in 0..5
  <2>1. /\ 1 + 1 = 2 /\ 2 + 1 = 3 /\ 3 + 1 = 4 /\ 4 + 1 = 5 /\ 5 + 1 = 6
        /\ 2 - 1 = 1 /\ 3 - 1 = 2 /\ 4 - 1 = 3 /\ 5 - 1 = 4 /\ 6 - 1 = 5
    OBVIOUS
  <2>2. rc(1) = 0 /\ rc(1+1) = After(P, 1, rc(1)) /\ rc(2+1) = After(P, 2, rc(2))
        /\ rc(3+1) = After(P, 3, rc(3)) /\ rc(4+1) = After(P, 4, rc(4))
        /\ rc(5+1) = After(P, 5, rc(5))
        /\ rc(2) \in 0..2-1 /\ rc(3) \in 0..3-1 /\ rc(4) \in 0..4-1
        /\ rc(5) \in 0..5-1 /\ rc(6) \in 0..6-1
    BY <1>2, Contexts
  <2> HIDE DEF rc
  <2>3. QED
    BY <2>1, <2>2
<1> HIDE DEF rc
<1>4. un \in 0..1
  BY DEF Num
<1> HIDE DEF un
<1>5. /\ {"lesscommon", "preserve"} \subseteq Elems /\ "preserve" \in Structure
      /\ {"dtd", "prefixes", "lexicalValues", "comments", "pis"} \subseteq Empties
  BY DEF Elems, Structure, Empties
<1>6. u \in Seq(NodeT) /\ start \in Seq(NodeT)
  BY <1>4, <1>5, PushTypes
<1> HIDE DEF u
<1>7. Agree(start, Found(o, 4), c0, N(0), Found(o, 4), 1) /\ c0 \in Seq(CallT)
  <2>1. Code("lesscommon", un, 2, 1 - un, Prod("preserve", 2))
    BY <1>4, KidCodes
  <2>2. un \in Nat /\ 2 \in Nat
    BY <1>4
  <2>3. QED
    BY <1>5, <2>1, <2>2, OpenAgrees DEF u
<1>8. Part("dtd" \in A, c1, N(0), Found(o, 4), N(rc(2)), Found(o, 5), 2)
  <2>1. Code("preserve", 0, 3, 0, Prod("dtd", 1))
    BY FiveKidCodes
  <2>2. 0 \in Nat /\ 1 \in Nat /\ 5 - 1 = 4
    OBVIOUS
  <2>3. Part("dtd" \in A, c1, N(0), Found(o, 4), N(After(P, 1, 0)), Found(o, 5), 2)
    BY <1>2, <1>5, <1>6, <2>1, <2>2, FlagSteps, EmptyPart
  <2>4. QED
    BY <1>3, <2>3
<1>9. Part("prefixes" \in A, c2, N(rc(2)), Found(o, 5), N(rc(3)), Found(o, 6), 2)
  <2>1. Code("preserve", rc(2), 3, 1 - rc(2), Prod("prefixes", 2))
    BY <1>3, FiveKidCodes
  <2>2. rc(2) \in Nat /\ 2 \in Nat /\ 6 - 1 = 5
    BY <1>3
  <2>3. Part("prefixes" \in A, c2, N(rc(2)), Found(o, 5), N(After(P, 2, rc(2))), Found(o, 6), 2)
    BY <1>2, <1>5, <1>6, <2>1, <2>2, FlagSteps, EmptyPart
  <2>4. QED
    BY <1>3, <2>3
<1>10. Part("lexicalValues" \in A, c3, N(rc(3)), Found(o, 6), N(rc(4)), Found(o, 7), 2)
  <2>1. Code("preserve", rc(3), 3 - Num(rc(3) = 2), 2 - rc(3), Prod("lexicalValues", 3))
    BY <1>3, FiveKidCodes
  <2>2. rc(3) \in Nat /\ 3 \in Nat /\ 7 - 1 = 6
    BY <1>3
  <2>3. Part("lexicalValues" \in A, c3, N(rc(3)), Found(o, 6), N(After(P, 3, rc(3))),
             Found(o, 7), 2)
    BY <1>2, <1>5, <1>6, <2>1, <2>2, FlagSteps, EmptyPart
  <2>4. QED
    BY <1>3, <2>3
<1>11. Part("comments" \in A, c4, N(rc(4)), Found(o, 7), N(rc(5)), Found(o, 8), 2)
  <2>1. Code("preserve", rc(4), 3 - Num(3 - rc(4) < 2), 3 - rc(4), Prod("comments", 4))
    BY <1>3, FiveKidCodes
  <2>2. rc(4) \in Nat /\ 4 \in Nat /\ 8 - 1 = 7
    BY <1>3
  <2>3. Part("comments" \in A, c4, N(rc(4)), Found(o, 7), N(After(P, 4, rc(4))), Found(o, 8), 2)
    BY <1>2, <1>5, <1>6, <2>1, <2>2, FlagSteps, EmptyPart
  <2>4. QED
    BY <1>3, <2>3
<1>12. Part("pis" \in A, c5, N(rc(5)), Found(o, 8), N(rc(6)), Found(o, 9), 2)
  <2>1. Code("preserve", rc(5), 3 - Num(4 - rc(5) < 3) - Num(4 - rc(5) = 0), 4 - rc(5),
             Prod("pis", 5))
    BY <1>3, FiveKidCodes
  <2>2. rc(5) \in Nat /\ 5 \in Nat /\ 9 - 1 = 8
    BY <1>3
  <2>3. Part("pis" \in A, c5, N(rc(5)), Found(o, 8), N(After(P, 5, rc(5))), Found(o, 9), 2)
    BY <1>2, <1>5, <1>6, <2>1, <2>2, FlagSteps, EmptyPart
  <2>4. QED
    BY <1>3, <2>3
<1>13. Agree(N(rc(6)), Found(o, 9), c6, u, Found(o, 9), 1) /\ c6 \in Seq(CallT)
  <2>1. Code("preserve", rc(6), W(5 - rc(6)), 5 - rc(6), EE)
    BY <1>3, FiveKidCodes
  <2>2. rc(6) \in Nat /\ 5 - rc(6) \in 0..7
    BY <1>3
  <2>3. QED
    BY <1>5, <1>6, <2>1, <2>2, LastAgrees
<1> HIDE DEF start, N, A, c0, c1, c2, c3, c4, c5, c6
<1>14. Agree(start, Found(o, 4), d1, N(rc(2)), Found(o, 5), 1 + 2) /\ d1 \in Seq(CallT)
  BY <1>7, <1>8, AgreeThenWhen
<1> HIDE DEF d1
<1>15. /\ Agree(start, Found(o, 4), d2, N(rc(3)), Found(o, 6), 1 + 2 + 2)
       /\ d2 \in Seq(CallT)
  BY <1>9, <1>14, AgreeThenWhen
<1> HIDE DEF d2
<1>16. /\ Agree(start, Found(o, 4), d3, N(rc(4)), Found(o, 7), 1 + 2 + 2 + 2)
       /\ d3 \in Seq(CallT)
  BY <1>10, <1>15, AgreeThenWhen
<1> HIDE DEF d3
<1>17. /\ Agree(start, Found(o, 4), d4, N(rc(5)), Found(o, 8), 1 + 2 + 2 + 2 + 2)
       /\ d4 \in Seq(CallT)
  BY <1>11, <1>16, AgreeThenWhen
<1> HIDE DEF d4
<1>18. /\ Agree(start, Found(o, 4), d5, N(rc(6)), Found(o, 9), 1 + 2 + 2 + 2 + 2 + 2)
       /\ d5 \in Seq(CallT)
  BY <1>12, <1>17, AgreeThenWhen
<1> HIDE DEF d5
<1>19. Agree(start, Found(o, 4), d5 \o c6, u, Found(o, 9), 1 + 2 + 2 + 2 + 2 + 2 + 1)
  BY <1>13, <1>18, AgreeOn
<1>20. 1 + 2 + 2 + 2 + 2 + 2 + 1 = 12
  OBVIOUS
<1>21. Agree(start, Found(o, 4), preserve(o), u, Found(o, 9), 12)
  BY <1>1, <1>19, <1>20
<1>22. preserve(o) \in Seq(CallT)
  BY <1>1, <1>13, <1>18
<1>23. QED
  BY <1>21, <1>22 DEF start, u, un

(* <alignment>: an element with one of two empty children.                  *)
AlignmentCalls(o) == <<Ev(3, 0), Ev(1, Num(o.alignment # "BYTE_ALIGNMENT")), EndEv, EndEv>>

(* Tuples from their members, once more.                                    *)
LEMMA FourCalls ==
  ASSUME NEW T, NEW a \in T, NEW b \in T, NEW c \in T
  PROVE  (<<a>> \o <<b, c>>) \o <<c>> = <<a, b, c, c>>
<1> DEFINE x == <<a>>
           y == <<b, c>>
           z == <<c>>
           xy == <<a, b, c>>
           all == <<a, b, c, c>>
<1>1. /\ x \in Seq(T) /\ Len(x) = 1 /\ x[1] = a
      /\ y \in Seq(T) /\ Len(y) = 2 /\ y[1] = b /\ y[2] = c
      /\ z \in Seq(T) /\ Len(z) = 1 /\ z[1] = c
  OBVIOUS
<1>2. xy \in Seq(T) /\ Len(xy) = 3 /\ xy[1] = a /\ xy[2] = b /\ xy[3] = c
  OBVIOUS
<1>3. all \in Seq(T) /\ Len(all) = 4 /\ all[1] = a /\ all[2] = b /\ all[3] = c /\ all[4] = c
  OBVIOUS
<1> HIDE DEF x, y, z, xy, all
<1>4. x \o y = xy
  <2>1. /\ x \o y \in Seq(T) /\ Len(x \o y) = Len(x) + Len(y)
        /\ \A i \in 1..Len(x) + Len(y) :
             (x \o y)[i] = IF i <= Len(x) THEN x[i] ELSE y[i - Len(x)]
    BY <1>1, ConcatProperties
  <2>2. /\ x \o y \in Seq(T) /\ Len(x \o y) = 3
        /\ \A i \in 1..3 : (x \o y)[i] = IF i <= 1 THEN x[i] ELSE y[i - 1]
    BY <1>1, <2>1
  <2>3. (x \o y)[1] = a /\ (x \o y)[2] = b /\ (x \o y)[3] = c
    BY <1>1, <2>2
  <2>4. \A i \in 1..3 : (x \o y)[i] = xy[i]
    <3>1. \A i \in 1..3 : i = 1 \/ i = 2 \/ i = 3
      OBVIOUS
    <3>2. QED
      BY <1>2, <2>3, <3>1, Zenon
  <2>5. QED
    BY <1>2, <2>2, <2>4, SeqEqual
<1>5. xy \o z = all
  <2>1. /\ xy \o z \in Seq(T) /\ Len(xy \o z) = Len(xy) + Len(z)
        /\ \A i \in 1..Len(xy) + Len(z) :
             (xy \o z)[i] = IF i <= Len(xy) THEN xy[i] ELSE z[i - Len(xy)]
    BY <1>1, <1>2, ConcatProperties
  <2>2. /\ xy \o z \in Seq(T) /\ Len(xy \o z) = 4
        /\ \A i \in 1..4 : (xy \o z)[i] = IF i <= 3 THEN xy[i] ELSE z[i - 3]
    BY <1>1, <1>2, <2>1
  <2>3. /\ (xy \o z)[1] = a /\ (xy \o z)[2] = b /\ (xy \o z)[3] = c
        /\ (xy \o z)[4] = c
    BY <1>1, <1>2, <2>2
  <2>4. \A i \in 1..4 : (xy \o z)[i] = all[i]
    <3>1. \A i \in 1..4 : i = 1 \/ i = 2 \/ i = 3 \/ i = 4
      OBVIOUS
    <3>2. QED
      BY <1>3, <2>3, <3>1, Zenon
  <2>5. QED
    BY <1>3, <2>2, <2>4, SeqEqual
<1>6. QED
  BY <1>4, <1>5 DEF x, y, z, xy, all

(* The alignment, which has a child of its own.                             *)
LEMMA AlignmentPart ==
  ASSUME NEW o \in Options, NEW t \in Seq(NodeT), NEW P,
         1 \in P <=> o.alignment # "BIT_PACKED"
  PROVE  Part(o.alignment # "BIT_PACKED", AlignmentCalls(o), Push("uncommon", 0, t),
              Found(o, 0), Push("uncommon", After(P, 1, 0), t), Found(o, 1), 4)
<1> DEFINE v == Num(o.alignment # "BYTE_ALIGNMENT")
           t1 == Push("uncommon", 1, t)
           N(k) == Push("alignment", k, t1)
           which == IF o.alignment = "BYTE_ALIGNMENT" THEN "byte" ELSE "pre-compress"
<1>1. /\ {"uncommon", "alignment"} \subseteq Elems /\ "alignment" \in Structure
      /\ {"byte", "pre-compress"} \subseteq Empties
      /\ 0 \in Nat /\ 1 \in Nat
  BY DEF Elems, Structure, Empties
<1>2. t1 \in Seq(NodeT)
  BY <1>1, PushTypes
<1>3. /\ Agree(Push("uncommon", 0, t), Found(o, 0), <<Ev(3, 0)>>, N(0), Found(o, 0), 1)
      /\ <<Ev(3, 0)>> \in Seq(CallT)
  <2>1. Code("uncommon", 0, 3, 0, Prod("alignment", 1))
    BY FiveKidCodes
  <2>2. QED
    BY <1>1, <2>1, OpenAgrees
<1>4. /\ Agree(N(0), Found(o, 0), EmptyElement(1, v), N(1), Flags(Found(o, 0), which), 2)
      /\ EmptyElement(1, v) \in Seq(CallT)
  <2>1. Code("alignment", 0, 1, v, Prod(which, 1))
    BY AlignmentCodes DEF Num
  <2>2. which \in Empties
    BY <1>1
  <2> HIDE DEF v, which, t1
  <2>3. QED
    BY <1>1, <1>2, <2>1, <2>2, EmptyChild
<1>5. ASSUME NEW o1
      PROVE Agree(N(1), o1, <<EndEv>>, t1, o1, 1) /\ <<EndEv>> \in Seq(CallT)
  <2>1. Code("alignment", 1, 0, 0, EE)
    BY AlignmentCodes
  <2> HIDE DEF t1
  <2>2. QED
    BY <1>1, <1>2, <2>1, EndAgrees DEF EndEv
<1>6. AlignmentCalls(o) = (<<Ev(3, 0)>> \o EmptyElement(1, v)) \o <<EndEv>>
  <2>1. Ev(3, 0) \in CallT /\ Ev(1, v) \in CallT /\ EndEv \in CallT
    <3>1. Narrow(3, 0) /\ Narrow(1, v) /\ Narrow(0, 0)
      BY DEF Narrow, Num
    <3>2. QED
      BY <3>1, Narrows DEF EndEv
  <2>2. QED
    BY <2>1, FourCalls DEF AlignmentCalls, EmptyElement
<1> DEFINE s0 == Push("uncommon", 0, t)
<1> HIDE DEF v, which, N, t1, s0
<1> DEFINE e1 == <<Ev(3, 0)>>
           e2 == EmptyElement(1, v)
           e3 == <<EndEv>>
           x == e1 \o e2
           q == Flags(Found(o, 0), which)
<1>7. Agree(s0, Found(o, 0), e1, N(0), Found(o, 0), 1) /\ e1 \in Seq(CallT)
  BY <1>3 DEF s0
<1>8. Agree(N(0), Found(o, 0), e2, N(1), q, 2) /\ e2 \in Seq(CallT)
  BY <1>4
<1>9. Agree(N(1), q, e3, t1, q, 1) /\ e3 \in Seq(CallT)
  BY <1>5
<1>10. AlignmentCalls(o) = x \o e3
  BY <1>6
<1> HIDE DEF e1, e2, e3, q
<1>11. Agree(s0, Found(o, 0), x, N(1), q, 1 + 2) /\ x \in Seq(CallT)
  BY <1>7, <1>8, AgreeOn
<1> HIDE DEF x
<1>12. /\ Agree(s0, Found(o, 0), x \o e3, t1, q, 1 + 2 + 1)
       /\ x \o e3 \in Seq(CallT)
  BY <1>9, <1>11, AgreeOn
<1>13. 1 + 2 + 1 = 4
  OBVIOUS
<1>14. Agree(s0, Found(o, 0), AlignmentCalls(o), t1, q, 4) /\ AlignmentCalls(o) \in Seq(CallT)
  BY <1>10, <1>12, <1>13
<1>15. o.alignment # "BIT_PACKED" => q = Found(o, 1)
  BY FoundAlignment DEF q, which
<1>16. o.alignment = "BIT_PACKED" => Found(o, 1) = Found(o, 0)
  BY FoundAlignment
<1>17. CASE o.alignment # "BIT_PACKED"
  BY <1>14, <1>15, <1>17 DEF After, Part, s0, t1
<1>18. CASE o.alignment = "BIT_PACKED"
  BY <1>16, <1>18 DEF After, Part
<1>19. QED
  BY <1>17, <1>18

(* <uncommon>, when no datatype representation map is asked for.            *)
LEMMA UncommonAgrees ==
  ASSUME NEW o \in Options, ~o.drMap, NEW t \in Seq(NodeT)
  PROVE  /\ Agree(Push("lesscommon", 0, t), Found(o, 0), uncommon(o),
                  Push("lesscommon", 1, t), Found(o, 4), 14)
         /\ uncommon(o) \in Seq(CallT)
<1> DEFINE P == UncommonPresent(o)
           rc(i) == RuleContext(P, i)
           start == Push("lesscommon", 0, t)
           u == Push("lesscommon", 1, t)
           N(k) == Push("uncommon", k, u)
           p1 == o.alignment # "BIT_PACKED"
           p2 == "selfContained" \in o.enumOpt
           p3 == o.valueMaxLength # INDEX_MAX
           p4 == o.valuePartitionCapacity # INDEX_MAX
           c0 == <<Ev(2, 0)>>
           c1 == AlignmentCalls(o)
           c2 == EmptyElement(3, 1 - rc(2))
           c3 == ValueElement(3 - Num(rc(3) = 2), 2 - rc(3), "int", o.valueMaxLength)
           c4 == ValueElement(3 - Num(3 - rc(4) < 2), 3 - rc(4), "int",
                              o.valuePartitionCapacity)
           c5 == NotImplemented(3 - Num(4 - rc(5) < 3) - Num(4 - rc(5) = 0), 4 - rc(5))
           c6 == LastEv(UncommonEnd(rc(6)))
           d1 == c0 \o When(p1, c1)
           d2 == d1 \o When(p2, c2)
           d3 == d2 \o When(p3, c3)
           d4 == d3 \o When(p4, c4)
           d5 == d4 \o When(o.drMap, c5)
<1>1. uncommon(o) = d5 \o c6
  BY DEF uncommon, AlignmentCalls
<1>2. /\ P \in SUBSET (1..5)
      /\ (1 \in P <=> p1) /\ (2 \in P <=> p2) /\ (3 \in P <=> p3) /\ (4 \in P <=> p4)
      /\ 5 \notin P
  BY DEF UncommonPresent
<1> HIDE DEF P
<1>3. /\ rc(1) = 0 /\ rc(2) = After(P, 1, 0) /\ rc(3) = After(P, 2, rc(2))
      /\ rc(4) = After(P, 3, rc(3)) /\ rc(5) = After(P, 4, rc(4)) /\ rc(6) = rc(5)
      /\ rc(2) \in 0..1 /\ rc(3) \in 0..2 /\ rc(4) \in 0..3 /\ rc(5) \in 0..4
  <2>1. /\ 1 + 1 = 2 /\ 2 + 1 = 3 /\ 3 + 1 = 4 /\ 4 + 1 = 5 /\ 5 + 1 = 6
        /\ 2 - 1 = 1 /\ 3 - 1 = 2 /\ 4 - 1 = 3 /\ 5 - 1 = 4
    OBVIOUS
  <2>2. rc(1) = 0 /\ rc(1+1) = After(P, 1, rc(1)) /\ rc(2+1) = After(P, 2, rc(2))
        /\ rc(3+1) = After(P, 3, rc(3)) /\ rc(4+1) = After(P, 4, rc(4))
        /\ rc(5+1) = After(P, 5, rc(5))
        /\ rc(2) \in 0..2-1 /\ rc(3) \in 0..3-1 /\ rc(4) \in 0..4-1
        /\ rc(5) \in 0..5-1
    BY <1>2, Contexts
  <2> HIDE DEF rc
  <2>3. After(P, 5, rc(5)) = rc(5)
    BY <1>2 DEF After
  <2>4. QED
    BY <2>1, <2>2, <2>3
<1> HIDE DEF rc
<1>5. /\ {"lesscommon", "uncommon"} \subseteq Elems /\ "uncommon" \in Structure
      /\ "selfContained" \in Empties
      /\ {"valueMaxLength", "valuePartitionCapacity"} \subseteq Values
  BY DEF Elems, Structure, Empties, Values
<1>6. u \in Seq(NodeT) /\ start \in Seq(NodeT)
  <2>1. 0 \in Nat /\ 1 \in Nat
    OBVIOUS
  <2>2. QED
    BY <1>5, <2>1, PushTypes
<1> HIDE DEF u
<1>7. Agree(start, Found(o, 0), c0, N(0), Found(o, 0), 1) /\ c0 \in Seq(CallT)
  <2>1. Code("lesscommon", 0, 2, 0, Prod("uncommon", 1))
    BY KidCodes
  <2>2. 0 \in Nat /\ 1 \in Nat
    OBVIOUS
  <2>3. QED
    BY <1>5, <2>1, <2>2, OpenAgrees DEF u
<1>8. Part(p1, c1, N(0), Found(o, 0), N(rc(2)), Found(o, 1), 4)
  <2>1. Part(p1, c1, N(0), Found(o, 0), N(After(P, 1, 0)), Found(o, 1), 4)
    BY <1>2, <1>6, AlignmentPart
  <2>2. QED
    BY <1>3, <2>1
<1>9. Part(p2, c2, N(rc(2)), Found(o, 1), N(rc(3)), Found(o, 2), 2)
  <2>1. Code("uncommon", rc(2), 3, 1 - rc(2), Prod("selfContained", 2))
    BY <1>3, FiveKidCodes
  <2>2. rc(2) \in Nat /\ 2 \in Nat /\ 2 - 1 = 1
    BY <1>3
  <2>3. Part(p2, c2, N(rc(2)), Found(o, 1), N(After(P, 2, rc(2))), Found(o, 2), 2)
    BY <1>2, <1>5, <1>6, <2>1, <2>2, FlagSteps, EmptyPart
  <2>4. QED
    BY <1>3, <2>3
<1>17. o.valueMaxLength \in Int /\ o.valuePartitionCapacity \in Int
  <2>1. o.valueMaxLength \in 0..INDEX_MAX /\ o.valuePartitionCapacity \in 0..INDEX_MAX
    BY DEF Options
  <2>2. INDEX_MAX \in Nat
    BY HeaderAssumption
  <2>3. QED
    BY <2>1, <2>2
<1>10. Part(p3, c3, N(rc(3)), Found(o, 2), N(rc(4)), Found(o, 3), 3)
  <2>1. Code("uncommon", rc(3), 3 - Num(rc(3) = 2), 2 - rc(3), Prod("valueMaxLength", 3))
    BY <1>3, FiveKidCodes
  <2>2. rc(3) \in Nat /\ 3 \in Nat
    BY <1>3
  <2>3. /\ p3 => ops_intData(Found(o, 2), "valueMaxLength", o.valueMaxLength) = Found(o, 3)
        /\ ~p3 => Found(o, 3) = Found(o, 2)
    BY FoundNumbers
  <2>4. Part(p3, c3, N(rc(3)), Found(o, 2), N(After(P, 3, rc(3))), Found(o, 3), 3)
    BY <1>2, <1>5, <1>6, <1>17, <2>1, <2>2, <2>3, NumberPart
  <2>5. QED
    BY <1>3, <2>4
<1>11. Part(p4, c4, N(rc(4)), Found(o, 3), N(rc(5)), Found(o, 4), 3)
  <2>1. Code("uncommon", rc(4), 3 - Num(3 - rc(4) < 2), 3 - rc(4),
             Prod("valuePartitionCapacity", 4))
    BY <1>3, FiveKidCodes
  <2>2. rc(4) \in Nat /\ 4 \in Nat
    BY <1>3
  <2>3. /\ p4 => ops_intData(Found(o, 3), "valuePartitionCapacity", o.valuePartitionCapacity)
                   = Found(o, 4)
        /\ ~p4 => Found(o, 4) = Found(o, 3)
    BY FoundNumbers
  <2>4. Part(p4, c4, N(rc(4)), Found(o, 3), N(After(P, 4, rc(4))), Found(o, 4), 3)
    BY <1>2, <1>5, <1>6, <1>17, <2>1, <2>2, <2>3, NumberPart
  <2>5. QED
    BY <1>3, <2>4
<1>12. Part(o.drMap, c5, N(rc(5)), Found(o, 4), N(rc(5)), Found(o, 4), 0)
  BY DEF Part
<1>13. Agree(N(rc(5)), Found(o, 4), c6, u, Found(o, 4), 1) /\ c6 \in Seq(CallT)
  <2> DEFINE v == UncommonEnd(rc(5))
  <2>1. Code("uncommon", rc(5), W(v), v, EE)
    BY <1>3, FiveKidCodes
  <2>2. rc(5) \in Nat /\ v \in 0..7
    BY <1>3 DEF UncommonEnd, Num
  <2>3. c6 = LastEv(v)
    BY <1>3
  <2> HIDE DEF v
  <2>4. QED
    BY <1>5, <1>6, <2>1, <2>2, <2>3, LastAgrees
<1> HIDE DEF start, N, p1, p2, p3, p4, c0, c1, c2, c3, c4, c5, c6
<1>14. Agree(start, Found(o, 0), d1, N(rc(2)), Found(o, 1), 1 + 4) /\ d1 \in Seq(CallT)
  BY <1>7, <1>8, AgreeThenWhen
<1> HIDE DEF d1
<1>15. /\ Agree(start, Found(o, 0), d2, N(rc(3)), Found(o, 2), 1 + 4 + 2)
       /\ d2 \in Seq(CallT)
  BY <1>9, <1>14, AgreeThenWhen
<1> HIDE DEF d2
<1>16. /\ Agree(start, Found(o, 0), d3, N(rc(4)), Found(o, 3), 1 + 4 + 2 + 3)
       /\ d3 \in Seq(CallT)
  BY <1>10, <1>15, AgreeThenWhen
<1> HIDE DEF d3
<1>18. /\ Agree(start, Found(o, 0), d4, N(rc(5)), Found(o, 4), 1 + 4 + 2 + 3 + 3)
       /\ d4 \in Seq(CallT)
  BY <1>11, <1>16, AgreeThenWhen
<1> HIDE DEF d4
<1>19. /\ Agree(start, Found(o, 0), d5, N(rc(5)), Found(o, 4), 1 + 4 + 2 + 3 + 3 + 0)
       /\ d5 \in Seq(CallT)
  BY <1>12, <1>18, AgreeThenWhen
<1> HIDE DEF d5
<1>20. Agree(start, Found(o, 0), d5 \o c6, u, Found(o, 4), 1 + 4 + 2 + 3 + 3 + 0 + 1)
  BY <1>13, <1>19, AgreeOn
<1>21. 1 + 4 + 2 + 3 + 3 + 0 + 1 = 14
  OBVIOUS
<1>22. Agree(start, Found(o, 0), uncommon(o), u, Found(o, 4), 14)
  BY <1>1, <1>20, <1>21
<1>23. uncommon(o) \in Seq(CallT)
  BY <1>1, <1>13, <1>19
<1>24. QED
  BY <1>22, <1>23 DEF start, u

(* <lesscommon>.                                                            *)
LEMMA LesscommonAgrees ==
  ASSUME NEW o \in Options, ~o.drMap, NEW t \in Seq(NodeT)
  PROVE  /\ Agree(Push("header", 0, t), Found(o, 0), lesscommon(o),
                  Push("header", 1, t), Found(o, 10), 31)
         /\ lesscommon(o) \in Seq(CallT)
<1> DEFINE p1 == HasUncommon(o)
           p2 == o.preserve # {}
           p3 == o.blockSize # DefaultBlockSize
           k1 == Num(p1)
           k2 == IF p2 THEN 2 ELSE k1
           k3 == IF p3 THEN 3 ELSE k2
           start == Push("header", 0, t)
           u == Push("header", 1, t)
           N(k) == Push("lesscommon", k, u)
           c0 == <<Ev(2, 0)>>
           c1 == uncommon(o)
           c2 == preserve(o)
           c3 == ValueElement(2 - Num(p2), IF p2 THEN 0 ELSE 2 - k1, "int", o.blockSize)
           c4 == LastEv(CASE p3 -> 0 [] ~p3 /\ p2 -> 1 [] OTHER -> 3 - k1)
           d1 == c0 \o When(p1, c1)
           d2 == d1 \o When(p2, c2)
           d3 == d2 \o When(p3, c3)
<1>1. lesscommon(o) = d3 \o c4
  BY DEF lesscommon
<1>2. /\ k1 \in 0..1 /\ k2 \in 0..2 /\ k3 \in 0..3
      /\ p1 => k1 = 1
      /\ ~p1 => k1 = 0
      /\ 2 - Num(p2) = 2 - Num(k2 = 2)
      /\ (IF p2 THEN 0 ELSE 2 - k1) = 2 - k2
      /\ (CASE p3 -> 0 [] ~p3 /\ p2 -> 1 [] OTHER -> 3 - k1) = 3 - k3
  <2> HIDE DEF p1, p2, p3
  <2>1. k1 \in 0..1 /\ (p1 => k1 = 1) /\ (~p1 => k1 = 0)
    BY DEF Num
  <2> HIDE DEF k1
  <2>2. CASE p2
    BY <2>1, <2>2 DEF Num
  <2>3. CASE ~p2
    BY <2>1, <2>3 DEF Num
  <2>4. QED
    BY <2>2, <2>3
<1>3. /\ {"header", "lesscommon"} \subseteq Elems /\ "lesscommon" \in Structure
      /\ "blockSize" \in Values /\ 0 \in Nat /\ 1 \in Nat /\ 3 \in Nat
  BY DEF Elems, Structure, Values
<1>4. u \in Seq(NodeT) /\ start \in Seq(NodeT)
  BY <1>3, PushTypes
<1>5. Agree(start, Found(o, 0), c0, N(0), Found(o, 0), 1) /\ c0 \in Seq(CallT)
  <2>1. Code("header", 0, 2, 0, Prod("lesscommon", 1))
    BY KidCodes
  <2>2. QED
    BY <1>3, <2>1, OpenAgrees
<1> HIDE DEF k1, k2, k3
<1>6. Part(p1, c1, N(0), Found(o, 0), N(k1), Found(o, 4), 14)
  <2>1. Agree(N(0), Found(o, 0), c1, N(1), Found(o, 4), 14) /\ c1 \in Seq(CallT)
    <3> HIDE DEF u
    <3>1. QED
      BY <1>4, UncommonAgrees
  <2>2. CASE p1
    BY <1>2, <2>1, <2>2 DEF Part
  <2>3. CASE ~p1
    <3>1. /\ o.alignment = "BIT_PACKED" /\ "selfContained" \notin o.enumOpt
          /\ o.valueMaxLength = INDEX_MAX /\ o.valuePartitionCapacity = INDEX_MAX
      BY <2>3 DEF HasUncommon
    <3>2. Found(o, 1) = Found(o, 0)
      BY <3>1, FoundAlignment
    <3>3. Found(o, 2) = Found(o, 1)
      <4>1. 2 - 1 = 1
        OBVIOUS
      <4>2. QED
        BY <3>1, <4>1, FlagSteps DEF FlagStep
    <3>4. Found(o, 3) = Found(o, 2) /\ Found(o, 4) = Found(o, 3)
      BY <3>1, FoundNumbers
    <3>5. QED
      BY <1>2, <2>3, <3>2, <3>3, <3>4 DEF Part
  <2>4. QED
    BY <2>2, <2>3
<1>7. Part(p2, c2, N(k1), Found(o, 4), N(k2), Found(o, 9), 12)
  <2>1. Agree(N(k1), Found(o, 4), c2, N(2), Found(o, 9), 12) /\ c2 \in Seq(CallT)
    <3> HIDE DEF u
    <3>1. QED
      BY <1>4, PreserveAgrees DEF k1
  <2>2. CASE p2
    BY <2>1, <2>2 DEF Part, k2
  <2>3. CASE ~p2
    <3>1. "dtd" \notin o.preserve /\ "prefixes" \notin o.preserve
          /\ "lexicalValues" \notin o.preserve /\ "comments" \notin o.preserve
          /\ "pis" \notin o.preserve
      BY <2>3
    <3>2. 5 - 1 = 4 /\ 6 - 1 = 5 /\ 7 - 1 = 6 /\ 8 - 1 = 7 /\ 9 - 1 = 8
      OBVIOUS
    <3>3. Found(o, 5) = Found(o, 4) /\ Found(o, 6) = Found(o, 5) /\ Found(o, 7) = Found(o, 6)
          /\ Found(o, 8) = Found(o, 7) /\ Found(o, 9) = Found(o, 8)
      BY <3>1, <3>2, FlagSteps DEF FlagStep
    <3>4. QED
      BY <2>3, <3>3 DEF Part, k2
  <2>4. QED
    BY <2>2, <2>3
<1>8. Part(p3, c3, N(k2), Found(o, 9), N(k3), Found(o, 10), 3)
  <2>1. Code("lesscommon", k2, 2 - Num(k2 = 2), 2 - k2, Prod("blockSize", 3))
    BY <1>2, KidCodes
  <2>2. c3 = ValueElement(2 - Num(k2 = 2), 2 - k2, "int", o.blockSize)
    BY <1>2
  <2>3. k2 \in Nat
    BY <1>2
  <2>4. o.blockSize \in Int
    <3>1. o.blockSize \in 0..UIntRange - 1
      BY DEF Options
    <3>2. QED
      BY <3>1
  <2>5. /\ p3 => ops_intData(Found(o, 9), "blockSize", o.blockSize) = Found(o, 10)
        /\ ~p3 => Found(o, 10) = Found(o, 9)
    BY FoundNumbers
  <2> DEFINE P == IF p3 THEN {3} ELSE {}
             e3 == ValueElement(2 - Num(k2 = 2), 2 - k2, "int", o.blockSize)
  <2>6. (3 \in P <=> p3) /\ After(P, 3, k2) = k3
    BY DEF After, k3
  <2> HIDE DEF u, p3, P
  <2>7. Part(p3, e3, N(k2), Found(o, 9), N(After(P, 3, k2)), Found(o, 10), 3)
    BY <1>3, <1>4, <2>1, <2>3, <2>4, <2>5, <2>6, NumberPart
  <2>8. QED
    BY <2>2, <2>6, <2>7
<1>9. Agree(N(k3), Found(o, 10), c4, u, Found(o, 10), 1) /\ c4 \in Seq(CallT)
  <2>1. Code("lesscommon", k3, W(3 - k3), 3 - k3, EE)
    BY <1>2, KidCodes
  <2>2. k3 \in Nat /\ 3 - k3 \in 0..7
    BY <1>2
  <2>3. c4 = LastEv(3 - k3)
    BY <1>2
  <2> HIDE DEF u
  <2>4. QED
    BY <1>3, <1>4, <2>1, <2>2, <2>3, LastAgrees
<1> HIDE DEF start, u, N, p1, p2, p3, c0, c1, c2, c3, c4
<1>14. Agree(start, Found(o, 0), d1, N(k1), Found(o, 4), 1 + 14) /\ d1 \in Seq(CallT)
  BY <1>5, <1>6, AgreeThenWhen
<1> HIDE DEF d1
<1>15. /\ Agree(start, Found(o, 0), d2, N(k2), Found(o, 9), 1 + 14 + 12)
       /\ d2 \in Seq(CallT)
  BY <1>7, <1>14, AgreeThenWhen
<1> HIDE DEF d2
<1>16. /\ Agree(start, Found(o, 0), d3, N(k3), Found(o, 10), 1 + 14 + 12 + 3)
       /\ d3 \in Seq(CallT)
  BY <1>8, <1>15, AgreeThenWhen
<1> HIDE DEF d3
<1>20. Agree(start, Found(o, 0), d3 \o c4, u, Found(o, 10), 1 + 14 + 12 + 3 + 1)
  BY <1>9, <1>16, AgreeOn
<1>21. 1 + 14 + 12 + 3 + 1 = 31
  OBVIOUS
<1>22. Agree(start, Found(o, 0), lesscommon(o), u, Found(o, 10), 31)
  BY <1>1, <1>20, <1>21
<1>23. lesscommon(o) \in Seq(CallT)
  BY <1>1, <1>9, <1>16
<1>24. QED
  BY <1>22, <1>23 DEF start, u

(* The whole document: from the defaults, and from the open root element,   *)
(* to the options found at the end.                                         *)
LEMMA DocumentAgrees ==
  ASSUME NEW o \in Options, ~o.drMap, Identifiable(o),
         o.schemaIDMode # SCHEMA_ID_ABSENT => NotNil(o)
  PROVE  /\ Agree(Open("document"), makeDefaultOpts, OptionsDocument(o), <<>>, Found(o, 14), 45)
         /\ OptionsDocument(o) \in Seq(CallT)
<1> DEFINE p1 == HasLesscommon(o)
           p2 == HasCommon(o)
           p3 == "strict" \in o.enumOpt
           k1 == Num(p1)
           k2 == IF p2 THEN 2 ELSE k1
           k3 == IF p3 THEN 3 ELSE k2
           start == Push("document", 0, <<>>)
           u == Push("document", 1, <<>>)
           N(k) == Push("header", k, u)
           c0 == <<Ev(1, 0)>>
           c1 == lesscommon(o)
           c2 == common(o)
           c3 == EmptyElement(2 - Num(p2), IF p2 THEN 0 ELSE 2 - k1)
           c4 == LastEv(CASE p3 -> 0 [] ~p3 /\ p2 -> 1 [] OTHER -> 3 - k1)
           c5 == <<EndEv>>
           d1 == c0 \o When(p1, c1)
           d2 == d1 \o When(p2, c2)
           d3 == d2 \o When(p3, c3)
           d4 == d3 \o c4
<1>1. OptionsDocument(o) = d4 \o c5
  BY DEF OptionsDocument
<1>2. /\ k1 \in 0..1 /\ k2 \in 0..2 /\ k3 \in 0..3
      /\ p1 => k1 = 1
      /\ ~p1 => k1 = 0
      /\ 2 - Num(p2) = 2 - Num(k2 = 2)
      /\ (IF p2 THEN 0 ELSE 2 - k1) = 2 - k2
      /\ (CASE p3 -> 0 [] ~p3 /\ p2 -> 1 [] OTHER -> 3 - k1) = 3 - k3
  <2> HIDE DEF p1, p2, p3
  <2>1. k1 \in 0..1 /\ (p1 => k1 = 1) /\ (~p1 => k1 = 0)
    BY DEF Num
  <2> HIDE DEF k1
  <2>2. CASE p2
    BY <2>1, <2>2 DEF Num
  <2>3. CASE ~p2
    BY <2>1, <2>3 DEF Num
  <2>4. QED
    BY <2>2, <2>3
<1>3. /\ {"document", "header"} \subseteq Elems /\ "header" \in Structure
      /\ "strict" \in Empties /\ 0 \in Nat /\ 1 \in Nat /\ 3 \in Nat
      /\ <<>> \in Seq(NodeT)
  BY DEF Elems, Structure, Empties
<1>4. u \in Seq(NodeT) /\ start \in Seq(NodeT)
  BY <1>3, PushTypes
<1>5. Agree(start, Found(o, 0), c0, N(0), Found(o, 0), 1) /\ c0 \in Seq(CallT)
  BY <1>3, DocumentCodes, OpenAgrees
<1> HIDE DEF k1, k2, k3
<1>6. Part(p1, c1, N(0), Found(o, 0), N(k1), Found(o, 10), 31)
  <2>1. Agree(N(0), Found(o, 0), c1, N(1), Found(o, 10), 31) /\ c1 \in Seq(CallT)
    <3> HIDE DEF u
    <3>1. QED
      BY <1>4, LesscommonAgrees
  <2>2. CASE p1
    BY <1>2, <2>1, <2>2 DEF Part
  <2>3. CASE ~p1
    <3>1. /\ o.alignment = "BIT_PACKED" /\ "selfContained" \notin o.enumOpt
          /\ o.valueMaxLength = INDEX_MAX /\ o.valuePartitionCapacity = INDEX_MAX
          /\ o.preserve = {} /\ o.blockSize = DefaultBlockSize
      BY <2>3 DEF HasUncommon, HasLesscommon
    <3>2. Found(o, 1) = Found(o, 0)
      BY <3>1, FoundAlignment
    <3>3. 2 - 1 = 1 /\ 5 - 1 = 4 /\ 6 - 1 = 5 /\ 7 - 1 = 6 /\ 8 - 1 = 7 /\ 9 - 1 = 8
      OBVIOUS
    <3>4. /\ Found(o, 2) = Found(o, 1) /\ Found(o, 5) = Found(o, 4)
          /\ Found(o, 6) = Found(o, 5) /\ Found(o, 7) = Found(o, 6)
          /\ Found(o, 8) = Found(o, 7) /\ Found(o, 9) = Found(o, 8)
      <4>1. "dtd" \notin o.preserve /\ "prefixes" \notin o.preserve
            /\ "lexicalValues" \notin o.preserve /\ "comments" \notin o.preserve
            /\ "pis" \notin o.preserve
        BY <3>1
      <4>2. QED
        BY <3>1, <3>3, <4>1, FlagSteps DEF FlagStep
    <3>5. Found(o, 3) = Found(o, 2) /\ Found(o, 4) = Found(o, 3) /\ Found(o, 10) = Found(o, 9)
      BY <3>1, FoundNumbers
    <3>6. QED
      BY <1>2, <2>3, <3>2, <3>4, <3>5 DEF Part
  <2>4. QED
    BY <2>2, <2>3
<1>7. Part(p2, c2, N(k1), Found(o, 10), N(k2), Found(o, 13), 9)
  <2>1. Agree(N(k1), Found(o, 10), c2, N(2), Found(o, 13), 9) /\ c2 \in Seq(CallT)
    <3> HIDE DEF u
    <3>1. QED
      BY <1>4, CommonAgrees DEF k1
  <2>2. CASE p2
    BY <2>1, <2>2 DEF Part, k2
  <2>3. CASE ~p2
    <3>1. "compression" \notin o.enumOpt /\ "fragment" \notin o.enumOpt
          /\ o.schemaIDMode = SCHEMA_ID_ABSENT
      BY <2>3 DEF HasCommon
    <3>2. 11 - 1 = 10 /\ 12 - 1 = 11
      OBVIOUS
    <3>3. Found(o, 11) = Found(o, 10) /\ Found(o, 12) = Found(o, 11)
      BY <3>1, <3>2, FlagSteps DEF FlagStep
    <3>4. Found(o, 13) = Found(o, 12)
      BY <3>1, FoundIdentifier
    <3>5. QED
      BY <2>3, <3>3, <3>4 DEF Part, k2
  <2>4. QED
    BY <2>2, <2>3
<1>8. Part(p3, c3, N(k2), Found(o, 13), N(k3), Found(o, 14), 2)
  <2>1. Code("header", k2, 2 - Num(k2 = 2), 2 - k2, Prod("strict", 3))
    BY <1>2, KidCodes
  <2> DEFINE e3 == EmptyElement(2 - Num(k2 = 2), 2 - k2)
  <2>2. c3 = e3
    BY <1>2
  <2>3. k2 \in Nat /\ 14 - 1 = 13
    BY <1>2
  <2> DEFINE P == IF p3 THEN {3} ELSE {}
  <2>4. (3 \in P <=> p3) /\ After(P, 3, k2) = k3
    BY DEF After, k3
  <2> HIDE DEF u, P
  <2>5. Part(p3, e3, N(k2), Found(o, 13), N(After(P, 3, k2)), Found(o, 14), 2)
    BY <1>3, <1>4, <2>1, <2>3, <2>4, FlagSteps, EmptyPart
  <2>6. QED
    BY <2>2, <2>4, <2>5
<1>9. Agree(N(k3), Found(o, 14), c4, u, Found(o, 14), 1) /\ c4 \in Seq(CallT)
  <2>1. Code("header", k3, W(3 - k3), 3 - k3, EE)
    BY <1>2, KidCodes
  <2>2. k3 \in Nat /\ 3 - k3 \in 0..7
    BY <1>2
  <2>3. c4 = LastEv(3 - k3)
    BY <1>2
  <2> HIDE DEF u
  <2>4. QED
    BY <1>3, <1>4, <2>1, <2>2, <2>3, LastAgrees
<1>10. Agree(u, Found(o, 14), c5, <<>>, Found(o, 14), 1) /\ c5 \in Seq(CallT)
  <2>1. Code("document", 1, 0, 0, Prod("ED", 0))
    BY DocumentCodes
  <2>2. Prod("ED", 0) \in {EE, Prod("ED", 0)}
    OBVIOUS
  <2>3. QED
    BY <1>3, <2>1, <2>2, EndAgrees DEF EndEv
<1>11. Open("document") = start
  BY <1>3 DEF Open, Push
<1> HIDE DEF start, u, N, p1, p2, p3, c0, c1, c2, c3, c4, c5
<1>14. Agree(start, Found(o, 0), d1, N(k1), Found(o, 10), 1 + 31) /\ d1 \in Seq(CallT)
  BY <1>5, <1>6, AgreeThenWhen
<1> HIDE DEF d1
<1>15. /\ Agree(start, Found(o, 0), d2, N(k2), Found(o, 13), 1 + 31 + 9)
       /\ d2 \in Seq(CallT)
  BY <1>7, <1>14, AgreeThenWhen
<1> HIDE DEF d2
<1>16. /\ Agree(start, Found(o, 0), d3, N(k3), Found(o, 14), 1 + 31 + 9 + 2)
       /\ d3 \in Seq(CallT)
  BY <1>8, <1>15, AgreeThenWhen
<1> HIDE DEF d3
<1>17. Agree(start, Found(o, 0), d4, u, Found(o, 14), 1 + 31 + 9 + 2 + 1)
  BY <1>9, <1>16, AgreeOn
<1>18. d4 \in Seq(CallT)
  BY <1>9, <1>16
<1> HIDE DEF d4
<1>19. Agree(start, Found(o, 0), d4 \o c5, <<>>, Found(o, 14), 1 + 31 + 9 + 2 + 1 + 1)
  BY <1>10, <1>17, <1>18, AgreeOn
<1>20. d4 \o c5 \in Seq(CallT)
  BY <1>10, <1>18
<1>21. 1 + 31 + 9 + 2 + 1 + 1 = 45
  OBVIOUS
<1>22. Found(o, 0) = makeDefaultOpts
  BY FoundEnds
<1>23. QED
  BY <1>1, <1>11, <1>19, <1>20, <1>21, <1>22

(* The serializer writes fields that the parser reads back, whatever comes  *)
(* before and behind them, up to the end of the document.                   *)
Written(o, f) ==
  \A out \in Seq(FieldT) : serializeOptionsStream(out, o) = S(out \o f, <<>>)
ReadBack(o, f) ==
  \A rest \in Seq(FieldT) :
    \E p : parseOptions(D(f \o rest, Open("document"), makeDefaultOpts, ""))
             = D(rest, <<>>, Found(o, 14), p)

Expressible(o) == ~o.drMap /\ (o.schemaIDMode # SCHEMA_ID_ABSENT => NotNil(o))

(* serializeOptionsStream and parseOptions: for all options that the        *)
(* document can express there are fields that the serializer writes, behind *)
(* whatever is there, and from which the parser, whatever comes behind      *)
(* them, finds the options and stops at their end.                          *)
THEOREM OptionsReadBack ==
  ASSUME NEW o \in Options, Identifiable(o), Expressible(o)
  PROVE  \E f \in Seq(FieldT) : Written(o, f) /\ ReadBack(o, f)
<1> DEFINE t == Open("document")
           calls == OptionsDocument(o)
<1>1. Agree(t, makeDefaultOpts, calls, <<>>, Found(o, 14), 45) /\ calls \in Seq(CallT)
  BY DocumentAgrees DEF Expressible
<1> HIDE DEF t
<1>2. PICK f \in Seq(FieldT) : /\ Writes(t, calls, <<>>, f)
                               /\ Reads(t, makeDefaultOpts, f, <<>>, Found(o, 14), 45)
  BY <1>1 DEF Agree
<1>3. ASSUME NEW out \in Seq(FieldT)
      PROVE  serializeOptionsStream(out, o) = S(out \o f, <<>>)
  <2>1. WritesAll(calls, S(out, t), S(out \o f, <<>>))
    BY <1>2 DEF Writes
  <2>2. Len(calls) \in Nat
    BY <1>1
  <2>3. serializeCalls(calls, S(out, t)) = S(out \o f, <<>>)
    BY <2>1, <2>2, SerializeCalls
  <2>4. QED
    BY <2>3 DEF serializeOptionsStream, S, t
<1>4. ASSUME NEW rest \in Seq(FieldT)
      PROVE  \E p : parseOptions(D(f \o rest, t, makeDefaultOpts, ""))
                      = D(rest, <<>>, Found(o, 14), p)
  <2> DEFINE d == D(f \o rest, t, makeDefaultOpts, "")
  <2>1. ReadsTo(d, rest, <<>>, Found(o, 14), 45)
    BY <1>2 DEF Reads
  <2> HIDE DEF d
  <2>2. PICK n \in 0..45 : \E p : ReadsAll(n, d, D(rest, <<>>, Found(o, 14), p))
    BY <2>1 DEF ReadsTo
  <2>3. PICK p : ReadsAll(n, d, D(rest, <<>>, Found(o, 14), p))
    BY <2>2
  <2>4. n \in 0..MaxOptionEvents
    <3>1. MaxOptionEvents \in Nat /\ MaxOptionEvents >= 60
      BY HeaderAssumption
    <3>2. QED
      BY <3>1
  <2>5. parseNext(D(rest, <<>>, Found(o, 14), p)) = D(rest, <<>>, Found(o, 14), p)
    BY DEF parseNext, D
  <2>6. parseOptions(d) = D(rest, <<>>, Found(o, 14), p)
    BY <2>3, <2>4, <2>5, ParseOptions
  <2>7. QED
    BY <2>6 DEF d
<1>5. Written(o, f)
  BY <1>3 DEF Written
<1>6. ReadBack(o, f)
  BY <1>4 DEF ReadBack, t
<1>7. QED
  BY <1>5, <1>6

-----------------------------------------------------------------------------
(* Options that the document cannot express: the serializer gives up.       *)

(* Every list of calls has a run.                                           *)
RunOf(calls, s, n, g) ==
  g = [i \in 0..n |-> IF i = 0 THEN s ELSE serializeCall(g[i-1], calls[i])]

(* Every list of calls has a run.                                           *)
LEMMA RunExists ==
  ASSUME NEW calls, NEW s, NEW n \in Nat
  PROVE  \E g : RunOf(calls, s, n, g)
<1> DEFINE T == {m \in Nat : ~ \E g : RunOf(calls, s, m, g)}
<1>1. T = {}
  <2>1. SUFFICES ASSUME T # {} PROVE FALSE
    OBVIOUS
  <2>2. PICK m \in T : \A k \in T : ~(k < m)
    BY <2>1, LeastNatural
  <2>3. m \in Nat /\ ~ \E g : RunOf(calls, s, m, g)
    OBVIOUS
  <2>4. CASE m = 0
    <3> DEFINE g == [i \in 0..0 |-> s]
    <3>1. g = [i \in 0..0 |-> IF i = 0 THEN s ELSE serializeCall(g[i-1], calls[i])]
      OBVIOUS
    <3> HIDE DEF g
    <3>2. RunOf(calls, s, 0, g)
      BY <3>1 DEF RunOf
    <3>3. QED
      BY <2>3, <2>4, <3>2
  <2>5. CASE m # 0
    <3>1. m - 1 \in Nat /\ m - 1 < m
      BY <2>3, <2>5
    <3>2. m - 1 \notin T
      BY <2>2, <3>1
    <3>3. PICK h : RunOf(calls, s, m - 1, h)
      BY <3>1, <3>2
    <3>4. h = [i \in 0..m-1 |-> IF i = 0 THEN s ELSE serializeCall(h[i-1], calls[i])]
      BY <3>3 DEF RunOf
    <3> DEFINE g == [i \in 0..m |-> IF i = m THEN serializeCall(h[m-1], calls[m]) ELSE h[i]]
    <3>5. ASSUME NEW i \in 0..m
          PROVE  g[i] = IF i = 0 THEN s ELSE serializeCall(g[i-1], calls[i])
      <4>1. CASE i = m
        <5>1. m - 1 \in 0..m /\ m - 1 # m
          BY <2>3, <2>5
        <5>2. g[m-1] = h[m-1]
          BY <5>1
        <5>3. QED
          BY <2>5, <4>1, <5>2
      <4>2. CASE i # m
        <5>1. i \in 0..m-1 /\ g[i] = h[i]
          BY <2>3, <4>2
        <5>2. h[i] = IF i = 0 THEN s ELSE serializeCall(h[i-1], calls[i])
          BY <3>4, <5>1
        <5>3. i # 0 => i - 1 \in 0..m /\ i - 1 # m
          BY <2>3, <5>1
        <5>4. i # 0 => g[i-1] = h[i-1]
          BY <5>3
        <5>5. QED
          BY <5>1, <5>2, <5>4
      <4>3. QED
        BY <4>1, <4>2
    <3>6. g = [i \in 0..m |-> g[i]]
      OBVIOUS
    <3> HIDE DEF g
    <3>7. g = [i \in 0..m |-> IF i = 0 THEN s ELSE serializeCall(g[i-1], calls[i])]
      BY <3>5, <3>6
    <3>8. RunOf(calls, s, m, g)
      BY <3>7 DEF RunOf
    <3>9. QED
      BY <2>3, <3>8
  <2>6. QED
    BY <2>4, <2>5
<1>2. QED
  BY <1>1

(* A call that is not implemented ends the run with an error.               *)
Fails(calls) == \E i \in 1..Len(calls) : calls[i].call = "fail"

(* An error stays, and the call that is not implemented brings one.         *)
LEMMA FailedCall ==
  ASSUME NEW s, "err" \in DOMAIN s, NEW c
  PROVE  /\ "err" \in DOMAIN serializeCall(s, c)
         /\ ~Ok(s) => ~Ok(serializeCall(s, c))
         /\ c.call = "fail" => ~Ok(serializeCall(s, c))
<1>1. ASSUME NEW e PROVE "err" \in DOMAIN Failed(s, e)
  BY DEF Failed
<1>2. ~Ok(Failed(s, "EXIP_NOT_IMPLEMENTED_YET"))
  BY DEF Failed, Ok
<1>3. CASE ~Ok(s)
  BY <1>3 DEF serializeCall
<1>4. CASE Ok(s) /\ c.call = "event"
  <2>1. "err" \in DOMAIN serializeEvent(s, c)
    BY <1>1 DEF serializeEvent
  <2>2. QED
    BY <1>4, <2>1 DEF serializeCall
<1>5. CASE Ok(s) /\ c.call = "fail"
  BY <1>1, <1>2, <1>5 DEF serializeCall
<1>6. CASE Ok(s) /\ c.call # "event" /\ c.call # "fail"
  <2>1. "err" \in DOMAIN serializeData(s, c.call, c.val)
    BY <1>1 DEF serializeData
  <2>2. QED
    BY <1>6, <2>1 DEF serializeCall
<1>7. QED
  BY <1>3, <1>4, <1>5, <1>6

(* A list with a call that is not implemented ends with an error.           *)
LEMMA FailingCalls ==
  ASSUME NEW calls, Len(calls) \in Nat, Fails(calls), NEW s, "err" \in DOMAIN s
  PROVE  ~Ok(serializeCalls(calls, s))
<1> DEFINE L == Len(calls)
<1>1. PICK g : RunOf(calls, s, L, g)
  BY RunExists
<1>2. \A n \in 0..L : g[n] = IF n = 0 THEN s ELSE serializeCall(g[n-1], calls[n])
  BY <1>1 DEF RunOf
<1>3. serializeCalls(calls, s) = g[L]
  <2>1. WritesAll(calls, s, g[L])
    BY <1>1 DEF RunOf, WritesAll
  <2>2. QED
    BY <2>1, SerializeCalls
<1>4. PICK f \in 1..L : calls[f].call = "fail"
  BY DEF Fails
<1> DEFINE T == {n \in 0..L : "err" \notin DOMAIN g[n] \/ (n >= f /\ Ok(g[n]))}
<1>5. T = {}
  <2>1. SUFFICES ASSUME T # {} PROVE FALSE
    OBVIOUS
  <2>2. T \in SUBSET Nat
    OBVIOUS
  <2>3. PICK m \in T : \A k \in T : ~(k < m)
    BY <2>1, <2>2, LeastNatural
  <2>4. m \in 0..L
    OBVIOUS
  <2>5. m # 0
    BY <1>2, <1>4, <2>4
  <2>6. m - 1 \in 0..L /\ m - 1 < m
    BY <2>4, <2>5
  <2>7. m - 1 \notin T
    BY <2>3, <2>6
  <2>8. "err" \in DOMAIN g[m-1] /\ (m - 1 >= f => ~Ok(g[m-1]))
    BY <2>6, <2>7
  <2>9. g[m] = serializeCall(g[m-1], calls[m])
    BY <1>2, <2>4, <2>5
  <2>10. "err" \in DOMAIN g[m]
    BY <2>8, <2>9, FailedCall
  <2>11. m >= f => ~Ok(g[m])
    <3>1. CASE m = f
      BY <1>4, <2>8, <2>9, <3>1, FailedCall
    <3>2. CASE m > f
      <4>1. m - 1 >= f
        BY <2>4, <3>2
      <4>2. QED
        BY <2>8, <2>9, <4>1, FailedCall
    <3>3. QED
      BY <2>4, <3>1, <3>2
  <2>12. QED
    BY <2>10, <2>11
<1>6. L \in 0..L /\ L >= f
  OBVIOUS
<1>7. QED
  BY <1>3, <1>5, <1>6

(* Such a call counts wherever in the list it is.                           *)
LEMMA FailsOn ==
  ASSUME NEW c1 \in Seq(CallT), NEW c2 \in Seq(CallT)
  PROVE  /\ c1 \o c2 \in Seq(CallT)
         /\ Fails(c1) \/ Fails(c2) => Fails(c1 \o c2)
<1>1. /\ c1 \o c2 \in Seq(CallT) /\ Len(c1 \o c2) = Len(c1) + Len(c2)
      /\ \A i \in 1..Len(c1) + Len(c2) :
           (c1 \o c2)[i] = IF i <= Len(c1) THEN c1[i] ELSE c2[i - Len(c1)]
  BY ConcatProperties
<1>2. Len(c1) \in Nat /\ Len(c2) \in Nat
  OBVIOUS
<1> DEFINE c == c1 \o c2
<1> HIDE DEF c
<1>3. ASSUME Fails(c1) PROVE Fails(c)
  <2>1. PICK i \in 1..Len(c1) : c1[i].call = "fail"
    BY <1>3 DEF Fails
  <2>2. i \in 1..Len(c1) + Len(c2) /\ i <= Len(c1)
    BY <1>2
  <2>3. c[i] = c1[i] /\ i \in 1..Len(c)
    BY <1>1, <2>2 DEF c
  <2>4. QED
    BY <2>1, <2>3 DEF Fails
<1>4. ASSUME Fails(c2) PROVE Fails(c)
  <2>1. PICK i \in 1..Len(c2) : c2[i].call = "fail"
    BY <1>4 DEF Fails
  <2> DEFINE j == Len(c1) + i
  <2>2. j \in 1..Len(c1) + Len(c2) /\ ~(j <= Len(c1)) /\ j - Len(c1) = i
    BY <1>2
  <2> HIDE DEF j
  <2>3. c[j] = c2[i] /\ j \in 1..Len(c)
    BY <1>1, <2>2 DEF c
  <2>4. QED
    BY <2>1, <2>3 DEF Fails
<1>5. QED
  BY <1>1, <1>3, <1>4 DEF c

(* The same behind a condition.                                             *)
LEMMA FailsWhen ==
  ASSUME NEW c1 \in Seq(CallT), NEW cond, NEW c2 \in Seq(CallT)
  PROVE  /\ c1 \o When(cond, c2) \in Seq(CallT)
         /\ Fails(c1) \/ (cond /\ Fails(c2)) => Fails(c1 \o When(cond, c2))
<1>1. When(cond, c2) \in Seq(CallT)
  BY DEF When
<1>2. cond => When(cond, c2) = c2
  BY DEF When
<1>3. QED
  BY <1>1, <1>2, FailsOn

(* The lists of calls of the elements.                                      *)
LEMMA CallTypes ==
  ASSUME NEW bits \in Int, NEW v \in Int
  PROVE  /\ <<Ev(bits, v)>> \in Seq(CallT)
         /\ EmptyElement(bits, v) \in Seq(CallT)
         /\ \A val \in ValT : /\ ValueElement(bits, v, "int", val) \in Seq(CallT)
                              /\ ValueElement(bits, v, "string", val) \in Seq(CallT)
         /\ NotImplemented(bits, v) \in Seq(CallT) /\ Fails(NotImplemented(bits, v))
<1>1. ASSUME NEW b \in Int, NEW w \in Int PROVE Ev(b, w) \in CallT
  <2>1. w \in ValT
    BY Zenon DEF ValT
  <2>2. QED
    BY <2>1 DEF Ev, CallT
<1>2. Ev(bits, v) \in CallT /\ EndEv \in CallT
  <2>1. 0 \in Int
    OBVIOUS
  <2>2. QED
    BY <1>1, <2>1 DEF EndEv
<1>3. ASSUME NEW val \in ValT, NEW kind \in {"int", "string", "fail"}
      PROVE [call |-> kind, bits |-> 0, val |-> val] \in CallT
  BY DEF CallT
<1>4. 0 \in ValT
  <2>1. 0 \in Int
    OBVIOUS
  <2>2. QED
    BY <2>1, Zenon DEF ValT
<1> DEFINE c == [call |-> "fail", bits |-> 0, val |-> 0]
<1>5. c \in CallT /\ c.call = "fail"
  BY <1>3, <1>4
<1> HIDE DEF c
<1>6. NotImplemented(bits, v) = <<Ev(bits, v), c>>
  BY DEF NotImplemented, c
<1>7. <<Ev(bits, v), c>> \in Seq(CallT) /\ Fails(<<Ev(bits, v), c>>)
  <2> DEFINE a == Ev(bits, v)
             q == <<a, c>>
  <2> HIDE DEF a
  <2>1. a \in CallT
    BY <1>2 DEF a
  <2>2. q \in Seq(CallT) /\ Len(q) = 2 /\ q[2] = c /\ 2 \in 1..2
    BY <1>5, <2>1
  <2> HIDE DEF q
  <2>3. Fails(q)
    BY <1>5, <2>2 DEF Fails
  <2>4. QED
    BY <2>2, <2>3 DEF q, a
<1>8. ASSUME NEW x \in CallT, NEW y \in CallT, NEW z \in CallT
      PROVE <<x>> \in Seq(CallT) /\ <<x, y>> \in Seq(CallT) /\ <<x, y, z>> \in Seq(CallT)
  OBVIOUS
<1>9. EmptyElement(bits, v) \in Seq(CallT) /\ <<Ev(bits, v)>> \in Seq(CallT)
  BY <1>2, <1>8 DEF EmptyElement
<1>10. ASSUME NEW val \in ValT, NEW kind \in {"int", "string"}
       PROVE ValueElement(bits, v, kind, val) \in Seq(CallT)
  <2> DEFINE x == [call |-> kind, bits |-> 0, val |-> val]
  <2>1. x \in CallT
    BY <1>3
  <2> HIDE DEF x
  <2>2. <<Ev(bits, v), x, EndEv>> \in Seq(CallT)
    BY <1>2, <1>8, <2>1
  <2>3. QED
    BY <2>2 DEF ValueElement, x
<1>11. QED
  BY <1>6, <1>7, <1>9, <1>10

(* The last call of an element.                                             *)
LEMMA LastTypes ==
  ASSUME NEW v \in 0..7
  PROVE  LastEv(v) \in Seq(CallT)
<1>1. LastEv(v) = <<Ev(W(v), v)>>
  BY SmallWidths DEF LastEv, W
<1>2. W(v) \in Int /\ v \in Int
  BY DEF W
<1>3. QED
  BY <1>1, <1>2, CallTypes

(* A representation map, which <uncommon> cannot express.                   *)
LEMMA UncommonFails ==
  ASSUME NEW o \in Options
  PROVE  uncommon(o) \in Seq(CallT) /\ (o.drMap => Fails(uncommon(o)))
<1> DEFINE P == UncommonPresent(o)
           rc(i) == RuleContext(P, i)
           p1 == o.alignment # "BIT_PACKED"
           p2 == "selfContained" \in o.enumOpt
           p3 == o.valueMaxLength # INDEX_MAX
           p4 == o.valuePartitionCapacity # INDEX_MAX
           c0 == <<Ev(2, 0)>>
           c1 == AlignmentCalls(o)
           c2 == EmptyElement(3, 1 - rc(2))
           c3 == ValueElement(3 - Num(rc(3) = 2), 2 - rc(3), "int", o.valueMaxLength)
           c4 == ValueElement(3 - Num(3 - rc(4) < 2), 3 - rc(4), "int",
                              o.valuePartitionCapacity)
           c5 == NotImplemented(3 - Num(4 - rc(5) < 3) - Num(4 - rc(5) = 0), 4 - rc(5))
           c6 == LastEv(UncommonEnd(rc(6)))
           d1 == c0 \o When(p1, c1)
           d2 == d1 \o When(p2, c2)
           d3 == d2 \o When(p3, c3)
           d4 == d3 \o When(p4, c4)
           d5 == d4 \o When(o.drMap, c5)
<1>1. uncommon(o) = d5 \o c6
  BY DEF uncommon, AlignmentCalls
<1>2. P \in SUBSET (1..5)
  BY DEF UncommonPresent
<1> HIDE DEF P
<1>3. rc(2) \in 0..1 /\ rc(3) \in 0..2 /\ rc(4) \in 0..3 /\ rc(5) \in 0..4 /\ rc(6) \in 0..5
  <2>1. 2 - 1 = 1 /\ 3 - 1 = 2 /\ 4 - 1 = 3 /\ 5 - 1 = 4 /\ 6 - 1 = 5
    OBVIOUS
  <2>2. /\ rc(2) \in 0..2-1 /\ rc(3) \in 0..3-1 /\ rc(4) \in 0..4-1
        /\ rc(5) \in 0..5-1 /\ rc(6) \in 0..6-1
    BY <1>2, Contexts
  <2> HIDE DEF rc
  <2>3. QED
    BY <2>1, <2>2
<1> HIDE DEF rc
<1>4. o.valueMaxLength \in ValT /\ o.valuePartitionCapacity \in ValT
  <2>1. o.valueMaxLength \in 0..INDEX_MAX /\ o.valuePartitionCapacity \in 0..INDEX_MAX
    BY DEF Options
  <2>2. INDEX_MAX \in Nat
    BY HeaderAssumption
  <2>3. o.valueMaxLength \in Int /\ o.valuePartitionCapacity \in Int
    BY <2>1, <2>2
  <2>4. QED
    BY <2>3, Zenon DEF ValT
<1>5. c0 \in Seq(CallT)
  <2>1. 2 \in Int /\ 0 \in Int
    OBVIOUS
  <2>2. QED
    BY <2>1, CallTypes
<1>6. c1 \in Seq(CallT)
  <2> DEFINE v == Num(o.alignment # "BYTE_ALIGNMENT")
  <2>1. Ev(3, 0) \in CallT /\ Ev(1, v) \in CallT /\ EndEv \in CallT
    <3>1. Narrow(3, 0) /\ Narrow(1, v) /\ Narrow(0, 0)
      BY DEF Narrow, Num
    <3>2. QED
      BY <3>1, Narrows DEF EndEv
  <2> HIDE DEF v
  <2>2. \A x, y, z \in CallT : <<x, y, z, z>> \in Seq(CallT)
    OBVIOUS
  <2>3. <<Ev(3, 0), Ev(1, v), EndEv, EndEv>> \in Seq(CallT)
    BY <2>1, <2>2
  <2>4. QED
    BY <2>3 DEF AlignmentCalls, v
<1>7. c2 \in Seq(CallT)
  <2>1. 3 \in Int /\ 1 - rc(2) \in Int
    BY <1>3
  <2>2. QED
    BY <2>1, CallTypes
<1>8. c3 \in Seq(CallT)
  <2>1. 3 - Num(rc(3) = 2) \in Int /\ 2 - rc(3) \in Int
    BY <1>3 DEF Num
  <2>2. QED
    BY <1>4, <2>1, CallTypes
<1>9. c4 \in Seq(CallT)
  <2>1. 3 - Num(3 - rc(4) < 2) \in Int /\ 3 - rc(4) \in Int
    BY <1>3 DEF Num
  <2>2. QED
    BY <1>4, <2>1, CallTypes
<1>10. c5 \in Seq(CallT) /\ Fails(c5)
  <2>1. 3 - Num(4 - rc(5) < 3) - Num(4 - rc(5) = 0) \in Int /\ 4 - rc(5) \in Int
    BY <1>3 DEF Num
  <2>2. QED
    BY <2>1, CallTypes
<1>11. c6 \in Seq(CallT)
  <2>1. UncommonEnd(rc(6)) \in 0..7
    BY <1>3 DEF UncommonEnd, Num
  <2>2. QED
    BY <2>1, LastTypes
<1> HIDE DEF c0, c1, c2, c3, c4, c5, c6, p1, p2, p3, p4
<1>12. d1 \in Seq(CallT)
  BY <1>5, <1>6, FailsWhen
<1> HIDE DEF d1
<1>13. d2 \in Seq(CallT)
  BY <1>7, <1>12, FailsWhen
<1> HIDE DEF d2
<1>14. d3 \in Seq(CallT)
  BY <1>8, <1>13, FailsWhen
<1> HIDE DEF d3
<1>15. d4 \in Seq(CallT)
  BY <1>9, <1>14, FailsWhen
<1> HIDE DEF d4
<1>16. d5 \in Seq(CallT) /\ (o.drMap => Fails(d5))
  BY <1>10, <1>15, FailsWhen
<1> HIDE DEF d5
<1>17. QED
  BY <1>1, <1>11, <1>16, FailsOn

(* A representation map is not implemented, inside <lesscommon> ...         *)
LEMMA LesscommonFails ==
  ASSUME NEW o \in Options
  PROVE  lesscommon(o) \in Seq(CallT) /\ (o.drMap => Fails(lesscommon(o)))
<1> DEFINE p1 == HasUncommon(o)
           p2 == o.preserve # {}
           p3 == o.blockSize # DefaultBlockSize
           k1 == Num(p1)
           c0 == <<Ev(2, 0)>>
           c1 == uncommon(o)
           c2 == preserve(o)
           c3 == ValueElement(2 - Num(p2), IF p2 THEN 0 ELSE 2 - k1, "int", o.blockSize)
           c4 == LastEv(CASE p3 -> 0 [] ~p3 /\ p2 -> 1 [] OTHER -> 3 - k1)
           d1 == c0 \o When(p1, c1)
           d2 == d1 \o When(p2, c2)
           d3 == d2 \o When(p3, c3)
<1>1. lesscommon(o) = d3 \o c4
  BY DEF lesscommon
<1>2. o.drMap => p1
  BY DEF HasUncommon
<1>3. c0 \in Seq(CallT)
  <2>1. 2 \in Int /\ 0 \in Int
    OBVIOUS
  <2>2. QED
    BY <2>1, CallTypes
<1>4. c1 \in Seq(CallT) /\ (o.drMap => Fails(c1))
  BY UncommonFails
<1>5. c2 \in Seq(CallT)
  <2>1. <<>> \in Seq(NodeT)
    OBVIOUS
  <2>2. QED
    BY <2>1, PreserveAgrees
<1>6. c3 \in Seq(CallT)
  <2>1. o.blockSize \in ValT
    <3>1. o.blockSize \in 0..UIntRange - 1
      BY DEF Options
    <3>2. o.blockSize \in Int
      BY <3>1
    <3>3. QED
      BY <3>2, Zenon DEF ValT
  <2>2. 2 - Num(p2) \in Int /\ (IF p2 THEN 0 ELSE 2 - k1) \in Int
    BY DEF Num
  <2>3. QED
    BY <2>1, <2>2, CallTypes
<1>7. c4 \in Seq(CallT)
  <2> DEFINE v == CASE p3 -> 0 [] ~p3 /\ p2 -> 1 [] OTHER -> 3 - k1
  <2>1. v \in 0..7
    <3>1. k1 \in 0..1
      BY DEF Num
    <3> HIDE DEF k1, p2, p3
    <3>2. QED
      BY <3>1
  <2> HIDE DEF v
  <2>2. LastEv(v) \in Seq(CallT)
    BY <2>1, LastTypes
  <2>3. QED
    BY <2>2 DEF v
<1> HIDE DEF c0, c1, c2, c3, c4, p1, p2, p3
<1>8. d1 \in Seq(CallT) /\ (o.drMap => Fails(d1))
  BY <1>2, <1>3, <1>4, FailsWhen
<1> HIDE DEF d1
<1>9. d2 \in Seq(CallT) /\ (o.drMap => Fails(d2))
  BY <1>5, <1>8, FailsWhen
<1> HIDE DEF d2
<1>10. d3 \in Seq(CallT) /\ (o.drMap => Fails(d3))
  BY <1>6, <1>9, FailsWhen
<1> HIDE DEF d3
<1>11. QED
  BY <1>1, <1>7, <1>10, FailsOn

(* An identifier that is taken for a nil, which <common> cannot express.    *)
LEMMA CommonFails ==
  ASSUME NEW o \in Options
  PROVE  /\ common(o) \in Seq(CallT)
         /\ o.schemaIDMode # SCHEMA_ID_ABSENT /\ ~NotNil(o) => Fails(common(o))
<1> DEFINE P == {n \in 1..3 : \/ n = 1 /\ "compression" \in o.enumOpt
                              \/ n = 2 /\ "fragment" \in o.enumOpt
                              \/ n = 3 /\ o.schemaIDMode # SCHEMA_ID_ABSENT}
           rc(i) == RuleContext(P, i)
           less == Num(HasLesscommon(o))
           p1 == "compression" \in o.enumOpt
           p2 == "fragment" \in o.enumOpt
           p3 == o.schemaIDMode # SCHEMA_ID_ABSENT
           c0 == <<Ev(2, 1 - less)>>
           c1 == EmptyElement(2, 0)
           c2 == EmptyElement(2, 1 - rc(2))
           c3 == schemaId(o, 2 - Num(rc(3) = 2), 2 - rc(3))
           c4 == LastEv(3 - rc(4))
           d1 == c0 \o When(p1, c1)
           d2 == d1 \o When(p2, c2)
           d3 == d2 \o When(p3, c3)
<1>1. common(o) = d3 \o c4
  BY DEF common
<1>2. P \in SUBSET (1..5)
  OBVIOUS
<1> HIDE DEF P
<1>3. rc(2) \in 0..1 /\ rc(3) \in 0..2 /\ rc(4) \in 0..3
  <2>1. 2 - 1 = 1 /\ 3 - 1 = 2 /\ 4 - 1 = 3
    OBVIOUS
  <2>2. rc(2) \in 0..2-1 /\ rc(3) \in 0..3-1 /\ rc(4) \in 0..4-1
    BY <1>2, Contexts
  <2> HIDE DEF rc
  <2>3. QED
    BY <2>1, <2>2
<1> HIDE DEF rc
<1>4. c0 \in Seq(CallT)
  <2>1. 2 \in Int /\ 1 - less \in Int
    BY DEF Num
  <2>2. QED
    BY <2>1, CallTypes
<1>5. c1 \in Seq(CallT) /\ c2 \in Seq(CallT)
  <2>1. 2 \in Int /\ 0 \in Int /\ 1 - rc(2) \in Int
    BY <1>3
  <2>2. QED
    BY <2>1, CallTypes
<1>6. c3 \in Seq(CallT) /\ (p3 /\ ~NotNil(o) => Fails(c3))
  <2> DEFINE b == 2 - Num(rc(3) = 2)
             v == 2 - rc(3)
  <2>1. b \in Int /\ v \in Int
    BY <1>3 DEF Num
  <2> HIDE DEF b, v
  <2>2. o.schemaID \in ValT /\ "" \in ValT
    <3>1. o.schemaID \in STRING
      BY DEF Options
    <3>2. QED
      BY <3>1, Zenon DEF ValT
  <2>3. /\ ValueElement(b, v, "string", "") \in Seq(CallT)
        /\ ValueElement(b, v, "string", o.schemaID) \in Seq(CallT)
        /\ NotImplemented(b, v) \in Seq(CallT) /\ Fails(NotImplemented(b, v))
    BY <2>1, <2>2, CallTypes
  <2>4. CASE NotNil(o)
    <3>1. schemaId(o, b, v) \in {ValueElement(b, v, "string", ""),
                                 ValueElement(b, v, "string", o.schemaID)}
      BY <2>4, Zenon DEF schemaId, NotNil
    <3>2. QED
      BY <2>3, <2>4, <3>1 DEF b, v
  <2>5. CASE ~NotNil(o)
    <3>1. schemaId(o, b, v) = NotImplemented(b, v)
      BY <2>5, Zenon DEF schemaId, NotNil
    <3>2. QED
      BY <2>3, <2>5, <3>1 DEF b, v
  <2>6. QED
    BY <2>4, <2>5
<1>7. c4 \in Seq(CallT)
  <2>1. 3 - rc(4) \in 0..7
    BY <1>3
  <2>2. QED
    BY <2>1, LastTypes
<1> HIDE DEF c0, c1, c2, c3, c4, p1, p2
<1>8. d1 \in Seq(CallT)
  BY <1>4, <1>5, FailsWhen
<1> HIDE DEF d1
<1>9. d2 \in Seq(CallT)
  BY <1>5, <1>8, FailsWhen
<1> HIDE DEF d2
<1>10. d3 \in Seq(CallT) /\ (p3 /\ ~NotNil(o) => Fails(d3))
  BY <1>6, <1>9, FailsWhen
<1> HIDE DEF d3
<1>11. QED
  BY <1>1, <1>7, <1>10, FailsOn

(* ... and nil as the schema identifier is not, inside <common>.            *)
LEMMA DocumentFails ==
  ASSUME NEW o \in Options, ~Expressible(o)
  PROVE  OptionsDocument(o) \in Seq(CallT) /\ Fails(OptionsDocument(o))
<1> DEFINE p1 == HasLesscommon(o)
           p2 == HasCommon(o)
           p3 == "strict" \in o.enumOpt
           k1 == Num(p1)
           nil == o.schemaIDMode # SCHEMA_ID_ABSENT /\ ~NotNil(o)
           c0 == <<Ev(1, 0)>>
           c1 == lesscommon(o)
           c2 == common(o)
           c3 == EmptyElement(2 - Num(p2), IF p2 THEN 0 ELSE 2 - k1)
           c4 == LastEv(CASE p3 -> 0 [] ~p3 /\ p2 -> 1 [] OTHER -> 3 - k1)
           c5 == <<EndEv>>
           d1 == c0 \o When(p1, c1)
           d2 == d1 \o When(p2, c2)
           d3 == d2 \o When(p3, c3)
           d4 == d3 \o c4
<1>1. OptionsDocument(o) = d4 \o c5
  BY DEF OptionsDocument
<1>2. (o.drMap => p1) /\ (nil => p2) /\ (o.drMap \/ nil)
  BY DEF HasLesscommon, HasUncommon, HasCommon, Expressible
<1>3. c0 \in Seq(CallT) /\ c5 \in Seq(CallT)
  <2>1. 0 \in Int /\ 1 \in Int
    OBVIOUS
  <2>2. QED
    BY <2>1, CallTypes DEF EndEv
<1>4. c1 \in Seq(CallT) /\ (o.drMap => Fails(c1))
  BY LesscommonFails
<1>5. c2 \in Seq(CallT) /\ (nil => Fails(c2))
  BY CommonFails
<1>6. k1 \in 0..1
  BY DEF Num
<1>7. c3 \in Seq(CallT)
  <2>1. 2 - Num(p2) \in Int /\ (IF p2 THEN 0 ELSE 2 - k1) \in Int
    BY DEF Num
  <2>2. QED
    BY <2>1, CallTypes
<1>8. c4 \in Seq(CallT)
  <2> DEFINE v == CASE p3 -> 0 [] ~p3 /\ p2 -> 1 [] OTHER -> 3 - k1
  <2>1. v \in 0..7
    <3> HIDE DEF k1, p2, p3
    <3>1. QED
      BY <1>6
  <2> HIDE DEF v
  <2>2. LastEv(v) \in Seq(CallT)
    BY <2>1, LastTypes
  <2>3. QED
    BY <2>2 DEF v
<1> HIDE DEF c0, c1, c2, c3, c4, c5, p1, p2, p3, nil
<1>9. d1 \in Seq(CallT) /\ (o.drMap => Fails(d1))
  BY <1>2, <1>3, <1>4, FailsWhen
<1> HIDE DEF d1
<1>10. d2 \in Seq(CallT) /\ Fails(d2)
  BY <1>2, <1>5, <1>9, FailsWhen
<1> HIDE DEF d2
<1>11. d3 \in Seq(CallT) /\ Fails(d3)
  BY <1>7, <1>10, FailsWhen
<1> HIDE DEF d3
<1>12. d4 \in Seq(CallT) /\ Fails(d4)
  BY <1>8, <1>11, FailsOn
<1> HIDE DEF d4
<1>13. QED
  BY <1>1, <1>3, <1>12, FailsOn

(* The serializer does not get through such a document.                     *)
LEMMA NotWritten ==
  ASSUME NEW o \in Options, ~Expressible(o), NEW out
  PROVE  ~Ok(serializeOptionsStream(out, o))
<1> DEFINE calls == OptionsDocument(o)
           s == [out |-> out, stack |-> Open("document"), err |-> "EXIP_OK"]
<1>1. Len(calls) \in Nat /\ Fails(calls)
  BY DocumentFails
<1>2. "err" \in DOMAIN s
  OBVIOUS
<1> HIDE DEF s, calls
<1>3. ~Ok(serializeCalls(calls, s))
  BY <1>1, <1>2, FailingCalls
<1>4. QED
  BY <1>3 DEF serializeOptionsStream, s, calls

-----------------------------------------------------------------------------
(* The fixed part of the header.                                            *)

(* The minimum of a set of natural numbers.                                 *)
LEMMA MinIs ==
  ASSUME NEW A \in SUBSET Nat, NEW m \in A, \A n \in A : m <= n
  PROVE  Min(A) = m
<1>1. Min(A) = CHOOSE x \in A : \A y \in A : x =< y
  BY DEF Min
<1>2. \A x \in A : (\A y \in A : x =< y) => x = m
  OBVIOUS
<1>3. QED
  BY <1>1, <1>2

Nibble(x) == Field("bits", 4, x)

(* A nibble is written as one field.                                        *)
LEMMA Nibbles ==
  ASSUME NEW x \in 0..15
  PROVE  /\ NBits(4, x) = <<Nibble(x)>> /\ Nibble(x) \in FieldT
         /\ Nibble(x) = Nibble(15) => x = 15
         /\ Nibble(x).kind = "bits" /\ Nibble(x).width = 4 /\ Nibble(x).val = x
<1>1. 2^4 = 16 /\ x % 16 = x
  OBVIOUS
<1>2. NBits(4, x) = <<Nibble(x)>>
  BY <1>1 DEF NBits, Nibble
<1>3. x \in Int /\ 4 \in Int
  OBVIOUS
<1>4. x \in ValT
  BY <1>3, Zenon DEF ValT
<1>5. Nibble(x) \in FieldT
  BY <1>3, <1>4 DEF Nibble, Field, FieldT
<1>6. Nibble(x).kind = "bits" /\ Nibble(x).width = 4 /\ Nibble(x).val = x
  BY DEF Nibble, Field
<1>7. Nibble(15).val = 15
  BY DEF Nibble, Field
<1>8. QED
  BY <1>2, <1>5, <1>6, <1>7

(* The version number is read back from its nibbles.                        *)
LEMMA VersionRead ==
  ASSUME NEW v \in 1..30, NEW rest \in Seq(FieldT)
  PROVE  /\ VersionNumber(v) \in Seq(FieldT)
         /\ ReadVersion(VersionNumber(v) \o rest) =
              [in |-> rest, version |-> v, err |-> "EXIP_OK"]
<1> DEFINE fields == VersionNumber(v) \o rest
           full == {i \in 1..Len(fields) : fields[i] = Field("bits", 4, 15)}
           ks == {k \in 0..Len(fields) : k + 1 \notin full}
           n == Min(ks)
           behind == SubSeq(fields, n + 1, Len(fields))
<1>1. ReadVersion(fields) =
        IF Readable(behind, 4)
        THEN [in |-> Tail(behind), version |-> 1 + 15 * n + Head(behind).val, err |-> "EXIP_OK"]
        ELSE [in |-> behind, version |-> 1 + 15 * n, err |-> "out of step"]
  BY DEF ReadVersion
<1>2. CASE v <= 15
  <2> DEFINE a == Nibble(v - 1)
  <2>1. v - 1 \in 0..15 /\ v - 1 # 15
    BY <1>2
  <2>2. /\ VersionNumber(v) = <<a>> /\ a \in FieldT /\ a # Nibble(15)
        /\ a.kind = "bits" /\ a.width = 4 /\ a.val = v - 1
    BY <1>2, <2>1, Nibbles DEF VersionNumber
  <2> HIDE DEF a
  <2>3. /\ fields = <<a>> \o rest /\ fields \in Seq(FieldT) /\ Len(fields) \in Nat
        /\ fields # <<>> /\ fields[1] = a /\ Head(fields) = a /\ Tail(fields) = rest
        /\ SubSeq(fields, 1, Len(fields)) = fields
    <3>1. fields = <<a>> \o rest
      BY <2>2
    <3> HIDE DEF fields
    <3>2. QED
      BY <2>2, <3>1
  <2> HIDE DEF fields
  <2>4. 1 \notin full
    BY <2>2, <2>3 DEF Nibble
  <2> HIDE DEF full
  <2>5. n = 0
    <3>1. ks \in SUBSET Nat /\ 0 \in ks /\ \A k \in ks : 0 <= k
      BY <2>3, <2>4
    <3> HIDE DEF ks
    <3>2. QED
      BY <3>1, MinIs
  <2> HIDE DEF n
  <2>6. behind = fields
    BY <2>3, <2>5
  <2> HIDE DEF behind
  <2>7. Readable(behind, 4)
    BY <2>2, <2>3, <2>6 DEF Readable, Next1
  <2>8. 1 + 15 * n + Head(behind).val = v
    BY <2>2, <2>3, <2>5, <2>6
  <2>9. ReadVersion(fields) = [in |-> rest, version |-> v, err |-> "EXIP_OK"]
    BY <1>1, <2>3, <2>6, <2>7, <2>8
  <2>10. QED
    BY <2>2, <2>9 DEF fields
<1>3. CASE v > 15
  <2> DEFINE a == Nibble(15)
             b == Nibble(v - 15 - 1)
  <2>1. v - 15 - 1 \in 0..15 /\ v - 15 - 1 # 15 /\ 15 \in 0..15
    BY <1>3
  <2>2. /\ NBits(4, 15) = <<a>> /\ NBits(4, v - 15 - 1) = <<b>>
        /\ a \in FieldT /\ b \in FieldT /\ b # a
        /\ b.kind = "bits" /\ b.width = 4 /\ b.val = v - 15 - 1
        /\ a = Field("bits", 4, 15)
    BY <2>1, Nibbles DEF Nibble
  <2>3. VersionNumber(v) = <<a>> \o <<b>>
    BY <1>3, <2>2 DEF VersionNumber
  <2> HIDE DEF a, b
  <2>4. <<a>> \o <<b>> = <<a, b>> /\ <<a, b>> \in Seq(FieldT)
    BY <2>2, Joining
  <2>5. /\ fields = <<a, b>> \o rest /\ fields \in Seq(FieldT) /\ Len(fields) \in Nat
        /\ Len(fields) >= 2 /\ fields[1] = a /\ fields[2] = b
    <3>1. fields = <<a, b>> \o rest
      BY <2>3, <2>4
    <3>2. /\ fields \in Seq(FieldT) /\ Len(fields) = Len(<<a, b>>) + Len(rest)
          /\ \A i \in 1..Len(<<a, b>>) + Len(rest) :
               (<<a, b>> \o rest)[i] = IF i <= Len(<<a, b>>) THEN <<a, b>>[i]
                                                             ELSE rest[i - Len(<<a, b>>)]
      BY <2>4, <3>1, ConcatProperties
    <3>3. Len(<<a, b>>) = 2 /\ <<a, b>>[1] = a /\ <<a, b>>[2] = b /\ Len(rest) \in Nat
      OBVIOUS
    <3> HIDE DEF fields
    <3>4. QED
      BY <3>1, <3>2, <3>3
  <2>6. SubSeq(fields, 2, Len(fields)) = <<b>> \o rest
    <3>1. fields = <<a>> \o (<<b>> \o rest)
      <4>1. <<a>> \in Seq(FieldT) /\ <<b>> \in Seq(FieldT)
        BY <2>2
      <4>2. (<<a>> \o <<b>>) \o rest = <<a>> \o (<<b>> \o rest)
        BY <4>1, ConcatAssociative
      <4>3. QED
        BY <2>3, <4>2
    <3> DEFINE r == <<b>> \o rest
    <3>2. r \in Seq(FieldT)
      BY <2>2
    <3> HIDE DEF r, fields
    <3>3. Tail(<<a>> \o r) = r
      BY <2>2, <3>2
    <3>4. Tail(fields) = SubSeq(fields, 2, Len(fields))
      BY <2>5
    <3>5. QED
      BY <3>1, <3>3, <3>4 DEF r
  <2> HIDE DEF fields
  <2>7. 1 \in full /\ 2 \notin full
    BY <2>2, <2>5
  <2> HIDE DEF full
  <2>8. n = 1
    <3>1. ks \in SUBSET Nat /\ 1 \in ks /\ \A k \in ks : 1 <= k
      BY <2>5, <2>7
    <3> HIDE DEF ks
    <3>2. QED
      BY <3>1, MinIs
  <2> HIDE DEF n
  <2>9. behind = <<b>> \o rest
    BY <2>6, <2>8
  <2> HIDE DEF behind
  <2>10. behind # <<>> /\ Head(behind) = b /\ Tail(behind) = rest
    BY <2>2, <2>9
  <2>11. Readable(behind, 4)
    BY <2>2, <2>10 DEF Readable, Next1
  <2>12. 1 + 15 * n + Head(behind).val = v
    BY <2>2, <2>8, <2>10
  <2>13. ReadVersion(fields) = [in |-> rest, version |-> v, err |-> "EXIP_OK"]
    BY <1>1, <2>10, <2>11, <2>12
  <2>14. QED
    BY <2>3, <2>4, <2>13 DEF fields
<1>4. QED
  BY <1>2, <1>3

(* The first three members of a sequence, and the rest.                     *)
LEMMA BehindThree ==
  ASSUME NEW T, NEW a \in T, NEW b \in T, NEW c \in T, NEW q \in Seq(T), NEW s,
         s = <<a, b, c>> \o q
  PROVE  /\ s \in Seq(T) /\ s[1] = a /\ s[2] = b /\ s[3] = c /\ Head(s) = a /\ s # <<>>
         /\ SubSeq(s, 4, Len(s)) = q
<1> DEFINE t == <<a, b, c>>
<1>1. t \in Seq(T) /\ Len(t) = 3 /\ t[1] = a /\ t[2] = b /\ t[3] = c
  OBVIOUS
<1>2. s = t \o q
  OBVIOUS
<1> HIDE DEF t
<1>3. /\ s \in Seq(T) /\ Len(s) = Len(t) + Len(q)
      /\ \A i \in 1..Len(t) + Len(q) : s[i] = IF i <= Len(t) THEN t[i] ELSE q[i - Len(t)]
  BY <1>1, <1>2, ConcatProperties
<1>4. Len(q) \in Nat /\ Len(s) = 3 + Len(q)
  BY <1>1, <1>3
<1>5. s[1] = a /\ s[2] = b /\ s[3] = c
  BY <1>1, <1>3, <1>4
<1>6. Head(s) = a /\ s # <<>>
  BY <1>3, <1>4, <1>5
<1> DEFINE u == SubSeq(s, 4, Len(s))
<1>7. u \in Seq(T) /\ Len(u) = Len(q) /\ \A i \in 1..Len(q) : u[i] = s[4 + i - 1]
  <2>1. \A i \in 4..Len(s) : s[i] \in T
    BY <1>3, <1>4
  <2>2. 4 \in Int /\ Len(s) \in Int
    BY <1>4
  <2>3. /\ u \in Seq(T) /\ Len(u) = IF 4 <= Len(s) THEN Len(s) - 4 + 1 ELSE 0
        /\ \A i \in 1..Len(s) - 4 + 1 : u[i] = s[4 + i - 1]
    BY <2>1, <2>2, SubSeqProperties
  <2> HIDE DEF u
  <2>4. QED
    BY <1>4, <2>3
<1> HIDE DEF u
<1>8. \A i \in 1..Len(q) : u[i] = q[i]
  <2>1. ASSUME NEW i \in 1..Len(q) PROVE u[i] = q[i]
    <3>1. /\ 4 + i - 1 \in 1..Len(t) + Len(q) /\ ~(4 + i - 1 <= Len(t))
          /\ 4 + i - 1 - Len(t) = i
      BY <1>1, <1>4
    <3>2. s[4 + i - 1] = q[i]
      BY <1>3, <3>1
    <3>3. QED
      BY <1>7, <3>2
  <2>2. QED
    BY <2>1
<1>9. u = q
  BY <1>7, <1>8, SeqEqual
<1>10. QED
  BY <1>3, <1>5, <1>6, <1>9 DEF u

Associates(a, b, c) == (a \o b) \o c = a \o (b \o c)

(* Fields are put together in any order.                                    *)
LEMMA FieldsAssociate ==
  ASSUME NEW a \in Seq(FieldT), NEW b \in Seq(FieldT), NEW c \in Seq(FieldT)
  PROVE  Associates(a, b, c)
BY ConcatAssociative DEF Associates

(* What decodeHeader finds in front of the options document.                *)
FixedRead(h, rest, all, fields) ==
  /\ fields[2].val = Num(h.has_options) /\ fields[3].val = Num(h.is_preview_version)
  /\ ReadVersion(SubSeq(fields, 4, Len(fields))) =
       [in |-> rest, version |-> h.version_number, err |-> "EXIP_OK"]
  /\ h.has_cookie => Next1(all).kind = "cookie" /\ Tail(all) = fields
  /\ ~h.has_cookie => Next1(all).kind # "cookie" /\ all = fields

(* The fixed part of the header is read as it was written.                  *)
LEMMA FixedIsRead ==
  ASSUME NEW h \in Headers, NEW rest \in Seq(FieldT)
  PROVE  /\ Fixed(h) \in Seq(FieldT)
         /\ \E fields : FixedRead(h, rest, Fixed(h) \o rest, fields)
<1> DEFINE a == Field("bits", 2, 2)
           b == Field("bits", 1, Num(h.has_options))
           c == Field("bits", 1, Num(h.is_preview_version))
           k == Field("cookie", 32, 0)
           v == h.version_number
           V == VersionNumber(v)
           K == When(h.has_cookie, <<k>>)
           q == V \o rest
           fields == <<a, b, c>> \o q
           all == Fixed(h) \o rest
<1>1. /\ NBits(2, 2) = <<a>> /\ NBits(1, Num(h.has_options)) = <<b>>
      /\ NBits(1, Num(h.is_preview_version)) = <<c>>
      /\ a \in FieldT /\ b \in FieldT /\ c \in FieldT
  <2>1. Narrow(2, 2) /\ Narrow(1, Num(h.has_options)) /\ Narrow(1, Num(h.is_preview_version))
        /\ 2 # 0 /\ 1 # 0
    BY DEF Narrow, Num
  <2>2. QED
    BY <2>1, Narrows
<1>2. /\ a.kind = "bits" /\ b.val = Num(h.has_options) /\ c.val = Num(h.is_preview_version)
      /\ k.kind = "cookie"
  BY DEF Field
<1>3. k \in FieldT
  <2>1. 0 \in Int /\ 32 \in Int
    OBVIOUS
  <2>2. 0 \in ValT
    BY <2>1, Zenon DEF ValT
  <2>3. QED
    BY <2>1, <2>2 DEF Field, FieldT
<1>4. v \in 1..30 /\ h.has_cookie \in BOOLEAN
  BY DEF Headers
<1>5. V \in Seq(FieldT)
      /\ ReadVersion(q) = [in |-> rest, version |-> v, err |-> "EXIP_OK"]
  <2> HIDE DEF v
  <2>1. QED
    BY <1>4, VersionRead
<1>6. Fixed(h) = (((K \o <<a>>) \o <<b>>) \o <<c>>) \o V
  BY <1>1 DEF Fixed
<1> HIDE DEF a, b, c, k, v, V
<1>7. K \in Seq(FieldT)
  BY <1>3 DEF When
<1>8. /\ <<a>> \in Seq(FieldT) /\ <<b>> \in Seq(FieldT) /\ <<c>> \in Seq(FieldT)
      /\ <<a, b, c>> \in Seq(FieldT)
  BY <1>1
<1>9. (<<a>> \o <<b>>) \o <<c>> = <<a, b, c>>
  BY <1>1, Joining
<1>10. q \in Seq(FieldT)
  BY <1>5
<1> DEFINE t == <<a, b, c>>
<1>11. Fixed(h) = K \o (t \o V)
  <2> DEFINE x == <<a>>
             y == <<b>>
             z == <<c>>
  <2>1. x \in Seq(FieldT) /\ y \in Seq(FieldT) /\ z \in Seq(FieldT) /\ t \in Seq(FieldT)
    BY <1>8
  <2>7. (x \o y) \o z = t /\ Fixed(h) = (((K \o x) \o y) \o z) \o V
    BY <1>6, <1>9
  <2> HIDE DEF x, y, z, K, t
  <2>2. (K \o x) \o y = K \o (x \o y)
    BY <1>7, <2>1, FieldsAssociate DEF Associates
  <2>3. x \o y \in Seq(FieldT)
    BY <2>1
  <2>4. (K \o (x \o y)) \o z = K \o ((x \o y) \o z)
    <3> DEFINE xy == x \o y
    <3>1. xy \in Seq(FieldT)
      BY <2>3
    <3> HIDE DEF xy
    <3>2. Associates(K, xy, z)
      BY <1>7, <2>1, <3>1, FieldsAssociate
    <3>3. QED
      BY <3>2 DEF Associates, xy
  <2>5. (K \o t) \o V = K \o (t \o V)
    BY <1>5, <1>7, <2>1, ConcatAssociative
  <2>6. QED
    BY <2>2, <2>4, <2>5, <2>7
<1>12. t \in Seq(FieldT) /\ t \o V \in Seq(FieldT)
  BY <1>5, <1>8
<1> HIDE DEF K, t
<1>13. all = K \o (t \o q)
  <2> DEFINE tV == t \o V
  <2>1. (t \o V) \o rest = t \o (V \o rest)
    BY <1>5, <1>12, ConcatAssociative
  <2>2. tV \in Seq(FieldT) /\ Fixed(h) = K \o tV
    BY <1>11, <1>12
  <2> HIDE DEF tV
  <2>3. (K \o tV) \o rest = K \o (tV \o rest)
    BY <1>7, <2>2, ConcatAssociative
  <2>4. QED
    BY <2>1, <2>2, <2>3 DEF tV
<1>14. Fixed(h) \in Seq(FieldT)
  BY <1>7, <1>11, <1>12
<1> HIDE DEF q, all
<1>15. fields = t \o q
  BY DEF t
<1>16. /\ fields \in Seq(FieldT) /\ fields[2] = b /\ fields[3] = c /\ Head(fields) = a
       /\ fields # <<>> /\ SubSeq(fields, 4, Len(fields)) = q
  BY <1>1, <1>10, BehindThree
<1> HIDE DEF fields
<1>17. all = K \o fields
  BY <1>13, <1>15
<1>18. CASE h.has_cookie
  <2>1. all = <<k>> \o fields
    BY <1>17, <1>18 DEF K, When
  <2>2. Head(all) = k /\ all # <<>> /\ Tail(all) = fields
    BY <1>3, <1>16, <2>1
  <2>3. Next1(all).kind = "cookie"
    BY <1>2, <2>2 DEF Next1
  <2>4. FixedRead(h, rest, all, fields)
    BY <1>2, <1>5, <1>16, <1>18, <2>2, <2>3 DEF FixedRead, q, v
  <2>5. QED
    BY <1>14, <2>4 DEF all
<1>19. CASE ~h.has_cookie
  <2>1. all = fields
    BY <1>16, <1>17, <1>19 DEF K, When
  <2>2. Next1(all).kind # "cookie"
    BY <1>2, <1>16, <2>1 DEF Next1
  <2>3. FixedRead(h, rest, all, fields)
    BY <1>2, <1>5, <1>16, <1>19, <2>1, <2>2 DEF FixedRead, q, v
  <2>4. QED
    BY <1>14, <2>3 DEF all
<1>20. QED
  BY <1>18, <1>19

-----------------------------------------------------------------------------
(* The options found at the end are those that were sent.                   *)

(* All options found at the end.                                            *)
LEMMA FoundFields ==
  ASSUME NEW o \in Options
  PROVE  /\ Found(o, 14) = Opt(o.alignment, o.enumOpt, o.preserve, SentMode(o), o.schemaID,
                               NoMap, o.blockSize, Cast(o.valueMaxLength),
                               Cast(o.valuePartitionCapacity))
         /\ Found(o, 14).alignment = o.alignment /\ Found(o, 14).enumOpt = o.enumOpt
         /\ Found(o, 14).preserve = o.preserve /\ Found(o, 14).schemaIDMode = SentMode(o)
         /\ Found(o, 14).valueMaxLength = Cast(o.valueMaxLength)
         /\ Found(o, 14).valuePartitionCapacity = Cast(o.valuePartitionCapacity)
<1>1. 14 >= 1 /\ 14 >= 13 /\ 14 >= 10 /\ 14 >= 3 /\ 14 >= 4
  OBVIOUS
<1> DEFINE en == EnumFound(o, 14)
           pr == PreserveFound(o, 14)
<1>2. en = o.enumOpt /\ pr = o.preserve
  BY FoundEnds
<1>3. Found(o, 14) = Opt(o.alignment, en, pr, SentMode(o), o.schemaID, NoMap, o.blockSize,
                         Cast(o.valueMaxLength), Cast(o.valuePartitionCapacity))
  BY <1>1, Zenon DEF Found
<1> HIDE DEF en, pr
<1>4. Found(o, 14) = Opt(o.alignment, o.enumOpt, o.preserve, SentMode(o), o.schemaID,
                         NoMap, o.blockSize, Cast(o.valueMaxLength),
                         Cast(o.valuePartitionCapacity))
  BY <1>2, <1>3
<1>5. ASSUME NEW al, NEW e, NEW p, NEW mo, NEW id, NEW dr, NEW bs, NEW ml, NEW cp
      PROVE  /\ Opt(al, e, p, mo, id, dr, bs, ml, cp).alignment = al
             /\ Opt(al, e, p, mo, id, dr, bs, ml, cp).enumOpt = e
             /\ Opt(al, e, p, mo, id, dr, bs, ml, cp).preserve = p
             /\ Opt(al, e, p, mo, id, dr, bs, ml, cp).schemaIDMode = mo
             /\ Opt(al, e, p, mo, id, dr, bs, ml, cp).valueMaxLength = ml
             /\ Opt(al, e, p, mo, id, dr, bs, ml, cp).valuePartitionCapacity = cp
  BY DEF Opt
<1>6. QED
  BY <1>4, <1>5

(* They are as consistent, and ask for the same padding and the same        *)
(* schema, as those sent.                                                   *)
LEMMA FoundAgrees ==
  ASSUME NEW o \in Options
  PROVE  /\ Consistent(Found(o, 14)) <=> Consistent(o)
         /\ Padding(Found(o, 14)) = Padding(o)
         /\ IsPadded(Found(o, 14)) <=> IsPadded(o)
         /\ OptionsOK(Found(o, 14))
         /\ SentMode(o) = o.schemaIDMode =>
              \A has : SchemaFor(Found(o, 14), has) = SchemaFor(o, has)
<1> DEFINE x == Found(o, 14)
<1>1. /\ x.alignment = o.alignment /\ x.enumOpt = o.enumOpt
      /\ x.preserve = o.preserve /\ x.schemaIDMode = SentMode(o)
      /\ x.valueMaxLength = Cast(o.valueMaxLength)
      /\ x.valuePartitionCapacity = Cast(o.valuePartitionCapacity)
  BY FoundFields
<1> HIDE DEF x
<1>2. Consistent(x) <=> Consistent(o)
  BY <1>1 DEF Consistent
<1>3. IsPadded(x) <=> IsPadded(o)
  BY <1>1 DEF IsPadded
<1>4. Padding(x) = Padding(o)
  BY <1>3 DEF Padding, When
<1>5. OptionsOK(x)
  <2>1. o.alignment \in {"BIT_PACKED", "BYTE_ALIGNMENT", "PRE_COMPRESSION"}
        /\ o.valueMaxLength \in 0..INDEX_MAX /\ o.valuePartitionCapacity \in 0..INDEX_MAX
    BY DEF Options
  <2>2. UIntRange \in Nat /\ UIntRange # 0 /\ INDEX_MAX \in Nat
    BY HeaderAssumption
  <2>3. \A v \in 0..INDEX_MAX : v % UIntRange \in 0..UIntRange - 1
    BY <2>2
  <2>4. \A v \in 0..INDEX_MAX : Cast(v) \in 0..UIntRange - 1 \cup {INDEX_MAX}
    BY <2>3 DEF Cast
  <2>5. SentMode(o) \in SCHEMA_ID_ABSENT..SCHEMA_ID_EMPTY
    BY DEF SentMode, SCHEMA_ID_ABSENT, SCHEMA_ID_SET, SCHEMA_ID_EMPTY
  <2>6. QED
    BY <1>1, <2>1, <2>4, <2>5 DEF OptionsOK
<1>6. SentMode(o) = o.schemaIDMode => \A has : SchemaFor(x, has) = SchemaFor(o, has)
  BY <1>1 DEF SchemaFor
<1>7. QED
  BY <1>2, <1>3, <1>4, <1>5, <1>6 DEF x

(* They are those sent when no value has to be cast.                        *)
LEMMA FoundAll ==
  ASSUME NEW o \in Options, ~o.drMap, SentMode(o) = o.schemaIDMode, Fits(o)
  PROVE  Found(o, 14) = o
<1>1. o = Opt(o.alignment, o.enumOpt, o.preserve, o.schemaIDMode, o.schemaID, o.drMap,
              o.blockSize, o.valueMaxLength, o.valuePartitionCapacity)
  BY DEF Options, Opt
<1>2. o.drMap = NoMap
  <2>1. o.drMap \in BOOLEAN
    BY DEF Options
  <2>2. QED
    BY <2>1 DEF NoMap
<1>3. ASSUME NEW n \in {o.valueMaxLength, o.valuePartitionCapacity}
      PROVE  Cast(n) = n
  <2>1. n \in 0..INDEX_MAX
    BY DEF Options
  <2>2. INDEX_MAX \in Nat /\ UIntRange \in Nat
    BY HeaderAssumption
  <2>3. n < UIntRange \/ n = INDEX_MAX
    BY DEF Fits
  <2>4. n < UIntRange => n % UIntRange = n
    BY <2>1, <2>2
  <2>5. QED
    BY <2>3, <2>4 DEF Cast
<1>4. QED
  BY <1>1, <1>2, <1>3, FoundFields

-----------------------------------------------------------------------------
(* The inductive invariant, by the next call of each side.                  *)

Accepted ==
  /\ Consistent(input.opts)
  /\ ser.schema = SchemaFor(input.opts, input.schema) /\ ser.schema \in Schemas
  /\ input.schema /\ input.opts.schemaIDMode = SCHEMA_ID_SET => input.opts.schemaID # ""

Serializing ==
  \/ ser.next = "initStream" /\ ser.schema = ""
  \/ ser.next = "encodeHeader" /\ Accepted /\ (Ok(ser) \/ ~Expressible(input.opts))
  \/ ser.next = "body" /\ Accepted /\ Ok(ser)
     /\ (input.header.has_options => Expressible(input.opts))

HeaderOf(i, b) ==
  \E f \in Seq(FieldT) :
    IF i.header.has_options
    THEN b = (Fixed(i.header) \o f) \o Padding(i.opts) /\ ReadBack(i.opts, f)
    ELSE b = Fixed(i.header) \o <<>>

StartOf(i) == IF i.outOfBand THEN i.outOfBandOpts ELSE makeDefaultOpts
HeldBy(i) == IF i.header.has_options THEN Found(i.opts, 14) ELSE i.outOfBandOpts

HasRead ==
  ser.next = "body" /\ buffer = <<>> /\ par.header = input.header /\ par.opts = HeldBy(input)

Parsing ==
  \/ /\ par.next = "initParser" /\ Ok(par) /\ par.opts = makeDefaultOpts /\ par.schema = ""
     /\ ser.next = "body" => HeaderOf(input, buffer)
  \/ /\ par.next = "decodeHeader" /\ ser.next = "body" /\ par.schema = ""
     /\ Ok(par) => HeaderOf(input, buffer) /\ par.opts = StartOf(input)
     /\ ~Ok(par) => ~input.header.has_options
  \/ /\ par.next = "setSchema" /\ HasRead /\ par.schema = ""
     /\ ~Ok(par) => par.err = SchemaFor(par.opts, input.schema) /\ par.err \notin Schemas
  \/ /\ par.next = "body" /\ HasRead /\ Ok(par)
     /\ par.schema = SchemaFor(par.opts, input.schema) /\ par.schema \in Schemas

Shapes == /\ DOMAIN ser = {"next", "schema", "err"}
          /\ DOMAIN par = {"next", "schema", "err", "header", "opts"}

IInv == input \in Inputs /\ Shapes /\ Serializing /\ Parsing

(* What an application may ask for.                                         *)
LEMMA InputTypes ==
  ASSUME NEW i \in Inputs
  PROVE  /\ i.opts \in Options /\ i.header \in Headers /\ Identifiable(i.opts)
         /\ i.header.has_options \in BOOLEAN /\ i.outOfBand \in BOOLEAN
<1>1. i \in [opts : Options, header : Headers, schema : BOOLEAN,
             outOfBand : BOOLEAN, outOfBandOpts : Options]
  BY HeaderAssumption
<1>2. Identifiable(i.opts)
  BY HeaderAssumption DEF Identifiable
<1>3. i.opts \in Options /\ i.header \in Headers /\ i.outOfBand \in BOOLEAN
  BY <1>1
<1>4. i.header.has_options \in BOOLEAN
  BY <1>3 DEF Headers
<1>5. QED
  BY <1>2, <1>3, <1>4

(* The updates of the two sides.                                            *)
SameBut(x, y, schema, next, err) ==
  /\ DOMAIN y = DOMAIN x /\ y.schema = schema /\ y.next = next /\ y.err = err
  /\ "header" \in DOMAIN x => y.header = x.header
  /\ "opts" \in DOMAIN x => y.opts = x.opts

(* What Failed, WithSchema and a change of the next call do to a side.      *)
LEMMA Updates ==
  ASSUME NEW x, {"next", "schema", "err"} \subseteq DOMAIN x, Ok(x), NEW v, NEW n
  PROVE  /\ SameBut(x, Failed(x, v), x.schema, x.next, v)
         /\ v \in Schemas => SameBut(x, WithSchema(x, v, n), v, n, "EXIP_OK")
         /\ v \notin Schemas => SameBut(x, WithSchema(x, v, n), x.schema, x.next, v)
         /\ SameBut(x, [x EXCEPT !.next = n], x.schema, n, x.err)
<1>1. SameBut(x, Failed(x, v), x.schema, x.next, v)
  BY DEF Failed, SameBut
<1>2. ASSUME v \in Schemas PROVE SameBut(x, WithSchema(x, v, n), v, n, "EXIP_OK")
  <2> DEFINE y == [x EXCEPT !.schema = v]
             z == [y EXCEPT !.next = n]
  <2>1. /\ DOMAIN y = DOMAIN x /\ y.schema = v /\ y.next = x.next /\ y.err = x.err
        /\ "header" \in DOMAIN x => y.header = x.header
        /\ "opts" \in DOMAIN x => y.opts = x.opts
    OBVIOUS
  <2> HIDE DEF y
  <2>2. /\ DOMAIN z = DOMAIN y /\ z.schema = y.schema /\ z.next = n /\ z.err = y.err
        /\ "header" \in DOMAIN y => z.header = y.header
        /\ "opts" \in DOMAIN y => z.opts = y.opts
    BY <2>1
  <2>3. WithSchema(x, v, n) = z
    BY <1>2 DEF WithSchema, y
  <2> HIDE DEF z
  <2>4. QED
    BY <2>1, <2>2, <2>3 DEF SameBut, Ok
<1>3. ASSUME v \notin Schemas
      PROVE SameBut(x, WithSchema(x, v, n), x.schema, x.next, v)
  BY <1>1, <1>3 DEF WithSchema
<1>4. SameBut(x, [x EXCEPT !.next = n], x.schema, n, x.err)
  BY DEF SameBut
<1>5. QED
  BY <1>1, <1>2, <1>3, <1>4

(* The invariant holds before the first call.                               *)
LEMMA Initially == Init => IInv
<1>1. SUFFICES ASSUME Init PROVE IInv
  OBVIOUS
<1>2. Shapes
  BY <1>1 DEF Init, Shapes
<1>3. Serializing
  BY <1>1 DEF Init, Serializing
<1>4. Parsing
  BY <1>1 DEF Init, Parsing, Ok
<1>5. QED
  BY <1>1, <1>2, <1>3, <1>4 DEF Init, IInv

(* initStream lets only options through for which there is a schema.        *)
LEMMA InitStreamStep ==
  ASSUME IInv, initStream
  PROVE  IInv'
<1>1. /\ ser.next = "initStream" /\ ser.schema = "" /\ Ok(ser)
      /\ DOMAIN ser = {"next", "schema", "err"}
      /\ UNCHANGED <<input, par, buffer>> /\ par.next = "initParser"
  BY DEF IInv, initStream, Serializing, Parsing, Shapes, HasRead
<1> DEFINE v == SchemaFor(input.opts, input.schema)
<1>2. \/ \E e : SameBut(ser, ser', "", "initStream", e)
      \/ /\ SameBut(ser, ser', v, "encodeHeader", "EXIP_OK") /\ v \in Schemas
         /\ Consistent(input.opts)
         /\ input.schema /\ input.opts.schemaIDMode = SCHEMA_ID_SET => input.opts.schemaID # ""
  <2> HIDE DEF v
  <2>1. {"next", "schema", "err"} \subseteq DOMAIN ser
    BY <1>1
  <2>2. CASE ser' = Failed(ser, "EXIP_HEADER_OPTIONS_MISMATCH")
             \/ ser' = Failed(ser, "EXIP_INVALID_EXIP_CONFIGURATION")
    BY <1>1, <2>1, <2>2, Updates
  <2>3. CASE /\ ser' = WithSchema(ser, v, "encodeHeader")
             /\ Consistent(input.opts)
             /\ input.schema /\ input.opts.schemaIDMode = SCHEMA_ID_SET =>
                  input.opts.schemaID # ""
    BY <1>1, <2>1, <2>3, Updates
  <2>4. QED
    BY <2>2, <2>3, Zenon DEF initStream, v
<1>3. ser'.next # "body" /\ DOMAIN ser' = DOMAIN ser
  BY <1>2 DEF SameBut
<1>4. Serializing'
  BY <1>1, <1>2 DEF Serializing, SameBut, Accepted, Ok
<1>5. Parsing'
  BY <1>1, <1>3 DEF IInv, Parsing, Ok, HasRead
<1>6. QED
  BY <1>1, <1>3, <1>4, <1>5 DEF IInv, Shapes

(* encodeHeader writes the header, or gives up on what it cannot express.   *)
LEMMA EncodeHeaderStep ==
  ASSUME IInv, encodeHeader
  PROVE  IInv'
<1> DEFINE h == input.header
           o == input.opts
           s == IF h.has_options THEN serializeOptionsStream(Fixed(h), o)
                ELSE [out |-> Fixed(h), err |-> "EXIP_OK"]
           x == [ser EXCEPT !.next = IF Ok(s) THEN "body" ELSE @]
<1>1. /\ ser.next = "encodeHeader" /\ Ok(ser) /\ Accepted
      /\ DOMAIN ser = {"next", "schema", "err"} /\ input \in Inputs
      /\ par.next = "initParser" /\ Ok(par) /\ par.opts = makeDefaultOpts /\ par.schema = ""
  BY DEF IInv, encodeHeader, Serializing, Parsing, Shapes, HasRead
<1>2. /\ ser' = Failed(x, s.err)
      /\ buffer' = s.out \o When(Ok(s) /\ h.has_options, Padding(o))
      /\ UNCHANGED <<input, par>>
  BY DEF encodeHeader
<1>3. /\ o \in Options /\ h \in Headers /\ Identifiable(o) /\ h.has_options \in BOOLEAN
  BY <1>1, InputTypes
<1>4. Fixed(h) \in Seq(FieldT)
  <2>1. <<>> \in Seq(FieldT)
    OBVIOUS
  <2>2. QED
    BY <1>3, <2>1, FixedIsRead
<1>5. x = [ser EXCEPT !.next = IF Ok(s) THEN "body" ELSE ser.next]
  OBVIOUS
<1> HIDE DEF s, x
<1>6. SameBut(ser, x, ser.schema, IF Ok(s) THEN "body" ELSE ser.next, ser.err)
  BY <1>1, <1>5, Updates
<1>7. SameBut(x, ser', x.schema, x.next, s.err)
  <2>1. {"next", "schema", "err"} \subseteq DOMAIN x /\ Ok(x)
    BY <1>1, <1>6 DEF SameBut, Ok
  <2>2. QED
    BY <1>2, <2>1, Updates
<1>8. /\ DOMAIN ser' = {"next", "schema", "err"} /\ ser'.schema = ser.schema
      /\ ser'.next = (IF Ok(s) THEN "body" ELSE "encodeHeader") /\ ser'.err = s.err
  BY <1>1, <1>6, <1>7 DEF SameBut
<1>9. (h.has_options => Expressible(o)) => Ok(s) /\ HeaderOf(input, buffer')
  <2>1. CASE ~h.has_options
    <3>1. s = [out |-> Fixed(h), err |-> "EXIP_OK"]
      BY <2>1 DEF s
    <3>2. Ok(s) /\ s.out = Fixed(h)
      BY <3>1 DEF Ok
    <3>3. buffer' = Fixed(h) \o <<>>
      BY <1>2, <2>1, <3>2 DEF When
    <3>4. <<>> \in Seq(FieldT)
      OBVIOUS
    <3>5. QED
      BY <2>1, <3>2, <3>3, <3>4 DEF HeaderOf
  <2>2. CASE h.has_options /\ Expressible(o)
    <3>1. PICK f \in Seq(FieldT) : Written(o, f) /\ ReadBack(o, f)
      BY <1>3, <2>2, OptionsReadBack
    <3>2. s = S(Fixed(h) \o f, <<>>)
      BY <1>4, <2>2, <3>1 DEF Written, s
    <3>3. Ok(s) /\ s.out = Fixed(h) \o f
      BY <3>2 DEF Ok, S
    <3>4. buffer' = (Fixed(h) \o f) \o Padding(o)
      BY <1>2, <2>2, <3>3 DEF When
    <3>5. QED
      BY <2>2, <3>1, <3>3, <3>4 DEF HeaderOf
  <2>3. QED
    BY <2>1, <2>2
<1>10. h.has_options /\ ~Expressible(o) => ~Ok(s)
  BY <1>3, NotWritten DEF s
<1>11. Serializing'
  <2>1. CASE h.has_options => Expressible(o)
    BY <1>1, <1>2, <1>8, <1>9, <2>1 DEF Serializing, Accepted, Ok
  <2>2. CASE h.has_options /\ ~Expressible(o)
    BY <1>1, <1>2, <1>8, <1>10, <2>2 DEF Serializing, Accepted, Ok
  <2>3. QED
    BY <2>1, <2>2
<1>12. ser'.next = "body" => HeaderOf(input, buffer')
  BY <1>8, <1>9, <1>10
<1>13. Parsing'
  BY <1>1, <1>2, <1>12 DEF Parsing, Ok
<1>14. QED
  BY <1>1, <1>2, <1>8, <1>11, <1>13 DEF IInv, Shapes

(* initParser leaves the header alone.                                      *)
LEMMA InitParserStep ==
  ASSUME IInv, initParser
  PROVE  IInv'
<1> DEFINE x == [par EXCEPT !.next = "decodeHeader"]
<1>1. /\ par.next = "initParser" /\ ser.next = "body" /\ UNCHANGED <<input, ser, buffer>>
      /\ par' = [par EXCEPT !.next = "decodeHeader",
                            !.opts = IF input.outOfBand THEN input.outOfBandOpts ELSE @]
  BY DEF initParser
<1>2. /\ DOMAIN par = {"next", "schema", "err", "header", "opts"} /\ input \in Inputs
      /\ Ok(par) /\ par.opts = makeDefaultOpts /\ par.schema = "" /\ HeaderOf(input, buffer)
  BY <1>1 DEF IInv, Parsing, Shapes, HasRead
<1>3. /\ DOMAIN x = DOMAIN par /\ x.next = "decodeHeader" /\ x.schema = "" /\ x.err = par.err
      /\ x.header = par.header /\ x.opts = makeDefaultOpts
  BY <1>2
<1>4. par' = [x EXCEPT !.opts = IF input.outOfBand THEN input.outOfBandOpts ELSE x.opts]
  BY <1>1, <1>2
<1> HIDE DEF x
<1>5. /\ DOMAIN par' = {"next", "schema", "err", "header", "opts"}
      /\ par'.next = "decodeHeader" /\ par'.schema = "" /\ par'.err = par.err
      /\ par'.opts = StartOf(input)
  BY <1>2, <1>3, <1>4 DEF StartOf
<1>6. Parsing'
  BY <1>1, <1>2, <1>5 DEF Parsing, Ok
<1>7. Serializing'
  BY <1>1 DEF IInv, Serializing, Accepted, Ok
<1>8. QED
  BY <1>1, <1>5, <1>6, <1>7 DEF IInv, Shapes

(* setSchema decides on the options read.                                   *)
LEMMA SetSchemaStep ==
  ASSUME IInv, setSchema
  PROVE  IInv'
<1> DEFINE v == SchemaFor(par.opts, input.schema)
<1>1. /\ par.next = "setSchema" /\ Ok(par) /\ UNCHANGED <<input, ser, buffer>>
      /\ par' = WithSchema(par, v, "body")
      /\ DOMAIN par = {"next", "schema", "err", "header", "opts"}
      /\ HasRead /\ par.schema = ""
  BY DEF setSchema, IInv, Parsing, Shapes
<1>2. {"next", "schema", "err"} \subseteq DOMAIN par /\ "header" \in DOMAIN par
      /\ "opts" \in DOMAIN par
  BY <1>1
<1> HIDE DEF v
<1>3. CASE v \in Schemas
  <2>1. SameBut(par, par', v, "body", "EXIP_OK")
    BY <1>1, <1>2, <1>3, Updates
  <2>2. /\ DOMAIN par' = DOMAIN par /\ par'.schema = v /\ par'.next = "body"
        /\ par'.err = "EXIP_OK" /\ par'.header = par.header /\ par'.opts = par.opts
    BY <1>2, <2>1 DEF SameBut
  <2>3. HasRead'
    BY <1>1, <2>2 DEF HasRead
  <2>4. Parsing'
    BY <1>1, <1>3, <2>2, <2>3 DEF Parsing, Ok, v
  <2>5. QED
    BY <1>1, <2>2, <2>4 DEF IInv, Serializing, Accepted, Ok, Shapes
<1>4. CASE v \notin Schemas
  <2>1. SameBut(par, par', "", "setSchema", v)
    BY <1>1, <1>2, <1>4, Updates
  <2>2. /\ DOMAIN par' = DOMAIN par /\ par'.schema = "" /\ par'.next = "setSchema"
        /\ par'.err = v /\ par'.header = par.header /\ par'.opts = par.opts
    BY <1>2, <2>1 DEF SameBut
  <2>3. HasRead'
    BY <1>1, <2>2 DEF HasRead
  <2>4. Parsing'
    BY <1>1, <1>4, <2>2, <2>3 DEF Parsing, Ok, v
  <2>5. QED
    BY <1>1, <2>2, <2>4 DEF IInv, Serializing, Accepted, Ok, Shapes
<1>5. QED
  BY <1>3, <1>4

(* The end of decodeHeader, on the options it has come to.                  *)
LEMMA CheckedIs ==
  ASSUME NEW p, {"next", "schema", "err"} \subseteq DOMAIN p, Ok(p)
  PROVE  /\ Consistent(p.opts) => SameBut(p, Checked(p), p.schema, "setSchema", "EXIP_OK")
         /\ ~Consistent(p.opts) =>
              SameBut(p, Checked(p), p.schema, p.next, "EXIP_HEADER_OPTIONS_MISMATCH")
<1>1. p.err = "EXIP_OK"
  BY DEF Ok
<1>2. CASE Consistent(p.opts)
  <2>1. Checked(p) = [p EXCEPT !.next = "setSchema"]
    BY <1>2 DEF Checked
  <2>2. QED
    BY <1>1, <1>2, <2>1, Updates
<1>3. CASE ~Consistent(p.opts)
  <2>1. Checked(p) = Failed(p, "EXIP_HEADER_OPTIONS_MISMATCH")
    BY <1>3 DEF Checked
  <2>2. QED
    BY <1>3, <2>1, Updates
<1>4. QED
  BY <1>2, <1>3

(* The padding is a field, or nothing.                                      *)
LEMMA PaddingType ==
  ASSUME NEW o
  PROVE  Padding(o) \in Seq(FieldT)
<1> DEFINE x == Field("padding", 0, 0)
<1>1. 0 \in Int
  OBVIOUS
<1>2. 0 \in ValT
  BY <1>1, Zenon DEF ValT
<1>3. x \in FieldT
  BY <1>1, <1>2 DEF Field, FieldT
<1>4. <<x>> \in Seq(FieldT)
  BY <1>3
<1>5. <<>> \in Seq(FieldT)
  OBVIOUS
<1>6. Padding(o) = <<x>> \/ Padding(o) = <<>>
  BY DEF Padding, When
<1> HIDE DEF x
<1>7. QED
  BY <1>4, <1>5, <1>6

(* The header in front of the body, as the parser finds it.                 *)
LEMMA HeaderIsFound ==
  ASSUME NEW i \in Inputs, NEW b, HeaderOf(i, b)
  PROVE  \E rest \in Seq(FieldT) :
           /\ \E fields : FixedRead(i.header, rest, b, fields)
           /\ i.header.has_options =>
                \E f \in Seq(FieldT) : rest = f \o Padding(i.opts) /\ ReadBack(i.opts, f)
           /\ ~i.header.has_options => rest = <<>>
<1> DEFINE h == i.header
           pad == Padding(i.opts)
<1>1. h \in Headers /\ h.has_options \in BOOLEAN
  BY InputTypes
<1>2. PICK f \in Seq(FieldT) :
        IF h.has_options THEN b = (Fixed(h) \o f) \o pad /\ ReadBack(i.opts, f)
                         ELSE b = Fixed(h) \o <<>>
  BY DEF HeaderOf
<1>3. CASE h.has_options
  <2>1. pad \in Seq(FieldT)
    BY PaddingType
  <2> DEFINE F == Fixed(h)
             rest == f \o pad
  <2>2. b = (F \o f) \o pad /\ ReadBack(i.opts, f)
    BY <1>2, <1>3
  <2> HIDE DEF pad
  <2>3. rest \in Seq(FieldT)
    BY <2>1
  <2>4. F \in Seq(FieldT) /\ \E fields : FixedRead(h, rest, F \o rest, fields)
    <3> HIDE DEF rest
    <3>1. QED
      BY <1>1, <2>3, FixedIsRead
  <2> HIDE DEF F
  <2>5. b = F \o rest
    <3>1. Associates(F, f, pad)
      BY <2>1, <2>4, FieldsAssociate
    <3>2. QED
      BY <2>2, <3>1 DEF Associates
  <2>6. \E fields : FixedRead(h, rest, b, fields)
    BY <2>4, <2>5
  <2>7. QED
    BY <1>3, <2>2, <2>3, <2>6 DEF pad
<1>4. CASE ~h.has_options
  <2> DEFINE rest == <<>>
  <2>1. rest \in Seq(FieldT)
    OBVIOUS
  <2>2. b = Fixed(h) \o rest
    BY <1>2, <1>4
  <2>3. \E fields : FixedRead(h, rest, b, fields)
    <3> HIDE DEF rest
    <3>1. QED
      BY <1>1, <2>1, <2>2, FixedIsRead
  <2>4. QED
    BY <1>4, <2>1, <2>3
<1>5. QED
  BY <1>1, <1>3, <1>4

(* decodeHeader reads the fixed part, then the options document in front of *)
(* the padding.                                                             *)
LEMMA DecodeHeaderStep ==
  ASSUME IInv, decodeHeader
  PROVE  IInv'
<1> DEFINE h == input.header
           o == input.opts
<1>1. /\ par.next = "decodeHeader" /\ Ok(par) /\ UNCHANGED <<input, ser>>
      /\ IF Next1(buffer).kind = "cookie" THEN DecodeFixed(Tail(buffer), TRUE)
                                          ELSE DecodeFixed(buffer, FALSE)
  BY DEF decodeHeader
<1>2. /\ DOMAIN par = {"next", "schema", "err", "header", "opts"} /\ input \in Inputs
      /\ ser.next = "body" /\ par.schema = "" /\ HeaderOf(input, buffer)
      /\ par.opts = StartOf(input) /\ par.err = "EXIP_OK"
  BY <1>1 DEF IInv, Parsing, Shapes, HasRead, Ok
<1>3. /\ o \in Options /\ h \in Headers
      /\ h.has_options \in BOOLEAN /\ input.outOfBand \in BOOLEAN
  BY <1>2, InputTypes
<1>4. Consistent(o)
  BY <1>2 DEF IInv, Serializing, Accepted
<1>5. PICK rest \in Seq(FieldT) :
        /\ \E fields : FixedRead(h, rest, buffer, fields)
        /\ h.has_options => \E f \in Seq(FieldT) : rest = f \o Padding(o) /\ ReadBack(o, f)
        /\ ~h.has_options => rest = <<>>
  BY <1>2, HeaderIsFound
<1>6. PICK fields : FixedRead(h, rest, buffer, fields)
  BY <1>5
<1>7. h = [has_cookie |-> h.has_cookie, has_options |-> h.has_options,
           is_preview_version |-> h.is_preview_version, version_number |-> h.version_number]
      /\ h.has_cookie \in BOOLEAN /\ h.is_preview_version \in BOOLEAN
  BY <1>3 DEF Headers
<1>8. DecodeFixed(fields, h.has_cookie)
  <2>1. CASE h.has_cookie
    <3>1. Next1(buffer).kind = "cookie" /\ Tail(buffer) = fields
      BY <1>6, <2>1 DEF FixedRead
    <3>2. DecodeFixed(fields, TRUE)
      BY <1>1, <3>1
    <3>3. h.has_cookie = TRUE
      BY <1>7, <2>1
    <3>4. QED
      BY <3>2, <3>3
  <2>2. CASE ~h.has_cookie
    <3>1. Next1(buffer).kind # "cookie" /\ buffer = fields
      BY <1>6, <2>2 DEF FixedRead
    <3>2. DecodeFixed(fields, FALSE)
      BY <1>1, <3>1
    <3>3. h.has_cookie = FALSE
      BY <1>7, <2>2
    <3>4. QED
      BY <3>2, <3>3
  <2>3. QED
    BY <2>1, <2>2
<1> DEFINE v == ReadVersion(SubSeq(fields, 4, Len(fields)))
           ho == (fields[2].val = 1)
           pv == (fields[3].val = 1)
           H == [has_cookie |-> h.has_cookie, has_options |-> ho,
                 is_preview_version |-> pv, version_number |-> v.version]
           p == [par EXCEPT !.header = H, !.err = v.err]
           q == [par EXCEPT !.header.has_options = FALSE]
           d == parseOptions([in |-> v.in, stack |-> Open("document"),
                              opts |-> StartOpts, prev |-> "", err |-> "EXIP_OK"])
<1>9. (CASE ~ho /\ ~input.outOfBand ->
              /\ par' = Failed(q, "EXIP_HEADER_OPTIONS_MISMATCH")
              /\ UNCHANGED buffer
         [] ho /\ Ok(v) -> OptionsRead(p, d)
         [] OTHER -> par' = Checked(p) /\ buffer' = v.in)
  <2> DEFINE R(v1) == [in |-> v1.in, stack |-> Open("document"), opts |-> StartOpts,
                       prev |-> "", err |-> "EXIP_OK"]
             Q(v1, h1) == [par EXCEPT !.header = [has_cookie |-> h.has_cookie,
                                                  has_options |-> h1,
                                                  is_preview_version |-> fields[3].val = 1,
                                                  version_number |-> v1.version],
                                      !.err = v1.err]
             C(v1, h1, p1) ==
               CASE ~h1 /\ ~input.outOfBand ->
                      /\ par' = Failed([par EXCEPT !.header.has_options = FALSE],
                                       "EXIP_HEADER_OPTIONS_MISMATCH")
                      /\ UNCHANGED buffer
                 [] h1 /\ Ok(v1) -> \E d1 \in {parseOptions(R(v1))} : OptionsRead(p1, d1)
                 [] OTHER -> par' = Checked(p1) /\ buffer' = v1.in
  <2>1. \E v1 \in {v}, h1 \in {fields[2].val = 1} : \E p1 \in {Q(v1, h1)} : C(v1, h1, p1)
    BY <1>8 DEF DecodeFixed
  <2> HIDE DEF C, Q
  <2>2. \E v1 \in {v} : \E h1 \in {ho} : \E p1 \in {Q(v1, h1)} : C(v1, h1, p1)
    BY <2>1, Zenon
  <2>3. PICK v1 \in {v} : \E h1 \in {ho} : \E p1 \in {Q(v1, h1)} : C(v1, h1, p1)
    BY <2>2, Zenon
  <2>4. PICK h1 \in {ho} : \E p1 \in {Q(v1, h1)} : C(v1, h1, p1)
    BY <2>3, Zenon
  <2>5. PICK p1 \in {Q(v1, h1)} : C(v1, h1, p1)
    BY <2>4, Zenon
  <2>6. v1 = v /\ h1 = ho /\ p1 = Q(v1, h1)
    BY Zenon
  <2>7. C(v, ho, Q(v, ho))
    BY <2>5, <2>6, Zenon
  <2>8. QED
    BY <2>7, Zenon DEF C, Q
<1>10. v.in = rest /\ v.version = h.version_number /\ v.err = "EXIP_OK" /\ Ok(v)
  BY <1>6 DEF FixedRead, Ok
<1>11. ho = h.has_options /\ pv = h.is_preview_version
  BY <1>3, <1>6, <1>7 DEF FixedRead, Num
<1>12. H = h
  <2> HIDE DEF ho, pv, v
  <2>1. QED
    BY <1>7, <1>10, <1>11
<1>13. /\ {"next", "schema", "err"} \subseteq DOMAIN p /\ Ok(p) /\ p.header = h /\ p.err = "EXIP_OK"
       /\ DOMAIN p = {"next", "schema", "err", "header", "opts"} /\ p.schema = ""
       /\ p.next = "decodeHeader" /\ p.opts = StartOf(input)
  <2> DEFINE x == [par EXCEPT !.header = H]
  <2> HIDE DEF H, v
  <2>1. p = [x EXCEPT !.err = v.err]
    BY <1>2
  <2>2. /\ DOMAIN x = {"next", "schema", "err", "header", "opts"} /\ x.schema = ""
        /\ x.next = "decodeHeader" /\ x.opts = StartOf(input) /\ x.header = h
    BY <1>1, <1>2, <1>12
  <2> HIDE DEF x, p
  <2>3. /\ p.header = h /\ p.err = "EXIP_OK"
        /\ DOMAIN p = {"next", "schema", "err", "header", "opts"} /\ p.schema = ""
        /\ p.next = "decodeHeader" /\ p.opts = StartOf(input)
    BY <1>10, <2>1, <2>2
  <2>4. QED
    BY <2>3 DEF Ok
<1> HIDE DEF H, p, q, ho, pv, v, d
<1> DEFINE D5 == {"next", "schema", "err", "header", "opts"}
<1>14. CASE h.has_options
  <2>1. PICK f \in Seq(FieldT) : rest = f \o Padding(o) /\ ReadBack(o, f)
    BY <1>5, <1>14
  <2>2. StartOpts = makeDefaultOpts
    BY <1>2, <1>3 DEF StartOpts, StartOf
  <2> DEFINE F == Found(o, 14)
  <2>3. PICK r : d = D(Padding(o), <<>>, F, r)
    <3>1. d = parseOptions(D(f \o Padding(o), Open("document"), makeDefaultOpts, ""))
      BY <1>10, <2>1, <2>2 DEF d, D
    <3>2. Padding(o) \in Seq(FieldT)
      BY PaddingType
    <3>3. QED
      BY <2>1, <3>1, <3>2 DEF ReadBack
  <2> HIDE DEF F
  <2>4. d.in = Padding(o) /\ d.opts = F /\ Ok(d)
    BY <2>3 DEF D, Ok
  <2>5. /\ par' = Checked([p EXCEPT !.opts = F])
        /\ buffer' = SkipPadding(Padding(o), F)
    <3>1. OptionsRead(p, d)
      BY <1>9, <1>10, <1>11, <1>14
    <3>2. QED
      BY <2>4, <3>1 DEF OptionsRead
  <2>6. Consistent(F) /\ (IsPadded(F) <=> IsPadded(o))
    BY <1>3, <1>4, FoundAgrees DEF F
  <2>7. buffer' = <<>>
    <3>1. CASE IsPadded(o)
      <4> DEFINE x == Field("padding", 0, 0)
      <4>1. Padding(o) = <<x>>
        BY <3>1 DEF Padding, When
      <4> HIDE DEF x
      <4>2. buffer' = Tail(<<x>>)
        BY <2>5, <2>6, <3>1, <4>1 DEF SkipPadding
      <4>3. QED
        BY <4>2
    <3>2. CASE ~IsPadded(o)
      BY <2>5, <2>6, <3>2 DEF SkipPadding, Padding, When
    <3>3. QED
      BY <3>1, <3>2
  <2> DEFINE x == [p EXCEPT !.opts = F]
  <2>8. /\ DOMAIN x = D5 /\ x.next = "decodeHeader" /\ x.schema = "" /\ x.err = "EXIP_OK"
        /\ x.header = h /\ x.opts = F
    BY <1>13
  <2>9. par' = Checked(x)
    BY <2>5
  <2> HIDE DEF x
  <2>10. SameBut(x, par', "", "setSchema", "EXIP_OK")
    <3>1. Ok(x) /\ {"next", "schema", "err"} \subseteq DOMAIN x
      BY <2>8 DEF Ok
    <3>2. Consistent(x.opts)
      BY <2>6, <2>8
    <3>3. QED
      BY <2>8, <2>9, <3>1, <3>2, CheckedIs
  <2>11. /\ DOMAIN par' = D5 /\ par'.next = "setSchema" /\ par'.schema = ""
         /\ par'.err = "EXIP_OK" /\ par'.header = h /\ par'.opts = F
    BY <2>8, <2>10 DEF SameBut
  <2>12. HasRead'
    BY <1>1, <1>2, <1>14, <2>7, <2>11 DEF HasRead, HeldBy, F
  <2>13. Parsing'
    BY <2>11, <2>12 DEF Parsing, Ok
  <2>14. QED
    BY <1>1, <2>11, <2>13 DEF IInv, Serializing, Accepted, Ok, Shapes
<1>15. CASE ~h.has_options /\ ~input.outOfBand
  <2>1. par' = Failed(q, "EXIP_HEADER_OPTIONS_MISMATCH")
    BY <1>9, <1>11, <1>15
  <2>2. /\ DOMAIN q = D5 /\ q.next = "decodeHeader" /\ q.schema = "" /\ q.err = "EXIP_OK"
    BY <1>1, <1>2 DEF q
  <2>3. SameBut(q, par', "", "decodeHeader", "EXIP_HEADER_OPTIONS_MISMATCH")
    <3>1. Ok(q) /\ {"next", "schema", "err"} \subseteq DOMAIN q
      BY <2>2 DEF Ok
    <3>2. QED
      BY <2>1, <2>2, <3>1, Updates
  <2>4. /\ DOMAIN par' = D5 /\ par'.next = "decodeHeader" /\ par'.schema = ""
        /\ par'.err # "EXIP_OK"
    BY <2>2, <2>3 DEF SameBut
  <2>5. Parsing'
    BY <1>1, <1>2, <1>15, <2>4 DEF Parsing, Ok
  <2>6. QED
    BY <1>1, <2>4, <2>5 DEF IInv, Serializing, Accepted, Ok, Shapes
<1>16. CASE ~h.has_options /\ input.outOfBand
  <2>1. par' = Checked(p) /\ buffer' = <<>>
    BY <1>5, <1>9, <1>10, <1>11, <1>16
  <2>2. p.opts = input.outOfBandOpts
    BY <1>13, <1>16 DEF StartOf
  <2>3. CASE Consistent(p.opts)
    <3>1. SameBut(p, par', "", "setSchema", "EXIP_OK")
      BY <1>13, <2>1, <2>3, CheckedIs
    <3>2. /\ DOMAIN par' = D5 /\ par'.next = "setSchema" /\ par'.schema = ""
          /\ par'.err = "EXIP_OK" /\ par'.header = h /\ par'.opts = input.outOfBandOpts
      BY <1>13, <2>2, <3>1 DEF SameBut
    <3>3. HasRead'
      BY <1>1, <1>2, <1>16, <2>1, <3>2 DEF HasRead, HeldBy
    <3>4. Parsing'
      BY <3>2, <3>3 DEF Parsing, Ok
    <3>5. QED
      BY <1>1, <3>2, <3>4 DEF IInv, Serializing, Accepted, Ok, Shapes
  <2>4. CASE ~Consistent(p.opts)
    <3>1. SameBut(p, par', "", "decodeHeader", "EXIP_HEADER_OPTIONS_MISMATCH")
      BY <1>13, <2>1, <2>4, CheckedIs
    <3>2. /\ DOMAIN par' = D5 /\ par'.next = "decodeHeader" /\ par'.schema = ""
          /\ par'.err # "EXIP_OK"
      BY <1>13, <3>1 DEF SameBut
    <3>3. Parsing'
      BY <1>1, <1>2, <1>16, <3>2 DEF Parsing, Ok
    <3>4. QED
      BY <1>1, <3>2, <3>3 DEF IInv, Serializing, Accepted, Ok, Shapes
  <2>5. QED
    BY <2>3, <2>4
<1>17. QED
  BY <1>3, <1>14, <1>15, <1>16

-----------------------------------------------------------------------------
(* The theorems.                                                            *)

(* Every call of the application, and a stuttering step, keep the           *)
(* invariant.                                                               *)
LEMMA EveryStep ==
  ASSUME IInv, [Next]_vars
  PROVE  IInv'
<1>1. CASE initStream
  BY <1>1, InitStreamStep
<1>2. CASE encodeHeader
  BY <1>2, EncodeHeaderStep
<1>3. CASE initParser
  BY <1>3, InitParserStep
<1>4. CASE decodeHeader
  BY <1>4, DecodeHeaderStep
<1>5. CASE setSchema
  BY <1>5, SetSchemaStep
<1>6. CASE UNCHANGED vars
  BY <1>6 DEF vars, IInv, Shapes, Serializing, Accepted, Parsing, HasRead, Ok
<1>7. QED
  BY <1>1, <1>2, <1>3, <1>4, <1>5, <1>6 DEF Next

(* At every point between the calls of the application the two sides are    *)
(* related as their next calls say.                                         *)
THEOREM HeaderInvariant == Spec => []IInv
<1>1. Init => IInv
  BY Initially
<1>2. IInv /\ [Next]_vars => IInv'
  BY EveryStep
<1>3. QED
  BY <1>1, <1>2, PTL DEF Spec

(* The mode that is sent is the mode that was asked for: initStream refuses *)
(* a schema identifier without a value, whether there is a schema or not.   *)
LEMMA ModeIsSent ==
  ASSUME IInv, Accepted, Writable(input.opts)
  PROVE  SentMode(input.opts) = input.opts.schemaIDMode /\ Expressible(input.opts)
<1> DEFINE o == input.opts
           m == o.schemaIDMode
<1>1. /\ o \in Options /\ Identifiable(o) /\ m \in 0..3 /\ m # 2 /\ Len(o.schemaID) # 2
      /\ input.schema \in BOOLEAN /\ ~o.drMap
  <2>1. input \in Inputs
    BY DEF IInv
  <2>2. o \in Options /\ Identifiable(o)
    BY <2>1, InputTypes
  <2>3. input.schema \in BOOLEAN
    BY <2>1, HeaderAssumption
  <2>4. m \in 0..3
    BY <2>2 DEF Options, SCHEMA_ID_ABSENT, SCHEMA_ID_EMPTY
  <2>5. QED
    BY <2>2, <2>3, <2>4 DEF Writable, SCHEMA_ID_NIL
<1>2. Expressible(o)
  BY <1>1 DEF Expressible, NotNil, SCHEMA_ID_NIL
<1>3. m = 1 => o.schemaID # ""
  <2>1. SUFFICES ASSUME m = 1 PROVE o.schemaID # ""
    OBVIOUS
  <2>2. CASE input.schema
    BY <2>1, <2>2 DEF Accepted, SCHEMA_ID_SET
  <2>3. CASE ~input.schema
    <3>1. SchemaFor(o, input.schema) = "EXIP_INVALID_EXIP_CONFIGURATION"
      BY <2>1, <2>3 DEF SchemaFor, SCHEMA_ID_NIL, SCHEMA_ID_EMPTY, SCHEMA_ID_SET,
                        SCHEMA_ID_ABSENT
    <3>2. SchemaFor(o, input.schema) \in Schemas
      BY DEF Accepted
    <3>3. QED
      BY <3>1, <3>2 DEF Schemas
  <2>4. QED
    BY <1>1, <2>2, <2>3
<1>4. m \in {0, 3} => o.schemaID = ""
  BY <1>1 DEF Identifiable, SCHEMA_ID_ABSENT, SCHEMA_ID_EMPTY
<1>5. m = 0 \/ m = 1 \/ m = 3
  BY <1>1
<1>6. SentMode(o) = m
  BY <1>3, <1>4, <1>5 DEF SentMode, SCHEMA_ID_ABSENT, SCHEMA_ID_SET, SCHEMA_ID_EMPTY
<1>7. QED
  BY <1>2, <1>6

(* The errors of initStream and setSchema are no schemas.                   *)
LEMMA SchemaErrors ==
  ASSUME NEW o, o.schemaIDMode \in SCHEMA_ID_ABSENT..SCHEMA_ID_EMPTY, NEW has \in BOOLEAN,
         SchemaFor(o, has) \notin Schemas
  PROVE  SchemaFor(o, has) \in {"EXIP_INVALID_EXIP_CONFIGURATION", "EXIP_NOT_IMPLEMENTED_YET"}
<1>1. o.schemaIDMode = 0 \/ o.schemaIDMode = 1 \/ o.schemaIDMode = 2 \/ o.schemaIDMode = 3
  BY DEF SCHEMA_ID_ABSENT, SCHEMA_ID_EMPTY
<1> DEFINE v == SchemaFor(o, has)
<1>2. CASE o.schemaIDMode = 0
  <2>1. has => v \in {"EXIP_NOT_IMPLEMENTED_YET", "schema"}
    BY <1>2 DEF SchemaFor, SCHEMA_ID_ABSENT, SCHEMA_ID_SET, SCHEMA_ID_NIL, SCHEMA_ID_EMPTY
  <2>2. ~has => v = "schema-less"
    BY <1>2 DEF SchemaFor, SCHEMA_ID_ABSENT, SCHEMA_ID_SET, SCHEMA_ID_NIL, SCHEMA_ID_EMPTY
  <2> HIDE DEF v
  <2>3. QED
    BY <2>1, <2>2 DEF Schemas, v
<1>3. CASE o.schemaIDMode = 1
  <2>1. has => v \in {"EXIP_NOT_IMPLEMENTED_YET", "schema"}
    BY <1>3 DEF SchemaFor, SCHEMA_ID_ABSENT, SCHEMA_ID_SET, SCHEMA_ID_NIL, SCHEMA_ID_EMPTY
  <2>2. ~has => v = "EXIP_INVALID_EXIP_CONFIGURATION"
    BY <1>3 DEF SchemaFor, SCHEMA_ID_ABSENT, SCHEMA_ID_SET, SCHEMA_ID_NIL, SCHEMA_ID_EMPTY
  <2> HIDE DEF v
  <2>3. QED
    BY <2>1, <2>2 DEF Schemas, v
<1>4. CASE o.schemaIDMode = 2
  <2>1. v = "schema-less"
    BY <1>4 DEF SchemaFor, SCHEMA_ID_ABSENT, SCHEMA_ID_SET, SCHEMA_ID_NIL, SCHEMA_ID_EMPTY
  <2>2. QED
    BY <2>1 DEF Schemas
<1>5. CASE o.schemaIDMode = 3
  <2>1. /\ o.schemaIDMode = SCHEMA_ID_EMPTY /\ o.schemaIDMode # SCHEMA_ID_NIL
        /\ o.schemaIDMode # SCHEMA_ID_ABSENT /\ o.schemaIDMode # SCHEMA_ID_SET
    BY <1>5 DEF SCHEMA_ID_ABSENT, SCHEMA_ID_SET, SCHEMA_ID_NIL, SCHEMA_ID_EMPTY
  <2>2. v = "built-in types"
    BY <2>1, Zenon DEF SchemaFor
  <2>3. QED
    BY <2>2 DEF Schemas
<1>6. QED
  BY <1>1, <1>2, <1>3, <1>4, <1>5

(* What is known when the parser has read the header.                       *)
LEMMA WhenRead ==
  ASSUME IInv, par.next \in {"setSchema", "body"}
  PROVE  /\ HasRead /\ Accepted /\ input \in Inputs
         /\ input.header.has_options => Expressible(input.opts)
BY DEF IInv, Parsing, Serializing, HasRead

(* TypeOK: the calls come in their order, a schema is one that initStream   *)
(* and setSchema know, and what decodeHeader has read from a header are     *)
(* options: values that an unsigned int holds, or no limit.                 *)
THEOREM TypeCorrect == Spec => []TypeOK
<1>1. IInv => TypeOK
  <2>1. SUFFICES ASSUME IInv PROVE TypeOK
    OBVIOUS
  <2>2. ser.next \in {"initStream", "encodeHeader", "body"} /\ ser.schema \in Schemas \cup {""}
    BY <2>1 DEF IInv, Serializing, Accepted
  <2>3. /\ par.next \in {"initParser", "decodeHeader", "setSchema", "body"}
        /\ par.schema \in Schemas \cup {""}
    BY <2>1 DEF IInv, Parsing
  <2>4. ASSUME HasReadOptions PROVE OptionsOK(par.opts)
    <3>1. HasRead /\ input \in Inputs
      BY <2>1, <2>4, WhenRead DEF HasReadOptions
    <3>2. par.opts = Found(input.opts, 14)
      BY <2>4, <3>1 DEF HasRead, HeldBy, HasReadOptions
    <3>3. QED
      BY <3>1, <3>2, InputTypes, FoundAgrees
  <2>5. QED
    BY <2>2, <2>3, <2>4 DEF TypeOK
<1>2. QED
  BY <1>1, HeaderInvariant, PTL

(* EveryHeaderIsWritten: whatever the options are, the codes and widths     *)
(* that serializeOptionsStream takes from its formulas stay inside the      *)
(* rules of ops_schema.                                                     *)
THEOREM HeadersAreWritten == Spec => []EveryHeaderIsWritten
<1>1. IInv => EveryHeaderIsWritten
  <2>1. SUFFICES ASSUME IInv, Writable(input.opts), ser.next # "initStream"
                 PROVE  ser.err = "EXIP_OK"
    BY DEF EveryHeaderIsWritten
  <2>2. Accepted /\ (Ok(ser) \/ ~Expressible(input.opts))
    BY <2>1 DEF IInv, Serializing
  <2>3. QED
    BY <2>1, <2>2, ModeIsSent DEF Ok
<1>2. QED
  BY <1>1, HeaderInvariant, PTL

(* HeaderIsReadThrough: decodeHeader, which reads by the grammar, never     *)
(* loses step with what was written, and stops where the body begins.       *)
THEOREM HeadersAreRead == Spec => []HeaderIsReadThrough
<1>1. IInv => HeaderIsReadThrough
  <2>1. SUFFICES ASSUME IInv PROVE HeaderIsReadThrough
    OBVIOUS
  <2>2. par.next \in {"setSchema", "body"} => buffer = <<>>
    BY <2>1, WhenRead DEF HasRead
  <2>3. \/ par.err \in {"EXIP_OK", "EXIP_INVALID_EXIP_CONFIGURATION", "EXIP_NOT_IMPLEMENTED_YET"}
        \/ ~input.header.has_options /\ par.next = "decodeHeader"
    <3>1. CASE Ok(par)
      BY <3>1 DEF Ok
    <3>2. CASE ~Ok(par) /\ par.next = "decodeHeader"
      BY <2>1, <3>2 DEF IInv, Parsing
    <3>3. CASE ~Ok(par) /\ par.next # "decodeHeader"
      <4>1. /\ HasRead /\ par.next = "setSchema" /\ par.err = SchemaFor(par.opts, input.schema)
            /\ par.err \notin Schemas /\ input \in Inputs
        BY <2>1, <3>3 DEF IInv, Parsing
      <4>2. input.schema \in BOOLEAN /\ input.outOfBandOpts \in Options
        BY <4>1, HeaderAssumption
      <4>3. par.opts.schemaIDMode \in SCHEMA_ID_ABSENT..SCHEMA_ID_EMPTY
        <5>1. CASE input.header.has_options
          <6>1. par.opts = Found(input.opts, 14)
            BY <4>1, <5>1 DEF HasRead, HeldBy
          <6>2. OptionsOK(par.opts)
            BY <4>1, <6>1, InputTypes, FoundAgrees
          <6>3. QED
            BY <6>2 DEF OptionsOK
        <5>2. CASE ~input.header.has_options
          BY <4>1, <4>2, <5>2 DEF HasRead, HeldBy, Options
        <5>3. QED
          BY <5>1, <5>2
      <4>4. QED
        BY <4>1, <4>2, <4>3, SchemaErrors
    <3>4. QED
      BY <3>1, <3>2, <3>3
  <2>4. QED
    BY <2>2, <2>3 DEF HeaderIsReadThrough
<1>2. QED
  BY <1>1, HeaderInvariant, PTL

(* OptionsAgree: what decodeHeader has found are the options that           *)
(* encodeHeader was given, all of them, in the header as it was written.    *)
THEOREM OptionsArrive == Spec => []OptionsAgree
<1>1. IInv => OptionsAgree
  <2>1. SUFFICES ASSUME IInv, par.next \in {"setSchema", "body"}, Writable(input.opts),
                        Fits(input.opts), Agreed
                 PROVE  par.opts = input.opts /\ par.header = input.header
    BY DEF OptionsAgree
  <2>2. HasRead /\ Accepted /\ input \in Inputs
    BY <2>1, WhenRead
  <2>3. SentMode(input.opts) = input.opts.schemaIDMode
    BY <2>1, <2>2, ModeIsSent
  <2>4. Found(input.opts, 14) = input.opts
    <3>1. ~input.opts.drMap
      BY <2>1 DEF Writable
    <3>2. QED
      BY <2>1, <2>2, <2>3, <3>1, InputTypes, FoundAll
  <2>5. QED
    BY <2>1, <2>2, <2>4 DEF HasRead, HeldBy, Agreed
<1>2. QED
  BY <1>1, HeaderInvariant, PTL

(* SameSchema: setSchema comes, from the options read, to the schema that   *)
(* initStream came to before the header was written.                        *)
THEOREM SchemasAgree == Spec => []SameSchema
<1>1. IInv => SameSchema
  <2>1. SUFFICES ASSUME IInv, par.next \in {"setSchema", "body"}, Writable(input.opts), Agreed
                 PROVE  IF par.next = "body" THEN par.schema = ser.schema ELSE Ok(par)
    BY DEF SameSchema
  <2>2. HasRead /\ Accepted /\ input \in Inputs
    BY <2>1, WhenRead
  <2>3. SentMode(input.opts) = input.opts.schemaIDMode
    BY <2>1, <2>2, ModeIsSent
  <2>4. SchemaFor(par.opts, input.schema) = SchemaFor(input.opts, input.schema)
    <3>1. CASE input.header.has_options
      <4>1. par.opts = Found(input.opts, 14)
        BY <2>2, <3>1 DEF HasRead, HeldBy
      <4>2. \A has : SchemaFor(Found(input.opts, 14), has) = SchemaFor(input.opts, has)
        BY <2>2, <2>3, InputTypes, FoundAgrees
      <4>3. QED
        BY <4>1, <4>2
    <3>2. CASE ~input.header.has_options
      BY <2>1, <2>2, <3>2 DEF HasRead, HeldBy, Agreed
    <3>3. QED
      BY <3>1, <3>2
  <2>5. SchemaFor(par.opts, input.schema) = ser.schema /\ ser.schema \in Schemas
    BY <2>2, <2>4 DEF Accepted
  <2>6. CASE par.next = "body"
    BY <2>1, <2>5, <2>6 DEF IInv, Parsing
  <2>7. CASE par.next = "setSchema"
    BY <2>1, <2>5, <2>7 DEF IInv, Parsing
  <2>8. QED
    BY <2>1, <2>6, <2>7
<1>2. QED
  BY <1>1, HeaderInvariant, PTL
=============================================================================
