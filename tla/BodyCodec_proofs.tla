------------------------- MODULE BodyCodec_proofs --------------------------
(***************************************************************************)
(* The parser of a schema-less body stays in step with the serializer,     *)
(* however far it is behind.                                               *)
(*                                                                         *)
(* First come the lemmas about one side: what the functions of NameTables  *)
(* and BuiltInGrammars do to the tables, and that what an encoding         *)
(* function writes is what its decoding counterpart reads when the tables  *)
(* are equal.  A stream is written out as Strm(...), so that a function of *)
(* the code is an equation between two such terms, and what happens to     *)
(* each table has a name of its own.  Then both sides are followed         *)
(* through a stream:                                                       *)
(*                                                                         *)
(* 1. Each function of the serializer writes, from tables u, g and stack   *)
(*    t, fields f and comes to tables v, h and stack r; from u, g and t    *)
(*    the parser makes of f the same event, v, h and r (Leads).            *)
(* 2. The events in the stream form a Chain: S holds tables and stack      *)
(*    before the first event, between any two and behind the last, F the   *)
(*    fields of each event, B what is left of the stream from each on.     *)
(*    Each event leads from its member of S to the next.                   *)
(* 3. The parser is where the chain begins and the serializer is where it  *)
(*    ends, or one attribute name further (Linked).                        *)
(* The serializer makes the chain longer at its end, parseNext takes off   *)
(* its first link: StreamInv, which is inductive, and from which the       *)
(* theorems at the end of this module follow.                              *)
(***************************************************************************)
EXTENDS BodyCodec, SequenceTheorems, FiniteSetTheorems, NaturalsInduction,
        WellFoundedInduction, TLAPS

Strm(o, e, b, u, g, t, c, x) ==
  [opts |-> o, err |-> e, buffer |-> b, uriTable |-> u, grammarTable |-> g,
   gStack |-> t, currAttr |-> c, expectATData |-> x]

QNameId == [uriId : Nat, lnId : Nat]

(* Names and values: nothing is said about their characters.  The names of  *)
(* the initial table are strings; they are listed because the provers know  *)
(* the type of no literal.                                                  *)
InitialNames == {"", "xml", "xsi", "base", "id", "lang", "space", "nil", "type"}

Text == STRING \cup InitialNames

FieldVal == Int \cup Text \cup [qname : QNameId, str : Text]

FieldKind == {"bits", "tag", "chars", "value"}

FieldT == [kind : FieldKind, width : Int, val : FieldVal]

LnEntryT == [lnStr : Text, elemGrammar : Nat]
UriEntryT == [uriStr : Text, lnTable : Seq(LnEntryT), pfxTable : Seq(Text)]
UriTableT == Seq(UriEntryT)

ProdT == [event : DOMAIN EventClass, nonTerm : Nat, qnameId : QNameId]
RuleT == [production : Seq(ProdT), hasXsiType : BOOLEAN]
GrammarTableT == Seq([{1, 2} -> RuleT])

NodeT == [grammar : Nat, currNonTermID : Nat, currQNameID : QNameId]
StackT == Seq(NodeT)

(* What addUriEntry, addLnEntry, addPfxEntry, the first element of a name,  *)
(* insertZeroProduction and a move of the grammar on top do to the tables.  *)
UriAdded(u, uri) == Append(u, UriEntry(uri, <<>>, <<>>))

LnAdded(u, i, ln) == [u EXCEPT ![i + 1].lnTable = Append(@, LnEntry(ln))]

PfxAdded(u, i, pfx) == [u EXCEPT ![i + 1].pfxTable = Append(@, pfx)]

GrammarSet(u, id, gr) ==
  [u EXCEPT ![id.uriId + 1].lnTable[id.lnId + 1].elemGrammar = gr]

ProdAdded(g, i, n, p) == [g EXCEPT ![i][n + 1].production = Append(@, p)]

XsiTypeSet(g, i) == [g EXCEPT ![i][1].hasXsiType = TRUE]

Moved(t, n) == [t EXCEPT ![1].currNonTermID = n]

Pushed(t, id, gr) == <<Node(gr, GR_START_TAG_CONTENT, id)>> \o t

-----------------------------------------------------------------------------
(* The functions that change a stream, as equations.                        *)

(* The fields of a stream.                                                  *)
LEMMA Accesses ==
  ASSUME NEW o, NEW e, NEW b, NEW u, NEW g, NEW t, NEW c, NEW x
  PROVE  /\ Strm(o,e,b,u,g,t,c,x).opts = o
         /\ Strm(o,e,b,u,g,t,c,x).err = e
         /\ Strm(o,e,b,u,g,t,c,x).buffer = b
         /\ Strm(o,e,b,u,g,t,c,x).uriTable = u
         /\ Strm(o,e,b,u,g,t,c,x).grammarTable = g
         /\ Strm(o,e,b,u,g,t,c,x).gStack = t
         /\ Strm(o,e,b,u,g,t,c,x).currAttr = c
         /\ Strm(o,e,b,u,g,t,c,x).expectATData = x
BY DEF Strm

(* Fields are appended ...                                                  *)
LEMMA Writing ==
  ASSUME NEW o, NEW e, NEW b, NEW u, NEW g, NEW t, NEW c, NEW x, NEW f
  PROVE  Write(Strm(o,e,b,u,g,t,c,x), f) = Strm(o,e,b \o f,u,g,t,c,x)
<1> DEFINE s == Strm(o,e,b,u,g,t,c,x)
<1>1. s.buffer = b
  BY Accesses
<1>2. Write(s, f) = [s EXCEPT !.buffer = s.buffer \o f]
  BY Zenon DEF Write
<1>3. Write(s, f) = [s EXCEPT !.buffer = b \o f]
  BY <1>1, <1>2, Zenon
<1>4. PICK y : y = b \o f
  OBVIOUS
<1>5. [s EXCEPT !.buffer = y] = Strm(o,e,y,u,g,t,c,x)
  BY DEF Strm
<1>6. QED
  BY <1>3, <1>4, <1>5, Zenon

(* ... taken off ...                                                        *)
LEMMA Skipping ==
  ASSUME NEW o, NEW e, NEW b, NEW u, NEW g, NEW t, NEW c, NEW x
  PROVE  Skip1(Strm(o,e,b,u,g,t,c,x)) = Strm(o,e,Tail(b),u,g,t,c,x)
<1> DEFINE s == Strm(o,e,b,u,g,t,c,x)
<1>1. s.buffer = b
  BY Accesses
<1>2. Skip1(s) = [s EXCEPT !.buffer = Tail(s.buffer)]
  BY Zenon DEF Skip1
<1>3. Skip1(s) = [s EXCEPT !.buffer = Tail(b)]
  BY <1>1, <1>2, Zenon
<1>4. PICK y : y = Tail(b)
  OBVIOUS
<1>5. [s EXCEPT !.buffer = y] = Strm(o,e,y,u,g,t,c,x)
  BY DEF Strm
<1>6. QED
  BY <1>3, <1>4, <1>5, Zenon

(* ... and handed from one side to the other.                               *)
LEMMA Handing ==
  ASSUME NEW o, NEW e, NEW b, NEW u, NEW g, NEW t, NEW c, NEW x, NEW f
  PROVE  [Strm(o,e,b,u,g,t,c,x) EXCEPT !.buffer = f] = Strm(o,e,f,u,g,t,c,x)
BY DEF Strm

(* The first error is kept.                                                 *)
LEMMA Failing ==
  ASSUME NEW o, NEW e, NEW b, NEW u, NEW g, NEW t, NEW c, NEW x, NEW err
  PROVE  Failed(Strm(o,e,b,u,g,t,c,x), err) =
           Strm(o, IF e = "EXIP_OK" THEN err ELSE e, b,u,g,t,c,x)
<1>1. CASE e = "EXIP_OK"
  BY <1>1 DEF Failed, Strm
<1>2. CASE e # "EXIP_OK"
  BY <1>2 DEF Failed, Strm
<1>3. QED
  BY <1>1, <1>2

(* Names and prefixes are added to the URI table.                           *)
LEMMA AddingUris ==
  ASSUME NEW o, NEW e, NEW b, NEW u, NEW g, NEW t, NEW c, NEW x, NEW uri
  PROVE  addUriEntry(Strm(o,e,b,u,g,t,c,x), uri) = Strm(o,e,b,UriAdded(u, uri),g,t,c,x)
BY DEF addUriEntry, UriAdded, Strm

(* The same for local names ...                                             *)
LEMMA AddingLns ==
  ASSUME NEW o, NEW e, NEW b, NEW u, NEW g, NEW t, NEW c, NEW x, NEW i, NEW ln
  PROVE  addLnEntry(Strm(o,e,b,u,g,t,c,x), i, ln) = Strm(o,e,b,LnAdded(u, i, ln),g,t,c,x)
BY DEF addLnEntry, LnAdded, Strm

(* ... and prefixes.                                                        *)
LEMMA AddingPfxs ==
  ASSUME NEW o, NEW e, NEW b, NEW u, NEW g, NEW t, NEW c, NEW x, NEW i, NEW pfx
  PROVE  addPfxEntry(Strm(o,e,b,u,g,t,c,x), i, pfx) = Strm(o,e,b,PfxAdded(u, i, pfx),g,t,c,x)
BY DEF addPfxEntry, PfxAdded, Strm

(* The grammar on top of the stack moves ...                                *)
LEMMA Moving ==
  ASSUME NEW o, NEW e, NEW b, NEW u, NEW g, NEW t, NEW c, NEW x, NEW n
  PROVE  SetNonTerm(Strm(o,e,b,u,g,t,c,x), n) = Strm(o,e,b,u,g,Moved(t, n),c,x)
BY DEF SetNonTerm, Moved, Strm

(* ... is covered by another ...                                            *)
LEMMA Pushing ==
  ASSUME NEW o, NEW e, NEW b, NEW u, NEW g, NEW t, NEW c, NEW x, NEW id, NEW gr
  PROVE  pushGrammar(Strm(o,e,b,u,g,t,c,x), id, gr) = Strm(o,e,b,u,g,Pushed(t, id, gr),c,x)
<1> DEFINE s == Strm(o,e,b,u,g,t,c,x)
<1>1. s.gStack = t
  BY Accesses
<1>2. pushGrammar(s, id, gr) = [s EXCEPT !.gStack = <<Node(gr, GR_START_TAG_CONTENT, id)>> \o s.gStack]
  BY Zenon DEF pushGrammar
<1>3. pushGrammar(s, id, gr) = [s EXCEPT !.gStack = <<Node(gr, GR_START_TAG_CONTENT, id)>> \o t]
  BY <1>1, <1>2, Zenon
<1>4. PICK y : y = <<Node(gr, GR_START_TAG_CONTENT, id)>> \o t
  OBVIOUS
<1>5. [s EXCEPT !.gStack = y] = Strm(o,e,b,u,g,y,c,x)
  BY DEF Strm
<1>6. QED
  BY <1>3, <1>4, <1>5, Zenon DEF Pushed

(* ... or is left.                                                          *)
LEMMA Popping ==
  ASSUME NEW o, NEW e, NEW b, NEW u, NEW g, NEW t, NEW c, NEW x
  PROVE  popGrammar(Strm(o,e,b,u,g,t,c,x)) = Strm(o,e,b,u,g,Tail(t),c,x)
<1> DEFINE s == Strm(o,e,b,u,g,t,c,x)
<1>1. s.gStack = t
  BY Accesses
<1>2. popGrammar(s) = [s EXCEPT !.gStack = Tail(s.gStack)]
  BY Zenon DEF popGrammar
<1>3. popGrammar(s) = [s EXCEPT !.gStack = Tail(t)]
  BY <1>1, <1>2, Zenon
<1>4. PICK y : y = Tail(t)
  OBVIOUS
<1>5. [s EXCEPT !.gStack = y] = Strm(o,e,b,u,g,y,c,x)
  BY DEF Strm
<1>6. QED
  BY <1>3, <1>4, <1>5, Zenon

(* A learned production.                                                    *)
LEMMA Inserting ==
  ASSUME NEW o, NEW e, NEW b, NEW u, NEW g, NEW t, NEW c, NEW x, NEW i, NEW n, NEW p
  PROVE  insertZeroProduction(Strm(o,e,b,u,g,t,c,x), i, n, p) = Strm(o,e,b,u,ProdAdded(g, i, n, p),t,c,x)
BY DEF insertZeroProduction, ProdAdded, Strm

(* What LearnAttribute does to the learned grammars.                        *)
AttrAdded(g, i, id) ==
  LET added == ProdAdded(g, i, GR_START_TAG_CONTENT,
                 Prod("AT_QNAME", GR_START_TAG_CONTENT, id))
  IN IF ~IsXsi(id, XML_SCHEMA_INSTANCE_TYPE_ID) THEN added
     ELSE IF At(g[i], GR_START_TAG_CONTENT).hasXsiType THEN g
     ELSE XsiTypeSet(added, i)

(* LearnAttribute inserts the production once, xsi:type by the flag.        *)
LEMMA LearningAttributes ==
  ASSUME NEW o, NEW e, NEW b, NEW u, NEW g, NEW t, NEW c, NEW x, NEW i, NEW id
  PROVE  LearnAttribute(Strm(o,e,b,u,g,t,c,x), i, id) =
           Strm(o,e,b,u,AttrAdded(g, i, id),t,c,x)
<1> DEFINE s == Strm(o,e,b,u,g,t,c,x)
           p == Prod("AT_QNAME", GR_START_TAG_CONTENT, id)
           added == ProdAdded(g, i, GR_START_TAG_CONTENT, p)
<1>1. insertZeroProduction(s, i, GR_START_TAG_CONTENT, p) = Strm(o,e,b,u,added,t,c,x)
  BY Inserting
<1>2. [Strm(o,e,b,u,added,t,c,x) EXCEPT !.grammarTable[i][1].hasXsiType = TRUE] =
        Strm(o,e,b,u,XsiTypeSet(added, i),t,c,x)
  <2>1. PICK a : a = added
    OBVIOUS
  <2>2. PICK v : v = TRUE
    OBVIOUS
  <2>3. [Strm(o,e,b,u,a,t,c,x) EXCEPT !.grammarTable[i][1].hasXsiType = v] =
          Strm(o,e,b,u,[a EXCEPT ![i][1].hasXsiType = v],t,c,x)
    BY DEF Strm
  <2>4. QED
    BY <2>1, <2>2, <2>3, Zenon DEF XsiTypeSet
<1>3. s.grammarTable = g
  BY Accesses
<1> HIDE DEF s, added
<1>4. LearnAttribute(s, i, id) =
        IF ~IsXsi(id, XML_SCHEMA_INSTANCE_TYPE_ID) THEN Strm(o,e,b,u,added,t,c,x)
        ELSE IF At(g[i], GR_START_TAG_CONTENT).hasXsiType THEN s
        ELSE [Strm(o,e,b,u,added,t,c,x) EXCEPT !.grammarTable[i][1].hasXsiType = TRUE]
  BY <1>1, <1>3, Zenon DEF LearnAttribute, p
<1>5. AttrAdded(g, i, id) =
        IF ~IsXsi(id, XML_SCHEMA_INSTANCE_TYPE_ID) THEN added
        ELSE IF At(g[i], GR_START_TAG_CONTENT).hasXsiType THEN g
        ELSE XsiTypeSet(added, i)
  BY Zenon DEF AttrAdded, added, p
<1>6. s = Strm(o,e,b,u,g,t,c,x)
  BY DEF s
<1>7. QED
  BY <1>2, <1>4, <1>5, <1>6, Zenon DEF s

(* The grammar of a name, and what the first and the later elements of the  *)
(* name do with it.                                                         *)
GrammarOf(u, id) == At(At(u, id.uriId).lnTable, id.lnId).elemGrammar

(* PushElement and PushLearnedElement: the grammar of the name on top.      *)
LEMMA PushingElements ==
  ASSUME NEW o, NEW e, NEW b, NEW u, NEW g, NEW t, NEW c, NEW x, NEW id
  PROVE  /\ PushElement(Strm(o,e,b,u,g,t,c,x), id) =
              IF GrammarOf(u, id) # NoGrammar
              THEN Strm(o,e,b,u,g,Pushed(t, id, GrammarOf(u, id)),c,x)
              ELSE Strm(o,e,b,GrammarSet(u, id, Len(g) + 1),
                        Append(g, createBuiltInElementGrammar),
                        Pushed(t, id, Len(g) + 1),c,x)
         /\ GrammarOf(u, id) # NoGrammar =>
              PushLearnedElement(Strm(o,e,b,u,g,t,c,x), id) =
                Strm(o,e,b,u,g,Pushed(t, id, GrammarOf(u, id)),c,x)
<1> DEFINE s == Strm(o,e,b,u,g,t,c,x)
           created == [s EXCEPT
             !.grammarTable = Append(@, createBuiltInElementGrammar),
             !.uriTable[id.uriId + 1].lnTable[id.lnId + 1].elemGrammar = Len(g) + 1]
<1>1. s.grammarTable = g /\ s.uriTable = u
  BY Accesses
<1>2. Ln(s, id).elemGrammar = GrammarOf(u, id)
  BY <1>1, Zenon DEF Ln, GrammarOf
<1>3. created = Strm(o,e,b,GrammarSet(u, id, Len(g) + 1),
                     Append(g, createBuiltInElementGrammar),t,c,x)
  <2> DEFINE r == [s EXCEPT !.grammarTable = Append(@, createBuiltInElementGrammar)]
  <2>1. PICK n : n = Len(g) + 1
    OBVIOUS
  <2>2. PICK a : a = Append(g, createBuiltInElementGrammar)
    OBVIOUS
  <2>3. [s EXCEPT !.grammarTable = a] = Strm(o,e,b,u,a,t,c,x)
    BY DEF Strm
  <2>4. r = Strm(o,e,b,u,a,t,c,x)
    BY <1>1, <2>2, <2>3, Zenon
  <2>5. [Strm(o,e,b,u,a,t,c,x) EXCEPT
          !.uriTable[id.uriId + 1].lnTable[id.lnId + 1].elemGrammar = n] =
          Strm(o,e,b,GrammarSet(u, id, n),a,t,c,x)
    BY DEF Strm, GrammarSet
  <2>6. created = [r EXCEPT
          !.uriTable[id.uriId + 1].lnTable[id.lnId + 1].elemGrammar = Len(g) + 1]
    <3> HIDE DEF s
    <3>1. QED
      BY SMT DEF r
  <2> HIDE DEF r, created
  <2>7. QED
    BY <2>1, <2>2, <2>4, <2>5, <2>6, Zenon
<1>4. PushElement(s, id) = IF GrammarOf(u, id) # NoGrammar
                           THEN pushGrammar(s, id, GrammarOf(u, id))
                           ELSE pushGrammar(created, id, Len(g) + 1)
  <2> DEFINE new(n) == [s EXCEPT
               !.grammarTable = Append(@, createBuiltInElementGrammar),
               !.uriTable[id.uriId + 1].lnTable[id.lnId + 1].elemGrammar = n]
  <2>1. created = new(Len(g) + 1)
    OBVIOUS
  <2> HIDE DEF s, created
  <2>2. PushElement(s, id) =
          IF Ln(s, id).elemGrammar # NoGrammar
          THEN pushGrammar(s, id, Ln(s, id).elemGrammar)
          ELSE pushGrammar(new(Len(s.grammarTable) + 1), id, Len(s.grammarTable) + 1)
    BY Zenon DEF PushElement
  <2> HIDE DEF new
  <2>3. QED
    BY <1>1, <1>2, <2>1, <2>2, Zenon
<1>5. /\ pushGrammar(s, id, GrammarOf(u, id)) =
           Strm(o,e,b,u,g,Pushed(t, id, GrammarOf(u, id)),c,x)
      /\ pushGrammar(created, id, Len(g) + 1) =
           Strm(o,e,b,GrammarSet(u, id, Len(g) + 1),
                Append(g, createBuiltInElementGrammar),Pushed(t, id, Len(g) + 1),c,x)
  <2>1. pushGrammar(s, id, GrammarOf(u, id)) =
           Strm(o,e,b,u,g,Pushed(t, id, GrammarOf(u, id)),c,x)
    BY Pushing
  <2>2. \A u1, g1 : pushGrammar(Strm(o,e,b,u1,g1,t,c,x), id, Len(g) + 1) =
                      Strm(o,e,b,u1,g1,Pushed(t, id, Len(g) + 1),c,x)
    BY Pushing
  <2> HIDE DEF created, s
  <2>3. QED
    BY <1>3, <2>1, <2>2, Zenon
<1>6. GrammarOf(u, id) # NoGrammar =>
        PushLearnedElement(s, id) = Strm(o,e,b,u,g,Pushed(t, id, GrammarOf(u, id)),c,x)
  <2> HIDE DEF s
  <2>1. QED
    BY <1>2, <1>5, Zenon DEF PushLearnedElement
<1> HIDE DEF created
<1>7. QED
  BY <1>4, <1>5, <1>6, Zenon

-----------------------------------------------------------------------------
(* Fields.                                                                  *)

(* The largest index.                                                       *)
LEMMA Sizes == URI_MAX \in Nat /\ LN_MAX \in Nat /\ URI_MAX <= 2147483647
BY SMT DEF URI_MAX, LN_MAX

(* Every set of natural numbers that is not empty has a least element.      *)
LEMMA LeastNatural ==
  ASSUME NEW T \in SUBSET Nat, T # {}
  PROVE  \E m \in T : \A k \in T : ~(k < m)
<1>1. IsWellFoundedOn(OpToRel(<, Nat), Nat)
  BY NatLessThanWellFounded
<1>2. PICK m \in T : \A k \in T : ~ (<<k, m>> \in OpToRel(<, Nat))
  BY <1>1, WFMin
<1>3. QED
  BY <1>2 DEF OpToRel

(* getBitsNumber gives no bits to a range of one value only.                *)
LEMMA SomeBits ==
  ASSUME NEW v \in 1..URI_MAX
  PROVE  getBitsNumber(v) \in Nat /\ getBitsNumber(v) # 0
<1> DEFINE R == {r \in 0..30 : v < 2^(r+1)}
<1>1. v < 2^(30+1)
  <2>1. 2^(30+1) = 2147483648
    BY SMT
  <2> HIDE DEF R
  <2>2. v < 2147483648
    BY Sizes
  <2>3. QED
    BY <2>1, <2>2, SMT
<1>2. 30 \in R
  BY <1>1
<1>3. PICK r \in R : \A k \in R : ~(k < r)
  <2>1. R \in SUBSET (0..30)
    BY Zenon
  <2> HIDE DEF R
  <2>2. R \in SUBSET Nat /\ R # {}
    BY <1>2, <2>1
  <2>3. QED
    BY <2>2, LeastNatural
<1>4. 2^r <= v
  <2>1. CASE r = 0
    <3>1. 2^0 = 1
      OBVIOUS
    <3>2. QED
      BY <2>1, <3>1
  <2>2. CASE r # 0
    <3>1. r - 1 \in 0..30 /\ r \in 1..30
      BY <1>3, <2>2
    <3>2. ~(v < 2^((r-1)+1))
      BY <1>3, <3>1
    <3>3. QED
      BY <3>1, <3>2
  <2>3. QED
    BY <2>1, <2>2
<1>5. log2INT(v) \in 0..30
  <2>1. r \in 0..30 /\ 2^r <= v /\ v < 2^(r+1)
    BY <1>3, <1>4
  <2>2. QED
    BY <2>1, Zenon DEF log2INT
<1>6. QED
  BY <1>5 DEF getBitsNumber

(* A choice of one is written in no bits.                                   *)
LEMMA NoBits == getBitsNumber(0) = 0
BY DEF getBitsNumber

(* The width of a range of values, and that a value of a range of no width  *)
(* is 0.                                                                    *)
LEMMA RangeBits ==
  ASSUME NEW n \in 0..URI_MAX, NEW v \in 0..n
  PROVE  getBitsNumber(n) \in Nat /\ (getBitsNumber(n) = 0 => v = 0)
<1>1. CASE n = 0
  BY <1>1, NoBits
<1>2. CASE n # 0
  BY <1>2, SomeBits
<1>3. QED
  BY <1>1, <1>2

(* What the readers return.                                                 *)
LEMMA Results ==
  ASSUME NEW s, NEW val
  PROVE  Result(s, val).s = s /\ Result(s, val).val = val
BY DEF Result

(* A field that is the next one is read and skipped.                        *)
LEMMA Fields ==
  /\ \A k, n, v : /\ Field(k, n, v).kind = k
                  /\ Field(k, n, v).width = n
                  /\ Field(k, n, v).val = v
  /\ \A n \in Nat, v \in Nat : Field("bits", n, v) \in FieldT
  /\ \A str \in Text : Field("chars", 0, str) \in FieldT
  /\ Field("tag", 0, 0) \in FieldT
<1>1. \A k, n, v : /\ Field(k, n, v).kind = k
                  /\ Field(k, n, v).width = n
                  /\ Field(k, n, v).val = v
  BY DEF Field
<1>2. \A k \in FieldKind, n \in Int, v \in FieldVal : Field(k, n, v) \in FieldT
  BY DEF Field, FieldT
<1>3. \A n \in Nat : n \in Int
  OBVIOUS
<1>4. 0 \in Nat
  OBVIOUS
<1>10. "bits" \in FieldKind
  BY Zenon DEF FieldKind
<1>11. "chars" \in FieldKind
  BY Zenon DEF FieldKind
<1>12. "tag" \in FieldKind
  BY Zenon DEF FieldKind
<1>5. /\ \A v \in Nat : v \in FieldVal
      /\ \A str \in Text : str \in FieldVal
  BY <1>3, Zenon DEF FieldVal
<1>6. \A n \in Nat, v \in Nat : Field("bits", n, v) \in FieldT
  BY <1>2, <1>3, <1>5, <1>10, Zenon
<1>7. \A str \in Text : Field("chars", 0, str) \in FieldT
  BY <1>2, <1>3, <1>4, <1>5, <1>11, Zenon
<1>8. Field("tag", 0, 0) \in FieldT
  BY <1>2, <1>3, <1>4, <1>5, <1>12, Zenon
<1>9. QED
  BY <1>1, <1>6, <1>7, <1>8

(* What is written are fields.                                              *)
LEMMA FieldTypes ==
  /\ \A n \in Nat, v \in Nat : NBits(n, v) \in Seq(FieldT)
  /\ \A str \in Text : Literal(str) \in Seq(FieldT)
  /\ HitTag \in Seq(FieldT)
<1>4. \A f \in FieldT : <<f>> \in Seq(FieldT)
  OBVIOUS
<1>5. <<>> \in Seq(FieldT)
  OBVIOUS
<1> QED
  BY Fields, <1>4, <1>5, Zenon DEF NBits, Literal, HitTag

(* The next field of a stream.                                              *)
LEMMA NextField ==
  ASSUME NEW o, NEW e, NEW u, NEW g, NEW t, NEW c, NEW x,
         NEW f \in FieldT, NEW rest \in Seq(FieldT)
  PROVE  /\ Next1(Strm(o,e,<<f>> \o rest,u,g,t,c,x)) = f
         /\ Skip1(Strm(o,e,<<f>> \o rest,u,g,t,c,x)) = Strm(o,e,rest,u,g,t,c,x)
<1>1. Head(<<f>> \o rest) = f /\ Tail(<<f>> \o rest) = rest /\ <<f>> \o rest # <<>>
  OBVIOUS
<1>2. \A b : /\ Strm(o,e,b,u,g,t,c,x).buffer = b
             /\ Skip1(Strm(o,e,b,u,g,t,c,x)) = Strm(o,e,Tail(b),u,g,t,c,x)
  BY Accesses, Skipping
<1>3. Skip1(Strm(o,e,<<f>> \o rest,u,g,t,c,x)) = Strm(o,e,Tail(<<f>> \o rest),u,g,t,c,x)
  BY <1>2, Zenon
<1>4. Next1(Strm(o,e,<<f>> \o rest,u,g,t,c,x)) = Head(<<f>> \o rest)
  BY <1>1, <1>2, Zenon DEF Next1
<1>5. QED
  BY <1>1, <1>3, <1>4, Zenon

(* What encodeNBitUnsignedInteger writes is read by the same width ...      *)
LEMMA ReadingBits ==
  ASSUME NEW o, NEW e, NEW u, NEW g, NEW t, NEW c, NEW x,
         NEW n \in Nat, NEW v \in Nat, n = 0 => v = 0, NEW rest \in Seq(FieldT)
  PROVE  DecodeNBits(Strm(o,e,NBits(n, v) \o rest,u,g,t,c,x), n) =
           Result(Strm(o,e,rest,u,g,t,c,x), v)
<1>1. CASE n = 0
  <2>1. NBits(n, v) \o rest = rest
    BY <1>1 DEF NBits
  <2>2. QED
    BY <1>1, <2>1, Zenon DEF DecodeNBits
<1>2. CASE n # 0
  <2> DEFINE f == Field("bits", n, v)
  <2>1. f.kind = "bits" /\ f.width = n /\ f.val = v
    BY DEF Field
  <2>5. f \in FieldT
    BY Fields, Zenon
  <2>2. NBits(n, v) = <<f>>
    BY <1>2, Zenon DEF NBits
  <2> HIDE DEF f
  <2>3. /\ Next1(Strm(o,e,<<f>> \o rest,u,g,t,c,x)) = f
        /\ Skip1(Strm(o,e,<<f>> \o rest,u,g,t,c,x)) = Strm(o,e,rest,u,g,t,c,x)
    BY <2>5, NextField
  <2>4. QED
    BY <1>2, <2>1, <2>2, <2>3, Zenon DEF DecodeNBits
<1>3. QED
  BY <1>1, <1>2

(* ... and the characters of a string are read as they were written; a hit  *)
(* is told apart from them.                                                 *)
LEMMA ReadingStrings ==
  ASSUME NEW o, NEW e, NEW u, NEW g, NEW t, NEW c, NEW x,
         NEW str \in Text, NEW rest \in Seq(FieldT)
  PROVE  /\ DecodeChars(Strm(o,e,Literal(str) \o rest,u,g,t,c,x)) =
              Result(Strm(o,e,rest,u,g,t,c,x), str)
         /\ Next1(Strm(o,e,Literal(str) \o rest,u,g,t,c,x)).kind # "tag"
<1> DEFINE f == Field("chars", 0, str)
<1>1. f.kind = "chars" /\ f.val = str
  BY DEF Field
<1>6. f \in FieldT
  BY Fields, Zenon
<1>2. Literal(str) = <<f>>
  BY Zenon DEF Literal
<1> HIDE DEF f
<1>3. /\ Next1(Strm(o,e,<<f>> \o rest,u,g,t,c,x)) = f
      /\ Skip1(Strm(o,e,<<f>> \o rest,u,g,t,c,x)) = Strm(o,e,rest,u,g,t,c,x)
  BY <1>6, NextField
<1>4. f.kind # "tag"
  BY <1>1
<1>5. QED
  BY <1>1, <1>2, <1>3, <1>4, Zenon DEF DecodeChars

(* A hit or a miss is recognised by its tag.                                *)
LEMMA ReadingTags ==
  ASSUME NEW o, NEW e, NEW u, NEW g, NEW t, NEW c, NEW x, NEW rest \in Seq(FieldT)
  PROVE  /\ Next1(Strm(o,e,HitTag \o rest,u,g,t,c,x)).kind = "tag"
         /\ Skip1(Strm(o,e,HitTag \o rest,u,g,t,c,x)) = Strm(o,e,rest,u,g,t,c,x)
<1> DEFINE f == Field("tag", 0, 0)
<1>1. f \in FieldT /\ f.kind = "tag"
  BY Fields, Zenon
<1>2. HitTag = <<f>>
  BY Zenon DEF HitTag
<1> HIDE DEF f
<1>3. /\ Next1(Strm(o,e,<<f>> \o rest,u,g,t,c,x)) = f
      /\ Skip1(Strm(o,e,<<f>> \o rest,u,g,t,c,x)) = Strm(o,e,rest,u,g,t,c,x)
  BY <1>1, NextField
<1>4. QED
  BY <1>1, <1>2, <1>3, Zenon

(* Two groups of fields are one stream.                                     *)
LEMMA Assoc ==
  ASSUME NEW a \in Seq(FieldT), NEW b \in Seq(FieldT), NEW d \in Seq(FieldT)
  PROVE  (a \o b) \o d = a \o (b \o d) /\ a \o b \in Seq(FieldT)
OBVIOUS

(* The same with a name for the equation, to be cited among others.         *)
Associates(a, b, d) == (a \o b) \o d = a \o (b \o d)

LEMMA FieldsAssociate ==
  ASSUME NEW a \in Seq(FieldT), NEW b \in Seq(FieldT), NEW d \in Seq(FieldT)
  PROVE  Associates(a, b, d)
BY Assoc DEF Associates

-----------------------------------------------------------------------------
(* The tables of names.                                                     *)

(* No name is stored twice, and those of xsi are where the code expects.    *)
UniqueUris(u) == \A i, j \in 1..Len(u) : u[i].uriStr = u[j].uriStr => i = j

UniqueLns(u) ==
  \A i \in 1..Len(u) : \A k, l \in 1..Len(u[i].lnTable) :
    u[i].lnTable[k].lnStr = u[i].lnTable[l].lnStr => k = l

UniquePfxs(u) ==
  \A i \in 1..Len(u) : \A k, l \in 1..Len(u[i].pfxTable) :
    u[i].pfxTable[k] = u[i].pfxTable[l] => k = l

XsiInPlace(u) ==
  /\ 3 <= Len(u) /\ u[3].uriStr = "xsi"
  /\ 2 <= Len(u[3].lnTable)
  /\ u[3].lnTable[1].lnStr = "nil" /\ u[3].lnTable[2].lnStr = "type"

Names(u) == /\ u \in UriTableT
            /\ UniqueUris(u) /\ UniqueLns(u) /\ UniquePfxs(u) /\ XsiInPlace(u)

(* Nothing that u says is different in v.                                   *)
Grows(u, v) ==
  /\ Len(u) <= Len(v)
  /\ \A i \in 1..Len(u) :
       /\ v[i].uriStr = u[i].uriStr
       /\ Len(u[i].lnTable) <= Len(v[i].lnTable)
       /\ \A k \in 1..Len(u[i].lnTable) :
            /\ v[i].lnTable[k].lnStr = u[i].lnTable[k].lnStr
            /\ u[i].lnTable[k].elemGrammar # NoGrammar =>
                 v[i].lnTable[k].elemGrammar = u[i].lnTable[k].elemGrammar

(* No name leads to a grammar behind the first n.                           *)
GrammarsIn(u, n) ==
  \A i \in 1..Len(u) : \A k \in 1..Len(u[i].lnTable) :
    u[i].lnTable[k].elemGrammar <= n

(* The parts of an entry of the table of URIs.                              *)
LEMMA Entries ==
  ASSUME NEW u \in UriTableT, NEW i \in 1..Len(u)
  PROVE  /\ u[i] \in UriEntryT
         /\ u[i].uriStr \in Text
         /\ u[i].lnTable \in Seq(LnEntryT)
         /\ u[i].pfxTable \in Seq(Text)
         /\ Len(u[i].lnTable) \in Nat /\ Len(u[i].pfxTable) \in Nat
         /\ \A k \in 1..Len(u[i].lnTable) :
              /\ u[i].lnTable[k] \in LnEntryT
              /\ u[i].lnTable[k].elemGrammar \in Nat
         /\ \A k \in 1..Len(u[i].pfxTable) : u[i].pfxTable[k] \in Text
<1>1. u[i] \in UriEntryT
  BY DEF UriTableT
<1>2. /\ u[i].uriStr \in Text
      /\ u[i].lnTable \in Seq(LnEntryT)
      /\ u[i].pfxTable \in Seq(Text)
  BY <1>1 DEF UriEntryT
<1> DEFINE ln == u[i].lnTable
<1>3. ASSUME NEW k \in 1..Len(ln) PROVE ln[k] \in LnEntryT
  <2>1. ln \in Seq(LnEntryT)
    BY <1>2
  <2> HIDE DEF ln
  <2>2. QED
    BY <2>1
<1>4. \A r \in LnEntryT : r.elemGrammar \in Nat
  BY DEF LnEntryT
<1>5. Len(u[i].lnTable) \in Nat /\ Len(u[i].pfxTable) \in Nat
  BY <1>2, LenProperties
<1>6. ASSUME NEW k \in 1..Len(u[i].pfxTable) PROVE u[i].pfxTable[k] \in Text
  <2> DEFINE p == u[i].pfxTable
  <2>1. p \in Seq(Text)
    BY <1>2
  <2> HIDE DEF p
  <2>2. QED
    BY <2>1, <1>6, ElementOfSeq DEF p
<1>7. QED
  BY <1>1, <1>2, <1>3, <1>4, <1>5, <1>6

(* An entry is made of its parts, and may be put together with others.      *)
LEMMA EntryParts ==
  ASSUME NEW r \in UriEntryT
  PROVE  /\ \A y : [r EXCEPT !.lnTable = y] =
                     [uriStr |-> r.uriStr, lnTable |-> y, pfxTable |-> r.pfxTable]
         /\ \A y : [r EXCEPT !.pfxTable = y] =
                     [uriStr |-> r.uriStr, lnTable |-> r.lnTable, pfxTable |-> y]
<1>1. r = [uriStr |-> r.uriStr, lnTable |-> r.lnTable, pfxTable |-> r.pfxTable]
  BY DEF UriEntryT
<1>4. PICK ri, rl, rp : ri = r.uriStr /\ rl = r.lnTable /\ rp = r.pfxTable
  OBVIOUS
<1>5. r = [uriStr |-> ri, lnTable |-> rl, pfxTable |-> rp]
  BY <1>1, <1>4
<1>3. \A y : [r EXCEPT !.lnTable = y] = [uriStr |-> ri, lnTable |-> y, pfxTable |-> rp]
  BY <1>5
<1>6. \A y : [r EXCEPT !.pfxTable = y] = [uriStr |-> ri, lnTable |-> rl, pfxTable |-> y]
  BY <1>5
<1>7. QED
  BY <1>3, <1>4, <1>6, Zenon

(* The first of a set of positions, and how the look-ups find it.           *)
LEMMA FirstOf ==
  ASSUME NEW n \in Nat, NEW I \in SUBSET (1..n)
  PROVE  LET r == (IF I # {} THEN Min(I) ELSE 0) - 1
         IN /\ r \in -1..n-1
            /\ r >= 0 => r + 1 \in I
            /\ r < 0 => r = -1 /\ I = {}
<1>1. CASE I = {}
  BY <1>1
<1>2. CASE I # {}
  <2>1. PICK m \in I : \A k \in I : ~(k < m)
    BY <1>2, LeastNatural
  <2>2. Min(I) \in I
    <3>1. m \in I /\ \A k \in I : m <= k
      BY <2>1
    <3>2. QED
      BY <3>1, Zenon DEF Min
  <2>3. PICK f : f = Min(I)
    OBVIOUS
  <2>4. f \in 1..n /\ f \in I
    BY <2>2, <2>3
  <2>5. (IF I # {} THEN Min(I) ELSE 0) - 1 = f - 1
    BY <1>2, <2>3
  <2>6. QED
    BY <1>2, <2>4, <2>5
<1>3. QED
  BY <1>1, <1>2

(* lookupUri finds the only entry with the URI, or none.                    *)
LEMMA LookingUpUris ==
  ASSUME NEW u \in UriTableT, NEW uri
  PROVE  /\ lookupUri(u, uri) \in -1..Len(u)-1
         /\ lookupUri(u, uri) >= 0 => u[lookupUri(u, uri) + 1].uriStr = uri
         /\ lookupUri(u, uri) < 0 =>
              /\ lookupUri(u, uri) = -1
              /\ \A i \in 1..Len(u) : u[i].uriStr # uri
<1> DEFINE I == {i \in 1..Len(u) : u[i].uriStr = uri}
<1>1. lookupUri(u, uri) = (IF I # {} THEN Min(I) ELSE 0) - 1
  BY DEF lookupUri, SelectInSeq
<1>2. Len(u) \in Nat
  BY LenProperties DEF UriTableT
<1>3. I \in SUBSET (1..Len(u))
  OBVIOUS
<1>4. \A i \in I : u[i].uriStr = uri
  OBVIOUS
<1>5. I = {} => \A i \in 1..Len(u) : u[i].uriStr # uri
  OBVIOUS
<1> HIDE DEF I
<1>6. LET r == (IF I # {} THEN Min(I) ELSE 0) - 1
      IN /\ r \in -1..Len(u)-1
         /\ r >= 0 => r + 1 \in I
         /\ r < 0 => r = -1 /\ I = {}
  BY <1>2, <1>3, FirstOf
<1>7. PICK k : k = lookupUri(u, uri)
  OBVIOUS
<1>8. k \in -1..Len(u)-1 /\ (k >= 0 => k + 1 \in I) /\ (k < 0 => k = -1 /\ I = {})
  BY <1>1, <1>6, <1>7, Zenon
<1>9. QED
  BY <1>4, <1>5, <1>7, <1>8

(* lookupLn finds the only entry with the local name, or none.              *)
LEMMA LookingUpLns ==
  ASSUME NEW u \in UriTableT, NEW i \in 0..Len(u)-1, NEW ln
  PROVE  /\ lookupLn(u, i, ln) \in -1..Len(u[i+1].lnTable)-1
         /\ lookupLn(u, i, ln) >= 0 => u[i+1].lnTable[lookupLn(u, i, ln) + 1].lnStr = ln
         /\ lookupLn(u, i, ln) < 0 =>
              /\ lookupLn(u, i, ln) = -1
              /\ \A k \in 1..Len(u[i+1].lnTable) : u[i+1].lnTable[k].lnStr # ln
<1> DEFINE t == u[i+1].lnTable
           I == {k \in 1..Len(t) : t[k].lnStr = ln}
<1>1. lookupLn(u, i, ln) = (IF I # {} THEN Min(I) ELSE 0) - 1
  BY DEF lookupLn, SelectInSeq, At
<1>2. Len(t) \in Nat
  <2>1. i + 1 \in 1..Len(u)
    BY LenProperties DEF UriTableT
  <2>2. QED
    BY <2>1, Entries
<1> HIDE DEF t
<1>3. I \in SUBSET (1..Len(t))
  OBVIOUS
<1>4. \A k \in I : t[k].lnStr = ln
  OBVIOUS
<1>5. I = {} => \A k \in 1..Len(t) : t[k].lnStr # ln
  OBVIOUS
<1> HIDE DEF I
<1>6. LET r == (IF I # {} THEN Min(I) ELSE 0) - 1
      IN /\ r \in -1..Len(t)-1
         /\ r >= 0 => r + 1 \in I
         /\ r < 0 => r = -1 /\ I = {}
  BY <1>2, <1>3, FirstOf
<1>7. PICK k : k = lookupLn(u, i, ln)
  OBVIOUS
<1>8. k \in -1..Len(t)-1 /\ (k >= 0 => k + 1 \in I) /\ (k < 0 => k = -1 /\ I = {})
  BY <1>1, <1>6, <1>7, Zenon
<1>9. QED
  BY <1>4, <1>5, <1>7, <1>8 DEF t

(* lookupPfx finds the only entry with the prefix, or none.                 *)
LEMMA LookingUpPfxs ==
  ASSUME NEW u \in UriTableT, NEW i \in 0..Len(u)-1, NEW pfx
  PROVE  /\ lookupPfx(u, i, pfx) \in -1..Len(u[i+1].pfxTable)-1
         /\ lookupPfx(u, i, pfx) >= 0 => u[i+1].pfxTable[lookupPfx(u, i, pfx) + 1] = pfx
         /\ lookupPfx(u, i, pfx) < 0 =>
              /\ lookupPfx(u, i, pfx) = -1
              /\ \A k \in 1..Len(u[i+1].pfxTable) : u[i+1].pfxTable[k] # pfx
<1> DEFINE t == u[i+1].pfxTable
           I == {k \in 1..Len(t) : t[k] = pfx}
<1>1. lookupPfx(u, i, pfx) = (IF I # {} THEN Min(I) ELSE 0) - 1
  BY DEF lookupPfx, SelectInSeq, At
<1>2. Len(t) \in Nat
  <2>1. i + 1 \in 1..Len(u)
    BY LenProperties DEF UriTableT
  <2>2. QED
    BY <2>1, Entries
<1> HIDE DEF t
<1>3. I \in SUBSET (1..Len(t))
  OBVIOUS
<1>4. \A k \in I : t[k] = pfx
  OBVIOUS
<1>5. I = {} => \A k \in 1..Len(t) : t[k] # pfx
  OBVIOUS
<1> HIDE DEF I
<1>6. LET r == (IF I # {} THEN Min(I) ELSE 0) - 1
      IN /\ r \in -1..Len(t)-1
         /\ r >= 0 => r + 1 \in I
         /\ r < 0 => r = -1 /\ I = {}
  BY <1>2, <1>3, FirstOf
<1>7. PICK k : k = lookupPfx(u, i, pfx)
  OBVIOUS
<1>8. k \in -1..Len(t)-1 /\ (k >= 0 => k + 1 \in I) /\ (k < 0 => k = -1 /\ I = {})
  BY <1>1, <1>6, <1>7, Zenon
<1>9. QED
  BY <1>4, <1>5, <1>7, <1>8 DEF t

(* What an addition does to the entries.                                    *)
LEMMA AddedUri ==
  ASSUME NEW u \in UriTableT, NEW uri \in Text
  PROVE  /\ UriAdded(u, uri) \in UriTableT
         /\ Len(UriAdded(u, uri)) = Len(u) + 1
         /\ \A i \in 1..Len(u) : UriAdded(u, uri)[i] = u[i]
         /\ UriAdded(u, uri)[Len(u) + 1].uriStr = uri
         /\ Len(UriAdded(u, uri)[Len(u) + 1].lnTable) = 0
         /\ Len(UriAdded(u, uri)[Len(u) + 1].pfxTable) = 0
<1> DEFINE r == UriEntry(uri, <<>>, <<>>)
           v == Append(u, r)
<1>1. PICK l : l = [i \in 1..Len(<<>>) |-> LnEntry(<<>>[i])]
  OBVIOUS
<1>2. l = <<>>
  BY <1>1
<1>11. PICK z : z = <<>>
  OBVIOUS
<1>3. r = [uriStr |-> uri, lnTable |-> l, pfxTable |-> z]
  BY <1>1, <1>11, Zenon DEF UriEntry
<1>4. l \in Seq(LnEntryT) /\ z \in Seq(Text)
  BY <1>2, <1>11
<1> HIDE DEF r
<1>5. r \in UriEntryT /\ r.uriStr = uri /\ r.lnTable = l /\ r.pfxTable = z
  BY <1>3, <1>4 DEF UriEntryT
<1>6. u \in Seq(UriEntryT)
  BY DEF UriTableT
<1>7. /\ v \in Seq(UriEntryT) /\ Len(v) = Len(u) + 1
      /\ \A i \in 1..Len(u) : v[i] = u[i]
      /\ v[Len(u) + 1] = r
  BY <1>5, <1>6, AppendProperties
<1>8. Len(r.lnTable) = 0 /\ Len(r.pfxTable) = 0
  BY <1>2, <1>5, <1>11
<1>9. UriAdded(u, uri) = v
  BY Zenon DEF UriAdded, r
<1> HIDE DEF v
<1>10. QED
  BY <1>5, <1>7, <1>8, <1>9 DEF UriTableT

(* addLnEntry adds the local name to one URI and leaves the others alone.   *)
LEMMA AddedLn ==
  ASSUME NEW u \in UriTableT, NEW i \in 0..Len(u)-1, NEW ln \in Text
  PROVE  /\ LnAdded(u, i, ln) \in UriTableT
         /\ Len(LnAdded(u, i, ln)) = Len(u)
         /\ \A j \in 1..Len(u) :
              /\ LnAdded(u, i, ln)[j].uriStr = u[j].uriStr
              /\ LnAdded(u, i, ln)[j].pfxTable = u[j].pfxTable
              /\ j # i + 1 => LnAdded(u, i, ln)[j].lnTable = u[j].lnTable
         /\ LnAdded(u, i, ln)[i+1].lnTable = Append(u[i+1].lnTable, LnEntry(ln))
<1> DEFINE v == LnAdded(u, i, ln)
           x == Append(u[i+1].lnTable, LnEntry(ln))
<1>1. i + 1 \in 1..Len(u) /\ Len(u) \in Nat
  BY LenProperties DEF UriTableT
<1>2. LnEntry(ln) \in LnEntryT
  BY DEF LnEntry, LnEntryT, NoGrammar
<1>3. u[i+1] \in UriEntryT /\ u[i+1].lnTable \in Seq(LnEntryT)
  BY <1>1, Entries
<1>4. x \in Seq(LnEntryT)
  BY <1>2, <1>3, AppendProperties
<1>5. [u[i+1] EXCEPT !.lnTable = x] =
        [uriStr |-> u[i+1].uriStr, lnTable |-> x, pfxTable |-> u[i+1].pfxTable]
  BY <1>3, EntryParts, Zenon
<1>6. v = [u EXCEPT ![i+1] = [u[i+1] EXCEPT !.lnTable = x]]
  BY Zenon DEF LnAdded
<1> HIDE DEF x
<1>7. PICK r : r = [uriStr |-> u[i+1].uriStr, lnTable |-> x, pfxTable |-> u[i+1].pfxTable]
  OBVIOUS
<1>8. /\ r \in UriEntryT /\ r.uriStr = u[i+1].uriStr /\ r.lnTable = x
      /\ r.pfxTable = u[i+1].pfxTable
  <2>1. u[i+1].uriStr \in Text /\ u[i+1].pfxTable \in Seq(Text)
    BY <1>1, Entries
  <2>2. QED
    BY <1>4, <1>7, <2>1 DEF UriEntryT
<1>9. v = [u EXCEPT ![i+1] = r]
  BY <1>5, <1>6, <1>7, Zenon
<1> HIDE DEF v
<1>10. u \in Seq(UriEntryT)
  BY DEF UriTableT
<1>11. /\ v \in Seq(UriEntryT) /\ Len(v) = Len(u)
       /\ \A j \in 1..Len(u) : v[j] = IF j = i+1 THEN r ELSE u[j]
  BY <1>1, <1>8, <1>9, <1>10
<1>12. QED
  BY <1>1, <1>8, <1>11 DEF UriTableT, v, x

(* addPfxEntry adds the prefix to one URI and leaves the others alone.      *)
LEMMA AddedPfx ==
  ASSUME NEW u \in UriTableT, NEW i \in 0..Len(u)-1, NEW pfx \in Text
  PROVE  /\ PfxAdded(u, i, pfx) \in UriTableT
         /\ Len(PfxAdded(u, i, pfx)) = Len(u)
         /\ \A j \in 1..Len(u) :
              /\ PfxAdded(u, i, pfx)[j].uriStr = u[j].uriStr
              /\ PfxAdded(u, i, pfx)[j].lnTable = u[j].lnTable
              /\ j # i + 1 => PfxAdded(u, i, pfx)[j].pfxTable = u[j].pfxTable
         /\ PfxAdded(u, i, pfx)[i+1].pfxTable = Append(u[i+1].pfxTable, pfx)
<1> DEFINE v == PfxAdded(u, i, pfx)
           x == Append(u[i+1].pfxTable, pfx)
<1>1. i + 1 \in 1..Len(u) /\ Len(u) \in Nat
  BY LenProperties DEF UriTableT
<1>3. u[i+1] \in UriEntryT /\ u[i+1].pfxTable \in Seq(Text)
  BY <1>1, Entries
<1>4. x \in Seq(Text)
  BY <1>3, AppendProperties
<1>5. [u[i+1] EXCEPT !.pfxTable = x] =
        [uriStr |-> u[i+1].uriStr, lnTable |-> u[i+1].lnTable, pfxTable |-> x]
  BY <1>3, EntryParts, Zenon
<1>6. v = [u EXCEPT ![i+1] = [u[i+1] EXCEPT !.pfxTable = x]]
  BY Zenon DEF PfxAdded
<1> HIDE DEF x
<1>7. PICK r : r = [uriStr |-> u[i+1].uriStr, lnTable |-> u[i+1].lnTable, pfxTable |-> x]
  OBVIOUS
<1>8. /\ r \in UriEntryT /\ r.uriStr = u[i+1].uriStr /\ r.pfxTable = x
      /\ r.lnTable = u[i+1].lnTable
  <2>1. u[i+1].uriStr \in Text /\ u[i+1].lnTable \in Seq(LnEntryT)
    BY <1>1, Entries
  <2>2. QED
    BY <1>4, <1>7, <2>1 DEF UriEntryT
<1>9. v = [u EXCEPT ![i+1] = r]
  BY <1>5, <1>6, <1>7, Zenon
<1> HIDE DEF v
<1>10. u \in Seq(UriEntryT)
  BY DEF UriTableT
<1>11. /\ v \in Seq(UriEntryT) /\ Len(v) = Len(u)
       /\ \A j \in 1..Len(u) : v[j] = IF j = i+1 THEN r ELSE u[j]
  BY <1>1, <1>8, <1>9, <1>10
<1>12. QED
  BY <1>1, <1>8, <1>11 DEF UriTableT, v, x

(* The tables after encodeUri, encodeLn and encodePfx, the identifier the   *)
(* name then has, and the fields that tell the parser.                      *)
UriTab(u, uri) == IF lookupUri(u, uri) >= 0 THEN u ELSE UriAdded(u, uri)
UriIdOf(u, uri) == IF lookupUri(u, uri) >= 0 THEN lookupUri(u, uri) ELSE Len(u)
UriFields(u, uri) ==
  IF lookupUri(u, uri) >= 0 THEN NBits(getBitsNumber(Len(u)), lookupUri(u, uri) + 1)
  ELSE NBits(getBitsNumber(Len(u)), 0) \o Literal(uri)

Lns(u, i) == u[i + 1].lnTable
Pfxs(u, i) == u[i + 1].pfxTable

LnTab(u, i, ln) == IF lookupLn(u, i, ln) >= 0 THEN u ELSE LnAdded(u, i, ln)
LnIdOf(u, i, ln) == IF lookupLn(u, i, ln) >= 0 THEN lookupLn(u, i, ln) ELSE Len(Lns(u, i))
LnFields(u, i, ln) ==
  IF lookupLn(u, i, ln) >= 0
  THEN HitTag \o NBits(getBitsNumber(Len(Lns(u, i)) - 1), lookupLn(u, i, ln))
  ELSE Literal(ln)

PfxTab(u, i, pfx) == IF lookupPfx(u, i, pfx) >= 0 THEN u ELSE PfxAdded(u, i, pfx)
PfxIdOf(u, i, pfx) ==
  IF lookupPfx(u, i, pfx) >= 0 THEN lookupPfx(u, i, pfx) ELSE Len(Pfxs(u, i))
PfxFields(u, i, pfx) ==
  IF lookupPfx(u, i, pfx) >= 0
  THEN NBits(getBitsNumber(Len(Pfxs(u, i))), lookupPfx(u, i, pfx) + 1)
  ELSE NBits(getBitsNumber(Len(Pfxs(u, i))), 0) \o Literal(pfx)

(* A table says what it says.                                               *)
LEMMA GrowsItself ==
  ASSUME NEW u \in UriTableT
  PROVE  Grows(u, u)
<1>1. Len(u) \in Nat
  BY LenProperties DEF UriTableT
<1>2. \A i \in 1..Len(u) : Len(u[i].lnTable) \in Nat
  BY Entries
<1>3. QED
  BY <1>1, <1>2 DEF Grows

(* What is said once is said for good.                                      *)
LEMMA GrowsOn ==
  ASSUME NEW u \in UriTableT, NEW v \in UriTableT, NEW w \in UriTableT,
         Grows(u, v), Grows(v, w)
  PROVE  Grows(u, w)
<1>1. Len(u) \in Nat /\ Len(v) \in Nat /\ Len(w) \in Nat
  BY LenProperties DEF UriTableT
<1>2. Len(u) <= Len(v) /\ Len(v) <= Len(w)
  BY DEF Grows
<1>3. ASSUME NEW i \in 1..Len(u)
      PROVE  /\ w[i].uriStr = u[i].uriStr
             /\ Len(u[i].lnTable) <= Len(w[i].lnTable)
             /\ \A k \in 1..Len(u[i].lnTable) :
                  /\ w[i].lnTable[k].lnStr = u[i].lnTable[k].lnStr
                  /\ u[i].lnTable[k].elemGrammar # NoGrammar =>
                       w[i].lnTable[k].elemGrammar = u[i].lnTable[k].elemGrammar
  <2>1. i \in 1..Len(v) /\ i \in 1..Len(w)
    BY <1>1, <1>2
  <2>2. /\ Len(u[i].lnTable) \in Nat
        /\ Len(v[i].lnTable) \in Nat
        /\ Len(w[i].lnTable) \in Nat
    BY <2>1, Entries
  <2>3. Len(u[i].lnTable) <= Len(v[i].lnTable) /\ Len(v[i].lnTable) <= Len(w[i].lnTable)
    BY <2>1 DEF Grows
  <2>4. \A k \in 1..Len(u[i].lnTable) : k \in 1..Len(v[i].lnTable)
    BY <2>2, <2>3
  <2>5. w[i].uriStr = u[i].uriStr
    BY <2>1 DEF Grows
  <2>6. ASSUME NEW k \in 1..Len(u[i].lnTable)
        PROVE  /\ w[i].lnTable[k].lnStr = u[i].lnTable[k].lnStr
               /\ u[i].lnTable[k].elemGrammar # NoGrammar =>
                    w[i].lnTable[k].elemGrammar = u[i].lnTable[k].elemGrammar
    BY <2>1, <2>4, Zenon DEF Grows
  <2>7. QED
    BY <2>2, <2>3, <2>5, <2>6
<1>4. QED
  BY <1>1, <1>2, <1>3 DEF Grows

(* The names of xsi stay where the code expects them.                       *)
LEMMA XsiStays ==
  ASSUME NEW u \in UriTableT, NEW v \in UriTableT, XsiInPlace(u), Grows(u, v)
  PROVE  XsiInPlace(v)
<1>1. Len(u) \in Nat /\ Len(v) \in Nat /\ 3 <= Len(u)
  BY LenProperties DEF UriTableT, XsiInPlace
<1>2. 3 <= Len(v) /\ 3 \in 1..Len(u) /\ 3 \in 1..Len(v)
  BY <1>1 DEF Grows
<1>3. /\ v[3].uriStr = u[3].uriStr
      /\ Len(u[3].lnTable) <= Len(v[3].lnTable)
      /\ \A k \in 1..Len(u[3].lnTable) : v[3].lnTable[k].lnStr = u[3].lnTable[k].lnStr
  BY <1>2 DEF Grows
<1>4. Len(u[3].lnTable) \in Nat /\ Len(v[3].lnTable) \in Nat
  BY <1>2, Entries
<1>5. /\ u[3].uriStr = "xsi" /\ 2 <= Len(u[3].lnTable)
      /\ u[3].lnTable[1].lnStr = "nil" /\ u[3].lnTable[2].lnStr = "type"
  BY DEF XsiInPlace
<1>6. 1 \in 1..Len(u[3].lnTable) /\ 2 \in 1..Len(u[3].lnTable)
  BY <1>4, <1>5
<1>7. 2 <= Len(v[3].lnTable)
  BY <1>3, <1>4, <1>5
<1>8. QED
  BY <1>2, <1>3, <1>5, <1>6, <1>7 DEF XsiInPlace

(* After encodeUri the URI has the identifier that is its place.            *)
LEMMA UriTables ==
  ASSUME NEW u, Names(u), NEW uri \in Text
  PROVE  LET v == UriTab(u, uri)
         IN /\ Names(v) /\ Grows(u, v)
            /\ UriIdOf(u, uri) \in 0..Len(v)-1
            /\ v[UriIdOf(u, uri) + 1].uriStr = uri
            /\ \A n : GrammarsIn(u, n) /\ n \in Nat => GrammarsIn(v, n)
<1> DEFINE k == lookupUri(u, uri)
           v == UriTab(u, uri)
<1>1. u \in UriTableT /\ Len(u) \in Nat /\ 3 <= Len(u)
  BY LenProperties DEF Names, UriTableT, XsiInPlace
<1>2. /\ k \in -1..Len(u)-1
      /\ k >= 0 => u[k + 1].uriStr = uri
      /\ k < 0 => \A i \in 1..Len(u) : u[i].uriStr # uri
  BY <1>1, LookingUpUris
<1>3. CASE k >= 0
  <2>1. v = u /\ UriIdOf(u, uri) = k
    BY <1>3 DEF UriTab, UriIdOf
  <2>2. Grows(u, u)
    BY <1>1, GrowsItself
  <2> HIDE DEF k, v
  <2>3. QED
    BY <1>1, <1>2, <1>3, <2>1, <2>2 DEF v
<1>4. CASE ~(k >= 0)
  <2>1. v = UriAdded(u, uri) /\ UriIdOf(u, uri) = Len(u)
    BY <1>4 DEF UriTab, UriIdOf
  <2>2. \A i \in 1..Len(u) : u[i].uriStr # uri
    BY <1>2, <1>4
  <2> HIDE DEF k, v
  <2>3. /\ v \in UriTableT
        /\ Len(v) = Len(u) + 1
        /\ \A i \in 1..Len(u) : v[i] = u[i]
        /\ v[Len(u) + 1].uriStr = uri
        /\ Len(v[Len(u) + 1].lnTable) = 0
        /\ Len(v[Len(u) + 1].pfxTable) = 0
    BY <1>1, <2>1, AddedUri
  <2>4. \A i \in 1..Len(v) : i \in 1..Len(u) \/ i = Len(u) + 1
    BY <1>1, <2>3
  <2>5. UniqueUris(v)
    BY <2>2, <2>3, <2>4 DEF UniqueUris, Names
  <2>6. UniqueLns(v)
    BY <2>3, <2>4 DEF UniqueLns, Names
  <2>7. UniquePfxs(v)
    BY <2>3, <2>4 DEF UniquePfxs, Names
  <2>8. XsiInPlace(v)
    BY <1>1, <2>3 DEF XsiInPlace, Names
  <2>9. Grows(u, v)
    <3>1. \A i \in 1..Len(u) : Len(u[i].lnTable) \in Nat
      BY <1>1, Entries
    <3>2. QED
      BY <1>1, <2>3, <3>1 DEF Grows
  <2>10. \A n : GrammarsIn(u, n) /\ n \in Nat => GrammarsIn(v, n)
    BY <2>3, <2>4 DEF GrammarsIn
  <2>11. QED
    BY <1>1, <2>1, <2>3, <2>5, <2>6, <2>7, <2>8, <2>9, <2>10 DEF Names, v
<1>5. QED
  BY <1>3, <1>4

(* The same for encodeLn: nothing but the local names of the URI changes.   *)
LEMMA LnTables ==
  ASSUME NEW u, Names(u), NEW i \in 0..Len(u)-1, NEW ln \in Text
  PROVE  LET v == LnTab(u, i, ln)
         IN /\ Names(v) /\ Grows(u, v) /\ Len(v) = Len(u)
            /\ LnIdOf(u, i, ln) \in 0..Len(Lns(v, i))-1
            /\ Lns(v, i)[LnIdOf(u, i, ln) + 1].lnStr = ln
            /\ \A n : GrammarsIn(u, n) /\ n \in Nat => GrammarsIn(v, n)
<1> DEFINE k == lookupLn(u, i, ln)
           v == LnTab(u, i, ln)
           t == u[i+1].lnTable
<1>1. u \in UriTableT /\ Len(u) \in Nat /\ 3 <= Len(u) /\ i + 1 \in 1..Len(u)
  BY LenProperties DEF Names, UriTableT, XsiInPlace
<1>2. /\ k \in -1..Len(t)-1
      /\ k >= 0 => t[k + 1].lnStr = ln
      /\ k < 0 => \A j \in 1..Len(t) : t[j].lnStr # ln
  BY <1>1, LookingUpLns
<1>6. t \in Seq(LnEntryT) /\ Len(t) \in Nat
  BY <1>1, Entries
<1>3. CASE k >= 0
  <2>1. v = u /\ LnIdOf(u, i, ln) = k /\ Lns(u, i) = t
    BY <1>3 DEF LnTab, LnIdOf, Lns
  <2>2. Grows(u, u)
    BY <1>1, GrowsItself
  <2> HIDE DEF k, v, t
  <2>3. QED
    BY <1>1, <1>2, <1>3, <2>1, <2>2 DEF v
<1>4. CASE ~(k >= 0)
  <2>1. v = LnAdded(u, i, ln) /\ LnIdOf(u, i, ln) = Len(t)
    BY <1>4 DEF LnTab, LnIdOf, Lns
  <2>2. \A j \in 1..Len(t) : t[j].lnStr # ln
    BY <1>2, <1>4
  <2> DEFINE w == v[i+1].lnTable
  <2> HIDE DEF k, v
  <2>3. /\ v \in UriTableT
        /\ Len(v) = Len(u)
        /\ \A j \in 1..Len(u) :
              /\ v[j].uriStr = u[j].uriStr
              /\ v[j].pfxTable = u[j].pfxTable
              /\ j # i + 1 => v[j].lnTable = u[j].lnTable
        /\ w = Append(t, LnEntry(ln))
    BY <1>1, <2>1, AddedLn
  <2>4. LnEntry(ln) \in LnEntryT /\ LnEntry(ln).lnStr = ln /\ LnEntry(ln).elemGrammar = 0
    BY DEF LnEntry, LnEntryT, NoGrammar
  <2> HIDE DEF t, w
  <2>5. /\ Len(w) = Len(t) + 1
        /\ \A j \in 1..Len(t) : w[j] = t[j]
        /\ w[Len(t) + 1].lnStr = ln
        /\ w[Len(t) + 1].elemGrammar = 0
    BY <1>6, <2>3, <2>4, AppendProperties
  <2>6. \A j \in 1..Len(w) : j \in 1..Len(t) \/ j = Len(t) + 1
    BY <1>6, <2>5
  <2>7. UniqueUris(v)
    BY <2>3 DEF UniqueUris, Names
  <2>8. UniqueLns(v)
    <3>1. \A p, q \in 1..Len(w) : w[p].lnStr = w[q].lnStr => p = q
      <4>1. \A p, q \in 1..Len(t) : t[p].lnStr = t[q].lnStr => p = q
        BY <1>1 DEF Names, UniqueLns, t
      <4>2. QED
        BY <2>2, <2>5, <2>6, <4>1
    <3>2. ASSUME NEW j \in 1..Len(v), NEW p \in 1..Len(v[j].lnTable),
                 NEW q \in 1..Len(v[j].lnTable),
                 v[j].lnTable[p].lnStr = v[j].lnTable[q].lnStr
          PROVE  p = q
      <4>1. CASE j = i + 1
        BY <3>1, <3>2, <4>1 DEF w
      <4>2. CASE j # i + 1
        BY <2>3, <3>2, <4>2 DEF Names, UniqueLns
      <4>3. QED
        BY <4>1, <4>2
    <3>3. QED
      BY <3>2 DEF UniqueLns
  <2>9. UniquePfxs(v)
    BY <2>3 DEF UniquePfxs, Names
  <2>10. \A j \in 1..Len(u) :
           /\ Len(v[j].lnTable) >= Len(u[j].lnTable)
           /\ \A p \in 1..Len(u[j].lnTable) : v[j].lnTable[p] = u[j].lnTable[p]
    <3>1. \A j \in 1..Len(u) : Len(u[j].lnTable) \in Nat
      BY <1>1, Entries
    <3>2. Len(w) >= Len(t) /\ \A p \in 1..Len(t) : w[p] = t[p]
      BY <1>6, <2>5
    <3>3. ASSUME NEW j \in 1..Len(u)
          PROVE  /\ Len(v[j].lnTable) >= Len(u[j].lnTable)
                 /\ \A p \in 1..Len(u[j].lnTable) : v[j].lnTable[p] = u[j].lnTable[p]
      <4>1. CASE j = i + 1
        BY <3>2, <4>1 DEF w, t
      <4>2. CASE j # i + 1
        <5>1. v[j].lnTable = u[j].lnTable
          BY <2>3, <4>2
        <5>2. QED
          BY <3>1, <5>1
      <4>3. QED
        BY <4>1, <4>2
    <3>4. QED
      BY <3>3
  <2>11. Grows(u, v)
    <3>1. \A j \in 1..Len(u) : Len(u[j].lnTable) \in Nat /\ Len(v[j].lnTable) \in Nat
      BY <1>1, <2>3, Entries
    <3>2. QED
      BY <1>1, <2>3, <2>10, <3>1 DEF Grows
  <2>12. XsiInPlace(v)
    BY <1>1, <2>3, <2>11, XsiStays DEF Names
  <2>13. ASSUME NEW n \in Nat, GrammarsIn(u, n)
         PROVE  GrammarsIn(v, n)
    <3>1. ASSUME NEW j \in 1..Len(v), NEW p \in 1..Len(v[j].lnTable)
          PROVE  v[j].lnTable[p].elemGrammar <= n
      <4>1. CASE j = i + 1
        <5>1. \A q \in 1..Len(t) : t[q].elemGrammar <= n
          BY <1>1, <2>13 DEF GrammarsIn, t
        <5>2. p \in 1..Len(w)
          BY <4>1 DEF w
        <5>3. w[p].elemGrammar <= n
          BY <2>5, <2>6, <5>1, <5>2
        <5>4. QED
          BY <4>1, <5>3 DEF w
      <4>2. CASE j # i + 1
        BY <2>3, <2>13, <4>2 DEF GrammarsIn
      <4>3. QED
        BY <4>1, <4>2
    <3>2. QED
      BY <3>1 DEF GrammarsIn
  <2>14. Lns(v, i) = w
    BY DEF Lns, w
  <2>15. Names(v)
    BY <2>3, <2>7, <2>8, <2>9, <2>12 DEF Names
  <2>16. LnIdOf(u, i, ln) \in 0..Len(w)-1 /\ w[LnIdOf(u, i, ln) + 1].lnStr = ln
    BY <1>6, <2>1, <2>5
  <2>17. \A n : GrammarsIn(u, n) /\ n \in Nat => GrammarsIn(v, n)
    BY <2>13
  <2>18. QED
    BY <2>3, <2>11, <2>14, <2>15, <2>16, <2>17 DEF v
<1>5. QED
  BY <1>3, <1>4

(* The same for encodePfx.                                                  *)
LEMMA PfxTables ==
  ASSUME NEW u, Names(u), NEW i \in 0..Len(u)-1, NEW pfx \in Text
  PROVE  LET v == PfxTab(u, i, pfx)
         IN /\ Names(v) /\ Grows(u, v) /\ Len(v) = Len(u)
            /\ PfxIdOf(u, i, pfx) \in 0..Len(Pfxs(v, i))-1
            /\ Pfxs(v, i)[PfxIdOf(u, i, pfx) + 1] = pfx
            /\ \A n : GrammarsIn(u, n) /\ n \in Nat => GrammarsIn(v, n)
<1> DEFINE k == lookupPfx(u, i, pfx)
           v == PfxTab(u, i, pfx)
           t == u[i+1].pfxTable
<1>1. u \in UriTableT /\ Len(u) \in Nat /\ 3 <= Len(u) /\ i + 1 \in 1..Len(u)
  BY LenProperties DEF Names, UriTableT, XsiInPlace
<1>2. /\ k \in -1..Len(t)-1
      /\ k >= 0 => t[k + 1] = pfx
      /\ k < 0 => \A j \in 1..Len(t) : t[j] # pfx
  BY <1>1, LookingUpPfxs
<1>6. t \in Seq(Text) /\ Len(t) \in Nat
  BY <1>1, Entries
<1>3. CASE k >= 0
  <2>1. v = u /\ PfxIdOf(u, i, pfx) = k /\ Pfxs(u, i) = t
    BY <1>3 DEF PfxTab, PfxIdOf, Pfxs
  <2>2. Grows(u, u)
    BY <1>1, GrowsItself
  <2>3. PfxIdOf(u, i, pfx) \in 0..Len(t)-1 /\ t[PfxIdOf(u, i, pfx) + 1] = pfx
    <3> HIDE DEF k, v, t
    <3>1. k \in 0..Len(t)-1
      BY <1>2, <1>3, <1>6
    <3>2. t[k + 1] = pfx
      BY <1>2, <1>3
    <3>3. PfxIdOf(u, i, pfx) = k
      BY <2>1
    <3>4. QED
      BY <3>1, <3>2, <3>3, Zenon
  <2>4. Pfxs(v, i) = t
    BY <2>1
  <2> HIDE DEF k, v, t
  <2>5. QED
    BY <2>1, <2>2, <2>3, <2>4 DEF v
<1>4. CASE ~(k >= 0)
  <2>1. v = PfxAdded(u, i, pfx) /\ PfxIdOf(u, i, pfx) = Len(t)
    BY <1>4 DEF PfxTab, PfxIdOf, Pfxs
  <2>2. \A j \in 1..Len(t) : t[j] # pfx
    BY <1>2, <1>4
  <2> DEFINE w == v[i+1].pfxTable
  <2> HIDE DEF k, v
  <2>3. /\ v \in UriTableT
        /\ Len(v) = Len(u)
        /\ \A j \in 1..Len(u) :
              /\ v[j].uriStr = u[j].uriStr
              /\ v[j].lnTable = u[j].lnTable
              /\ j # i + 1 => v[j].pfxTable = u[j].pfxTable
        /\ w = Append(t, pfx)
    BY <1>1, <2>1, AddedPfx
  <2> HIDE DEF t, w
  <2>5. /\ Len(w) = Len(t) + 1
        /\ \A j \in 1..Len(t) : w[j] = t[j]
        /\ w[Len(t) + 1] = pfx
    BY <1>6, <2>3, AppendProperties
  <2>6. \A j \in 1..Len(w) : j \in 1..Len(t) \/ j = Len(t) + 1
    BY <1>6, <2>5
  <2>7. UniqueUris(v)
    BY <2>3 DEF UniqueUris, Names
  <2>8. UniquePfxs(v)
    <3>1. \A p, q \in 1..Len(w) : w[p] = w[q] => p = q
      <4>1. \A p, q \in 1..Len(t) : t[p] = t[q] => p = q
        BY <1>1 DEF Names, UniquePfxs, t
      <4>2. QED
        BY <2>2, <2>5, <2>6, <4>1
    <3>2. ASSUME NEW j \in 1..Len(v), NEW p \in 1..Len(v[j].pfxTable),
                 NEW q \in 1..Len(v[j].pfxTable),
                 v[j].pfxTable[p] = v[j].pfxTable[q]
          PROVE  p = q
      <4>1. CASE j = i + 1
        BY <3>1, <3>2, <4>1 DEF w
      <4>2. CASE j # i + 1
        BY <2>3, <3>2, <4>2 DEF Names, UniquePfxs
      <4>3. QED
        BY <4>1, <4>2
    <3>3. QED
      BY <3>2 DEF UniquePfxs
  <2>9. UniqueLns(v)
    BY <2>3 DEF UniqueLns, Names
  <2>11. Grows(u, v)
    <3>1. \A j \in 1..Len(u) : Len(u[j].lnTable) \in Nat
      BY <1>1, Entries
    <3>2. QED
      BY <1>1, <2>3, <3>1 DEF Grows
  <2>12. XsiInPlace(v)
    BY <1>1, <2>3, <2>11, XsiStays DEF Names
  <2>13. \A n : GrammarsIn(u, n) /\ n \in Nat => GrammarsIn(v, n)
    BY <2>3 DEF GrammarsIn
  <2>14. Pfxs(v, i) = w
    BY DEF Pfxs, w
  <2>15. Names(v)
    BY <2>3, <2>7, <2>8, <2>9, <2>12 DEF Names
  <2>16. PfxIdOf(u, i, pfx) \in 0..Len(w)-1 /\ w[PfxIdOf(u, i, pfx) + 1] = pfx
    BY <1>6, <2>1, <2>5
  <2>18. QED
    BY <2>3, <2>11, <2>13, <2>14, <2>15, <2>16 DEF v
<1>5. QED
  BY <1>3, <1>4

-----------------------------------------------------------------------------
(* What is encoded from some tables is decoded from the same tables.        *)

(* encodeUri writes the fields of the URI and adds a new one.               *)
LEMMA EncodingUris ==
  ASSUME NEW o, NEW e, NEW b \in Seq(FieldT), NEW u \in UriTableT, NEW g, NEW t, NEW c, NEW x,
         Len(u) \in 1..URI_MAX, NEW uri \in Text
  PROVE  /\ UriFields(u, uri) \in Seq(FieldT)
         /\ encodeUri(Strm(o,e,b,u,g,t,c,x), uri) =
              Strm(o,e,b \o UriFields(u, uri),UriTab(u, uri),g,t,c,x)
<1> DEFINE s == Strm(o,e,b,u,g,t,c,x)
           k == lookupUri(u, uri)
           w == getBitsNumber(Len(u))
<1>1. s.uriTable = u
  BY Accesses
<1>2. w \in Nat
  BY SomeBits
<1>3. k \in -1..Len(u)-1
  BY LookingUpUris
<1>4. /\ NBits(w, 0) \in Seq(FieldT)
      /\ Literal(uri) \in Seq(FieldT)
      /\ NBits(w, 0) \o Literal(uri) \in Seq(FieldT)
  BY <1>2, FieldTypes, Assoc
<1>5. k >= 0 => NBits(w, k + 1) \in Seq(FieldT)
  BY <1>2, <1>3, FieldTypes
<1>6. encodeUri(s, uri) = IF k >= 0 THEN Write(s, NBits(w, k + 1))
                          ELSE addUriEntry(Write(s, NBits(w, 0) \o Literal(uri)), uri)
  BY <1>1, Zenon DEF encodeUri
<1>7. \A f : Write(s, f) = Strm(o,e,b \o f,u,g,t,c,x)
  BY Writing
<1>8. \A b1 : addUriEntry(Strm(o,e,b1,u,g,t,c,x), uri) = Strm(o,e,b1,UriAdded(u, uri),g,t,c,x)
  BY AddingUris
<1>9. UriFields(u, uri) = IF k >= 0 THEN NBits(w, k + 1) ELSE NBits(w, 0) \o Literal(uri)
  BY Zenon DEF UriFields
<1>10. UriTab(u, uri) = IF k >= 0 THEN u ELSE UriAdded(u, uri)
  BY Zenon DEF UriTab
<1> HIDE DEF s, k, w
<1>11. CASE k >= 0
  BY <1>5, <1>6, <1>7, <1>9, <1>10, <1>11, Zenon DEF s
<1>12. CASE ~(k >= 0)
  BY <1>4, <1>6, <1>7, <1>8, <1>9, <1>10, <1>12, Zenon DEF s
<1>13. QED
  BY <1>11, <1>12 DEF s

(* decodeUri reads the fields of the URI back and adds a new one.           *)
LEMMA DecodingUris ==
  ASSUME NEW o, NEW e, NEW rest \in Seq(FieldT), NEW u \in UriTableT, NEW g, NEW t, NEW c, NEW x,
         Len(u) \in 1..URI_MAX, NEW uri \in Text
  PROVE  decodeUri(Strm(o,e,UriFields(u, uri) \o rest,u,g,t,c,x)) =
           Result(Strm(o,e,rest,UriTab(u, uri),g,t,c,x), UriIdOf(u, uri))
<1> DEFINE s(b) == Strm(o,e,b,u,g,t,c,x)
           k == lookupUri(u, uri)
           w == getBitsNumber(Len(u))
<1>1. \A b : s(b).uriTable = u
  BY Accesses
<1>2. w \in Nat /\ w # 0
  BY SomeBits
<1>3. k \in -1..Len(u)-1 /\ Len(u) \in Nat
  BY LookingUpUris
<1>4. \A b : decodeUri(s(b)) = UriOf(DecodeNBits(s(b), w))
  BY <1>1, Zenon DEF decodeUri
<1>5. UriFields(u, uri) = IF k >= 0 THEN NBits(w, k + 1) ELSE NBits(w, 0) \o Literal(uri)
  BY Zenon DEF UriFields
<1>6. /\ UriTab(u, uri) = IF k >= 0 THEN u ELSE UriAdded(u, uri)
      /\ UriIdOf(u, uri) = IF k >= 0 THEN k ELSE Len(u)
  BY Zenon DEF UriTab, UriIdOf
<1>7. \A v \in Nat, r \in Seq(FieldT) :
        DecodeNBits(s(NBits(w, v) \o r), w) = Result(s(r), v)
  BY <1>2, ReadingBits
<1>8. CASE k >= 0
  <2>1. decodeUri(s(UriFields(u, uri) \o rest)) = UriOf(Result(s(rest), k + 1))
    <3>1. k + 1 \in Nat
      BY <1>3, <1>8
    <3> HIDE DEF s, k, w
    <3>2. QED
      BY <1>4, <1>5, <1>7, <1>8, <3>1, Zenon
  <2>2. k + 1 # 0 /\ k + 1 \in 1..Len(u) /\ (k + 1) - 1 = k
    BY <1>3, <1>8
  <2>3. UriOf(Result(s(rest), k + 1)) = Result(s(rest), (k + 1) - 1)
    <3>1. PICK y : y = k + 1
      OBVIOUS
    <3>2. Result(s(rest), y).val = y /\ Result(s(rest), y).s = s(rest)
      BY Results
    <3> HIDE DEF s, k, w
    <3>3. y # 0 /\ y \in 1..Len(s(rest).uriTable)
      BY <1>1, <2>2, <3>1
    <3>4. UriOf(Result(s(rest), y)) = Result(s(rest), y - 1)
      BY <3>2, <3>3 DEF UriOf
    <3>5. QED
      BY <3>1, <3>4
  <2> HIDE DEF s, k, w
  <2>4. QED
    BY <1>6, <1>8, <2>1, <2>2, <2>3, Zenon DEF s
<1>9. CASE ~(k >= 0)
  <2>1. /\ Literal(uri) \in Seq(FieldT) /\ NBits(w, 0) \in Seq(FieldT)
        /\ Literal(uri) \o rest \in Seq(FieldT)
    BY <1>2, FieldTypes, Assoc
  <2>2. (NBits(w, 0) \o Literal(uri)) \o rest = NBits(w, 0) \o (Literal(uri) \o rest)
    BY <2>1, Assoc
  <2>3. decodeUri(s(UriFields(u, uri) \o rest)) = UriOf(Result(s(Literal(uri) \o rest), 0))
    <3>1. 0 \in Nat
      OBVIOUS
    <3> HIDE DEF s, k, w
    <3>2. QED
      BY <1>4, <1>5, <1>7, <1>9, <2>1, <2>2, <3>1, Zenon
  <2>4. UriOf(Result(s(Literal(uri) \o rest), 0)) = NewUri(DecodeChars(s(Literal(uri) \o rest)))
    <3>1. PICK y : y = s(Literal(uri) \o rest)
      OBVIOUS
    <3>2. Result(y, 0).val = 0 /\ Result(y, 0).s = y
      BY Results
    <3>3. UriOf(Result(y, 0)) = NewUri(DecodeChars(y))
      BY <3>2 DEF UriOf
    <3>4. QED
      BY <3>1, <3>3, Zenon
  <2>5. DecodeChars(s(Literal(uri) \o rest)) = Result(s(rest), uri)
    BY ReadingStrings
  <2>6. NewUri(Result(s(rest), uri)) = Result(addUriEntry(s(rest), uri), Len(u))
    <3>1. Result(s(rest), uri).val = uri /\ Result(s(rest), uri).s = s(rest)
      BY Results, Zenon
    <3>2. QED
      BY <1>1, <3>1, Zenon DEF NewUri
  <2>7. addUriEntry(s(rest), uri) = Strm(o,e,rest,UriAdded(u, uri),g,t,c,x)
    BY AddingUris
  <2> HIDE DEF s, k, w
  <2>8. QED
    BY <1>6, <1>9, <2>3, <2>4, <2>5, <2>6, <2>7, Zenon DEF s
<1>10. QED
  BY <1>8, <1>9

(* encodeLn writes the fields of the local name and adds a new one.         *)
LEMMA EncodingLns ==
  ASSUME NEW o, NEW e, NEW b \in Seq(FieldT), NEW u \in UriTableT, NEW g, NEW t, NEW c, NEW x,
         NEW i \in 0..Len(u)-1, Len(Lns(u, i)) \in 0..URI_MAX, NEW ln \in Text
  PROVE  /\ LnFields(u, i, ln) \in Seq(FieldT)
         /\ encodeLn(Strm(o,e,b,u,g,t,c,x), i, ln) =
              Strm(o,e,b \o LnFields(u, i, ln),LnTab(u, i, ln),g,t,c,x)
<1> DEFINE s == Strm(o,e,b,u,g,t,c,x)
           k == lookupLn(u, i, ln)
           w == getBitsNumber(Len(Lns(u, i)) - 1)
<1>1. s.uriTable = u
  BY Accesses
<1>2. k \in -1..Len(Lns(u, i))-1
  BY LookingUpLns DEF Lns
<1>3. k >= 0 => w \in Nat /\ k \in Nat
  <2>1. ASSUME k >= 0
        PROVE  Len(Lns(u, i)) - 1 \in 0..URI_MAX /\ k \in 0..Len(Lns(u, i))-1
    BY <1>2, <2>1, Sizes
  <2>2. ASSUME k >= 0
        PROVE  w \in Nat
    <3> HIDE DEF k
    <3>1. QED
      BY <2>1, <2>2, RangeBits
  <2>3. QED
    BY <2>1, <2>2
<1>4. k >= 0 => HitTag \o NBits(w, k) \in Seq(FieldT)
  <2> HIDE DEF k, w
  <2>1. QED
    BY <1>3, FieldTypes, Assoc
<1>5. Literal(ln) \in Seq(FieldT)
  BY FieldTypes
<1>6. encodeLn(s, i, ln) = IF k >= 0 THEN Write(s, HitTag \o NBits(w, k))
                           ELSE addLnEntry(Write(s, Literal(ln)), i, ln)
  BY <1>1, Zenon DEF encodeLn, Lns, At
<1>7. \A f : Write(s, f) = Strm(o,e,b \o f,u,g,t,c,x)
  BY Writing
<1>8. \A b1 : addLnEntry(Strm(o,e,b1,u,g,t,c,x), i, ln) = Strm(o,e,b1,LnAdded(u, i, ln),g,t,c,x)
  BY AddingLns
<1>9. LnFields(u, i, ln) = IF k >= 0 THEN HitTag \o NBits(w, k) ELSE Literal(ln)
  BY Zenon DEF LnFields
<1>10. LnTab(u, i, ln) = IF k >= 0 THEN u ELSE LnAdded(u, i, ln)
  BY Zenon DEF LnTab
<1> HIDE DEF s, k, w
<1>11. CASE k >= 0
  BY <1>4, <1>6, <1>7, <1>9, <1>10, <1>11, Zenon DEF s
<1>12. CASE ~(k >= 0)
  BY <1>5, <1>6, <1>7, <1>8, <1>9, <1>10, <1>12, Zenon DEF s
<1>13. QED
  BY <1>11, <1>12 DEF s

(* decodeLn reads the fields of the local name back and adds a new one.     *)
LEMMA DecodingLns ==
  ASSUME NEW o, NEW e, NEW rest \in Seq(FieldT), NEW u \in UriTableT, NEW g, NEW t, NEW c, NEW x,
         NEW i \in 0..Len(u)-1, Len(Lns(u, i)) \in 0..URI_MAX, NEW ln \in Text
  PROVE  decodeLn(Strm(o,e,LnFields(u, i, ln) \o rest,u,g,t,c,x), i) =
           Result(Strm(o,e,rest,LnTab(u, i, ln),g,t,c,x), LnIdOf(u, i, ln))
<1> DEFINE s(b) == Strm(o,e,b,u,g,t,c,x)
           k == lookupLn(u, i, ln)
           n == Len(Lns(u, i))
           w == getBitsNumber(n - 1)
<1>1. \A b : LnCount(s(b), i) = n
  <2>1. \A b : s(b).uriTable = u
    BY Accesses
  <2>2. QED
    BY <2>1, Zenon DEF LnCount, Lns, At
<1>2. k \in -1..n-1
  BY LookingUpLns DEF Lns
<1>3. /\ LnTab(u, i, ln) = IF k >= 0 THEN u ELSE LnAdded(u, i, ln)
      /\ LnIdOf(u, i, ln) = IF k >= 0 THEN k ELSE n
      /\ LnFields(u, i, ln) = IF k >= 0 THEN HitTag \o NBits(w, k) ELSE Literal(ln)
  BY Zenon DEF LnTab, LnIdOf, LnFields
<1>4. CASE k >= 0
  <2>1. n - 1 \in 0..URI_MAX /\ k \in 0..n-1 /\ k < n /\ n # 0 /\ k \in Nat
    BY <1>2, <1>4, Sizes
  <2>2. w \in Nat /\ (w = 0 => k = 0)
    <3> HIDE DEF k, n
    <3>1. QED
      BY <2>1, RangeBits
  <2> HIDE DEF k, n, w
  <2>3. /\ HitTag \in Seq(FieldT) /\ NBits(w, k) \in Seq(FieldT)
        /\ NBits(w, k) \o rest \in Seq(FieldT)
    BY <2>1, <2>2, FieldTypes, Assoc
  <2>4. (HitTag \o NBits(w, k)) \o rest = HitTag \o (NBits(w, k) \o rest)
    BY <2>3, Assoc
  <2>5. /\ Next1(s(HitTag \o (NBits(w, k) \o rest))).kind = "tag"
        /\ Skip1(s(HitTag \o (NBits(w, k) \o rest))) = s(NBits(w, k) \o rest)
    <3>1. PICK r : r = NBits(w, k) \o rest
      OBVIOUS
    <3>2. r \in Seq(FieldT)
      BY <2>3, <3>1
    <3>3. Next1(s(HitTag \o r)).kind = "tag" /\ Skip1(s(HitTag \o r)) = s(r)
      BY <3>2, ReadingTags
    <3> HIDE DEF s
    <3>4. QED
      BY <3>1, <3>3, Zenon
  <2>6. DecodeNBits(s(NBits(w, k) \o rest), w) = Result(s(rest), k)
    BY <2>1, <2>2, ReadingBits
  <2>7. PICK y : y = s(HitTag \o (NBits(w, k) \o rest))
    OBVIOUS
  <2>8. PICK z : z = Result(s(rest), k)
    OBVIOUS
  <2>9. z.val = k /\ z.s = s(rest)
    BY <2>8, Results, Zenon
  <2>10. LnCount(y, i) = n /\ LnCount(z.s, i) = n
    BY <1>1, <2>7, <2>9, Zenon
  <2>11. decodeLn(y, i) = KnownLn(DecodeNBits(Skip1(y), getBitsNumber(LnCount(y, i) - 1)), i)
    <3>1. ~(Next1(y).kind # "tag") /\ ~(LnCount(y, i) = 0)
      BY <2>1, <2>5, <2>7, <2>10
    <3> HIDE DEF s
    <3>2. QED
      BY <3>1 DEF decodeLn
  <2>12. KnownLn(z, i) = z
    BY <2>1, <2>9, <2>10, Zenon DEF KnownLn
  <2>13. DecodeNBits(Skip1(y), getBitsNumber(LnCount(y, i) - 1)) = z
    BY <2>5, <2>6, <2>7, <2>8, <2>10, Zenon DEF w
  <2> HIDE DEF s
  <2>14. QED
    BY <1>3, <1>4, <2>4, <2>7, <2>8, <2>11, <2>12, <2>13, Zenon DEF s
<1>5. CASE ~(k >= 0)
  <2>1. Next1(s(Literal(ln) \o rest)).kind # "tag"
    BY ReadingStrings
  <2>2. DecodeChars(s(Literal(ln) \o rest)) = Result(s(rest), ln)
    BY ReadingStrings
  <2>3. decodeLn(s(Literal(ln) \o rest), i) = NewLn(DecodeChars(s(Literal(ln) \o rest)), i)
    <3>1. PICK y : y = s(Literal(ln) \o rest)
      OBVIOUS
    <3> HIDE DEF s, k, n, w
    <3>2. Next1(y).kind # "tag"
      BY <2>1, <3>1, Zenon
    <3>3. decodeLn(y, i) = NewLn(DecodeChars(y), i)
      BY <3>2 DEF decodeLn
    <3>4. QED
      BY <3>1, <3>3, Zenon
  <2>4. NewLn(Result(s(rest), ln), i) = Result(addLnEntry(s(rest), i, ln), n)
    <3>1. Result(s(rest), ln).val = ln /\ Result(s(rest), ln).s = s(rest)
      BY Results, Zenon
    <3> HIDE DEF s, k, n, w
    <3>2. QED
      BY <1>1, <3>1, Zenon DEF NewLn
  <2>5. addLnEntry(s(rest), i, ln) = Strm(o,e,rest,LnAdded(u, i, ln),g,t,c,x)
    BY AddingLns
  <2> HIDE DEF s, k, n, w
  <2>6. QED
    BY <1>3, <1>5, <2>2, <2>3, <2>4, <2>5, Zenon DEF s
<1>6. QED
  BY <1>4, <1>5
(* The same for encodePfx: a URI without prefixes takes no bits for a miss. *)
LEMMA EncodingPfxs ==
  ASSUME NEW o, NEW e, NEW b \in Seq(FieldT), NEW u \in UriTableT, NEW g, NEW t, NEW c, NEW x,
         NEW i \in 0..Len(u)-1, Len(Pfxs(u, i)) \in 0..URI_MAX, NEW pfx \in Text
  PROVE  /\ PfxFields(u, i, pfx) \in Seq(FieldT)
         /\ encodePfx(Strm(o,e,b,u,g,t,c,x), i, pfx) =
              Strm(o,e,b \o PfxFields(u, i, pfx),PfxTab(u, i, pfx),g,t,c,x)
<1> DEFINE s == Strm(o,e,b,u,g,t,c,x)
           k == lookupPfx(u, i, pfx)
           n == Len(Pfxs(u, i))
           w == getBitsNumber(n)
<1>1. s.uriTable = u
  BY Accesses
<1>2. w \in Nat
  <2>1. n \in 0..URI_MAX /\ 0 \in 0..n
    BY Sizes
  <2> HIDE DEF n
  <2>2. QED
    BY <2>1, RangeBits
<1>3. k \in -1..n-1
  BY LookingUpPfxs DEF Pfxs
<1>4. /\ NBits(w, 0) \in Seq(FieldT)
      /\ Literal(pfx) \in Seq(FieldT)
      /\ NBits(w, 0) \o Literal(pfx) \in Seq(FieldT)
  <2> HIDE DEF w
  <2>1. QED
    BY <1>2, FieldTypes, Assoc
<1>5. k >= 0 => NBits(w, k + 1) \in Seq(FieldT)
  <2> HIDE DEF w, k, n
  <2>1. k >= 0 => k + 1 \in Nat
    BY <1>3
  <2>2. QED
    BY <1>2, <2>1, FieldTypes
<1>6. encodePfx(s, i, pfx) = IF k >= 0 THEN Write(s, NBits(w, k + 1))
                             ELSE addPfxEntry(Write(s, NBits(w, 0) \o Literal(pfx)), i, pfx)
  BY <1>1, Zenon DEF encodePfx, Pfxs, At
<1>7. \A f : Write(s, f) = Strm(o,e,b \o f,u,g,t,c,x)
  BY Writing
<1>8. \A b1 : addPfxEntry(Strm(o,e,b1,u,g,t,c,x), i, pfx) = Strm(o,e,b1,PfxAdded(u, i, pfx),g,t,c,x)
  BY AddingPfxs
<1>9. PfxFields(u, i, pfx) = IF k >= 0 THEN NBits(w, k + 1) ELSE NBits(w, 0) \o Literal(pfx)
  BY Zenon DEF PfxFields
<1>10. PfxTab(u, i, pfx) = IF k >= 0 THEN u ELSE PfxAdded(u, i, pfx)
  BY Zenon DEF PfxTab
<1> HIDE DEF s, k, n, w
<1>11. CASE k >= 0
  BY <1>5, <1>6, <1>7, <1>9, <1>10, <1>11, Zenon DEF s
<1>12. CASE ~(k >= 0)
  BY <1>4, <1>6, <1>7, <1>8, <1>9, <1>10, <1>12, Zenon DEF s
<1>13. QED
  BY <1>11, <1>12 DEF s

(* decodePfx reads the fields of the prefix back and adds a new one.        *)
LEMMA DecodingPfxs ==
  ASSUME NEW o, NEW e, NEW rest \in Seq(FieldT), NEW u \in UriTableT, NEW g, NEW t, NEW c, NEW x,
         NEW i \in 0..Len(u)-1, Len(Pfxs(u, i)) \in 0..URI_MAX, NEW pfx \in Text
  PROVE  decodePfx(Strm(o,e,PfxFields(u, i, pfx) \o rest,u,g,t,c,x), i) =
           Result(Strm(o,e,rest,PfxTab(u, i, pfx),g,t,c,x), PfxIdOf(u, i, pfx))
<1> DEFINE s(b) == Strm(o,e,b,u,g,t,c,x)
           k == lookupPfx(u, i, pfx)
           n == Len(Pfxs(u, i))
           w == getBitsNumber(n)
<1>1. \A b : PfxCount(s(b), i) = n
  <2>1. \A b : s(b).uriTable = u
    BY Accesses
  <2>2. QED
    BY <2>1, Zenon DEF PfxCount, Pfxs, At
<1>2. k \in -1..n-1 /\ n \in 0..URI_MAX
  BY LookingUpPfxs DEF Pfxs
<1>3. \A b : decodePfx(s(b), i) = PfxOf(DecodeNBits(s(b), w), i)
  BY <1>1, Zenon DEF decodePfx
<1>4. /\ PfxTab(u, i, pfx) = IF k >= 0 THEN u ELSE PfxAdded(u, i, pfx)
      /\ PfxIdOf(u, i, pfx) = IF k >= 0 THEN k ELSE n
      /\ PfxFields(u, i, pfx) = IF k >= 0 THEN NBits(w, k + 1)
                                ELSE NBits(w, 0) \o Literal(pfx)
  BY Zenon DEF PfxTab, PfxIdOf, PfxFields
<1>5. \A v \in 0..n : w \in Nat /\ (w = 0 => v = 0)
  <2> HIDE DEF n, k
  <2>1. QED
    BY <1>2, RangeBits
<1>6. \A v \in 0..n, r \in Seq(FieldT) :
        DecodeNBits(s(NBits(w, v) \o r), w) = Result(s(r), v)
  <2>1. \A v \in 0..n : v \in Nat
    <3> HIDE DEF n, k
    <3>1. QED
      BY <1>2, Sizes
  <2> HIDE DEF w, n, k
  <2>2. QED
    BY <1>5, <2>1, ReadingBits
<1>7. CASE k >= 0
  <2>1. k + 1 \in 0..n /\ k + 1 # 0 /\ k + 1 \in 1..n /\ (k + 1) - 1 = k
    <3> HIDE DEF n, k
    <3>1. QED
      BY <1>2, <1>7, Sizes
  <2> HIDE DEF k, n, w
  <2>2. decodePfx(s(PfxFields(u, i, pfx) \o rest), i) = PfxOf(Result(s(rest), k + 1), i)
    BY <1>3, <1>4, <1>6, <1>7, <2>1, Zenon
  <2>3. PfxOf(Result(s(rest), k + 1), i) = Result(s(rest), (k + 1) - 1)
    <3>1. PICK y : y = k + 1
      OBVIOUS
    <3>2. PICK z : z = s(rest)
      OBVIOUS
    <3>3. Result(z, y).val = y /\ Result(z, y).s = z
      BY Results
    <3>4. y # 0 /\ y \in 1..PfxCount(z, i)
      BY <1>1, <2>1, <3>1, <3>2, Zenon
    <3> HIDE DEF s
    <3>5. PfxOf(Result(z, y), i) = Result(z, y - 1)
      BY <3>3, <3>4 DEF PfxOf
    <3>6. QED
      BY <3>1, <3>2, <3>5, Zenon
  <2>4. QED
    BY <1>4, <1>7, <2>1, <2>2, <2>3, Zenon DEF s
<1>8. CASE ~(k >= 0)
  <2>0. 0 \in 0..n /\ w \in Nat
    <3>1. 0 \in 0..n
      BY <1>2, Sizes
    <3> HIDE DEF n, k, w
    <3>2. QED
      BY <1>5, <3>1
  <2> HIDE DEF k, n, w
  <2>1. /\ Literal(pfx) \in Seq(FieldT) /\ NBits(w, 0) \in Seq(FieldT)
        /\ Literal(pfx) \o rest \in Seq(FieldT)
    BY <2>0, FieldTypes, Assoc
  <2>2. (NBits(w, 0) \o Literal(pfx)) \o rest = NBits(w, 0) \o (Literal(pfx) \o rest)
    BY <2>1, Assoc
  <2>3. decodePfx(s(PfxFields(u, i, pfx) \o rest), i) =
          PfxOf(Result(s(Literal(pfx) \o rest), 0), i)
    BY <1>3, <1>4, <1>6, <1>8, <2>0, <2>1, <2>2, Zenon
  <2>4. PfxOf(Result(s(Literal(pfx) \o rest), 0), i) =
          NewPfx(DecodeChars(s(Literal(pfx) \o rest)), i)
    <3>1. PICK y : y = s(Literal(pfx) \o rest)
      OBVIOUS
    <3>2. Result(y, 0).val = 0 /\ Result(y, 0).s = y
      BY Results
    <3> HIDE DEF s
    <3>3. PfxOf(Result(y, 0), i) = NewPfx(DecodeChars(y), i)
      BY <3>2 DEF PfxOf
    <3>4. QED
      BY <3>1, <3>3, Zenon
  <2>5. DecodeChars(s(Literal(pfx) \o rest)) = Result(s(rest), pfx)
    BY ReadingStrings
  <2>6. NewPfx(Result(s(rest), pfx), i) = Result(addPfxEntry(s(rest), i, pfx), n)
    <3>1. Result(s(rest), pfx).val = pfx /\ Result(s(rest), pfx).s = s(rest)
      BY Results, Zenon
    <3>2. QED
      BY <1>1, <3>1, Zenon DEF NewPfx
  <2>7. addPfxEntry(s(rest), i, pfx) = Strm(o,e,rest,PfxAdded(u, i, pfx),g,t,c,x)
    BY AddingPfxs
  <2>8. QED
    BY <1>4, <1>8, <2>3, <2>4, <2>5, <2>6, <2>7, Zenon DEF s
<1>9. QED
  BY <1>7, <1>8

(* The prefix of a qualified name: the field, and when there is none.       *)
PfxFields1(o, u, i, pfx) ==
  IF "prefixes" \notin o \/ Len(Pfxs(u, i)) = 0 THEN <<>>
  ELSE NBits(getBitsNumber(Len(Pfxs(u, i)) - 1),
             IF lookupPfx(u, i, pfx) >= 0 THEN lookupPfx(u, i, pfx) ELSE 0)

PfxFits(o, u, i, pfx, wildcard) ==
  \/ "prefixes" \notin o \/ Len(Pfxs(u, i)) = 0
  \/ getBitsNumber(Len(Pfxs(u, i)) - 1) = 0
  \/ lookupPfx(u, i, pfx) >= 0
  \/ wildcard

(* The serializer and the parser agree on the width of a prefix.            *)
LEMMA PfxWidths ==
  ASSUME NEW u \in UriTableT, NEW i \in 0..Len(u)-1, Len(Pfxs(u, i)) \in 1..URI_MAX, NEW pfx
  PROVE  LET w == getBitsNumber(Len(Pfxs(u, i)) - 1)
             v == IF lookupPfx(u, i, pfx) >= 0 THEN lookupPfx(u, i, pfx) ELSE 0
         IN /\ w \in Nat /\ v \in Nat /\ (w = 0 => v = 0)
            /\ v < Len(Pfxs(u, i))
            /\ NBits(w, v) \in Seq(FieldT)
<1> DEFINE k == lookupPfx(u, i, pfx)
           n == Len(Pfxs(u, i))
           w == getBitsNumber(n - 1)
           v == IF k >= 0 THEN k ELSE 0
<1>1. k \in -1..n-1
  BY LookingUpPfxs DEF Pfxs
<1> HIDE DEF k, n
<1>2. v \in 0..n-1 /\ n - 1 \in 0..URI_MAX /\ v \in Nat /\ v < n
  BY <1>1, Sizes DEF n
<1> HIDE DEF v
<1>3. w \in Nat /\ (w = 0 => v = 0)
  BY <1>2, RangeBits
<1> HIDE DEF w
<1>4. NBits(w, v) \in Seq(FieldT)
  BY <1>2, <1>3, FieldTypes
<1>5. QED
  BY <1>2, <1>3, <1>4, Zenon DEF k, n, w, v

(* encodePfxQName writes nothing, one field, or refuses the prefix.         *)
LEMMA EncodingPfxQNames ==
  ASSUME NEW o, NEW e, NEW b \in Seq(FieldT), NEW u \in UriTableT, NEW g, NEW t, NEW c, NEW x,
         NEW i \in 0..Len(u)-1, Len(Pfxs(u, i)) \in 0..URI_MAX, NEW pfx, NEW wildcard \in BOOLEAN
  PROVE  /\ PfxFields1(o, u, i, pfx) \in Seq(FieldT)
         /\ PfxFits(o, u, i, pfx, wildcard) =>
              encodePfxQName(Strm(o,e,b,u,g,t,c,x), i, pfx, wildcard) =
                Strm(o,e,b \o PfxFields1(o, u, i, pfx),u,g,t,c,x)
         /\ ~PfxFits(o, u, i, pfx, wildcard) =>
              encodePfxQName(Strm(o,e,b,u,g,t,c,x), i, pfx, wildcard) =
                Strm(o,IF e = "EXIP_OK" THEN "EXIP_INCONSISTENT_PROC_STATE" ELSE e,b,u,g,t,c,x)
<1> DEFINE s == Strm(o,e,b,u,g,t,c,x)
           k == lookupPfx(u, i, pfx)
           n == Len(Pfxs(u, i))
           w == getBitsNumber(n - 1)
           v == IF k >= 0 THEN k ELSE 0
           f == PfxFields1(o, u, i, pfx)
<1>1. s.uriTable = u /\ s.opts = o
  BY Accesses
<1>2. n # 0 => NBits(w, v) \in Seq(FieldT)
  <2>1. n # 0 => n \in 1..URI_MAX
    BY Sizes
  <2>2. QED
    BY <2>1, PfxWidths
<1>3. encodePfxQName(s, i, pfx, wildcard) =
        IF "prefixes" \notin o \/ n = 0 THEN s
        ELSE IF w = 0 THEN s
        ELSE IF k >= 0 THEN Write(s, NBits(w, k))
        ELSE IF wildcard THEN Write(s, NBits(w, 0))
        ELSE Failed(s, "EXIP_INCONSISTENT_PROC_STATE")
  BY <1>1, Zenon DEF encodePfxQName, Pfxs, At
<1>4. \A fs : Write(s, fs) = Strm(o,e,b \o fs,u,g,t,c,x)
  BY Writing
<1>5. Failed(s, "EXIP_INCONSISTENT_PROC_STATE") =
        Strm(o,IF e = "EXIP_OK" THEN "EXIP_INCONSISTENT_PROC_STATE" ELSE e,b,u,g,t,c,x)
  BY Failing
<1>6. b \o <<>> = b /\ <<>> \in Seq(FieldT)
  OBVIOUS
<1>7. f = IF "prefixes" \notin o \/ n = 0 THEN <<>> ELSE NBits(w, v)
  BY Zenon DEF PfxFields1
<1>8. \A y : NBits(0, y) = <<>>
  BY DEF NBits
<1>9. PfxFits(o, u, i, pfx, wildcard) <=>
        (("prefixes" \notin o \/ n = 0) \/ w = 0 \/ k >= 0 \/ wildcard)
  BY Zenon DEF PfxFits
<1>10. PICK y : y = v
  OBVIOUS
<1>11. (k >= 0 => y = k) /\ (~(k >= 0) => y = 0)
  BY <1>10
<1> HIDE DEF s, k, n, w, f, v
<1>12. f \in Seq(FieldT)
  BY <1>2, <1>6, <1>7, Zenon
<1>13. ASSUME PfxFits(o, u, i, pfx, wildcard)
       PROVE  encodePfxQName(s, i, pfx, wildcard) = Strm(o,e,b \o f,u,g,t,c,x)
  <2>1. CASE "prefixes" \notin o \/ n = 0
    BY <1>3, <1>6, <1>7, <2>1, Zenon DEF s
  <2>2. CASE ~("prefixes" \notin o \/ n = 0) /\ w = 0
    BY <1>3, <1>6, <1>7, <1>8, <2>2, Zenon DEF s
  <2>3. CASE ~("prefixes" \notin o \/ n = 0) /\ w # 0 /\ k >= 0
    BY <1>3, <1>4, <1>7, <1>10, <1>11, <2>3, Zenon
  <2>4. CASE ~("prefixes" \notin o \/ n = 0) /\ w # 0 /\ ~(k >= 0)
    BY <1>3, <1>4, <1>7, <1>9, <1>10, <1>11, <1>13, <2>4, Zenon
  <2>5. QED
    BY <2>1, <2>2, <2>3, <2>4
<1>14. ASSUME ~PfxFits(o, u, i, pfx, wildcard)
       PROVE  encodePfxQName(s, i, pfx, wildcard) = Failed(s, "EXIP_INCONSISTENT_PROC_STATE")
  BY <1>3, <1>9, <1>14, Zenon
<1>15. QED
  BY <1>5, <1>12, <1>13, <1>14, Zenon DEF s, f

(* decodePfxQname skips what encodePfxQName has written.                    *)
LEMMA DecodingPfxQNames ==
  ASSUME NEW o, NEW e, NEW rest \in Seq(FieldT), NEW u \in UriTableT, NEW g, NEW t, NEW c, NEW x,
         NEW i \in 0..Len(u)-1, Len(Pfxs(u, i)) \in 0..URI_MAX, NEW pfx
  PROVE  decodePfxQname(Strm(o,e,PfxFields1(o, u, i, pfx) \o rest,u,g,t,c,x), i) =
           Strm(o,e,rest,u,g,t,c,x)
<1> DEFINE s(b) == Strm(o,e,b,u,g,t,c,x)
           k == lookupPfx(u, i, pfx)
           n == Len(Pfxs(u, i))
           w == getBitsNumber(n - 1)
           v == IF k >= 0 THEN k ELSE 0
           f == PfxFields1(o, u, i, pfx)
<1>1. \A b : PfxCount(s(b), i) = n /\ s(b).opts = o
  <2>1. \A b : s(b).uriTable = u /\ s(b).opts = o
    BY Accesses
  <2>2. QED
    BY <2>1, Zenon DEF PfxCount, Pfxs, At
<1>2. f = IF "prefixes" \notin o \/ n = 0 THEN <<>> ELSE NBits(w, v)
  BY Zenon DEF PfxFields1
<1>3. <<>> \o rest = rest
  OBVIOUS
<1>4. n # 0 => w \in Nat /\ v \in Nat /\ (w = 0 => v = 0) /\ v < n
  <2>1. n # 0 => n \in 1..URI_MAX
    BY Sizes
  <2>2. QED
    BY <2>1, PfxWidths
<1>5. \A b : decodePfxQname(s(b), i) =
               IF "prefixes" \notin o \/ n = 0 THEN s(b)
               ELSE KnownPfx(DecodeNBits(s(b), w), i)
  <2>1. ASSUME NEW y, y.opts = o, PfxCount(y, i) = n
        PROVE  decodePfxQname(y, i) = IF "prefixes" \notin o \/ n = 0 THEN y
                                      ELSE KnownPfx(DecodeNBits(y, w), i)
    <3> HIDE DEF n, k, v, f
    <3>1. QED
      BY <2>1 DEF decodePfxQname
  <2> HIDE DEF s, n, w, k, v, f
  <2>2. QED
    BY <1>1, <2>1, Zenon
<1> HIDE DEF k, n, w, v, f
<1>6. CASE "prefixes" \notin o \/ n = 0
  BY <1>2, <1>3, <1>5, <1>6, Zenon DEF f
<1>7. CASE ~("prefixes" \notin o \/ n = 0)
  <2>1. DecodeNBits(s(NBits(w, v) \o rest), w) = Result(s(rest), v)
    BY <1>4, <1>7, ReadingBits
  <2>2. Result(s(rest), v).s = s(rest) /\ Result(s(rest), v).val = v
    BY Results, Zenon
  <2> HIDE DEF s
  <2>3. KnownPfx(Result(s(rest), v), i) = s(rest)
    BY <1>1, <1>4, <1>7, <2>2, Zenon DEF KnownPfx
  <2>4. decodePfxQname(s(f \o rest), i) = s(rest)
    BY <1>2, <1>5, <1>7, <2>1, <2>3, Zenon
  <2>5. QED
    BY <2>4, Zenon DEF s, f
<1>8. QED
  BY <1>6, <1>7

-----------------------------------------------------------------------------
(* Qualified names.                                                         *)

(* A name is found where it is stored.                                      *)
LEMMA Found ==
  ASSUME NEW u, Names(u)
  PROVE  /\ \A i \in 0..Len(u)-1 : lookupUri(u, u[i + 1].uriStr) = i
         /\ \A i \in 0..Len(u)-1 : \A k \in 0..Len(Lns(u, i))-1 :
              lookupLn(u, i, Lns(u, i)[k + 1].lnStr) = k
         /\ \A i \in 0..Len(u)-1 : \A k \in 0..Len(Pfxs(u, i))-1 :
              lookupPfx(u, i, Pfxs(u, i)[k + 1]) = k
<1>1. u \in UriTableT /\ Len(u) \in Nat
  BY LenProperties DEF Names, UriTableT
<1>2. ASSUME NEW i \in 0..Len(u)-1 PROVE lookupUri(u, u[i + 1].uriStr) = i
  <2>1. PICK k : k = lookupUri(u, u[i + 1].uriStr)
    OBVIOUS
  <2>2. PICK uri : uri = u[i + 1].uriStr
    OBVIOUS
  <2>3. /\ k \in -1..Len(u)-1
        /\ k >= 0 => u[k + 1].uriStr = uri
        /\ k < 0 => \A j \in 1..Len(u) : u[j].uriStr # uri
    BY <1>1, <2>1, <2>2, LookingUpUris
  <2>4. i + 1 \in 1..Len(u)
    BY <1>1, <1>2
  <2>5. k >= 0 /\ k + 1 \in 1..Len(u)
    BY <1>1, <2>2, <2>3, <2>4
  <2>6. k + 1 = i + 1
    BY <2>2, <2>3, <2>4, <2>5 DEF Names, UniqueUris
  <2>7. QED
    BY <1>1, <1>2, <2>1, <2>3, <2>6
<1>3. ASSUME NEW i \in 0..Len(u)-1, NEW p \in 0..Len(Lns(u, i))-1
      PROVE  lookupLn(u, i, Lns(u, i)[p + 1].lnStr) = p
  <2>1. PICK ln : ln = Lns(u, i)[p + 1].lnStr
    OBVIOUS
  <2>2. PICK k : k = lookupLn(u, i, ln)
    OBVIOUS
  <2> DEFINE l == u[i+1].lnTable
  <2>3. i + 1 \in 1..Len(u)
    BY <1>1, <1>3
  <2>4. /\ k \in -1..Len(l)-1
        /\ k >= 0 => l[k + 1].lnStr = ln
        /\ k < 0 => \A j \in 1..Len(l) : l[j].lnStr # ln
    BY <1>1, <2>2, LookingUpLns
  <2>5. Len(l) \in Nat /\ \A q, r \in 1..Len(l) : l[q].lnStr = l[r].lnStr => q = r
    BY <1>1, <2>3, Entries DEF Names, UniqueLns
  <2>6. p \in 0..Len(l)-1 /\ ln = l[p + 1].lnStr
    BY <1>3, <2>1 DEF Lns
  <2> HIDE DEF l
  <2>7. p + 1 \in 1..Len(l)
    BY <2>5, <2>6
  <2>8. k >= 0 /\ k + 1 \in 1..Len(l)
    BY <2>4, <2>5, <2>6, <2>7
  <2>9. k + 1 = p + 1
    BY <2>4, <2>5, <2>6, <2>7, <2>8
  <2>10. QED
    BY <1>3, <2>1, <2>2, <2>4, <2>5, <2>6, <2>9
<1>4. ASSUME NEW i \in 0..Len(u)-1, NEW p \in 0..Len(Pfxs(u, i))-1
      PROVE  lookupPfx(u, i, Pfxs(u, i)[p + 1]) = p
  <2>1. PICK pfx : pfx = Pfxs(u, i)[p + 1]
    OBVIOUS
  <2>2. PICK k : k = lookupPfx(u, i, pfx)
    OBVIOUS
  <2> DEFINE l == u[i+1].pfxTable
  <2>3. i + 1 \in 1..Len(u)
    BY <1>1, <1>4
  <2>4. /\ k \in -1..Len(l)-1
        /\ k >= 0 => l[k + 1] = pfx
        /\ k < 0 => \A j \in 1..Len(l) : l[j] # pfx
    BY <1>1, <2>2, LookingUpPfxs
  <2>5. Len(l) \in Nat /\ \A q, r \in 1..Len(l) : l[q] = l[r] => q = r
    BY <1>1, <2>3, Entries DEF Names, UniquePfxs
  <2>6. p \in 0..Len(l)-1 /\ pfx = l[p + 1]
    BY <1>4, <2>1 DEF Pfxs
  <2> HIDE DEF l
  <2>7. p + 1 \in 1..Len(l)
    BY <2>5, <2>6
  <2>8. k >= 0 /\ k + 1 \in 1..Len(l)
    BY <2>4, <2>5, <2>6, <2>7
  <2>9. k + 1 = p + 1
    BY <2>4, <2>5, <2>6, <2>7, <2>8
  <2>10. QED
    BY <1>4, <2>1, <2>2, <2>4, <2>5, <2>6, <2>9
<1>5. QED
  BY <1>2, <1>3, <1>4

NameT == [uri : Text, ln : Text, pfx : Text]

(* No table is longer than the type of its indexes allows.                  *)
Fits(u) ==
  /\ Len(u) \in 0..URI_MAX
  /\ \A i \in 1..Len(u) : /\ Len(u[i].lnTable) \in 0..URI_MAX
                          /\ Len(u[i].pfxTable) \in 0..URI_MAX

(* encodeQName: the identifiers of the name, the tables behind it and the   *)
(* fields.                                                                  *)
NameIdOf(u, q) ==
  [uriId |-> UriIdOf(u, q.uri),
   lnId |-> LnIdOf(UriTab(u, q.uri), UriIdOf(u, q.uri), q.ln)]

NameTab(u, q) == LnTab(UriTab(u, q.uri), UriIdOf(u, q.uri), q.ln)

NameFields(o, u, q) ==
  (UriFields(u, q.uri) \o LnFields(UriTab(u, q.uri), UriIdOf(u, q.uri), q.ln))
    \o PfxFields1(o, NameTab(u, q), UriIdOf(u, q.uri), q.pfx)

NameFits(o, u, q, wildcard) ==
  PfxFits(o, NameTab(u, q), UriIdOf(u, q.uri), q.pfx, wildcard)

(* The tables with a name stored once more than before.                     *)
LEMMA NamesKnown ==
  ASSUME NEW u, Names(u), NEW q \in NameT
  PROVE  LET v == NameTab(u, q)
             id == NameIdOf(u, q)
         IN /\ Names(v) /\ Grows(u, v)
            /\ \A n : GrammarsIn(u, n) /\ n \in Nat => GrammarsIn(v, n)
            /\ id.uriId \in 0..Len(v)-1
            /\ id.lnId \in 0..Len(Lns(v, id.uriId))-1
            /\ v[id.uriId + 1].uriStr = q.uri
            /\ Lns(v, id.uriId)[id.lnId + 1].lnStr = q.ln
            /\ lookupUri(v, q.uri) = id.uriId
            /\ lookupLn(v, id.uriId, q.ln) = id.lnId
<1> DEFINE v == UriTab(u, q.uri)
           i == UriIdOf(u, q.uri)
           w == LnTab(v, i, q.ln)
           k == LnIdOf(v, i, q.ln)
<1>1. q.uri \in Text /\ q.ln \in Text
  BY DEF NameT
<1>2. /\ Names(v) /\ Grows(u, v)
      /\ i \in 0..Len(v)-1
      /\ v[i + 1].uriStr = q.uri
      /\ \A n : GrammarsIn(u, n) /\ n \in Nat => GrammarsIn(v, n)
  BY <1>1, UriTables
<1> HIDE DEF v, i
<1>3. /\ Names(w) /\ Grows(v, w) /\ Len(w) = Len(v)
      /\ k \in 0..Len(Lns(w, i))-1
      /\ Lns(w, i)[k + 1].lnStr = q.ln
      /\ \A n : GrammarsIn(v, n) /\ n \in Nat => GrammarsIn(w, n)
  BY <1>1, <1>2, LnTables
<1> HIDE DEF w, k
<1>4. u \in UriTableT /\ v \in UriTableT /\ w \in UriTableT
  BY <1>2, <1>3 DEF Names
<1>5. Grows(u, w)
  BY <1>2, <1>3, <1>4, GrowsOn
<1>6. i \in 0..Len(w)-1 /\ w[i + 1].uriStr = q.uri
  <2>1. i + 1 \in 1..Len(v)
    BY <1>2, <1>4, LenProperties DEF UriTableT
  <2>2. QED
    BY <1>2, <1>3, <2>1 DEF Grows
<1>7. lookupUri(w, w[i + 1].uriStr) = i /\ lookupLn(w, i, Lns(w, i)[k + 1].lnStr) = k
  BY <1>3, <1>6, Found
<1>8. lookupUri(w, q.uri) = i /\ lookupLn(w, i, q.ln) = k
  BY <1>3, <1>6, <1>7, Zenon
<1>9. NameTab(u, q) = w
  BY Zenon DEF NameTab, w, v, i
<1>10. NameIdOf(u, q).uriId = i /\ NameIdOf(u, q).lnId = k
  BY DEF NameIdOf, k, v, i
<1>11. \A n : GrammarsIn(u, n) /\ n \in Nat => GrammarsIn(w, n)
  BY <1>2, <1>3
<1>12. QED
  BY <1>3, <1>5, <1>6, <1>8, <1>9, <1>10, <1>11, Zenon

(* The identifiers a name will get, from the tables without it.             *)
LEMMA NamesPredicted ==
  ASSUME NEW u, Names(u), NEW q \in NameT
  PROVE  NameIdOf(u, q) =
           IF lookupUri(u, q.uri) < 0 THEN [uriId |-> Len(u), lnId |-> 0]
           ELSE IF lookupLn(u, lookupUri(u, q.uri), q.ln) >= 0
                THEN [uriId |-> lookupUri(u, q.uri),
                      lnId |-> lookupLn(u, lookupUri(u, q.uri), q.ln)]
                ELSE [uriId |-> lookupUri(u, q.uri),
                      lnId |-> Len(Lns(u, lookupUri(u, q.uri)))]
<1> DEFINE k == lookupUri(u, q.uri)
           v == UriAdded(u, q.uri)
<1>1. q.uri \in Text /\ q.ln \in Text
  BY DEF NameT
<1>2. u \in UriTableT /\ Len(u) \in Nat
  BY LenProperties DEF Names, UriTableT
<1>3. k \in -1..Len(u)-1
  BY <1>2, LookingUpUris
<1>4. CASE k < 0
  <2>1. UriTab(u, q.uri) = v /\ UriIdOf(u, q.uri) = Len(u)
    <3>1. ~(k >= 0)
      BY <1>3, <1>4
    <3>2. QED
      BY <3>1, Zenon DEF UriTab, UriIdOf
  <2>2. v \in UriTableT /\ Len(v) = Len(u) + 1 /\ Len(v[Len(u) + 1].lnTable) = 0
    BY <1>1, <1>2, AddedUri
  <2> HIDE DEF v
  <2>3. Len(u) \in 0..Len(v)-1
    BY <1>2, <2>2
  <2>4. lookupLn(v, Len(u), q.ln) \in -1..0-1
    BY <2>2, <2>3, LookingUpLns
  <2>5. ~(lookupLn(v, Len(u), q.ln) >= 0)
    BY <2>4
  <2>6. LnIdOf(v, Len(u), q.ln) = 0
    BY <2>2, <2>5, Zenon DEF LnIdOf, Lns
  <2> HIDE DEF k
  <2>7. QED
    BY <1>4, <2>1, <2>6, Zenon DEF NameIdOf, k
<1>5. CASE ~(k < 0)
  <2>1. k >= 0
    BY <1>3, <1>5
  <2>2. UriTab(u, q.uri) = u /\ UriIdOf(u, q.uri) = k
    BY <2>1, Zenon DEF UriTab, UriIdOf
  <2>3. LnIdOf(u, k, q.ln) = IF lookupLn(u, k, q.ln) >= 0 THEN lookupLn(u, k, q.ln)
                             ELSE Len(Lns(u, k))
    BY Zenon DEF LnIdOf
  <2>4. NameIdOf(u, q) = [uriId |-> k, lnId |-> LnIdOf(u, k, q.ln)]
    BY <2>2, Zenon DEF NameIdOf
  <2>5. CASE lookupLn(u, k, q.ln) >= 0
    <3> HIDE DEF k
    <3>1. QED
      BY <1>5, <2>3, <2>4, <2>5, Zenon DEF k
  <2>6. CASE ~(lookupLn(u, k, q.ln) >= 0)
    <3> HIDE DEF k
    <3>1. QED
      BY <1>5, <2>3, <2>4, <2>6, Zenon DEF k
  <2>7. QED
    BY <2>5, <2>6
<1>6. QED
  BY <1>4, <1>5

(* The tables along the way fit when the last ones do.                      *)
LEMMA TablesBefore ==
  ASSUME NEW u, Names(u), NEW q \in NameT, Fits(NameTab(u, q))
  PROVE  LET v == UriTab(u, q.uri)
             i == UriIdOf(u, q.uri)
             w == NameTab(u, q)
         IN /\ u \in UriTableT /\ v \in UriTableT /\ w \in UriTableT
            /\ Len(u) \in 1..URI_MAX
            /\ i \in 0..Len(v)-1 /\ i \in 0..Len(w)-1
            /\ Len(Lns(v, i)) \in 0..URI_MAX
            /\ Len(Pfxs(w, i)) \in 0..URI_MAX
<1> DEFINE v == UriTab(u, q.uri)
           i == UriIdOf(u, q.uri)
           w == NameTab(u, q)
<1>1. q.uri \in Text /\ q.ln \in Text
  BY DEF NameT
<1>2. Names(v) /\ Grows(u, v) /\ i \in 0..Len(v)-1
  BY <1>1, UriTables
<1>3. w = LnTab(v, i, q.ln)
  BY Zenon DEF NameTab
<1> HIDE DEF v, i, w
<1>4. Names(w) /\ Grows(v, w) /\ Len(w) = Len(v)
  BY <1>1, <1>2, <1>3, LnTables
<1>5. /\ u \in UriTableT /\ v \in UriTableT /\ w \in UriTableT
      /\ Len(u) \in Nat /\ Len(v) \in Nat /\ Len(w) \in Nat /\ 3 <= Len(u)
  BY <1>2, <1>4, LenProperties DEF Names, UriTableT, XsiInPlace
<1>6. Fits(w)
  BY DEF w
<1>7. Len(w) \in 0..URI_MAX
  BY <1>6 DEF Fits
<1>8. Len(u) <= Len(v)
  BY <1>2 DEF Grows
<1>9. Len(u) \in 1..URI_MAX
  BY <1>4, <1>5, <1>7, <1>8, Sizes
<1>10. i + 1 \in 1..Len(v) /\ i + 1 \in 1..Len(w) /\ i \in 0..Len(w)-1
  BY <1>2, <1>4, <1>5
<1>11. Len(Lns(v, i)) \in 0..URI_MAX
  <2>1. Len(v[i+1].lnTable) <= Len(w[i+1].lnTable)
    BY <1>4, <1>10 DEF Grows
  <2>2. Len(v[i+1].lnTable) \in Nat /\ Len(w[i+1].lnTable) \in Nat
    BY <1>5, <1>10, Entries
  <2>3. Len(w[i+1].lnTable) \in 0..URI_MAX
    BY <1>6, <1>10 DEF Fits
  <2>4. Len(v[i+1].lnTable) \in 0..URI_MAX
    BY <2>1, <2>2, <2>3, Sizes
  <2>5. QED
    BY <2>4 DEF Lns
<1>12. Len(Pfxs(w, i)) \in 0..URI_MAX
  BY <1>6, <1>10 DEF Fits, Pfxs
<1>13. QED
  BY <1>2, <1>5, <1>9, <1>10, <1>11, <1>12 DEF v, i, w

(* encodeQName writes the URI, the local name and the prefix, one behind    *)
(* the other.                                                               *)
LEMMA EncodingNames ==
  ASSUME NEW o, NEW e, NEW b \in Seq(FieldT), NEW u, Names(u), NEW g, NEW t, NEW c, NEW x,
         NEW q \in NameT, Fits(NameTab(u, q)), NEW wildcard \in BOOLEAN
  PROVE  /\ NameFields(o, u, q) \in Seq(FieldT)
         /\ NameFits(o, u, q, wildcard) =>
              encodeQName(Strm(o,e,b,u,g,t,c,x), q, wildcard) =
                Strm(o,e,b \o NameFields(o, u, q),NameTab(u, q),g,t,c,x)
         /\ ~NameFits(o, u, q, wildcard) => \E f \in Seq(FieldT) :
              encodeQName(Strm(o,e,b,u,g,t,c,x), q, wildcard) =
                Strm(o,IF e = "EXIP_OK" THEN "EXIP_INCONSISTENT_PROC_STATE" ELSE e,
                     b \o f,NameTab(u, q),g,t,c,x)
<1> DEFINE s == Strm(o,e,b,u,g,t,c,x)
           v == UriTab(u, q.uri)
           i == UriIdOf(u, q.uri)
           w == NameTab(u, q)
           fu == UriFields(u, q.uri)
           fl == LnFields(v, i, q.ln)
           fp == PfxFields1(o, w, i, q.pfx)
           err == IF e = "EXIP_OK" THEN "EXIP_INCONSISTENT_PROC_STATE" ELSE e
           ok == PfxFits(o, w, i, q.pfx, wildcard)
<1>1. q.uri \in Text /\ q.ln \in Text
  BY DEF NameT
<1>2. /\ u \in UriTableT /\ v \in UriTableT /\ w \in UriTableT
      /\ Len(u) \in 1..URI_MAX
      /\ i \in 0..Len(v)-1 /\ i \in 0..Len(w)-1
      /\ Len(Lns(v, i)) \in 0..URI_MAX
      /\ Len(Pfxs(w, i)) \in 0..URI_MAX
  BY TablesBefore
<1>3. w = LnTab(v, i, q.ln)
  BY Zenon DEF NameTab
<1>4. /\ fu \in Seq(FieldT)
      /\ encodeUri(s, q.uri) = Strm(o,e,b \o fu,v,g,t,c,x)
  <2>1. b \in Seq(FieldT) /\ u \in UriTableT /\ Len(u) \in 1..URI_MAX
    BY <1>2
  <2>2. \A uri \in Text :
          /\ UriFields(u, uri) \in Seq(FieldT)
          /\ encodeUri(Strm(o,e,b,u,g,t,c,x), uri) =
               Strm(o,e,b \o UriFields(u, uri),UriTab(u, uri),g,t,c,x)
    BY <2>1, EncodingUris
  <2>3. QED
    BY <1>1, <2>2, Zenon
<1>5. lookupUri(v, q.uri) = i
  <2>1. Names(v) /\ v[i + 1].uriStr = q.uri
    BY <1>1, UriTables
  <2> HIDE DEF v, i
  <2>2. lookupUri(v, v[i + 1].uriStr) = i
    BY <1>2, <2>1, Found
  <2>3. QED
    BY <2>1, <2>2, Zenon
<1>6. NameFields(o, u, q) = (fu \o fl) \o fp /\ (NameFits(o, u, q, wildcard) <=> ok)
  BY Zenon DEF NameFields, NameFits
<1> HIDE DEF s, v, i, w, fu
<1>7. /\ fl \in Seq(FieldT)
      /\ \A b1 \in Seq(FieldT) :
           encodeLn(Strm(o,e,b1,v,g,t,c,x), i, q.ln) = Strm(o,e,b1 \o fl,w,g,t,c,x)
  <2>1. fl \in Seq(FieldT)
    <3>1. b \in Seq(FieldT)
      OBVIOUS
    <3>2. QED
      BY <1>1, <1>2, <3>1, EncodingLns
  <2>2. ASSUME NEW b1 \in Seq(FieldT)
        PROVE  encodeLn(Strm(o,e,b1,v,g,t,c,x), i, q.ln) = Strm(o,e,b1 \o fl,LnTab(v, i, q.ln),g,t,c,x)
    BY <1>1, <1>2, EncodingLns
  <2> HIDE DEF fl
  <2>3. QED
    BY <1>3, <2>1, <2>2, Zenon
<1> HIDE DEF fl
<1>8. /\ fp \in Seq(FieldT)
      /\ \A b1 \in Seq(FieldT) :
           /\ ok => encodePfxQName(Strm(o,e,b1,w,g,t,c,x), i, q.pfx, wildcard) =
                      Strm(o,e,b1 \o fp,w,g,t,c,x)
           /\ ~ok => encodePfxQName(Strm(o,e,b1,w,g,t,c,x), i, q.pfx, wildcard) =
                       Strm(o,err,b1,w,g,t,c,x)
  <2>1. fp \in Seq(FieldT)
    <3>1. b \in Seq(FieldT)
      OBVIOUS
    <3>2. QED
      BY <1>2, <3>1, EncodingPfxQNames
  <2>2. ASSUME NEW b1 \in Seq(FieldT)
        PROVE  /\ ok => encodePfxQName(Strm(o,e,b1,w,g,t,c,x), i, q.pfx, wildcard) =
                          Strm(o,e,b1 \o fp,w,g,t,c,x)
               /\ ~ok => encodePfxQName(Strm(o,e,b1,w,g,t,c,x), i, q.pfx, wildcard) =
                           Strm(o,err,b1,w,g,t,c,x)
    BY <1>2, EncodingPfxQNames
  <2>3. QED
    BY <2>1, <2>2
<1> HIDE DEF fp, ok, err
<1>9. /\ b \o fu \in Seq(FieldT) /\ fu \o fl \in Seq(FieldT)
      /\ (b \o fu) \o fl \in Seq(FieldT)
      /\ (fu \o fl) \o fp \in Seq(FieldT)
      /\ (b \o fu) \o fl = b \o (fu \o fl)
      /\ ((b \o fu) \o fl) \o fp = b \o ((fu \o fl) \o fp)
  <2>1. /\ b \o fu \in Seq(FieldT) /\ fu \o fl \in Seq(FieldT)
        /\ (b \o fu) \o fl = b \o (fu \o fl)
    BY <1>4, <1>7, Assoc
  <2>2. /\ (b \o fu) \o fl \in Seq(FieldT) /\ (fu \o fl) \o fp \in Seq(FieldT)
    BY <1>4, <1>7, <1>8, <2>1, Assoc
  <2>3. (b \o (fu \o fl)) \o fp = b \o ((fu \o fl) \o fp)
    BY <1>8, <2>1, Assoc
  <2>4. QED
    BY <2>1, <2>2, <2>3, Zenon
<1>10. encodeQName(s, q, wildcard) =
         encodePfxQName(Strm(o,e,(b \o fu) \o fl,w,g,t,c,x), i, q.pfx, wildcard)
  <2>1. Strm(o,e,b \o fu,v,g,t,c,x).uriTable = v
    BY Accesses
  <2>2. encodeQName(s, q, wildcard) =
          EncodeLnPfx(Strm(o,e,b \o fu,v,g,t,c,x), i, q, wildcard)
    BY <1>4, <1>5, <2>1, Zenon DEF encodeQName
  <2>3. QED
    BY <1>7, <1>9, <2>2, Zenon DEF EncodeLnPfx
<1>11. CASE ok
  BY <1>6, <1>8, <1>9, <1>10, <1>11, Zenon DEF s, w
<1>12. CASE ~ok
  BY <1>6, <1>8, <1>9, <1>10, <1>12, Zenon DEF s, w, err
<1>13. QED
  BY <1>11, <1>12

(* Theorem: with equal tables on both sides the parser reads a qualified    *)
(* name of encodeQName as the same identifiers, whatever comes behind it,   *)
(* and its tables are then equal again.                                     *)
THEOREM DecodingNames ==
  ASSUME NEW o, NEW rest \in Seq(FieldT), NEW u, Names(u), NEW g, NEW t, NEW c, NEW x, NEW e,
         NEW q \in NameT, Fits(NameTab(u, q))
  PROVE  decodeQName(Strm(o,e,NameFields(o, u, q) \o rest,u,g,t,c,x)) =
           Result(Strm(o,e,rest,NameTab(u, q),g,t,c,x), NameIdOf(u, q))
<1> DEFINE v == UriTab(u, q.uri)
           i == UriIdOf(u, q.uri)
           w == NameTab(u, q)
           k == LnIdOf(v, i, q.ln)
           fu == UriFields(u, q.uri)
           fl == LnFields(v, i, q.ln)
           fp == PfxFields1(o, w, i, q.pfx)
<1>1. q.uri \in Text /\ q.ln \in Text
  BY DEF NameT
<1>2. /\ u \in UriTableT /\ v \in UriTableT /\ w \in UriTableT
      /\ Len(u) \in 1..URI_MAX
      /\ i \in 0..Len(v)-1 /\ i \in 0..Len(w)-1
      /\ Len(Lns(v, i)) \in 0..URI_MAX
      /\ Len(Pfxs(w, i)) \in 0..URI_MAX
  BY TablesBefore
<1>3. w = LnTab(v, i, q.ln)
  BY Zenon DEF NameTab
<1>4. NameFields(o, u, q) = (fu \o fl) \o fp
  BY Zenon DEF NameFields
<1>5. NameIdOf(u, q) = [uriId |-> i, lnId |-> k]
  BY Zenon DEF NameIdOf
<1>6. ASSUME NEW r \in Seq(FieldT)
      PROVE  decodeUri(Strm(o,e,fu \o r,u,g,t,c,x)) = Result(Strm(o,e,r,v,g,t,c,x), i)
  BY <1>1, <1>2, DecodingUris
<1>7. fu \in Seq(FieldT)
  BY <1>1, <1>2, EncodingUris
<1> HIDE DEF v, i, w, fu
<1>8. ASSUME NEW r \in Seq(FieldT)
      PROVE  decodeLn(Strm(o,e,fl \o r,v,g,t,c,x), i) = Result(Strm(o,e,r,w,g,t,c,x), k)
  <2>1. decodeLn(Strm(o,e,fl \o r,v,g,t,c,x), i) =
          Result(Strm(o,e,r,LnTab(v, i, q.ln),g,t,c,x), k)
    BY <1>1, <1>2, DecodingLns
  <2> HIDE DEF fl, k
  <2>2. QED
    BY <1>3, <2>1, Zenon
<1>9. fl \in Seq(FieldT)
  BY <1>1, <1>2, EncodingLns
<1> HIDE DEF k, fl
<1>10. decodePfxQname(Strm(o,e,fp \o rest,w,g,t,c,x), i) = Strm(o,e,rest,w,g,t,c,x)
  BY <1>2, DecodingPfxQNames
<1>11. fp \in Seq(FieldT)
  <2>1. TRUE \in BOOLEAN
    OBVIOUS
  <2>2. QED
    BY <1>2, <2>1, EncodingPfxQNames
<1> HIDE DEF fp
<1>12. /\ ((fu \o fl) \o fp) \o rest = fu \o (fl \o (fp \o rest))
       /\ fl \o (fp \o rest) \in Seq(FieldT)
       /\ fp \o rest \in Seq(FieldT)
  <2>1. fu \o fl \in Seq(FieldT) /\ fp \o rest \in Seq(FieldT)
    BY <1>7, <1>9, <1>11, Assoc
  <2>2. ((fu \o fl) \o fp) \o rest = (fu \o fl) \o (fp \o rest)
    BY <1>11, <2>1, Assoc
  <2>3. (fu \o fl) \o (fp \o rest) = fu \o (fl \o (fp \o rest))
    <3> DEFINE y == fp \o rest
    <3>1. y \in Seq(FieldT)
      BY <2>1
    <3> HIDE DEF y
    <3>2. Associates(fu, fl, y)
      BY <1>7, <1>9, <3>1, FieldsAssociate
    <3>3. QED
      BY <3>2 DEF Associates, y
  <2>4. fl \o (fp \o rest) \in Seq(FieldT)
    BY <1>9, <2>1, Assoc
  <2>5. QED
    BY <2>1, <2>2, <2>3, <2>4, Zenon
<1> DEFINE s0 == Strm(o,e,fl \o (fp \o rest),v,g,t,c,x)
           s1 == Strm(o,e,fp \o rest,w,g,t,c,x)
           s2 == Strm(o,e,rest,w,g,t,c,x)
<1>13. decodeUri(Strm(o,e,NameFields(o, u, q) \o rest,u,g,t,c,x)) = Result(s0, i)
  BY <1>4, <1>6, <1>12, Zenon
<1>14. decodeLn(s0, i) = Result(s1, k)
  BY <1>8, <1>12, Zenon
<1> HIDE DEF s0, s1, s2
<1>15. \A s, y : Result(s, y).s = s /\ Result(s, y).val = y
  BY Results
<1>16. LnOf(Result(s0, i)) = QNameOf(Result(s0, i), Result(s1, k))
  BY <1>14, <1>15, Zenon DEF LnOf
<1>17. decodePfxQname(s1, i) = s2
  BY <1>10, Zenon DEF s1, s2
<1>18. QNameOf(Result(s0, i), Result(s1, k)) = Result(s2, [uriId |-> i, lnId |-> k])
  BY <1>15, <1>17, Zenon DEF QNameOf
<1>19. QED
  BY <1>5, <1>13, <1>16, <1>18, Zenon DEF decodeQName, s2, w

-----------------------------------------------------------------------------
(* Event codes.                                                             *)

(* The rule that is current, from the grammars and the stack.               *)
RuleOf(g, t) ==
  At(IF Head(t).grammar # DOC THEN g[Head(t).grammar] ELSE DocGrammar,
     Head(t).currNonTermID)

MatchesIn(u, class, q, prod) ==
  /\ EventClass[prod.event] = class
  /\ class \in {"SE", "AT"} =>
       \/ prod.qnameId = VoidQName
       \/ /\ At(u, prod.qnameId.uriId).uriStr = q.uri
          /\ At(At(u, prod.qnameId.uriId).lnTable, prod.qnameId.lnId).lnStr = q.ln

(* The parts of a learned rule.                                             *)
LEMMA Rules ==
  ASSUME NEW o, NEW e, NEW b, NEW u, NEW g, NEW t, NEW c, NEW x
  PROVE  /\ CurrentRule(Strm(o,e,b,u,g,t,c,x)) = RuleOf(g, t)
         /\ Top(Strm(o,e,b,u,g,t,c,x)) = Head(t)
         /\ BuiltIn(Strm(o,e,b,u,g,t,c,x)) <=> Head(t).grammar # DOC
         /\ \A class, q, prod : Matches(Strm(o,e,b,u,g,t,c,x), class, q, prod) <=>
                                  MatchesIn(u, class, q, prod)
<1> DEFINE s == Strm(o,e,b,u,g,t,c,x)
<1>1. s.gStack = t /\ s.grammarTable = g /\ s.uriTable = u
  BY Accesses
<1> HIDE DEF s
<1>2. Top(s) = Head(t) /\ (BuiltIn(s) <=> Head(t).grammar # DOC)
  BY <1>1, Zenon DEF Top, BuiltIn
<1>3. CurrentRule(s) = RuleOf(g, t)
  BY <1>1, <1>2, Zenon DEF CurrentRule, RuleOf
<1>4. ASSUME NEW class, NEW q, NEW prod
      PROVE  Matches(s, class, q, prod) <=> MatchesIn(u, class, q, prod)
  BY <1>1, Zenon DEF Matches, MatchesIn, UriStr, Ln
<1>5. QED
  BY <1>2, <1>3, <1>4, Zenon DEF s

(* FirstLevelCode finds a production that matches when there is one.        *)
LEMMA FirstLevelCodes ==
  ASSUME NEW o, NEW e, NEW b, NEW u, NEW g, NEW t, NEW c, NEW x, NEW class, NEW q,
         RuleOf(g, t).production \in Seq(ProdT)
  PROVE  LET P == RuleOf(g, t).production
             code == FirstLevelCode(Strm(o,e,b,u,g,t,c,x), class, q)
         IN /\ code \in -1..Len(P)-1
            /\ code >= 0 => /\ Len(P) - code \in 1..Len(P)
                            /\ P[Len(P) - code] \in ProdT
                            /\ MatchesIn(u, class, q, P[Len(P) - code])
            /\ code < 0 => /\ code = -1
                           /\ \A i \in 1..Len(P) : ~MatchesIn(u, class, q, P[i])
<1> DEFINE s == Strm(o,e,b,u,g,t,c,x)
           P == RuleOf(g, t).production
           R == Reverse(P)
           I == {i \in 1..Len(R) : MatchesIn(u, class, q, R[i])}
           code == FirstLevelCode(s, class, q)
<1>1. CurrentRule(s) = RuleOf(g, t)
  BY Rules
<1>2. \A prod : Matches(s, class, q, prod) <=> MatchesIn(u, class, q, prod)
  BY Rules
<1> HIDE DEF s, P
<1>3. P \in Seq(ProdT) /\ Len(P) \in Nat
  BY LenProperties DEF P
<1>4. Len(R) = Len(P) /\ \A i \in 1..Len(P) : R[i] = P[Len(P) - i + 1]
  BY <1>3 DEF Reverse
<1>5. code = (IF I # {} THEN Min(I) ELSE 0) - 1
  <2> DEFINE J == {i \in 1..Len(R) : Matches(s, class, q, R[i])}
  <2>1. code = (IF J # {} THEN Min(J) ELSE 0) - 1
    BY <1>1 DEF FirstLevelCode, SelectInSeq, P
  <2>2. I = J
    BY <1>2
  <2>3. QED
    BY <2>1, <2>2, Zenon
<1>6. I \in SUBSET (1..Len(P))
  BY <1>4
<1>7. \A i \in I : MatchesIn(u, class, q, P[Len(P) - i + 1])
  BY <1>4
<1>8. I = {} => \A i \in 1..Len(P) : ~MatchesIn(u, class, q, P[i])
  <2>1. ASSUME I = {}, NEW i \in 1..Len(P), MatchesIn(u, class, q, P[i])
        PROVE  FALSE
    <3>1. PICK j : j = Len(P) - i + 1
      OBVIOUS
    <3>2. j \in 1..Len(P) /\ Len(P) - j + 1 = i
      BY <1>3, <3>1
    <3>3. R[j] = P[i]
      BY <1>4, <3>2
    <3>4. j \in I
      BY <1>4, <2>1, <3>2, <3>3, Zenon
    <3>5. QED
      BY <2>1, <3>4
  <2>2. QED
    BY <2>1
<1> HIDE DEF I, R
<1>9. LET r == (IF I # {} THEN Min(I) ELSE 0) - 1
      IN /\ r \in -1..Len(P)-1
         /\ r >= 0 => r + 1 \in I
         /\ r < 0 => r = -1 /\ I = {}
  BY <1>3, <1>6, FirstOf
<1>10. PICK k : k = code
  OBVIOUS
<1>11. k \in -1..Len(P)-1 /\ (k >= 0 => k + 1 \in I) /\ (k < 0 => k = -1 /\ I = {})
  BY <1>5, <1>9, <1>10, Zenon
<1>12. k >= 0 => /\ Len(P) - k \in 1..Len(P)
                 /\ P[Len(P) - k] \in ProdT
                 /\ MatchesIn(u, class, q, P[Len(P) - k])
  <2>1. ASSUME k >= 0
        PROVE  /\ Len(P) - k \in 1..Len(P)
               /\ P[Len(P) - k] \in ProdT
               /\ MatchesIn(u, class, q, P[Len(P) - k])
    <3>1. Len(P) - k \in 1..Len(P) /\ Len(P) - (k + 1) + 1 = Len(P) - k
      BY <1>3, <1>11, <2>1
    <3>2. MatchesIn(u, class, q, P[Len(P) - (k + 1) + 1])
      BY <1>7, <1>11, <2>1
    <3>3. P[Len(P) - k] \in ProdT
      BY <1>3, <3>1
    <3>4. QED
      BY <3>1, <3>2, <3>3, Zenon
  <2>2. QED
    BY <2>1
<1>13. QED
  BY <1>8, <1>10, <1>11, <1>12, Zenon DEF s, P

(* The width of a first-level code, which holds every production and, where *)
(* there is a second level, one code more.                                  *)
MoreCodes(o, t) ==
  IF Head(t).grammar # DOC THEN 1
  ELSE IF (IF o \intersect {"comments", "pis"} # {} THEN 1 ELSE 0) = 1 THEN 1
  ELSE IF Head(t).currNonTermID = GR_DOC_CONTENT THEN (IF "dtd" \in o THEN 1 ELSE 0)
  ELSE 0

FirstLevelWidth(o, g, t) ==
  getBitsNumber(Len(RuleOf(g, t).production) - 1 + MoreCodes(o, t))

(* getBitsFirstPartCode depends on nothing else.                            *)
LEMMA FirstLevelWidths ==
  ASSUME NEW o, NEW e, NEW b, NEW u, NEW g, NEW t, NEW c, NEW x
  PROVE  getBitsFirstPartCode(Strm(o,e,b,u,g,t,c,x)) = FirstLevelWidth(o, g, t)
<1>1. ASSUME NEW s, CurrentRule(s) = RuleOf(g, t), Top(s) = Head(t),
             BuiltIn(s) <=> Head(t).grammar # DOC, s.opts = o
      PROVE  getBitsFirstPartCode(s) = FirstLevelWidth(o, g, t)
  BY <1>1, Zenon DEF getBitsFirstPartCode, CommentsOrPIs, Preserved, FirstLevelWidth, MoreCodes
<1>2. /\ CurrentRule(Strm(o,e,b,u,g,t,c,x)) = RuleOf(g, t)
      /\ Top(Strm(o,e,b,u,g,t,c,x)) = Head(t)
      /\ BuiltIn(Strm(o,e,b,u,g,t,c,x)) <=> Head(t).grammar # DOC
      /\ Strm(o,e,b,u,g,t,c,x).opts = o
  BY Rules, Accesses
<1>3. QED
  BY <1>1, <1>2, Zenon

(* Every code fits, and where there is a second level the one that leads to *)
(* it as well.                                                              *)
LEMMA FirstLevelFits ==
  ASSUME NEW o, NEW g, NEW t, NEW code \in Nat,
         Len(RuleOf(g, t).production) \in 0..URI_MAX - 1,
         \/ code < Len(RuleOf(g, t).production)
         \/ code = Len(RuleOf(g, t).production) /\ Head(t).grammar # DOC
  PROVE  FirstLevelWidth(o, g, t) \in Nat /\ (FirstLevelWidth(o, g, t) = 0 => code = 0)
<1> DEFINE n == Len(RuleOf(g, t).production)
           more == MoreCodes(o, t)
<1>1. more \in 0..1 /\ (Head(t).grammar # DOC => more = 1)
  BY DEF GR_DOC_CONTENT, MoreCodes
<1>2. n \in 0..URI_MAX - 1 /\ (code < n \/ (code = n /\ more = 1))
  BY <1>1
<1> HIDE DEF n, more
<1>3. n - 1 + more \in 0..URI_MAX /\ code \in 0..n - 1 + more
  BY <1>1, <1>2, Sizes
<1>4. PICK m : m = n - 1 + more
  OBVIOUS
<1>5. getBitsNumber(m) \in Nat /\ (getBitsNumber(m) = 0 => code = 0)
  BY <1>3, <1>4, RangeBits
<1>6. QED
  BY <1>4, <1>5, Zenon DEF FirstLevelWidth, n, more

(* The number of states before each one, counted one by one.                *)
LEMMA Counting ==
  ASSUME NEW m, NEW bit, \A i \in 1..8 : bit[i] = IF m[i] THEN 1 ELSE 0
  PROVE  LET A == {i \in 1..8 : m[i]}
             C(k) == Cardinality({i \in A : i < k})
         IN /\ C(1) = 0
            /\ \A k \in 1..8 : C(k) \in Nat /\ C(k + 1) = C(k) + bit[k]
            /\ Cardinality(A) = C(9)
<1> DEFINE A == {i \in 1..8 : m[i]}
           B(k) == {i \in A : i < k}
<1>1. \A k : IsFiniteSet(B(k))
  <2>1. ASSUME NEW k PROVE IsFiniteSet(B(k))
    <3>1. IsFiniteSet(1..8)
      <4>1. 1 \in Int /\ 8 \in Int
        OBVIOUS
      <4>2. QED
        BY <4>1, FS_Interval, Zenon
    <3>2. B(k) \in SUBSET (1..8)
      OBVIOUS
    <3>3. QED
      BY <3>1, <3>2, FS_Subset
  <2>2. QED
    BY <2>1
<1>2. B(1) = {}
  BY SMT
<1>3. \A k \in 1..8 : B(k + 1) = IF m[k] THEN B(k) \cup {k} ELSE B(k)
  BY SMT
<1>4. \A k \in 1..8 : k \notin B(k)
  BY SMT
<1>5. B(9) = A
  BY SMT
<1>6. Cardinality(B(1)) = 0
  BY <1>2, FS_EmptySet
<1> HIDE DEF B
<1>7. ASSUME NEW k \in 1..8
      PROVE  Cardinality(B(k)) \in Nat /\ Cardinality(B(k + 1)) = Cardinality(B(k)) + bit[k]
  <2>1. Cardinality(B(k)) \in Nat
    BY <1>1, FS_CardinalityType
  <2>2. CASE m[k]
    <3>1. B(k + 1) = B(k) \cup {k} /\ bit[k] = 1
      BY <1>3, <2>2
    <3>2. Cardinality(B(k) \cup {k}) = Cardinality(B(k)) + 1
      BY <1>1, <1>4, FS_AddElement
    <3>3. QED
      BY <2>1, <3>1, <3>2
  <2>3. CASE ~m[k]
    <3>1. B(k + 1) = B(k) /\ bit[k] = 0
      BY <1>3, <2>3
    <3>2. QED
      BY <2>1, <3>1
  <2>4. QED
    BY <2>1, <2>2, <2>3
<1>8. QED
  BY <1>5, <1>6, <1>7, Zenon DEF B

(* The classes of events that have a second-level code in a rule.           *)
SecondLevelClass(o, t, class) ==
  /\ class \in {"EE", "AT", "NS", "SE", "CH"}
  /\ class \in {"EE", "AT", "NS"} => Head(t).currNonTermID = GR_START_TAG_CONTENT
  /\ class = "NS" => "prefixes" \in o

(* Theorem: the encoder counts the optional events in front of an event,    *)
(* the decoder the states that its mask makes available; both find the same *)
(* width, and the code of an event leads back to its state.                 *)
THEOREM SecondLevelCodes ==
  ASSUME NEW o, NEW t, NEW class, SecondLevelClass(o, t, class),
         NEW e, NEW b, NEW u, NEW g, NEW c, NEW x
  PROVE  LET s == Strm(o,e,b,u,g,t,c,x)
             w == SecondLevelBits(s)
             p == SecondLevelPart(s, class)
         IN /\ w \in Nat /\ p \in Nat /\ (w = 0 => p = 0)
            /\ w = getBitsNumber(Cardinality(Available(s)) - 1)
            /\ StateOf(s, p) = class
<1> DEFINE s == Strm(o,e,b,u,g,t,c,x)
           start == Head(t).currNonTermID = GR_START_TAG_CONTENT
           m == StateMask(s)
           bit == [i \in 1..8 |-> IF m[i] THEN 1 ELSE 0]
           A == {i \in 1..8 : m[i]}
           C(k) == Cardinality({i \in A : i < k})
           st == IF start THEN 1 ELSE 0
           pf == IF "prefixes" \in o THEN 1 ELSE 0
           sc == IF "selfContained" \in o THEN 1 ELSE 0
           dt == IF "dtd" \in o THEN 1 ELSE 0
           cp == IF o \intersect {"comments", "pis"} # {} THEN 1 ELSE 0
           p == SecondLevelPart(s, class)
           at == {i \in A : C(i) = p}
<1>1. Top(s) = Head(t) /\ s.opts = o
  BY Rules, Accesses
<1>2. /\ Preserved(s, "prefixes") = pf /\ Preserved(s, "selfContained") = sc
      /\ Preserved(s, "dtd") = dt /\ CommentsOrPIs(s) = cp
  BY <1>1, Zenon DEF Preserved, CommentsOrPIs
<1>3. m = << start, start, start /\ "prefixes" \in o, start /\ "selfContained" \in o,
             TRUE, TRUE, "dtd" \in o, cp = 1 >>
  <2> HIDE DEF s, cp
  <2>1. QED
    BY <1>1, <1>2, Zenon DEF StateMask
<1>4. /\ (m[1] <=> start) /\ (m[2] <=> start)
      /\ (m[3] <=> (start /\ pf = 1)) /\ (m[4] <=> (start /\ sc = 1))
      /\ m[5] /\ m[6]
      /\ (m[7] <=> dt = 1) /\ (m[8] <=> cp = 1)
  <2>1. PICK b1 \in BOOLEAN, b3 \in BOOLEAN, b4 \in BOOLEAN, b7 \in BOOLEAN, b8 \in BOOLEAN :
          /\ b1 = start /\ b3 = (start /\ "prefixes" \in o)
          /\ b4 = (start /\ "selfContained" \in o)
          /\ b7 = ("dtd" \in o) /\ b8 = (cp = 1)
    <3> HIDE DEF cp
    <3>1. /\ start \in BOOLEAN
          /\ (start /\ "prefixes" \in o) \in BOOLEAN
          /\ (start /\ "selfContained" \in o) \in BOOLEAN
          /\ ("dtd" \in o) \in BOOLEAN /\ (cp = 1) \in BOOLEAN
      OBVIOUS
    <3>2. \A p1, p2, p3, p4, p5 \in BOOLEAN :
            \E b1, b3, b4, b7, b8 \in BOOLEAN :
              b1 = p1 /\ b3 = p2 /\ b4 = p3 /\ b7 = p4 /\ b8 = p5
      BY Zenon
    <3>3. QED
      BY <3>1, <3>2, Zenon
  <2>2. m = <<b1, b1, b3, b4, TRUE, TRUE, b7, b8>>
    <3> HIDE DEF m, cp
    <3>1. QED
      BY <1>3, <2>1, Zenon
  <2> HIDE DEF m
  <2>3. /\ m[1] = b1 /\ m[2] = b1 /\ m[3] = b3 /\ m[4] = b4
        /\ m[5] = TRUE /\ m[6] = TRUE /\ m[7] = b7 /\ m[8] = b8
    BY <2>2
  <2>4. ("prefixes" \in o <=> pf = 1) /\ ("selfContained" \in o <=> sc = 1)
        /\ ("dtd" \in o <=> dt = 1)
    BY DEF pf, sc, dt
  <2> HIDE DEF cp, pf, sc, dt
  <2>5. QED
    BY <2>1, <2>3, <2>4
<1> HIDE DEF m
<1>5. /\ C(1) = 0
      /\ \A k \in 1..8 : C(k) \in Nat /\ C(k + 1) = C(k) + bit[k]
      /\ Cardinality(A) = C(9)
  <2>1. \A i \in 1..8 : bit[i] = IF m[i] THEN 1 ELSE 0
    OBVIOUS
  <2> HIDE DEF bit
  <2>2. QED
    BY <2>1, Counting, Zenon
<1>6. /\ pf \in 0..1 /\ sc \in 0..1 /\ dt \in 0..1 /\ cp \in 0..1
      /\ st = IF start THEN 1 ELSE 0
  OBVIOUS
<1> HIDE DEF C, pf, sc, dt, cp
<1>7. /\ bit[1] = st /\ bit[2] = st
      /\ bit[3] = (IF start THEN pf ELSE 0) /\ bit[4] = (IF start THEN sc ELSE 0)
      /\ bit[5] = 1 /\ bit[6] = 1 /\ bit[7] = dt /\ bit[8] = cp
  BY <1>4, <1>6
<1> HIDE DEF bit
<1>8. \A i \in 1..8 : i \in A <=> bit[i] = 1
  BY <1>4, <1>6, <1>7
<1>9. /\ C(2) = bit[1] /\ C(3) = C(2) + bit[2] /\ C(4) = C(3) + bit[3]
      /\ C(5) = C(4) + bit[4] /\ C(6) = C(5) + bit[5] /\ C(7) = C(6) + bit[6]
      /\ C(8) = C(7) + bit[7] /\ C(9) = C(8) + bit[8]
      /\ \A i \in 1..8 : bit[i] \in 0..1
  <2>1. \A i \in 1..8 : C(i + 1) = C(i) + bit[i]
    BY <1>5
  <2>2. /\ 1 \in 1..8 /\ 2 \in 1..8 /\ 3 \in 1..8 /\ 4 \in 1..8
        /\ 5 \in 1..8 /\ 6 \in 1..8 /\ 7 \in 1..8 /\ 8 \in 1..8
    OBVIOUS
  <2>3. /\ C(2) = C(1) + bit[1] /\ C(3) = C(2) + bit[2] /\ C(4) = C(3) + bit[3]
        /\ C(5) = C(4) + bit[4] /\ C(6) = C(5) + bit[5] /\ C(7) = C(6) + bit[6]
        /\ C(8) = C(7) + bit[7] /\ C(9) = C(8) + bit[8]
    <3> HIDE DEF A, st
    <3>1. QED
      BY <2>1, <2>2
  <2>4. \A i \in 1..8 : bit[i] \in 0..1
    BY <1>6, <1>7
  <2>5. C(2) = bit[1]
    BY <1>5, <2>3, <2>4
  <2>6. QED
    BY <2>3, <2>4, <2>5
<1>10. \A i, j \in 1..8 : i < j /\ i \in A => C(i) < C(j)
  <2> HIDE DEF A
  <2>1. \A i \in 1..8 : C(i) \in Nat
    BY <1>5
  <2>2. C(1) <= C(2) /\ C(2) <= C(3) /\ C(3) <= C(4) /\ C(4) <= C(5)
        /\ C(5) <= C(6) /\ C(6) <= C(7) /\ C(7) <= C(8)
    BY <1>5, <1>9, <2>1
  <2>3. \A i, j \in 1..8 : i < j => C(i + 1) <= C(j)
    BY <2>1, <2>2
  <2>4. \A i \in 1..8 : i \in A => C(i + 1) = C(i) + 1
    BY <1>5, <1>8
  <2>5. QED
    BY <1>5, <2>1, <2>3, <2>4
<1>11. p = IF start THEN [EE |-> 0, AT |-> 1, NS |-> 2, SE |-> 2 + (pf + sc),
                          CH |-> 3 + (pf + sc)][class]
                    ELSE [SE |-> 0, CH |-> 1][class]
  <2> HIDE DEF s
  <2>1. QED
    BY <1>1, <1>2, Zenon DEF SecondLevelPart
<1> HIDE DEF p
<1>12. \E i \in A : StateNames[i] = class /\ C(i) = p
  <2>1. /\ start => C(1) = 0 /\ C(2) = 1 /\ C(3) = 2 /\ C(5) = 2 + (pf + sc) /\ C(6) = 3 + (pf + sc)
        /\ ~start => C(5) = 0 /\ C(6) = 1
    BY <1>5, <1>6, <1>7, <1>9
  <2>2. /\ 5 \in A /\ 6 \in A
        /\ start => 1 \in A /\ 2 \in A
    BY <1>4
  <2>3. class = "NS" => 3 \in A
    BY <1>4, <1>6 DEF SecondLevelClass, pf
  <2>4. /\ StateNames[1] = "EE" /\ StateNames[2] = "AT" /\ StateNames[3] = "NS"
        /\ StateNames[5] = "SE" /\ StateNames[6] = "CH"
    BY DEF StateNames
  <2> HIDE DEF A
  <2>5. CASE class = "EE"
    BY <1>11, <2>1, <2>2, <2>4, <2>5 DEF SecondLevelClass
  <2>6. CASE class = "AT"
    BY <1>11, <2>1, <2>2, <2>4, <2>6 DEF SecondLevelClass
  <2>7. CASE class = "NS"
    BY <1>11, <2>1, <2>3, <2>4, <2>7 DEF SecondLevelClass
  <2>8. CASE class = "SE"
    BY <1>11, <2>1, <2>2, <2>4, <2>8 DEF SecondLevelClass
  <2>9. CASE class = "CH"
    BY <1>11, <2>1, <2>2, <2>4, <2>9 DEF SecondLevelClass
  <2>10. QED
    BY <2>5, <2>6, <2>7, <2>8, <2>9 DEF SecondLevelClass
<1>13. PICK i0 \in A : StateNames[i0] = class /\ C(i0) = p
  BY <1>12
<1>14. at = {i0}
  <2>1. \A i \in A : C(i) = p => i = i0
    <3>1. \A i \in A : i \in 1..8
      OBVIOUS
    <3>2. \A i \in 1..8 : C(i) \in Nat
      BY <1>5
    <3> HIDE DEF A
    <3>3. QED
      BY <1>10, <1>13, <3>1, <3>2
  <2> HIDE DEF A
  <2>2. QED
    BY <1>13, <2>1
<1>15. StateOf(s, p) = class
  <2> DEFINE av == Available(s)
             a2 == {i \in av : Cardinality({k \in av : k < i}) = p}
  <2>1. av = A
    BY Zenon DEF Available, m
  <2>2. a2 = at
    BY <2>1, Zenon DEF C
  <2>3. StateOf(s, p) = IF a2 = {} THEN "none" ELSE StateNames[CHOOSE i \in a2 : TRUE]
    BY Zenon DEF StateOf
  <2> HIDE DEF at, a2, A, av
  <2>4. (CHOOSE i \in {i0} : TRUE) = i0 /\ {i0} # {}
    OBVIOUS
  <2>5. QED
    BY <1>13, <1>14, <2>2, <2>3, <2>4, Zenon
<1>16. /\ SecondLevelBits(s) = getBitsNumber(C(9) - 1)
       /\ C(9) - 1 \in 0..URI_MAX /\ p \in 0..C(9)-1 /\ p \in Nat
  <2>1. SecondLevelBits(s) = getBitsNumber(dt + cp + IF start THEN 3 + pf + sc ELSE 1)
    <3> HIDE DEF s
    <3>1. QED
      BY <1>1, <1>2, Zenon DEF SecondLevelBits
  <2>2. C(9) - 1 = dt + cp + IF start THEN 3 + pf + sc ELSE 1
    BY <1>5, <1>6, <1>7, <1>9
  <2>3. C(9) - 1 \in 0..8 /\ C(9) \in Nat
    <3>1. C(8) \in Nat /\ bit[8] \in 0..1
      BY <1>5, <1>9
    <3>2. C(9) \in Nat
      BY <1>9, <3>1
    <3>3. QED
      BY <1>6, <2>2, <3>2
  <2>4. i0 \in 1..8 /\ C(i0) \in Nat /\ C(i0 + 1) = C(i0) + 1
    BY <1>5, <1>8, <1>13
  <2>5. C(i0 + 1) <= C(9)
    <3>1. C(1) <= C(2) /\ C(2) <= C(3) /\ C(3) <= C(4) /\ C(4) <= C(5)
          /\ C(5) <= C(6) /\ C(6) <= C(7) /\ C(7) <= C(8) /\ C(8) <= C(9)
      BY <1>5, <1>9
    <3>2. \A i \in 1..8 : C(i) \in Nat
      BY <1>5
    <3> HIDE DEF A
    <3>3. \A i \in 1..8 : C(i + 1) <= C(9)
      BY <2>3, <3>1, <3>2
    <3>4. QED
      BY <2>4, <3>3
  <2>6. p \in 0..C(9)-1 /\ p \in Nat
    BY <1>13, <2>3, <2>4, <2>5
  <2>7. C(9) - 1 \in 0..URI_MAX
    <3>1. 8 < URI_MAX
      BY SMT DEF URI_MAX
    <3>2. QED
      BY <2>3, <3>1, Sizes
  <2>8. QED
    BY <2>1, <2>2, <2>6, <2>7, Zenon
<1>17. Cardinality(Available(s)) = C(9)
  BY <1>5, Zenon DEF Available, m
<1>18. PICK n : n = C(9) - 1
  OBVIOUS
<1>19. getBitsNumber(n) \in Nat /\ (getBitsNumber(n) = 0 => p = 0)
  BY <1>16, <1>18, RangeBits
<1>20. QED
  BY <1>15, <1>16, <1>17, <1>18, <1>19, Zenon DEF s, p

-----------------------------------------------------------------------------
(* Learned grammars.                                                        *)

KnownId(u, id) == /\ id \in QNameId
                  /\ id.uriId \in 0..Len(u)-1
                  /\ id.lnId \in 0..Len(Lns(u, id.uriId))-1

(* The productions that rule n of a built-in element grammar may hold.      *)
LearnedProd(u, n, p) ==
  \/ p.event = "EE" /\ p.nonTerm = GR_VOID_NON_TERMINAL
  \/ /\ p.event = "AT_QNAME" /\ p.nonTerm = GR_START_TAG_CONTENT /\ n = 1
     /\ KnownId(u, p.qnameId)
  \/ /\ p.event = "SE_QNAME" /\ p.nonTerm = GR_ELEMENT_CONTENT
     /\ KnownId(u, p.qnameId) /\ GrammarOf(u, p.qnameId) # NoGrammar
  \/ p.event = "CH" /\ p.nonTerm = GR_ELEMENT_CONTENT

Prods(g, i, n) == g[i][n].production

Grammars(u, g) ==
  /\ g \in GrammarTableT
  /\ \A i \in 1..Len(g) : \A n \in {1, 2} :
       /\ \A k \in 1..Len(Prods(g, i, n)) : LearnedProd(u, n, Prods(g, i, n)[k])
       /\ \A k, l \in 1..Len(Prods(g, i, n)) : Prods(g, i, n)[k] = Prods(g, i, n)[l] => k = l

(* Known names stay known, with their strings and their grammar.            *)
LEMMA KnownIds ==
  ASSUME NEW u \in UriTableT, NEW v \in UriTableT, Grows(u, v),
         NEW id, KnownId(u, id)
  PROVE  /\ KnownId(v, id)
         /\ At(v, id.uriId).uriStr = At(u, id.uriId).uriStr
         /\ At(At(v, id.uriId).lnTable, id.lnId).lnStr =
              At(At(u, id.uriId).lnTable, id.lnId).lnStr
         /\ GrammarOf(u, id) # NoGrammar => GrammarOf(v, id) = GrammarOf(u, id)
         /\ GrammarOf(u, id) \in Nat
<1> DEFINE i == id.uriId + 1
           k == id.lnId + 1
<1>1. Len(u) \in Nat /\ Len(v) \in Nat /\ Len(u) <= Len(v)
  BY LenProperties DEF UriTableT, Grows
<1>2. id \in QNameId /\ id.uriId \in 0..Len(u)-1 /\ id.lnId \in 0..Len(u[i].lnTable)-1
  BY DEF KnownId, Lns
<1>3. id.uriId \in Nat /\ id.lnId \in Nat
  BY <1>2 DEF QNameId
<1>4. i \in 1..Len(u) /\ i \in 1..Len(v) /\ id.uriId \in 0..Len(v)-1
  BY <1>1, <1>2, <1>3
<1> HIDE DEF i
<1>5. Len(u[i].lnTable) \in Nat /\ Len(v[i].lnTable) \in Nat
  BY <1>4, Entries
<1>6. Len(u[i].lnTable) <= Len(v[i].lnTable)
  BY <1>4 DEF Grows
<1>7. k \in 1..Len(u[i].lnTable) /\ id.lnId \in 0..Len(v[i].lnTable)-1
  BY <1>2, <1>3, <1>5, <1>6
<1> HIDE DEF k
<1>8. /\ v[i].uriStr = u[i].uriStr
      /\ v[i].lnTable[k].lnStr = u[i].lnTable[k].lnStr
      /\ u[i].lnTable[k].elemGrammar # NoGrammar =>
           v[i].lnTable[k].elemGrammar = u[i].lnTable[k].elemGrammar
  BY <1>4, <1>7 DEF Grows
<1>9. u[i].lnTable[k].elemGrammar \in Nat
  BY <1>4, <1>7, Entries
<1>10. KnownId(v, id)
  BY <1>2, <1>4, <1>7 DEF KnownId, Lns, i
<1>11. QED
  BY <1>8, <1>9, <1>10, Zenon DEF At, GrammarOf, i, k

(* What the learned grammars say of the names stays true of more names.     *)
LEMMA GrammarsOfMore ==
  ASSUME NEW u \in UriTableT, NEW v \in UriTableT, Grows(u, v), NEW g, Grammars(u, g)
  PROVE  Grammars(v, g)
<1>1. ASSUME NEW n, NEW p, LearnedProd(u, n, p)
      PROVE  LearnedProd(v, n, p)
  <2>1. KnownId(u, p.qnameId) =>
          /\ KnownId(v, p.qnameId)
          /\ GrammarOf(u, p.qnameId) # NoGrammar => GrammarOf(v, p.qnameId) = GrammarOf(u, p.qnameId)
    BY KnownIds
  <2>2. QED
    BY <1>1, <2>1, Zenon DEF LearnedProd
<1>2. QED
  BY <1>1, Zenon DEF Grammars

(* The production that a rule learns.                                       *)
LEMMA AddedProd ==
  ASSUME NEW g \in GrammarTableT, NEW i \in 1..Len(g), NEW n \in {0, 1}, NEW p \in ProdT
  PROVE  /\ ProdAdded(g, i, n, p) \in GrammarTableT
         /\ Len(ProdAdded(g, i, n, p)) = Len(g)
         /\ \A j \in 1..Len(g) : \A m \in {1, 2} :
              Prods(ProdAdded(g, i, n, p), j, m) =
                IF j = i /\ m = n + 1 THEN Append(Prods(g, i, n + 1), p) ELSE Prods(g, j, m)
         /\ \A j \in 1..Len(g) : j # i => ProdAdded(g, i, n, p)[j] = g[j]
<1> DEFINE R == [{1, 2} -> RuleT]
           h == ProdAdded(g, i, n, p)
           x == Append(g[i][n + 1].production, p)
<1>1. g \in Seq(R) /\ n + 1 \in {1, 2}
  BY DEF GrammarTableT
<1>2. g[i] \in R
  BY <1>1
<1>3. g[i][n + 1] \in RuleT
  BY <1>1, <1>2
<1>4. /\ g[i][n + 1].production \in Seq(ProdT)
      /\ g[i][n + 1].hasXsiType \in BOOLEAN
  BY <1>3 DEF RuleT
<1>5. x \in Seq(ProdT)
  BY <1>4, AppendProperties
<1>6. h = [g EXCEPT ![i] = [g[i] EXCEPT ![n + 1] = [g[i][n + 1] EXCEPT !.production = x]]]
  BY Zenon DEF ProdAdded
<1> HIDE DEF x
<1>7. PICK r : r = [g[i][n + 1] EXCEPT !.production = x]
  OBVIOUS
<1>8. r \in RuleT /\ r.production = x
  BY <1>3, <1>5, <1>7 DEF RuleT
<1>9. PICK y : y = [g[i] EXCEPT ![n + 1] = r]
  OBVIOUS
<1>10. /\ y \in R
       /\ \A m \in {1, 2} : y[m] = IF m = n + 1 THEN r ELSE g[i][m]
  BY <1>1, <1>2, <1>8, <1>9
<1>11. h = [g EXCEPT ![i] = y]
  BY <1>6, <1>7, <1>9, Zenon
<1> HIDE DEF h, R
<1>12. /\ h \in Seq(R) /\ Len(h) = Len(g)
       /\ \A j \in 1..Len(g) : h[j] = IF j = i THEN y ELSE g[j]
  BY <1>1, <1>10, <1>11
<1>13. ASSUME NEW j \in 1..Len(g), NEW m \in {1, 2}
       PROVE  Prods(h, j, m) = IF j = i /\ m = n + 1 THEN x ELSE Prods(g, j, m)
  <2>1. CASE j = i /\ m = n + 1
    BY <1>8, <1>10, <1>12, <2>1, Zenon DEF Prods
  <2>2. CASE j = i /\ m # n + 1
    BY <1>10, <1>12, <2>2, Zenon DEF Prods
  <2>3. CASE j # i
    BY <1>12, <2>3, Zenon DEF Prods
  <2>4. QED
    BY <2>1, <2>2, <2>3
<1>14. \A j \in 1..Len(g) : j # i => h[j] = g[j]
  BY <1>12
<1>15. x = Append(Prods(g, i, n + 1), p)
  BY Zenon DEF Prods, x
<1>16. h \in GrammarTableT
  BY <1>12, Zenon DEF GrammarTableT, R
<1>17. QED
  BY <1>12, <1>13, <1>14, <1>15, <1>16, Zenon DEF h

(* A rule that learns a production it does not have yet.                    *)
LEMMA LearningProds ==
  ASSUME NEW u, NEW g, Grammars(u, g), NEW i \in 1..Len(g), NEW n \in {0, 1}, NEW p \in ProdT,
         LearnedProd(u, n + 1, p),
         \A k \in 1..Len(Prods(g, i, n + 1)) : Prods(g, i, n + 1)[k] # p
  PROVE  Grammars(u, ProdAdded(g, i, n, p)) /\ Len(ProdAdded(g, i, n, p)) = Len(g)
<1> DEFINE h == ProdAdded(g, i, n, p)
           P == Prods(g, i, n + 1)
<1>1. g \in GrammarTableT
  BY DEF Grammars
<1>2. /\ h \in GrammarTableT
      /\ Len(h) = Len(g)
      /\ \A j \in 1..Len(g) : \A m \in {1, 2} :
           Prods(h, j, m) = IF j = i /\ m = n + 1 THEN Append(P, p) ELSE Prods(g, j, m)
  BY <1>1, AddedProd
<1>3. P \in Seq(ProdT) /\ Len(P) \in Nat /\ n + 1 \in {1, 2}
  <2>1. g[i] \in [{1, 2} -> RuleT] /\ n + 1 \in {1, 2}
    BY <1>1 DEF GrammarTableT
  <2>2. g[i][n + 1] \in RuleT
    BY <2>1
  <2>3. P \in Seq(ProdT)
    BY <2>2 DEF RuleT, Prods
  <2>4. QED
    BY <2>1, <2>3, LenProperties
<1> HIDE DEF h
<1>4. /\ \A k \in 1..Len(P) : LearnedProd(u, n + 1, P[k])
      /\ \A k, l \in 1..Len(P) : P[k] = P[l] => k = l
      /\ \A k \in 1..Len(P) : P[k] # p
  BY <1>3 DEF Grammars
<1> HIDE DEF P
<1> DEFINE Q == Append(P, p)
<1>5. /\ Len(Q) = Len(P) + 1
      /\ \A k \in 1..Len(P) : Q[k] = P[k]
      /\ Q[Len(P) + 1] = p
      /\ \A k \in 1..Len(Q) : k \in 1..Len(P) \/ k = Len(P) + 1
  <2>1. /\ Len(Q) = Len(P) + 1
        /\ \A k \in 1..Len(P) : Q[k] = P[k]
        /\ Q[Len(P) + 1] = p
    BY <1>3, AppendProperties
  <2> HIDE DEF Q
  <2>2. QED
    BY <1>3, <2>1
<1> HIDE DEF Q
<1>6. /\ \A k \in 1..Len(Q) : LearnedProd(u, n + 1, Q[k])
      /\ \A k, l \in 1..Len(Q) : Q[k] = Q[l] => k = l
  BY <1>3, <1>4, <1>5
<1>7. ASSUME NEW j \in 1..Len(h), NEW m \in {1, 2}
      PROVE  /\ \A k \in 1..Len(Prods(h, j, m)) : LearnedProd(u, m, Prods(h, j, m)[k])
             /\ \A k, l \in 1..Len(Prods(h, j, m)) : Prods(h, j, m)[k] = Prods(h, j, m)[l] => k = l
  <2>1. CASE j = i /\ m = n + 1
    <3>1. Prods(h, j, m) = Q
      BY <1>2, <1>7, <2>1, Zenon DEF Q
    <3>2. QED
      BY <1>6, <2>1, <3>1
  <2>2. CASE ~(j = i /\ m = n + 1)
    <3>1. Prods(h, j, m) = Prods(g, j, m) /\ j \in 1..Len(g)
      BY <1>2, <1>7, <2>2
    <3>2. QED
      BY <3>1, <1>7 DEF Grammars
  <2>3. QED
    BY <2>1, <2>2
<1>8. Grammars(u, h)
  BY <1>2, <1>7 DEF Grammars
<1>9. QED
  BY <1>2, <1>8 DEF h

(* The grammar of a new element, with the end of its content learned.       *)
LEMMA NewGrammar ==
  /\ createBuiltInElementGrammar \in [{1, 2} -> RuleT]
  /\ createBuiltInElementGrammar[1].production = <<>>
  /\ createBuiltInElementGrammar[2].production = <<Prod("EE", GR_VOID_NON_TERMINAL, VoidQName)>>
  /\ Prod("EE", GR_VOID_NON_TERMINAL, VoidQName) \in ProdT
<1> DEFINE y == createBuiltInElementGrammar
           pe == Prod("EE", GR_VOID_NON_TERMINAL, VoidQName)
<1>1. pe \in ProdT /\ pe.event = "EE" /\ pe.nonTerm = GR_VOID_NON_TERMINAL
  <2>1. VoidQName \in QNameId
    BY Sizes DEF VoidQName, QNameId
  <2>2. "EE" \in DOMAIN EventClass
    BY DEF EventClass
  <2>3. GR_VOID_NON_TERMINAL \in Nat
    BY DEF GR_VOID_NON_TERMINAL
  <2>4. QED
    BY <2>1, <2>2, <2>3 DEF Prod, ProdT
<1> HIDE DEF pe
<1>2. PICK r1 : r1 = Rule(<<>>)
  OBVIOUS
<1>3. PICK r2 : r2 = Rule(<<pe>>)
  OBVIOUS
<1>4. y = <<r1, r2>>
  BY <1>2, <1>3, Zenon DEF createBuiltInElementGrammar, pe
<1>5. /\ r1 \in RuleT /\ r1.production = <<>>
      /\ r2 \in RuleT /\ r2.production = <<pe>>
  <2>1. <<>> \in Seq(ProdT) /\ <<pe>> \in Seq(ProdT)
    BY <1>1
  <2>2. PICK q : q = <<pe>>
    OBVIOUS
  <2>3. q \in Seq(ProdT)
    BY <2>1, <2>2
  <2>4. r2 = [production |-> q, hasXsiType |-> FALSE]
    BY <1>3, <2>2, Zenon DEF Rule
  <2>5. r1 = [production |-> <<>>, hasXsiType |-> FALSE]
    BY <1>2, Zenon DEF Rule
  <2>6. r2 \in RuleT /\ r2.production = q
    BY <2>3, <2>4 DEF RuleT
  <2>7. r1 \in RuleT /\ r1.production = <<>>
    BY <2>1, <2>5 DEF RuleT
  <2>8. QED
    BY <2>2, <2>6, <2>7, Zenon
<1>6. y \in [{1, 2} -> RuleT] /\ y[1] = r1 /\ y[2] = r2
  <2> HIDE DEF y
  <2>1. y[1] = r1 /\ y[2] = r2 /\ y = [i \in 1..2 |-> IF i = 1 THEN r1 ELSE r2]
    BY <1>4
  <2>2. 1..2 = {1, 2}
    OBVIOUS
  <2>3. QED
    BY <1>5, <2>1, <2>2
<1>7. QED
  BY <1>1, <1>5, <1>6, Zenon DEF y, pe

(* The grammar of a name that is new: no rule holds more than EE.           *)
LEMMA NewGrammars ==
  ASSUME NEW u, NEW g, Grammars(u, g)
  PROVE  /\ Grammars(u, Append(g, createBuiltInElementGrammar))
         /\ Len(Append(g, createBuiltInElementGrammar)) = Len(g) + 1
<1> DEFINE y == createBuiltInElementGrammar
           h == Append(g, y)
           pe == Prod("EE", GR_VOID_NON_TERMINAL, VoidQName)
<1>1. pe \in ProdT /\ pe.event = "EE" /\ pe.nonTerm = GR_VOID_NON_TERMINAL
  BY NewGrammar DEF Prod
<1> HIDE DEF pe
<1>6. y \in [{1, 2} -> RuleT] /\ y[1].production = <<>> /\ y[2].production = <<pe>>
  BY NewGrammar, Zenon DEF pe
<1>7. g \in Seq([{1, 2} -> RuleT])
  BY DEF Grammars, GrammarTableT
<1> HIDE DEF y
<1>8. /\ h \in Seq([{1, 2} -> RuleT]) /\ Len(h) = Len(g) + 1
      /\ \A i \in 1..Len(g) : h[i] = g[i]
      /\ h[Len(g) + 1] = y
  BY <1>6, <1>7, AppendProperties
<1>9. \A i \in 1..Len(h) : i \in 1..Len(g) \/ i = Len(g) + 1
  <2>1. Len(g) \in Nat
    BY <1>7, LenProperties
  <2> HIDE DEF h
  <2>2. QED
    BY <1>8, <2>1
<1> HIDE DEF h
<1>10. ASSUME NEW i \in 1..Len(h), NEW n \in {1, 2}
       PROVE  /\ \A k \in 1..Len(Prods(h, i, n)) : LearnedProd(u, n, Prods(h, i, n)[k])
              /\ \A k, l \in 1..Len(Prods(h, i, n)) : Prods(h, i, n)[k] = Prods(h, i, n)[l] => k = l
  <2>1. CASE i \in 1..Len(g)
    <3>1. Prods(h, i, n) = Prods(g, i, n)
      BY <1>8, <2>1, Zenon DEF Prods
    <3>2. QED
      BY <2>1, <3>1 DEF Grammars
  <2>2. CASE i = Len(g) + 1 /\ n = 1
    <3>1. Prods(h, i, n) = <<>>
      BY <1>6, <1>8, <2>2, Zenon DEF Prods
    <3>2. QED
      BY <3>1
  <2>3. CASE i = Len(g) + 1 /\ n = 2
    <3>1. Prods(h, i, n) = <<pe>>
      BY <1>6, <1>8, <2>3, Zenon DEF Prods
    <3>2. LearnedProd(u, n, pe)
      BY <1>1 DEF LearnedProd
    <3>3. Len(<<pe>>) = 1 /\ <<pe>>[1] = pe /\ \A k \in 1..1 : k = 1
      OBVIOUS
    <3>4. QED
      BY <3>1, <3>2, <3>3
  <2>4. QED
    BY <1>9, <2>1, <2>2, <2>3
<1>11. h \in GrammarTableT
  BY <1>8 DEF GrammarTableT
<1>12. QED
  BY <1>8, <1>10, <1>11 DEF Grammars, h, y

(* The parser creates the grammar of an element before the rule around it   *)
(* learns its production, the serializer afterwards.                        *)
LEMMA OrderOfLearning ==
  ASSUME NEW g \in GrammarTableT, NEW i \in 1..Len(g), NEW n \in {0, 1}, NEW p \in ProdT,
         NEW y \in [{1, 2} -> RuleT]
  PROVE  ProdAdded(Append(g, y), i, n, p) = Append(ProdAdded(g, i, n, p), y)
<1> DEFINE z == [g[i] EXCEPT ![n + 1].production = Append(@, p)]
<1>1. Len(g) \in Nat /\ i # Len(g) + 1
  BY LenProperties DEF GrammarTableT
<1>2. Append(g, y)[i] = g[i]
  BY <1>1 DEF GrammarTableT
<1>3. ProdAdded(g, i, n, p) = [g EXCEPT ![i] = z]
  BY Zenon DEF ProdAdded
<1>4. ProdAdded(Append(g, y), i, n, p) = [Append(g, y) EXCEPT ![i] = z]
  BY <1>2, Zenon DEF ProdAdded
<1> DEFINE R == [{1, 2} -> RuleT]
<1> HIDE DEF z, R
<1>7. g \in Seq(R) /\ y \in R /\ z \in R
  <2>1. g \in Seq(R) /\ y \in R
    BY DEF R, GrammarTableT
  <2>2. ProdAdded(g, i, n, p) \in Seq(R)
    BY AddedProd DEF R, GrammarTableT
  <2>3. [g EXCEPT ![i] = z] \in Seq(R)
    BY <1>3, <2>2, Zenon
  <2>4. Len([g EXCEPT ![i] = z]) = Len(g) /\ [g EXCEPT ![i] = z][i] = z
    BY <2>1
  <2>5. QED
    BY <2>1, <2>3, <2>4
<1>5. [Append(g, y) EXCEPT ![i] = z] = Append([g EXCEPT ![i] = z], y)
  <2> DEFINE a == Append(g, y)
             d == [g EXCEPT ![i] = z]
  <2>1. /\ a \in Seq(R) /\ Len(a) = Len(g) + 1
        /\ \A j \in 1..Len(g) : a[j] = g[j]
        /\ a[Len(g) + 1] = y
    BY <1>7, AppendProperties
  <2>2. /\ d \in Seq(R) /\ Len(d) = Len(g)
        /\ \A j \in 1..Len(g) : d[j] = IF j = i THEN z ELSE g[j]
    BY <1>7
  <2> HIDE DEF a, d
  <2>3. /\ Append(d, y) \in Seq(R) /\ Len(Append(d, y)) = Len(g) + 1
        /\ \A j \in 1..Len(g) : Append(d, y)[j] = d[j]
        /\ Append(d, y)[Len(g) + 1] = y
    BY <1>7, <2>2, AppendProperties
  <2>4. /\ [a EXCEPT ![i] = z] \in Seq(R) /\ Len([a EXCEPT ![i] = z]) = Len(g) + 1
        /\ \A j \in 1..Len(g) + 1 : [a EXCEPT ![i] = z][j] = IF j = i THEN z ELSE a[j]
    BY <1>1, <1>7, <2>1
  <2> DEFINE l == [a EXCEPT ![i] = z]
             r == Append(d, y)
  <2> HIDE DEF l, r
  <2>5. \A j \in 1..Len(g) + 1 : l[j] = r[j]
    <3>1. \A j \in 1..Len(g) + 1 : j \in 1..Len(g) \/ j = Len(g) + 1
      BY <1>1
    <3>2. QED
      BY <1>1, <2>1, <2>2, <2>3, <2>4, <3>1 DEF l, r
  <2>6. l \in Seq(R) /\ r \in Seq(R) /\ Len(l) = Len(g) + 1 /\ Len(r) = Len(g) + 1
    BY <2>3, <2>4 DEF l, r
  <2>7. l = r
    BY <2>5, <2>6, SeqEqual
  <2>8. QED
    BY <2>7 DEF l, r, a, d
<1>6. QED
  BY <1>3, <1>4, <1>5, Zenon

(* The flag of AT(xsi:type) is no production.                               *)
LEMMA SettingXsiType ==
  ASSUME NEW u, NEW g, Grammars(u, g), NEW i \in 1..Len(g)
  PROVE  Grammars(u, XsiTypeSet(g, i)) /\ Len(XsiTypeSet(g, i)) = Len(g)
<1> DEFINE R == [{1, 2} -> RuleT]
           h == XsiTypeSet(g, i)
<1>1. g \in Seq(R)
  BY DEF Grammars, GrammarTableT
<1>2. g[i] \in R
  BY <1>1
<1>3. g[i][1] \in RuleT
  BY <1>2
<1>4. h = [g EXCEPT ![i] = [g[i] EXCEPT ![1] = [g[i][1] EXCEPT !.hasXsiType = TRUE]]]
  BY Zenon DEF XsiTypeSet
<1>5. PICK r : r = [g[i][1] EXCEPT !.hasXsiType = TRUE]
  OBVIOUS
<1>6. r \in RuleT /\ r.production = g[i][1].production
  BY <1>3, <1>5 DEF RuleT
<1>7. PICK y : y = [g[i] EXCEPT ![1] = r]
  OBVIOUS
<1>8. /\ y \in R
      /\ \A m \in {1, 2} : y[m] = IF m = 1 THEN r ELSE g[i][m]
  BY <1>2, <1>6, <1>7
<1>9. h = [g EXCEPT ![i] = y]
  BY <1>4, <1>5, <1>7, Zenon
<1> HIDE DEF h, R
<1>10. /\ h \in Seq(R) /\ Len(h) = Len(g)
       /\ \A j \in 1..Len(g) : h[j] = IF j = i THEN y ELSE g[j]
  BY <1>1, <1>8, <1>9
<1>11. ASSUME NEW j \in 1..Len(g), NEW m \in {1, 2}
       PROVE  Prods(h, j, m) = Prods(g, j, m)
  <2>1. CASE j = i /\ m = 1
    BY <1>6, <1>8, <1>10, <2>1, Zenon DEF Prods
  <2>2. CASE j = i /\ m # 1
    BY <1>8, <1>10, <2>2, Zenon DEF Prods
  <2>3. CASE j # i
    BY <1>10, <2>3, Zenon DEF Prods
  <2>4. QED
    BY <2>1, <2>2, <2>3
<1>12. h \in GrammarTableT
  BY <1>10, Zenon DEF GrammarTableT, R
<1>13. Grammars(u, h)
  BY <1>10, <1>11, <1>12 DEF Grammars
<1>14. QED
  BY <1>10, <1>13 DEF h

(* AT(xsi:type) apart, an attribute that matched no production is learned.  *)
LEMMA LearnedAttributes ==
  ASSUME NEW u, NEW g, Grammars(u, g), NEW i \in 1..Len(g), NEW id, KnownId(u, id),
         \A k \in 1..Len(Prods(g, i, 1)) :
           Prods(g, i, 1)[k] # Prod("AT_QNAME", GR_START_TAG_CONTENT, id)
  PROVE  Grammars(u, AttrAdded(g, i, id)) /\ Len(AttrAdded(g, i, id)) = Len(g)
<1> DEFINE p == Prod("AT_QNAME", GR_START_TAG_CONTENT, id)
           h == ProdAdded(g, i, GR_START_TAG_CONTENT, p)
<1>1. /\ p \in ProdT /\ p.event = "AT_QNAME" /\ p.nonTerm = GR_START_TAG_CONTENT
      /\ p.qnameId = id
  <2>1. "AT_QNAME" \in DOMAIN EventClass
    BY DEF EventClass
  <2>2. id \in QNameId
    BY DEF KnownId
  <2>3. QED
    BY <2>1, <2>2 DEF Prod, ProdT, GR_START_TAG_CONTENT
<1>2. LearnedProd(u, 0 + 1, p)
  BY <1>1 DEF LearnedProd
<1> HIDE DEF p
<1>3. Grammars(u, h) /\ Len(h) = Len(g)
  <2>1. \A k \in 1..Len(Prods(g, i, 0 + 1)) : Prods(g, i, 0 + 1)[k] # p
    BY DEF p
  <2>2. 0 \in {0, 1} /\ GR_START_TAG_CONTENT = 0
    BY DEF GR_START_TAG_CONTENT
  <2>3. QED
    BY <1>1, <1>2, <2>1, <2>2, LearningProds
<1> HIDE DEF h
<1>4. Grammars(u, XsiTypeSet(h, i)) /\ Len(XsiTypeSet(h, i)) = Len(h)
  BY <1>3, SettingXsiType
<1>5. QED
  BY <1>3, <1>4, Zenon DEF AttrAdded, h, p

(* The grammar of a name that has none yet.                                 *)
LEMMA SettingGrammars ==
  ASSUME NEW u, Names(u), NEW id, KnownId(u, id), GrammarOf(u, id) = NoGrammar, NEW gr \in Nat
  PROVE  LET v == GrammarSet(u, id, gr)
         IN /\ Names(v) /\ Grows(u, v) /\ KnownId(v, id)
            /\ GrammarOf(v, id) = gr
            /\ \A n, m \in Nat : GrammarsIn(u, n) /\ n <= m /\ gr <= m => GrammarsIn(v, m)
            /\ Fits(v) <=> Fits(u)
<1> DEFINE v == GrammarSet(u, id, gr)
           i == id.uriId + 1
           k == id.lnId + 1
           t == u[i].lnTable
<1>1. u \in UriTableT /\ Len(u) \in Nat
  BY LenProperties DEF Names, UriTableT
<1>2. id \in QNameId /\ id.uriId \in 0..Len(u)-1 /\ id.lnId \in 0..Len(t)-1
  BY DEF KnownId, Lns
<1>3. id.uriId \in Nat /\ id.lnId \in Nat
  BY <1>2 DEF QNameId
<1>4. i \in 1..Len(u)
  BY <1>1, <1>2, <1>3
<1>5. t[k].elemGrammar = 0
  BY DEF GrammarOf, At, NoGrammar
<1>6. v = [u EXCEPT ![i] = [u[i] EXCEPT !.lnTable = [t EXCEPT ![k] = [t[k] EXCEPT !.elemGrammar = gr]]]]
  BY Zenon DEF GrammarSet
<1> HIDE DEF i
<1>7. /\ u[i] \in UriEntryT /\ u[i].uriStr \in Text /\ t \in Seq(LnEntryT)
      /\ u[i].pfxTable \in Seq(Text) /\ Len(t) \in Nat
  BY <1>1, <1>4, Entries
<1>8. k \in 1..Len(t)
  BY <1>2, <1>3, <1>7
<1>9. t[k] \in LnEntryT
  <2> HIDE DEF t
  <2>1. QED
    BY <1>7, <1>8, ElementOfSeq
<1> HIDE DEF k
<1>10. PICK l : l = [t[k] EXCEPT !.elemGrammar = gr]
  OBVIOUS
<1>11. l \in LnEntryT /\ l.lnStr = t[k].lnStr /\ l.elemGrammar = gr
  <2>1. PICK r : r = t[k]
    OBVIOUS
  <2>2. r \in LnEntryT /\ l = [r EXCEPT !.elemGrammar = gr]
    BY <1>9, <1>10, <2>1
  <2>3. l \in LnEntryT /\ l.lnStr = r.lnStr /\ l.elemGrammar = gr
    BY <2>2 DEF LnEntryT
  <2>4. QED
    BY <2>1, <2>3
<1>12. PICK w : w = [t EXCEPT ![k] = l]
  OBVIOUS
<1>13. /\ w \in Seq(LnEntryT) /\ Len(w) = Len(t)
       /\ \A j \in 1..Len(t) : w[j] = IF j = k THEN l ELSE t[j]
  <2> HIDE DEF t
  <2>1. QED
    BY <1>7, <1>8, <1>11, <1>12, ExceptSeq
<1>14. [u[i] EXCEPT !.lnTable = w] =
         [uriStr |-> u[i].uriStr, lnTable |-> w, pfxTable |-> u[i].pfxTable]
  BY <1>7, EntryParts, Zenon
<1>15. PICK r : r = [uriStr |-> u[i].uriStr, lnTable |-> w, pfxTable |-> u[i].pfxTable]
  OBVIOUS
<1>16. /\ r \in UriEntryT /\ r.uriStr = u[i].uriStr /\ r.lnTable = w
       /\ r.pfxTable = u[i].pfxTable
  BY <1>7, <1>13, <1>15 DEF UriEntryT
<1>17. v = [u EXCEPT ![i] = r]
  BY <1>6, <1>10, <1>12, <1>14, <1>15, Zenon
<1> HIDE DEF v
<1>18. /\ v \in Seq(UriEntryT) /\ Len(v) = Len(u)
       /\ \A j \in 1..Len(u) : v[j] = IF j = i THEN r ELSE u[j]
  BY <1>1, <1>4, <1>16, <1>17 DEF UriTableT
<1>19. \A j \in 1..Len(u) :
         /\ v[j].uriStr = u[j].uriStr
         /\ v[j].pfxTable = u[j].pfxTable
         /\ j # i => v[j].lnTable = u[j].lnTable
  BY <1>16, <1>18
<1>20. v[i].lnTable = w /\ u[i].lnTable = t
  BY <1>4, <1>16, <1>18
<1> HIDE DEF t
<1>21. \A j \in 1..Len(t) :
         /\ w[j].lnStr = t[j].lnStr
         /\ w[j].elemGrammar = IF j = k THEN gr ELSE t[j].elemGrammar
  BY <1>11, <1>13
<1>22. v \in UriTableT
  BY <1>18 DEF UriTableT
<1>23. \A j \in 1..Len(u) :
         /\ Len(v[j].lnTable) = Len(u[j].lnTable)
         /\ Len(u[j].lnTable) \in Nat
         /\ \A n \in 1..Len(u[j].lnTable) :
              /\ v[j].lnTable[n].lnStr = u[j].lnTable[n].lnStr
              /\ v[j].lnTable[n].elemGrammar = u[j].lnTable[n].elemGrammar
                   \/ (j = i /\ n = k /\ v[j].lnTable[n].elemGrammar = gr)
  <2>1. ASSUME NEW j \in 1..Len(u)
        PROVE  /\ Len(v[j].lnTable) = Len(u[j].lnTable)
               /\ Len(u[j].lnTable) \in Nat
               /\ \A n \in 1..Len(u[j].lnTable) :
                    /\ v[j].lnTable[n].lnStr = u[j].lnTable[n].lnStr
                    /\ v[j].lnTable[n].elemGrammar = u[j].lnTable[n].elemGrammar
                         \/ (j = i /\ n = k /\ v[j].lnTable[n].elemGrammar = gr)
    <3>1. CASE j = i
      BY <1>7, <1>13, <1>20, <1>21, <3>1
    <3>2. CASE j # i
      <4>1. Len(u[j].lnTable) \in Nat
        BY <1>1, Entries
      <4>2. QED
        BY <1>19, <3>2, <4>1
    <3>3. QED
      BY <3>1, <3>2
  <2>2. QED
    BY <2>1
<1>24. UniqueUris(v) /\ UniquePfxs(v)
  BY <1>18, <1>19 DEF UniqueUris, UniquePfxs, Names
<1>25. UniqueLns(v)
  BY <1>18, <1>23 DEF UniqueLns, Names
<1>26. Grows(u, v)
  <2>1. \A j \in 1..Len(u) : \A n \in 1..Len(u[j].lnTable) :
          u[j].lnTable[n].elemGrammar # NoGrammar =>
            v[j].lnTable[n].elemGrammar = u[j].lnTable[n].elemGrammar
    BY <1>5, <1>20, <1>23 DEF NoGrammar
  <2>2. QED
    BY <1>1, <1>18, <1>19, <1>23, <2>1 DEF Grows
<1>27. XsiInPlace(v)
  BY <1>1, <1>22, <1>26, XsiStays DEF Names
<1>28. Names(v)
  BY <1>22, <1>24, <1>25, <1>27 DEF Names
<1>29. GrammarOf(v, id) = gr
  BY <1>8, <1>20, <1>21, Zenon DEF GrammarOf, At, i, k
<1>30. ASSUME NEW n \in Nat, NEW m \in Nat, GrammarsIn(u, n), n <= m, gr <= m
       PROVE  GrammarsIn(v, m)
  <2>1. ASSUME NEW j \in 1..Len(u), NEW q \in 1..Len(u[j].lnTable)
        PROVE  v[j].lnTable[q].elemGrammar <= m
    <3>1. u[j].lnTable[q].elemGrammar <= n /\ u[j].lnTable[q].elemGrammar \in Nat
      BY <1>1, <1>30, Entries DEF GrammarsIn
    <3>2. v[j].lnTable[q].elemGrammar = u[j].lnTable[q].elemGrammar
            \/ v[j].lnTable[q].elemGrammar = gr
      BY <1>23
    <3>3. QED
      BY <1>30, <3>1, <3>2
  <2>2. QED
    BY <1>18, <1>23, <2>1 DEF GrammarsIn
<1>31. Fits(v) <=> Fits(u)
  BY <1>18, <1>19, <1>23, Zenon DEF Fits
<1>32. KnownId(v, id)
  BY <1>1, <1>22, <1>26, KnownIds
<1>33. QED
  BY <1>26, <1>28, <1>29, <1>30, <1>31, <1>32 DEF v

-----------------------------------------------------------------------------
(* One side of a stream: its names, its learned grammars and its stack.     *)

(* An open element is known, has the grammar of its name, and is neither of *)
(* the names that are for attributes only.                                  *)
OpenNode(u, g, node) ==
  /\ node \in NodeT
  /\ node.currNonTermID \in {GR_START_TAG_CONTENT, GR_ELEMENT_CONTENT}
  /\ node.grammar \in 1..Len(g)
  /\ KnownId(u, node.currQNameID)
  /\ GrammarOf(u, node.currQNameID) = node.grammar
  /\ ~IsXsi(node.currQNameID, XML_SCHEMA_INSTANCE_NIL_ID)
  /\ ~IsXsi(node.currQNameID, XML_SCHEMA_INSTANCE_TYPE_ID)

(* The document is over when its grammar, alone on the stack, is complete.  *)
DocNode(t) ==
  /\ t[Len(t)] \in NodeT
  /\ t[Len(t)].grammar = DOC
  /\ \/ t[Len(t)].currNonTermID \in {GR_DOC_CONTENT, GR_DOC_END}
     \/ t[Len(t)].currNonTermID = GR_VOID_NON_TERMINAL /\ Len(t) = 1

Stack(u, g, t) ==
  /\ t \in StackT /\ Len(t) >= 1
  /\ \A i \in 1..Len(t) : i # Len(t) => OpenNode(u, g, t[i])
  /\ DocNode(t)

Side(u, g, t) ==
  /\ Names(u) /\ GrammarsIn(u, Len(g)) /\ Grammars(u, g) /\ Stack(u, g, t)

(* A stack stays one when names and grammars are added.                     *)
LEMMA StackOfMore ==
  ASSUME NEW u \in UriTableT, NEW v \in UriTableT, Grows(u, v), NEW g, NEW h,
         Len(g) \in Nat, Len(h) \in Nat, Len(g) <= Len(h), NEW t, Stack(u, g, t)
  PROVE  Stack(v, h, t)
<1>1. ASSUME NEW node, OpenNode(u, g, node)
      PROVE  OpenNode(v, h, node)
  <2>1. node.grammar \in 1..Len(h) /\ node.grammar # NoGrammar
    BY <1>1 DEF OpenNode, NoGrammar
  <2>2. /\ KnownId(v, node.currQNameID)
        /\ GrammarOf(u, node.currQNameID) # NoGrammar =>
             GrammarOf(v, node.currQNameID) = GrammarOf(u, node.currQNameID)
    BY <1>1, KnownIds DEF OpenNode
  <2>3. QED
    BY <1>1, <2>1, <2>2, Zenon DEF OpenNode
<1>2. QED
  BY <1>1, Zenon DEF Stack

(* The top of a stack and what is below.                                    *)
LEMMA Tops ==
  ASSUME NEW u, NEW g, NEW t, Stack(u, g, t)
  PROVE  /\ t \in Seq(NodeT) /\ Len(t) \in Nat /\ 1 <= Len(t)
         /\ Head(t) = t[1] /\ Head(t) \in NodeT
         /\ Head(t).grammar # DOC => 1 < Len(t) /\ OpenNode(u, g, Head(t))
         /\ Head(t).grammar = DOC => Len(t) = 1
<1>1. t \in Seq(NodeT) /\ Len(t) \in Nat /\ 1 <= Len(t)
  BY LenProperties DEF Stack, StackT
<1>2. Head(t) = t[1] /\ t[1] \in NodeT
  BY <1>1
<1>3. CASE Len(t) = 1
  BY <1>1, <1>2, <1>3 DEF Stack, DocNode
<1>4. CASE Len(t) # 1
  <2>1. OpenNode(u, g, t[1]) /\ 1 < Len(t)
    <3>0. PICK n \in Nat : n = Len(t) /\ 1 <= n /\ n # 1
      BY <1>1, <1>4, Zenon
    <3>1. 1 \in 1..n /\ 1 < n
      BY <3>0
    <3>2. 1 \in 1..Len(t) /\ 1 # Len(t) /\ 1 < Len(t)
      BY <3>0, <3>1, <1>4, Zenon
    <3>3. QED
      BY <3>2, Zenon DEF Stack
  <2>2. t[1].grammar # DOC
    BY <2>1 DEF OpenNode, DOC
  <2>3. QED
    BY <1>1, <1>2, <1>4, <2>1, <2>2
<1>5. QED
  BY <1>3, <1>4

(* A node may be moved to any of its non-terminals.                         *)
LEMMA Moves ==
  ASSUME NEW u, NEW g, NEW t, Stack(u, g, t), NEW n,
         \/ Head(t).grammar # DOC /\ n \in {GR_START_TAG_CONTENT, GR_ELEMENT_CONTENT}
         \/ Head(t).grammar = DOC /\ n \in {GR_DOC_CONTENT, GR_DOC_END, GR_VOID_NON_TERMINAL}
  PROVE  /\ Stack(u, g, Moved(t, n))
         /\ Len(Moved(t, n)) = Len(t)
         /\ Head(Moved(t, n)).grammar = Head(t).grammar
         /\ Head(Moved(t, n)).currNonTermID = n
         /\ Head(Moved(t, n)).currQNameID = Head(t).currQNameID
<1> DEFINE h == [t[1] EXCEPT !.currNonTermID = n]
           m == Moved(t, n)
<1>1. /\ t \in Seq(NodeT) /\ Len(t) \in Nat /\ 1 <= Len(t)
      /\ Head(t) = t[1] /\ t[1] \in NodeT
      /\ t[1].grammar # DOC => 1 < Len(t) /\ OpenNode(u, g, t[1])
      /\ t[1].grammar = DOC => Len(t) = 1
  <2>1. /\ t \in Seq(NodeT) /\ Len(t) \in Nat /\ 1 <= Len(t)
        /\ Head(t) = t[1] /\ Head(t) \in NodeT
        /\ Head(t).grammar # DOC => 1 < Len(t) /\ OpenNode(u, g, Head(t))
        /\ Head(t).grammar = DOC => Len(t) = 1
    BY Tops
  <2>2. QED
    BY <2>1, Zenon
<1>2. n \in Nat
  BY DEF GR_START_TAG_CONTENT, GR_ELEMENT_CONTENT, GR_DOC_CONTENT, GR_DOC_END,
         GR_VOID_NON_TERMINAL
<1>3. m = [t EXCEPT ![1] = h]
  BY Zenon DEF Moved
<1>4. /\ h \in NodeT /\ h.grammar = t[1].grammar /\ h.currNonTermID = n
      /\ h.currQNameID = t[1].currQNameID
  <2>1. PICK r : r = t[1]
    OBVIOUS
  <2>2. PICK k : k = [r EXCEPT !.currNonTermID = n]
    OBVIOUS
  <2>3. k = h
    BY <2>1, <2>2, Zenon
  <2>4. r \in NodeT
    BY <1>1, <2>1
  <2>5. /\ k \in NodeT /\ k.grammar = r.grammar /\ k.currNonTermID = n
        /\ k.currQNameID = r.currQNameID
    BY <1>2, <2>2, <2>4 DEF NodeT
  <2>6. QED
    BY <2>1, <2>3, <2>5, Zenon
<1> HIDE DEF h, m
<1>5. /\ m \in Seq(NodeT) /\ Len(m) = Len(t)
      /\ \A i \in 1..Len(t) : m[i] = IF i = 1 THEN h ELSE t[i]
  BY <1>1, <1>3, <1>4, ExceptSeq
<1>6. Head(m) = h
  BY <1>1, <1>5
<1>7. CASE Head(t).grammar # DOC
  <2>1. OpenNode(u, g, t[1]) /\ 1 < Len(t)
    BY <1>1, <1>7
  <2>2. n \in {GR_START_TAG_CONTENT, GR_ELEMENT_CONTENT}
    BY <1>7
  <2>3. OpenNode(u, g, h)
    BY <1>4, <2>1, <2>2, Zenon DEF OpenNode
  <2>4. m[Len(m)] = t[Len(t)]
    BY <1>1, <1>5, <2>1
  <2>5. DocNode(m)
    BY <1>1, <1>5, <2>1, <2>4 DEF DocNode, Stack
  <2>6. ASSUME NEW i \in 1..Len(m), i # Len(m)
        PROVE  OpenNode(u, g, m[i])
    <3>1. i \in 1..Len(t) /\ i # Len(t)
      BY <1>5, <2>6
    <3>2. i # 1 => OpenNode(u, g, t[i])
      BY <3>1, Zenon DEF Stack
    <3>3. m[i] = IF i = 1 THEN h ELSE t[i]
      BY <1>5, <3>1
    <3>4. QED
      BY <2>3, <3>2, <3>3
  <2>7. Stack(u, g, m)
    <3>1. m \in StackT /\ Len(m) >= 1
      BY <1>1, <1>5 DEF StackT
    <3>2. QED
      BY <2>5, <2>6, <3>1 DEF Stack
  <2>8. QED
    BY <1>1, <1>4, <1>5, <1>6, <2>7, Zenon DEF m
<1>8. CASE ~(Head(t).grammar # DOC)
  <2>1. Len(t) = 1 /\ n \in {GR_DOC_CONTENT, GR_DOC_END, GR_VOID_NON_TERMINAL}
    BY <1>1, <1>8
  <2>2. Len(m) = 1 /\ m[1] = h
    BY <1>5, <2>1
  <2>3. DocNode(m)
    BY <1>1, <1>4, <1>8, <2>1, <2>2 DEF DocNode
  <2>4. Stack(u, g, m)
    <3>1. m \in StackT /\ Len(m) >= 1
      BY <1>1, <1>5 DEF StackT
    <3>2. \A i \in 1..Len(m) : i # Len(m) => FALSE
      BY <2>2
    <3>3. QED
      BY <2>3, <3>1, <3>2, Zenon DEF Stack
  <2>5. QED
    BY <1>1, <1>4, <1>5, <1>6, <2>4, Zenon DEF m
<1>9. QED
  BY <1>7, <1>8

(* Moving on top of what is popped, or to where it is, changes nothing.     *)
LEMMA NoMoves ==
  ASSUME NEW t \in Seq(NodeT), Len(t) >= 1
  PROVE  /\ \A n \in Nat : Tail(Moved(t, n)) = Tail(t)
         /\ Moved(t, Head(t).currNonTermID) = t
<1>1. Len(t) \in Nat /\ Head(t) = t[1] /\ t[1] \in NodeT /\ 1 \in 1..Len(t)
  BY LenProperties
<1>2. \A n \in Nat : Tail(Moved(t, n)) = Tail(t)
  <2>1. ASSUME NEW n \in Nat PROVE Tail(Moved(t, n)) = Tail(t)
    <3>12. PICK r : r = t[1]
      OBVIOUS
    <3>13. PICK h : h = [r EXCEPT !.currNonTermID = n]
      OBVIOUS
    <3>14. h \in NodeT
      <4>1. r \in NodeT
        BY <1>1, <3>12
      <4>2. QED
        BY <3>13, <4>1 DEF NodeT
    <3>1. h = [t[1] EXCEPT !.currNonTermID = n]
      BY <3>12, <3>13, Zenon
    <3>2. Moved(t, n) = [t EXCEPT ![1] = h]
      BY <3>1, Zenon DEF Moved
    <3>3. PICK m : m = [t EXCEPT ![1] = h]
      OBVIOUS
    <3>4. /\ m \in Seq(NodeT) /\ Len(m) = Len(t)
          /\ \A i \in 1..Len(t) : m[i] = IF i = 1 THEN h ELSE t[i]
      BY <1>1, <3>3, <3>14, ExceptSeq
    <3>5. /\ Tail(m) \in Seq(NodeT) /\ Len(Tail(m)) = Len(t) - 1
          /\ Tail(t) \in Seq(NodeT) /\ Len(Tail(t)) = Len(t) - 1
          /\ \A i \in 1..Len(t)-1 : Tail(m)[i] = m[i + 1] /\ Tail(t)[i] = t[i + 1]
      BY <1>1, <3>4
    <3>6. \A i \in 1..Len(t)-1 : m[i + 1] = t[i + 1]
      BY <1>1, <3>4
    <3>7. Tail(m) = Tail(t)
      BY <3>5, <3>6, SeqEqual
    <3>8. QED
      BY <3>2, <3>3, <3>7, Zenon
  <2>2. QED
    BY <2>1
<1>3. Moved(t, Head(t).currNonTermID) = t
  <2>1. PICK r : r = t[1]
    OBVIOUS
  <2>2. r \in NodeT
    BY <1>1, <2>1
  <2>3. [r EXCEPT !.currNonTermID = r.currNonTermID] = r
    BY <2>2 DEF NodeT
  <2>4. Moved(t, Head(t).currNonTermID) = [t EXCEPT ![1] = [r EXCEPT !.currNonTermID = r.currNonTermID]]
    BY <1>1, <2>1, Zenon DEF Moved
  <2>5. [t EXCEPT ![1] = r] = t
    BY <1>1, <2>1
  <2>6. QED
    BY <2>3, <2>4, <2>5, Zenon
<1>4. QED
  BY <1>2, <1>3

(* What is below the top is a stack of its own.                             *)
LEMMA Pops ==
  ASSUME NEW u, NEW g, NEW t, Stack(u, g, t), Head(t).grammar # DOC
  PROVE  Stack(u, g, Tail(t))
<1> DEFINE r == Tail(t)
<1>1. t \in Seq(NodeT) /\ Len(t) \in Nat /\ 1 < Len(t)
  BY Tops
<1>2. /\ r \in Seq(NodeT) /\ Len(r) = Len(t) - 1
      /\ \A i \in 1..Len(r) : r[i] = t[i + 1]
  BY <1>1
<1> HIDE DEF r
<1>3. r \in StackT /\ Len(r) >= 1
  BY <1>1, <1>2 DEF StackT
<1>4. ASSUME NEW i \in 1..Len(r), i # Len(r)
      PROVE  OpenNode(u, g, r[i])
  <2>1. i + 1 \in 1..Len(t) /\ i + 1 # Len(t) /\ r[i] = t[i + 1]
    BY <1>1, <1>2, <1>4
  <2>2. QED
    BY <2>1, Zenon DEF Stack
<1>5. DocNode(r)
  <2>1. r[Len(r)] = t[Len(t)]
    BY <1>1, <1>2
  <2>2. QED
    BY <1>1, <2>1 DEF DocNode, Stack
<1>6. QED
  BY <1>3, <1>4, <1>5 DEF Stack, r

(* An element is opened; the parser moves its grammar to where it starts.   *)
LEMMA Pushes ==
  ASSUME NEW u, NEW g, NEW t, Stack(u, g, t), Head(t).currNonTermID # GR_VOID_NON_TERMINAL,
         NEW id, NEW gr, OpenNode(u, g, Node(gr, GR_START_TAG_CONTENT, id))
  PROVE  /\ Stack(u, g, Pushed(t, id, gr))
         /\ Head(Pushed(t, id, gr)) = Node(gr, GR_START_TAG_CONTENT, id)
         /\ Moved(Pushed(t, id, gr), GR_START_TAG_CONTENT) = Pushed(t, id, gr)
<1> DEFINE n == Node(gr, GR_START_TAG_CONTENT, id)
           p == <<n>> \o t
<1>1. /\ t \in Seq(NodeT) /\ Len(t) \in Nat /\ 1 <= Len(t) /\ Head(t) = t[1]
  BY Tops
<1>2. n \in NodeT
  BY DEF OpenNode
<1>3. n.currNonTermID = GR_START_TAG_CONTENT
  BY DEF Node
<1> HIDE DEF n
<1>4. /\ p \in Seq(NodeT) /\ Len(p) = Len(t) + 1
      /\ p[1] = n
      /\ \A i \in 1..Len(t) : p[i + 1] = t[i]
      /\ Head(p) = n
  BY <1>1, <1>2
<1> HIDE DEF p
<1>5. p \in StackT /\ Len(p) >= 1
  BY <1>1, <1>4 DEF StackT
<1>6. ASSUME NEW i \in 1..Len(p), i # Len(p)
      PROVE  OpenNode(u, g, p[i])
  <2>1. CASE i = 1
    BY <1>4, <2>1 DEF n
  <2>2. CASE i # 1
    <3>1. i - 1 \in 1..Len(t) /\ i - 1 # Len(t) /\ p[i] = t[i - 1]
      <4>1. i - 1 \in 1..Len(t) /\ i - 1 # Len(t) /\ (i - 1) + 1 = i
        BY <1>1, <1>4, <1>6, <2>2
      <4>2. QED
        BY <1>4, <4>1
    <3>2. QED
      BY <3>1, Zenon DEF Stack
  <2>3. QED
    BY <2>1, <2>2
<1>7. DocNode(p)
  <2>1. p[Len(p)] = t[Len(t)]
    BY <1>1, <1>4
  <2>2. ~(t[Len(t)].currNonTermID = GR_VOID_NON_TERMINAL /\ Len(t) = 1)
    BY <1>1
  <2>3. QED
    BY <2>1, <2>2, Zenon DEF DocNode, Stack
<1>8. Moved(p, GR_START_TAG_CONTENT) = p
  <2>1. Moved(p, Head(p).currNonTermID) = p
    BY <1>4, <1>5, NoMoves
  <2>2. QED
    BY <1>3, <1>4, <2>1, Zenon
<1>9. Pushed(t, id, gr) = p
  BY Zenon DEF Pushed, p, n
<1>10. QED
  BY <1>4, <1>5, <1>6, <1>7, <1>8, <1>9, Zenon DEF Stack, n

-----------------------------------------------------------------------------
(* The functions of both sides, as equations.                               *)

(* What the parser makes of an event.                                       *)
LEMMA Parsing ==
  ASSUME NEW s, NEW event, NEW n
  PROVE  /\ Parsed(s, event, n).s = s
         /\ Parsed(s, event, n).event = event
         /\ Parsed(s, event, n).nonTerm = n
         /\ \A r : [Parsed(s, event, n) EXCEPT !.s = r] = Parsed(r, event, n)
  BY DEF Parsed

(* The serializer knows what the name will be called.                       *)
LEMMA Predicting ==
  ASSUME NEW o, NEW e, NEW b, NEW u, Names(u), NEW g, NEW t, NEW c, NEW x, NEW q \in NameT
  PROVE  PredictedQNameID(Strm(o,e,b,u,g,t,c,x), q) = NameIdOf(u, q)
<1> DEFINE s == Strm(o,e,b,u,g,t,c,x)
           i == lookupUri(u, q.uri)
<1>1. s.uriTable = u
  BY DEF Strm
<1> HIDE DEF s
<1>2. PredictedQNameID(s, q) =
        IF i < 0 THEN [uriId |-> Len(u), lnId |-> 0]
        ELSE IF lookupLn(u, i, q.ln) >= 0
             THEN [uriId |-> i, lnId |-> lookupLn(u, i, q.ln)]
             ELSE [uriId |-> i, lnId |-> Len(At(u, i).lnTable)]
  <2>1. PICK v : v = s.uriTable
    OBVIOUS
  <2>2. v = u
    BY <1>1, <2>1, Zenon
  <2>3. PredictedQNameID(s, q) =
        IF lookupUri(v, q.uri) < 0 THEN [uriId |-> Len(v), lnId |-> 0]
        ELSE IF lookupLn(v, lookupUri(v, q.uri), q.ln) >= 0
             THEN [uriId |-> lookupUri(v, q.uri), lnId |-> lookupLn(v, lookupUri(v, q.uri), q.ln)]
             ELSE [uriId |-> lookupUri(v, q.uri), lnId |-> Len(At(v, lookupUri(v, q.uri)).lnTable)]
    BY <2>1 DEF PredictedQNameID
  <2>4. QED
    BY <2>2, <2>3
<1>3. At(u, i).lnTable = Lns(u, i)
  BY Zenon DEF At, Lns
<1>4. QED
  <2>1. NameIdOf(u, q) =
        IF i < 0 THEN [uriId |-> Len(u), lnId |-> 0]
        ELSE IF lookupLn(u, i, q.ln) >= 0
             THEN [uriId |-> i, lnId |-> lookupLn(u, i, q.ln)]
             ELSE [uriId |-> i, lnId |-> Len(Lns(u, i))]
    BY NamesPredicted, Zenon
  <2> HIDE DEF i
  <2>2. PredictedQNameID(s, q) = NameIdOf(u, q)
    BY <1>2, <1>3, <2>1
  <2>3. QED
    BY <2>2, Zenon DEF s

(* What a rule learns from each event.                                      *)
LEMMA Learning ==
  ASSUME NEW o, NEW e, NEW b, NEW u, NEW g, NEW t, NEW c, NEW x, NEW q
  PROVE  LET s == Strm(o,e,b,u,g,t,c,x)
             i == Head(t).grammar
             n == Head(t).currNonTermID
             h(p) == ProdAdded(g, i, n, p)
             id == PredictedQNameID(s, q)
         IN /\ Learn(s, "EE", q) =
                 Strm(o,e,b,u,h(Prod("EE", GR_VOID_NON_TERMINAL, VoidQName)),
                      Moved(t, GR_VOID_NON_TERMINAL),c,x)
            /\ Learn(s, "AT", q) = Strm(o,e,b,u,AttrAdded(g, i, id),t,c,x)
            /\ Learn(s, "SE", q) =
                 Strm(o,e,b,u,h(Prod("SE_QNAME", GR_ELEMENT_CONTENT, id)),
                      Moved(t, GR_ELEMENT_CONTENT),c,x)
            /\ Learn(s, "CH", q) =
                 Strm(o,e,b,u,h(Prod("CH", GR_ELEMENT_CONTENT, VoidQName)),
                      Moved(t, GR_ELEMENT_CONTENT),c,x)
            /\ Learn(s, "NS", q) = s
<1>1. PICK s : s = Strm(o,e,b,u,g,t,c,x)
  OBVIOUS
<1>2. PICK i, n, id : i = Head(t).grammar /\ n = Head(t).currNonTermID /\ id = PredictedQNameID(s, q)
  OBVIOUS
<1>3. Top(s).grammar = i /\ Top(s).currNonTermID = n
  BY <1>1, <1>2, Rules, Zenon
<1> DEFINE h(p) == ProdAdded(g, i, n, p)
<1>4. ASSUME NEW p, NEW k
      PROVE  SetNonTerm(insertZeroProduction(s, i, n, p), k) = Strm(o,e,b,u,h(p),Moved(t, k),c,x)
  <2>1. insertZeroProduction(Strm(o,e,b,u,g,t,c,x), i, n, p) = Strm(o,e,b,u,h(p),t,c,x)
    BY Inserting
  <2>2. \A y : SetNonTerm(Strm(o,e,b,u,y,t,c,x), k) = Strm(o,e,b,u,y,Moved(t, k),c,x)
    BY Moving
  <2> HIDE DEF h
  <2>3. QED
    BY <1>1, <2>1, <2>2
<1>5. LearnAttribute(s, i, id) = Strm(o,e,b,u,AttrAdded(g, i, id),t,c,x)
  <2>1. LearnAttribute(Strm(o,e,b,u,g,t,c,x), i, id) = Strm(o,e,b,u,AttrAdded(g, i, id),t,c,x)
    BY LearningAttributes
  <2>2. QED
    BY <1>1, <2>1, Zenon
<1>6. Learn(s, "EE", q) = Strm(o,e,b,u,h(Prod("EE", GR_VOID_NON_TERMINAL, VoidQName)),
                               Moved(t, GR_VOID_NON_TERMINAL),c,x)
  <2>1. Learn(s, "EE", q) = SetNonTerm(insertZeroProduction(s, i, n,
          Prod("EE", GR_VOID_NON_TERMINAL, VoidQName)), GR_VOID_NON_TERMINAL)
    BY <1>3 DEF Learn
  <2> HIDE DEF h
  <2>2. QED
    BY <2>1, <1>4, Zenon
<1>7. Learn(s, "AT", q) = LearnAttribute(s, i, id)
  BY <1>2, <1>3 DEF Learn
<1>8. Learn(s, "SE", q) = Strm(o,e,b,u,h(Prod("SE_QNAME", GR_ELEMENT_CONTENT, id)),
                               Moved(t, GR_ELEMENT_CONTENT),c,x)
  <2>1. Learn(s, "SE", q) = SetNonTerm(insertZeroProduction(s, i, n,
          Prod("SE_QNAME", GR_ELEMENT_CONTENT, id)), GR_ELEMENT_CONTENT)
    BY <1>2, <1>3 DEF Learn
  <2> HIDE DEF h
  <2>2. QED
    BY <2>1, <1>4, Zenon
<1>9. Learn(s, "CH", q) = Strm(o,e,b,u,h(Prod("CH", GR_ELEMENT_CONTENT, VoidQName)),
                               Moved(t, GR_ELEMENT_CONTENT),c,x)
  <2>1. Learn(s, "CH", q) = SetNonTerm(insertZeroProduction(s, i, n,
          Prod("CH", GR_ELEMENT_CONTENT, VoidQName)), GR_ELEMENT_CONTENT)
    BY <1>3 DEF Learn
  <2> HIDE DEF h
  <2>2. QED
    BY <2>1, <1>4, Zenon
<1>10. Learn(s, "NS", q) = s
  BY DEF Learn
<1>11. QED
  BY <1>1, <1>2, <1>5, <1>6, <1>7, <1>8, <1>9, <1>10, Zenon

-----------------------------------------------------------------------------
(* Event codes.                                                             *)

(* The rule that is current does not depend on what is in the stream.       *)
LEMMA CurrentRules ==
  ASSUME NEW s, NEW o, NEW e, NEW b, NEW u, NEW g, NEW t, NEW c, NEW x,
         s = Strm(o,e,b,u,g,t,c,x)
  PROVE  CurrentRule(s) = RuleOf(g, t) /\ Top(s) = Head(t) /\ (BuiltIn(s) <=> Head(t).grammar # DOC)
  BY Rules

(* What the parser does with the first part of an event code ...            *)
LEMMA FirstParts ==
  ASSUME NEW s, NEW s2, NEW v, s2.err = "EXIP_OK",
         DecodeNBits(s, getBitsFirstPartCode(s)) = Result(s2, v)
  PROVE  processNextProduction(s) =
           IF v < Len(CurrentRule(s).production) THEN handleProduction(s2, ProductionOf(s, v))
           ELSE IF BuiltIn(s) THEN stateMachineProdDecode(s2)
           ELSE Parsed(Failed(s2, "EXIP_INCONSISTENT_PROC_STATE"), Plain(""), 0)
<1>1. Result(s2, v).s = s2 /\ Result(s2, v).val = v
  BY Results, Zenon
<1>2. PICK r : r = Result(s2, v)
  OBVIOUS
<1>3. DecodeNBits(s, getBitsFirstPartCode(s)) = r /\ r.s = s2 /\ r.val = v
  BY <1>1, <1>2
<1>4. processNextProduction(s) =
        IF r.s.err # "EXIP_OK" THEN Parsed(r.s, Plain(""), 0)
        ELSE IF r.val < Len(CurrentRule(s).production)
        THEN handleProduction(r.s, ProductionOf(s, r.val))
        ELSE IF BuiltIn(s) THEN stateMachineProdDecode(r.s)
        ELSE Parsed(Failed(r.s, "EXIP_INCONSISTENT_PROC_STATE"), Plain(""), 0)
  BY <1>3, Zenon DEF processNextProduction
<1>5. r.s.err = "EXIP_OK"
  BY <1>3
<1>6. QED
  BY <1>3, <1>4, <1>5, Zenon

(* ... and with the second.                                                 *)
LEMMA SecondParts ==
  ASSUME NEW s, NEW s2, NEW v, NEW class,
         DecodeNBits(s, getBitsNumber(Cardinality(Available(s)) - 1)) = Result(s2, v),
         StateOf(s, v) = class
  PROVE  stateMachineProdDecode(s) =
           LearnParsed(SecondLevelEvent(s2, class), class, Top(s).grammar, Top(s).currNonTermID)
<1>1. Result(s2, v).s = s2 /\ Result(s2, v).val = v
  BY Results, Zenon
<1>2. PICK r : r = Result(s2, v)
  OBVIOUS
<1>3. DecodeNBits(s, getBitsNumber(Cardinality(Available(s)) - 1)) = r /\ r.s = s2 /\ r.val = v
  BY <1>1, <1>2
<1>4. stateMachineProdDecode(s) =
        LearnParsed(SecondLevelEvent(r.s, StateOf(s, r.val)), StateOf(s, r.val),
                    Top(s).grammar, Top(s).currNonTermID)
  BY <1>3, Zenon DEF stateMachineProdDecode
<1>5. QED
  BY <1>3, <1>4, Zenon

(* Behind the first-level code of p the parser handles p.                   *)
HandledAs(o, u, g, t, f, p) ==
  \A rest \in Seq(FieldT) : \A c, x :
    processNextProduction(Strm(o,"EXIP_OK",f \o rest,u,g,t,c,x)) =
      handleProduction(Strm(o,"EXIP_OK",rest,u,g,t,c,x), p)

(* Behind the second-level code of class it decodes and learns one.         *)
LearnedAs(o, u, g, t, f, class) ==
  \A rest \in Seq(FieldT) : \A c, x :
    processNextProduction(Strm(o,"EXIP_OK",f \o rest,u,g,t,c,x)) =
      LearnParsed(SecondLevelEvent(Strm(o,"EXIP_OK",rest,u,g,t,c,x), class),
                  class, Head(t).grammar, Head(t).currNonTermID)

(* An event that matches a production is written with its first-level code, *)
(* and the parser then handles that production.                             *)
LEMMA HitCodes ==
  ASSUME NEW o, NEW b \in Seq(FieldT), NEW u, NEW g, NEW t, NEW c, NEW x, NEW class, NEW q,
         RuleOf(g, t).production \in Seq(ProdT), Len(RuleOf(g, t).production) < URI_MAX,
         FirstLevelCode(Strm(o,"EXIP_OK",b,u,g,t,c,x), class, q) >= 0
  PROVE  LET s == Strm(o,"EXIP_OK",b,u,g,t,c,x)
             P == RuleOf(g, t).production
         IN \E p \in ProdT, f \in Seq(FieldT) :
              /\ MatchesIn(u, class, q, p)
              /\ \E k \in 1..Len(P) : P[k] = p
              /\ ProductionOf(s, FirstLevelCode(s, class, q)) = p
              /\ encodeProduction(s, class, q) =
                   Strm(o,"EXIP_OK",b \o f,u,g,Moved(t, p.nonTerm),c,x)
              /\ HandledAs(o, u, g, t, f, p)
<1> DEFINE P == RuleOf(g, t).production
<1>1. PICK s : s = Strm(o,"EXIP_OK",b,u,g,t,c,x)
  OBVIOUS
<1>2. PICK code : code = FirstLevelCode(s, class, q)
  OBVIOUS
<1>3. PICK n : n = Len(P)
  OBVIOUS
<1>4. n \in Nat /\ n < URI_MAX /\ code >= 0
  BY <1>1, <1>2, <1>3, LenProperties
<1>5. /\ code \in -1..n-1
      /\ n - code \in 1..n
      /\ P[n - code] \in ProdT
      /\ MatchesIn(u, class, q, P[n - code])
  <2> DEFINE code1 == FirstLevelCode(Strm(o,"EXIP_OK",b,u,g,t,c,x), class, q)
  <2>1. /\ code1 \in -1..Len(P)-1
        /\ code1 >= 0 => /\ Len(P) - code1 \in 1..Len(P)
                         /\ P[Len(P) - code1] \in ProdT
                         /\ MatchesIn(u, class, q, P[Len(P) - code1])
    BY FirstLevelCodes
  <2> HIDE DEF P
  <2>2. QED
    BY <1>1, <1>2, <1>3, <1>4, <2>1, Zenon
<1>6. PICK p : p = P[n - code]
  OBVIOUS
<1>7. code \in Nat /\ n \in 0..URI_MAX - 1 /\ code < n
  BY <1>4, <1>5, Sizes
<1>8. PICK w \in Nat : /\ w = 0 => code = 0
                       /\ \A b1, c1, x1 :
                            getBitsFirstPartCode(Strm(o,"EXIP_OK",b1,u,g,t,c1,x1)) = w
  <2>1. /\ Len(RuleOf(g, t).production) \in 0..URI_MAX - 1
        /\ code < Len(RuleOf(g, t).production)
    BY <1>3, <1>7, Zenon
  <2>2. \A b1, c1, x1 : getBitsFirstPartCode(Strm(o,"EXIP_OK",b1,u,g,t,c1,x1)) =
                           FirstLevelWidth(o, g, t)
    BY FirstLevelWidths
  <2>3. FirstLevelWidth(o, g, t) \in Nat /\ (FirstLevelWidth(o, g, t) = 0 => code = 0)
    BY <1>7, <2>1, FirstLevelFits
  <2>4. QED
    BY <2>2, <2>3, Zenon
<1>9. PICK f : f = NBits(w, code)
  OBVIOUS
<1>10. f \in Seq(FieldT)
  BY <1>7, <1>9, FieldTypes, Zenon
<1>11. ProductionOf(s, code) = p /\ CurrentRule(s).production = P
  <2>1. CurrentRule(s).production = P
    BY <1>1, CurrentRules
  <2> HIDE DEF P
  <2>2. QED
    BY <1>3, <1>6, <2>1, Zenon DEF ProductionOf
<1>12. encodeProduction(s, class, q) = Strm(o,"EXIP_OK",b \o f,u,g,Moved(t, p.nonTerm),c,x)
  <2>1. getBitsFirstPartCode(s) = w
    BY <1>1, <1>8, Zenon
  <2>2. encodeProduction(s, class, q) =
          IF code >= 0
          THEN SetNonTerm(Write(s, NBits(w, code)), ProductionOf(s, code).nonTerm)
          ELSE Write(Learn(s, class, q),
                     NBits(w, Len(CurrentRule(s).production)) \o
                       NBits(SecondLevelBits(s), SecondLevelPart(s, class)))
    BY <1>2, <2>1, Zenon DEF encodeProduction
  <2>3. encodeProduction(s, class, q) = SetNonTerm(Write(s, f), p.nonTerm)
    BY <1>4, <1>9, <1>11, <2>2, Zenon
  <2>4. Write(Strm(o,"EXIP_OK",b,u,g,t,c,x), f) = Strm(o,"EXIP_OK",b \o f,u,g,t,c,x)
    BY Writing
  <2>5. \A y : SetNonTerm(Strm(o,"EXIP_OK",y,u,g,t,c,x), p.nonTerm) =
                 Strm(o,"EXIP_OK",y,u,g,Moved(t, p.nonTerm),c,x)
    BY Moving
  <2>6. QED
    BY <1>1, <2>3, <2>4, <2>5, Zenon
<1>13. ASSUME NEW rest \in Seq(FieldT), NEW c1, NEW x1
       PROVE  processNextProduction(Strm(o,"EXIP_OK",f \o rest,u,g,t,c1,x1)) =
                handleProduction(Strm(o,"EXIP_OK",rest,u,g,t,c1,x1), p)
  <2>1. PICK s1, s2 : /\ s1 = Strm(o,"EXIP_OK",f \o rest,u,g,t,c1,x1)
                      /\ s2 = Strm(o,"EXIP_OK",rest,u,g,t,c1,x1)
    OBVIOUS
  <2>2. getBitsFirstPartCode(s1) = w
    BY <1>8, <2>1, Zenon
  <2>3. DecodeNBits(s1, w) = Result(s2, code)
    BY <1>7, <1>8, <1>9, <2>1, ReadingBits
  <2>4. s2.err = "EXIP_OK"
    BY <2>1 DEF Strm
  <2>5. CurrentRule(s1).production = P
    BY <2>1, CurrentRules
  <2> HIDE DEF P
  <2>6. ProductionOf(s1, code) = p
    BY <1>3, <1>6, <2>5, Zenon DEF ProductionOf
  <2>7. code < Len(CurrentRule(s1).production)
    BY <1>3, <1>7, <2>5, Zenon
  <2>8. processNextProduction(s1) = handleProduction(s2, p)
    BY <2>2, <2>3, <2>4, <2>6, <2>7, FirstParts, Zenon
  <2>9. QED
    BY <2>1, <2>8, Zenon
<1>14. p \in ProdT /\ MatchesIn(u, class, q, p) /\ \E k \in 1..Len(P) : P[k] = p
  <2> HIDE DEF P
  <2>1. QED
    BY <1>3, <1>5, <1>6, Zenon
<1> HIDE DEF P
<1>15. QED
  BY <1>1, <1>2, <1>10, <1>11, <1>12, <1>13, <1>14, Zenon DEF P, HandledAs

(* The second part depends on the options and the grammar on top alone.     *)
LEMMA SamePart ==
  ASSUME NEW s1, NEW s2, s1.opts = s2.opts, Top(s1) = Top(s2), NEW class
  PROVE  /\ SecondLevelBits(s1) = SecondLevelBits(s2)
         /\ SecondLevelPart(s1, class) = SecondLevelPart(s2, class)
  BY Zenon DEF SecondLevelBits, SecondLevelPart, Preserved, CommentsOrPIs

(* Nothing matches, and f is the code.                                      *)
Missed(o, b, u, g, t, c, x, class, q, f) ==
  /\ \A k \in 1..Len(RuleOf(g, t).production) :
       ~MatchesIn(u, class, q, RuleOf(g, t).production[k])
  /\ encodeProduction(Strm(o,"EXIP_OK",b,u,g,t,c,x), class, q) =
       Write(Learn(Strm(o,"EXIP_OK",b,u,g,t,c,x), class, q), f)
  /\ LearnedAs(o, u, g, t, f, class)

(* An event that matches none is written with a code of two parts; the      *)
(* parser decodes the event and learns it by the rule it began in.          *)
LEMMA MissCodes ==
  ASSUME NEW o, NEW b \in Seq(FieldT), NEW u, NEW g, NEW t, NEW c, NEW x, NEW class, NEW q,
         RuleOf(g, t).production \in Seq(ProdT), Len(RuleOf(g, t).production) < URI_MAX,
         Head(t).grammar # DOC, SecondLevelClass(o, t, class),
         FirstLevelCode(Strm(o,"EXIP_OK",b,u,g,t,c,x), class, q) < 0
  PROVE  \E f \in Seq(FieldT) : Missed(o, b, u, g, t, c, x, class, q, f)
<1> DEFINE P == RuleOf(g, t).production
           S(b1, c1, x1) == Strm(o,"EXIP_OK",b1,u,g,t,c1,x1)
<1>1. PICK s : s = Strm(o,"EXIP_OK",b,u,g,t,c,x)
  OBVIOUS
<1>2. PICK n : n = Len(P)
  OBVIOUS
<1>3. n \in Nat /\ n \in 0..URI_MAX - 1
  BY <1>2, LenProperties, Sizes
<1>4. \A k \in 1..Len(P) : ~MatchesIn(u, class, q, P[k])
  BY FirstLevelCodes
<1>5. PICK w \in Nat : /\ w = 0 => n = 0
                       /\ \A b1, c1, x1 : getBitsFirstPartCode(S(b1, c1, x1)) = w
  <2>1. Len(RuleOf(g, t).production) \in 0..URI_MAX - 1 /\ n = Len(RuleOf(g, t).production)
    BY <1>2, <1>3, Zenon
  <2>2. \A b1, c1, x1 : getBitsFirstPartCode(S(b1, c1, x1)) = FirstLevelWidth(o, g, t)
    BY FirstLevelWidths
  <2>3. FirstLevelWidth(o, g, t) \in Nat /\ (FirstLevelWidth(o, g, t) = 0 => n = 0)
    BY <1>3, <2>1, FirstLevelFits
  <2>4. QED
    BY <2>2, <2>3, Zenon
<1>6. \A b1, c1, x1 : /\ Top(S(b1, c1, x1)) = Head(t)
                      /\ CurrentRule(S(b1, c1, x1)).production = P
                      /\ BuiltIn(S(b1, c1, x1))
                      /\ S(b1, c1, x1).opts = o
                      /\ S(b1, c1, x1).err = "EXIP_OK"
  <2>1. ASSUME NEW b1, NEW c1, NEW x1
        PROVE  /\ Top(S(b1, c1, x1)) = Head(t)
               /\ CurrentRule(S(b1, c1, x1)) = RuleOf(g, t)
               /\ BuiltIn(S(b1, c1, x1))
    BY CurrentRules
  <2>2. \A b1, c1, x1 : S(b1, c1, x1).opts = o /\ S(b1, c1, x1).err = "EXIP_OK"
    BY DEF Strm
  <2> HIDE DEF S
  <2>3. QED
    BY <2>1, <2>2, Zenon
<1>7. PICK w2 \in Nat, m \in Nat :
        /\ w2 = 0 => m = 0
        /\ \A b1, c1, x1 : /\ SecondLevelBits(S(b1, c1, x1)) = w2
                           /\ SecondLevelPart(S(b1, c1, x1), class) = m
                           /\ w2 = getBitsNumber(Cardinality(Available(S(b1, c1, x1))) - 1)
                           /\ StateOf(S(b1, c1, x1), m) = class
  <2>1. ASSUME NEW b1, NEW c1, NEW x1
        PROVE  /\ SecondLevelBits(S(b1, c1, x1)) \in Nat
               /\ SecondLevelPart(S(b1, c1, x1), class) \in Nat
               /\ SecondLevelBits(S(b1, c1, x1)) = 0 => SecondLevelPart(S(b1, c1, x1), class) = 0
               /\ SecondLevelBits(S(b1, c1, x1)) =
                    getBitsNumber(Cardinality(Available(S(b1, c1, x1))) - 1)
               /\ StateOf(S(b1, c1, x1), SecondLevelPart(S(b1, c1, x1), class)) = class
    BY SecondLevelCodes
  <2> HIDE DEF S
  <2>2. ASSUME NEW b1, NEW c1, NEW x1
        PROVE  /\ SecondLevelBits(S(b1, c1, x1)) = SecondLevelBits(S(b, c, x))
               /\ SecondLevelPart(S(b1, c1, x1), class) = SecondLevelPart(S(b, c, x), class)
    <3>1. PICK s1, s2 : s1 = S(b1, c1, x1) /\ s2 = S(b, c, x)
      OBVIOUS
    <3>2. s1.opts = s2.opts /\ Top(s1) = Top(s2)
      BY <1>6, <3>1, Zenon
    <3>3. QED
      BY <3>1, <3>2, SamePart, Zenon
  <2>3. PICK w1, m1 : w1 = SecondLevelBits(S(b, c, x)) /\ m1 = SecondLevelPart(S(b, c, x), class)
    OBVIOUS
  <2>4. w1 \in Nat /\ m1 \in Nat /\ (w1 = 0 => m1 = 0)
    BY <2>1, <2>3, Zenon
  <2>5. ASSUME NEW b1, NEW c1, NEW x1
        PROVE  /\ SecondLevelBits(S(b1, c1, x1)) = w1
               /\ SecondLevelPart(S(b1, c1, x1), class) = m1
               /\ w1 = getBitsNumber(Cardinality(Available(S(b1, c1, x1))) - 1)
               /\ StateOf(S(b1, c1, x1), m1) = class
    <3>1. /\ SecondLevelBits(S(b1, c1, x1)) = w1
          /\ SecondLevelPart(S(b1, c1, x1), class) = m1
      BY <2>2, <2>3, Zenon
    <3>2. QED
      BY <2>1, <3>1, Zenon
  <2>6. QED
    BY <2>4, <2>5, Zenon
<1>8. PICK f1, f2 : f1 = NBits(w, n) /\ f2 = NBits(w2, m)
  OBVIOUS
<1>9. f1 \in Seq(FieldT) /\ f2 \in Seq(FieldT) /\ f1 \o f2 \in Seq(FieldT)
  <2>1. f1 \in Seq(FieldT) /\ f2 \in Seq(FieldT)
    BY <1>3, <1>8, FieldTypes, Zenon
  <2>2. QED
    BY <2>1, Assoc, Zenon
<1>10. encodeProduction(s, class, q) = Write(Learn(s, class, q), f1 \o f2)
  <2>1. s = S(b, c, x)
    BY <1>1
  <2> HIDE DEF S, P
  <2>2. getBitsFirstPartCode(s) = w /\ Len(CurrentRule(s).production) = n
        /\ SecondLevelBits(s) = w2 /\ SecondLevelPart(s, class) = m
    BY <1>2, <1>5, <1>6, <1>7, <2>1, Zenon
  <2>3. encodeProduction(s, class, q) =
          IF FirstLevelCode(s, class, q) >= 0
          THEN SetNonTerm(Write(s, NBits(getBitsFirstPartCode(s), FirstLevelCode(s, class, q))),
                          ProductionOf(s, FirstLevelCode(s, class, q)).nonTerm)
          ELSE Write(Learn(s, class, q), f1 \o f2)
    BY <1>8, <2>2, Zenon DEF encodeProduction
  <2>4. ~(FirstLevelCode(s, class, q) >= 0)
    <3>1. PICK code : code = FirstLevelCode(s, class, q)
      OBVIOUS
    <3>2. code < 0 /\ code \in Int
      <4>1. /\ FirstLevelCode(Strm(o,"EXIP_OK",b,u,g,t,c,x), class, q) \in
                 -1..Len(RuleOf(g, t).production)-1
            /\ FirstLevelCode(Strm(o,"EXIP_OK",b,u,g,t,c,x), class, q) < 0
        BY FirstLevelCodes
      <4>2. code < 0 /\ code \in -1..n-1
        BY <1>1, <1>2, <3>1, <4>1, Zenon DEF P
      <4>3. QED
        BY <1>3, <4>2
    <3>3. ~(code >= 0)
      BY <3>2
    <3>4. QED
      BY <3>1, <3>3, Zenon
  <2>5. QED
    BY <2>3, <2>4, Zenon
<1>11. ASSUME NEW rest \in Seq(FieldT), NEW c1, NEW x1
       PROVE  processNextProduction(S((f1 \o f2) \o rest, c1, x1)) =
                LearnParsed(SecondLevelEvent(S(rest, c1, x1), class),
                            class, Head(t).grammar, Head(t).currNonTermID)
  <2>1. PICK s1, s2, s3 : /\ s1 = S(f1 \o (f2 \o rest), c1, x1)
                          /\ s2 = S(f2 \o rest, c1, x1) /\ s3 = S(rest, c1, x1)
    OBVIOUS
  <2>2. (f1 \o f2) \o rest = f1 \o (f2 \o rest) /\ f2 \o rest \in Seq(FieldT)
    BY <1>9, Assoc
  <2>3. DecodeNBits(s1, w) = Result(s2, n)
    <3>1. PICK r \in Seq(FieldT) : r = f2 \o rest
      BY <2>2
    <3>2. DecodeNBits(Strm(o,"EXIP_OK",NBits(w, n) \o r,u,g,t,c1,x1), w) =
            Result(Strm(o,"EXIP_OK",r,u,g,t,c1,x1), n)
      BY <1>3, <1>5, ReadingBits
    <3>3. QED
      BY <1>8, <2>1, <3>1, <3>2, Zenon
  <2>4. DecodeNBits(s2, w2) = Result(s3, m)
    BY <1>7, <1>8, <2>1, ReadingBits
  <2> HIDE DEF S, P
  <2>5. getBitsFirstPartCode(s1) = w /\ Len(CurrentRule(s1).production) = n
        /\ BuiltIn(s1) /\ s2.err = "EXIP_OK" /\ Top(s2) = Head(t)
        /\ w2 = getBitsNumber(Cardinality(Available(s2)) - 1) /\ StateOf(s2, m) = class
    BY <1>2, <1>5, <1>6, <1>7, <2>1, Zenon
  <2>6. ~(n < Len(CurrentRule(s1).production))
    BY <1>3, <2>5
  <2>7. processNextProduction(s1) = stateMachineProdDecode(s2)
    BY <2>3, <2>5, <2>6, FirstParts, Zenon
  <2>8. stateMachineProdDecode(s2) =
          LearnParsed(SecondLevelEvent(s3, class), class, Top(s2).grammar, Top(s2).currNonTermID)
    BY <2>4, <2>5, SecondParts, Zenon
  <2>9. QED
    BY <2>1, <2>2, <2>5, <2>7, <2>8, Zenon
<1> HIDE DEF P
<1>12. QED
  BY <1>1, <1>4, <1>9, <1>10, <1>11, Zenon DEF P, LearnedAs, Missed
-----------------------------------------------------------------------------
(* What an event may match.                                                 *)

(* The name that an identifier stands for.                                  *)
Says(u, id, q) ==
  /\ At(u, id.uriId).uriStr = q.uri
  /\ At(At(u, id.uriId).lnTable, id.lnId).lnStr = q.ln

(* No rule is longer than the type of its event codes allows.               *)
RulesFit(g) ==
  \A i \in 1..Len(g) : \A n \in {1, 2} : Len(Prods(g, i, n)) < URI_MAX

(* The rule on top is one of the learned grammars or of the document's.     *)
LEMMA RuleOnTop ==
  ASSUME NEW u, NEW g, Grammars(u, g), RulesFit(g), NEW t, Stack(u, g, t),
         Head(t).currNonTermID # GR_VOID_NON_TERMINAL
  PROVE  LET i == Head(t).grammar
             n == Head(t).currNonTermID
             P == RuleOf(g, t).production
         IN /\ P \in Seq(ProdT) /\ Len(P) < URI_MAX
            /\ i # DOC => /\ i \in 1..Len(g) /\ n \in {0, 1}
                          /\ P = Prods(g, i, n + 1)
                          /\ \A k \in 1..Len(P) : LearnedProd(u, n + 1, P[k])
            /\ i = DOC => \/ P = <<Prod("SE_ALL", GR_DOC_END, VoidQName)>>
                          \/ P = <<Prod("ED", GR_VOID_NON_TERMINAL, VoidQName)>>
<1>1. PICK i, n : i = Head(t).grammar /\ n = Head(t).currNonTermID
  OBVIOUS
<1>2. PICK P : P = RuleOf(g, t).production
  OBVIOUS
<1>3. CASE i # DOC
  <2>1. i \in 1..Len(g) /\ n \in {0, 1}
    BY <1>1, <1>3, Tops DEF OpenNode, GR_START_TAG_CONTENT, GR_ELEMENT_CONTENT
  <2>2. n + 1 \in {1, 2}
    BY <2>1
  <2>3. P = Prods(g, i, n + 1)
    BY <1>1, <1>2, <1>3, Zenon DEF RuleOf, At, Prods
  <2>4. /\ \A k \in 1..Len(P) : LearnedProd(u, n + 1, P[k])
        /\ Len(P) < URI_MAX
    BY <2>1, <2>2, <2>3, Zenon DEF Grammars, RulesFit
  <2>5. P \in Seq(ProdT)
    <3>1. g[i] \in [{1, 2} -> RuleT]
      BY <2>1, ElementOfSeq DEF Grammars, GrammarTableT
    <3>2. g[i][n + 1] \in RuleT
      BY <2>2, <3>1
    <3>3. QED
      BY <2>3, <3>2 DEF Prods, RuleT
  <2>6. QED
    BY <1>1, <1>2, <1>3, <2>1, <2>3, <2>4, <2>5, Zenon
<1>4. CASE i = DOC
  <2>1. n \in {0, 1}
    <3>1. DocNode(t) /\ Len(t) = 1 /\ Head(t) = t[1]
      BY <1>1, <1>4, Tops DEF Stack
    <3>2. QED
      BY <1>1, <3>1 DEF DocNode, GR_DOC_CONTENT, GR_DOC_END
  <2>2. P = DocGrammar[n + 1].production
    BY <1>1, <1>2, <1>4, Zenon DEF RuleOf, At
  <2>3. \/ P = <<Prod("SE_ALL", GR_DOC_END, VoidQName)>>
        \/ P = <<Prod("ED", GR_VOID_NON_TERMINAL, VoidQName)>>
    <3>1. DocGrammar[1].production = <<Prod("SE_ALL", GR_DOC_END, VoidQName)>>
      BY DEF DocGrammar, Rule
    <3>2. DocGrammar[2].production = <<Prod("ED", GR_VOID_NON_TERMINAL, VoidQName)>>
      BY DEF DocGrammar, Rule
    <3>3. n + 1 = 1 \/ n + 1 = 2
      BY <2>1
    <3>4. QED
      BY <2>2, <3>1, <3>2, <3>3, Zenon
  <2>4. /\ Prod("SE_ALL", GR_DOC_END, VoidQName) \in ProdT
        /\ Prod("ED", GR_VOID_NON_TERMINAL, VoidQName) \in ProdT
    <3>1. VoidQName \in QNameId
      BY Sizes DEF VoidQName, QNameId
    <3>2. "SE_ALL" \in DOMAIN EventClass /\ "ED" \in DOMAIN EventClass
      BY DEF EventClass
    <3>3. GR_DOC_END \in Nat /\ GR_VOID_NON_TERMINAL \in Nat
      BY DEF GR_DOC_END, GR_VOID_NON_TERMINAL
    <3>4. QED
      BY <3>1, <3>2, <3>3 DEF Prod, ProdT
  <2>5. P \in Seq(ProdT) /\ Len(P) = 1
    <3>1. \A p \in ProdT : <<p>> \in Seq(ProdT) /\ Len(<<p>>) = 1
      OBVIOUS
    <3>2. QED
      BY <2>3, <2>4, <3>1, Zenon
  <2>6. 1 < URI_MAX
    BY DEF URI_MAX
  <2>7. QED
    BY <1>1, <1>2, <1>4, <2>3, <2>5, <2>6, Zenon
<1>5. QED
  BY <1>3, <1>4, Zenon
(* The classes of the events that occur in grammars.                        *)
LEMMA Classes ==
  /\ EventClass["EE"] = "EE" /\ EventClass["ED"] = "ED" /\ EventClass["CH"] = "CH"
  /\ EventClass["SE_ALL"] = "SE" /\ EventClass["SE_QNAME"] = "SE"
  /\ EventClass["AT_QNAME"] = "AT"
  BY DEF EventClass

(* The productions that an event may match.                                 *)
Matched(u, t, class, q, p) ==
  LET i == Head(t).grammar
      n == Head(t).currNonTermID
  IN \/ class = "EE" /\ i # DOC /\ p.event = "EE" /\ p.nonTerm = GR_VOID_NON_TERMINAL
     \/ class = "ED" /\ i = DOC /\ p.event = "ED" /\ p.nonTerm = GR_VOID_NON_TERMINAL
     \/ class = "CH" /\ i # DOC /\ p.event = "CH" /\ p.nonTerm = GR_ELEMENT_CONTENT
     \/ class = "SE" /\ i = DOC /\ p.event = "SE_ALL" /\ p.nonTerm = GR_DOC_END
     \/ /\ class = "SE" /\ i # DOC /\ p.event = "SE_QNAME" /\ p.nonTerm = GR_ELEMENT_CONTENT
        /\ KnownId(u, p.qnameId) /\ Says(u, p.qnameId, q) /\ GrammarOf(u, p.qnameId) # NoGrammar
     \/ /\ class = "AT" /\ i # DOC /\ p.event = "AT_QNAME"
        /\ n = GR_START_TAG_CONTENT /\ p.nonTerm = GR_START_TAG_CONTENT
        /\ KnownId(u, p.qnameId) /\ Says(u, p.qnameId, q)

(* The production that an event matches.                                    *)
LEMMA MatchedProds ==
  ASSUME NEW u, Fits(u), NEW g, Grammars(u, g), RulesFit(g), NEW t, Stack(u, g, t),
         Head(t).currNonTermID # GR_VOID_NON_TERMINAL,
         NEW class, NEW q, NEW p, MatchesIn(u, class, q, p),
         NEW k \in 1..Len(RuleOf(g, t).production), RuleOf(g, t).production[k] = p
  PROVE  Matched(u, t, class, q, p)
<1>1. PICK i, n : i = Head(t).grammar /\ n = Head(t).currNonTermID
  OBVIOUS
<1>2. PICK P : P = RuleOf(g, t).production
  OBVIOUS
<1>3. k \in 1..Len(P) /\ P[k] = p
  BY <1>2
<1>4. EventClass[p.event] = class
  BY Zenon DEF MatchesIn
<1>5. CASE i = DOC
  <2>1. \/ P = <<Prod("SE_ALL", GR_DOC_END, VoidQName)>>
        \/ P = <<Prod("ED", GR_VOID_NON_TERMINAL, VoidQName)>>
    BY <1>1, <1>2, <1>5, RuleOnTop
  <2>2. \A y : k \in 1..Len(<<y>>) => <<y>>[k] = y
    OBVIOUS
  <2>3. \/ p = Prod("SE_ALL", GR_DOC_END, VoidQName)
        \/ p = Prod("ED", GR_VOID_NON_TERMINAL, VoidQName)
    BY <1>3, <2>1, <2>2, Zenon
  <2>4. \/ p.event = "SE_ALL" /\ p.nonTerm = GR_DOC_END
        \/ p.event = "ED" /\ p.nonTerm = GR_VOID_NON_TERMINAL
    BY <2>3 DEF Prod
  <2>5. QED
    BY <1>1, <1>4, <1>5, <2>4, Classes, Zenon DEF Matched
<1>6. CASE i # DOC
  <2>1. i \in 1..Len(g) /\ n \in {0, 1} /\ LearnedProd(u, n + 1, p)
    <3>1. /\ i \in 1..Len(g) /\ n \in {0, 1}
          /\ \A m \in 1..Len(P) : LearnedProd(u, n + 1, P[m])
      BY <1>1, <1>2, <1>6, RuleOnTop
    <3>2. QED
      BY <1>3, <3>1, Zenon
  <2>2. ASSUME KnownId(u, p.qnameId), class \in {"SE", "AT"}
        PROVE  Says(u, p.qnameId, q)
    <3>1. p.qnameId # VoidQName
      <4>1. p.qnameId.uriId \in 0..Len(u)-1
        BY <2>2, Zenon DEF KnownId
      <4>2. Len(u) \in 0..URI_MAX
        BY Zenon DEF Fits
      <4>3. p.qnameId.uriId # URI_MAX
        BY <4>1, <4>2, Sizes
      <4>4. VoidQName.uriId = URI_MAX
        BY DEF VoidQName
      <4>5. QED
        BY <4>3, <4>4, Zenon
    <3>2. QED
      BY <2>2, <3>1, Zenon DEF MatchesIn, Says
  <2>3. n + 1 = 1 => n = GR_START_TAG_CONTENT
    BY <2>1 DEF GR_START_TAG_CONTENT
  <2>4. QED
    BY <1>1, <1>4, <1>6, <2>1, <2>2, <2>3, Classes, Zenon DEF LearnedProd, Matched
<1>7. QED
  BY <1>5, <1>6, Zenon

(* An event that matches nothing has not been learned.                      *)
LEMMA NotLearned ==
  ASSUME NEW u \in UriTableT, NEW g, Grammars(u, g), RulesFit(g), NEW t, Stack(u, g, t),
         Head(t).currNonTermID # GR_VOID_NON_TERMINAL, Head(t).grammar # DOC,
         NEW class, NEW q,
         \A k \in 1..Len(RuleOf(g, t).production) :
           ~MatchesIn(u, class, q, RuleOf(g, t).production[k])
  PROVE  LET R == Prods(g, Head(t).grammar, Head(t).currNonTermID + 1)
         IN /\ class = "EE" => \A k \in 1..Len(R) :
                 R[k] # Prod("EE", GR_VOID_NON_TERMINAL, VoidQName)
            /\ class = "CH" => \A k \in 1..Len(R) :
                 R[k] # Prod("CH", GR_ELEMENT_CONTENT, VoidQName)
            /\ \A v \in UriTableT : \A id : Grows(u, v) /\ Says(v, id, q) => \A k \in 1..Len(R) :
                 /\ class = "SE" => R[k] # Prod("SE_QNAME", GR_ELEMENT_CONTENT, id)
                 /\ class = "AT" => R[k] # Prod("AT_QNAME", GR_START_TAG_CONTENT, id)
<1>1. PICK R : R = Prods(g, Head(t).grammar, Head(t).currNonTermID + 1)
  OBVIOUS
<1>2. PICK m : m = Head(t).currNonTermID + 1
  OBVIOUS
<1>3. \A k \in 1..Len(R) : LearnedProd(u, m, R[k]) /\ ~MatchesIn(u, class, q, R[k])
  BY <1>1, <1>2, RuleOnTop
<1>4. \A e, n, id : /\ Prod(e, n, id).event = e
                    /\ Prod(e, n, id).qnameId = id
  BY DEF Prod
<1>5. ASSUME NEW k \in 1..Len(R), class = "EE",
             R[k] = Prod("EE", GR_VOID_NON_TERMINAL, VoidQName)
      PROVE  FALSE
  <2>1. R[k].event = "EE"
    BY <1>4, <1>5
  <2>2. MatchesIn(u, class, q, R[k])
    BY <1>5, <2>1, Classes, Zenon DEF MatchesIn
  <2>3. QED
    BY <1>3, <2>2
<1>6. ASSUME NEW k \in 1..Len(R), class = "CH",
             R[k] = Prod("CH", GR_ELEMENT_CONTENT, VoidQName)
      PROVE  FALSE
  <2>1. R[k].event = "CH"
    BY <1>4, <1>6
  <2>2. MatchesIn(u, class, q, R[k])
    BY <1>6, <2>1, Classes, Zenon DEF MatchesIn
  <2>3. QED
    BY <1>3, <2>2
<1>7. ASSUME NEW v \in UriTableT, NEW id, Grows(u, v), Says(v, id, q), NEW k \in 1..Len(R),
             \/ class = "SE" /\ R[k] = Prod("SE_QNAME", GR_ELEMENT_CONTENT, id)
             \/ class = "AT" /\ R[k] = Prod("AT_QNAME", GR_START_TAG_CONTENT, id)
      PROVE  FALSE
  <2>1. /\ \/ class = "SE" /\ R[k].event = "SE_QNAME"
           \/ class = "AT" /\ R[k].event = "AT_QNAME"
        /\ R[k].qnameId = id
    <3>1. /\ \A n : Prod("SE_QNAME", n, id).event = "SE_QNAME" /\ Prod("SE_QNAME", n, id).qnameId = id
          /\ \A n : Prod("AT_QNAME", n, id).event = "AT_QNAME" /\ Prod("AT_QNAME", n, id).qnameId = id
      BY <1>4, Zenon
    <3>2. QED
      BY <1>7, <3>1, Zenon
  <2>2. KnownId(u, id)
    BY <1>3, <2>1, Zenon DEF LearnedProd
  <2>3. Says(u, id, q)
    BY <1>7, <2>2, KnownIds, Zenon DEF Says
  <2>4. MatchesIn(u, class, q, R[k])
    BY <2>1, <2>3, Classes, Zenon DEF MatchesIn, Says
  <2>5. QED
    BY <1>3, <2>4
<1>8. QED
  BY <1>1, <1>5, <1>6, <1>7, Zenon
-----------------------------------------------------------------------------
(* What the serializer may encode, and how.                                 *)

(* CanEncode: a first-level code, or a second-level one.                    *)
LEMMA Codable ==
  ASSUME NEW o, NEW b, NEW u, NEW g, NEW t, NEW c, NEW x,
         enc = Strm(o,"EXIP_OK",b,u,g,t,c,x),
         NEW class \in {"EE", "AT", "NS", "SE", "CH", "ED"}, NEW q, CanEncode(class, q)
  PROVE  /\ Head(t).currNonTermID # GR_VOID_NON_TERMINAL
         /\ \/ FirstLevelCode(enc, class, q) >= 0
            \/ /\ Head(t).grammar # DOC /\ class # "ED"
               /\ SecondLevelClass(o, t, class)
<1>1. Top(enc) = Head(t) /\ (BuiltIn(enc) <=> Head(t).grammar # DOC) /\ enc.opts = o
  BY CurrentRules, Accesses
<1>2. Head(t).currNonTermID # GR_VOID_NON_TERMINAL
  BY <1>1, Zenon DEF CanEncode
<1>3. CASE ~(FirstLevelCode(enc, class, q) >= 0)
  <2>1. /\ BuiltIn(enc)
        /\ CASE class \in {"SE", "CH"} -> TRUE
             [] class = "NS" -> /\ Top(enc).currNonTermID = GR_START_TAG_CONTENT
                                /\ "prefixes" \in enc.opts
             [] class \in {"AT", "EE"} -> Top(enc).currNonTermID = GR_START_TAG_CONTENT
             [] OTHER -> FALSE
    BY <1>3, Zenon DEF CanEncode
  <2>2. /\ class # "ED"
        /\ class = "NS" => /\ Top(enc).currNonTermID = GR_START_TAG_CONTENT
                           /\ "prefixes" \in enc.opts
        /\ class \in {"AT", "EE"} => Top(enc).currNonTermID = GR_START_TAG_CONTENT
    BY <2>1
  <2>3. QED
    BY <1>1, <1>2, <2>1, <2>2, Zenon DEF SecondLevelClass
<1>4. QED
  BY <1>2, <1>3, Zenon

(* The two ways to encode an event: by a production that is there, or by a  *)
(* second-level code and what is learned.                                   *)
Hit(s, o, b, u, g, t, c, x, class, q, p, f) ==
  /\ FirstLevelCode(s, class, q) >= 0
  /\ Matched(u, t, class, q, p)
  /\ ProductionOf(s, FirstLevelCode(s, class, q)) = p
  /\ encodeProduction(s, class, q) = Strm(o,"EXIP_OK",b \o f,u,g,Moved(t, p.nonTerm),c,x)
  /\ HandledAs(o, u, g, t, f, p)

Miss(s, o, u, g, t, class, q, f) ==
  /\ ~(FirstLevelCode(s, class, q) >= 0)
  /\ class # "ED" /\ Head(t).grammar # DOC /\ SecondLevelClass(o, t, class)
  /\ \A k \in 1..Len(RuleOf(g, t).production) :
       ~MatchesIn(u, class, q, RuleOf(g, t).production[k])
  /\ encodeProduction(s, class, q) = Write(Learn(s, class, q), f)
  /\ LearnedAs(o, u, g, t, f, class)

(* encodeProduction either hits the production of the event or learns one;  *)
(* nothing else passes CanEncode.                                           *)
LEMMA Coded ==
  ASSUME NEW o, NEW b \in Seq(FieldT), NEW u, NEW g, NEW t, NEW c, NEW x,
         enc = Strm(o,"EXIP_OK",b,u,g,t,c,x),
         Side(u, g, t), Fits(u), RulesFit(g),
         NEW class \in {"EE", "AT", "NS", "SE", "CH", "ED"}, NEW q, CanEncode(class, q)
  PROVE  /\ Head(t).currNonTermID # GR_VOID_NON_TERMINAL
         /\ \/ \E p \in ProdT, f \in Seq(FieldT) : Hit(enc, o, b, u, g, t, c, x, class, q, p, f)
            \/ \E f \in Seq(FieldT) : Miss(enc, o, u, g, t, class, q, f)
<1>1. Head(t).currNonTermID # GR_VOID_NON_TERMINAL
  BY Codable, Zenon
<1>2. RuleOf(g, t).production \in Seq(ProdT) /\ Len(RuleOf(g, t).production) < URI_MAX
  BY <1>1, RuleOnTop DEF Side
<1>3. CASE FirstLevelCode(enc, class, q) >= 0
  <2>1. \E p \in ProdT, f \in Seq(FieldT) :
          /\ MatchesIn(u, class, q, p)
          /\ \E k \in 1..Len(RuleOf(g, t).production) : RuleOf(g, t).production[k] = p
          /\ ProductionOf(enc, FirstLevelCode(enc, class, q)) = p
          /\ encodeProduction(enc, class, q) =
               Strm(o,"EXIP_OK",b \o f,u,g,Moved(t, p.nonTerm),c,x)
          /\ HandledAs(o, u, g, t, f, p)
    <3>1. FirstLevelCode(Strm(o,"EXIP_OK",b,u,g,t,c,x), class, q) >= 0
      BY <1>3
    <3>2. \E p \in ProdT, f \in Seq(FieldT) :
            /\ MatchesIn(u, class, q, p)
            /\ \E k \in 1..Len(RuleOf(g, t).production) : RuleOf(g, t).production[k] = p
            /\ ProductionOf(Strm(o,"EXIP_OK",b,u,g,t,c,x),
                 FirstLevelCode(Strm(o,"EXIP_OK",b,u,g,t,c,x), class, q)) = p
            /\ encodeProduction(Strm(o,"EXIP_OK",b,u,g,t,c,x), class, q) =
                 Strm(o,"EXIP_OK",b \o f,u,g,Moved(t, p.nonTerm),c,x)
            /\ HandledAs(o, u, g, t, f, p)
      BY <1>2, <3>1, HitCodes
    <3>3. QED
      BY <3>2
  <2>2. PICK p \in ProdT, f \in Seq(FieldT) :
          /\ MatchesIn(u, class, q, p)
          /\ \E k \in 1..Len(RuleOf(g, t).production) : RuleOf(g, t).production[k] = p
          /\ ProductionOf(enc, FirstLevelCode(enc, class, q)) = p
          /\ encodeProduction(enc, class, q) =
               Strm(o,"EXIP_OK",b \o f,u,g,Moved(t, p.nonTerm),c,x)
          /\ HandledAs(o, u, g, t, f, p)
    BY <2>1, Zenon
  <2>3. Matched(u, t, class, q, p)
    BY <1>1, <2>2, MatchedProds, Zenon DEF Side
  <2>4. QED
    BY <1>1, <1>3, <2>2, <2>3, Zenon DEF Hit
<1>4. CASE ~(FirstLevelCode(enc, class, q) >= 0)
  <2>1. FirstLevelCode(Strm(o,"EXIP_OK",b,u,g,t,c,x), class, q) < 0
    <3>1. FirstLevelCode(Strm(o,"EXIP_OK",b,u,g,t,c,x), class, q) \in
            -1..Len(RuleOf(g, t).production)-1
      BY <1>2, FirstLevelCodes
    <3>2. PICK code : code = FirstLevelCode(Strm(o,"EXIP_OK",b,u,g,t,c,x), class, q)
      OBVIOUS
    <3>3. code \in Int /\ ~(code >= 0)
      <4>1. Len(RuleOf(g, t).production) \in Nat
        BY <1>2, LenProperties
      <4>2. PICK n \in Nat : n = Len(RuleOf(g, t).production)
        BY <4>1, Zenon
      <4>3. code \in -1..n-1 /\ ~(code >= 0)
        BY <1>4, <3>1, <3>2, <4>2, Zenon
      <4>4. QED
        BY <4>3
    <3>4. code < 0
      BY <3>3
    <3>5. QED
      BY <3>2, <3>4, Zenon
  <2>2. Head(t).grammar # DOC /\ class # "ED" /\ SecondLevelClass(o, t, class)
    BY <1>4, Codable, Zenon
  <2>3. \E f \in Seq(FieldT) :
          /\ \A k \in 1..Len(RuleOf(g, t).production) :
               ~MatchesIn(u, class, q, RuleOf(g, t).production[k])
          /\ encodeProduction(enc, class, q) = Write(Learn(enc, class, q), f)
          /\ LearnedAs(o, u, g, t, f, class)
    <3>1. \E f \in Seq(FieldT) : Missed(o, b, u, g, t, c, x, class, q, f)
      BY <1>2, <2>1, <2>2, MissCodes
    <3>2. QED
      BY <3>1, Zenon DEF Missed
  <2>4. QED
    BY <1>1, <1>4, <2>2, <2>3, Zenon DEF Miss
<1>5. QED
  BY <1>3, <1>4, Zenon
-----------------------------------------------------------------------------
(* The parser, event by event.                                              *)

(* What it has left on its stack; the serializer keeps the grammar of a     *)
(* document that is complete.                                               *)
ParserStack(t) == IF Head(t).currNonTermID = GR_VOID_NON_TERMINAL THEN <<>> ELSE t

(* From the tables u, g and t the parser reads f as the event ev, and comes *)
(* to the tables v, h and r.                                                *)
Leads(o, f, u, g, t, v, h, r, ev) ==
  \A rest \in Seq(FieldT) : \A c, x : \E c2 :
    LET p == processNextProduction(Strm(o,"EXIP_OK",f \o rest,u,g,t,c,x))
    IN /\ p.event = ev
       /\ Advanced(p) = Strm(o,"EXIP_OK",rest,v,h,ParserStack(r),c2,x)

(* parseNext after an event without an error.                               *)
LEMMA Advances ==
  ASSUME NEW o, NEW b, NEW u, NEW g, NEW t, NEW c, NEW x, NEW ev, NEW n
  PROVE  LET p == Parsed(Strm(o,"EXIP_OK",b,u,g,t,c,x), ev, n)
         IN /\ p.event = ev
            /\ n = GR_VOID_NON_TERMINAL => Advanced(p) = Strm(o,"EXIP_OK",b,u,g,Tail(t),c,x)
            /\ n # GR_VOID_NON_TERMINAL => Advanced(p) = Strm(o,"EXIP_OK",b,u,g,Moved(t, n),c,x)
<1>1. PICK s : s = Strm(o,"EXIP_OK",b,u,g,t,c,x)
  OBVIOUS
<1>2. PICK p : p = Parsed(s, ev, n)
  OBVIOUS
<1>3. p.s = s /\ p.event = ev /\ p.nonTerm = n
  BY <1>2, Parsing
<1>4. s.err = "EXIP_OK"
  BY <1>1 DEF Strm
<1>5. Advanced(p) = IF n = GR_VOID_NON_TERMINAL THEN popGrammar(s) ELSE SetNonTerm(s, n)
  BY <1>3, <1>4, Zenon DEF Advanced
<1>6. popGrammar(s) = Strm(o,"EXIP_OK",b,u,g,Tail(t),c,x)
  BY <1>1, Popping
<1>7. SetNonTerm(s, n) = Strm(o,"EXIP_OK",b,u,g,Moved(t, n),c,x)
  BY <1>1, Moving
<1>8. QED
  BY <1>1, <1>2, <1>3, <1>5, <1>6, <1>7, Zenon

(* The productions.                                                         *)
LEMMA Handling ==
  ASSUME NEW s, NEW p
  PROVE  /\ p.event = "EE" => handleProduction(s, p) = Parsed(s, Plain("EE"), p.nonTerm)
         /\ p.event = "ED" => handleProduction(s, p) = Parsed(s, Plain("ED"), p.nonTerm)
         /\ p.event = "SE_ALL" => handleProduction(s, p) = DecodeSE(s, p.nonTerm)
         /\ p.event = "SE_QNAME" =>
              handleProduction(s, p) = DecodeLearnedSE(s, p.qnameId, p.nonTerm)
         /\ p.event = "AT_QNAME" =>
              handleProduction(s, p) =
                DecodeAttributeOf(decodePfxQname(s, p.qnameId.uriId), p.qnameId)
         /\ p.event = "CH" => handleProduction(s, p) = DecodeCH(s)
  BY DEF handleProduction

(* The second-level events ...                                              *)
LEMMA SecondLevelEvents ==
  ASSUME NEW s
  PROVE  /\ SecondLevelEvent(s, "EE") = Parsed(s, Plain("EE"), GR_VOID_NON_TERMINAL)
         /\ SecondLevelEvent(s, "AT") = DecodeAT(s)
         /\ SecondLevelEvent(s, "NS") = decodeNSEvent(s)
         /\ SecondLevelEvent(s, "SE") = DecodeSE(s, GR_ELEMENT_CONTENT)
         /\ SecondLevelEvent(s, "CH") = DecodeCH(s)
  BY DEF SecondLevelEvent

(* ... and what is learned from them.                                       *)
LEMMA LearningParsed ==
  ASSUME NEW o, NEW b, NEW u, NEW g, NEW t, NEW c, NEW x, NEW ev, NEW k, NEW i, NEW n
  PROVE  LET p == Parsed(Strm(o,"EXIP_OK",b,u,g,t,c,x), ev, k)
             after(h) == Parsed(Strm(o,"EXIP_OK",b,u,h,t,c,x), ev, k)
         IN /\ LearnParsed(p, "EE", i, n) =
                 after(ProdAdded(g, i, n, Prod("EE", GR_VOID_NON_TERMINAL, VoidQName)))
            /\ LearnParsed(p, "AT", i, n) = after(AttrAdded(g, i, c))
            /\ LearnParsed(p, "NS", i, n) = p
            /\ LearnParsed(p, "SE", i, n) =
                 after(ProdAdded(g, i, n, Prod("SE_QNAME", GR_ELEMENT_CONTENT, Head(t).currQNameID)))
            /\ LearnParsed(p, "CH", i, n) =
                 after(ProdAdded(g, i, n, Prod("CH", GR_ELEMENT_CONTENT, VoidQName)))
<1>1. PICK s : s = Strm(o,"EXIP_OK",b,u,g,t,c,x)
  OBVIOUS
<1>2. PICK p : p = Parsed(s, ev, k)
  OBVIOUS
<1>3. p.s = s /\ \A r : [p EXCEPT !.s = r] = Parsed(r, ev, k)
  BY <1>2, Parsing
<1>4. s.err = "EXIP_OK" /\ s.currAttr = c
  BY <1>1 DEF Strm
<1>5. Top(s) = Head(t)
  BY <1>1, CurrentRules
<1>6. ASSUME NEW y
      PROVE  insertZeroProduction(s, i, n, y) = Strm(o,"EXIP_OK",b,u,ProdAdded(g, i, n, y),t,c,x)
  BY <1>1, Inserting
<1>7. LearnAttribute(s, i, c) = Strm(o,"EXIP_OK",b,u,AttrAdded(g, i, c),t,c,x)
  BY <1>1, LearningAttributes
<1>8. /\ LearnParsed(p, "NS", i, n) = p
      /\ LearnParsed(p, "EE", i, n) =
           [p EXCEPT !.s = insertZeroProduction(p.s, i, n, Prod("EE", GR_VOID_NON_TERMINAL, VoidQName))]
      /\ LearnParsed(p, "CH", i, n) =
           [p EXCEPT !.s = insertZeroProduction(p.s, i, n, Prod("CH", GR_ELEMENT_CONTENT, VoidQName))]
  BY <1>3, <1>4 DEF LearnParsed
<1>9. LearnParsed(p, "AT", i, n) = [p EXCEPT !.s = LearnAttribute(p.s, i, p.s.currAttr)]
  BY <1>3, <1>4 DEF LearnParsed
<1>10. LearnParsed(p, "SE", i, n) =
         [p EXCEPT !.s = insertZeroProduction(p.s, i, n,
            Prod("SE_QNAME", GR_ELEMENT_CONTENT, Top(p.s).currQNameID))]
  BY <1>3, <1>4 DEF LearnParsed
<1> DEFINE after(h) == Parsed(Strm(o,"EXIP_OK",b,u,h,t,c,x), ev, k)
<1>11. ASSUME NEW y
       PROVE  [p EXCEPT !.s = insertZeroProduction(p.s, i, n, y)] = after(ProdAdded(g, i, n, y))
  <2>1. insertZeroProduction(p.s, i, n, y) = Strm(o,"EXIP_OK",b,u,ProdAdded(g, i, n, y),t,c,x)
    BY <1>3, <1>6, Zenon
  <2>2. QED
    BY <1>3, <2>1, Zenon
<1>12. [p EXCEPT !.s = LearnAttribute(p.s, i, p.s.currAttr)] = after(AttrAdded(g, i, c))
  <2>1. LearnAttribute(p.s, i, p.s.currAttr) = Strm(o,"EXIP_OK",b,u,AttrAdded(g, i, c),t,c,x)
    BY <1>3, <1>4, <1>7, Zenon
  <2>2. QED
    BY <1>3, <2>1, Zenon
<1>13. Top(p.s).currQNameID = Head(t).currQNameID
  BY <1>3, <1>5, Zenon
<1> HIDE DEF after
<1>14. /\ LearnParsed(p, "EE", i, n) =
            after(ProdAdded(g, i, n, Prod("EE", GR_VOID_NON_TERMINAL, VoidQName)))
       /\ LearnParsed(p, "AT", i, n) = after(AttrAdded(g, i, c))
       /\ LearnParsed(p, "NS", i, n) = p
       /\ LearnParsed(p, "SE", i, n) =
            after(ProdAdded(g, i, n, Prod("SE_QNAME", GR_ELEMENT_CONTENT, Head(t).currQNameID)))
       /\ LearnParsed(p, "CH", i, n) =
            after(ProdAdded(g, i, n, Prod("CH", GR_ELEMENT_CONTENT, VoidQName)))
  BY <1>8, <1>9, <1>10, <1>11, <1>12, <1>13, Zenon
<1>15. QED
  BY <1>1, <1>2, <1>14, Zenon DEF after
-----------------------------------------------------------------------------
(* Both sides, event by event.                                              *)

(* The parser comes to an event and a non-terminal without an error ...     *)
ParsedAs(o, f, u, g, t, v, h, r, ev, n) ==
  \A rest \in Seq(FieldT) : \A c, x : \E c2 :
    processNextProduction(Strm(o,"EXIP_OK",f \o rest,u,g,t,c,x)) =
      Parsed(Strm(o,"EXIP_OK",rest,v,h,r,c2,x), ev, n)

(* ... and moves or leaves the grammar on top.                              *)
LEMMA LeadingTo ==
  ASSUME NEW o, NEW f, NEW u, NEW g, NEW t, NEW v, NEW h, NEW r, NEW ev, NEW n, NEW r2,
         ParsedAs(o, f, u, g, t, v, h, r, ev, n),
         n = GR_VOID_NON_TERMINAL => ParserStack(r2) = Tail(r),
         n # GR_VOID_NON_TERMINAL => ParserStack(r2) = Moved(r, n)
  PROVE  Leads(o, f, u, g, t, v, h, r2, ev)
<1>1. ASSUME NEW rest \in Seq(FieldT), NEW c, NEW x
      PROVE  \E c2 :
               /\ processNextProduction(Strm(o,"EXIP_OK",f \o rest,u,g,t,c,x)).event = ev
               /\ Advanced(processNextProduction(Strm(o,"EXIP_OK",f \o rest,u,g,t,c,x))) =
                    Strm(o,"EXIP_OK",rest,v,h,ParserStack(r2),c2,x)
  <2>1. PICK p : p = processNextProduction(Strm(o,"EXIP_OK",f \o rest,u,g,t,c,x))
    OBVIOUS
  <2>2. PICK c2 : p = Parsed(Strm(o,"EXIP_OK",rest,v,h,r,c2,x), ev, n)
    BY <2>1, Zenon DEF ParsedAs
  <2>3. LET y == Parsed(Strm(o,"EXIP_OK",rest,v,h,r,c2,x), ev, n)
        IN /\ y.event = ev
           /\ n = GR_VOID_NON_TERMINAL => Advanced(y) = Strm(o,"EXIP_OK",rest,v,h,Tail(r),c2,x)
           /\ n # GR_VOID_NON_TERMINAL => Advanced(y) = Strm(o,"EXIP_OK",rest,v,h,Moved(r, n),c2,x)
    BY Advances
  <2>5. p.event = ev /\ Advanced(p) = Strm(o,"EXIP_OK",rest,v,h,ParserStack(r2),c2,x)
    BY <2>2, <2>3, Zenon
  <2>4. QED
    BY <2>1, <2>5, Zenon
<1>2. QED
  BY <1>1, Zenon DEF Leads

(* The productions that are learned.                                        *)
LEMMA ProdTypes ==
  /\ Prod("EE", GR_VOID_NON_TERMINAL, VoidQName) \in ProdT
  /\ Prod("CH", GR_ELEMENT_CONTENT, VoidQName) \in ProdT
  /\ \A id \in QNameId : Prod("SE_QNAME", GR_ELEMENT_CONTENT, id) \in ProdT
  /\ \A u, n : /\ LearnedProd(u, n, Prod("EE", GR_VOID_NON_TERMINAL, VoidQName))
               /\ LearnedProd(u, n, Prod("CH", GR_ELEMENT_CONTENT, VoidQName))
<1>1. VoidQName \in QNameId
  BY Sizes DEF VoidQName, QNameId
<1>2. {"EE", "CH", "SE_QNAME"} \subseteq DOMAIN EventClass
  BY DEF EventClass
<1>3. GR_VOID_NON_TERMINAL \in Nat /\ GR_ELEMENT_CONTENT \in Nat
  BY DEF GR_VOID_NON_TERMINAL, GR_ELEMENT_CONTENT
<1>4. \A e \in DOMAIN EventClass, n \in Nat, id \in QNameId : Prod(e, n, id) \in ProdT
  BY DEF Prod, ProdT
<1>5. \A e, n, id : Prod(e, n, id).event = e /\ Prod(e, n, id).nonTerm = n
  BY DEF Prod
<1>6. \A id \in QNameId : /\ Prod("EE", GR_VOID_NON_TERMINAL, id) \in ProdT
                          /\ Prod("CH", GR_ELEMENT_CONTENT, id) \in ProdT
                          /\ Prod("SE_QNAME", GR_ELEMENT_CONTENT, id) \in ProdT
  BY <1>2, <1>3, <1>4
<1>7. \A u, n : /\ LearnedProd(u, n, Prod("EE", GR_VOID_NON_TERMINAL, VoidQName))
               /\ LearnedProd(u, n, Prod("CH", GR_ELEMENT_CONTENT, VoidQName))
  <2>1. ASSUME NEW u, NEW n, NEW p, p.event = "EE", p.nonTerm = GR_VOID_NON_TERMINAL
        PROVE  LearnedProd(u, n, p)
    BY <2>1, Zenon DEF LearnedProd
  <2>2. ASSUME NEW u, NEW n, NEW p, p.event = "CH", p.nonTerm = GR_ELEMENT_CONTENT
        PROVE  LearnedProd(u, n, p)
    BY <2>2, Zenon DEF LearnedProd
  <2>3. ASSUME NEW u, NEW n
        PROVE  /\ LearnedProd(u, n, Prod("EE", GR_VOID_NON_TERMINAL, VoidQName))
               /\ LearnedProd(u, n, Prod("CH", GR_ELEMENT_CONTENT, VoidQName))
    <3>1. PICK p : p = Prod("EE", GR_VOID_NON_TERMINAL, VoidQName)
      OBVIOUS
    <3>2. PICK r : r = Prod("CH", GR_ELEMENT_CONTENT, VoidQName)
      OBVIOUS
    <3>3. /\ p.event = "EE" /\ p.nonTerm = GR_VOID_NON_TERMINAL
          /\ r.event = "CH" /\ r.nonTerm = GR_ELEMENT_CONTENT
      BY <1>5, <3>1, <3>2, Zenon
    <3>4. LearnedProd(u, n, p) /\ LearnedProd(u, n, r)
      BY <2>1, <2>2, <3>3, Zenon
    <3>5. QED
      BY <3>1, <3>2, <3>4, Zenon
  <2>4. QED
    BY <2>3, Zenon
<1>8. QED
  BY <1>1, <1>6, <1>7, Zenon

(* A rule of an open element learns.                                        *)
LEMMA SideOfLearned ==
  ASSUME NEW u, NEW g, NEW h, NEW t, Side(u, g, t), Grammars(u, h), Len(h) = Len(g)
  PROVE  Side(u, h, t)
<1>1. Names(u) /\ GrammarsIn(u, Len(g)) /\ Stack(u, g, t) /\ g \in GrammarTableT
  BY Zenon DEF Side, Grammars
<1>2. Len(g) \in Nat /\ u \in UriTableT
  BY <1>1, LenProperties DEF GrammarTableT, Names
<1>3. PICK n : n = Len(g)
  OBVIOUS
<1>4. n <= n
  BY <1>2, <1>3
<1>5. Stack(u, h, t)
  BY <1>1, <1>2, <1>3, <1>4, GrowsItself, StackOfMore, Zenon
<1>6. QED
  BY <1>1, <1>5, Zenon DEF Side

(* Below an open element no grammar is complete.                            *)
LEMMA BelowTop ==
  ASSUME NEW u, NEW g, NEW t, Stack(u, g, t), Head(t).grammar # DOC
  PROVE  ParserStack(Tail(t)) = Tail(t)
<1>1. t \in Seq(NodeT) /\ Len(t) \in Nat /\ 1 < Len(t)
  BY Tops
<1>2. PICK n \in Nat : n = Len(t) /\ 1 < n
  BY <1>1, Zenon
<1>3. Head(Tail(t)) = t[2]
  BY <1>1
<1>4. 2 \in 1..n /\ n # 1
  BY <1>2
<1>5. OpenNode(u, g, t[2]) \/ (2 = n /\ DocNode(t))
  <2>1. \A i \in 1..n : i # n => OpenNode(u, g, t[i])
    BY <1>2, Zenon DEF Stack
  <2>2. DocNode(t)
    BY Zenon DEF Stack
  <2>3. QED
    BY <1>4, <2>1, <2>2, Zenon
<1>6. t[2].currNonTermID # GR_VOID_NON_TERMINAL
  <2>1. OpenNode(u, g, t[2]) => t[2].currNonTermID # GR_VOID_NON_TERMINAL
    BY DEF OpenNode, GR_START_TAG_CONTENT, GR_ELEMENT_CONTENT, GR_VOID_NON_TERMINAL
  <2>2. ASSUME 2 = n, DocNode(t) PROVE t[2].currNonTermID # GR_VOID_NON_TERMINAL
    <3>1. 2 = Len(t) /\ Len(t) # 1
      <4>1. 2 = Len(t)
        BY <1>2, <2>2, Zenon
      <4>2. QED
        BY <4>1
    <3>2. t[2].currNonTermID \in {GR_DOC_CONTENT, GR_DOC_END}
      BY <2>2, <3>1, Zenon DEF DocNode
    <3>3. QED
      BY <3>2 DEF GR_DOC_CONTENT, GR_DOC_END, GR_VOID_NON_TERMINAL
  <2>3. QED
    BY <1>5, <2>1, <2>2
<1>7. QED
  BY <1>3, <1>6, Zenon DEF ParserStack

(* The serializer has written an event that the parser reads from the       *)
(* tables the serializer had before.                                        *)
Encoded(o, b, u, g, t, x, s, ev) ==
  \E f \in Seq(FieldT) : \E v, h, r, c :
    /\ s = Strm(o,"EXIP_OK",b \o f,v,h,r,c,x)
    /\ Side(v, h, r)
    /\ Leads(o, f, u, g, t, v, h, r, ev)

(* Nothing written is nothing read.                                         *)
LEMMA NoFields ==
  ASSUME NEW f \in Seq(FieldT)
  PROVE  /\ <<>> \in Seq(FieldT)
         /\ f \o <<>> = f
         /\ <<>> \o f = f
  OBVIOUS

(* A production that was matched, with the content f2 of its event ...      *)
Handles(o, u, g, t, p, f2, v, h, r, ev, n) ==
  \A rest \in Seq(FieldT) : \A c, x : \E c2 :
    handleProduction(Strm(o,"EXIP_OK",f2 \o rest,u,g,t,c,x), p) =
      Parsed(Strm(o,"EXIP_OK",rest,v,h,r,c2,x), ev, n)

(* A first-level event is parsed when its code and its content are.         *)
LEMMA HandledParsed ==
  ASSUME NEW o, NEW u, NEW g, NEW t, NEW p, NEW f \in Seq(FieldT), NEW f2 \in Seq(FieldT),
         NEW v, NEW h, NEW r, NEW ev, NEW n,
         HandledAs(o, u, g, t, f, p), Handles(o, u, g, t, p, f2, v, h, r, ev, n)
  PROVE  f \o f2 \in Seq(FieldT) /\ ParsedAs(o, f \o f2, u, g, t, v, h, r, ev, n)
<1>1. f \o f2 \in Seq(FieldT)
  OBVIOUS
<1>2. ASSUME NEW rest \in Seq(FieldT), NEW c, NEW x
      PROVE  \E c2 : processNextProduction(Strm(o,"EXIP_OK",(f \o f2) \o rest,u,g,t,c,x)) =
                       Parsed(Strm(o,"EXIP_OK",rest,v,h,r,c2,x), ev, n)
  <2>1. (f \o f2) \o rest = f \o (f2 \o rest) /\ f2 \o rest \in Seq(FieldT)
    BY Assoc
  <2>2. PICK y \in Seq(FieldT) : y = f2 \o rest
    BY <2>1, Zenon
  <2>3. processNextProduction(Strm(o,"EXIP_OK",f \o y,u,g,t,c,x)) =
          handleProduction(Strm(o,"EXIP_OK",y,u,g,t,c,x), p)
    BY Zenon DEF HandledAs
  <2>4. PICK c2 : handleProduction(Strm(o,"EXIP_OK",f2 \o rest,u,g,t,c,x), p) =
                    Parsed(Strm(o,"EXIP_OK",rest,v,h,r,c2,x), ev, n)
    BY Zenon DEF Handles
  <2>5. QED
    BY <2>1, <2>2, <2>3, <2>4, Zenon
<1>3. QED
  BY <1>1, <1>2, Zenon DEF ParsedAs

(* ... and a second-level event with its content.                           *)
Learns(o, u, g, t, class, f2, v, h, r, ev, n) ==
  \A rest \in Seq(FieldT) : \A c, x : \E c2 :
    LearnParsed(SecondLevelEvent(Strm(o,"EXIP_OK",f2 \o rest,u,g,t,c,x), class),
                class, Head(t).grammar, Head(t).currNonTermID) =
      Parsed(Strm(o,"EXIP_OK",rest,v,h,r,c2,x), ev, n)

(* A second-level event is parsed when its code and its content are.        *)
LEMMA LearnedParsed ==
  ASSUME NEW o, NEW u, NEW g, NEW t, NEW class, NEW f \in Seq(FieldT), NEW f2 \in Seq(FieldT),
         NEW v, NEW h, NEW r, NEW ev, NEW n,
         LearnedAs(o, u, g, t, f, class), Learns(o, u, g, t, class, f2, v, h, r, ev, n)
  PROVE  f \o f2 \in Seq(FieldT) /\ ParsedAs(o, f \o f2, u, g, t, v, h, r, ev, n)
<1>1. f \o f2 \in Seq(FieldT)
  OBVIOUS
<1>2. ASSUME NEW rest \in Seq(FieldT), NEW c, NEW x
      PROVE  \E c2 : processNextProduction(Strm(o,"EXIP_OK",(f \o f2) \o rest,u,g,t,c,x)) =
                       Parsed(Strm(o,"EXIP_OK",rest,v,h,r,c2,x), ev, n)
  <2>1. (f \o f2) \o rest = f \o (f2 \o rest) /\ f2 \o rest \in Seq(FieldT)
    BY Assoc
  <2>2. PICK y \in Seq(FieldT) : y = f2 \o rest
    BY <2>1, Zenon
  <2>3. processNextProduction(Strm(o,"EXIP_OK",f \o y,u,g,t,c,x)) =
          LearnParsed(SecondLevelEvent(Strm(o,"EXIP_OK",y,u,g,t,c,x), class),
                      class, Head(t).grammar, Head(t).currNonTermID)
    BY Zenon DEF LearnedAs
  <2>4. PICK c2 :
          LearnParsed(SecondLevelEvent(Strm(o,"EXIP_OK",f2 \o rest,u,g,t,c,x), class),
                      class, Head(t).grammar, Head(t).currNonTermID) =
            Parsed(Strm(o,"EXIP_OK",rest,v,h,r,c2,x), ev, n)
    BY Zenon DEF Learns
  <2>5. QED
    BY <2>1, <2>2, <2>3, <2>4, Zenon
<1>3. QED
  BY <1>1, <1>2, Zenon DEF ParsedAs

(* The end of an element.                                                   *)
LEMMA EndingElements ==
  ASSUME NEW o, NEW b \in Seq(FieldT), NEW u, NEW g, NEW t, NEW c, NEW x,
         enc = Strm(o,"EXIP_OK",b,u,g,t,c,x),
         Side(u, g, t), Fits(u), RulesFit(g), CanEncode("EE", NoName)
  PROVE  Encoded(o, b, u, g, t, x, popGrammar(encodeProduction(enc, "EE", NoName)), Plain("EE"))
<1>1. PICK q : q = NoName
  OBVIOUS
<1>2. PICK i, n : i = Head(t).grammar /\ n = Head(t).currNonTermID
  OBVIOUS
<1>3. CanEncode("EE", q) /\ "EE" \in {"EE", "AT", "NS", "SE", "CH", "ED"}
  BY <1>1, Zenon
<1>4. n # GR_VOID_NON_TERMINAL
  BY <1>2, <1>3, Coded, Zenon
<1>5. Grammars(u, g) /\ Stack(u, g, t) /\ u \in UriTableT
  BY Zenon DEF Side, Names
<1>6. t \in Seq(NodeT) /\ Len(t) >= 1
  BY <1>5, Tops
<1>7. Tail(Moved(t, GR_VOID_NON_TERMINAL)) = Tail(t)
  BY <1>6, NoMoves DEF GR_VOID_NON_TERMINAL
<1>8. ASSUME NEW p \in ProdT, NEW f \in Seq(FieldT), Hit(enc, o, b, u, g, t, c, x, "EE", q, p, f)
      PROVE  Encoded(o, b, u, g, t, x, popGrammar(encodeProduction(enc, "EE", q)), Plain("EE"))
  <2>1. Head(t).grammar # DOC /\ p.event = "EE" /\ p.nonTerm = GR_VOID_NON_TERMINAL
    BY <1>8 DEF Hit, Matched
  <2>2. popGrammar(encodeProduction(enc, "EE", q)) = Strm(o,"EXIP_OK",b \o f,u,g,Tail(t),c,x)
    <3>1. popGrammar(Strm(o,"EXIP_OK",b \o f,u,g,Moved(t, GR_VOID_NON_TERMINAL),c,x)) =
            Strm(o,"EXIP_OK",b \o f,u,g,Tail(Moved(t, GR_VOID_NON_TERMINAL)),c,x)
      BY Popping
    <3>2. QED
      BY <1>7, <1>8, <2>1, <3>1, Zenon DEF Hit
  <2>3. Handles(o, u, g, t, p, <<>>, u, g, t, Plain("EE"), GR_VOID_NON_TERMINAL)
    <3>1. \A s : handleProduction(s, p) = Parsed(s, Plain("EE"), GR_VOID_NON_TERMINAL)
      BY <2>1, Handling, Zenon
    <3>2. \A rest \in Seq(FieldT) : <<>> \o rest = rest
      BY NoFields
    <3>3. QED
      BY <3>1, <3>2, Zenon DEF Handles
  <2>4. ParsedAs(o, f, u, g, t, u, g, t, Plain("EE"), GR_VOID_NON_TERMINAL)
    <3>1. <<>> \in Seq(FieldT) /\ f \o <<>> = f
      BY NoFields
    <3>2. HandledAs(o, u, g, t, f, p)
      BY <1>8, Zenon DEF Hit
    <3>3. ParsedAs(o, f \o <<>>, u, g, t, u, g, t, Plain("EE"), GR_VOID_NON_TERMINAL)
      BY <2>3, <3>1, <3>2, HandledParsed, Zenon
    <3>4. QED
      BY <3>1, <3>3, Zenon
  <2>5. ParserStack(Tail(t)) = Tail(t) /\ Stack(u, g, Tail(t))
    BY <1>5, <2>1, BelowTop, Pops, Zenon
  <2>6. Leads(o, f, u, g, t, u, g, Tail(t), Plain("EE"))
    BY <2>4, <2>5, LeadingTo, Zenon
  <2>7. Side(u, g, Tail(t))
    BY <2>5, Zenon DEF Side
  <2>8. QED
    BY <2>2, <2>6, <2>7, Zenon DEF Encoded
<1>9. ASSUME NEW f \in Seq(FieldT), Miss(enc, o, u, g, t, "EE", q, f)
      PROVE  Encoded(o, b, u, g, t, x, popGrammar(encodeProduction(enc, "EE", q)), Plain("EE"))
  <2> /\ Head(t).grammar # DOC
      /\ \A k \in 1..Len(RuleOf(g, t).production) :
           ~MatchesIn(u, "EE", q, RuleOf(g, t).production[k])
      /\ encodeProduction(enc, "EE", q) = Write(Learn(enc, "EE", q), f)
      /\ LearnedAs(o, u, g, t, f, "EE")
    BY <1>9, Zenon DEF Miss
  <2>1. PICK p : p = Prod("EE", GR_VOID_NON_TERMINAL, VoidQName)
    OBVIOUS
  <2>2. PICK h : h = ProdAdded(g, i, n, p)
    OBVIOUS
  <2>3. popGrammar(encodeProduction(enc, "EE", q)) = Strm(o,"EXIP_OK",b \o f,u,h,Tail(t),c,x)
    <3>1. Learn(Strm(o,"EXIP_OK",b,u,g,t,c,x), "EE", q) =
            Strm(o,"EXIP_OK",b,u,ProdAdded(g, Head(t).grammar, Head(t).currNonTermID,
                                   Prod("EE", GR_VOID_NON_TERMINAL, VoidQName)),
                 Moved(t, GR_VOID_NON_TERMINAL),c,x)
      BY Learning
    <3>2. Learn(enc, "EE", q) = Strm(o,"EXIP_OK",b,u,h,Moved(t, GR_VOID_NON_TERMINAL),c,x)
      BY <1>2, <2>1, <2>2, <3>1, Zenon
    <3>3. Write(Strm(o,"EXIP_OK",b,u,h,Moved(t, GR_VOID_NON_TERMINAL),c,x), f) =
            Strm(o,"EXIP_OK",b \o f,u,h,Moved(t, GR_VOID_NON_TERMINAL),c,x)
      BY Writing
    <3>4. popGrammar(Strm(o,"EXIP_OK",b \o f,u,h,Moved(t, GR_VOID_NON_TERMINAL),c,x)) =
            Strm(o,"EXIP_OK",b \o f,u,h,Tail(Moved(t, GR_VOID_NON_TERMINAL)),c,x)
      BY Popping
    <3>5. QED
      BY <1>7, <1>9, <3>2, <3>3, <3>4, Zenon
  <2>4. Learns(o, u, g, t, "EE", <<>>, u, h, t, Plain("EE"), GR_VOID_NON_TERMINAL)
    <3>1. ASSUME NEW rest \in Seq(FieldT), NEW c1, NEW x1
          PROVE  LearnParsed(SecondLevelEvent(Strm(o,"EXIP_OK",<<>> \o rest,u,g,t,c1,x1), "EE"),
                             "EE", Head(t).grammar, Head(t).currNonTermID) =
                   Parsed(Strm(o,"EXIP_OK",rest,u,h,t,c1,x1), Plain("EE"), GR_VOID_NON_TERMINAL)
      <4>1. LearnParsed(Parsed(Strm(o,"EXIP_OK",rest,u,g,t,c1,x1), Plain("EE"), GR_VOID_NON_TERMINAL),
                        "EE", i, n) =
              Parsed(Strm(o,"EXIP_OK",rest,u,
                          ProdAdded(g, i, n, Prod("EE", GR_VOID_NON_TERMINAL, VoidQName)),t,c1,x1),
                     Plain("EE"), GR_VOID_NON_TERMINAL)
        BY LearningParsed
      <4>2. SecondLevelEvent(Strm(o,"EXIP_OK",rest,u,g,t,c1,x1), "EE") =
              Parsed(Strm(o,"EXIP_OK",rest,u,g,t,c1,x1), Plain("EE"), GR_VOID_NON_TERMINAL)
        BY SecondLevelEvents, Zenon
      <4>3. <<>> \o rest = rest
        BY NoFields
      <4>4. QED
        BY <1>2, <2>1, <2>2, <4>1, <4>2, <4>3, Zenon
    <3>2. QED
      BY <3>1, Zenon DEF Learns
  <2>5. ParsedAs(o, f, u, g, t, u, h, t, Plain("EE"), GR_VOID_NON_TERMINAL)
    <3>1. <<>> \in Seq(FieldT) /\ f \o <<>> = f
      BY NoFields
    <3>2. ParsedAs(o, f \o <<>>, u, g, t, u, h, t, Plain("EE"), GR_VOID_NON_TERMINAL)
      BY <2>4, <3>1, LearnedParsed, Zenon
    <3>3. QED
      BY <3>1, <3>2, Zenon
  <2>6. Grammars(u, h) /\ Len(h) = Len(g)
    <3>1. i \in 1..Len(g) /\ n \in {0, 1}
      BY <1>2, <1>4, <1>5, <1>9, RuleOnTop, Zenon
    <3>2. \A k \in 1..Len(Prods(g, i, n + 1)) : Prods(g, i, n + 1)[k] # p
      BY <1>2, <1>4, <1>5, <2>1, NotLearned, Zenon
    <3>3. p \in ProdT /\ LearnedProd(u, n + 1, p)
      BY <2>1, ProdTypes, Zenon
    <3>4. QED
      BY <1>5, <2>2, <3>1, <3>2, <3>3, LearningProds, Zenon
  <2>7. Side(u, h, t)
    BY <2>6, SideOfLearned, Zenon
  <2>8. Stack(u, h, t)
    BY <2>7, Zenon DEF Side
  <2>9. ParserStack(Tail(t)) = Tail(t) /\ Stack(u, h, Tail(t))
    BY <1>9, <2>8, BelowTop, Pops, Zenon
  <2>10. Leads(o, f, u, g, t, u, h, Tail(t), Plain("EE"))
    BY <2>5, <2>9, LeadingTo, Zenon
  <2>11. Side(u, h, Tail(t))
    BY <2>7, <2>9, Zenon DEF Side
  <2>12. QED
    BY <2>3, <2>10, <2>11, Zenon DEF Encoded
<1>10. Encoded(o, b, u, g, t, x, popGrammar(encodeProduction(enc, "EE", q)), Plain("EE"))
  BY <1>3, <1>8, <1>9, Coded, Zenon
<1>11. QED
  BY <1>1, <1>10, Zenon

(* An open element goes on.                                                 *)
LEMMA OpenMoves ==
  ASSUME NEW u, NEW g, NEW t, Side(u, g, t), Head(t).grammar # DOC,
         NEW n \in {GR_START_TAG_CONTENT, GR_ELEMENT_CONTENT}
  PROVE  /\ Side(u, g, Moved(t, n))
         /\ ParserStack(Moved(t, n)) = Moved(t, n)
         /\ Head(Moved(t, n)) \in NodeT
         /\ Head(Moved(t, n)).grammar = Head(t).grammar
         /\ Head(Moved(t, n)).currNonTermID = n
         /\ Head(Moved(t, n)).currQNameID = Head(t).currQNameID
<1>1. Stack(u, g, t)
  BY Zenon DEF Side
<1>2. /\ Stack(u, g, Moved(t, n))
      /\ Head(Moved(t, n)).grammar = Head(t).grammar
      /\ Head(Moved(t, n)).currNonTermID = n
      /\ Head(Moved(t, n)).currQNameID = Head(t).currQNameID
  <2>1. \/ Head(t).grammar # DOC /\ n \in {GR_START_TAG_CONTENT, GR_ELEMENT_CONTENT}
        \/ Head(t).grammar = DOC /\ n \in {GR_DOC_CONTENT, GR_DOC_END, GR_VOID_NON_TERMINAL}
    BY Zenon
  <2>2. QED
    BY <1>1, <2>1, Moves
<1>3. n # GR_VOID_NON_TERMINAL
  BY DEF GR_START_TAG_CONTENT, GR_ELEMENT_CONTENT, GR_VOID_NON_TERMINAL
<1>4. ParserStack(Moved(t, n)) = Moved(t, n)
  BY <1>2, <1>3, Zenon DEF ParserStack
<1>5. Side(u, g, Moved(t, n)) /\ Head(Moved(t, n)) \in NodeT
  BY <1>2, Tops, Zenon DEF Side
<1>6. QED
  BY <1>2, <1>4, <1>5, Zenon

(* The end of the document.                                                 *)
LEMMA EndingDocument ==
  ASSUME NEW o, NEW b \in Seq(FieldT), NEW u, NEW g, NEW t, NEW c, NEW x,
         enc = Strm(o,"EXIP_OK",b,u,g,t,c,x),
         Side(u, g, t), Fits(u), RulesFit(g), CanEncode("ED", NoName)
  PROVE  Encoded(o, b, u, g, t, x, encodeProduction(enc, "ED", NoName), Plain("ED"))
<1>1. PICK q : q = NoName
  OBVIOUS
<1>2. CanEncode("ED", q) /\ "ED" \in {"EE", "AT", "NS", "SE", "CH", "ED"}
  BY <1>1, Zenon
<1>3. \A f : ~Miss(enc, o, u, g, t, "ED", q, f)
  BY Zenon DEF Miss
<1>4. PICK p \in ProdT, f \in Seq(FieldT) : Hit(enc, o, b, u, g, t, c, x, "ED", q, p, f)
  BY <1>2, <1>3, Coded, Zenon
<1>5. Head(t).grammar = DOC /\ p.event = "ED" /\ p.nonTerm = GR_VOID_NON_TERMINAL
  BY <1>4 DEF Hit, Matched
<1>6. PICK r : r = Moved(t, GR_VOID_NON_TERMINAL)
  OBVIOUS
<1>7. encodeProduction(enc, "ED", q) = Strm(o,"EXIP_OK",b \o f,u,g,r,c,x)
  BY <1>4, <1>5, <1>6, Zenon DEF Hit
<1>8. Stack(u, g, t)
  BY Zenon DEF Side
<1>9. Stack(u, g, r) /\ Head(r).currNonTermID = GR_VOID_NON_TERMINAL
  <2>1. PICK n : n = GR_VOID_NON_TERMINAL
    OBVIOUS
  <2>2. \/ Head(t).grammar # DOC /\ n \in {GR_START_TAG_CONTENT, GR_ELEMENT_CONTENT}
        \/ Head(t).grammar = DOC /\ n \in {GR_DOC_CONTENT, GR_DOC_END, GR_VOID_NON_TERMINAL}
    BY <1>5, <2>1, Zenon
  <2>3. Stack(u, g, Moved(t, n)) /\ Head(Moved(t, n)).currNonTermID = n
    BY <1>8, <2>2, Moves
  <2>4. QED
    BY <1>6, <2>1, <2>3, Zenon
<1>10. ParserStack(r) = Tail(t)
  <2>1. t \in Seq(NodeT) /\ Len(t) = 1
    BY <1>5, <1>8, Tops, Zenon
  <2>2. Tail(t) = <<>>
    <3>1. Tail(t) \in Seq(NodeT) /\ Len(Tail(t)) = 0
      <4>1. t # <<>>
        <5>1. Len(t) # 0
          BY <2>1
        <5>2. \A s : s = <<>> => Len(s) = 0
          OBVIOUS
        <5>3. QED
          BY <5>1, <5>2, Zenon
      <4>2. Tail(t) \in Seq(NodeT) /\ Len(Tail(t)) = Len(t) - 1
        BY <2>1, <4>1, HeadTailProperties, Zenon
      <4>3. QED
        BY <2>1, <4>2
    <3>2. \A s \in Seq(NodeT) : Len(s) = 0 => s = <<>>
      OBVIOUS
    <3>3. QED
      BY <3>1, <3>2, Zenon
  <2>3. QED
    BY <1>9, <2>2, Zenon DEF ParserStack
<1>11. Handles(o, u, g, t, p, <<>>, u, g, t, Plain("ED"), GR_VOID_NON_TERMINAL)
  <2>1. \A s : handleProduction(s, p) = Parsed(s, Plain("ED"), GR_VOID_NON_TERMINAL)
    BY <1>5, Handling, Zenon
  <2>2. \A rest \in Seq(FieldT) : <<>> \o rest = rest
    BY NoFields
  <2>3. QED
    BY <2>1, <2>2, Zenon DEF Handles
<1>12. ParsedAs(o, f, u, g, t, u, g, t, Plain("ED"), GR_VOID_NON_TERMINAL)
  <2>1. <<>> \in Seq(FieldT) /\ f \o <<>> = f
    BY NoFields
  <2>2. HandledAs(o, u, g, t, f, p)
    BY <1>4, Zenon DEF Hit
  <2>3. ParsedAs(o, f \o <<>>, u, g, t, u, g, t, Plain("ED"), GR_VOID_NON_TERMINAL)
    BY <1>11, <2>1, <2>2, HandledParsed, Zenon
  <2>4. QED
    BY <2>1, <2>3, Zenon
<1>13. Leads(o, f, u, g, t, u, g, r, Plain("ED"))
  BY <1>10, <1>12, LeadingTo, Zenon
<1>14. Side(u, g, r)
  BY <1>9, Zenon DEF Side
<1>15. Encoded(o, b, u, g, t, x, encodeProduction(enc, "ED", q), Plain("ED"))
  BY <1>7, <1>13, <1>14, Zenon DEF Encoded
<1>16. QED
  BY <1>1, <1>15, Zenon

(* The strings of characters and attributes.                                *)
LEMMA ReadingValues ==
  ASSUME NEW o, NEW u, NEW g, NEW t, NEW c, NEW x, NEW id \in QNameId, NEW str \in Text,
         NEW rest \in Seq(FieldT),
         ~IsXsi(id, XML_SCHEMA_INSTANCE_NIL_ID), ~IsXsi(id, XML_SCHEMA_INSTANCE_TYPE_ID)
  PROVE  /\ Value(id, str) \in Seq(FieldT)
         /\ decodeValueItem(Strm(o,"EXIP_OK",Value(id, str) \o rest,u,g,t,c,x), id) =
              Result(Strm(o,"EXIP_OK",rest,u,g,t,c,x), <<str>>)
<1>1. PICK w : w = [qname |-> id, str |-> str]
  OBVIOUS
<1>2. w \in [qname : QNameId, str : Text] /\ w.qname = id /\ w.str = str
  BY <1>1
<1>3. PICK f : f = Field("value", 0, w)
  OBVIOUS
<1>4. f.kind = "value" /\ f.val = w
  BY <1>3 DEF Field
<1>5. f \in FieldT
  <2>1. w \in FieldVal
    BY <1>2, Zenon DEF FieldVal
  <2>2. "value" \in FieldKind
    BY DEF FieldKind
  <2>3. 0 \in Int
    OBVIOUS
  <2>4. \A k \in FieldKind, n \in Int, y \in FieldVal : Field(k, n, y) \in FieldT
    BY DEF Field, FieldT
  <2>5. QED
    BY <1>3, <2>1, <2>2, <2>3, <2>4, Zenon
<1>6. Value(id, str) = <<f>>
  BY <1>1, <1>3, Zenon DEF Value
<1>7. <<f>> \in Seq(FieldT)
  BY <1>5
<1>8. PICK s : s = Strm(o,"EXIP_OK",<<f>> \o rest,u,g,t,c,x)
  OBVIOUS
<1>9. Next1(s) = f /\ Skip1(s) = Strm(o,"EXIP_OK",rest,u,g,t,c,x)
  <2>1. /\ Next1(Strm(o,"EXIP_OK",<<f>> \o rest,u,g,t,c,x)) = f
        /\ Skip1(Strm(o,"EXIP_OK",<<f>> \o rest,u,g,t,c,x)) = Strm(o,"EXIP_OK",rest,u,g,t,c,x)
    BY <1>5, NextField
  <2>2. QED
    BY <1>8, <2>1, Zenon
<1>10. decodeValueItem(s, id) = DecodeString(s, id)
  BY DEF decodeValueItem
<1>11. DecodeString(s, id) = Result(Strm(o,"EXIP_OK",rest,u,g,t,c,x), <<str>>)
  <2>1. Next1(s).kind = "value" /\ Next1(s).val.qname = id /\ Next1(s).val.str = str
    BY <1>2, <1>4, <1>9, Zenon
  <2>2. QED
    BY <1>9, <2>1, Zenon DEF DecodeString
<1>12. QED
  BY <1>6, <1>7, <1>8, <1>10, <1>11, Zenon

(* The event of characters.                                                 *)
Chars(str) == Event("CH", "", "", <<str>>)

(* DecodeCH reads the characters under the name of the open element.        *)
LEMMA DecodingCharacters ==
  ASSUME NEW o, NEW u, NEW g, NEW t, NEW c, NEW x, NEW str \in Text, NEW rest \in Seq(FieldT),
         Side(u, g, t), Head(t).grammar # DOC
  PROVE  /\ Value(Head(t).currQNameID, str) \in Seq(FieldT)
         /\ DecodeCH(Strm(o,"EXIP_OK",Value(Head(t).currQNameID, str) \o rest,u,g,t,c,x)) =
              Parsed(Strm(o,"EXIP_OK",rest,u,g,t,c,x), Chars(str), GR_ELEMENT_CONTENT)
<1>1. PICK id : id = Head(t).currQNameID
  OBVIOUS
<1>2. OpenNode(u, g, Head(t))
  BY Tops, Zenon DEF Side
<1>3. /\ id \in QNameId
      /\ ~IsXsi(id, XML_SCHEMA_INSTANCE_NIL_ID) /\ ~IsXsi(id, XML_SCHEMA_INSTANCE_TYPE_ID)
  BY <1>1, <1>2, Zenon DEF OpenNode, KnownId
<1>4. PICK f : f = Value(id, str)
  OBVIOUS
<1>5. /\ f \in Seq(FieldT)
      /\ decodeValueItem(Strm(o,"EXIP_OK",f \o rest,u,g,t,c,x), id) =
           Result(Strm(o,"EXIP_OK",rest,u,g,t,c,x), <<str>>)
  <2>1. /\ Value(id, str) \in Seq(FieldT)
        /\ decodeValueItem(Strm(o,"EXIP_OK",Value(id, str) \o rest,u,g,t,c,x), id) =
             Result(Strm(o,"EXIP_OK",rest,u,g,t,c,x), <<str>>)
    BY <1>3, ReadingValues
  <2>2. QED
    BY <1>4, <2>1, Zenon
<1>6. PICK s : s = Strm(o,"EXIP_OK",f \o rest,u,g,t,c,x)
  OBVIOUS
<1>7. Top(s).currQNameID = id
  <2>1. Top(s) = Head(t)
    BY <1>6, CurrentRules
  <2>2. QED
    BY <1>1, <2>1, Zenon
<1>8. PICK d : d = Strm(o,"EXIP_OK",rest,u,g,t,c,x)
  OBVIOUS
<1>9. decodeValueItem(s, Top(s).currQNameID) = Result(d, <<str>>)
  BY <1>5, <1>6, <1>7, <1>8, Zenon
<1>10. Result(d, <<str>>).s = d /\ Result(d, <<str>>).val = <<str>>
  BY Results, Zenon
<1>11. DecodeCH(s) = Parsed(d, Chars(str), GR_ELEMENT_CONTENT)
  BY <1>9, <1>10, Zenon DEF DecodeCH, Chars
<1>12. QED
  BY <1>1, <1>4, <1>5, <1>6, <1>8, <1>11, Zenon

(* Characters.                                                              *)
LEMMA Characters ==
  ASSUME NEW o, NEW b \in Seq(FieldT), NEW u, NEW g, NEW t, NEW c, NEW x,
         enc = Strm(o,"EXIP_OK",b,u,g,t,c,x),
         Side(u, g, t), Fits(u), RulesFit(g), CanEncode("CH", NoName), NEW str \in Text
  PROVE  LET s == encodeProduction(enc, "CH", NoName)
         IN Encoded(o, b, u, g, t, x, Write(s, Value(Top(s).currQNameID, str)), Chars(str))
<1>1. PICK q : q = NoName
  OBVIOUS
<1>2. PICK i, n : i = Head(t).grammar /\ n = Head(t).currNonTermID
  OBVIOUS
<1>3. CanEncode("CH", q) /\ "CH" \in {"EE", "AT", "NS", "SE", "CH", "ED"}
  BY <1>1, Zenon
<1>4. n # GR_VOID_NON_TERMINAL
  BY <1>2, <1>3, Coded, Zenon
<1>5. Grammars(u, g) /\ Stack(u, g, t) /\ u \in UriTableT
  BY Zenon DEF Side, Names
<1>6. PICK s : s = encodeProduction(enc, "CH", q)
  OBVIOUS
<1>7. PICK r : r = Moved(t, GR_ELEMENT_CONTENT)
  OBVIOUS
<1>8. PICK f2 : f2 = Value(Head(t).currQNameID, str)
  OBVIOUS
<1>9. PICK ev : ev = Chars(str)
  OBVIOUS
<1>10. GR_ELEMENT_CONTENT \in {GR_START_TAG_CONTENT, GR_ELEMENT_CONTENT}
       /\ GR_ELEMENT_CONTENT # GR_VOID_NON_TERMINAL
  BY DEF GR_ELEMENT_CONTENT, GR_VOID_NON_TERMINAL
<1>11. ASSUME Head(t).grammar # DOC
       PROVE  /\ f2 \in Seq(FieldT)
              /\ \A rest \in Seq(FieldT) : \A c1, x1 :
                   DecodeCH(Strm(o,"EXIP_OK",f2 \o rest,u,g,t,c1,x1)) =
                     Parsed(Strm(o,"EXIP_OK",rest,u,g,t,c1,x1), ev, GR_ELEMENT_CONTENT)
  <2>1. ASSUME NEW rest \in Seq(FieldT), NEW c1, NEW x1
        PROVE  /\ f2 \in Seq(FieldT)
               /\ DecodeCH(Strm(o,"EXIP_OK",f2 \o rest,u,g,t,c1,x1)) =
                    Parsed(Strm(o,"EXIP_OK",rest,u,g,t,c1,x1), ev, GR_ELEMENT_CONTENT)
    <3>1. /\ Value(Head(t).currQNameID, str) \in Seq(FieldT)
          /\ DecodeCH(Strm(o,"EXIP_OK",Value(Head(t).currQNameID, str) \o rest,u,g,t,c1,x1)) =
               Parsed(Strm(o,"EXIP_OK",rest,u,g,t,c1,x1), Chars(str), GR_ELEMENT_CONTENT)
      BY <1>11, DecodingCharacters
    <3>2. QED
      BY <1>8, <1>9, <3>1, Zenon
  <2>2. <<>> \in Seq(FieldT)
    BY NoFields
  <2>3. f2 \in Seq(FieldT)
    BY <2>1, <2>2, Zenon
  <2>4. QED
    BY <2>1, <2>3, Zenon
<1>12. ASSUME NEW h, NEW f \in Seq(FieldT), Side(u, h, t), Head(t).grammar # DOC,
              s = Strm(o,"EXIP_OK",b \o f,u,h,r,c,x),
              ParsedAs(o, f \o f2, u, g, t, u, h, t, ev, GR_ELEMENT_CONTENT)
       PROVE  Encoded(o, b, u, g, t, x, Write(s, Value(Top(s).currQNameID, str)), ev)
  <2>1. Side(u, h, r) /\ ParserStack(r) = r /\ Head(r).currQNameID = Head(t).currQNameID
    BY <1>7, <1>10, <1>12, OpenMoves, Zenon
  <2>2. Value(Top(s).currQNameID, str) = f2
    <3>1. Top(s) = Head(r)
      BY <1>12, CurrentRules
    <3>2. QED
      BY <1>8, <2>1, <3>1, Zenon
  <2>3. Write(s, Value(Top(s).currQNameID, str)) = Strm(o,"EXIP_OK",b \o (f \o f2),u,h,r,c,x)
    <3>1. Write(Strm(o,"EXIP_OK",b \o f,u,h,r,c,x), f2) =
            Strm(o,"EXIP_OK",(b \o f) \o f2,u,h,r,c,x)
      BY Writing
    <3>2. (b \o f) \o f2 = b \o (f \o f2)
      BY <1>11, <1>12, Assoc
    <3>3. QED
      BY <1>12, <2>2, <3>1, <3>2, Zenon
  <2>4. Leads(o, f \o f2, u, g, t, u, h, r, ev)
    <3>1. PICK y : y = f \o f2
      OBVIOUS
    <3>2. PICK n1 : n1 = GR_ELEMENT_CONTENT
      OBVIOUS
    <3>3. ParsedAs(o, y, u, g, t, u, h, t, ev, n1) /\ n1 # GR_VOID_NON_TERMINAL
          /\ ParserStack(r) = Moved(t, n1)
      BY <1>7, <1>10, <1>12, <2>1, <3>1, <3>2, Zenon
    <3>4. Leads(o, y, u, g, t, u, h, r, ev)
      BY <3>3, LeadingTo
    <3>5. QED
      BY <3>1, <3>4, Zenon
  <2>5. f \o f2 \in Seq(FieldT)
    BY <1>11, <1>12
  <2>6. QED
    BY <2>1, <2>3, <2>4, <2>5, Zenon DEF Encoded
<1>13. ASSUME NEW p \in ProdT, NEW f \in Seq(FieldT), Hit(enc, o, b, u, g, t, c, x, "CH", q, p, f)
       PROVE  Encoded(o, b, u, g, t, x, Write(s, Value(Top(s).currQNameID, str)), ev)
  <2>1. Head(t).grammar # DOC /\ p.event = "CH" /\ p.nonTerm = GR_ELEMENT_CONTENT
    BY <1>13 DEF Hit, Matched
  <2>2. s = Strm(o,"EXIP_OK",b \o f,u,g,r,c,x)
    BY <1>6, <1>7, <1>13, <2>1, Zenon DEF Hit
  <2>3. Handles(o, u, g, t, p, f2, u, g, t, ev, GR_ELEMENT_CONTENT)
    <3>1. \A y : handleProduction(y, p) = DecodeCH(y)
      BY <2>1, Handling, Zenon
    <3>2. ASSUME NEW rest \in Seq(FieldT), NEW c1, NEW x1
          PROVE  handleProduction(Strm(o,"EXIP_OK",f2 \o rest,u,g,t,c1,x1), p) =
                   Parsed(Strm(o,"EXIP_OK",rest,u,g,t,c1,x1), ev, GR_ELEMENT_CONTENT)
      BY <1>11, <2>1, <3>1
    <3>3. QED
      BY <3>2, Zenon DEF Handles
  <2>4. ParsedAs(o, f \o f2, u, g, t, u, g, t, ev, GR_ELEMENT_CONTENT)
    <3>1. HandledAs(o, u, g, t, f, p)
      BY <1>13, Zenon DEF Hit
    <3>2. QED
      BY <1>11, <2>1, <2>3, <3>1, HandledParsed, Zenon
  <2>5. QED
    BY <1>12, <2>1, <2>2, <2>4, Zenon
<1>14. ASSUME NEW f \in Seq(FieldT), Miss(enc, o, u, g, t, "CH", q, f)
       PROVE  Encoded(o, b, u, g, t, x, Write(s, Value(Top(s).currQNameID, str)), ev)
  <2> /\ Head(t).grammar # DOC
      /\ \A k \in 1..Len(RuleOf(g, t).production) :
           ~MatchesIn(u, "CH", q, RuleOf(g, t).production[k])
      /\ encodeProduction(enc, "CH", q) = Write(Learn(enc, "CH", q), f)
      /\ LearnedAs(o, u, g, t, f, "CH")
    BY <1>14, Zenon DEF Miss
  <2>1. PICK p : p = Prod("CH", GR_ELEMENT_CONTENT, VoidQName)
    OBVIOUS
  <2>2. PICK h : h = ProdAdded(g, i, n, p)
    OBVIOUS
  <2>3. s = Strm(o,"EXIP_OK",b \o f,u,h,r,c,x)
    <3>1. Learn(Strm(o,"EXIP_OK",b,u,g,t,c,x), "CH", q) =
            Strm(o,"EXIP_OK",b,u,ProdAdded(g, Head(t).grammar, Head(t).currNonTermID,
                                   Prod("CH", GR_ELEMENT_CONTENT, VoidQName)),
                 Moved(t, GR_ELEMENT_CONTENT),c,x)
      BY Learning
    <3>2. Learn(enc, "CH", q) = Strm(o,"EXIP_OK",b,u,h,r,c,x)
      BY <1>2, <1>7, <2>1, <2>2, <3>1, Zenon
    <3>3. Write(Strm(o,"EXIP_OK",b,u,h,r,c,x), f) = Strm(o,"EXIP_OK",b \o f,u,h,r,c,x)
      BY Writing
    <3>4. QED
      BY <1>6, <3>2, <3>3, Zenon
  <2>4. Learns(o, u, g, t, "CH", f2, u, h, t, ev, GR_ELEMENT_CONTENT)
    <3>1. ASSUME NEW rest \in Seq(FieldT), NEW c1, NEW x1
          PROVE  LearnParsed(SecondLevelEvent(Strm(o,"EXIP_OK",f2 \o rest,u,g,t,c1,x1), "CH"),
                             "CH", Head(t).grammar, Head(t).currNonTermID) =
                   Parsed(Strm(o,"EXIP_OK",rest,u,h,t,c1,x1), ev, GR_ELEMENT_CONTENT)
      <4>1. LearnParsed(Parsed(Strm(o,"EXIP_OK",rest,u,g,t,c1,x1), ev, GR_ELEMENT_CONTENT),
                        "CH", i, n) =
              Parsed(Strm(o,"EXIP_OK",rest,u,
                          ProdAdded(g, i, n, Prod("CH", GR_ELEMENT_CONTENT, VoidQName)),t,c1,x1),
                     ev, GR_ELEMENT_CONTENT)
        BY LearningParsed
      <4>2. SecondLevelEvent(Strm(o,"EXIP_OK",f2 \o rest,u,g,t,c1,x1), "CH") =
              Parsed(Strm(o,"EXIP_OK",rest,u,g,t,c1,x1), ev, GR_ELEMENT_CONTENT)
        <5>1. PICK y : y = Strm(o,"EXIP_OK",f2 \o rest,u,g,t,c1,x1)
          OBVIOUS
        <5>2. SecondLevelEvent(y, "CH") = DecodeCH(y)
          BY SecondLevelEvents, Zenon
        <5>3. DecodeCH(Strm(o,"EXIP_OK",f2 \o rest,u,g,t,c1,x1)) =
                Parsed(Strm(o,"EXIP_OK",rest,u,g,t,c1,x1), ev, GR_ELEMENT_CONTENT)
          BY <1>11
        <5>4. QED
          BY <5>1, <5>2, <5>3, Zenon
      <4>3. QED
        BY <1>2, <2>1, <2>2, <4>1, <4>2, Zenon
    <3>2. QED
      BY <3>1, Zenon DEF Learns
  <2>5. ParsedAs(o, f \o f2, u, g, t, u, h, t, ev, GR_ELEMENT_CONTENT)
    BY <1>11, <2>4, LearnedParsed, Zenon
  <2>6. Grammars(u, h) /\ Len(h) = Len(g)
    <3>1. i \in 1..Len(g) /\ n \in {0, 1}
      BY <1>2, <1>4, <1>5, <1>14, RuleOnTop, Zenon
    <3>2. \A k \in 1..Len(Prods(g, i, n + 1)) : Prods(g, i, n + 1)[k] # p
      BY <1>2, <1>4, <1>5, <2>1, NotLearned, Zenon
    <3>3. p \in ProdT /\ LearnedProd(u, n + 1, p)
      BY <2>1, ProdTypes, Zenon
    <3>4. QED
      BY <1>5, <2>2, <3>1, <3>2, <3>3, LearningProds, Zenon
  <2>7. Side(u, h, t)
    BY <2>6, SideOfLearned, Zenon
  <2>8. QED
    BY <1>12, <2>3, <2>5, <2>7, Zenon
<1>15. Encoded(o, b, u, g, t, x, Write(s, Value(Top(s).currQNameID, str)), ev)
  BY <1>3, <1>13, <1>14, Coded, Zenon
<1>16. QED
  BY <1>1, <1>6, <1>9, <1>15, Zenon
-----------------------------------------------------------------------------
(* No table is full: every table of names has room for one more entry.      *)
Room(u) ==
  /\ Len(u) < URI_MAX
  /\ \A i \in 1..Len(u) : Len(u[i].lnTable) < URI_MAX /\ Len(u[i].pfxTable) < URI_MAX

(* With room in every table the name may be added to them.                  *)
LEMMA RoomFits ==
  ASSUME NEW u, Names(u), Room(u), NEW uri \in Text, NEW ln \in Text
  PROVE  /\ Fits(u)
         /\ Fits(UriTab(u, uri))
         /\ Fits(LnTab(UriTab(u, uri), UriIdOf(u, uri), ln))
         /\ Len(u) \in 1..URI_MAX
<1>1. u \in UriTableT /\ Len(u) \in Nat /\ 3 <= Len(u)
  <2>1. u \in UriTableT /\ 3 <= Len(u)
    BY Zenon DEF Names, XsiInPlace
  <2>2. QED
    BY <2>1, LenProperties DEF UriTableT
<1>2. PICK v : v = UriTab(u, uri)
  OBVIOUS
<1>3. PICK i : i = UriIdOf(u, uri)
  OBVIOUS
<1>4. v \in UriTableT /\ i \in 0..Len(v)-1
  BY <1>2, <1>3, UriTables, Zenon DEF Names
<1>5. \A k \in 1..Len(u) : Len(u[k].lnTable) \in Nat /\ Len(u[k].pfxTable) \in Nat
  BY <1>1, Entries, Zenon
<1>6. URI_MAX \in Nat
  BY Sizes
<1> HIDE DEF URI_MAX
<1>7. PICK n \in Nat : n = Len(u)
  BY <1>1, Zenon
<1>8. 3 <= n /\ n < URI_MAX
  BY <1>1, <1>7, Zenon DEF Room
<1>9. \A k \in 1..n : /\ Len(u[k].lnTable) \in Nat /\ Len(u[k].lnTable) < URI_MAX
                      /\ Len(u[k].pfxTable) \in Nat /\ Len(u[k].pfxTable) < URI_MAX
  BY <1>5, <1>7, Zenon DEF Room
<1>10. Fits(u)
  <2>1. \A k \in 1..n : /\ Len(u[k].lnTable) \in 0..URI_MAX
                        /\ Len(u[k].pfxTable) \in 0..URI_MAX
    BY <1>6, <1>9
  <2>2. n \in 0..URI_MAX
    BY <1>6, <1>8
  <2>3. QED
    BY <1>7, <2>1, <2>2, Zenon DEF Fits
<1>11. /\ Len(v) \in 0..URI_MAX
       /\ \A k \in 1..Len(v) : /\ Len(v[k].lnTable) \in Nat /\ Len(v[k].lnTable) < URI_MAX
                               /\ Len(v[k].pfxTable) \in 0..URI_MAX
  <2>1. CASE lookupUri(u, uri) >= 0
    <3>1. v = u
      BY <1>2, <2>1, Zenon DEF UriTab
    <3>2. n \in 0..URI_MAX
      BY <1>6, <1>8
    <3>3. \A k \in 1..n : Len(u[k].pfxTable) \in 0..URI_MAX
      BY <1>6, <1>9
    <3>4. QED
      BY <1>7, <1>9, <3>1, <3>2, <3>3, Zenon
  <2>2. CASE ~(lookupUri(u, uri) >= 0)
    <3>1. v = UriAdded(u, uri)
      BY <1>2, <2>2, Zenon DEF UriTab
    <3>2. /\ Len(v) = Len(u) + 1
          /\ \A k \in 1..Len(u) : v[k] = u[k]
          /\ Len(v[Len(u) + 1].lnTable) = 0
          /\ Len(v[Len(u) + 1].pfxTable) = 0
      BY <1>1, <3>1, AddedUri, Zenon
    <3>3. /\ Len(v) = n + 1
          /\ \A k \in 1..n : v[k] = u[k]
          /\ Len(v[n + 1].lnTable) = 0
          /\ Len(v[n + 1].pfxTable) = 0
      BY <1>7, <3>2, Zenon
    <3>4. n + 1 \in 0..URI_MAX
      BY <1>6, <1>8
    <3>5. ASSUME NEW k \in 1..n+1
          PROVE  /\ Len(v[k].lnTable) \in Nat /\ Len(v[k].lnTable) < URI_MAX
                 /\ Len(v[k].pfxTable) \in 0..URI_MAX
      <4>1. CASE k = n + 1
        <5>1. Len(v[k].lnTable) = 0 /\ Len(v[k].pfxTable) = 0
          BY <3>3, <4>1, Zenon
        <5>2. 0 < URI_MAX
          BY <1>6, <1>8
        <5>3. QED
          BY <1>6, <5>1, <5>2
      <4>2. CASE k # n + 1
        <5>1. k \in 1..n
          BY <4>2
        <5>2. v[k] = u[k]
          BY <3>3, <5>1, Zenon
        <5>3. /\ Len(v[k].lnTable) \in Nat /\ Len(v[k].lnTable) < URI_MAX
              /\ Len(v[k].pfxTable) \in Nat /\ Len(v[k].pfxTable) < URI_MAX
          BY <1>9, <5>1, <5>2, Zenon
        <5>4. QED
          BY <1>6, <5>3
      <4>3. QED
        BY <4>1, <4>2, Zenon
    <3>6. QED
      BY <3>3, <3>4, <3>5, Zenon
  <2>3. QED
    BY <2>1, <2>2, Zenon
<1>12. Fits(v)
  <2>1. \A k \in 1..Len(v) : Len(v[k].lnTable) \in 0..URI_MAX
    BY <1>6, <1>11
  <2>2. QED
    BY <1>11, <2>1, Zenon DEF Fits
<1>13. Fits(LnTab(v, i, ln))
  <2>1. CASE lookupLn(v, i, ln) >= 0
    BY <1>12, <2>1, Zenon DEF LnTab
  <2>2. CASE ~(lookupLn(v, i, ln) >= 0)
    <3>1. PICK w : w = LnAdded(v, i, ln)
      OBVIOUS
    <3>2. LnTab(v, i, ln) = w
      BY <2>2, <3>1, Zenon DEF LnTab
    <3>3. /\ Len(w) = Len(v)
          /\ \A k \in 1..Len(v) : /\ w[k].pfxTable = v[k].pfxTable
                                  /\ k # i + 1 => w[k].lnTable = v[k].lnTable
          /\ w[i+1].lnTable = Append(v[i+1].lnTable, LnEntry(ln))
      BY <1>4, <3>1, AddedLn, Zenon
    <3>4. PICK m \in Nat : m = Len(v)
      <4>1. Len(v) \in Nat
        BY <1>4, LenProperties DEF UriTableT
      <4>2. QED
        BY <4>1, Zenon
    <3>5. i + 1 \in 1..m
      BY <1>4, <3>4
    <3>6. v[i+1].lnTable \in Seq(LnEntryT)
      BY <1>4, <3>4, <3>5, Entries, Zenon
    <3>7. Len(w[i+1].lnTable) = Len(v[i+1].lnTable) + 1
      <4>1. \A s \in Seq(LnEntryT) : \A y : Len(Append(s, y)) = Len(s) + 1
        OBVIOUS
      <4>2. QED
        BY <3>3, <3>6, <4>1, Zenon
    <3>8. Len(w[i+1].lnTable) \in 0..URI_MAX
      <4>1. Len(v[i+1].lnTable) \in Nat /\ Len(v[i+1].lnTable) < URI_MAX
        BY <1>11, <3>4, <3>5, Zenon
      <4>2. QED
        BY <1>6, <3>7, <4>1
    <3>9. ASSUME NEW k \in 1..m
          PROVE  Len(w[k].lnTable) \in 0..URI_MAX /\ Len(w[k].pfxTable) \in 0..URI_MAX
      <4>1. Len(w[k].pfxTable) \in 0..URI_MAX
        BY <1>11, <3>3, <3>4, Zenon
      <4>2. CASE k = i + 1
        BY <3>8, <4>1, <4>2, Zenon
      <4>3. CASE k # i + 1
        <5>1. Len(v[k].lnTable) \in 0..URI_MAX
          BY <1>12, <3>4, Zenon DEF Fits
        <5>2. QED
          BY <3>3, <3>4, <4>1, <4>3, <5>1, Zenon
      <4>4. QED
        BY <4>2, <4>3, Zenon
    <3>10. Fits(w)
      BY <1>11, <3>3, <3>4, <3>9, Zenon DEF Fits
    <3>11. QED
      BY <3>2, <3>10, Zenon
  <2>3. QED
    BY <2>1, <2>2, Zenon
<1>14. n \in 1..URI_MAX
  BY <1>6, <1>8
<1>15. QED
  BY <1>2, <1>3, <1>7, <1>10, <1>12, <1>13, <1>14, Zenon

(* The tables still fit with one more name.                                 *)
LEMMA RoomForNames ==
  ASSUME NEW u, Names(u), Room(u), NEW q \in NameT
  PROVE  Fits(u) /\ Fits(NameTab(u, q))
<1>1. q.uri \in Text /\ q.ln \in Text
  BY DEF NameT
<1>2. QED
  BY <1>1, RoomFits, Zenon DEF NameTab

(* A namespace declaration: its URI, its prefix and a bit.                  *)
BitVal(y) == IF y THEN 1 ELSE 0

Bit(y) == NBits(1, BitVal(y))

NsTab(u, uri, pfx) == PfxTab(UriTab(u, uri), UriIdOf(u, uri), pfx)

NsFields(u, uri, pfx) ==
  UriFields(u, uri) \o PfxFields(UriTab(u, uri), UriIdOf(u, uri), pfx)

(* A declaration stores the URI and the prefix and disturbs nothing.        *)
LEMMA NamespacesKnown ==
  ASSUME NEW u, Names(u), Room(u), NEW uri \in Text, NEW pfx \in Text
  PROVE  LET v == UriTab(u, uri)
             i == UriIdOf(u, uri)
             w == NsTab(u, uri, pfx)
         IN /\ u \in UriTableT /\ v \in UriTableT /\ Len(u) \in 1..URI_MAX
            /\ i \in 0..Len(v)-1 /\ Len(Pfxs(v, i)) \in 0..URI_MAX
            /\ lookupUri(v, uri) = i
            /\ Names(w) /\ Grows(u, w)
            /\ \A n : GrammarsIn(u, n) /\ n \in Nat => GrammarsIn(w, n)
            /\ At(w, i).uriStr = uri
            /\ At(At(w, i).pfxTable, PfxIdOf(v, i, pfx)) = pfx
<1>1. PICK v : v = UriTab(u, uri)
  OBVIOUS
<1>2. PICK i : i = UriIdOf(u, uri)
  OBVIOUS
<1>3. PICK w : w = PfxTab(v, i, pfx)
  OBVIOUS
<1>4. /\ Names(v) /\ Grows(u, v) /\ i \in 0..Len(v)-1 /\ v[i + 1].uriStr = uri
      /\ \A n : GrammarsIn(u, n) /\ n \in Nat => GrammarsIn(v, n)
  BY <1>1, <1>2, UriTables, Zenon
<1>5. /\ Names(w) /\ Grows(v, w) /\ Pfxs(w, i)[PfxIdOf(v, i, pfx) + 1] = pfx
      /\ \A n : GrammarsIn(v, n) /\ n \in Nat => GrammarsIn(w, n)
  BY <1>3, <1>4, PfxTables, Zenon
<1>6. u \in UriTableT /\ v \in UriTableT /\ w \in UriTableT
  BY <1>4, <1>5, Zenon DEF Names
<1>7. Len(u) \in 1..URI_MAX /\ Fits(v)
  <2>1. PICK ln : ln \in Text
    <3>1. uri \in Text
      BY Zenon
    <3>2. QED
      BY <3>1, Zenon
  <2>2. QED
    BY <1>1, <2>1, RoomFits, Zenon
<1>8. i + 1 \in 1..Len(v)
  <2>1. Len(v) \in Nat
    BY <1>6, LenProperties DEF UriTableT
  <2>2. PICK n \in Nat : n = Len(v)
    BY <2>1, Zenon
  <2>3. i \in 0..n-1
    BY <1>4, <2>2, Zenon
  <2>4. i + 1 \in 1..n
    BY <2>3
  <2>5. QED
    BY <2>2, <2>4, Zenon
<1>9. Len(Pfxs(v, i)) \in 0..URI_MAX
  BY <1>7, <1>8, Zenon DEF Fits, Pfxs
<1>10. lookupUri(v, uri) = i
  BY <1>4, Found, Zenon
<1>11. Grows(u, w)
  BY <1>4, <1>5, <1>6, GrowsOn, Zenon
<1>12. w[i + 1].uriStr = uri
  BY <1>4, <1>5, <1>8, Zenon DEF Grows
<1>13. At(w, i).uriStr = uri /\ At(At(w, i).pfxTable, PfxIdOf(v, i, pfx)) = pfx
  BY <1>5, <1>12, Zenon DEF At, Pfxs
<1>14. QED
  BY <1>1, <1>2, <1>3, <1>4, <1>5, <1>6, <1>7, <1>9, <1>10, <1>11, <1>13, Zenon DEF NsTab

(* The bit for local-element-ns is read as it was written.                  *)
LEMMA Bits ==
  ASSUME NEW y, NEW o, NEW e, NEW u, NEW g, NEW t, NEW c, NEW x, NEW rest \in Seq(FieldT)
  PROVE  /\ Bit(y) \in Seq(FieldT)
         /\ DecodeNBits(Strm(o,e,Bit(y) \o rest,u,g,t,c,x), 1) =
              Result(Strm(o,e,rest,u,g,t,c,x), BitVal(y))
         /\ BitVal(y) = 1 <=> y
<1>1. BitVal(y) \in Nat /\ (BitVal(y) = 1 <=> y)
  BY DEF BitVal
<1>2. PICK k \in Nat : k = BitVal(y)
  BY <1>1, Zenon
<1>3. NBits(1, k) \in Seq(FieldT)
  BY FieldTypes
<1>4. DecodeNBits(Strm(o,e,NBits(1, k) \o rest,u,g,t,c,x), 1) =
        Result(Strm(o,e,rest,u,g,t,c,x), k)
  BY ReadingBits
<1>5. QED
  BY <1>1, <1>2, <1>3, <1>4, Zenon DEF Bit

(* Three fields or more are joined in any order.                            *)
JoinedAs(f1, f2, f3, rest) ==
  /\ f1 \o f2 \in Seq(FieldT)
  /\ (f1 \o f2) \o f3 \in Seq(FieldT)
  /\ (f1 \o f2) \o f3 = f1 \o (f2 \o f3)
  /\ ((f1 \o f2) \o f3) \o rest = f1 \o (f2 \o (f3 \o rest))
  /\ f3 \o rest \in Seq(FieldT)
  /\ f2 \o (f3 \o rest) \in Seq(FieldT)

(* Three groups of fields in front of the rest of the stream.               *)
LEMMA Joined ==
  ASSUME NEW f1 \in Seq(FieldT), NEW f2 \in Seq(FieldT), NEW f3 \in Seq(FieldT),
         NEW rest \in Seq(FieldT)
  PROVE  JoinedAs(f1, f2, f3, rest)
<1>1. /\ f1 \o f2 \in Seq(FieldT)
      /\ (f1 \o f2) \o f3 \in Seq(FieldT)
      /\ f3 \o rest \in Seq(FieldT)
      /\ (f1 \o f2) \o f3 = f1 \o (f2 \o f3)
  BY Assoc
<1>2. f2 \o (f3 \o rest) \in Seq(FieldT)
  BY <1>1
<1>3. ((f1 \o f2) \o f3) \o rest = (f1 \o f2) \o (f3 \o rest)
  BY <1>1, Assoc
<1>4. (f1 \o f2) \o (f3 \o rest) = f1 \o (f2 \o (f3 \o rest))
  <2> DEFINE y == f3 \o rest
  <2>1. y \in Seq(FieldT)
    BY <1>1
  <2> HIDE DEF y
  <2>2. Associates(f1, f2, y)
    BY <2>1, FieldsAssociate
  <2>3. QED
    BY <2>2 DEF Associates, y
<1>5. QED
  BY <1>1, <1>2, <1>3, <1>4, Zenon DEF JoinedAs

(* decodeNSEvent reads the declaration back.                                *)
LEMMA DecodingNamespaces ==
  ASSUME NEW o, NEW u, Names(u), Room(u), NEW g, NEW t, NEW c, NEW x,
         NEW uri \in Text, NEW pfx \in Text, NEW isLocal, NEW rest \in Seq(FieldT)
  PROVE  /\ NsFields(u, uri, pfx) \o Bit(isLocal) \in Seq(FieldT)
         /\ decodeNSEvent(Strm(o,"EXIP_OK",(NsFields(u, uri, pfx) \o Bit(isLocal)) \o rest,u,g,t,c,x)) =
              Parsed(Strm(o,"EXIP_OK",rest,NsTab(u, uri, pfx),g,t,c,x),
                     NSEvent(uri, pfx, isLocal), GR_START_TAG_CONTENT)
<1>1. PICK v : v = UriTab(u, uri)
  OBVIOUS
<1>2. PICK i : i = UriIdOf(u, uri)
  OBVIOUS
<1>3. PICK w : w = NsTab(u, uri, pfx)
  OBVIOUS
<1>4. PICK j : j = PfxIdOf(v, i, pfx)
  OBVIOUS
<1>5. /\ u \in UriTableT /\ v \in UriTableT /\ Len(u) \in 1..URI_MAX
      /\ i \in 0..Len(v)-1 /\ Len(Pfxs(v, i)) \in 0..URI_MAX
      /\ At(w, i).uriStr = uri
      /\ At(At(w, i).pfxTable, j) = pfx
  BY <1>1, <1>2, <1>3, <1>4, NamespacesKnown, Zenon
<1>6. PICK f1 : f1 = UriFields(u, uri)
  OBVIOUS
<1>7. PICK f2 : f2 = PfxFields(v, i, pfx)
  OBVIOUS
<1>8. PICK f3 : f3 = Bit(isLocal)
  OBVIOUS
<1>9. f1 \in Seq(FieldT)
  BY <1>5, <1>6, NoFields, EncodingUris
<1>10. f2 \in Seq(FieldT)
  BY <1>5, <1>7, NoFields, EncodingPfxs
<1>11. f3 \in Seq(FieldT)
  BY <1>8, Bits, Zenon
<1>12. NsFields(u, uri, pfx) = f1 \o f2
  BY <1>1, <1>2, <1>6, <1>7, Zenon DEF NsFields
<1>12a. JoinedAs(f1, f2, f3, rest)
  BY <1>9, <1>10, <1>11, Joined, Zenon
<1>13. PICK y2 \in Seq(FieldT) : y2 = f3 \o rest
  BY <1>12a, Zenon DEF JoinedAs
<1>14. PICK y1 \in Seq(FieldT) : y1 = f2 \o y2
  BY <1>12a, <1>13, Zenon DEF JoinedAs
<1>15. /\ (f1 \o f2) \o f3 \in Seq(FieldT)
       /\ ((f1 \o f2) \o f3) \o rest = f1 \o y1
  BY <1>12a, <1>13, <1>14, Zenon DEF JoinedAs
<1>16. PICK s : s = Strm(o,"EXIP_OK",f1 \o y1,u,g,t,c,x)
  OBVIOUS
<1>17. PICK s1 : s1 = Strm(o,"EXIP_OK",y1,v,g,t,c,x)
  OBVIOUS
<1>18. PICK s2 : s2 = Strm(o,"EXIP_OK",y2,w,g,t,c,x)
  OBVIOUS
<1>19. PICK s3 : s3 = Strm(o,"EXIP_OK",rest,w,g,t,c,x)
  OBVIOUS
<1>20. decodeUri(s) = Result(s1, i)
  <2>1. decodeUri(Strm(o,"EXIP_OK",UriFields(u, uri) \o y1,u,g,t,c,x)) =
          Result(Strm(o,"EXIP_OK",y1,UriTab(u, uri),g,t,c,x), UriIdOf(u, uri))
    BY <1>5, DecodingUris
  <2>2. QED
    BY <1>1, <1>2, <1>6, <1>16, <1>17, <2>1, Zenon
<1>21. decodePfx(s1, i) = Result(s2, j)
  <2>1. decodePfx(Strm(o,"EXIP_OK",PfxFields(v, i, pfx) \o y2,v,g,t,c,x), i) =
          Result(Strm(o,"EXIP_OK",y2,PfxTab(v, i, pfx),g,t,c,x), PfxIdOf(v, i, pfx))
    BY <1>5, DecodingPfxs
  <2>2. PfxTab(v, i, pfx) = w
    BY <1>1, <1>2, <1>3, Zenon DEF NsTab
  <2>3. QED
    BY <1>4, <1>7, <1>14, <1>17, <1>18, <2>1, <2>2, Zenon
<1>22. PICK k : DecodeNBits(s2, 1) = Result(s3, k) /\ (k = 1 <=> isLocal)
  <2>1. /\ DecodeNBits(Strm(o,"EXIP_OK",Bit(isLocal) \o rest,w,g,t,c,x), 1) =
             Result(Strm(o,"EXIP_OK",rest,w,g,t,c,x), BitVal(isLocal))
        /\ BitVal(isLocal) = 1 <=> isLocal
    BY Bits
  <2>2. QED
    BY <1>8, <1>13, <1>18, <1>19, <2>1, Zenon
<1>23. PICK U, P, B : U = Result(s1, i) /\ P = Result(s2, j) /\ B = Result(s3, k)
  OBVIOUS
<1>24. U.s = s1 /\ U.val = i /\ P.s = s2 /\ P.val = j /\ B.s = s3 /\ B.val = k
  BY <1>23, Results, Zenon
<1>25. decodeNSEvent(s) = NSOf(U, P, B)
  BY <1>20, <1>21, <1>22, <1>23, <1>24, Zenon DEF decodeNSEvent
<1>26. B.s.uriTable = w
  <2>1. s3.uriTable = w
    BY <1>19 DEF Strm
  <2>2. QED
    BY <1>24, <2>1, Zenon
<1>27. NSOf(U, P, B) = Parsed(s3, NSEvent(uri, pfx, isLocal), GR_START_TAG_CONTENT)
  BY <1>5, <1>22, <1>24, <1>26, Zenon DEF NSOf, NSEvent
<1>28. QED
  BY <1>3, <1>8, <1>12, <1>15, <1>16, <1>19, <1>25, <1>27, Zenon

(* Names are added on one side.                                             *)
LEMMA SideOfMore ==
  ASSUME NEW u, NEW g, NEW t, Side(u, g, t), NEW v, Names(v), Grows(u, v),
         \A n : GrammarsIn(u, n) /\ n \in Nat => GrammarsIn(v, n)
  PROVE  Side(v, g, t)
<1>1. /\ Names(u) /\ GrammarsIn(u, Len(g)) /\ Grammars(u, g) /\ Stack(u, g, t)
      /\ u \in UriTableT /\ v \in UriTableT
  BY Zenon DEF Side, Names
<1>2. Len(g) \in Nat
  <2>1. g \in GrammarTableT
    BY <1>1, Zenon DEF Grammars
  <2>2. QED
    BY <2>1, LenProperties DEF GrammarTableT
<1>3. Len(g) <= Len(g)
  BY <1>2
<1>4. Grammars(v, g)
  BY <1>1, GrammarsOfMore, Zenon
<1>5. Stack(v, g, t)
  BY <1>1, <1>2, <1>3, StackOfMore, Zenon
<1>6. GrammarsIn(v, Len(g))
  BY <1>1, <1>2, Zenon
<1>7. QED
  BY <1>4, <1>5, <1>6, Zenon DEF Side

(* A namespace declaration.                                                 *)
LEMMA NamespaceDeclarations ==
  ASSUME NEW o, NEW b \in Seq(FieldT), NEW u, NEW g, NEW t, NEW c, NEW x,
         enc = Strm(o,"EXIP_OK",b,u,g,t,c,x),
         Side(u, g, t), Room(u), RulesFit(g), CanEncode("NS", NoName),
         NEW uri \in Text, NEW pfx \in Text, NEW isLocal
  PROVE  LET s == encodeUri(encodeProduction(enc, "NS", NoName), uri)
             p == encodePfx(s, lookupUri(s.uriTable, uri), pfx)
         IN Encoded(o, b, u, g, t, x, Write(p, Bit(isLocal)), NSEvent(uri, pfx, isLocal))
<1>1. PICK q : q = NoName
  OBVIOUS
<1>2. CanEncode("NS", q) /\ "NS" \in {"EE", "AT", "NS", "SE", "CH", "ED"}
  BY <1>1, Zenon
<1>3. Names(u)
  BY Zenon DEF Side
<1>4. Fits(u)
  BY <1>3, RoomFits, Zenon
<1>5. Head(t).currNonTermID # GR_VOID_NON_TERMINAL
  BY <1>2, <1>4, Coded, Zenon
<1>6. ASSUME NEW p, NEW f, Hit(enc, o, b, u, g, t, c, x, "NS", q, p, f)
      PROVE  FALSE
  BY <1>6 DEF Hit, Matched
<1>7. PICK f \in Seq(FieldT) : Miss(enc, o, u, g, t, "NS", q, f)
  BY <1>2, <1>4, <1>6, Coded, Zenon
<1>8. /\ Head(t).grammar # DOC
      /\ Head(t).currNonTermID = GR_START_TAG_CONTENT
      /\ encodeProduction(enc, "NS", q) = Write(Learn(enc, "NS", q), f)
      /\ LearnedAs(o, u, g, t, f, "NS")
  <2>1. SecondLevelClass(o, t, "NS")
    BY <1>7, Zenon DEF Miss
  <2>2. Head(t).currNonTermID = GR_START_TAG_CONTENT
    BY <2>1, Zenon DEF SecondLevelClass
  <2>3. QED
    BY <1>7, <2>2, Zenon DEF Miss
<1>9. encodeProduction(enc, "NS", q) = Strm(o,"EXIP_OK",b \o f,u,g,t,c,x)
  <2>1. Learn(Strm(o,"EXIP_OK",b,u,g,t,c,x), "NS", q) = Strm(o,"EXIP_OK",b,u,g,t,c,x)
    BY Learning
  <2>2. Write(Strm(o,"EXIP_OK",b,u,g,t,c,x), f) = Strm(o,"EXIP_OK",b \o f,u,g,t,c,x)
    BY Writing
  <2>3. QED
    BY <1>8, <2>1, <2>2, Zenon
<1>10. PICK v : v = UriTab(u, uri)
  OBVIOUS
<1>11. PICK i : i = UriIdOf(u, uri)
  OBVIOUS
<1>12. PICK w : w = NsTab(u, uri, pfx)
  OBVIOUS
<1>13. /\ u \in UriTableT /\ v \in UriTableT /\ Len(u) \in 1..URI_MAX
       /\ i \in 0..Len(v)-1 /\ Len(Pfxs(v, i)) \in 0..URI_MAX
       /\ lookupUri(v, uri) = i
       /\ Names(w) /\ Grows(u, w)
       /\ \A n : GrammarsIn(u, n) /\ n \in Nat => GrammarsIn(w, n)
  BY <1>3, <1>10, <1>11, <1>12, NamespacesKnown, Zenon
<1>14. PICK b0 \in Seq(FieldT) : b0 = b \o f
  <2>1. b \o f \in Seq(FieldT)
    OBVIOUS
  <2>2. QED
    BY <2>1, Zenon
<1>15. PICK f1 : f1 = UriFields(u, uri)
  OBVIOUS
<1>16. PICK f2 : f2 = PfxFields(v, i, pfx)
  OBVIOUS
<1>17. PICK f3 : f3 = Bit(isLocal)
  OBVIOUS
<1>18. /\ f1 \in Seq(FieldT)
       /\ encodeUri(Strm(o,"EXIP_OK",b0,u,g,t,c,x), uri) = Strm(o,"EXIP_OK",b0 \o f1,v,g,t,c,x)
  <2>1. /\ UriFields(u, uri) \in Seq(FieldT)
        /\ encodeUri(Strm(o,"EXIP_OK",b0,u,g,t,c,x), uri) =
             Strm(o,"EXIP_OK",b0 \o UriFields(u, uri),UriTab(u, uri),g,t,c,x)
    BY <1>13, EncodingUris
  <2>2. QED
    BY <1>10, <1>15, <2>1, Zenon
<1>19. PICK b1 \in Seq(FieldT) : b1 = b0 \o f1
  <2>1. b0 \o f1 \in Seq(FieldT)
    BY <1>18
  <2>2. QED
    BY <2>1, Zenon
<1>20. /\ f2 \in Seq(FieldT)
       /\ encodePfx(Strm(o,"EXIP_OK",b1,v,g,t,c,x), i, pfx) = Strm(o,"EXIP_OK",b1 \o f2,w,g,t,c,x)
  <2>1. /\ PfxFields(v, i, pfx) \in Seq(FieldT)
        /\ encodePfx(Strm(o,"EXIP_OK",b1,v,g,t,c,x), i, pfx) =
             Strm(o,"EXIP_OK",b1 \o PfxFields(v, i, pfx),PfxTab(v, i, pfx),g,t,c,x)
    BY <1>13, EncodingPfxs
  <2>2. PfxTab(v, i, pfx) = w
    BY <1>10, <1>11, <1>12, Zenon DEF NsTab
  <2>3. QED
    BY <1>16, <2>1, <2>2, Zenon
<1>21. f3 \in Seq(FieldT)
  <2>1. <<>> \in Seq(FieldT)
    BY NoFields
  <2>2. QED
    BY <1>17, <2>1, Bits, Zenon
<1>22. Write(Strm(o,"EXIP_OK",b1 \o f2,w,g,t,c,x), f3) = Strm(o,"EXIP_OK",(b1 \o f2) \o f3,w,g,t,c,x)
  BY Writing
<1>23. PICK fs : fs = (f1 \o f2) \o f3
  OBVIOUS
<1>24. fs \in Seq(FieldT) /\ (b1 \o f2) \o f3 = b \o (f \o fs)
  <2>1. JoinedAs(f1, f2, f3, f3) /\ JoinedAs(b0, f1, f2, f3)
    BY <1>18, <1>20, <1>21, Joined, Zenon
  <2>2. fs \in Seq(FieldT) /\ fs = f1 \o (f2 \o f3)
    BY <1>23, <2>1, Zenon DEF JoinedAs
  <2>3. ((b0 \o f1) \o f2) \o f3 = b0 \o (f1 \o (f2 \o f3))
    BY <2>1, Zenon DEF JoinedAs
  <2>4. JoinedAs(b, f, fs, fs)
    BY <2>2, Joined, Zenon
  <2>5. (b \o f) \o fs = b \o (f \o fs)
    BY <2>4, Zenon DEF JoinedAs
  <2>6. QED
    BY <1>14, <1>19, <2>2, <2>3, <2>5, Zenon
<1>25. PICK ev : ev = NSEvent(uri, pfx, isLocal)
  OBVIOUS
<1>26. ASSUME NEW rest \in Seq(FieldT), NEW c1, NEW x1
       PROVE  decodeNSEvent(Strm(o,"EXIP_OK",fs \o rest,u,g,t,c1,x1)) =
                Parsed(Strm(o,"EXIP_OK",rest,w,g,t,c1,x1), ev, GR_START_TAG_CONTENT)
  <2>1. decodeNSEvent(Strm(o,"EXIP_OK",(NsFields(u, uri, pfx) \o Bit(isLocal)) \o rest,u,g,t,c1,x1)) =
          Parsed(Strm(o,"EXIP_OK",rest,NsTab(u, uri, pfx),g,t,c1,x1),
                 NSEvent(uri, pfx, isLocal), GR_START_TAG_CONTENT)
    BY <1>3, DecodingNamespaces
  <2>2. NsFields(u, uri, pfx) \o Bit(isLocal) = fs
    BY <1>10, <1>11, <1>15, <1>16, <1>17, <1>23, Zenon DEF NsFields
  <2>3. QED
    BY <1>12, <1>25, <2>1, <2>2, Zenon
<1>27. Learns(o, u, g, t, "NS", fs, w, g, t, ev, GR_START_TAG_CONTENT)
  <2>1. ASSUME NEW rest \in Seq(FieldT), NEW c1, NEW x1
        PROVE  LearnParsed(SecondLevelEvent(Strm(o,"EXIP_OK",fs \o rest,u,g,t,c1,x1), "NS"),
                           "NS", Head(t).grammar, Head(t).currNonTermID) =
                 Parsed(Strm(o,"EXIP_OK",rest,w,g,t,c1,x1), ev, GR_START_TAG_CONTENT)
    <3>1. PICK y : y = Strm(o,"EXIP_OK",fs \o rest,u,g,t,c1,x1)
      OBVIOUS
    <3>2. SecondLevelEvent(y, "NS") = decodeNSEvent(y)
      BY SecondLevelEvents, Zenon
    <3>3. decodeNSEvent(y) =
            Parsed(Strm(o,"EXIP_OK",rest,w,g,t,c1,x1), ev, GR_START_TAG_CONTENT)
      BY <1>26, <3>1, Zenon
    <3>4. PICK k, n : k = Head(t).grammar /\ n = Head(t).currNonTermID
      OBVIOUS
    <3>5. LearnParsed(Parsed(Strm(o,"EXIP_OK",rest,w,g,t,c1,x1), ev, GR_START_TAG_CONTENT),
                      "NS", k, n) =
            Parsed(Strm(o,"EXIP_OK",rest,w,g,t,c1,x1), ev, GR_START_TAG_CONTENT)
      BY LearningParsed
    <3>6. QED
      BY <3>1, <3>2, <3>3, <3>4, <3>5, Zenon
  <2>2. QED
    BY <2>1, Zenon DEF Learns
<1>28. f \o fs \in Seq(FieldT) /\ ParsedAs(o, f \o fs, u, g, t, w, g, t, ev, GR_START_TAG_CONTENT)
  BY <1>8, <1>24, <1>27, LearnedParsed, Zenon
<1>29. Leads(o, f \o fs, u, g, t, w, g, t, ev)
  <2>1. Moved(t, GR_START_TAG_CONTENT) = t
    <3>1. t \in Seq(NodeT) /\ Len(t) >= 1
      BY Tops DEF Side
    <3>2. QED
      BY <1>8, <3>1, NoMoves, Zenon
  <2>2. ParserStack(t) = t
    BY <1>5, Zenon DEF ParserStack
  <2>3. PICK n : n = GR_START_TAG_CONTENT
    OBVIOUS
  <2>4. n # GR_VOID_NON_TERMINAL
    BY <2>3 DEF GR_START_TAG_CONTENT, GR_VOID_NON_TERMINAL
  <2>5. PICK y : y = f \o fs
    OBVIOUS
  <2>6. ParsedAs(o, y, u, g, t, w, g, t, ev, n) /\ ParserStack(t) = Moved(t, n)
    BY <1>28, <2>1, <2>2, <2>3, <2>5, Zenon
  <2>7. Leads(o, y, u, g, t, w, g, t, ev)
    BY <2>4, <2>6, LeadingTo
  <2>8. QED
    BY <2>5, <2>7, Zenon
<1>30. Side(w, g, t)
  BY <1>13, SideOfMore, Zenon
<1>31. PICK s : s = encodeUri(encodeProduction(enc, "NS", q), uri)
  OBVIOUS
<1>32. PICK p : p = encodePfx(s, lookupUri(s.uriTable, uri), pfx)
  OBVIOUS
<1>33. s = Strm(o,"EXIP_OK",b1,v,g,t,c,x)
  BY <1>9, <1>14, <1>18, <1>19, <1>31, Zenon
<1>34. s.uriTable = v
  BY <1>33 DEF Strm
<1>35. Write(p, f3) = Strm(o,"EXIP_OK",b \o (f \o fs),w,g,t,c,x)
  BY <1>13, <1>20, <1>22, <1>24, <1>32, <1>33, <1>34, Zenon
<1>36. Encoded(o, b, u, g, t, x, Write(p, f3), ev)
  BY <1>28, <1>29, <1>30, <1>35, Zenon DEF Encoded
<1>37. QED
  BY <1>1, <1>17, <1>25, <1>31, <1>32, <1>36, Zenon
-----------------------------------------------------------------------------
(* Opening an element: its grammar is the one of its name, or a new one.    *)
OpenTab(v, g, id) ==
  IF GrammarOf(v, id) # NoGrammar THEN v ELSE GrammarSet(v, id, Len(g) + 1)

OpenGr(v, g, id) ==
  IF GrammarOf(v, id) # NoGrammar THEN g ELSE Append(g, createBuiltInElementGrammar)

OpenId(v, g, id) ==
  IF GrammarOf(v, id) # NoGrammar THEN GrammarOf(v, id) ELSE Len(g) + 1

(* PushElement, as an equation.                                             *)
LEMMA Opening ==
  ASSUME NEW o, NEW e, NEW b, NEW v, NEW g, NEW t, NEW c, NEW x, NEW id
  PROVE  PushElement(Strm(o,e,b,v,g,t,c,x), id) =
           Strm(o,e,b,OpenTab(v, g, id),OpenGr(v, g, id),Pushed(t, id, OpenId(v, g, id)),c,x)
<1>1. PushElement(Strm(o,e,b,v,g,t,c,x), id) =
        IF GrammarOf(v, id) # NoGrammar
        THEN Strm(o,e,b,v,g,Pushed(t, id, GrammarOf(v, id)),c,x)
        ELSE Strm(o,e,b,GrammarSet(v, id, Len(g) + 1),
                  Append(g, createBuiltInElementGrammar),
                  Pushed(t, id, Len(g) + 1),c,x)
  BY PushingElements
<1>2. QED
  BY <1>1, Zenon DEF OpenTab, OpenGr, OpenId

(* The element is open on its side.                                         *)
OpenedWell(v, v2, g2, r, id) ==
  /\ Side(v2, g2, r) /\ Grows(v, v2)
  /\ GrammarOf(v2, id) # NoGrammar
  /\ Head(r).currQNameID = id
  /\ Moved(r, GR_START_TAG_CONTENT) = r
  /\ ParserStack(r) = r

(* An element whose name has a grammar is on top of a good stack.           *)
LEMMA OpenedOnTop ==
  ASSUME NEW v, NEW g, NEW t, Side(v, g, t), Head(t).currNonTermID # GR_VOID_NON_TERMINAL,
         NEW id, KnownId(v, id),
         ~IsXsi(id, XML_SCHEMA_INSTANCE_NIL_ID), ~IsXsi(id, XML_SCHEMA_INSTANCE_TYPE_ID),
         NEW gr \in 1..Len(g), GrammarOf(v, id) = gr
  PROVE  OpenedWell(v, v, g, Pushed(t, id, gr), id)
<1>1. Names(v) /\ Grammars(v, g) /\ Stack(v, g, t) /\ v \in UriTableT /\ Len(g) \in Nat
  <2>1. Names(v) /\ Grammars(v, g) /\ Stack(v, g, t) /\ v \in UriTableT /\ g \in GrammarTableT
    BY Zenon DEF Side, Names, Grammars
  <2>2. QED
    BY <2>1, LenProperties DEF GrammarTableT
<1>2. gr \in Nat /\ gr # NoGrammar
  BY <1>1 DEF NoGrammar
<1>3. PICK node : node = Node(gr, GR_START_TAG_CONTENT, id)
  OBVIOUS
<1>4. node.grammar = gr /\ node.currNonTermID = GR_START_TAG_CONTENT /\ node.currQNameID = id
  BY <1>3 DEF Node
<1>5. node \in NodeT
  <2>1. id \in QNameId /\ GR_START_TAG_CONTENT \in Nat
    BY DEF KnownId, GR_START_TAG_CONTENT
  <2>2. QED
    BY <1>2, <1>3, <2>1 DEF Node, NodeT
<1>6. OpenNode(v, g, node)
  BY <1>4, <1>5, Zenon DEF OpenNode
<1>7. PICK r : r = Pushed(t, id, gr)
  OBVIOUS
<1>8. Stack(v, g, r) /\ Head(r) = node /\ Moved(r, GR_START_TAG_CONTENT) = r
  <2>1. OpenNode(v, g, Node(gr, GR_START_TAG_CONTENT, id))
    BY <1>3, <1>6, Zenon
  <2>2. /\ Stack(v, g, Pushed(t, id, gr))
        /\ Head(Pushed(t, id, gr)) = Node(gr, GR_START_TAG_CONTENT, id)
        /\ Moved(Pushed(t, id, gr), GR_START_TAG_CONTENT) = Pushed(t, id, gr)
    BY <1>1, <2>1, Pushes
  <2>3. QED
    BY <1>3, <1>7, <2>2, Zenon
<1>9. ParserStack(r) = r
  <2>1. GR_START_TAG_CONTENT # GR_VOID_NON_TERMINAL
    BY DEF GR_START_TAG_CONTENT, GR_VOID_NON_TERMINAL
  <2>2. QED
    BY <1>4, <1>8, <2>1, Zenon DEF ParserStack
<1>10. Side(v, g, r) /\ Grows(v, v)
  BY <1>1, <1>8, GrowsItself, Zenon DEF Side
<1>11. QED
  BY <1>2, <1>4, <1>7, <1>8, <1>9, <1>10, Zenon DEF OpenedWell

(* An element with a known name is on top of a good stack, with a grammar.  *)
LEMMA Opened ==
  ASSUME NEW v, NEW g, NEW t, Side(v, g, t), Head(t).currNonTermID # GR_VOID_NON_TERMINAL,
         NEW id, KnownId(v, id),
         ~IsXsi(id, XML_SCHEMA_INSTANCE_NIL_ID), ~IsXsi(id, XML_SCHEMA_INSTANCE_TYPE_ID)
  PROVE  OpenedWell(v, OpenTab(v, g, id), OpenGr(v, g, id), Pushed(t, id, OpenId(v, g, id)), id)
<1>1. /\ Names(v) /\ GrammarsIn(v, Len(g)) /\ Grammars(v, g) /\ Stack(v, g, t)
      /\ v \in UriTableT /\ g \in GrammarTableT
  BY Zenon DEF Side, Names, Grammars
<1>2. PICK m \in Nat : m = Len(g)
  <2>1. Len(g) \in Nat
    BY <1>1, LenProperties DEF GrammarTableT
  <2>2. QED
    BY <2>1, Zenon
<1>3. CASE GrammarOf(v, id) # NoGrammar
  <2>1. PICK gr : gr = GrammarOf(v, id)
    OBVIOUS
  <2>2. gr \in Nat
    BY <1>1, <2>1, KnownIds, GrowsItself, Zenon
  <2>3. gr <= m
    <3>1. PICK i, k : i = id.uriId + 1 /\ k = id.lnId + 1
      OBVIOUS
    <3>2. i \in 1..Len(v) /\ k \in 1..Len(v[i].lnTable)
      <4>1. Len(v) \in Nat
        BY <1>1, LenProperties DEF UriTableT
      <4>2. id.uriId \in 0..Len(v)-1 /\ id.lnId \in 0..Len(v[id.uriId + 1].lnTable)-1
        BY Zenon DEF KnownId, Lns
      <4>3. PICK l \in Nat : l = Len(v)
        BY <4>1, Zenon
      <4>4. id.uriId \in 0..l-1
        BY <4>2, <4>3, Zenon
      <4>5. i \in 1..l
        BY <3>1, <4>4
      <4>6. Len(v[i].lnTable) \in Nat
        BY <1>1, <4>3, <4>5, Entries, Zenon
      <4>7. PICK l2 \in Nat : l2 = Len(v[i].lnTable)
        BY <4>6, Zenon
      <4>8. id.lnId \in 0..l2-1
        BY <3>1, <4>2, <4>7, Zenon
      <4>9. k \in 1..l2
        BY <3>1, <4>8
      <4>10. QED
        BY <4>3, <4>5, <4>7, <4>9, Zenon
    <3>3. v[i].lnTable[k].elemGrammar <= Len(g)
      BY <1>1, <3>2, Zenon DEF GrammarsIn
    <3>4. v[i].lnTable[k].elemGrammar = gr
      BY <2>1, <3>1, Zenon DEF GrammarOf, At
    <3>5. QED
      BY <1>2, <3>3, <3>4, Zenon
  <2>4. gr \in 1..m
    BY <1>3, <2>1, <2>2, <2>3 DEF NoGrammar
  <2>5. OpenedWell(v, v, g, Pushed(t, id, gr), id)
    BY <1>2, <2>1, <2>4, OpenedOnTop, Zenon
  <2>6. QED
    BY <1>3, <2>1, <2>5, Zenon DEF OpenTab, OpenGr, OpenId
<1>4. CASE GrammarOf(v, id) = NoGrammar
  <2>1. PICK w : w = GrammarSet(v, id, m + 1)
    OBVIOUS
  <2>2. m + 1 \in Nat /\ m <= m + 1 /\ m + 1 <= m + 1 /\ m + 1 \in 1..m+1
    OBVIOUS
  <2>3. /\ Names(w) /\ Grows(v, w) /\ KnownId(w, id) /\ GrammarOf(w, id) = m + 1
        /\ GrammarsIn(w, m + 1)
    BY <1>1, <1>2, <1>4, <2>1, <2>2, SettingGrammars, Zenon
  <2>4. w \in UriTableT
    BY <2>3, Zenon DEF Names
  <2>5. PICK h : h = Append(g, createBuiltInElementGrammar)
    OBVIOUS
  <2>6. Grammars(v, h) /\ Len(h) = m + 1
    BY <1>1, <1>2, <2>5, NewGrammars, Zenon
  <2>7. Grammars(w, h)
    BY <1>1, <2>3, <2>4, <2>6, GrammarsOfMore, Zenon
  <2>8. Stack(w, h, t)
    BY <1>1, <1>2, <2>2, <2>3, <2>4, <2>6, StackOfMore, Zenon
  <2>9. Side(w, h, t)
    BY <2>3, <2>6, <2>7, <2>8, Zenon DEF Side
  <2>10. OpenedWell(w, w, h, Pushed(t, id, m + 1), id)
    BY <2>2, <2>3, <2>6, <2>9, OpenedOnTop, Zenon
  <2>11. OpenedWell(v, w, h, Pushed(t, id, m + 1), id)
    BY <2>3, <2>10, Zenon DEF OpenedWell
  <2>12. QED
    BY <1>2, <1>4, <2>1, <2>5, <2>11, Zenon DEF OpenTab, OpenGr, OpenId
<1>5. QED
  BY <1>3, <1>4, Zenon

(* The serializer learns before it opens the element, the parser after.     *)
LEMMA OpenedAfter ==
  ASSUME NEW v, NEW g \in GrammarTableT, NEW i \in 1..Len(g), NEW n \in {0, 1}, NEW p \in ProdT,
         NEW id
  PROVE  LET h == ProdAdded(g, i, n, p)
         IN /\ OpenTab(v, h, id) = OpenTab(v, g, id)
            /\ OpenId(v, h, id) = OpenId(v, g, id)
            /\ OpenGr(v, h, id) = ProdAdded(OpenGr(v, g, id), i, n, p)
<1>1. PICK h : h = ProdAdded(g, i, n, p)
  OBVIOUS
<1>2. Len(h) = Len(g)
  BY <1>1, AddedProd, Zenon
<1>3. createBuiltInElementGrammar \in [{1, 2} -> RuleT]
  BY NewGrammar, Zenon
<1>4. ProdAdded(Append(g, createBuiltInElementGrammar), i, n, p) =
        Append(ProdAdded(g, i, n, p), createBuiltInElementGrammar)
  BY <1>3, OrderOfLearning, Zenon
<1>5. QED
  BY <1>1, <1>2, <1>4, Zenon DEF OpenTab, OpenGr, OpenId

(* The name of an identifier.                                               *)
LEMMA NamedAs ==
  ASSUME NEW o, NEW e, NEW b, NEW v, NEW g, NEW t, NEW c, NEW x, NEW s,
         s = Strm(o,e,b,v,g,t,c,x), NEW id, NEW q, Says(v, id, q)
  PROVE  UriStr(s, id) = q.uri /\ Ln(s, id).lnStr = q.ln
<1>1. s.uriTable = v
  BY DEF Strm
<1>2. QED
  BY <1>1, Zenon DEF Says, UriStr, Ln

(* The identifier of a name.                                                *)
LEMMA IdFound ==
  ASSUME NEW o, NEW e, NEW b, NEW v, NEW g, NEW t, NEW c, NEW x, NEW s,
         s = Strm(o,e,b,v,g,t,c,x), Names(v), NEW id, KnownId(v, id), NEW q, Says(v, id, q)
  PROVE  QNameIDOf(s, q) = id
<1>1. s.uriTable = v
  BY DEF Strm
<1>2. id.uriId \in 0..Len(v)-1 /\ id.lnId \in 0..Len(Lns(v, id.uriId))-1
  BY Zenon DEF KnownId
<1>3. v[id.uriId + 1].uriStr = q.uri /\ Lns(v, id.uriId)[id.lnId + 1].lnStr = q.ln
  BY Zenon DEF Says, At, Lns
<1>4. lookupUri(v, q.uri) = id.uriId
  BY <1>2, <1>3, Found, Zenon
<1>5. lookupLn(v, id.uriId, q.ln) = id.lnId
  BY <1>2, <1>3, Found, Zenon
<1>6. QNameIDOf(s, q) = [uriId |-> id.uriId, lnId |-> id.lnId]
  BY <1>1, <1>4, <1>5, Zenon DEF QNameIDOf
<1>7. id \in QNameId
  BY Zenon DEF KnownId
<1>8. QED
  BY <1>6, <1>7 DEF QNameId

(* xsi:nil and xsi:type keep their identifiers.                             *)
XsiNil(q) == q.uri = "xsi" /\ q.ln = "nil"
XsiType(q) == q.uri = "xsi" /\ q.ln = "type"

(* The identifiers of xsi:nil and xsi:type belong to these names only.      *)
LEMMA XsiNames ==
  ASSUME NEW v, Names(v), NEW id, NEW q, Says(v, id, q)
  PROVE  /\ IsXsi(id, XML_SCHEMA_INSTANCE_NIL_ID) => XsiNil(q)
         /\ IsXsi(id, XML_SCHEMA_INSTANCE_TYPE_ID) => XsiType(q)
<1>1. /\ v[3].uriStr = "xsi"
      /\ v[3].lnTable[1].lnStr = "nil" /\ v[3].lnTable[2].lnStr = "type"
  BY Zenon DEF Names, XsiInPlace
<1>2. \A i, k : At(v, i).uriStr = v[i + 1].uriStr
                /\ At(At(v, i).lnTable, k).lnStr = v[i + 1].lnTable[k + 1].lnStr
  BY Zenon DEF At
<1>3. XML_SCHEMA_INSTANCE_ID + 1 = 3 /\ XML_SCHEMA_INSTANCE_NIL_ID + 1 = 1
      /\ XML_SCHEMA_INSTANCE_TYPE_ID + 1 = 2
  BY DEF XML_SCHEMA_INSTANCE_ID, XML_SCHEMA_INSTANCE_NIL_ID, XML_SCHEMA_INSTANCE_TYPE_ID
<1>4. ASSUME NEW k, IsXsi(id, k)
      PROVE  q.uri = v[3].uriStr /\ q.ln = v[3].lnTable[k + 1].lnStr
  <2>1. id.uriId = XML_SCHEMA_INSTANCE_ID /\ id.lnId = k
    BY <1>4, Zenon DEF IsXsi
  <2>2. PICK i : i = id.uriId
    OBVIOUS
  <2>3. q.uri = v[i + 1].uriStr /\ q.ln = v[i + 1].lnTable[k + 1].lnStr
    BY <1>2, <2>1, <2>2, Zenon DEF Says
  <2>4. i + 1 = 3
    BY <1>3, <2>1, <2>2, Zenon
  <2>5. QED
    BY <2>3, <2>4, Zenon
<1>5. QED
  BY <1>1, <1>3, <1>4, Zenon DEF XsiNil, XsiType

(* The name that was written.                                               *)
LEMMA NameSaid ==
  ASSUME NEW u, NEW g, NEW t, Side(u, g, t), NEW q \in NameT
  PROVE  LET v == NameTab(u, q)
             id == NameIdOf(u, q)
         IN /\ Names(v) /\ Grows(u, v) /\ Side(v, g, t)
            /\ KnownId(v, id) /\ Says(v, id, q)
<1>1. Names(u)
  BY Zenon DEF Side
<1>2. PICK v : v = NameTab(u, q)
  OBVIOUS
<1>3. PICK id : id = NameIdOf(u, q)
  OBVIOUS
<1>4. /\ Names(v) /\ Grows(u, v)
      /\ \A n : GrammarsIn(u, n) /\ n \in Nat => GrammarsIn(v, n)
      /\ id.uriId \in 0..Len(v)-1 /\ id.lnId \in 0..Len(Lns(v, id.uriId))-1
      /\ v[id.uriId + 1].uriStr = q.uri
      /\ Lns(v, id.uriId)[id.lnId + 1].lnStr = q.ln
  BY <1>1, <1>2, <1>3, NamesKnown, Zenon
<1>5. Side(v, g, t)
  BY <1>4, SideOfMore, Zenon
<1>6. Says(v, id, q)
  BY <1>4, Zenon DEF Says, At, Lns
<1>7. id \in QNameId
  <2>1. PICK i, k : i = id.uriId /\ k = id.lnId
    OBVIOUS
  <2>2. id = [uriId |-> i, lnId |-> k]
    <3>1. \E y, z : id = [uriId |-> y, lnId |-> z]
      BY <1>3, Zenon DEF NameIdOf
    <3>2. QED
      BY <2>1, <3>1
  <2>3. i \in Nat
    <3>1. Len(v) \in Nat
      BY <1>4, LenProperties DEF Names, UriTableT
    <3>2. i \in 0..Len(v)-1
      BY <1>4, <2>1, Zenon
    <3>3. QED
      BY <3>1, <3>2
  <2>4. k \in Nat
    <3>1. i + 1 \in 1..Len(v)
      <4>1. Len(v) \in Nat
        BY <1>4, LenProperties DEF Names, UriTableT
      <4>2. i \in 0..Len(v)-1
        BY <1>4, <2>1, Zenon
      <4>3. QED
        BY <4>1, <4>2
    <3>2. v \in UriTableT
      BY <1>4, Zenon DEF Names
    <3>3. Len(v[i+1].lnTable) \in Nat
      BY <3>1, <3>2, Entries, Zenon
    <3>4. PICK n \in Nat : n = Len(v[i+1].lnTable)
      BY <3>3, Zenon
    <3>5. k \in 0..n-1
      BY <1>4, <2>1, <3>4, Zenon DEF Lns
    <3>6. QED
      BY <3>5
  <2>5. QED
    BY <2>2, <2>3, <2>4 DEF QNameId
<1>8. KnownId(v, id)
  BY <1>4, <1>7, Zenon DEF KnownId
<1>9. QED
  BY <1>2, <1>3, <1>4, <1>5, <1>6, <1>8, Zenon

(* The parser opens an element whose name it reads.                         *)
StartTag(q) == Event("SE", q.uri, q.ln, <<>>)

(* DecodeSE reads the name and opens the element as the serializer did.     *)
LEMMA DecodingElements ==
  ASSUME NEW o, NEW u, NEW g, NEW t, NEW c, NEW x, NEW t0, NEW k, t = Moved(t0, k),
         Side(u, g, t), NEW q \in NameT, Fits(NameTab(u, q)), NEW rest \in Seq(FieldT)
  PROVE  LET v == NameTab(u, q)
             id == NameIdOf(u, q)
         IN DecodeSE(Strm(o,"EXIP_OK",NameFields(o, u, q) \o rest,u,g,t0,c,x), k) =
              Parsed(Strm(o,"EXIP_OK",rest,OpenTab(v, g, id),OpenGr(v, g, id),
                          Pushed(t, id, OpenId(v, g, id)),c,x),
                     StartTag(q), GR_START_TAG_CONTENT)
<1>1. PICK v : v = NameTab(u, q)
  OBVIOUS
<1>2. PICK id : id = NameIdOf(u, q)
  OBVIOUS
<1>3. Names(u)
  BY Zenon DEF Side
<1>4. Says(v, id, q)
  BY <1>1, <1>2, NameSaid, Zenon
<1>5. PICK f : f = NameFields(o, u, q)
  OBVIOUS
<1>6. PICK s : s = Strm(o,"EXIP_OK",f \o rest,u,g,t0,c,x)
  OBVIOUS
<1>7. SetNonTerm(s, k) = Strm(o,"EXIP_OK",f \o rest,u,g,t,c,x)
  BY <1>6, Moving
<1>8. PICK s1 : s1 = Strm(o,"EXIP_OK",rest,v,g,t,c,x)
  OBVIOUS
<1>9. decodeQName(SetNonTerm(s, k)) = Result(s1, id)
  <2>1. decodeQName(Strm(o,"EXIP_OK",NameFields(o, u, q) \o rest,u,g,t,c,x)) =
          Result(Strm(o,"EXIP_OK",rest,NameTab(u, q),g,t,c,x), NameIdOf(u, q))
    BY <1>3, DecodingNames
  <2>2. QED
    BY <1>1, <1>2, <1>5, <1>7, <1>8, <2>1, Zenon
<1>10. PICK R : R = Result(s1, id)
  OBVIOUS
<1>11. R.s = s1 /\ R.val = id
  BY <1>10, Results, Zenon
<1>12. s1.err = "EXIP_OK"
  BY <1>8 DEF Strm
<1>13. OpenElement(R) =
         Parsed(PushElement(s1, id), Named(s1, "SE", id, <<>>), GR_START_TAG_CONTENT)
  BY <1>11, <1>12, Zenon DEF OpenElement
<1>14. Named(s1, "SE", id, <<>>) = StartTag(q)
  <2>1. UriStr(s1, id) = q.uri /\ Ln(s1, id).lnStr = q.ln
    BY <1>4, <1>8, NamedAs
  <2>2. QED
    BY <2>1, Zenon DEF StartTag, Named
<1>15. PushElement(s1, id) =
         Strm(o,"EXIP_OK",rest,OpenTab(v, g, id),OpenGr(v, g, id),
              Pushed(t, id, OpenId(v, g, id)),c,x)
  <2>1. PushElement(Strm(o,"EXIP_OK",rest,v,g,t,c,x), id) =
         Strm(o,"EXIP_OK",rest,OpenTab(v, g, id),OpenGr(v, g, id),
              Pushed(t, id, OpenId(v, g, id)),c,x)
    BY Opening
  <2>2. QED
    BY <1>8, <2>1, Zenon
<1>16. DecodeSE(s, k) = OpenElement(R)
  BY <1>9, <1>10, Zenon DEF DecodeSE
<1>17. QED
  BY <1>1, <1>2, <1>5, <1>6, <1>13, <1>14, <1>15, <1>16, Zenon

(* The serializer gives up.                                                 *)
Broken(o, b, x, s) ==
  \E e, v, h, r, c : \E f \in Seq(FieldT) :
    s = Strm(o,e,b \o f,v,h,r,c,x) /\ e # "EXIP_OK" /\ Side(v, h, r)

(* What is in the stream stays there.                                       *)
LEMMA BrokenBehind ==
  ASSUME NEW o, NEW x, NEW s, NEW b \in Seq(FieldT), NEW f \in Seq(FieldT),
         Broken(o, b \o f, x, s)
  PROVE  Broken(o, b, x, s)
<1>1. PICK e, v, h, r, c : \E y \in Seq(FieldT) :
        s = Strm(o,e,(b \o f) \o y,v,h,r,c,x) /\ e # "EXIP_OK" /\ Side(v, h, r)
  BY Zenon DEF Broken
<1>2. PICK y \in Seq(FieldT) :
        s = Strm(o,e,(b \o f) \o y,v,h,r,c,x) /\ e # "EXIP_OK" /\ Side(v, h, r)
  BY <1>1, Zenon
<1>3. (b \o f) \o y = b \o (f \o y) /\ f \o y \in Seq(FieldT)
  BY Assoc
<1>4. QED
  BY <1>2, <1>3, Zenon DEF Broken

(* Names and prefixes, written to a stream without an error.                *)
LEMMA WritingNames ==
  ASSUME NEW o, NEW b \in Seq(FieldT), NEW u, Names(u), NEW g, NEW t, NEW c, NEW x,
         NEW q \in NameT, Fits(NameTab(u, q)), NEW wildcard \in BOOLEAN
  PROVE  /\ NameFields(o, u, q) \in Seq(FieldT)
         /\ NameFits(o, u, q, wildcard) =>
              encodeQName(Strm(o,"EXIP_OK",b,u,g,t,c,x), q, wildcard) =
                Strm(o,"EXIP_OK",b \o NameFields(o, u, q),NameTab(u, q),g,t,c,x)
         /\ ~NameFits(o, u, q, wildcard) => \E f \in Seq(FieldT) :
              encodeQName(Strm(o,"EXIP_OK",b,u,g,t,c,x), q, wildcard) =
                Strm(o,"EXIP_INCONSISTENT_PROC_STATE",b \o f,NameTab(u, q),g,t,c,x)
<1>1. PICK e : e = "EXIP_OK"
  OBVIOUS
<1>2. /\ NameFields(o, u, q) \in Seq(FieldT)
      /\ NameFits(o, u, q, wildcard) =>
           encodeQName(Strm(o,e,b,u,g,t,c,x), q, wildcard) =
             Strm(o,e,b \o NameFields(o, u, q),NameTab(u, q),g,t,c,x)
  BY EncodingNames
<1>3. ASSUME ~NameFits(o, u, q, wildcard)
      PROVE  \E f \in Seq(FieldT) :
               encodeQName(Strm(o,e,b,u,g,t,c,x), q, wildcard) =
                 Strm(o,IF e = "EXIP_OK" THEN "EXIP_INCONSISTENT_PROC_STATE" ELSE e,
                      b \o f,NameTab(u, q),g,t,c,x)
  BY <1>3, EncodingNames
<1>4. QED
  BY <1>1, <1>2, <1>3, Zenon

(* A prefix, written to a stream without an error.                          *)
LEMMA WritingPfxs ==
  ASSUME NEW o, NEW b \in Seq(FieldT), NEW u \in UriTableT, NEW g, NEW t, NEW c, NEW x,
         NEW i \in 0..Len(u)-1, Len(Pfxs(u, i)) \in 0..URI_MAX, NEW pfx, NEW wildcard \in BOOLEAN
  PROVE  /\ PfxFields1(o, u, i, pfx) \in Seq(FieldT)
         /\ PfxFits(o, u, i, pfx, wildcard) =>
              encodePfxQName(Strm(o,"EXIP_OK",b,u,g,t,c,x), i, pfx, wildcard) =
                Strm(o,"EXIP_OK",b \o PfxFields1(o, u, i, pfx),u,g,t,c,x)
         /\ ~PfxFits(o, u, i, pfx, wildcard) =>
              encodePfxQName(Strm(o,"EXIP_OK",b,u,g,t,c,x), i, pfx, wildcard) =
                Strm(o,"EXIP_INCONSISTENT_PROC_STATE",b,u,g,t,c,x)
<1>1. PICK e : e = "EXIP_OK"
  OBVIOUS
<1>2. /\ PfxFields1(o, u, i, pfx) \in Seq(FieldT)
      /\ PfxFits(o, u, i, pfx, wildcard) =>
           encodePfxQName(Strm(o,e,b,u,g,t,c,x), i, pfx, wildcard) =
             Strm(o,e,b \o PfxFields1(o, u, i, pfx),u,g,t,c,x)
      /\ ~PfxFits(o, u, i, pfx, wildcard) =>
           encodePfxQName(Strm(o,e,b,u,g,t,c,x), i, pfx, wildcard) =
             Strm(o,IF e = "EXIP_OK" THEN "EXIP_INCONSISTENT_PROC_STATE" ELSE e,b,u,g,t,c,x)
  BY EncodingPfxQNames
<1>3. QED
  BY <1>1, <1>2, Zenon

(* What startElement makes of the stream.                                   *)
Started(s, q) ==
  LET s1 == encodeNamed(s, "SE", q)
      learned == BuiltIn(s) /\ FirstLevelCode(s, "SE", q) >= 0
  IN IF s1.err # "EXIP_OK" THEN s1
     ELSE IF learned THEN PushLearnedElement(s1, QNameIDOf(s1, q))
     ELSE PushElement(s1, QNameIDOf(s1, q))

(* A name is written behind a wildcard or a second-level code.              *)
Unlearned(s, q, s1) ==
  /\ encodeNamed(s, "SE", q) = encodeQName(s1, q, TRUE)
  /\ ~(BuiltIn(s) /\ FirstLevelCode(s, "SE", q) >= 0)

(* startElement after a wildcard or a new production: the name is written   *)
(* in full.                                                                 *)
LEMMA StartedNew ==
  ASSUME NEW o, NEW b1 \in Seq(FieldT), NEW u, NEW h, NEW t1, NEW c, NEW x, NEW s,
         NEW q \in NameT, Names(u), Fits(NameTab(u, q)), KnownId(NameTab(u, q), NameIdOf(u, q)),
         Unlearned(s, q, Strm(o,"EXIP_OK",b1,u,h,t1,c,x))
  PROVE  LET v == NameTab(u, q)
             id == NameIdOf(u, q)
         IN /\ NameFields(o, u, q) \in Seq(FieldT)
            /\ Started(s, q) =
                 Strm(o,"EXIP_OK",b1 \o NameFields(o, u, q),OpenTab(v, h, id),OpenGr(v, h, id),
                      Pushed(t1, id, OpenId(v, h, id)),c,x)
<1>1. PICK v : v = NameTab(u, q)
  OBVIOUS
<1>2. PICK id : id = NameIdOf(u, q)
  OBVIOUS
<1>3. PICK f : f = NameFields(o, u, q)
  OBVIOUS
<1>4. PICK s1 : s1 = Strm(o,"EXIP_OK",b1 \o f,v,h,t1,c,x)
  OBVIOUS
<1>5. f \in Seq(FieldT) /\ encodeNamed(s, "SE", q) = s1
  <2>1. PICK w \in BOOLEAN : w = TRUE
    OBVIOUS
  <2>2. NameFits(o, u, q, w)
    BY <2>1, Zenon DEF NameFits, PfxFits
  <2>3. /\ NameFields(o, u, q) \in Seq(FieldT)
        /\ NameFits(o, u, q, w) =>
             encodeQName(Strm(o,"EXIP_OK",b1,u,h,t1,c,x), q, w) =
               Strm(o,"EXIP_OK",b1 \o NameFields(o, u, q),NameTab(u, q),h,t1,c,x)
    BY WritingNames
  <2>4. QED
    BY <1>1, <1>3, <1>4, <2>1, <2>2, <2>3, Zenon DEF Unlearned
<1>6. s1.err = "EXIP_OK"
  BY <1>4 DEF Strm
<1>7. QNameIDOf(s1, q) = id
  <2>1. Names(v) /\ KnownId(v, id) /\ Says(v, id, q)
    <3>1. /\ Names(v)
          /\ v[id.uriId + 1].uriStr = q.uri
          /\ Lns(v, id.uriId)[id.lnId + 1].lnStr = q.ln
      BY <1>1, <1>2, NamesKnown, Zenon
    <3>2. QED
      BY <1>1, <1>2, <3>1, Zenon DEF Says, At, Lns
  <2>2. QED
    BY <1>4, <2>1, IdFound
<1>8. Started(s, q) = PushElement(s1, id)
  BY <1>5, <1>6, <1>7, Zenon DEF Started, Unlearned
<1>9. PushElement(Strm(o,"EXIP_OK",b1 \o f,v,h,t1,c,x), id) =
        Strm(o,"EXIP_OK",b1 \o f,OpenTab(v, h, id),OpenGr(v, h, id),
             Pushed(t1, id, OpenId(v, h, id)),c,x)
  BY Opening
<1>10. QED
  BY <1>1, <1>2, <1>3, <1>4, <1>5, <1>8, <1>9, Zenon

(* The name of a learned production is not written, only its prefix.        *)
Relearned(s, q, id, s1) ==
  /\ encodeNamed(s, "SE", q) = encodePfxQName(s1, id.uriId, q.pfx, FALSE)
  /\ BuiltIn(s) /\ FirstLevelCode(s, "SE", q) >= 0

(* startElement after a learned production: only a prefix is written.       *)
LEMMA StartedLearned ==
  ASSUME NEW o, NEW b1 \in Seq(FieldT), NEW u, NEW g, NEW t1, NEW c, NEW x, NEW s,
         NEW q \in NameT, Names(u), Fits(u), NEW id, KnownId(u, id), Says(u, id, q),
         GrammarOf(u, id) # NoGrammar, Side(u, g, t1),
         Relearned(s, q, id, Strm(o,"EXIP_OK",b1,u,g,t1,c,x))
  PROVE  /\ PfxFields1(o, u, id.uriId, q.pfx) \in Seq(FieldT)
         /\ \/ Started(s, q) =
                 Strm(o,"EXIP_OK",b1 \o PfxFields1(o, u, id.uriId, q.pfx),u,g,
                      Pushed(t1, id, GrammarOf(u, id)),c,x)
            \/ Broken(o, b1, x, Started(s, q))
<1>1. PICK i : i = id.uriId
  OBVIOUS
<1>2. /\ u \in UriTableT /\ i \in 0..Len(u)-1 /\ Len(Pfxs(u, i)) \in 0..URI_MAX
  <2>1. u \in UriTableT /\ i \in 0..Len(u)-1
    BY <1>1, Zenon DEF Names, KnownId
  <2>2. i + 1 \in 1..Len(u)
    <3>1. Len(u) \in Nat
      BY <2>1, LenProperties DEF UriTableT
    <3>2. QED
      BY <2>1, <3>1
  <2>3. QED
    BY <2>1, <2>2, Zenon DEF Fits, Pfxs
<1>3. PICK f : f = PfxFields1(o, u, i, q.pfx)
  OBVIOUS
<1>4. PICK y : y = q.pfx
  OBVIOUS
<1>5. PICK w \in BOOLEAN : w = FALSE
  OBVIOUS
<1>6. /\ PfxFields1(o, u, i, y) \in Seq(FieldT)
      /\ PfxFits(o, u, i, y, w) =>
           encodePfxQName(Strm(o,"EXIP_OK",b1,u,g,t1,c,x), i, y, w) =
             Strm(o,"EXIP_OK",b1 \o PfxFields1(o, u, i, y),u,g,t1,c,x)
      /\ ~PfxFits(o, u, i, y, w) =>
           encodePfxQName(Strm(o,"EXIP_OK",b1,u,g,t1,c,x), i, y, w) =
             Strm(o,"EXIP_INCONSISTENT_PROC_STATE",b1,u,g,t1,c,x)
  BY <1>2, WritingPfxs
<1>7. f \in Seq(FieldT)
  BY <1>3, <1>4, <1>6, Zenon
<1>8. CASE PfxFits(o, u, i, y, w)
  <2>1. PICK s1 : s1 = Strm(o,"EXIP_OK",b1 \o f,u,g,t1,c,x)
    OBVIOUS
  <2>2. encodeNamed(s, "SE", q) = s1
    BY <1>1, <1>3, <1>4, <1>5, <1>6, <1>8, <2>1, Zenon DEF Relearned
  <2>3. s1.err = "EXIP_OK"
    BY <2>1 DEF Strm
  <2>4. QNameIDOf(s1, q) = id
    BY <2>1, IdFound
  <2>5. Started(s, q) = PushLearnedElement(s1, id)
    BY <2>2, <2>3, <2>4, Zenon DEF Started, Relearned
  <2>6. PushLearnedElement(Strm(o,"EXIP_OK",b1 \o f,u,g,t1,c,x), id) =
          Strm(o,"EXIP_OK",b1 \o f,u,g,Pushed(t1, id, GrammarOf(u, id)),c,x)
    BY PushingElements
  <2>7. QED
    BY <1>1, <1>3, <1>7, <2>1, <2>5, <2>6, Zenon
<1>9. CASE ~PfxFits(o, u, i, y, w)
  <2>1. PICK e : e = "EXIP_INCONSISTENT_PROC_STATE"
    OBVIOUS
  <2>2. e # "EXIP_OK"
    BY <2>1
  <2>3. PICK s1 : s1 = Strm(o,e,b1,u,g,t1,c,x)
    OBVIOUS
  <2>4. encodeNamed(s, "SE", q) = s1
    BY <1>1, <1>4, <1>5, <1>6, <1>9, <2>1, <2>3, Zenon DEF Relearned
  <2>5. s1.err = e
    BY <2>3 DEF Strm
  <2>6. Started(s, q) = s1
    BY <2>2, <2>4, <2>5, Zenon DEF Started, Relearned
  <2>7. Broken(o, b1, x, Started(s, q))
    BY <2>2, <2>3, <2>6, NoFields, Zenon DEF Broken
  <2>8. QED
    BY <1>1, <1>3, <1>7, <2>7, Zenon
<1>10. QED
  BY <1>8, <1>9, Zenon

(* The name of an event is written, unless it has been learned.             *)
LEMMA NamedByName ==
  ASSUME NEW s, NEW q, NEW class,
         ~(/\ FirstLevelCode(s, class, q) >= 0
           /\ ProductionOf(s, FirstLevelCode(s, class, q)).event \in {"SE_QNAME", "AT_QNAME"})
  PROVE  /\ class = "SE" =>
              encodeNamed(s, class, q) = encodeQName(encodeProduction(s, class, q), q, TRUE)
         /\ class = "AT" =>
              encodeNamed(s, class, q) = encodeQName(encodeProduction(s, class, q), q, FALSE)
<1>1. class = "SE" => (class = "SE") = TRUE
  OBVIOUS
<1>2. class = "AT" => (class = "SE") = FALSE
  OBVIOUS
<1>3. QED
  BY <1>1, <1>2, Zenon DEF encodeNamed

(* A learned production needs the prefix only.                              *)
LEMMA NamedByPfx ==
  ASSUME NEW s, NEW q, NEW class, NEW p, FirstLevelCode(s, class, q) >= 0,
         ProductionOf(s, FirstLevelCode(s, class, q)) = p,
         p.event \in {"SE_QNAME", "AT_QNAME"}
  PROVE  encodeNamed(s, class, q) =
           encodePfxQName(encodeProduction(s, class, q), p.qnameId.uriId, q.pfx, FALSE)
  BY Zenon DEF encodeNamed

(* Behind the start tag of an element both sides are in it.                 *)
LEMMA EncodedStart ==
  ASSUME NEW o, NEW b \in Seq(FieldT), NEW f \in Seq(FieldT), NEW f2 \in Seq(FieldT),
         NEW u, NEW g, NEW t, NEW x, NEW v, NEW h, NEW r, NEW c, NEW s, NEW ev,
         ParsedAs(o, f \o f2, u, g, t, v, h, r, ev, GR_START_TAG_CONTENT),
         Side(v, h, r), Moved(r, GR_START_TAG_CONTENT) = r, ParserStack(r) = r,
         s = Strm(o,"EXIP_OK",(b \o f) \o f2,v,h,r,c,x)
  PROVE  Encoded(o, b, u, g, t, x, s, ev)
<1>1. PICK y \in Seq(FieldT) : y = f \o f2
  <2>1. f \o f2 \in Seq(FieldT)
    BY Assoc
  <2>2. QED
    BY <2>1, Zenon
<1>2. (b \o f) \o f2 = b \o y
  <2>1. (b \o f) \o f2 = b \o (f \o f2)
    BY Assoc
  <2>2. QED
    BY <1>1, <2>1, Zenon
<1>3. PICK n : n = GR_START_TAG_CONTENT
  OBVIOUS
<1>4. n # GR_VOID_NON_TERMINAL
  BY <1>3 DEF GR_START_TAG_CONTENT, GR_VOID_NON_TERMINAL
<1>5. /\ ParsedAs(o, y, u, g, t, v, h, r, ev, n)
      /\ n = GR_VOID_NON_TERMINAL => ParserStack(r) = Tail(r)
      /\ n # GR_VOID_NON_TERMINAL => ParserStack(r) = Moved(r, n)
  BY <1>1, <1>3, <1>4, Zenon
<1>6. Leads(o, y, u, g, t, v, h, r, ev)
  BY <1>5, LeadingTo, Zenon
<1>7. QED
  BY <1>1, <1>2, <1>6, Zenon DEF Encoded

(* The root element: the name follows the event code.                       *)
LEMMA StartingRoot ==
  ASSUME NEW o, NEW b \in Seq(FieldT), NEW u, NEW g, NEW t, NEW c, NEW x,
         enc = Strm(o,"EXIP_OK",b,u,g,t,c,x),
         Side(u, g, t), Room(u), NEW q \in NameT, ~XsiNil(q), ~XsiType(q),
         NEW p \in ProdT, NEW f \in Seq(FieldT),
         Hit(enc, o, b, u, g, t, c, x, "SE", q, p, f), Head(t).grammar = DOC
  PROVE  Encoded(o, b, u, g, t, x, Started(enc, q), StartTag(q))
<1>1. PICK v : v = NameTab(u, q)
  OBVIOUS
<1>2. PICK id : id = NameIdOf(u, q)
  OBVIOUS
<1>3. PICK t1 : t1 = Moved(t, GR_DOC_END)
  OBVIOUS
<1>4. p.event = "SE_ALL" /\ p.nonTerm = GR_DOC_END
  BY DEF Hit, Matched
<1>5. /\ FirstLevelCode(enc, "SE", q) >= 0
      /\ ProductionOf(enc, FirstLevelCode(enc, "SE", q)) = p
      /\ encodeProduction(enc, "SE", q) = Strm(o,"EXIP_OK",b \o f,u,g,t1,c,x)
      /\ HandledAs(o, u, g, t, f, p)
  BY <1>3, <1>4, Zenon DEF Hit
<1>6. PICK b1 \in Seq(FieldT) : b1 = b \o f
  <2>1. b \o f \in Seq(FieldT)
    OBVIOUS
  <2>2. QED
    BY <2>1, Zenon
<1>7. encodeNamed(enc, "SE", q) = encodeQName(Strm(o,"EXIP_OK",b1,u,g,t1,c,x), q, TRUE)
  <2>1. p.event \notin {"SE_QNAME", "AT_QNAME"}
    BY <1>4
  <2>2. PICK s1 : s1 = Strm(o,"EXIP_OK",b1,u,g,t1,c,x)
    OBVIOUS
  <2>3. encodeProduction(enc, "SE", q) = s1
    BY <1>5, <1>6, <2>2, Zenon
  <2>4. encodeNamed(enc, "SE", q) = encodeQName(encodeProduction(enc, "SE", q), q, TRUE)
    BY <1>5, <2>1, NamedByName, Zenon
  <2>5. QED
    BY <2>2, <2>3, <2>4, Zenon
<1>8. ~BuiltIn(enc)
  BY CurrentRules
<1>9. Side(u, g, t1) /\ Head(t1).currNonTermID # GR_VOID_NON_TERMINAL
  <2>1. PICK n : n = GR_DOC_END
    OBVIOUS
  <2>2. Stack(u, g, t)
    BY Zenon DEF Side
  <2>3. \/ Head(t).grammar # DOC /\ n \in {GR_START_TAG_CONTENT, GR_ELEMENT_CONTENT}
        \/ Head(t).grammar = DOC /\ n \in {GR_DOC_CONTENT, GR_DOC_END, GR_VOID_NON_TERMINAL}
    BY <2>1, Zenon
  <2>4. Stack(u, g, Moved(t, n)) /\ Head(Moved(t, n)).currNonTermID = n
    BY <2>2, <2>3, Moves
  <2>5. n # GR_VOID_NON_TERMINAL
    BY <2>1 DEF GR_DOC_END, GR_VOID_NON_TERMINAL
  <2>6. QED
    BY <1>3, <2>1, <2>4, <2>5, Zenon DEF Side
<1>10. Names(u) /\ Fits(NameTab(u, q))
  BY RoomForNames, Zenon DEF Side
<1>11. Side(v, g, t1) /\ KnownId(v, id) /\ Says(v, id, q) /\ Names(v)
  BY <1>1, <1>2, <1>9, NameSaid, Zenon
<1>12. PICK f2 : f2 = NameFields(o, u, q)
  OBVIOUS
<1>13. PICK v2, g2, r : /\ v2 = OpenTab(v, g, id) /\ g2 = OpenGr(v, g, id)
                        /\ r = Pushed(t1, id, OpenId(v, g, id))
  OBVIOUS
<1>14. f2 \in Seq(FieldT) /\ Started(enc, q) = Strm(o,"EXIP_OK",b1 \o f2,v2,g2,r,c,x)
  <2>1. KnownId(NameTab(u, q), NameIdOf(u, q))
    BY <1>1, <1>2, <1>11, Zenon
  <2>2. Unlearned(enc, q, Strm(o,"EXIP_OK",b1,u,g,t1,c,x))
    BY <1>7, <1>8, Zenon DEF Unlearned
  <2>3. /\ NameFields(o, u, q) \in Seq(FieldT)
        /\ Started(enc, q) =
             Strm(o,"EXIP_OK",b1 \o NameFields(o, u, q),
                  OpenTab(NameTab(u, q), g, NameIdOf(u, q)),
                  OpenGr(NameTab(u, q), g, NameIdOf(u, q)),
                  Pushed(t1, NameIdOf(u, q), OpenId(NameTab(u, q), g, NameIdOf(u, q))),c,x)
    BY <1>10, <2>1, <2>2, StartedNew
  <2>4. QED
    BY <1>1, <1>2, <1>12, <1>13, <2>3, Zenon
<1>15. OpenedWell(v, v2, g2, r, id)
  BY <1>9, <1>11, <1>13, XsiNames, Opened, Zenon
<1>16. ASSUME NEW rest \in Seq(FieldT), NEW c1, NEW x1
       PROVE  handleProduction(Strm(o,"EXIP_OK",f2 \o rest,u,g,t,c1,x1), p) =
                Parsed(Strm(o,"EXIP_OK",rest,v2,g2,r,c1,x1), StartTag(q), GR_START_TAG_CONTENT)
  <2>1. DecodeSE(Strm(o,"EXIP_OK",NameFields(o, u, q) \o rest,u,g,t,c1,x1), GR_DOC_END) =
          Parsed(Strm(o,"EXIP_OK",rest,OpenTab(NameTab(u, q), g, NameIdOf(u, q)),
                      OpenGr(NameTab(u, q), g, NameIdOf(u, q)),
                      Pushed(t1, NameIdOf(u, q), OpenId(NameTab(u, q), g, NameIdOf(u, q))),c1,x1),
                 StartTag(q), GR_START_TAG_CONTENT)
    BY <1>3, <1>9, <1>10, DecodingElements
  <2>2. DecodeSE(Strm(o,"EXIP_OK",f2 \o rest,u,g,t,c1,x1), GR_DOC_END) =
          Parsed(Strm(o,"EXIP_OK",rest,v2,g2,r,c1,x1), StartTag(q), GR_START_TAG_CONTENT)
    BY <1>1, <1>2, <1>12, <1>13, <2>1, Zenon
  <2>3. QED
    BY <1>4, <2>2, Handling, Zenon
<1>17. Handles(o, u, g, t, p, f2, v2, g2, r, StartTag(q), GR_START_TAG_CONTENT)
  BY <1>16, Zenon DEF Handles
<1>18. ParsedAs(o, f \o f2, u, g, t, v2, g2, r, StartTag(q), GR_START_TAG_CONTENT)
  BY <1>5, <1>14, <1>17, HandledParsed, Zenon
<1>19. Started(enc, q) = Strm(o,"EXIP_OK",(b \o f) \o f2,v2,g2,r,c,x)
  BY <1>6, <1>14, Zenon
<1>20. QED
  BY <1>14, <1>15, <1>18, <1>19, EncodedStart, Zenon DEF OpenedWell

(* The element of identifier `id`, called q, has been opened before.        *)
LearnedName(u, id, q) ==
  Names(u) /\ Fits(u) /\ KnownId(u, id) /\ Says(u, id, q) /\ GrammarOf(u, id) # NoGrammar

(* The parser reads the learned element q and opens it by its grammar.      *)
DecodesLearned(o, u, g, t, k, id, q, pfx) ==
  \A rest \in Seq(FieldT) : \A c, x :
    DecodeLearnedSE(Strm(o,"EXIP_OK",PfxFields1(o, u, id.uriId, pfx) \o rest,u,g,t,c,x), id, k) =
      Parsed(Strm(o,"EXIP_OK",rest,u,g,Pushed(Moved(t, k), id, GrammarOf(u, id)),c,x),
             StartTag(q), GR_START_TAG_CONTENT)

(* An element that has been learned: only its prefix may follow the code.   *)
LEMMA DecodingLearned ==
  ASSUME NEW o, NEW u, NEW g, NEW t, NEW k, NEW id, NEW q, LearnedName(u, id, q), NEW pfx
  PROVE  DecodesLearned(o, u, g, t, k, id, q, pfx)
<1> SUFFICES ASSUME NEW rest \in Seq(FieldT), NEW c, NEW x
             PROVE  DecodeLearnedSE(Strm(o,"EXIP_OK",PfxFields1(o, u, id.uriId, pfx) \o rest,u,g,t,c,x), id, k) =
                      Parsed(Strm(o,"EXIP_OK",rest,u,g,Pushed(Moved(t, k), id, GrammarOf(u, id)),c,x),
                             StartTag(q), GR_START_TAG_CONTENT)
  BY Zenon DEF DecodesLearned
<1>1. PICK i : i = id.uriId
  OBVIOUS
<1>0. PICK t1 : t1 = Moved(t, k)
  OBVIOUS
<1>11. /\ Names(u) /\ Fits(u) /\ KnownId(u, id) /\ Says(u, id, q)
       /\ GrammarOf(u, id) # NoGrammar
  BY Zenon DEF LearnedName
<1>2. /\ u \in UriTableT /\ i \in 0..Len(u)-1 /\ Len(Pfxs(u, i)) \in 0..URI_MAX
  <2>1. u \in UriTableT /\ i \in 0..Len(u)-1
    BY <1>1, <1>11, Zenon DEF Names, KnownId
  <2>2. i + 1 \in 1..Len(u)
    <3>1. Len(u) \in Nat
      BY <2>1, LenProperties DEF UriTableT
    <3>2. QED
      BY <2>1, <3>1
  <2>3. QED
    BY <1>11, <2>1, <2>2, Zenon DEF Fits, Pfxs
<1>3. PICK f : f = PfxFields1(o, u, i, pfx)
  OBVIOUS
<1>4. PICK s : s = Strm(o,"EXIP_OK",f \o rest,u,g,t,c,x)
  OBVIOUS
<1>5. decodePfxQname(s, i) = Strm(o,"EXIP_OK",rest,u,g,t,c,x)
  <2>1. decodePfxQname(Strm(o,"EXIP_OK",PfxFields1(o, u, i, pfx) \o rest,u,g,t,c,x), i) =
          Strm(o,"EXIP_OK",rest,u,g,t,c,x)
    BY <1>2, DecodingPfxQNames
  <2>2. QED
    BY <1>3, <1>4, <2>1, Zenon
<1>6. SetNonTerm(Strm(o,"EXIP_OK",rest,u,g,t,c,x), k) = Strm(o,"EXIP_OK",rest,u,g,t1,c,x)
  BY <1>0, Moving
<1>7. PushLearnedElement(Strm(o,"EXIP_OK",rest,u,g,t1,c,x), id) =
        Strm(o,"EXIP_OK",rest,u,g,Pushed(t1, id, GrammarOf(u, id)),c,x)
  BY <1>11, PushingElements
<1>8. Named(s, "SE", id, <<>>) = StartTag(q)
  <2>1. UriStr(s, id) = q.uri /\ Ln(s, id).lnStr = q.ln
    BY <1>4, <1>11, NamedAs
  <2>2. QED
    BY <2>1, Zenon DEF StartTag, Named
<1>9. DecodeLearnedSE(s, id, k) =
        Parsed(PushLearnedElement(SetNonTerm(decodePfxQname(s, i), k), id),
               StartTag(q), GR_START_TAG_CONTENT)
  BY <1>1, <1>8, Zenon DEF DecodeLearnedSE
<1>10. QED
  BY <1>0, <1>1, <1>3, <1>4, <1>5, <1>6, <1>7, <1>9, Zenon

(* An element that its parent has learned.                                  *)
LEMMA StartingLearned ==
  ASSUME NEW o, NEW b \in Seq(FieldT), NEW u, NEW g, NEW t, NEW c, NEW x,
         enc = Strm(o,"EXIP_OK",b,u,g,t,c,x),
         Side(u, g, t), Room(u), NEW q \in NameT, ~XsiNil(q), ~XsiType(q),
         NEW p \in ProdT, NEW f \in Seq(FieldT),
         Hit(enc, o, b, u, g, t, c, x, "SE", q, p, f), Head(t).grammar # DOC
  PROVE  \/ Encoded(o, b, u, g, t, x, Started(enc, q), StartTag(q))
         \/ Broken(o, b, x, Started(enc, q))
<1>1. PICK id : id = p.qnameId
  OBVIOUS
<1>2. PICK t1 : t1 = Moved(t, GR_ELEMENT_CONTENT)
  OBVIOUS
<1>3. /\ p.event = "SE_QNAME" /\ p.nonTerm = GR_ELEMENT_CONTENT
      /\ KnownId(u, id) /\ Says(u, id, q) /\ GrammarOf(u, id) # NoGrammar
  BY <1>1 DEF Hit, Matched
<1>4. /\ FirstLevelCode(enc, "SE", q) >= 0
      /\ ProductionOf(enc, FirstLevelCode(enc, "SE", q)) = p
      /\ encodeProduction(enc, "SE", q) = Strm(o,"EXIP_OK",b \o f,u,g,t1,c,x)
      /\ HandledAs(o, u, g, t, f, p)
  BY <1>2, <1>3, Zenon DEF Hit
<1>5. PICK b1 \in Seq(FieldT) : b1 = b \o f
  <2>1. b \o f \in Seq(FieldT)
    OBVIOUS
  <2>2. QED
    BY <2>1, Zenon
<1>6. encodeNamed(enc, "SE", q) =
        encodePfxQName(Strm(o,"EXIP_OK",b1,u,g,t1,c,x), id.uriId, q.pfx, FALSE)
  <2>1. p.event \in {"SE_QNAME", "AT_QNAME"}
    BY <1>3
  <2>2. encodeNamed(enc, "SE", q) =
          encodePfxQName(encodeProduction(enc, "SE", q), p.qnameId.uriId, q.pfx, FALSE)
    BY <1>4, <2>1, NamedByPfx, Zenon
  <2>3. QED
    BY <1>1, <1>4, <1>5, <2>2, Zenon
<1>7. BuiltIn(enc)
  BY CurrentRules
<1>8. Side(u, g, t1) /\ Head(t1).currNonTermID # GR_VOID_NON_TERMINAL
  <2>1. GR_ELEMENT_CONTENT \in {GR_START_TAG_CONTENT, GR_ELEMENT_CONTENT}
        /\ GR_ELEMENT_CONTENT # GR_VOID_NON_TERMINAL
    BY DEF GR_ELEMENT_CONTENT, GR_VOID_NON_TERMINAL
  <2>2. QED
    BY <1>2, <2>1, OpenMoves, Zenon
<1>9. Names(u) /\ Fits(u)
  BY RoomForNames, Zenon DEF Side
<1>10. PICK f2 : f2 = PfxFields1(o, u, id.uriId, q.pfx)
  OBVIOUS
<1>11. PICK r : r = Pushed(t1, id, GrammarOf(u, id))
  OBVIOUS
<1>12. /\ f2 \in Seq(FieldT)
       /\ \/ Started(enc, q) = Strm(o,"EXIP_OK",b1 \o f2,u,g,r,c,x)
          \/ Broken(o, b1, x, Started(enc, q))
  <2>1. Relearned(enc, q, id, Strm(o,"EXIP_OK",b1,u,g,t1,c,x))
    BY <1>4, <1>6, <1>7, Zenon DEF Relearned
  <2>2. /\ PfxFields1(o, u, id.uriId, q.pfx) \in Seq(FieldT)
        /\ \/ Started(enc, q) =
                Strm(o,"EXIP_OK",b1 \o PfxFields1(o, u, id.uriId, q.pfx),u,g,
                     Pushed(t1, id, GrammarOf(u, id)),c,x)
           \/ Broken(o, b1, x, Started(enc, q))
    BY <1>3, <1>8, <1>9, <2>1, StartedLearned
  <2>3. QED
    BY <1>10, <1>11, <2>2, Zenon
<1>13. OpenedWell(u, u, g, r, id)
  <2>1. OpenedWell(u, OpenTab(u, g, id), OpenGr(u, g, id), Pushed(t1, id, OpenId(u, g, id)), id)
    BY <1>3, <1>8, <1>9, XsiNames, Opened, Zenon
  <2>2. QED
    BY <1>3, <1>11, <2>1, Zenon DEF OpenTab, OpenGr, OpenId
<1>14. ASSUME NEW rest \in Seq(FieldT), NEW c1, NEW x1
       PROVE  handleProduction(Strm(o,"EXIP_OK",f2 \o rest,u,g,t,c1,x1), p) =
                Parsed(Strm(o,"EXIP_OK",rest,u,g,r,c1,x1), StartTag(q), GR_START_TAG_CONTENT)
  <2>1. PICK k : k = GR_ELEMENT_CONTENT
    OBVIOUS
  <2>2. PICK y : y = q.pfx
    OBVIOUS
  <2>3. t1 = Moved(t, k)
    BY <1>2, <2>1, Zenon
  <2>0. LearnedName(u, id, q)
    BY <1>3, <1>9, Zenon DEF LearnedName
  <2>4. DecodeLearnedSE(Strm(o,"EXIP_OK",PfxFields1(o, u, id.uriId, y) \o rest,u,g,t,c1,x1), id, k) =
          Parsed(Strm(o,"EXIP_OK",rest,u,g,Pushed(Moved(t, k), id, GrammarOf(u, id)),c1,x1),
                 StartTag(q), GR_START_TAG_CONTENT)
    <3>1. DecodesLearned(o, u, g, t, k, id, q, y)
      BY <2>0, DecodingLearned, Zenon
    <3>2. QED
      BY <3>1, Zenon DEF DecodesLearned
  <2>5. DecodeLearnedSE(Strm(o,"EXIP_OK",f2 \o rest,u,g,t,c1,x1), p.qnameId, p.nonTerm) =
          Parsed(Strm(o,"EXIP_OK",rest,u,g,r,c1,x1), StartTag(q), GR_START_TAG_CONTENT)
    BY <1>1, <1>3, <1>10, <1>11, <2>1, <2>2, <2>3, <2>4, Zenon
  <2>6. QED
    BY <1>3, <2>5, Handling, Zenon
<1>15. Handles(o, u, g, t, p, f2, u, g, r, StartTag(q), GR_START_TAG_CONTENT)
  BY <1>14, Zenon DEF Handles
<1>16. ParsedAs(o, f \o f2, u, g, t, u, g, r, StartTag(q), GR_START_TAG_CONTENT)
  BY <1>4, <1>12, <1>15, HandledParsed, Zenon
<1>17. CASE Started(enc, q) = Strm(o,"EXIP_OK",b1 \o f2,u,g,r,c,x)
  <2>1. Started(enc, q) = Strm(o,"EXIP_OK",(b \o f) \o f2,u,g,r,c,x)
    BY <1>5, <1>17, Zenon
  <2>2. QED
    BY <1>12, <1>13, <1>16, <2>1, EncodedStart, Zenon DEF OpenedWell
<1>18. CASE Broken(o, b1, x, Started(enc, q))
  BY <1>5, <1>18, BrokenBehind, Zenon
<1>19. QED
  BY <1>12, <1>17, <1>18, Zenon

(* An element that the rule had not learned is learned under the identifier *)
(* of its name once its grammar is there.                                   *)
LEMMA OpenedAndLearned ==
  ASSUME NEW u, NEW g, NEW t, Side(u, g, t), RulesFit(g),
         Head(t).currNonTermID # GR_VOID_NON_TERMINAL, Head(t).grammar # DOC, NEW q,
         \A k \in 1..Len(RuleOf(g, t).production) :
           ~MatchesIn(u, "SE", q, RuleOf(g, t).production[k]),
         NEW v, Names(v), Grows(u, v), NEW id, KnownId(v, id), Says(v, id, q),
         NEW v2, NEW g2, NEW r, OpenedWell(v, v2, g2, r, id), g2 = OpenGr(v, g, id)
  PROVE  LET i == Head(t).grammar
             n == Head(t).currNonTermID
             p == Prod("SE_QNAME", GR_ELEMENT_CONTENT, id)
         IN /\ i \in 1..Len(g) /\ n \in {0, 1} /\ p \in ProdT
            /\ OpenedWell(v, v2, ProdAdded(g2, i, n, p), r, id)
<1>1. PICK i : i = Head(t).grammar
  OBVIOUS
<1>2. PICK n : n = Head(t).currNonTermID
  OBVIOUS
<1>3. PICK p : p = Prod("SE_QNAME", GR_ELEMENT_CONTENT, id)
  OBVIOUS
<1>4. Names(u) /\ Grammars(u, g) /\ Stack(u, g, t)
  BY Zenon DEF Side
<1>5. i \in 1..Len(g) /\ n \in {0, 1}
  BY <1>1, <1>2, <1>4, RuleOnTop, Zenon
<1>6. id \in QNameId /\ p \in ProdT
  BY <1>3, ProdTypes, Zenon DEF KnownId
<1>7. Side(v2, g2, r) /\ Grows(v, v2) /\ GrammarOf(v2, id) # NoGrammar
  BY Zenon DEF OpenedWell
<1>8. u \in UriTableT /\ v \in UriTableT /\ v2 \in UriTableT
  BY <1>4, <1>7, Zenon DEF Names, Side
<1>9. Grows(u, v2) /\ KnownId(v2, id) /\ Says(v2, id, q)
  <2>1. Grows(u, v2)
    BY <1>7, <1>8, GrowsOn, Zenon
  <2>2. /\ KnownId(v2, id)
        /\ At(v2, id.uriId).uriStr = At(v, id.uriId).uriStr
        /\ At(At(v2, id.uriId).lnTable, id.lnId).lnStr =
             At(At(v, id.uriId).lnTable, id.lnId).lnStr
    BY <1>7, <1>8, KnownIds
  <2>3. QED
    BY <2>1, <2>2, Zenon DEF Says
<1>10. i \in 1..Len(g2) /\ Prods(g2, i, n + 1) = Prods(g, i, n + 1)
  <2>1. g \in GrammarTableT
    BY <1>4, Zenon DEF Grammars
  <2>2. Len(g2) \in Nat /\ Len(g) \in Nat /\ Len(g) <= Len(g2) /\ g2[i] = g[i]
    BY <1>5, <2>1 DEF OpenGr, GrammarTableT
  <2>3. i \in 1..Len(g2)
    BY <1>5, <2>2
  <2>4. QED
    BY <2>2, <2>3, Zenon DEF Prods
<1>11. LearnedProd(v2, n + 1, p)
  <2>1. p.event = "SE_QNAME" /\ p.nonTerm = GR_ELEMENT_CONTENT /\ p.qnameId = id
    BY <1>3 DEF Prod
  <2>2. QED
    BY <1>7, <1>9, <2>1, Zenon DEF LearnedProd
<1>12. \A k \in 1..Len(Prods(g2, i, n + 1)) : Prods(g2, i, n + 1)[k] # p
  <2>1. \A w \in UriTableT : \A d : Grows(u, w) /\ Says(w, d, q) =>
          \A k \in 1..Len(Prods(g, i, n + 1)) :
            Prods(g, i, n + 1)[k] # Prod("SE_QNAME", GR_ELEMENT_CONTENT, d)
    BY <1>1, <1>2, <1>4, <1>8, NotLearned, Zenon
  <2>2. QED
    BY <1>3, <1>8, <1>9, <1>10, <2>1, Zenon
<1>13. Grammars(v2, ProdAdded(g2, i, n, p)) /\ Len(ProdAdded(g2, i, n, p)) = Len(g2)
  <2>1. Grammars(v2, g2)
    BY <1>7, Zenon DEF Side
  <2>2. QED
    BY <1>5, <1>6, <1>10, <1>11, <1>12, <2>1, LearningProds
<1>14. Side(v2, ProdAdded(g2, i, n, p), r)
  BY <1>7, <1>13, SideOfLearned, Zenon
<1>15. OpenedWell(v, v2, ProdAdded(g2, i, n, p), r, id)
  BY <1>7, <1>14, Zenon DEF OpenedWell
<1>16. QED
  BY <1>1, <1>2, <1>3, <1>5, <1>6, <1>15, Zenon

(* An element that its rule has not learned: the serializer learns it under *)
(* the identifier its name will get, the parser under the one it got.       *)
LEMMA StartingUnlearned ==
  ASSUME NEW o, NEW b \in Seq(FieldT), NEW u, NEW g, NEW t, NEW c, NEW x,
         enc = Strm(o,"EXIP_OK",b,u,g,t,c,x),
         Side(u, g, t), Room(u), RulesFit(g), NEW q \in NameT, ~XsiNil(q), ~XsiType(q),
         NEW f \in Seq(FieldT), Miss(enc, o, u, g, t, "SE", q, f),
         Head(t).currNonTermID # GR_VOID_NON_TERMINAL
  PROVE  Encoded(o, b, u, g, t, x, Started(enc, q), StartTag(q))
<1>1. PICK v : v = NameTab(u, q)
  OBVIOUS
<1>2. PICK id : id = NameIdOf(u, q)
  OBVIOUS
<1>3. PICK t1 : t1 = Moved(t, GR_ELEMENT_CONTENT)
  OBVIOUS
<1>4. PICK i, n : i = Head(t).grammar /\ n = Head(t).currNonTermID
  OBVIOUS
<1>5. PICK p : p = Prod("SE_QNAME", GR_ELEMENT_CONTENT, id)
  OBVIOUS
<1>6. PICK h : h = ProdAdded(g, i, n, p)
  OBVIOUS
<1>7. /\ ~(FirstLevelCode(enc, "SE", q) >= 0) /\ Head(t).grammar # DOC
      /\ \A k \in 1..Len(RuleOf(g, t).production) :
           ~MatchesIn(u, "SE", q, RuleOf(g, t).production[k])
      /\ encodeProduction(enc, "SE", q) = Write(Learn(enc, "SE", q), f)
      /\ LearnedAs(o, u, g, t, f, "SE")
  BY Zenon DEF Miss
<1>8. PICK b1 \in Seq(FieldT) : b1 = b \o f
  <2>1. b \o f \in Seq(FieldT)
    OBVIOUS
  <2>2. QED
    BY <2>1, Zenon
<1>9. Names(u) /\ Fits(NameTab(u, q)) /\ Grammars(u, g)
  BY RoomForNames, Zenon DEF Side
<1>10. encodeProduction(enc, "SE", q) = Strm(o,"EXIP_OK",b1,u,h,t1,c,x)
  <2>1. PICK s : s = Strm(o,"EXIP_OK",b,u,g,t,c,x)
    OBVIOUS
  <2>2. PredictedQNameID(Strm(o,"EXIP_OK",b,u,g,t,c,x), q) = NameIdOf(u, q)
    BY <1>9, Predicting
  <2>3. Learn(Strm(o,"EXIP_OK",b,u,g,t,c,x), "SE", q) =
          Strm(o,"EXIP_OK",b,u,ProdAdded(g, Head(t).grammar, Head(t).currNonTermID,
                                 Prod("SE_QNAME", GR_ELEMENT_CONTENT,
                                      PredictedQNameID(Strm(o,"EXIP_OK",b,u,g,t,c,x), q))),
               Moved(t, GR_ELEMENT_CONTENT),c,x)
    BY Learning
  <2>4. Learn(enc, "SE", q) = Strm(o,"EXIP_OK",b,u,h,t1,c,x)
    BY <1>2, <1>3, <1>4, <1>5, <1>6, <2>2, <2>3, Zenon
  <2>5. Write(Strm(o,"EXIP_OK",b,u,h,t1,c,x), f) = Strm(o,"EXIP_OK",b \o f,u,h,t1,c,x)
    BY Writing
  <2>6. QED
    BY <1>7, <1>8, <2>4, <2>5, Zenon
<1>11. Side(u, g, t1) /\ Head(t1).currNonTermID # GR_VOID_NON_TERMINAL
  <2>1. GR_ELEMENT_CONTENT \in {GR_START_TAG_CONTENT, GR_ELEMENT_CONTENT}
        /\ GR_ELEMENT_CONTENT # GR_VOID_NON_TERMINAL
    BY DEF GR_ELEMENT_CONTENT, GR_VOID_NON_TERMINAL
  <2>2. QED
    BY <1>3, <1>7, <2>1, OpenMoves, Zenon
<1>12. Side(v, g, t1) /\ KnownId(v, id) /\ Says(v, id, q) /\ Names(v) /\ Grows(u, v)
  BY <1>1, <1>2, <1>11, NameSaid, Zenon
<1>13. PICK f2 : f2 = NameFields(o, u, q)
  OBVIOUS
<1>14. PICK v2, g2, r : /\ v2 = OpenTab(v, g, id) /\ g2 = OpenGr(v, g, id)
                        /\ r = Pushed(t1, id, OpenId(v, g, id))
  OBVIOUS
<1>15. PICK g3 : g3 = ProdAdded(g2, i, n, p)
  OBVIOUS
<1>16. OpenedWell(v, v2, g2, r, id)
  BY <1>11, <1>12, <1>14, XsiNames, Opened, Zenon
<1>17. i \in 1..Len(g) /\ n \in {0, 1} /\ p \in ProdT /\ OpenedWell(v, v2, g3, r, id)
  <2>1. LET i_ == Head(t).grammar
            n_ == Head(t).currNonTermID
            p_ == Prod("SE_QNAME", GR_ELEMENT_CONTENT, id)
        IN /\ i_ \in 1..Len(g) /\ n_ \in {0, 1} /\ p_ \in ProdT
           /\ OpenedWell(v, v2, ProdAdded(g2, i_, n_, p_), r, id)
    BY <1>7, <1>12, <1>14, <1>16, OpenedAndLearned
  <2>2. QED
    BY <1>4, <1>5, <1>15, <2>1, Zenon
<1>18. OpenTab(v, h, id) = v2 /\ OpenGr(v, h, id) = g3 /\ OpenId(v, h, id) = OpenId(v, g, id)
  <2>1. g \in GrammarTableT
    BY <1>9, Zenon DEF Grammars
  <2>2. QED
    <3>1. /\ OpenTab(v, ProdAdded(g, i, n, p), id) = OpenTab(v, g, id)
          /\ OpenId(v, ProdAdded(g, i, n, p), id) = OpenId(v, g, id)
          /\ OpenGr(v, ProdAdded(g, i, n, p), id) = ProdAdded(OpenGr(v, g, id), i, n, p)
      BY <1>17, <2>1, OpenedAfter
    <3>2. QED
      BY <1>6, <1>14, <1>15, <3>1, Zenon
<1>19. f2 \in Seq(FieldT) /\ Started(enc, q) = Strm(o,"EXIP_OK",b1 \o f2,v2,g3,r,c,x)
  <2>1. KnownId(NameTab(u, q), NameIdOf(u, q))
    BY <1>1, <1>2, <1>12, Zenon
  <2>2. Unlearned(enc, q, Strm(o,"EXIP_OK",b1,u,h,t1,c,x))
    <3>1. ~(/\ FirstLevelCode(enc, "SE", q) >= 0
            /\ ProductionOf(enc, FirstLevelCode(enc, "SE", q)).event \in {"SE_QNAME", "AT_QNAME"})
      BY <1>7, Zenon
    <3>2. encodeNamed(enc, "SE", q) = encodeQName(encodeProduction(enc, "SE", q), q, TRUE)
      BY <3>1, NamedByName, Zenon
    <3>3. QED
      BY <1>7, <1>10, <3>2, Zenon DEF Unlearned
  <2>3. /\ NameFields(o, u, q) \in Seq(FieldT)
        /\ Started(enc, q) =
             Strm(o,"EXIP_OK",b1 \o NameFields(o, u, q),
                  OpenTab(NameTab(u, q), h, NameIdOf(u, q)),
                  OpenGr(NameTab(u, q), h, NameIdOf(u, q)),
                  Pushed(t1, NameIdOf(u, q), OpenId(NameTab(u, q), h, NameIdOf(u, q))),c,x)
    BY <1>9, <2>1, <2>2, StartedNew
  <2>4. QED
    BY <1>1, <1>2, <1>13, <1>14, <1>18, <2>3, Zenon
<1>20. ASSUME NEW rest \in Seq(FieldT), NEW c1, NEW x1
       PROVE  LearnParsed(SecondLevelEvent(Strm(o,"EXIP_OK",f2 \o rest,u,g,t,c1,x1), "SE"),
                          "SE", Head(t).grammar, Head(t).currNonTermID) =
                Parsed(Strm(o,"EXIP_OK",rest,v2,g3,r,c1,x1), StartTag(q), GR_START_TAG_CONTENT)
  <2>1. PICK k : k = GR_ELEMENT_CONTENT
    OBVIOUS
  <2>2. t1 = Moved(t, k)
    BY <1>3, <2>1, Zenon
  <2>3. DecodeSE(Strm(o,"EXIP_OK",NameFields(o, u, q) \o rest,u,g,t,c1,x1), k) =
          Parsed(Strm(o,"EXIP_OK",rest,OpenTab(NameTab(u, q), g, NameIdOf(u, q)),
                      OpenGr(NameTab(u, q), g, NameIdOf(u, q)),
                      Pushed(t1, NameIdOf(u, q), OpenId(NameTab(u, q), g, NameIdOf(u, q))),c1,x1),
                 StartTag(q), GR_START_TAG_CONTENT)
    BY <1>9, <1>11, <2>2, DecodingElements
  <2>4. SecondLevelEvent(Strm(o,"EXIP_OK",f2 \o rest,u,g,t,c1,x1), "SE") =
          Parsed(Strm(o,"EXIP_OK",rest,v2,g2,r,c1,x1), StartTag(q), GR_START_TAG_CONTENT)
    BY <1>1, <1>2, <1>13, <1>14, <2>1, <2>3, SecondLevelEvents, Zenon
  <2>5. LearnParsed(Parsed(Strm(o,"EXIP_OK",rest,v2,g2,r,c1,x1), StartTag(q), GR_START_TAG_CONTENT),
                    "SE", i, n) =
          Parsed(Strm(o,"EXIP_OK",rest,v2,
                      ProdAdded(g2, i, n, Prod("SE_QNAME", GR_ELEMENT_CONTENT, Head(r).currQNameID)),
                      r,c1,x1), StartTag(q), GR_START_TAG_CONTENT)
    BY LearningParsed
  <2>6. Head(r).currQNameID = id
    BY <1>16, Zenon DEF OpenedWell
  <2>7. QED
    BY <1>4, <1>5, <1>15, <2>4, <2>5, <2>6, Zenon
<1>21. Learns(o, u, g, t, "SE", f2, v2, g3, r, StartTag(q), GR_START_TAG_CONTENT)
  BY <1>20, Zenon DEF Learns
<1>22. ParsedAs(o, f \o f2, u, g, t, v2, g3, r, StartTag(q), GR_START_TAG_CONTENT)
  BY <1>7, <1>19, <1>21, LearnedParsed, Zenon
<1>23. Started(enc, q) = Strm(o,"EXIP_OK",(b \o f) \o f2,v2,g3,r,c,x)
  BY <1>8, <1>19, Zenon
<1>24. QED
  BY <1>17, <1>19, <1>22, <1>23, EncodedStart, Zenon DEF OpenedWell

(* startElement: the element arrives, or an undeclared prefix stops the     *)
(* serializer before the event is complete.                                 *)
LEMMA StartingElements ==
  ASSUME NEW o, NEW b \in Seq(FieldT), NEW u, NEW g, NEW t, NEW c, NEW x,
         enc = Strm(o,"EXIP_OK",b,u,g,t,c,x),
         Side(u, g, t), Room(u), RulesFit(g), NEW q \in NameT, ~XsiNil(q), ~XsiType(q),
         CanEncode("SE", q)
  PROVE  \/ Encoded(o, b, u, g, t, x, Started(enc, q), StartTag(q))
         \/ Broken(o, b, x, Started(enc, q))
<1>1. Fits(u)
  BY RoomForNames, Zenon DEF Side
<1>2. /\ Head(t).currNonTermID # GR_VOID_NON_TERMINAL
      /\ \/ \E p \in ProdT, f \in Seq(FieldT) : Hit(enc, o, b, u, g, t, c, x, "SE", q, p, f)
         \/ \E f \in Seq(FieldT) : Miss(enc, o, u, g, t, "SE", q, f)
  <2>1. "SE" \in {"EE", "AT", "NS", "SE", "CH", "ED"}
    OBVIOUS
  <2>2. QED
    BY <1>1, <2>1, Coded, Zenon
<1>3. ASSUME NEW p \in ProdT, NEW f \in Seq(FieldT),
             Hit(enc, o, b, u, g, t, c, x, "SE", q, p, f), Head(t).grammar = DOC
      PROVE  Encoded(o, b, u, g, t, x, Started(enc, q), StartTag(q))
  BY <1>3, StartingRoot, Zenon
<1>4. ASSUME NEW p \in ProdT, NEW f \in Seq(FieldT),
             Hit(enc, o, b, u, g, t, c, x, "SE", q, p, f), Head(t).grammar # DOC
      PROVE  \/ Encoded(o, b, u, g, t, x, Started(enc, q), StartTag(q))
             \/ Broken(o, b, x, Started(enc, q))
  BY <1>4, StartingLearned, Zenon
<1>5. ASSUME NEW f \in Seq(FieldT), Miss(enc, o, u, g, t, "SE", q, f)
      PROVE  Encoded(o, b, u, g, t, x, Started(enc, q), StartTag(q))
  BY <1>2, <1>5, StartingUnlearned, Zenon
<1>6. QED
  BY <1>2, <1>3, <1>4, <1>5, Zenon

(* The value of an attribute, read by the parser.                           *)
AttributeOf(q, val) == Event("AT", q.uri, q.ln, val)

ValueRead(o, fv, v, v2, id, val) ==
  \A rest \in Seq(FieldT) : \A g, t, c, x :
    decodeValueItem(Strm(o,"EXIP_OK",fv \o rest,v,g,t,c,x), id) =
      Result(Strm(o,"EXIP_OK",rest,v2,g,t,c,x), val)

(* An attribute is delivered under its name with its value.                 *)
LEMMA ReadingAttributes ==
  ASSUME NEW o, NEW fv, NEW v, NEW v2, NEW id, NEW val, ValueRead(o, fv, v, v2, id, val),
         NEW q, Says(v, id, q), NEW g, NEW t, NEW c, NEW x, NEW rest \in Seq(FieldT)
  PROVE  DecodeAttributeOf(Strm(o,"EXIP_OK",fv \o rest,v,g,t,c,x), id) =
           Parsed(Strm(o,"EXIP_OK",rest,v2,g,t,id,x), AttributeOf(q, val), GR_START_TAG_CONTENT)
<1>1. PICK s : s = Strm(o,"EXIP_OK",fv \o rest,v,g,t,c,x)
  OBVIOUS
<1>2. PICK s1 : s1 = Strm(o,"EXIP_OK",rest,v2,g,t,id,x)
  OBVIOUS
<1>3. [s EXCEPT !.currAttr = id] = Strm(o,"EXIP_OK",fv \o rest,v,g,t,id,x)
  <2>1. PICK b : b = fv \o rest
    OBVIOUS
  <2>2. [Strm(o,"EXIP_OK",b,v,g,t,c,x) EXCEPT !.currAttr = id] =
          Strm(o,"EXIP_OK",b,v,g,t,id,x)
    BY DEF Strm
  <2>3. QED
    BY <1>1, <2>1, <2>2, Zenon
<1>4. decodeValueItem([s EXCEPT !.currAttr = id], id) = Result(s1, val)
  <2>1. decodeValueItem(Strm(o,"EXIP_OK",fv \o rest,v,g,t,id,x), id) = Result(s1, val)
    BY <1>2, Zenon DEF ValueRead
  <2>2. QED
    BY <1>3, <2>1, Zenon
<1>5. Named(s, "AT", id, val) = AttributeOf(q, val)
  <2>1. UriStr(s, id) = q.uri /\ Ln(s, id).lnStr = q.ln
    BY <1>1, NamedAs
  <2>2. QED
    BY <2>1, Zenon DEF AttributeOf, Named
<1>6. Result(s1, val).s = s1 /\ Result(s1, val).val = val
  BY Results
<1>7. DecodeAttributeOf(s, id) =
        Parsed(s1, Named(s, "AT", id, val), GR_START_TAG_CONTENT)
  BY <1>4, <1>6, Zenon DEF DecodeAttributeOf
<1>8. QED
  BY <1>1, <1>2, <1>5, <1>7, Zenon

(* An attribute that its rule has learned.                                  *)
LEMMA LearnedAttributeRead ==
  ASSUME NEW o, NEW u, Names(u), Fits(u), NEW g, NEW t, NEW p, p.event = "AT_QNAME",
         KnownId(u, p.qnameId), NEW q, Says(u, p.qnameId, q), NEW pfx,
         NEW fv \in Seq(FieldT), NEW u2, NEW val, ValueRead(o, fv, u, u2, p.qnameId, val),
         PfxFields1(o, u, p.qnameId.uriId, pfx) \in Seq(FieldT)
  PROVE  Handles(o, u, g, t, p, PfxFields1(o, u, p.qnameId.uriId, pfx) \o fv, u2, g, t,
                 AttributeOf(q, val), GR_START_TAG_CONTENT)
<1>1. PICK id : id = p.qnameId
  OBVIOUS
<1>2. PICK i : i = id.uriId
  OBVIOUS
<1>3. PICK f2 \in Seq(FieldT) : f2 = PfxFields1(o, u, i, pfx)
  BY <1>1, <1>2, Zenon
<1>4. u \in UriTableT /\ i \in 0..Len(u)-1 /\ Len(Pfxs(u, i)) \in 0..URI_MAX
  <2>1. u \in UriTableT /\ i \in 0..Len(u)-1
    BY <1>1, <1>2, Zenon DEF Names, KnownId
  <2>2. i + 1 \in 1..Len(u)
    <3>1. Len(u) \in Nat
      BY <2>1, LenProperties DEF UriTableT
    <3>2. QED
      BY <2>1, <3>1
  <2>3. QED
    BY <2>1, <2>2, Zenon DEF Fits, Pfxs
<1>5. ASSUME NEW rest \in Seq(FieldT), NEW c, NEW x
      PROVE  handleProduction(Strm(o,"EXIP_OK",(f2 \o fv) \o rest,u,g,t,c,x), p) =
               Parsed(Strm(o,"EXIP_OK",rest,u2,g,t,id,x), AttributeOf(q, val), GR_START_TAG_CONTENT)
  <2>1. (f2 \o fv) \o rest = f2 \o (fv \o rest) /\ fv \o rest \in Seq(FieldT)
    BY Assoc
  <2>2. PICK more \in Seq(FieldT) : more = fv \o rest
    BY <2>1, Zenon
  <2>3. PICK s : s = Strm(o,"EXIP_OK",f2 \o more,u,g,t,c,x)
    OBVIOUS
  <2>4. decodePfxQname(Strm(o,"EXIP_OK",PfxFields1(o, u, i, pfx) \o more,u,g,t,c,x), i) =
          Strm(o,"EXIP_OK",more,u,g,t,c,x)
    BY <1>4, DecodingPfxQNames
  <2>5. DecodeAttributeOf(Strm(o,"EXIP_OK",fv \o rest,u,g,t,c,x), id) =
           Parsed(Strm(o,"EXIP_OK",rest,u2,g,t,id,x), AttributeOf(q, val), GR_START_TAG_CONTENT)
    BY <1>1, ReadingAttributes
  <2>6. handleProduction(s, p) = DecodeAttributeOf(decodePfxQname(s, i), id)
    BY <1>1, <1>2, Handling, Zenon
  <2>7. QED
    BY <1>3, <2>1, <2>2, <2>3, <2>4, <2>5, <2>6, Zenon
<1>6. Handles(o, u, g, t, p, f2 \o fv, u2, g, t, AttributeOf(q, val), GR_START_TAG_CONTENT)
  BY <1>5, Zenon DEF Handles
<1>7. QED
  BY <1>1, <1>2, <1>3, <1>6, Zenon

(* An attribute that its rule has not learned: the parser reads its name    *)
(* and its value, and learns it afterwards.                                 *)
LEMMA UnlearnedAttributeRead ==
  ASSUME NEW o, NEW u, Names(u), NEW g, NEW t, NEW q \in NameT, Fits(NameTab(u, q)),
         Says(NameTab(u, q), NameIdOf(u, q), q), NameFields(o, u, q) \in Seq(FieldT),
         NEW fv \in Seq(FieldT), NEW u2, NEW val,
         ValueRead(o, fv, NameTab(u, q), u2, NameIdOf(u, q), val)
  PROVE  Learns(o, u, g, t, "AT", NameFields(o, u, q) \o fv, u2,
                AttrAdded(g, Head(t).grammar, NameIdOf(u, q)), t,
                AttributeOf(q, val), GR_START_TAG_CONTENT)
<1>1. PICK v : v = NameTab(u, q)
  OBVIOUS
<1>2. PICK id : id = NameIdOf(u, q)
  OBVIOUS
<1>3. PICK f2 \in Seq(FieldT) : f2 = NameFields(o, u, q)
  OBVIOUS
<1>4. PICK i, n : i = Head(t).grammar /\ n = Head(t).currNonTermID
  OBVIOUS
<1>5. Says(v, id, q) /\ ValueRead(o, fv, v, u2, id, val)
  BY <1>1, <1>2, Zenon
<1>6. ASSUME NEW rest \in Seq(FieldT), NEW c, NEW x
      PROVE  LearnParsed(SecondLevelEvent(Strm(o,"EXIP_OK",(f2 \o fv) \o rest,u,g,t,c,x), "AT"),
                         "AT", i, n) =
               Parsed(Strm(o,"EXIP_OK",rest,u2,AttrAdded(g, i, id),t,id,x),
                      AttributeOf(q, val), GR_START_TAG_CONTENT)
  <2>1. (f2 \o fv) \o rest = f2 \o (fv \o rest) /\ fv \o rest \in Seq(FieldT)
    BY Assoc
  <2>2. PICK more \in Seq(FieldT) : more = fv \o rest
    BY <2>1, Zenon
  <2>3. PICK s : s = Strm(o,"EXIP_OK",f2 \o more,u,g,t,c,x)
    OBVIOUS
  <2>4. PICK s1 : s1 = Strm(o,"EXIP_OK",more,v,g,t,c,x)
    OBVIOUS
  <2>5. decodeQName(s) = Result(s1, id)
    <3>1. decodeQName(Strm(o,"EXIP_OK",NameFields(o, u, q) \o more,u,g,t,c,x)) =
            Result(Strm(o,"EXIP_OK",more,NameTab(u, q),g,t,c,x), NameIdOf(u, q))
      BY DecodingNames
    <3>2. QED
      BY <1>1, <1>2, <1>3, <2>3, <2>4, <3>1, Zenon
  <2>6. DecodeAttributeOf(s1, id) =
          Parsed(Strm(o,"EXIP_OK",rest,u2,g,t,id,x), AttributeOf(q, val), GR_START_TAG_CONTENT)
    <3>1. DecodeAttributeOf(Strm(o,"EXIP_OK",fv \o rest,v,g,t,c,x), id) =
            Parsed(Strm(o,"EXIP_OK",rest,u2,g,t,id,x), AttributeOf(q, val), GR_START_TAG_CONTENT)
      BY <1>5, ReadingAttributes
    <3>2. QED
      BY <2>2, <2>4, <3>1, Zenon
  <2>7. DecodeAT(s) = DecodeAttributeOf(s1, id)
    <3>1. PICK R : R = Result(s1, id)
      OBVIOUS
    <3>2. R.s = s1 /\ R.val = id
      BY <3>1, Results, Zenon
    <3>3. s1.err = "EXIP_OK"
      BY <2>4, Accesses
    <3>4. QED
      BY <2>5, <3>1, <3>2, <3>3, Zenon DEF DecodeAT
  <2>8. LearnParsed(Parsed(Strm(o,"EXIP_OK",rest,u2,g,t,id,x), AttributeOf(q, val), GR_START_TAG_CONTENT),
                    "AT", i, n) =
          Parsed(Strm(o,"EXIP_OK",rest,u2,AttrAdded(g, i, id),t,id,x),
                 AttributeOf(q, val), GR_START_TAG_CONTENT)
    BY LearningParsed
  <2>9. SecondLevelEvent(s, "AT") = DecodeAT(s)
    BY SecondLevelEvents, Zenon
  <2>10. QED
    BY <2>1, <2>2, <2>3, <2>6, <2>7, <2>8, <2>9, Zenon
<1>7. Learns(o, u, g, t, "AT", f2 \o fv, u2, AttrAdded(g, i, id), t,
             AttributeOf(q, val), GR_START_TAG_CONTENT)
  <2>1. ASSUME NEW rest \in Seq(FieldT), NEW c, NEW x
        PROVE  LearnParsed(SecondLevelEvent(Strm(o,"EXIP_OK",(f2 \o fv) \o rest,u,g,t,c,x), "AT"),
                           "AT", Head(t).grammar, Head(t).currNonTermID) =
                 Parsed(Strm(o,"EXIP_OK",rest,u2,AttrAdded(g, i, id),t,id,x),
                        AttributeOf(q, val), GR_START_TAG_CONTENT)
    BY <1>4, <1>6, Zenon
  <2>2. QED
    BY <2>1, Zenon DEF Learns
<1>8. QED
  BY <1>2, <1>3, <1>4, <1>7, Zenon

(* The name of an attribute is written, its value is not: whatever value    *)
(* follows, the parser delivers the attribute with it.                      *)
Pending(o, f, u, g, t, v, h, id) ==
  \E q \in AttrNames :
    /\ ~XsiNil(q) /\ KnownId(v, id) /\ Says(v, id, q)
    /\ Head(t).currNonTermID # GR_VOID_NON_TERMINAL
    /\ \A fv \in Seq(FieldT) : \A v2, val :
         ValueRead(o, fv, v, v2, id, val) =>
           Leads(o, f \o fv, u, g, t, v2, h, t, AttributeOf(q, val))

(* The start tag stays open behind an attribute.                            *)
LEMMA PendingAttributes ==
  ASSUME NEW o, NEW f \in Seq(FieldT), NEW u, NEW g, NEW t, Stack(u, g, t),
         Head(t).currNonTermID = GR_START_TAG_CONTENT, NEW v, NEW h, NEW id,
         NEW q \in AttrNames, ~XsiNil(q), KnownId(v, id), Says(v, id, q),
         \A fv \in Seq(FieldT) : \A v2, val :
           ValueRead(o, fv, v, v2, id, val) =>
             ParsedAs(o, f \o fv, u, g, t, v2, h, t, AttributeOf(q, val), GR_START_TAG_CONTENT)
  PROVE  Pending(o, f, u, g, t, v, h, id)
<1>1. PICK n : n = GR_START_TAG_CONTENT
  OBVIOUS
<1>2. n # GR_VOID_NON_TERMINAL
  BY <1>1 DEF GR_START_TAG_CONTENT, GR_VOID_NON_TERMINAL
<1>3. t \in Seq(NodeT) /\ Len(t) >= 1
  BY Tops
<1>4. Moved(t, n) = t
  BY <1>1, <1>3, NoMoves, Zenon
<1>5. ParserStack(t) = t
  BY <1>1, <1>2, Zenon DEF ParserStack
<1>6. ASSUME NEW fv \in Seq(FieldT), NEW v2, NEW val, ValueRead(o, fv, v, v2, id, val)
      PROVE  Leads(o, f \o fv, u, g, t, v2, h, t, AttributeOf(q, val))
  <2>1. PICK ev : ev = AttributeOf(q, val)
    OBVIOUS
  <2>2. ParsedAs(o, f \o fv, u, g, t, v2, h, t, ev, n)
    BY <1>1, <1>6, <2>1, Zenon
  <2>3. n = GR_VOID_NON_TERMINAL => ParserStack(t) = Tail(t)
    BY <1>2, Zenon
  <2>4. n # GR_VOID_NON_TERMINAL => ParserStack(t) = Moved(t, n)
    BY <1>4, <1>5, Zenon
  <2>5. Leads(o, f \o fv, u, g, t, v2, h, t, ev)
    BY <2>2, <2>3, <2>4, LeadingTo, Zenon
  <2>6. QED
    BY <2>1, <2>5, Zenon
<1>7. Head(t).currNonTermID # GR_VOID_NON_TERMINAL
  BY <1>1, <1>2, Zenon
<1>8. QED
  BY <1>6, <1>7, Zenon DEF Pending

(* attribute, up to the value.                                              *)
Attributed(s, q) ==
  LET s1 == encodeNamed(s, "AT", q)
  IN IF s1.err = "EXIP_OK"
     THEN [s1 EXCEPT !.currAttr = QNameIDOf(s1, q), !.expectATData = TRUE]
     ELSE s1

Attributing(o, b, u, g, t, s) ==
  \E f \in Seq(FieldT) : \E v, h, id :
    /\ s = Strm(o,"EXIP_OK",b \o f,v,h,t,id,TRUE)
    /\ Side(v, h, t)
    /\ Pending(o, f, u, g, t, v, h, id)

Naming(s, q, s1) == encodeNamed(s, "AT", q) = s1

Awaiting(o, b, v, h, t, id) == Strm(o,"EXIP_OK",b,v,h,t,id,TRUE)

(* The serializer waits for the value of the attribute it has named.        *)
LEMMA AttributedAs ==
  ASSUME NEW o, NEW b, NEW v, NEW h, NEW t, NEW c, NEW x, NEW s, NEW q,
         Naming(s, q, Strm(o,"EXIP_OK",b,v,h,t,c,x)),
         Names(v), NEW id, KnownId(v, id), Says(v, id, q)
  PROVE  Attributed(s, q) = Awaiting(o, b, v, h, t, id)
<1>1. PICK s1 : s1 = Strm(o,"EXIP_OK",b,v,h,t,c,x)
  OBVIOUS
<1>2. s1.err = "EXIP_OK"
  BY <1>1, Accesses
<1>3. QNameIDOf(s1, q) = id
  BY <1>1, IdFound
<1>4. PICK y : y = TRUE
  OBVIOUS
<1>5. [s1 EXCEPT !.currAttr = id, !.expectATData = y] = Strm(o,"EXIP_OK",b,v,h,t,id,y)
  <2>1. ASSUME NEW s2, s2 = [s1 EXCEPT !.currAttr = id]
        PROVE  [s2 EXCEPT !.expectATData = y] = Strm(o,"EXIP_OK",b,v,h,t,id,y)
    <3>1. s2 = Strm(o,"EXIP_OK",b,v,h,t,id,x)
      BY <1>1, <2>1 DEF Strm
    <3>2. [Strm(o,"EXIP_OK",b,v,h,t,id,x) EXCEPT !.expectATData = y] =
            Strm(o,"EXIP_OK",b,v,h,t,id,y)
      BY DEF Strm
    <3>3. QED
      BY <3>1, <3>2, Zenon
  <2>2. QED
    BY <2>1, Zenon
<1>6. Attributed(s, q) = [s1 EXCEPT !.currAttr = id, !.expectATData = y]
  BY <1>1, <1>2, <1>3, <1>4, Zenon DEF Attributed, Naming
<1>7. QED
  BY <1>4, <1>5, <1>6, Zenon DEF Awaiting

(* An error while the name is written leaves the event unfinished.          *)
LEMMA BrokenAttributes ==
  ASSUME NEW o, NEW e, e # "EXIP_OK", NEW b, NEW f \in Seq(FieldT), NEW v, NEW h, NEW t,
         NEW c, NEW x, NEW s, NEW q, encodeNamed(s, "AT", q) = Strm(o,e,b \o f,v,h,t,c,x),
         Side(v, h, t)
  PROVE  Broken(o, b, x, Attributed(s, q))
<1>1. PICK s1 : s1 = Strm(o,e,b \o f,v,h,t,c,x)
  OBVIOUS
<1>2. s1.err # "EXIP_OK"
  BY <1>1, Accesses
<1>3. Attributed(s, q) = s1
  BY <1>1, <1>2, Zenon DEF Attributed
<1>4. QED
  BY <1>1, <1>3, Zenon DEF Broken

(* The name of a learned attribute.                                         *)
LEMMA NamingLearned ==
  ASSUME NEW o, NEW b \in Seq(FieldT), NEW u, NEW g, NEW t, NEW c, NEW x,
         enc = Strm(o,"EXIP_OK",b,u,g,t,c,x),
         Side(u, g, t), Room(u), NEW q \in AttrNames, q \in NameT, ~XsiNil(q),
         NEW p \in ProdT, NEW f \in Seq(FieldT),
         Hit(enc, o, b, u, g, t, c, x, "AT", q, p, f)
  PROVE  Attributing(o, b, u, g, t, Attributed(enc, q)) \/ Broken(o, b, x, Attributed(enc, q))
<1>1. PICK id : id = p.qnameId
  OBVIOUS
<1>2. PICK n : n = GR_START_TAG_CONTENT
  OBVIOUS
<1>3. /\ p.event = "AT_QNAME" /\ p.nonTerm = n /\ Head(t).grammar # DOC
      /\ Head(t).currNonTermID = n /\ KnownId(u, id) /\ Says(u, id, q)
  BY <1>1, <1>2 DEF Hit, Matched
<1>4. Names(u) /\ Stack(u, g, t) /\ Fits(u)
  BY RoomForNames, Zenon DEF Side
<1>5. Moved(t, n) = t
  <2>1. t \in Seq(NodeT) /\ Len(t) >= 1
    BY <1>4, Tops
  <2>2. QED
    BY <1>3, <2>1, NoMoves, Zenon
<1>6. /\ FirstLevelCode(enc, "AT", q) >= 0
      /\ ProductionOf(enc, FirstLevelCode(enc, "AT", q)) = p
      /\ encodeProduction(enc, "AT", q) = Strm(o,"EXIP_OK",b \o f,u,g,t,c,x)
      /\ HandledAs(o, u, g, t, f, p)
  BY <1>3, <1>5, Zenon DEF Hit
<1>7. PICK b1 \in Seq(FieldT) : b1 = b \o f
  <2>1. b \o f \in Seq(FieldT)
    OBVIOUS
  <2>2. QED
    BY <2>1, Zenon
<1>8. PICK i, y : i = id.uriId /\ y = q.pfx
  OBVIOUS
<1>9. PICK w \in BOOLEAN : w = FALSE
  OBVIOUS
<1>10. encodeNamed(enc, "AT", q) = encodePfxQName(Strm(o,"EXIP_OK",b1,u,g,t,c,x), i, y, w)
  <2>1. p.event \in {"SE_QNAME", "AT_QNAME"}
    BY <1>3
  <2>2. encodeNamed(enc, "AT", q) =
          encodePfxQName(encodeProduction(enc, "AT", q), p.qnameId.uriId, q.pfx, FALSE)
    BY <1>6, <2>1, NamedByPfx, Zenon
  <2>3. QED
    BY <1>1, <1>6, <1>7, <1>8, <1>9, <2>2, Zenon
<1>11. /\ u \in UriTableT /\ i \in 0..Len(u)-1 /\ Len(Pfxs(u, i)) \in 0..URI_MAX
  <2>1. u \in UriTableT /\ i \in 0..Len(u)-1
    BY <1>3, <1>4, <1>8, Zenon DEF Names, KnownId
  <2>2. i + 1 \in 1..Len(u)
    <3>1. Len(u) \in Nat
      BY <2>1, LenProperties DEF UriTableT
    <3>2. QED
      BY <2>1, <3>1
  <2>3. QED
    BY <1>4, <2>1, <2>2, Zenon DEF Fits, Pfxs
<1>12. /\ PfxFields1(o, u, i, y) \in Seq(FieldT)
       /\ PfxFits(o, u, i, y, w) =>
            encodePfxQName(Strm(o,"EXIP_OK",b1,u,g,t,c,x), i, y, w) =
              Strm(o,"EXIP_OK",b1 \o PfxFields1(o, u, i, y),u,g,t,c,x)
       /\ ~PfxFits(o, u, i, y, w) =>
            encodePfxQName(Strm(o,"EXIP_OK",b1,u,g,t,c,x), i, y, w) =
              Strm(o,"EXIP_INCONSISTENT_PROC_STATE",b1,u,g,t,c,x)
  BY <1>11, WritingPfxs
<1>13. PICK f2 \in Seq(FieldT) : f2 = PfxFields1(o, u, i, y)
  BY <1>12, Zenon
<1>14. PICK f3 \in Seq(FieldT) : f3 = f \o f2
  <2>1. f \o f2 \in Seq(FieldT)
    BY Assoc
  <2>2. QED
    BY <2>1, Zenon
<1>15. b1 \o f2 = b \o f3
  <2>1. (b \o f) \o f2 = b \o (f \o f2)
    BY Assoc
  <2>2. QED
    BY <1>7, <1>14, <2>1, Zenon
<1>16. Pending(o, f3, u, g, t, u, g, id)
  <2>1. ASSUME NEW fv \in Seq(FieldT), NEW v2, NEW val, ValueRead(o, fv, u, v2, id, val)
        PROVE  ParsedAs(o, f3 \o fv, u, g, t, v2, g, t, AttributeOf(q, val), GR_START_TAG_CONTENT)
    <3>1. f3 \o fv = f \o (f2 \o fv) /\ f2 \o fv \in Seq(FieldT)
      <4>1. (f \o f2) \o fv = f \o (f2 \o fv) /\ f2 \o fv \in Seq(FieldT)
        BY Assoc
      <4>2. QED
        BY <1>14, <4>1, Zenon
    <3>2. Handles(o, u, g, t, p, PfxFields1(o, u, p.qnameId.uriId, y) \o fv, v2, g, t,
                  AttributeOf(q, val), GR_START_TAG_CONTENT)
      <4>1. KnownId(u, p.qnameId) /\ Says(u, p.qnameId, q)
            /\ ValueRead(o, fv, u, v2, p.qnameId, val)
            /\ PfxFields1(o, u, p.qnameId.uriId, y) \in Seq(FieldT)
        BY <1>1, <1>3, <1>8, <1>12, <2>1, Zenon
      <4>2. QED
        BY <1>3, <1>4, <4>1, LearnedAttributeRead
    <3>3. Handles(o, u, g, t, p, f2 \o fv, v2, g, t, AttributeOf(q, val), GR_START_TAG_CONTENT)
      BY <1>1, <1>8, <1>13, <3>2, Zenon
    <3>4. ParsedAs(o, f \o (f2 \o fv), u, g, t, v2, g, t, AttributeOf(q, val), GR_START_TAG_CONTENT)
      BY <1>6, <3>1, <3>3, HandledParsed, Zenon
    <3>5. QED
      BY <3>1, <3>4, Zenon
  <2>2. QED
    BY <1>2, <1>3, <1>4, <2>1, PendingAttributes, Zenon
<1>17. CASE PfxFits(o, u, i, y, w)
  <2>1. encodeNamed(enc, "AT", q) = Strm(o,"EXIP_OK",b \o f3,u,g,t,c,x)
    BY <1>10, <1>12, <1>13, <1>15, <1>17, Zenon
  <2>2. Attributed(enc, q) = Strm(o,"EXIP_OK",b \o f3,u,g,t,id,TRUE)
    <3>1. Naming(enc, q, Strm(o,"EXIP_OK",b \o f3,u,g,t,c,x))
      BY <2>1, Zenon DEF Naming
    <3>2. Attributed(enc, q) = Awaiting(o, b \o f3, u, g, t, id)
      BY <1>3, <1>4, <3>1, AttributedAs
    <3>3. QED
      BY <3>2, Zenon DEF Awaiting
  <2>3. QED
    BY <1>16, <2>2, Zenon DEF Attributing
<1>18. CASE ~PfxFits(o, u, i, y, w)
  <2>1. PICK e : e = "EXIP_INCONSISTENT_PROC_STATE"
    OBVIOUS
  <2>2. e # "EXIP_OK"
    BY <2>1
  <2>3. encodeNamed(enc, "AT", q) = Strm(o,e,b \o f,u,g,t,c,x)
    BY <1>7, <1>10, <1>12, <1>18, <2>1, Zenon
  <2>4. QED
    BY <2>2, <2>3, BrokenAttributes, Zenon
<1>19. QED
  BY <1>17, <1>18, Zenon

(* The rule of a start tag learns an attribute under the identifier of its  *)
(* name.                                                                    *)
LEMMA SideWithAttribute ==
  ASSUME NEW u, NEW g, NEW t, Side(u, g, t), RulesFit(g),
         Head(t).currNonTermID = GR_START_TAG_CONTENT, Head(t).grammar # DOC, NEW q \in NameT,
         \A k \in 1..Len(RuleOf(g, t).production) :
           ~MatchesIn(u, "AT", q, RuleOf(g, t).production[k])
  PROVE  Side(NameTab(u, q), AttrAdded(g, Head(t).grammar, NameIdOf(u, q)), t)
<1>1. PICK v, id : v = NameTab(u, q) /\ id = NameIdOf(u, q)
  OBVIOUS
<1>2. PICK i : i = Head(t).grammar
  OBVIOUS
<1>3. Names(u) /\ Grammars(u, g) /\ Stack(u, g, t)
  BY Zenon DEF Side
<1>4. GR_START_TAG_CONTENT # GR_VOID_NON_TERMINAL
  BY DEF GR_START_TAG_CONTENT, GR_VOID_NON_TERMINAL
<1>5. i \in 1..Len(g)
  BY <1>2, <1>3, <1>4, RuleOnTop, Zenon
<1>6. Names(v) /\ Grows(u, v) /\ Side(v, g, t) /\ KnownId(v, id) /\ Says(v, id, q)
  BY <1>1, NameSaid, Zenon
<1>7. u \in UriTableT /\ v \in UriTableT /\ Grammars(v, g)
  BY <1>3, <1>6, Zenon DEF Names, Side
<1>8. \A k \in 1..Len(Prods(g, i, 1)) :
        Prods(g, i, 1)[k] # Prod("AT_QNAME", GR_START_TAG_CONTENT, id)
  <2>1. PICK n : n = Head(t).currNonTermID
    OBVIOUS
  <2>2. n + 1 = 1
    BY <2>1 DEF GR_START_TAG_CONTENT
  <2>3. \A w \in UriTableT : \A d : Grows(u, w) /\ Says(w, d, q) =>
          \A k \in 1..Len(Prods(g, i, n + 1)) :
            Prods(g, i, n + 1)[k] # Prod("AT_QNAME", GR_START_TAG_CONTENT, d)
    BY <1>2, <1>3, <1>4, <1>7, <2>1, NotLearned, Zenon
  <2>4. QED
    BY <1>6, <1>7, <2>2, <2>3, Zenon
<1>9. Grammars(v, AttrAdded(g, i, id)) /\ Len(AttrAdded(g, i, id)) = Len(g)
  BY <1>5, <1>6, <1>7, <1>8, LearnedAttributes
<1>10. Side(v, AttrAdded(g, i, id), t)
  BY <1>6, <1>9, SideOfLearned, Zenon
<1>11. QED
  BY <1>1, <1>2, <1>10, Zenon

(* The name of an attribute that its rule has not learned.                  *)
LEMMA NamingUnlearned ==
  ASSUME NEW o, NEW b \in Seq(FieldT), NEW u, NEW g, NEW t, NEW c, NEW x,
         enc = Strm(o,"EXIP_OK",b,u,g,t,c,x),
         Side(u, g, t), Room(u), RulesFit(g), NEW q \in AttrNames, q \in NameT, ~XsiNil(q),
         NEW f \in Seq(FieldT), Miss(enc, o, u, g, t, "AT", q, f)
  PROVE  Attributing(o, b, u, g, t, Attributed(enc, q)) \/ Broken(o, b, x, Attributed(enc, q))
<1>1. PICK v, id : v = NameTab(u, q) /\ id = NameIdOf(u, q)
  OBVIOUS
<1>2. PICK i : i = Head(t).grammar
  OBVIOUS
<1>3. PICK h : h = AttrAdded(g, i, id)
  OBVIOUS
<1>4. /\ ~(FirstLevelCode(enc, "AT", q) >= 0) /\ Head(t).grammar # DOC
      /\ SecondLevelClass(o, t, "AT")
      /\ \A k \in 1..Len(RuleOf(g, t).production) :
           ~MatchesIn(u, "AT", q, RuleOf(g, t).production[k])
      /\ encodeProduction(enc, "AT", q) = Write(Learn(enc, "AT", q), f)
      /\ LearnedAs(o, u, g, t, f, "AT")
  BY Zenon DEF Miss
<1>5. Head(t).currNonTermID = GR_START_TAG_CONTENT
  BY <1>4 DEF SecondLevelClass
<1>6. Names(u) /\ Fits(NameTab(u, q)) /\ Stack(u, g, t)
  BY RoomForNames, Zenon DEF Side
<1>7. Side(v, h, t)
  BY <1>1, <1>2, <1>3, <1>4, <1>5, SideWithAttribute, Zenon
<1>8. Names(v) /\ KnownId(v, id) /\ Says(v, id, q)
  BY <1>1, NameSaid, Zenon
<1>9. PICK b1 \in Seq(FieldT) : b1 = b \o f
  <2>1. b \o f \in Seq(FieldT)
    OBVIOUS
  <2>2. QED
    BY <2>1, Zenon
<1>10. PICK w \in BOOLEAN : w = FALSE
  OBVIOUS
<1>11. encodeNamed(enc, "AT", q) = encodeQName(Strm(o,"EXIP_OK",b1,u,h,t,c,x), q, w)
  <2>1. PredictedQNameID(Strm(o,"EXIP_OK",b,u,g,t,c,x), q) = NameIdOf(u, q)
    BY <1>6, Predicting
  <2>2. Learn(Strm(o,"EXIP_OK",b,u,g,t,c,x), "AT", q) =
          Strm(o,"EXIP_OK",b,u,
               AttrAdded(g, Head(t).grammar, PredictedQNameID(Strm(o,"EXIP_OK",b,u,g,t,c,x), q)),t,c,x)
    BY Learning
  <2>3. Learn(enc, "AT", q) = Strm(o,"EXIP_OK",b,u,h,t,c,x)
    BY <1>1, <1>2, <1>3, <2>1, <2>2, Zenon
  <2>4. Write(Strm(o,"EXIP_OK",b,u,h,t,c,x), f) = Strm(o,"EXIP_OK",b \o f,u,h,t,c,x)
    BY Writing
  <2>5. encodeProduction(enc, "AT", q) = Strm(o,"EXIP_OK",b1,u,h,t,c,x)
    BY <1>4, <1>9, <2>3, <2>4, Zenon
  <2>6. ~(/\ FirstLevelCode(enc, "AT", q) >= 0
          /\ ProductionOf(enc, FirstLevelCode(enc, "AT", q)).event \in {"SE_QNAME", "AT_QNAME"})
    BY <1>4, Zenon
  <2>7. PICK class : class = "AT"
    OBVIOUS
  <2>8. encodeNamed(enc, class, q) = encodeQName(encodeProduction(enc, class, q), q, FALSE)
    BY <2>6, <2>7, NamedByName, Zenon
  <2>9. QED
    BY <1>10, <2>5, <2>7, <2>8, Zenon
<1>12. /\ NameFields(o, u, q) \in Seq(FieldT)
       /\ NameFits(o, u, q, w) =>
            encodeQName(Strm(o,"EXIP_OK",b1,u,h,t,c,x), q, w) =
              Strm(o,"EXIP_OK",b1 \o NameFields(o, u, q),NameTab(u, q),h,t,c,x)
       /\ ~NameFits(o, u, q, w) => \E f1 \in Seq(FieldT) :
            encodeQName(Strm(o,"EXIP_OK",b1,u,h,t,c,x), q, w) =
              Strm(o,"EXIP_INCONSISTENT_PROC_STATE",b1 \o f1,NameTab(u, q),h,t,c,x)
  <2>1. /\ NameFields(o, u, q) \in Seq(FieldT)
        /\ NameFits(o, u, q, w) =>
             encodeQName(Strm(o,"EXIP_OK",b1,u,h,t,c,x), q, w) =
               Strm(o,"EXIP_OK",b1 \o NameFields(o, u, q),NameTab(u, q),h,t,c,x)
    BY <1>6, WritingNames
  <2>2. ASSUME ~NameFits(o, u, q, w)
        PROVE  \E f1 \in Seq(FieldT) :
                 encodeQName(Strm(o,"EXIP_OK",b1,u,h,t,c,x), q, w) =
                   Strm(o,"EXIP_INCONSISTENT_PROC_STATE",b1 \o f1,NameTab(u, q),h,t,c,x)
    BY <1>6, <2>2, WritingNames
  <2>3. QED
    BY <2>1, <2>2, Zenon
<1>13. PICK f2 \in Seq(FieldT) : f2 = NameFields(o, u, q)
  BY <1>12, Zenon
<1>14. PICK f3 \in Seq(FieldT) : f3 = f \o f2
  <2>1. f \o f2 \in Seq(FieldT)
    BY Assoc
  <2>2. QED
    BY <2>1, Zenon
<1>15. b1 \o f2 = b \o f3
  <2>1. (b \o f) \o f2 = b \o (f \o f2)
    BY Assoc
  <2>2. QED
    BY <1>9, <1>14, <2>1, Zenon
<1>16. Pending(o, f3, u, g, t, v, h, id)
  <2>1. ASSUME NEW fv \in Seq(FieldT), NEW v2, NEW val, ValueRead(o, fv, v, v2, id, val)
        PROVE  ParsedAs(o, f3 \o fv, u, g, t, v2, h, t, AttributeOf(q, val), GR_START_TAG_CONTENT)
    <3>1. f3 \o fv = f \o (f2 \o fv) /\ f2 \o fv \in Seq(FieldT)
      <4>1. (f \o f2) \o fv = f \o (f2 \o fv) /\ f2 \o fv \in Seq(FieldT)
        BY Assoc
      <4>2. QED
        BY <1>14, <4>1, Zenon
    <3>2. Learns(o, u, g, t, "AT", NameFields(o, u, q) \o fv, v2,
                 AttrAdded(g, Head(t).grammar, NameIdOf(u, q)), t,
                 AttributeOf(q, val), GR_START_TAG_CONTENT)
      <4>1. Says(NameTab(u, q), NameIdOf(u, q), q)
            /\ ValueRead(o, fv, NameTab(u, q), v2, NameIdOf(u, q), val)
        BY <1>1, <1>8, <2>1, Zenon
      <4>2. QED
        BY <1>6, <1>12, <4>1, UnlearnedAttributeRead
    <3>3. Learns(o, u, g, t, "AT", f2 \o fv, v2, h, t, AttributeOf(q, val), GR_START_TAG_CONTENT)
      BY <1>1, <1>2, <1>3, <1>13, <3>2, Zenon
    <3>4. ParsedAs(o, f \o (f2 \o fv), u, g, t, v2, h, t, AttributeOf(q, val), GR_START_TAG_CONTENT)
      BY <1>4, <3>1, <3>3, LearnedParsed, Zenon
    <3>5. QED
      BY <3>1, <3>4, Zenon
  <2>2. QED
    BY <1>5, <1>6, <1>8, <2>1, PendingAttributes, Zenon
<1>17. CASE NameFits(o, u, q, w)
  <2>1. encodeNamed(enc, "AT", q) = Strm(o,"EXIP_OK",b \o f3,v,h,t,c,x)
    BY <1>1, <1>11, <1>12, <1>13, <1>15, <1>17, Zenon
  <2>2. Naming(enc, q, Strm(o,"EXIP_OK",b \o f3,v,h,t,c,x))
    BY <2>1, Zenon DEF Naming
  <2>3. Attributed(enc, q) = Awaiting(o, b \o f3, v, h, t, id)
    BY <1>8, <2>2, AttributedAs
  <2>4. QED
    BY <1>7, <1>16, <2>3, Zenon DEF Attributing, Awaiting
<1>18. CASE ~NameFits(o, u, q, w)
  <2>1. PICK e : e = "EXIP_INCONSISTENT_PROC_STATE"
    OBVIOUS
  <2>2. e # "EXIP_OK"
    BY <2>1
  <2>3. PICK f1 \in Seq(FieldT) : encodeNamed(enc, "AT", q) = Strm(o,e,b1 \o f1,v,h,t,c,x)
    BY <1>1, <1>11, <1>12, <1>18, <2>1, Zenon
  <2>4. b1 \o f1 = b \o (f \o f1) /\ f \o f1 \in Seq(FieldT)
    <3>1. Associates(b, f, f1)
      BY FieldsAssociate
    <3>2. f \o f1 \in Seq(FieldT)
      BY Assoc
    <3>3. (b \o f) \o f1 = b \o (f \o f1)
      BY <3>1 DEF Associates
    <3>4. QED
      BY <1>9, <3>2, <3>3, Zenon
  <2>5. PICK f4 \in Seq(FieldT) : f4 = f \o f1
    BY <2>4, Zenon
  <2>6. encodeNamed(enc, "AT", q) = Strm(o,e,b \o f4,v,h,t,c,x)
    BY <2>3, <2>4, <2>5, Zenon
  <2>7. QED
    BY <1>7, <2>2, <2>6, BrokenAttributes, Zenon
<1>19. QED
  BY <1>17, <1>18, Zenon

(* attribute: the name is written and the value pending, or an undeclared   *)
(* prefix stops the serializer.                                             *)
LEMMA NamingAttributes ==
  ASSUME NEW o, NEW b \in Seq(FieldT), NEW u, NEW g, NEW t, NEW c, NEW x,
         enc = Strm(o,"EXIP_OK",b,u,g,t,c,x),
         Side(u, g, t), Room(u), RulesFit(g), NEW q \in AttrNames, q \in NameT, ~XsiNil(q),
         CanEncode("AT", q)
  PROVE  Attributing(o, b, u, g, t, Attributed(enc, q)) \/ Broken(o, b, x, Attributed(enc, q))
<1>1. Fits(u)
  BY RoomForNames, Zenon DEF Side
<1>2. \/ \E p \in ProdT, f \in Seq(FieldT) : Hit(enc, o, b, u, g, t, c, x, "AT", q, p, f)
      \/ \E f \in Seq(FieldT) : Miss(enc, o, u, g, t, "AT", q, f)
  <2>1. "AT" \in {"EE", "AT", "NS", "SE", "CH", "ED"}
    OBVIOUS
  <2>2. QED
    BY <1>1, <2>1, Coded, Zenon
<1>3. ASSUME NEW p \in ProdT, NEW f \in Seq(FieldT),
             Hit(enc, o, b, u, g, t, c, x, "AT", q, p, f)
      PROVE  Attributing(o, b, u, g, t, Attributed(enc, q)) \/ Broken(o, b, x, Attributed(enc, q))
  BY <1>3, NamingLearned, Zenon
<1>4. ASSUME NEW f \in Seq(FieldT), Miss(enc, o, u, g, t, "AT", q, f)
      PROVE  Attributing(o, b, u, g, t, Attributed(enc, q)) \/ Broken(o, b, x, Attributed(enc, q))
  BY <1>4, NamingUnlearned, Zenon
<1>5. QED
  BY <1>2, <1>3, <1>4, Zenon

(* The pending attribute is delivered with the value that follows.          *)
Given(o, f, u, g, t, v, h, val) ==
  \E q \in AttrNames : /\ AttributeEvent(val) = AttributeOf(q, val)
                       /\ Leads(o, f, u, g, t, v, h, t, AttributeOf(q, val))

(* What the value of the pending attribute makes of it.                     *)
LEMMA GivingValues ==
  ASSUME NEW o, NEW e, NEW b, NEW u, NEW g, NEW t, NEW id, NEW x,
         enc = Strm(o,e,b,u,g,t,id,x), NEW f0, NEW u0, NEW g0,
         Pending(o, f0, u0, g0, t, u, g, id), NEW fv \in Seq(FieldT), NEW v, NEW val,
         ValueRead(o, fv, u, v, id, val)
  PROVE  Given(o, f0 \o fv, u0, g0, t, v, g, val)
<1>1. PICK q \in AttrNames :
        /\ Says(u, id, q)
        /\ Leads(o, f0 \o fv, u0, g0, t, v, g, t, AttributeOf(q, val))
  BY Zenon DEF Pending
<1>2. enc.currAttr = id
  BY Accesses
<1>3. UriStr(enc, id) = q.uri /\ Ln(enc, id).lnStr = q.ln
  BY <1>1, NamedAs
<1>4. AttributeEvent(val) = AttributeOf(q, val)
  BY <1>2, <1>3, Zenon DEF AttributeEvent, AttributeOf
<1>5. QED
  BY <1>1, <1>4, Zenon DEF Given

(* attributeData: a string, read under the name of the attribute.           *)
LEMMA StringsRead ==
  ASSUME NEW o, NEW u, NEW id \in QNameId, NEW str \in Text,
         ~IsXsi(id, XML_SCHEMA_INSTANCE_NIL_ID), ~IsXsi(id, XML_SCHEMA_INSTANCE_TYPE_ID)
  PROVE  Value(id, str) \in Seq(FieldT) /\ ValueRead(o, Value(id, str), u, u, id, <<str>>)
<1>1. ASSUME NEW rest \in Seq(FieldT), NEW g, NEW t, NEW c, NEW x
      PROVE  decodeValueItem(Strm(o,"EXIP_OK",Value(id, str) \o rest,u,g,t,c,x), id) =
               Result(Strm(o,"EXIP_OK",rest,u,g,t,c,x), <<str>>)
  BY ReadingValues
<1>2. Value(id, str) \in Seq(FieldT)
  <2>1. PICK rest \in Seq(FieldT) : TRUE
    <3>1. <<>> \in Seq(FieldT)
      OBVIOUS
    <3>2. QED
      BY <3>1, Zenon
  <2>2. /\ Value(id, str) \in Seq(FieldT)
        /\ decodeValueItem(Strm(o,"EXIP_OK",Value(id, str) \o rest,u,u,u,u,u), id) =
             Result(Strm(o,"EXIP_OK",rest,u,u,u,u,u), <<str>>)
    BY ReadingValues
  <2>3. QED
    BY <2>2, Zenon
<1>3. QED
  BY <1>1, <1>2, Zenon DEF ValueRead

(* qnameData: the value of xsi:type is the name of the type.                *)
LEMMA NamesRead ==
  ASSUME NEW o, NEW u, Names(u), NEW id, IsXsi(id, XML_SCHEMA_INSTANCE_TYPE_ID),
         NEW q \in NameT, Fits(NameTab(u, q)), Says(NameTab(u, q), NameIdOf(u, q), q)
  PROVE  ValueRead(o, NameFields(o, u, q), u, NameTab(u, q), id, <<q.uri, q.ln>>)
<1>1. PICK v, d : v = NameTab(u, q) /\ d = NameIdOf(u, q)
  OBVIOUS
<1>2. PICK f : f = NameFields(o, u, q)
  OBVIOUS
<1>3. ASSUME NEW rest \in Seq(FieldT), NEW g, NEW t, NEW c, NEW x
      PROVE  decodeValueItem(Strm(o,"EXIP_OK",f \o rest,u,g,t,c,x), id) =
               Result(Strm(o,"EXIP_OK",rest,v,g,t,c,x), <<q.uri, q.ln>>)
  <2>1. PICK s : s = Strm(o,"EXIP_OK",f \o rest,u,g,t,c,x)
    OBVIOUS
  <2>2. PICK s1 : s1 = Strm(o,"EXIP_OK",rest,v,g,t,c,x)
    OBVIOUS
  <2>3. decodeQName(s) = Result(s1, d)
    <3>1. decodeQName(Strm(o,"EXIP_OK",NameFields(o, u, q) \o rest,u,g,t,c,x)) =
            Result(Strm(o,"EXIP_OK",rest,NameTab(u, q),g,t,c,x), NameIdOf(u, q))
      BY DecodingNames
    <3>2. QED
      BY <1>1, <1>2, <2>1, <2>2, <3>1, Zenon
  <2>4. PICK R : R = Result(s1, d)
    OBVIOUS
  <2>5. R.s = s1 /\ R.val = d
    BY <2>4, Results, Zenon
  <2>6. s1.err = "EXIP_OK"
    BY <2>2, Accesses
  <2>7. UriStr(s1, d) = q.uri /\ Ln(s1, d).lnStr = q.ln
    <3>1. Says(v, d, q)
      BY <1>1, Zenon
    <3>2. QED
      BY <2>2, <3>1, NamedAs
  <2>8. QNameStr(R) = Result(s1, <<q.uri, q.ln>>)
    BY <2>5, <2>6, <2>7, Zenon DEF QNameStr
  <2>9. decodeQNameValue(s) = Result(s1, <<q.uri, q.ln>>)
    BY <2>3, <2>4, <2>8, Zenon DEF decodeQNameValue
  <2>10. ~IsXsi(id, XML_SCHEMA_INSTANCE_NIL_ID)
    BY DEF IsXsi, XML_SCHEMA_INSTANCE_NIL_ID, XML_SCHEMA_INSTANCE_TYPE_ID
  <2>11. decodeValueItem(s, id) = decodeQNameValue(s)
    BY <2>10 DEF decodeValueItem
  <2>12. QED
    BY <2>1, <2>2, <2>9, <2>11, Zenon
<1>4. QED
  BY <1>1, <1>2, <1>3, Zenon DEF ValueRead
-----------------------------------------------------------------------------
(* The stream between the serializer and the parser.  S[k] is the state of  *)
(* both sides before the k-th event that has not been parsed, F[k] are the  *)
(* fields of that event and B[k] the stream from there on; behind the last  *)
(* event there may be an attribute without its value, or one that failed.   *)
SideAt(y) == Side(y.u, y.g, y.t)

OpenAt(y) == Head(y.t).currNonTermID # GR_VOID_NON_TERMINAL

LeadsAt(o, f, y, z, ev) == Leads(o, f, y.u, y.g, y.t, z.u, z.g, z.t, ev)

Chain(o, q, S, F, B) ==
  /\ \A k \in 1..Len(q)+1 : SideAt(S[k]) /\ B[k] \in Seq(FieldT)
  /\ \A k \in 1..Len(q) :
       /\ OpenAt(S[k]) /\ F[k] \in Seq(FieldT) /\ B[k] = F[k] \o B[k+1]
       /\ LeadsAt(o, F[k], S[k], S[k+1], q[k])

(* Fields are written behind everything else.                               *)
ChainWritten(o, q, S, F, B, f) ==
  \E B2 : /\ Chain(o, q, S, F, B2)
          /\ B2[1] = B[1] \o f
          /\ B2[Len(q)+1] = B[Len(q)+1] \o f

(* Fields written at the end are behind every event that is not parsed.     *)
LEMMA ChainWrites ==
  ASSUME NEW o, NEW q, Len(q) \in Nat, NEW S, NEW F, NEW B, Chain(o, q, S, F, B),
         NEW f \in Seq(FieldT)
  PROVE  ChainWritten(o, q, S, F, B, f)
<1>1. PICK n \in Nat : n = Len(q)
  BY Zenon
<1>2. PICK B2 : B2 = [k \in 1..n+1 |-> B[k] \o f]
  OBVIOUS
<1>3. \A k \in 1..n+1 : B2[k] = B[k] \o f
  BY <1>2
<1>4. ASSUME NEW k \in 1..n+1
      PROVE  SideAt(S[k]) /\ B2[k] \in Seq(FieldT)
  <2>1. SideAt(S[k]) /\ B[k] \in Seq(FieldT)
    BY <1>1, Zenon DEF Chain
  <2>2. B[k] \o f \in Seq(FieldT)
    BY <2>1, Assoc
  <2>3. QED
    BY <1>3, <2>1, <2>2, Zenon
<1>5. ASSUME NEW k \in 1..n
      PROVE  /\ OpenAt(S[k]) /\ F[k] \in Seq(FieldT) /\ B2[k] = F[k] \o B2[k+1]
             /\ LeadsAt(o, F[k], S[k], S[k+1], q[k])
  <2>1. /\ OpenAt(S[k]) /\ F[k] \in Seq(FieldT) /\ B[k] = F[k] \o B[k+1]
        /\ LeadsAt(o, F[k], S[k], S[k+1], q[k])
    BY <1>1, Zenon DEF Chain
  <2>2. k \in 1..n+1 /\ k+1 \in 1..n+1
    OBVIOUS
  <2>3. B[k+1] \in Seq(FieldT)
    BY <1>1, <2>2, Zenon DEF Chain
  <2>4. PICK a \in Seq(FieldT), d \in Seq(FieldT) : a = F[k] /\ d = B[k+1]
    BY <2>1, <2>3, Zenon
  <2>5. (a \o d) \o f = a \o (d \o f)
    BY Assoc
  <2>6. B2[k] = F[k] \o B2[k+1]
    BY <1>3, <2>1, <2>2, <2>4, <2>5, Zenon
  <2>7. QED
    BY <2>1, <2>6, Zenon
<1>6. Chain(o, q, S, F, B2)
  BY <1>1, <1>4, <1>5, Zenon DEF Chain
<1>7. 1 \in 1..n+1 /\ n+1 \in 1..n+1
  OBVIOUS
<1>8. QED
  BY <1>1, <1>3, <1>6, <1>7, Zenon DEF ChainWritten

(* What is behind the last event becomes an event of its own.               *)
ChainExtended(o, q, S, B, z, ev) ==
  \E S2, F2, B2 :
    /\ Chain(o, Append(q, ev), S2, F2, B2)
    /\ S2[1] = S[1] /\ B2[1] = B[1]
    /\ S2[Len(Append(q, ev))+1] = z /\ B2[Len(Append(q, ev))+1] = <<>>

(* The chain with one more event.                                           *)
LEMMA ChainExtends ==
  ASSUME NEW o, NEW E, NEW q \in Seq(E), NEW S, NEW F, NEW B, Chain(o, q, S, F, B),
         NEW z, SideAt(z), NEW ev \in E, OpenAt(S[Len(q)+1]),
         LeadsAt(o, B[Len(q)+1], S[Len(q)+1], z, ev)
  PROVE  ChainExtended(o, q, S, B, z, ev)
<1>1. PICK n \in Nat : n = Len(q)
  BY LenProperties
<1>2. PICK r : r = Append(q, ev)
  OBVIOUS
<1>3. Len(r) = n+1 /\ r[n+1] = ev /\ \A k \in 1..n : r[k] = q[k]
  BY <1>1, <1>2
<1>4. PICK S2 : S2 = [k \in 1..n+2 |-> IF k = n+2 THEN z ELSE S[k]]
  OBVIOUS
<1>5. PICK F2 : F2 = [k \in 1..n+1 |-> IF k = n+1 THEN B[n+1] ELSE F[k]]
  OBVIOUS
<1>6. PICK B2 : B2 = [k \in 1..n+2 |-> IF k = n+2 THEN <<>> ELSE B[k]]
  OBVIOUS
<1>7. S2[n+2] = z /\ \A k \in 1..n+1 : S2[k] = S[k]
  BY <1>4
<1>8. F2[n+1] = B[n+1] /\ \A k \in 1..n : F2[k] = F[k]
  BY <1>5
<1>9. B2[n+2] = <<>> /\ \A k \in 1..n+1 : B2[k] = B[k]
  BY <1>6
<1>10. <<>> \in Seq(FieldT)
  OBVIOUS
<1>11. ASSUME NEW k \in 1..Len(r)+1
       PROVE  SideAt(S2[k]) /\ B2[k] \in Seq(FieldT)
  <2>1. k = n+2 \/ k \in 1..n+1
    BY <1>3
  <2>2. CASE k = n+2
    BY <1>7, <1>9, <1>10, <2>2, Zenon
  <2>3. CASE k \in 1..n+1
    <3>1. SideAt(S[k]) /\ B[k] \in Seq(FieldT)
      BY <1>1, <2>3, Zenon DEF Chain
    <3>2. QED
      BY <1>7, <1>9, <2>3, <3>1, Zenon
  <2>4. QED
    BY <2>1, <2>2, <2>3, Zenon
<1>12. ASSUME NEW k \in 1..Len(r)
       PROVE  /\ OpenAt(S2[k]) /\ F2[k] \in Seq(FieldT) /\ B2[k] = F2[k] \o B2[k+1]
              /\ LeadsAt(o, F2[k], S2[k], S2[k+1], r[k])
  <2>1. k = n+1 \/ k \in 1..n
    BY <1>3
  <2>2. CASE k = n+1
    <3>1. n+1 \in 1..n+1 /\ k+1 = n+2
      BY <2>2
    <3>2. PICK m : m = n+1
      OBVIOUS
    <3>3. B[m] \in Seq(FieldT)
      BY <1>1, <3>1, <3>2, Zenon DEF Chain
    <3>4. B[m] \o <<>> = B[m]
      BY <3>3, NoFields, Zenon
    <3>5. S2[k] = S[m] /\ F2[k] = B[m] /\ B2[k] = B[m] /\ S2[k+1] = z /\ B2[k+1] = <<>>
          /\ r[k] = ev
      BY <1>3, <1>7, <1>8, <1>9, <2>2, <3>1, <3>2, Zenon
    <3>6. OpenAt(S[m]) /\ LeadsAt(o, B[m], S[m], z, ev)
      BY <1>1, <3>2, Zenon
    <3>7. QED
      BY <3>3, <3>4, <3>5, <3>6, Zenon
  <2>3. CASE k \in 1..n
    <3>1. /\ OpenAt(S[k]) /\ F[k] \in Seq(FieldT) /\ B[k] = F[k] \o B[k+1]
          /\ LeadsAt(o, F[k], S[k], S[k+1], q[k])
      BY <1>1, <2>3, Zenon DEF Chain
    <3>2. k \in 1..n+1 /\ k+1 \in 1..n+1
      BY <2>3
    <3>3. S2[k] = S[k] /\ F2[k] = F[k] /\ B2[k] = B[k] /\ S2[k+1] = S[k+1] /\ B2[k+1] = B[k+1]
          /\ r[k] = q[k]
      BY <1>3, <1>7, <1>8, <1>9, <2>3, <3>2, Zenon
    <3>4. QED
      BY <3>1, <3>3, Zenon
  <2>4. QED
    BY <2>1, <2>2, <2>3, Zenon
<1>13. Chain(o, r, S2, F2, B2)
  BY <1>11, <1>12, Zenon DEF Chain
<1>14. 1 \in 1..n+1 /\ Len(r)+1 = n+2
  BY <1>3
<1>15. S2[1] = S[1] /\ B2[1] = B[1] /\ S2[Len(r)+1] = z /\ B2[Len(r)+1] = <<>>
  BY <1>7, <1>9, <1>14, Zenon
<1>16. QED
  BY <1>2, <1>13, <1>15, Zenon DEF ChainExtended

(* The first event has been parsed.                                         *)
LEMMA ChainShifts ==
  ASSUME NEW o, NEW E, NEW q \in Seq(E), q # <<>>, NEW S, NEW F, NEW B, Chain(o, q, S, F, B)
  PROVE  /\ Tail(q) \in Seq(E) /\ q[1] \in E /\ 1 \in 1..Len(q)
         /\ \E S2, F2, B2 :
              /\ Chain(o, Tail(q), S2, F2, B2)
              /\ S2[1] = S[2] /\ B2[1] = B[2]
              /\ S2[Len(Tail(q))+1] = S[Len(q)+1] /\ B2[Len(Tail(q))+1] = B[Len(q)+1]
<1>1. Tail(q) \in Seq(E) /\ q[1] \in E /\ 1 \in 1..Len(q)
  OBVIOUS
<1>2. PICK m \in Nat : Len(q) = m + 1 /\ Len(Tail(q)) = m /\ \A k \in 1..m : Tail(q)[k] = q[k+1]
  <2>1. Len(q) \in Nat /\ Len(q) # 0 /\ Len(Tail(q)) = Len(q) - 1
        /\ \A k \in 1..Len(q)-1 : Tail(q)[k] = q[k+1]
    OBVIOUS
  <2>2. Len(q) - 1 \in Nat /\ Len(q) = (Len(q) - 1) + 1
    BY <2>1
  <2>3. QED
    BY <2>1, <2>2, Zenon
<1>3. PICK r : r = Tail(q)
  OBVIOUS
<1>4. PICK S2, F2, B2 : /\ S2 = [k \in 1..m+1 |-> S[k+1]]
                        /\ F2 = [k \in 1..m+1 |-> F[k+1]]
                        /\ B2 = [k \in 1..m+1 |-> B[k+1]]
  OBVIOUS
<1>5. \A k \in 1..m+1 : S2[k] = S[k+1] /\ F2[k] = F[k+1] /\ B2[k] = B[k+1]
  BY <1>4
<1>6. ASSUME NEW k \in 1..m+1
      PROVE  SideAt(S2[k]) /\ B2[k] \in Seq(FieldT)
  <2>1. k+1 \in 1..(m+1)+1
    OBVIOUS
  <2>2. SideAt(S[k+1]) /\ B[k+1] \in Seq(FieldT)
    BY <1>2, <2>1, Zenon DEF Chain
  <2>3. QED
    BY <1>5, <2>2, Zenon
<1>7. ASSUME NEW k \in 1..m
      PROVE  /\ OpenAt(S2[k]) /\ F2[k] \in Seq(FieldT) /\ B2[k] = F2[k] \o B2[k+1]
             /\ LeadsAt(o, F2[k], S2[k], S2[k+1], r[k])
  <2>1. k+1 \in 1..m+1 /\ k \in 1..m+1
    OBVIOUS
  <2>2. /\ OpenAt(S[k+1]) /\ F[k+1] \in Seq(FieldT) /\ B[k+1] = F[k+1] \o B[(k+1)+1]
        /\ LeadsAt(o, F[k+1], S[k+1], S[(k+1)+1], q[k+1])
    BY <1>2, <2>1, Zenon DEF Chain
  <2>3. QED
    BY <1>2, <1>3, <1>5, <2>1, <2>2, Zenon
<1>8. Chain(o, r, S2, F2, B2)
  BY <1>2, <1>3, <1>6, <1>7, Zenon DEF Chain
<1>9. S2[1] = S[2] /\ B2[1] = B[2] /\ S2[m+1] = S[(m+1)+1] /\ B2[m+1] = B[(m+1)+1]
  <2>1. 1 \in 1..m+1 /\ m+1 \in 1..m+1 /\ 1+1 = 2
    OBVIOUS
  <2>2. QED
    BY <1>5, <2>1
<1>10. QED
  BY <1>1, <1>2, <1>3, <1>8, <1>9, Zenon

(* The serializer behind the chain: nothing more is in the stream, or an    *)
(* attribute whose value is still to be given.                              *)
Behind(o, y, f, u, g, t, c, x) ==
  \/ ~x /\ y.u = u /\ y.g = g /\ y.t = t /\ f = <<>>
  \/ x /\ y.t = t /\ Pending(o, f, y.u, y.g, t, u, g, c)

Link(e1, d1, q, o, e, b, u, g, t, c, x, c1, S, F, B) ==
  /\ e1 = Strm(o,e,b,u,g,t,c,x) /\ Side(u, g, t) /\ x \in BOOLEAN
  /\ d1 = Strm(o,"EXIP_OK",<<>>,S[1].u,S[1].g,ParserStack(S[1].t),c1,FALSE)
  /\ b = B[1] /\ Chain(o, q, S, F, B)
  /\ e = "EXIP_OK" => Behind(o, S[Len(q)+1], B[Len(q)+1], u, g, t, c, x)

Linked(e1, d1, q) ==
  \E o, e, b, u, g, t, c, x, c1, S, F, B :
    Link(e1, d1, q, o, e, b, u, g, t, c, x, c1, S, F, B)

(* The serializer fails.                                                    *)
LEMMA Breaking ==
  ASSUME NEW d1, NEW q, Len(q) \in Nat, NEW e1, NEW o, NEW e, NEW b, NEW u, NEW g, NEW t,
         NEW c, NEW x, NEW c1, NEW S, NEW F, NEW B,
         Link(e1, d1, q, o, e, b, u, g, t, c, x, c1, S, F, B),
         NEW s, NEW w \in BOOLEAN, Broken(o, b, w, s)
  PROVE  Linked(s, d1, q) /\ s.err # "EXIP_OK"
<1>1. PICK f \in Seq(FieldT) : \E e2, v, h, r, c2 :
        e2 # "EXIP_OK" /\ s = Strm(o,e2,b \o f,v,h,r,c2,w) /\ Side(v, h, r)
  BY Zenon DEF Broken
<1>0. PICK e2, v, h, r, c2 :
        e2 # "EXIP_OK" /\ s = Strm(o,e2,b \o f,v,h,r,c2,w) /\ Side(v, h, r)
  BY <1>1, Zenon
<1>2. PICK B2 : Chain(o, q, S, F, B2) /\ B2[1] = B[1] \o f
  <2>1. Chain(o, q, S, F, B)
    BY Zenon DEF Link
  <2>2. ChainWritten(o, q, S, F, B, f)
    BY <2>1, ChainWrites, Zenon
  <2>3. QED
    BY <2>2, Zenon DEF ChainWritten
<1>3. Link(s, d1, q, o, e2, b \o f, v, h, r, c2, w, c1, S, F, B2)
  BY <1>0, <1>2, Zenon DEF Link
<1>4. s.err = e2
  BY <1>0, Accesses
<1>5. QED
  BY <1>0, <1>3, <1>4, Zenon DEF Linked

(* The name of an attribute is written.                                     *)
LEMMA Pended ==
  ASSUME NEW d1, NEW q, Len(q) \in Nat, NEW e1, NEW o, NEW b, NEW u, NEW g, NEW t,
         NEW c, NEW c1, NEW S, NEW F, NEW B, NEW x, ~x, NEW e, e = "EXIP_OK",
         Link(e1, d1, q, o, e, b, u, g, t, c, x, c1, S, F, B),
         NEW s, Attributing(o, b, u, g, t, s)
  PROVE  Linked(s, d1, q) /\ s.err = "EXIP_OK"
<1>0. PICK f \in Seq(FieldT) : \E v, h, id :
        s = Strm(o,"EXIP_OK",b \o f,v,h,t,id,TRUE) /\ Side(v, h, t) /\ Pending(o, f, u, g, t, v, h, id)
  BY Zenon DEF Attributing
<1>1. PICK v, h, id :
        s = Strm(o,"EXIP_OK",b \o f,v,h,t,id,TRUE) /\ Side(v, h, t) /\ Pending(o, f, u, g, t, v, h, id)
  BY <1>0, Zenon
<1>2. PICK B2 : /\ Chain(o, q, S, F, B2) /\ B2[1] = B[1] \o f
                /\ B2[Len(q)+1] = B[Len(q)+1] \o f
  <2>1. Chain(o, q, S, F, B)
    BY Zenon DEF Link
  <2>2. ChainWritten(o, q, S, F, B, f)
    BY <2>1, ChainWrites, Zenon
  <2>3. QED
    BY <2>2, Zenon DEF ChainWritten
<1>3. PICK y : y = S[Len(q)+1]
  OBVIOUS
<1>4. y.u = u /\ y.g = g /\ y.t = t /\ B[Len(q)+1] = <<>>
  BY <1>3, Zenon DEF Link, Behind
<1>5. B2[Len(q)+1] = f
  BY <1>2, <1>4, NoFields, Zenon
<1>6. Behind(o, S[Len(q)+1], B2[Len(q)+1], v, h, t, id, TRUE)
  BY <1>1, <1>3, <1>4, <1>5, Zenon DEF Behind
<1>7. Link(s, d1, q, o, "EXIP_OK", b \o f, v, h, t, id, TRUE, c1, S, F, B2)
  BY <1>1, <1>2, <1>6, Zenon DEF Link
<1>8. s.err = "EXIP_OK"
  <2>1. PICK y2 : y2 = TRUE
    OBVIOUS
  <2>2. s = Strm(o,"EXIP_OK",b \o f,v,h,t,id,y2)
    BY <1>1, <2>1, Zenon
  <2>3. QED
    BY <2>2, Accesses
<1>9. QED
  BY <1>7, <1>8, Zenon DEF Linked

(* An event is written, or the value of the pending attribute.              *)
Completing(o, q, S, B, f, v, h, r, ev) ==
  OpenAt(S[Len(q)+1]) /\ LeadsAt(o, B[Len(q)+1] \o f, S[Len(q)+1], [u |-> v, g |-> h, t |-> r], ev)

Completed(s, o, b, v, h, r) == \E c : s = Strm(o,"EXIP_OK",b,v,h,r,c,FALSE)

(* The chain of the serializer and the parser gets one more event.          *)
LEMMA Extending ==
  ASSUME NEW d1, NEW E, NEW q \in Seq(E), NEW e1, NEW o, NEW e, NEW b, NEW u, NEW g, NEW t,
         NEW c, NEW x, NEW c1, NEW S, NEW F, NEW B,
         Link(e1, d1, q, o, e, b, u, g, t, c, x, c1, S, F, B),
         NEW f \in Seq(FieldT), NEW v, NEW h, NEW r, NEW ev \in E,
         Side(v, h, r), Completing(o, q, S, B, f, v, h, r, ev),
         NEW s, Completed(s, o, b \o f, v, h, r)
  PROVE  Linked(s, d1, Append(q, ev)) /\ s.err = "EXIP_OK"
<1>1. PICK B1 : /\ Chain(o, q, S, F, B1) /\ B1[1] = B[1] \o f
                /\ B1[Len(q)+1] = B[Len(q)+1] \o f
  <2>1. Chain(o, q, S, F, B) /\ Len(q) \in Nat
    BY LenProperties, Zenon DEF Link
  <2>2. ChainWritten(o, q, S, F, B, f)
    BY <2>1, ChainWrites, Zenon
  <2>3. QED
    BY <2>2, Zenon DEF ChainWritten
<1>2. PICK z : z = [u |-> v, g |-> h, t |-> r]
  OBVIOUS
<1>3. z.u = v /\ z.g = h /\ z.t = r
  BY <1>2
<1>4. SideAt(z) /\ LeadsAt(o, B1[Len(q)+1], S[Len(q)+1], z, ev) /\ OpenAt(S[Len(q)+1])
  BY <1>1, <1>2, <1>3, Zenon DEF SideAt, Completing
<1>5. PICK S2, F2, B2 :
        /\ Chain(o, Append(q, ev), S2, F2, B2)
        /\ S2[1] = S[1] /\ B2[1] = B1[1]
        /\ S2[Len(Append(q, ev))+1] = z /\ B2[Len(Append(q, ev))+1] = <<>>
  <2>1. ChainExtended(o, q, S, B1, z, ev)
    BY <1>1, <1>4, ChainExtends, Zenon
  <2>2. QED
    BY <2>1, Zenon DEF ChainExtended
<1>6. PICK w \in BOOLEAN : w = FALSE
  OBVIOUS
<1>7. PICK r2 : r2 = Append(q, ev)
  OBVIOUS
<1>8. \A c2 : Behind(o, S2[Len(r2)+1], B2[Len(r2)+1], v, h, r, c2, w)
  BY <1>3, <1>5, <1>6, <1>7, Zenon DEF Behind
<1>9. d1 = Strm(o,"EXIP_OK",<<>>,S2[1].u,S2[1].g,ParserStack(S2[1].t),c1,FALSE)
      /\ b \o f = B2[1]
  BY <1>1, <1>5, Zenon DEF Link
<1>10. PICK b2 : b2 = b \o f
  OBVIOUS
<1>11. PICK c2 : s = Strm(o,"EXIP_OK",b2,v,h,r,c2,w)
  BY <1>6, <1>10, Zenon DEF Completed
<1>12. Link(s, d1, r2, o, "EXIP_OK", b2, v, h, r, c2, w, c1, S2, F2, B2)
  BY <1>5, <1>6, <1>7, <1>8, <1>9, <1>10, <1>11, Zenon DEF Link
<1>13. s.err = "EXIP_OK"
  BY <1>11, Accesses
<1>14. QED
  BY <1>7, <1>12, <1>13, Zenon DEF Linked

(* An event of the serializer that leaves nothing pending.                  *)
LEMMA Encoding ==
  ASSUME NEW d1, NEW E, NEW q \in Seq(E), NEW e1, NEW o, NEW e, e = "EXIP_OK",
         NEW b, NEW u, NEW g, NEW t,
         NEW c, NEW x, ~x, NEW c1, NEW S, NEW F, NEW B,
         Link(e1, d1, q, o, e, b, u, g, t, c, x, c1, S, F, B),
         Head(t).currNonTermID # GR_VOID_NON_TERMINAL,
         NEW ev \in E, NEW s, Encoded(o, b, u, g, t, x, s, ev)
  PROVE  Linked(s, d1, Append(q, ev)) /\ s.err = "EXIP_OK"
<1>1. PICK f \in Seq(FieldT) : \E v, h, r, c2 :
        /\ s = Strm(o,"EXIP_OK",b \o f,v,h,r,c2,x)
        /\ Side(v, h, r) /\ Leads(o, f, u, g, t, v, h, r, ev)
  BY Zenon DEF Encoded
<1>2. PICK v, h, r, c2 :
        /\ s = Strm(o,"EXIP_OK",b \o f,v,h,r,c2,x)
        /\ Side(v, h, r) /\ Leads(o, f, u, g, t, v, h, r, ev)
  BY <1>1, Zenon
<1>3. PICK y : y = S[Len(q)+1]
  OBVIOUS
<1>4. y.u = u /\ y.g = g /\ y.t = t /\ B[Len(q)+1] = <<>>
  BY <1>3, Zenon DEF Link, Behind
<1>5. x = FALSE
  BY DEF Link
<1>6. B[Len(q)+1] \o f = f
  BY <1>4, NoFields, Zenon
<1>7. PICK f0 : f0 = B[Len(q)+1]
  OBVIOUS
<1>8. Completing(o, q, S, B, f, v, h, r, ev)
  <2>1. PICK z : z = [u |-> v, g |-> h, t |-> r]
    OBVIOUS
  <2>2. z.u = v /\ z.g = h /\ z.t = r
    BY <2>1
  <2>3. LeadsAt(o, B[Len(q)+1] \o f, y, z, ev) /\ OpenAt(y)
    BY <1>2, <1>4, <1>6, <2>2, Zenon DEF LeadsAt, OpenAt
  <2>4. QED
    BY <1>3, <2>1, <2>3, Zenon DEF Completing
<1>9. Completed(s, o, b \o f, v, h, r)
  BY <1>2, <1>5, Zenon DEF Completed
<1>10. QED
  BY <1>2, <1>8, <1>9, Extending

(* The value of the pending attribute.                                      *)
LEMMA Valued ==
  ASSUME NEW d1, NEW E, NEW q \in Seq(E), NEW o, NEW e, e = "EXIP_OK",
         NEW b, NEW u, NEW g, NEW t,
         NEW c, NEW x, x, NEW c1, NEW S, NEW F, NEW B,
         Link(enc, d1, q, o, e, b, u, g, t, c, x, c1, S, F, B),
         NEW fv \in Seq(FieldT), NEW v, Side(v, g, t), NEW val,
         ValueRead(o, fv, u, v, c, val),
         \A a \in AttrNames : AttributeOf(a, val) \in E,
         NEW s, Completed(s, o, b \o fv, v, g, t)
  PROVE  Linked(s, d1, Append(q, AttributeEvent(val))) /\ s.err = "EXIP_OK"
<1>1. PICK y : y = S[Len(q)+1]
  OBVIOUS
<1>2. PICK f0 : f0 = B[Len(q)+1]
  OBVIOUS
<1>3. y.t = t /\ Pending(o, f0, y.u, y.g, t, u, g, c)
  BY <1>1, <1>2, Zenon DEF Link, Behind
<1>4. enc = Strm(o,e,b,u,g,t,c,x)
  BY Zenon DEF Link
<1>5. PICK a \in AttrNames :
        /\ AttributeEvent(val) = AttributeOf(a, val)
        /\ Leads(o, f0 \o fv, y.u, y.g, t, v, g, t, AttributeOf(a, val))
  <2>1. PICK u0, g0 : u0 = y.u /\ g0 = y.g
    OBVIOUS
  <2>2. Pending(o, f0, u0, g0, t, u, g, c)
    BY <1>3, <2>1, Zenon
  <2>3. Given(o, f0 \o fv, u0, g0, t, v, g, val)
    BY <1>4, <2>2, GivingValues, Zenon
  <2>4. QED
    BY <2>1, <2>3, Zenon DEF Given
<1>6. OpenAt(y)
  BY <1>3, Zenon DEF OpenAt, Pending
<1>7. PICK ev \in E : ev = AttributeOf(a, val)
  BY Zenon
<1>8. Completing(o, q, S, B, fv, v, g, t, ev)
  <2>1. PICK z : z = [u |-> v, g |-> g, t |-> t]
    OBVIOUS
  <2>2. z.u = v /\ z.g = g /\ z.t = t
    BY <2>1
  <2>3. LeadsAt(o, B[Len(q)+1] \o fv, y, z, ev)
    BY <1>2, <1>3, <1>5, <1>7, <2>2, Zenon DEF LeadsAt
  <2>4. QED
    BY <1>1, <1>6, <2>1, <2>3, Zenon DEF Completing
<1>9. Linked(s, d1, Append(q, ev)) /\ s.err = "EXIP_OK"
  <2>1. PICK e1 : e1 = enc
    OBVIOUS
  <2>2. Link(e1, d1, q, o, e, b, u, g, t, c, x, c1, S, F, B)
    BY <2>1, Zenon
  <2>3. PICK f \in Seq(FieldT) : f = fv
    OBVIOUS
  <2>4. Completing(o, q, S, B, f, v, g, t, ev) /\ Completed(s, o, b \o f, v, g, t) /\ Side(v, g, t)
    BY <1>8, <2>3, Zenon
  <2>7. PICK y2, h : y2 = x /\ h = g
    OBVIOUS
  <2>8. Link(e1, d1, q, o, e, b, u, h, t, c, y2, c1, S, F, B)
    BY <2>2, <2>7, Zenon
  <2>5. Linked(s, d1, Append(q, ev)) /\ s.err = "EXIP_OK"
    BY <2>8, <2>4, Extending
  <2>6. QED
    BY <2>5, Zenon
<1>10. QED
  BY <1>5, <1>7, <1>9, Zenon

(* The parser gets the stream and gives the rest of it back.                *)
Handed(s, b) == [s EXCEPT !.buffer = b]

(* Only the buffer changes hands.                                           *)
LEMMA HandingOver ==
  ASSUME NEW o, NEW e, NEW b, NEW u, NEW g, NEW t, NEW c, NEW x, NEW b2
  PROVE  Handed(Strm(o,e,b,u,g,t,c,x), b2) = Strm(o,e,b2,u,g,t,c,x)
<1>1. [Strm(o,e,b,u,g,t,c,x) EXCEPT !.buffer = b2] = Strm(o,e,b2,u,g,t,c,x)
  BY Handing
<1>2. QED
  BY <1>1, Zenon DEF Handed

(* An open element or the document is on top: there is a stack to parse by. *)
LEMMA OpenStacks ==
  ASSUME NEW y, SideAt(y), OpenAt(y)
  PROVE  ParserStack(y.t) = y.t /\ y.t # <<>>
<1>1. Len(y.t) >= 1 /\ y.t \in StackT
  BY Zenon DEF SideAt, Side, Stack
<1>2. y.t # <<>>
  BY <1>1 DEF StackT
<1>3. ParserStack(y.t) = y.t
  BY Zenon DEF ParserStack, OpenAt
<1>4. QED
  BY <1>2, <1>3, Zenon

(* The first event in the stream is parsed: the handler gets this event and *)
(* the parser is where the serializer was when it had written it.           *)
Delivers(e1, d1, q) ==
  LET p == processNextProduction(Handed(d1, e1.buffer))
      s == Advanced(p)
  IN /\ p.event = q[1] /\ s.err = "EXIP_OK"
     /\ Linked(Handed(e1, s.buffer), Handed(s, <<>>), Tail(q))

(* A parser with an event in the stream gets it, whatever comes behind.     *)
LEMMA Delivering ==
  ASSUME NEW e1, NEW d1, NEW E, NEW q \in Seq(E), q # <<>>, Linked(e1, d1, q)
  PROVE  d1.err = "EXIP_OK" /\ d1.gStack # <<>> /\ Delivers(e1, d1, q)
<1>1. PICK o, e, b, u, g, t, c, x, c1, S, F, B :
        Link(e1, d1, q, o, e, b, u, g, t, c, x, c1, S, F, B)
  BY Zenon DEF Linked
<1>2. PICK ok, no : ok = "EXIP_OK" /\ no = FALSE
  OBVIOUS
<1>3. PICK y, z : y = S[1] /\ z = S[2]
  OBVIOUS
<1>4. /\ e1 = Strm(o,e,b,u,g,t,c,x) /\ Side(u, g, t) /\ x \in BOOLEAN
      /\ d1 = Strm(o,ok,<<>>,y.u,y.g,ParserStack(y.t),c1,no)
      /\ b = B[1] /\ Chain(o, q, S, F, B)
      /\ e = "EXIP_OK" => Behind(o, S[Len(q)+1], B[Len(q)+1], u, g, t, c, x)
  BY <1>1, <1>2, <1>3, Zenon DEF Link
<1>5. 1 \in 1..Len(q) /\ 1 \in 1..Len(q)+1 /\ 2 \in 1..Len(q)+1 /\ 1+1 = 2
  OBVIOUS
<1>6. /\ OpenAt(y) /\ F[1] \in Seq(FieldT) /\ b = F[1] \o B[2]
      /\ LeadsAt(o, F[1], y, z, q[1]) /\ SideAt(y) /\ B[2] \in Seq(FieldT)
  BY <1>3, <1>4, <1>5, Zenon DEF Chain
<1>7. ParserStack(y.t) = y.t /\ y.t # <<>>
  BY <1>6, OpenStacks, Zenon
<1>8. e1.buffer = b
  BY <1>4, Accesses
<1>9. PICK b2 \in Seq(FieldT), f \in Seq(FieldT) : b2 = B[2] /\ f = F[1]
  BY <1>6, Zenon
<1>10. Handed(d1, e1.buffer) = Strm(o,ok,f \o b2,y.u,y.g,y.t,c1,no)
  <2>1. PICK d2 : d2 = <<>>
    OBVIOUS
  <2>2. PICK r : r = ParserStack(y.t)
    OBVIOUS
  <2>3. Handed(Strm(o,ok,d2,y.u,y.g,r,c1,no), b) = Strm(o,ok,b,y.u,y.g,r,c1,no)
    BY HandingOver
  <2>4. QED
    BY <1>4, <1>6, <1>7, <1>8, <1>9, <2>1, <2>2, <2>3, Zenon
<1>11. PICK p : p = processNextProduction(Handed(d1, e1.buffer))
  OBVIOUS
<1>12. PICK s : s = Advanced(p)
  OBVIOUS
<1>13. PICK c2 : p.event = q[1] /\ s = Strm(o,ok,b2,z.u,z.g,ParserStack(z.t),c2,no)
  <2>1. Leads(o, f, y.u, y.g, y.t, z.u, z.g, z.t, q[1])
    BY <1>6, <1>9, Zenon DEF LeadsAt
  <2>2. PICK c2 :
          LET p2 == processNextProduction(Strm(o,"EXIP_OK",f \o b2,y.u,y.g,y.t,c1,no))
          IN /\ p2.event = q[1]
             /\ Advanced(p2) = Strm(o,"EXIP_OK",b2,z.u,z.g,ParserStack(z.t),c2,no)
    BY <2>1, Zenon DEF Leads
  <2>3. QED
    BY <1>2, <1>10, <1>11, <1>12, <2>2, Zenon
<1>14. s.err = "EXIP_OK" /\ s.buffer = b2
  BY <1>2, <1>13, Accesses
<1>15. Handed(e1, s.buffer) = Strm(o,e,b2,u,g,t,c,x)
  <2>1. Handed(Strm(o,e,b,u,g,t,c,x), b2) = Strm(o,e,b2,u,g,t,c,x)
    BY HandingOver
  <2>2. QED
    BY <1>4, <1>14, <2>1, Zenon
<1>16. Handed(s, <<>>) = Strm(o,ok,<<>>,z.u,z.g,ParserStack(z.t),c2,no)
  <2>1. PICK d2 : d2 = <<>>
    OBVIOUS
  <2>2. PICK r : r = ParserStack(z.t)
    OBVIOUS
  <2>3. Handed(Strm(o,ok,b2,z.u,z.g,r,c2,no), d2) = Strm(o,ok,d2,z.u,z.g,r,c2,no)
    BY HandingOver
  <2>4. QED
    BY <1>13, <2>1, <2>2, <2>3, Zenon
<1>17. PICK S2, F2, B2 :
         /\ Chain(o, Tail(q), S2, F2, B2)
         /\ S2[1] = S[2] /\ B2[1] = B[2]
         /\ S2[Len(Tail(q))+1] = S[Len(q)+1] /\ B2[Len(Tail(q))+1] = B[Len(q)+1]
  BY <1>4, ChainShifts
<1>18. Link(Handed(e1, s.buffer), Handed(s, <<>>), Tail(q),
            o, e, b2, u, g, t, c, x, c2, S2, F2, B2)
  BY <1>2, <1>3, <1>4, <1>9, <1>15, <1>16, <1>17, Zenon DEF Link
<1>19. Linked(Handed(e1, s.buffer), Handed(s, <<>>), Tail(q))
  BY <1>18, Zenon DEF Linked
<1>20. d1.err = "EXIP_OK" /\ d1.gStack # <<>>
  <2>1. d1.err = ok /\ d1.gStack = ParserStack(y.t)
    <3>1. PICK d2 : d2 = <<>>
      OBVIOUS
    <3>2. PICK r : r = ParserStack(y.t)
      OBVIOUS
    <3>3. d1 = Strm(o,ok,d2,y.u,y.g,r,c1,no)
      BY <1>4, <3>1, <3>2, Zenon
    <3>4. d1.err = ok /\ d1.gStack = r
      BY <3>3, Accesses
    <3>5. QED
      BY <3>2, <3>4, Zenon
  <2>2. QED
    BY <1>2, <1>7, <2>1, Zenon
<1>21. QED
  BY <1>11, <1>12, <1>13, <1>14, <1>19, <1>20, Zenon DEF Delivers

-----------------------------------------------------------------------------
(* The steps of both sides.  The hypotheses: no table outgrows the type of  *)
(* its indexes, and only attributes are called xsi:type, nothing xsi:nil.   *)
TablesFit == Room(enc.uriTable) /\ RulesFit(enc.grammarTable)

PlainNames ==
  /\ \A q \in AttrNames : ~XsiNil(q)
  /\ \A q \in ElemNames : ~XsiNil(q) /\ ~XsiType(q)

StreamInv == sent \in Seq(Events) /\ Linked(enc, dec, sent)

(* The names and strings of the application.                                *)
LEMMA ApplicationGives ==
  /\ \A q \in ElemNames : q \in NameT /\ StartTag(q) \in Events
  /\ \A q \in AttrNames : q \in NameT
  /\ \A q \in TypeNames : q \in NameT
  /\ \A ns \in Namespaces : ns.uri \in Text /\ ns.pfx \in Text
  /\ \A v \in Values : v \in Text /\ Chars(v) \in Events
  /\ \A q \in AttrNames, v \in Values : AttributeOf(q, <<v>>) \in Events
  /\ \A q \in AttrNames, r \in TypeNames : AttributeOf(q, <<r.uri, r.ln>>) \in Events
  /\ \A ns \in Namespaces, isLocal \in BOOLEAN : NSEvent(ns.uri, ns.pfx, isLocal) \in Events
  /\ Plain("EE") \in Events /\ Plain("ED") \in Events
<1>22. PICK T : T = STRING
  OBVIOUS
<1>23. T \subseteq Text
  BY <1>22, Zenon DEF Text
<1>24. /\ \A q \in ElemNames \cup AttrNames \cup TypeNames : q \in [uri : T, ln : T, pfx : T]
       /\ Namespaces \subseteq [uri : T, pfx : T]
       /\ Values \subseteq T
  BY <1>22, BodyCodecAssumption, Zenon
<1>25. [uri : T, ln : T, pfx : T] \subseteq NameT
  BY <1>23 DEF NameT
<1>1. \A q \in ElemNames \cup AttrNames \cup TypeNames : q \in NameT
  BY <1>24, <1>25, Zenon
<1>2. \A ns \in Namespaces : ns.uri \in Text /\ ns.pfx \in Text
  BY <1>23, <1>24
<1>3. \A v \in Values : v \in Text
  BY <1>23, <1>24
<1> DEFINE P1 == {Plain("EE"), Plain("ED")}
           P2 == {Event("SE", q.uri, q.ln, <<>>) : q \in ElemNames}
           P3 == {Event("AT", q.uri, q.ln, <<v>>) : q \in AttrNames, v \in Values}
           P4 == {Event("AT", q.uri, q.ln, <<r.uri, r.ln>>) : q \in AttrNames, r \in TypeNames}
           P5 == {Event("CH", "", "", <<v>>) : v \in Values}
           P6 == {NSEvent(ns.uri, ns.pfx, isLocal) : ns \in Namespaces, isLocal \in BOOLEAN}
<1>14. Events = P1 \cup P2 \cup P3 \cup P4 \cup P5 \cup P6
  BY DEF Events, Chars
<1>15. \A q \in ElemNames : StartTag(q) \in P2
  BY Zenon DEF StartTag
<1>16. \A v \in Values : Chars(v) \in P5
  BY Zenon DEF Chars
<1>17. \A q \in AttrNames, v \in Values : AttributeOf(q, <<v>>) \in P3
  BY DEF AttributeOf
<1>18. \A q \in AttrNames, r \in TypeNames : AttributeOf(q, <<r.uri, r.ln>>) \in P4
  BY DEF AttributeOf
<1>19. \A ns \in Namespaces, isLocal \in BOOLEAN : NSEvent(ns.uri, ns.pfx, isLocal) \in P6
  OBVIOUS
<1>20. Plain("EE") \in P1 /\ Plain("ED") \in P1
  BY Zenon
<1> HIDE DEF P1, P2, P3, P4, P5, P6
<1>21. P1 \subseteq Events /\ P2 \subseteq Events /\ P3 \subseteq Events
       /\ P4 \subseteq Events /\ P5 \subseteq Events /\ P6 \subseteq Events
  BY <1>14
<1>4. \A q \in ElemNames : StartTag(q) \in Events
  BY <1>15, <1>21, Zenon
<1>5. \A v \in Values : Chars(v) \in Events
  BY <1>16, <1>21, Zenon
<1>6. \A q \in AttrNames, v \in Values : AttributeOf(q, <<v>>) \in Events
  BY <1>17, <1>21, Zenon
<1>7. \A q \in AttrNames, r \in TypeNames : AttributeOf(q, <<r.uri, r.ln>>) \in Events
  BY <1>18, <1>21, Zenon
<1>8. \A ns \in Namespaces, isLocal \in BOOLEAN : NSEvent(ns.uri, ns.pfx, isLocal) \in Events
  BY <1>19, <1>21, Zenon
<1>9. Plain("EE") \in Events /\ Plain("ED") \in Events
  BY <1>20, <1>21, Zenon
<1>10. \A q \in ElemNames : q \in NameT
  BY <1>1, Zenon
<1>11. \A q \in AttrNames : q \in NameT
  BY <1>1, Zenon
<1>12. \A q \in TypeNames : q \in NameT
  BY <1>1, Zenon
<1>13. QED
  BY <1>2, <1>3, <1>4, <1>5, <1>6, <1>7, <1>8, <1>9, <1>10, <1>11, <1>12, Zenon

(* A serializer without an error, as the lemmas about its functions see it. *)
Standing(o, e, b, u, g, t, c, x, c1, S, F, B) ==
  /\ Link(enc, dec, sent, o, e, b, u, g, t, c, x, c1, S, F, B)
  /\ e = "EXIP_OK" /\ enc = Strm(o,"EXIP_OK",b,u,g,t,c,x) /\ b \in Seq(FieldT)
  /\ Side(u, g, t) /\ Room(u) /\ Fits(u) /\ RulesFit(g)
  /\ x <=> enc.expectATData
  /\ c = enc.currAttr

(* A serializer without an error stands at the end of the chain.            *)
LEMMA Stands ==
  ASSUME TablesFit, StreamInv, enc.err = "EXIP_OK"
  PROVE  \E o, e, b, u, g, t, c, x, c1, S, F, B : Standing(o, e, b, u, g, t, c, x, c1, S, F, B)
<1>1. PICK o, e, b, u, g, t, c, x, c1, S, F, B :
        Link(enc, dec, sent, o, e, b, u, g, t, c, x, c1, S, F, B)
  BY Zenon DEF StreamInv, Linked
<1>2. enc = Strm(o,e,b,u,g,t,c,x) /\ Side(u, g, t) /\ b = B[1] /\ Chain(o, sent, S, F, B)
  BY <1>1, Zenon DEF Link
<1>3. enc.err = e /\ enc.uriTable = u /\ enc.grammarTable = g
      /\ enc.expectATData = x /\ enc.currAttr = c
  BY <1>2, Accesses
<1>4. e = "EXIP_OK" /\ Room(u) /\ RulesFit(g)
  BY <1>3, Zenon DEF TablesFit
<1>5. b \in Seq(FieldT)
  <2>1. 1 \in 1..Len(sent)+1
    BY DEF StreamInv
  <2>2. QED
    BY <1>2, <2>1, Zenon DEF Chain
<1>6. Fits(u)
  <2>1. Names(u)
    BY <1>2, Zenon DEF Side
  <2>2. u \in UriTableT
    BY <2>1, Zenon DEF Names
  <2>3. Len(u) \in Nat /\ \A i \in 1..Len(u) : Len(u[i].lnTable) \in Nat /\ Len(u[i].pfxTable) \in Nat
    <3>1. Len(u) \in Nat /\ \A i \in 1..Len(u) : u[i] \in UriEntryT
      BY <2>2 DEF UriTableT
    <3>2. ASSUME NEW n \in UriEntryT
          PROVE  Len(n.lnTable) \in Nat /\ Len(n.pfxTable) \in Nat
      BY DEF UriEntryT
    <3>3. QED
      BY <3>1, <3>2, Zenon
  <2>4. \A n \in Nat : n < URI_MAX => n \in 0..URI_MAX
    BY Sizes
  <2>5. QED
    BY <1>4, <2>3, <2>4, Zenon DEF Fits, Room
<1>7. Standing(o, e, b, u, g, t, c, x, c1, S, F, B)
  BY <1>1, <1>2, <1>3, <1>4, <1>5, <1>6, Zenon DEF Standing
<1>8. QED
  BY <1>7, Zenon

(* What Serialized makes of a stream that is linked to the parser.          *)
LEMMA SerializedWell ==
  ASSUME StreamInv, NEW s, NEW ev \in Events, Serialized(s, ev),
         \/ Linked(s, dec, Append(sent, ev)) /\ s.err = "EXIP_OK"
         \/ Linked(s, dec, sent) /\ s.err # "EXIP_OK"
  PROVE  StreamInv'
<1>1. enc' = s /\ dec' = dec /\ sent' = IF s.err = "EXIP_OK" THEN Append(sent, ev) ELSE sent
  BY Zenon DEF Serialized
<1>2. sent \in Seq(Events)
  BY Zenon DEF StreamInv
<1>3. Append(sent, ev) \in Seq(Events)
  BY <1>2
<1>4. sent' \in Seq(Events) /\ Linked(s, dec, sent')
  BY <1>1, <1>2, <1>3, Zenon
<1>5. QED
  BY <1>1, <1>4, Zenon DEF StreamInv

(* An event, complete or broken.                                            *)
LEMMA EventWritten ==
  ASSUME StreamInv, NEW o, NEW e, NEW b, NEW u, NEW g, NEW t, NEW c, NEW x, NEW c1,
         NEW S, NEW F, NEW B, Standing(o, e, b, u, g, t, c, x, c1, S, F, B),
         ~enc.expectATData, NEW class, NEW q, CanEncode(class, q),
         NEW s, NEW ev \in Events, Serialized(s, ev),
         Encoded(o, b, u, g, t, x, s, ev) \/ Broken(o, b, x, s)
  PROVE  StreamInv'
<1>1. /\ Link(enc, dec, sent, o, e, b, u, g, t, c, x, c1, S, F, B)
      /\ e = "EXIP_OK" /\ enc = Strm(o,"EXIP_OK",b,u,g,t,c,x) /\ ~x
  BY Zenon DEF Standing
<1>2. sent \in Seq(Events)
  BY Zenon DEF StreamInv
<1>0. PICK e1, d1 : e1 = enc /\ d1 = dec
  OBVIOUS
<1>3. PICK q1 \in Seq(Events) : e1 = enc /\ d1 = dec /\ q1 = sent
  BY <1>0, <1>2, Zenon
<1>4. Link(e1, d1, q1, o, e, b, u, g, t, c, x, c1, S, F, B)
  BY <1>1, <1>3, Zenon
<1>5. Head(t).currNonTermID # GR_VOID_NON_TERMINAL
  <2>1. Top(enc) = Head(t)
    <3>1. enc.gStack = t
      BY <1>1, Accesses
    <3>2. QED
      BY <3>1, Zenon DEF Top
  <2>2. QED
    BY <2>1, Zenon DEF CanEncode
<1>6. CASE Encoded(o, b, u, g, t, x, s, ev)
  <2>1. Linked(s, d1, Append(q1, ev)) /\ s.err = "EXIP_OK"
    BY <1>1, <1>4, <1>5, <1>6, Encoding
  <2>2. QED
    BY <1>3, <2>1, SerializedWell, Zenon
<1>7. CASE Broken(o, b, x, s)
  <2>0. Len(q1) \in Nat
    BY LenProperties
  <2>3. PICK w \in BOOLEAN : w = x
    BY <1>1, Zenon DEF Link
  <2>4. Broken(o, b, w, s)
    BY <1>7, <2>3, Zenon
  <2>1. Linked(s, d1, q1) /\ s.err # "EXIP_OK"
    BY <1>4, <2>4, <2>0, Breaking
  <2>2. QED
    BY <1>3, <2>1, SerializedWell, Zenon
<1>8. QED
  BY <1>6, <1>7, Zenon

(* startElement: the name, and the grammar of the element on both stacks.   *)
LEMMA StartElementStep ==
  ASSUME PlainNames, TablesFit, StreamInv, NEW q \in ElemNames, startElement(q)
  PROVE  StreamInv'
<1>1. enc.err = "EXIP_OK" /\ ~enc.expectATData /\ CanEncode("SE", q)
      /\ Serialized(Started(enc, q), StartTag(q))
  BY Zenon DEF startElement, Ready, Started, StartTag
<1>2. PICK o, e, b, u, g, t, c, x, c1, S, F, B : Standing(o, e, b, u, g, t, c, x, c1, S, F, B)
  BY <1>1, Stands, Zenon
<1>3. /\ b \in Seq(FieldT) /\ enc = Strm(o,"EXIP_OK",b,u,g,t,c,x)
      /\ Side(u, g, t) /\ Room(u) /\ RulesFit(g)
  BY <1>2, Zenon DEF Standing
<1>4. q \in NameT /\ ~XsiNil(q) /\ ~XsiType(q) /\ StartTag(q) \in Events
  BY ApplicationGives, Zenon DEF PlainNames
<1>5. \/ Encoded(o, b, u, g, t, x, Started(enc, q), StartTag(q))
      \/ Broken(o, b, x, Started(enc, q))
  BY <1>1, <1>3, <1>4, StartingElements, Zenon
<1>6. QED
  BY <1>1, <1>2, <1>4, <1>5, EventWritten, Zenon

(* endElement: the event, and the grammar left.                             *)
LEMMA EndElementStep ==
  ASSUME TablesFit, StreamInv, endElement
  PROVE  StreamInv'
<1>1. PICK s : s = popGrammar(encodeProduction(enc, "EE", NoName))
  OBVIOUS
<1>2. PICK ev : ev = Plain("EE")
  OBVIOUS
<1>3. enc.err = "EXIP_OK" /\ ~enc.expectATData /\ CanEncode("EE", NoName) /\ Serialized(s, ev)
  BY <1>1, <1>2, Zenon DEF endElement, Ready
<1>4. PICK o, e, b, u, g, t, c, x, c1, S, F, B : Standing(o, e, b, u, g, t, c, x, c1, S, F, B)
  BY <1>3, Stands, Zenon
<1>5. /\ b \in Seq(FieldT) /\ enc = Strm(o,"EXIP_OK",b,u,g,t,c,x)
      /\ Side(u, g, t) /\ Fits(u) /\ RulesFit(g)
  BY <1>4, Zenon DEF Standing
<1>6. Encoded(o, b, u, g, t, x, s, ev)
  BY <1>1, <1>2, <1>3, <1>5, EndingElements, Zenon
<1>7. ev \in Events
  BY <1>2, ApplicationGives, Zenon
<1>8. QED
  BY <1>3, <1>4, <1>6, <1>7, EventWritten, Zenon

(* endDocument: the last event.                                             *)
LEMMA EndDocumentStep ==
  ASSUME TablesFit, StreamInv, endDocument
  PROVE  StreamInv'
<1>1. PICK s : s = encodeProduction(enc, "ED", NoName)
  OBVIOUS
<1>2. PICK ev : ev = Plain("ED")
  OBVIOUS
<1>3. enc.err = "EXIP_OK" /\ ~enc.expectATData /\ CanEncode("ED", NoName) /\ Serialized(s, ev)
  BY <1>1, <1>2, Zenon DEF endDocument, Ready
<1>4. PICK o, e, b, u, g, t, c, x, c1, S, F, B : Standing(o, e, b, u, g, t, c, x, c1, S, F, B)
  BY <1>3, Stands, Zenon
<1>5. /\ b \in Seq(FieldT) /\ enc = Strm(o,"EXIP_OK",b,u,g,t,c,x)
      /\ Side(u, g, t) /\ Fits(u) /\ RulesFit(g)
  BY <1>4, Zenon DEF Standing
<1>6. Encoded(o, b, u, g, t, x, s, ev)
  BY <1>1, <1>2, <1>3, <1>5, EndingDocument, Zenon
<1>7. ev \in Events
  BY <1>2, ApplicationGives, Zenon
<1>8. QED
  BY <1>3, <1>4, <1>6, <1>7, EventWritten, Zenon

(* stringData: the event, and the characters under the name of the element. *)
LEMMA StringDataStep ==
  ASSUME TablesFit, StreamInv, NEW v \in Values, stringData(v)
  PROVE  StreamInv'
<1>1. PICK s1 : s1 = encodeProduction(enc, "CH", NoName)
  OBVIOUS
<1>2. PICK s : s = Write(s1, Value(Top(s1).currQNameID, v))
  OBVIOUS
<1>3. enc.err = "EXIP_OK" /\ ~enc.expectATData /\ CanEncode("CH", NoName)
      /\ Serialized(s, Chars(v))
  BY <1>1, <1>2, Zenon DEF stringData, Ready, Chars
<1>4. PICK o, e, b, u, g, t, c, x, c1, S, F, B : Standing(o, e, b, u, g, t, c, x, c1, S, F, B)
  BY <1>3, Stands, Zenon
<1>5. /\ b \in Seq(FieldT) /\ enc = Strm(o,"EXIP_OK",b,u,g,t,c,x)
      /\ Side(u, g, t) /\ Fits(u) /\ RulesFit(g)
  BY <1>4, Zenon DEF Standing
<1>6. v \in Text /\ Chars(v) \in Events
  BY ApplicationGives, Zenon
<1>7. Encoded(o, b, u, g, t, x, s, Chars(v))
  BY <1>1, <1>2, <1>3, <1>5, <1>6, Characters, Zenon
<1>8. QED
  BY <1>3, <1>4, <1>6, <1>7, EventWritten, Zenon

(* namespaceDeclaration: the uri, the prefix and the bit.                   *)
LEMMA NamespaceStep ==
  ASSUME TablesFit, StreamInv, NEW ns \in Namespaces, NEW isLocal \in BOOLEAN,
         namespaceDeclaration(ns, isLocal)
  PROVE  StreamInv'
<1>1. PICK s1 : s1 = encodeUri(encodeProduction(enc, "NS", NoName), ns.uri)
  OBVIOUS
<1>2. PICK p : p = encodePfx(s1, lookupUri(s1.uriTable, ns.uri), ns.pfx)
  OBVIOUS
<1>9. PICK ev : ev = NSEvent(ns.uri, ns.pfx, isLocal)
  OBVIOUS
<1>10. PICK s : s = Write(p, Bit(isLocal))
  OBVIOUS
<1>3. enc.err = "EXIP_OK" /\ ~enc.expectATData /\ CanEncode("NS", NoName)
      /\ Serialized(s, ev)
  BY <1>1, <1>2, <1>9, <1>10, Zenon DEF namespaceDeclaration, Ready, Bit, BitVal
<1>4. PICK o, e, b, u, g, t, c, x, c1, S, F, B : Standing(o, e, b, u, g, t, c, x, c1, S, F, B)
  BY <1>3, Stands, Zenon
<1>5. /\ b \in Seq(FieldT) /\ enc = Strm(o,"EXIP_OK",b,u,g,t,c,x)
      /\ Side(u, g, t) /\ Room(u) /\ RulesFit(g)
  BY <1>4, Zenon DEF Standing
<1>6. ns.uri \in Text /\ ns.pfx \in Text /\ ev \in Events
  BY <1>9, ApplicationGives, Zenon
<1>7. Encoded(o, b, u, g, t, x, s, ev)
  <2>1. PICK uri \in Text, pfx \in Text : uri = ns.uri /\ pfx = ns.pfx
    BY <1>6, Zenon
  <2>2. Encoded(o, b, u, g, t, x,
                Write(encodePfx(encodeUri(encodeProduction(enc, "NS", NoName), uri),
                                lookupUri(encodeUri(encodeProduction(enc, "NS", NoName), uri).uriTable, uri),
                                pfx), Bit(isLocal)), NSEvent(uri, pfx, isLocal))
    BY <1>3, <1>5, NamespaceDeclarations, Zenon
  <2>3. QED
    BY <1>1, <1>2, <1>9, <1>10, <2>1, <2>2, Zenon
<1>8. QED
  BY <1>3, <1>4, <1>6, <1>7, EventWritten, Zenon

(* attribute: the name, or an error; no event is complete.                  *)
LEMMA AttributeStep ==
  ASSUME PlainNames, TablesFit, StreamInv, NEW q \in AttrNames, attribute(q)
  PROVE  StreamInv'
<1>1. enc.err = "EXIP_OK" /\ ~enc.expectATData /\ CanEncode("AT", q)
      /\ enc' = Attributed(enc, q) /\ dec' = dec /\ sent' = sent
  BY Zenon DEF attribute, Ready, Attributed
<1>2. PICK o, e, b, u, g, t, c, x, c1, S, F, B : Standing(o, e, b, u, g, t, c, x, c1, S, F, B)
  BY <1>1, Stands, Zenon
<1>3. /\ b \in Seq(FieldT) /\ enc = Strm(o,"EXIP_OK",b,u,g,t,c,x)
      /\ Side(u, g, t) /\ Room(u) /\ RulesFit(g) /\ ~x /\ e = "EXIP_OK"
      /\ Link(enc, dec, sent, o, e, b, u, g, t, c, x, c1, S, F, B)
  BY <1>1, <1>2, Zenon DEF Standing
<1>4. q \in NameT /\ ~XsiNil(q)
  BY ApplicationGives, Zenon DEF PlainNames
<1>5. PICK s : s = Attributed(enc, q)
  OBVIOUS
<1>6. Attributing(o, b, u, g, t, s) \/ Broken(o, b, x, s)
  BY <1>1, <1>3, <1>4, <1>5, NamingAttributes, Zenon
<1>7. sent \in Seq(Events)
  BY Zenon DEF StreamInv
<1>8. PICK e1, d1 : e1 = enc /\ d1 = dec
  OBVIOUS
<1>9. PICK q1 \in Seq(Events) : q1 = sent
  BY <1>7, Zenon
<1>10. Len(q1) \in Nat
  BY LenProperties
<1>11. Link(e1, d1, q1, o, e, b, u, g, t, c, x, c1, S, F, B)
  BY <1>3, <1>8, <1>9, Zenon
<1>12. Linked(s, d1, q1)
  <2>1. CASE Attributing(o, b, u, g, t, s)
    BY <1>3, <1>10, <1>11, <2>1, Pended
  <2>2. CASE Broken(o, b, x, s)
    <3>1. PICK w \in BOOLEAN : w = x
      BY <1>3, Zenon DEF Link
    <3>2. Broken(o, b, w, s)
      BY <2>2, <3>1, Zenon
    <3>3. QED
      BY <1>10, <1>11, <3>2, Breaking
  <2>3. QED
    BY <1>6, <2>1, <2>2, Zenon
<1>13. QED
  BY <1>1, <1>5, <1>7, <1>8, <1>9, <1>12, Zenon DEF StreamInv

(* The value of the attribute is in the stream.                             *)
LEMMA ValueWritten ==
  ASSUME StreamInv, NEW o, NEW e, NEW b, NEW u, NEW g, NEW t, NEW c, NEW x, NEW c1,
         NEW S, NEW F, NEW B, Standing(o, e, b, u, g, t, c, x, c1, S, F, B),
         enc.expectATData, NEW fv \in Seq(FieldT), NEW v, Side(v, g, t), NEW val,
         ValueRead(o, fv, u, v, c, val), \A a \in AttrNames : AttributeOf(a, val) \in Events,
         NEW s, Completed(s, o, b \o fv, v, g, t), Serialized(s, AttributeEvent(val))
  PROVE  StreamInv'
<1>1. Link(enc, dec, sent, o, e, b, u, g, t, c, x, c1, S, F, B) /\ e = "EXIP_OK" /\ x
  BY Zenon DEF Standing
<1>2. sent \in Seq(Events)
  BY Zenon DEF StreamInv
<1>3. PICK d1 : d1 = dec
  OBVIOUS
<1>4. PICK q1 \in Seq(Events) : q1 = sent
  BY <1>2, Zenon
<1>5. Link(enc, d1, q1, o, e, b, u, g, t, c, x, c1, S, F, B)
  BY <1>1, <1>3, <1>4, Zenon
<1>6. Linked(s, d1, Append(q1, AttributeEvent(val))) /\ s.err = "EXIP_OK"
  BY <1>1, <1>5, Valued
<1>7. enc' = s /\ dec' = dec /\ sent' = Append(q1, AttributeEvent(val))
  BY <1>4, <1>6, Zenon DEF Serialized
<1>8. AttributeEvent(val) \in Events
  <2>1. PICK f0, y : y.t = t /\ Pending(o, f0, y.u, y.g, t, u, g, c)
    BY <1>1, Zenon DEF Link, Behind
  <2>2. PICK u0, g0 : u0 = y.u /\ g0 = y.g
    OBVIOUS
  <2>3. Pending(o, f0, u0, g0, t, u, g, c)
    BY <2>1, <2>2, Zenon
  <2>4. enc = Strm(o,e,b,u,g,t,c,x)
    BY <1>1, Zenon DEF Link
  <2>5. Given(o, f0 \o fv, u0, g0, t, v, g, val)
    BY <2>3, <2>4, GivingValues, Zenon
  <2>6. QED
    BY <2>5, Zenon DEF Given
<1>9. Append(q1, AttributeEvent(val)) \in Seq(Events)
  BY <1>8
<1>10. QED
  BY <1>3, <1>6, <1>7, <1>9, Zenon DEF StreamInv

(* The identifier of the attribute that waits for its value.                *)
LEMMA Awaited ==
  ASSUME PlainNames, NEW o, NEW e, NEW b, NEW u, NEW g, NEW t, NEW c, NEW x, NEW c1,
         NEW S, NEW F, NEW B, Standing(o, e, b, u, g, t, c, x, c1, S, F, B), enc.expectATData
  PROVE  c = enc.currAttr /\ c \in QNameId /\ ~IsXsi(c, XML_SCHEMA_INSTANCE_NIL_ID)
<1>1. Link(enc, dec, sent, o, e, b, u, g, t, c, x, c1, S, F, B) /\ e = "EXIP_OK" /\ x
      /\ Side(u, g, t) /\ c = enc.currAttr
  BY Zenon DEF Standing
<1>2. PICK f0, y : y.t = t /\ Pending(o, f0, y.u, y.g, t, u, g, c)
  BY <1>1, Zenon DEF Link, Behind
<1>3. PICK q \in AttrNames : KnownId(u, c) /\ Says(u, c, q) /\ ~XsiNil(q)
  BY <1>2, Zenon DEF Pending
<1>4. Names(u)
  BY <1>1, Zenon DEF Side
<1>5. ~IsXsi(c, XML_SCHEMA_INSTANCE_NIL_ID)
  BY <1>3, <1>4, XsiNames, Zenon
<1>6. QED
  BY <1>1, <1>3, <1>5, Zenon DEF KnownId

(* attributeData: the value of every attribute but xsi:type.                *)
LEMMA AttributeDataStep ==
  ASSUME PlainNames, TablesFit, StreamInv, NEW v \in Values, attributeData(v)
  PROVE  StreamInv'
<1>1. PICK y : y = FALSE
  OBVIOUS
<1>2. PICK s : s = [Write(enc, Value(enc.currAttr, v)) EXCEPT !.expectATData = y]
  OBVIOUS
<1>3. PICK val : val = <<v>>
  OBVIOUS
<1>4. enc.err = "EXIP_OK" /\ enc.expectATData
      /\ ~IsXsi(enc.currAttr, XML_SCHEMA_INSTANCE_TYPE_ID)
      /\ Serialized(s, AttributeEvent(val))
  BY <1>1, <1>2, <1>3, Zenon DEF attributeData, Ready
<1>5. PICK o, e, b, u, g, t, c, x, c1, S, F, B : Standing(o, e, b, u, g, t, c, x, c1, S, F, B)
  BY <1>4, Stands, Zenon
<1>6. enc = Strm(o,"EXIP_OK",b,u,g,t,c,x) /\ Side(u, g, t)
  BY <1>5, Zenon DEF Standing
<1>7. c = enc.currAttr /\ c \in QNameId /\ ~IsXsi(c, XML_SCHEMA_INSTANCE_NIL_ID)
  BY <1>4, <1>5, Awaited, Zenon
<1>8. v \in Text /\ \A a \in AttrNames : AttributeOf(a, val) \in Events
  BY <1>3, ApplicationGives, Zenon
<1>9. Value(c, v) \in Seq(FieldT) /\ ValueRead(o, Value(c, v), u, u, c, val)
  BY <1>3, <1>4, <1>7, <1>8, StringsRead, Zenon
<1>10. PICK f \in Seq(FieldT) : f = Value(c, v)
  BY <1>9, Zenon
<1>11. Completed(s, o, b \o f, u, g, t)
  <2>1. Write(Strm(o,"EXIP_OK",b,u,g,t,c,x), f) = Strm(o,"EXIP_OK",b \o f,u,g,t,c,x)
    BY Writing
  <2>2. PICK b2 : b2 = b \o f
    OBVIOUS
  <2>3. [Strm(o,"EXIP_OK",b2,u,g,t,c,x) EXCEPT !.expectATData = y] = Strm(o,"EXIP_OK",b2,u,g,t,c,y)
    BY DEF Strm
  <2>4. s = Strm(o,"EXIP_OK",b2,u,g,t,c,y)
    BY <1>2, <1>6, <1>7, <1>10, <2>1, <2>2, <2>3, Zenon
  <2>5. QED
    BY <1>1, <2>2, <2>4, Zenon DEF Completed
<1>12. ValueRead(o, f, u, u, c, val)
  BY <1>9, <1>10, Zenon
<1>13. QED
  BY <1>4, <1>5, <1>6, <1>8, <1>11, <1>12, ValueWritten

(* qnameData: the name that is the value of xsi:type.                       *)
LEMMA QNameDataStep ==
  ASSUME PlainNames, TablesFit, StreamInv, NEW q \in TypeNames, qnameData(q)
  PROVE  StreamInv'
<1>1. PICK y \in BOOLEAN : y = FALSE
  OBVIOUS
<1>2. PICK s : s = [encodeQName(enc, q, y) EXCEPT !.expectATData = y]
  OBVIOUS
<1>3. PICK val : val = <<q.uri, q.ln>>
  OBVIOUS
<1>4. enc.err = "EXIP_OK" /\ enc.expectATData
      /\ IsXsi(enc.currAttr, XML_SCHEMA_INSTANCE_TYPE_ID)
      /\ Serialized(s, AttributeEvent(val))
  BY <1>1, <1>2, <1>3, Zenon DEF qnameData, Ready
<1>5. PICK o, e, b, u, g, t, c, x, c1, S, F, B : Standing(o, e, b, u, g, t, c, x, c1, S, F, B)
  BY <1>4, Stands, Zenon
<1>6. enc = Strm(o,"EXIP_OK",b,u,g,t,c,x) /\ Side(u, g, t) /\ Room(u) /\ b \in Seq(FieldT)
      /\ c = enc.currAttr /\ e = "EXIP_OK"
      /\ Link(enc, dec, sent, o, e, b, u, g, t, c, x, c1, S, F, B)
  BY <1>5, Zenon DEF Standing
<1>7. q \in NameT /\ \A a \in AttrNames : AttributeOf(a, val) \in Events
  BY <1>3, ApplicationGives, Zenon
<1>8. Names(u) /\ Fits(NameTab(u, q))
  BY <1>6, <1>7, RoomForNames, Zenon DEF Side
<1>9. PICK v, id : v = NameTab(u, q) /\ id = NameIdOf(u, q)
  OBVIOUS
<1>10. Side(v, g, t) /\ Says(v, id, q)
  BY <1>6, <1>7, <1>9, NameSaid, Zenon
<1>11. /\ NameFields(o, u, q) \in Seq(FieldT)
       /\ NameFits(o, u, q, y) =>
            encodeQName(Strm(o,"EXIP_OK",b,u,g,t,c,x), q, y) =
              Strm(o,"EXIP_OK",b \o NameFields(o, u, q),NameTab(u, q),g,t,c,x)
       /\ ~NameFits(o, u, q, y) => \E f1 \in Seq(FieldT) :
            encodeQName(Strm(o,"EXIP_OK",b,u,g,t,c,x), q, y) =
              Strm(o,"EXIP_INCONSISTENT_PROC_STATE",b \o f1,NameTab(u, q),g,t,c,x)
  <2>1. /\ NameFields(o, u, q) \in Seq(FieldT)
        /\ NameFits(o, u, q, y) =>
             encodeQName(Strm(o,"EXIP_OK",b,u,g,t,c,x), q, y) =
               Strm(o,"EXIP_OK",b \o NameFields(o, u, q),NameTab(u, q),g,t,c,x)
    BY <1>6, <1>7, <1>8, WritingNames
  <2>2. ASSUME ~NameFits(o, u, q, y)
        PROVE  \E f1 \in Seq(FieldT) :
                 encodeQName(Strm(o,"EXIP_OK",b,u,g,t,c,x), q, y) =
                   Strm(o,"EXIP_INCONSISTENT_PROC_STATE",b \o f1,NameTab(u, q),g,t,c,x)
    BY <1>6, <1>7, <1>8, <2>2, WritingNames
  <2>3. QED
    BY <2>1, <2>2, Zenon
<1>12. CASE NameFits(o, u, q, y)
  <2>1. PICK f \in Seq(FieldT) : f = NameFields(o, u, q)
    BY <1>11, Zenon
  <2>2. PICK b2 : b2 = b \o f
    OBVIOUS
  <2>3. [Strm(o,"EXIP_OK",b2,v,g,t,c,x) EXCEPT !.expectATData = y] = Strm(o,"EXIP_OK",b2,v,g,t,c,y)
    BY DEF Strm
  <2>4. encodeQName(enc, q, y) = Strm(o,"EXIP_OK",b2,v,g,t,c,x)
    BY <1>6, <1>9, <1>11, <1>12, <2>1, <2>2, Zenon
  <2>5. s = Strm(o,"EXIP_OK",b2,v,g,t,c,y)
    BY <1>2, <2>3, <2>4, Zenon
  <2>6. Completed(s, o, b \o f, v, g, t)
    BY <1>1, <2>2, <2>5, Zenon DEF Completed
  <2>7. ValueRead(o, f, u, v, c, val)
    <3>1. ValueRead(o, NameFields(o, u, q), u, NameTab(u, q), c, <<q.uri, q.ln>>)
      BY <1>4, <1>6, <1>7, <1>8, <1>9, <1>10, NamesRead, Zenon
    <3>2. QED
      BY <1>3, <1>9, <2>1, <3>1, Zenon
  <2>8. QED
    BY <1>4, <1>5, <1>7, <1>10, <2>6, <2>7, ValueWritten
<1>13. CASE ~NameFits(o, u, q, y)
  <2>1. PICK e2 : e2 = "EXIP_INCONSISTENT_PROC_STATE"
    OBVIOUS
  <2>2. e2 # "EXIP_OK"
    BY <2>1
  <2>3. PICK f \in Seq(FieldT) : encodeQName(enc, q, y) = Strm(o,e2,b \o f,v,g,t,c,x)
    BY <1>6, <1>9, <1>11, <1>13, <2>1, Zenon
  <2>4. PICK b2 : b2 = b \o f
    OBVIOUS
  <2>5. [Strm(o,e2,b2,v,g,t,c,x) EXCEPT !.expectATData = y] = Strm(o,e2,b2,v,g,t,c,y)
    BY DEF Strm
  <2>6. s = Strm(o,e2,b \o f,v,g,t,c,y)
    BY <1>2, <2>3, <2>4, <2>5, Zenon
  <2>7. Broken(o, b, y, s)
    BY <1>10, <2>2, <2>6, Zenon DEF Broken
  <2>8. sent \in Seq(Events)
    BY Zenon DEF StreamInv
  <2>9. PICK e1, d1 : e1 = enc /\ d1 = dec
    OBVIOUS
  <2>10. PICK q1 \in Seq(Events) : q1 = sent
    BY <2>8, Zenon
  <2>11. Link(e1, d1, q1, o, e, b, u, g, t, c, x, c1, S, F, B) /\ Len(q1) \in Nat
    <3>1. Len(q1) \in Nat
      BY LenProperties
    <3>2. QED
      BY <1>6, <2>9, <2>10, <3>1, Zenon
  <2>12. Linked(s, d1, q1) /\ s.err # "EXIP_OK"
    BY <2>7, <2>11, Breaking
  <2>13. enc' = s /\ dec' = dec /\ sent' = sent
    BY <1>4, <2>12, Zenon DEF Serialized
  <2>14. QED
    BY <2>8, <2>9, <2>10, <2>12, <2>13, Zenon DEF StreamInv
<1>14. QED
  BY <1>12, <1>13, Zenon

-----------------------------------------------------------------------------
(* At the start: the names of the initial table, no grammar, the document   *)
(* on both stacks and an empty stream.                                      *)
MadeOf(e, uri, lns, pfxs) ==
  /\ e \in UriEntryT
  /\ e.uriStr = uri /\ e.pfxTable = pfxs /\ Len(e.lnTable) = Len(lns)
  /\ \A k \in 1..Len(lns) : e.lnTable[k].lnStr = lns[k] /\ e.lnTable[k].elemGrammar = 0

(* An entry of the initial table.                                           *)
LEMMA EntryMade ==
  ASSUME NEW uri \in Text, NEW lns \in Seq(Text), NEW pfxs \in Seq(Text)
  PROVE  MadeOf(UriEntry(uri, lns, pfxs), uri, lns, pfxs)
<1>1. PICK r : r = [i \in 1..Len(lns) |-> LnEntry(lns[i])]
  OBVIOUS
<1>2. \A k \in 1..Len(lns) : r[k] = LnEntry(lns[k])
  BY <1>1
<1>3. \A k \in 1..Len(lns) : LnEntry(lns[k]) \in LnEntryT
  BY DEF LnEntry, LnEntryT, NoGrammar
<1>4. Len(lns) \in Nat
  OBVIOUS
<1>5. r \in Seq(LnEntryT) /\ Len(r) = Len(lns)
  BY <1>1, <1>3, <1>4
<1>6. \A k \in 1..Len(lns) : r[k].lnStr = lns[k] /\ r[k].elemGrammar = 0
  <2>1. \A ln : LnEntry(ln).lnStr = ln /\ LnEntry(ln).elemGrammar = 0
    BY DEF LnEntry, NoGrammar
  <2>2. QED
    BY <1>2, <2>1, Zenon
<1>7. UriEntry(uri, lns, pfxs) = [uriStr |-> uri, lnTable |-> r, pfxTable |-> pfxs]
  BY <1>1, Zenon DEF UriEntry
<1>8. PICK e : e = [uriStr |-> uri, lnTable |-> r, pfxTable |-> pfxs]
  OBVIOUS
<1>9. e \in UriEntryT /\ e.uriStr = uri /\ e.lnTable = r /\ e.pfxTable = pfxs
  BY <1>5, <1>8 DEF UriEntryT
<1>10. QED
  BY <1>5, <1>6, <1>7, <1>8, <1>9, Zenon DEF MadeOf

(* The initial table is a table of names, without grammars.                 *)
LEMMA InitialTables ==
  /\ Names(InitialUriTable)
  /\ GrammarsIn(InitialUriTable, 0)
<1>1. PICK s1, s2, s3, l1, l2, l3, l4, n1, n2 :
        /\ s1 = "" /\ s2 = "xml" /\ s3 = "xsi"
        /\ l1 = "base" /\ l2 = "id" /\ l3 = "lang" /\ l4 = "space"
        /\ n1 = "nil" /\ n2 = "type"
  OBVIOUS
<1>2. /\ s1 # s2 /\ s1 # s3 /\ s2 # s3
      /\ l1 # l2 /\ l1 # l3 /\ l1 # l4 /\ l2 # l3 /\ l2 # l4 /\ l3 # l4
      /\ n1 # n2
  BY <1>1, Zenon
<1>3. /\ s1 \in Text /\ s2 \in Text /\ s3 \in Text
      /\ l1 \in Text /\ l2 \in Text /\ l3 \in Text /\ l4 \in Text
      /\ n1 \in Text /\ n2 \in Text
  BY <1>1, Zenon DEF Text, InitialNames
<1>4. PICK e1, e2, e3 :
        /\ e1 = UriEntry(s1, <<>>, <<s1>>)
        /\ e2 = UriEntry(s2, <<l1, l2, l3, l4>>, <<s2>>)
        /\ e3 = UriEntry(s3, <<n1, n2>>, <<s3>>)
  OBVIOUS
<1>5. PICK u : u = InitialUriTable
  OBVIOUS
<1>6. u = <<e1, e2, e3>>
  BY <1>1, <1>4, <1>5, Zenon DEF InitialUriTable
<1>7. PICK q1 \in Seq(Text), q2 \in Seq(Text), q3 \in Seq(Text),
           p1 \in Seq(Text), p2 \in Seq(Text), p3 \in Seq(Text) :
        /\ q1 = <<>> /\ q2 = <<l1, l2, l3, l4>> /\ q3 = <<n1, n2>>
        /\ p1 = <<s1>> /\ p2 = <<s2>> /\ p3 = <<s3>>
  <2>1. /\ <<>> \in Seq(Text) /\ <<l1, l2, l3, l4>> \in Seq(Text) /\ <<n1, n2>> \in Seq(Text)
        /\ <<s1>> \in Seq(Text) /\ <<s2>> \in Seq(Text) /\ <<s3>> \in Seq(Text)
    BY <1>3
  <2>2. QED
    BY <2>1, Zenon
<1>8. /\ Len(q1) = 0 /\ Len(q2) = 4 /\ Len(q3) = 2
      /\ q2[1] = l1 /\ q2[2] = l2 /\ q2[3] = l3 /\ q2[4] = l4
      /\ q3[1] = n1 /\ q3[2] = n2
      /\ Len(p1) = 1 /\ Len(p2) = 1 /\ Len(p3) = 1
  BY <1>7
<1>9. e1 = UriEntry(s1, q1, p1) /\ e2 = UriEntry(s2, q2, p2) /\ e3 = UriEntry(s3, q3, p3)
  BY <1>4, <1>7, Zenon
<1>0. MadeOf(e1, s1, q1, p1) /\ MadeOf(e2, s2, q2, p2) /\ MadeOf(e3, s3, q3, p3)
  BY <1>3, <1>9, EntryMade, Zenon
<1>10. /\ e1 \in UriEntryT /\ e1.uriStr = s1 /\ e1.pfxTable = p1 /\ Len(e1.lnTable) = Len(q1)
       /\ \A k \in 1..Len(q1) : e1.lnTable[k].lnStr = q1[k] /\ e1.lnTable[k].elemGrammar = 0
  BY <1>0, Zenon DEF MadeOf
<1>11. /\ e2 \in UriEntryT /\ e2.uriStr = s2 /\ e2.pfxTable = p2 /\ Len(e2.lnTable) = Len(q2)
       /\ \A k \in 1..Len(q2) : e2.lnTable[k].lnStr = q2[k] /\ e2.lnTable[k].elemGrammar = 0
  BY <1>0, Zenon DEF MadeOf
<1>12. /\ e3 \in UriEntryT /\ e3.uriStr = s3 /\ e3.pfxTable = p3 /\ Len(e3.lnTable) = Len(q3)
       /\ \A k \in 1..Len(q3) : e3.lnTable[k].lnStr = q3[k] /\ e3.lnTable[k].elemGrammar = 0
  BY <1>0, Zenon DEF MadeOf
<1>13. Len(u) = 3 /\ u[1] = e1 /\ u[2] = e2 /\ u[3] = e3
  BY <1>6
<1>14. u \in UriTableT
  BY <1>6, <1>10, <1>11, <1>12 DEF UriTableT
<1>15. 1..Len(u) = {1, 2, 3}
  BY <1>13
<1>16. UniqueUris(u)
  BY <1>2, <1>10, <1>11, <1>12, <1>13, <1>15 DEF UniqueUris
<1>17. 1..Len(q1) = {} /\ 1..Len(q2) = {1, 2, 3, 4} /\ 1..Len(q3) = {1, 2}
  BY <1>8
<1>18. UniqueLns(u)
  <2>1. ASSUME NEW k \in 1..Len(q2), NEW l \in 1..Len(q2), q2[k] = q2[l]
        PROVE  k = l
    BY <1>2, <1>8, <1>17, <2>1
  <2>2. ASSUME NEW k \in 1..Len(q3), NEW l \in 1..Len(q3), q3[k] = q3[l]
        PROVE  k = l
    BY <1>2, <1>8, <1>17, <2>2
  <2>3. \A k, l \in 1..Len(e1.lnTable) : e1.lnTable[k].lnStr = e1.lnTable[l].lnStr => k = l
    BY <1>10, <1>17
  <2>4. ASSUME NEW k \in 1..Len(e2.lnTable), NEW l \in 1..Len(e2.lnTable),
               e2.lnTable[k].lnStr = e2.lnTable[l].lnStr
        PROVE  k = l
    <3>1. k \in 1..Len(q2) /\ l \in 1..Len(q2)
      BY <1>11, Zenon
    <3>2. q2[k] = q2[l]
      BY <1>11, <2>4, <3>1, Zenon
    <3>3. QED
      BY <2>1, <3>1, <3>2, Zenon
  <2>5. ASSUME NEW k \in 1..Len(e3.lnTable), NEW l \in 1..Len(e3.lnTable),
               e3.lnTable[k].lnStr = e3.lnTable[l].lnStr
        PROVE  k = l
    <3>1. k \in 1..Len(q3) /\ l \in 1..Len(q3)
      BY <1>12, Zenon
    <3>2. q3[k] = q3[l]
      BY <1>12, <2>5, <3>1, Zenon
    <3>3. QED
      BY <2>2, <3>1, <3>2, Zenon
  <2>6. \A i \in 1..Len(u) : u[i] = e1 \/ u[i] = e2 \/ u[i] = e3
    BY <1>13, <1>15, Zenon
  <2>7. QED
    BY <2>3, <2>4, <2>5, <2>6, Zenon DEF UniqueLns
<1>19. UniquePfxs(u)
  <2>1. 1..Len(p1) = {1} /\ 1..Len(p2) = {1} /\ 1..Len(p3) = {1}
    BY <1>8
  <2>2. \A k, l \in {1} : k = l
    OBVIOUS
  <2>3. \A i \in 1..Len(u) : u[i].pfxTable = p1 \/ u[i].pfxTable = p2 \/ u[i].pfxTable = p3
    BY <1>10, <1>11, <1>12, <1>13, <1>15, Zenon
  <2>4. \A i \in 1..Len(u) : 1..Len(u[i].pfxTable) = {1}
    BY <2>1, <2>3, Zenon
  <2>5. ASSUME NEW i \in 1..Len(u), NEW k \in 1..Len(u[i].pfxTable),
               NEW l \in 1..Len(u[i].pfxTable)
        PROVE  k = l
    <3>1. k \in {1} /\ l \in {1}
      BY <2>4, Zenon
    <3>2. QED
      BY <2>2, <3>1, Zenon
  <2>6. QED
    BY <2>5, Zenon DEF UniquePfxs
<1>20. XsiInPlace(u)
  <2>1. 1 \in 1..Len(q3) /\ 2 \in 1..Len(q3) /\ 3 <= Len(u) /\ 2 <= Len(e3.lnTable)
    BY <1>8, <1>12, <1>13
  <2>2. QED
    BY <1>1, <1>8, <1>12, <1>13, <2>1, Zenon DEF XsiInPlace
<1>21. GrammarsIn(u, 0)
  <2>1. \A i \in 1..Len(u) : u[i] = e1 \/ u[i] = e2 \/ u[i] = e3
    BY <1>13, <1>15, Zenon
  <2>2. \A i \in 1..Len(u) : \A k \in 1..Len(u[i].lnTable) : u[i].lnTable[k].elemGrammar = 0
    BY <1>10, <1>11, <1>12, <2>1, Zenon
  <2>3. QED
    BY <2>2 DEF GrammarsIn
<1>22. QED
  BY <1>5, <1>14, <1>16, <1>18, <1>19, <1>20, <1>21, Zenon DEF Names

(* A new stream is a side of a stream.                                      *)
LEMMA NewSides ==
  ASSUME NEW t, t = <<Node(DOC, GR_DOC_CONTENT, VoidQName)>>
  PROVE  Side(InitialUriTable, <<>>, t) /\ ParserStack(t) = t
<1>1. PICK n : n = Node(DOC, GR_DOC_CONTENT, VoidQName)
  OBVIOUS
<1>2. n \in NodeT /\ n.grammar = DOC /\ n.currNonTermID = GR_DOC_CONTENT
  <2>1. VoidQName \in QNameId
    BY Sizes DEF VoidQName, QNameId
  <2>2. DOC \in Nat /\ GR_DOC_CONTENT \in Nat
    BY DEF DOC, GR_DOC_CONTENT
  <2>3. QED
    BY <1>1, <2>1, <2>2 DEF Node, NodeT
<1>3. t \in StackT /\ Len(t) = 1 /\ t[1] = n /\ Head(t) = n
  BY <1>1, <1>2 DEF StackT
<1>4. DocNode(t)
  BY <1>2, <1>3 DEF DocNode
<1>5. Stack(InitialUriTable, <<>>, t)
  BY <1>3, <1>4 DEF Stack
<1>6. PICK g : g = <<>>
  OBVIOUS
<1>7. g \in GrammarTableT /\ Len(g) = 0
  BY <1>6 DEF GrammarTableT
<1>8. Grammars(InitialUriTable, g)
  BY <1>7 DEF Grammars
<1>9. ParserStack(t) = t
  BY <1>2, <1>3 DEF ParserStack, GR_DOC_CONTENT, GR_VOID_NON_TERMINAL
<1>10. QED
  BY <1>5, <1>6, <1>7, <1>8, <1>9, InitialTables, Zenon DEF Side

(* Nothing is in the stream at first.                                       *)
LEMMA StreamStarts == Init => StreamInv
<1> SUFFICES ASSUME Init PROVE StreamInv
  OBVIOUS
<1>1. PICK o, t, no, g, b :
        /\ enc = NewStream(o) /\ t = <<Node(DOC, GR_DOC_CONTENT, VoidQName)>> /\ no = FALSE
        /\ g = <<>> /\ b = <<>>
  BY Zenon DEF Init
<1>2. enc = Strm(o,"EXIP_OK",b,InitialUriTable,g,t,VoidQName,no)
  BY <1>1, Zenon DEF NewStream, Strm
<1>3. dec = enc /\ sent = <<>>
  BY Zenon DEF Init
<1>4. Side(InitialUriTable, g, t) /\ ParserStack(t) = t
  BY <1>1, NewSides, Zenon
<1>5. PICK u, c, ok : u = InitialUriTable /\ c = VoidQName /\ ok = "EXIP_OK"
  OBVIOUS
<1>6. PICK y : y = [u |-> u, g |-> g, t |-> t]
  OBVIOUS
<1>7. y.u = u /\ y.g = g /\ y.t = t
  BY <1>6
<1>8. PICK S, B, F : S = <<y>> /\ B = <<b>> /\ F = <<>>
  OBVIOUS
<1>9. S[1] = y /\ B[1] = b
  BY <1>8
<1>10. PICK q : q = sent
  OBVIOUS
<1>11. Len(q) = 0 /\ 1..Len(q)+1 = {1} /\ 1..Len(q) = {} /\ Len(q)+1 = 1 /\ q \in Seq(Events)
  BY <1>3, <1>10
<1>12. SideAt(y)
  BY <1>4, <1>5, <1>7, Zenon DEF SideAt
<1>13. <<>> \in Seq(FieldT)
  OBVIOUS
<1>14. Chain(o, q, S, F, B)
  <2>1. \A k \in 1..Len(q)+1 : SideAt(S[k]) /\ B[k] \in Seq(FieldT)
    BY <1>1, <1>9, <1>11, <1>12, <1>13, Zenon
  <2>2. \A k \in 1..Len(q) : FALSE
    BY <1>11, Zenon
  <2>3. QED
    BY <2>1, <2>2, Zenon DEF Chain
<1>15. Behind(o, S[Len(q)+1], B[Len(q)+1], u, g, t, c, no)
  BY <1>1, <1>7, <1>9, <1>11, Zenon DEF Behind
<1>16. enc = Strm(o,ok,b,u,g,t,c,no) /\ no \in BOOLEAN
  BY <1>1, <1>2, <1>5, Zenon
<1>17. dec = Strm(o,"EXIP_OK",<<>>,S[1].u,S[1].g,ParserStack(S[1].t),c,FALSE)
  BY <1>1, <1>3, <1>4, <1>5, <1>7, <1>9, <1>16, Zenon
<1>18. Link(enc, dec, q, o, ok, b, u, g, t, c, no, c, S, F, B)
  BY <1>4, <1>5, <1>9, <1>14, <1>15, <1>16, <1>17, Zenon DEF Link
<1>19. QED
  BY <1>10, <1>11, <1>18, Zenon DEF StreamInv, Linked

(* parseNext: the first event arrives.                                      *)
LEMMA ParseNextStep ==
  ASSUME StreamInv, parseNext
  PROVE  StreamInv' /\ received' = <<Head(sent)>>
<1>1. CanParse /\ sent' = Tail(sent)
  BY Zenon DEF parseNext
<1>2. PICK s, p :
        /\ p = processNextProduction([dec EXCEPT !.buffer = enc.buffer])
        /\ s = Advanced(p)
        /\ dec' = [s EXCEPT !.buffer = <<>>]
        /\ enc' = [enc EXCEPT !.buffer = s.buffer]
        /\ received' = IF s.err = "EXIP_OK" THEN <<p.event>> ELSE received
  BY Zenon DEF parseNext
<1>3. /\ p = processNextProduction(Handed(dec, enc.buffer))
      /\ dec' = Handed(s, <<>>) /\ enc' = Handed(enc, s.buffer)
  BY <1>2, Zenon DEF Handed
<1>4. sent \in Seq(Events) /\ Linked(enc, dec, sent) /\ sent # <<>>
  BY <1>1, Zenon DEF StreamInv, CanParse
<1>5. Delivers(enc, dec, sent)
  <2>1. PICK e1, d1 : e1 = enc /\ d1 = dec
    OBVIOUS
  <2>2. PICK q1 \in Seq(Events) : q1 = sent
    BY <1>4, Zenon
  <2>3. Delivers(e1, d1, q1)
    BY <1>4, <2>1, <2>2, Delivering, Zenon
  <2>4. QED
    BY <2>1, <2>2, <2>3, Zenon
<1>6. p.event = sent[1] /\ s.err = "EXIP_OK" /\ Linked(enc', dec', sent')
  BY <1>1, <1>2, <1>3, <1>5, Zenon DEF Delivers
<1>7. Tail(sent) \in Seq(Events) /\ Head(sent) = sent[1]
  BY <1>4
<1>8. QED
  BY <1>1, <1>2, <1>6, <1>7, Zenon DEF StreamInv

-----------------------------------------------------------------------------
(* Every step keeps the serializer and the parser linked by the stream.     *)
LEMMA StreamSteps ==
  ASSUME PlainNames, TablesFit, StreamInv, [Next]_vars
  PROVE  StreamInv'
<1>1. ASSUME NEW q \in ElemNames, startElement(q) PROVE StreamInv'
  BY <1>1, StartElementStep
<1>2. CASE endElement
  BY <1>2, EndElementStep
<1>3. ASSUME NEW q \in AttrNames, attribute(q) PROVE StreamInv'
  BY <1>3, AttributeStep
<1>4. ASSUME NEW v \in Values, attributeData(v) PROVE StreamInv'
  BY <1>4, AttributeDataStep
<1>5. ASSUME NEW v \in Values, stringData(v) PROVE StreamInv'
  BY <1>5, StringDataStep
<1>6. ASSUME NEW q \in TypeNames, qnameData(q) PROVE StreamInv'
  BY <1>6, QNameDataStep
<1>7. ASSUME NEW ns \in Namespaces, NEW isLocal \in BOOLEAN, namespaceDeclaration(ns, isLocal)
      PROVE  StreamInv'
  BY <1>7, NamespaceStep
<1>8. CASE endDocument
  BY <1>8, EndDocumentStep
<1>9. CASE parseNext
  BY <1>9, ParseNextStep
<1>10. CASE UNCHANGED vars
  <2>1. enc' = enc /\ dec' = dec /\ sent' = sent
    BY <1>10 DEF vars
  <2>2. QED
    BY <2>1, Zenon DEF StreamInv
<1>11. Serialize \/ parseNext \/ UNCHANGED vars
  BY Zenon DEF Next
<1>12. ASSUME Serialize PROVE StreamInv'
  BY <1>1, <1>2, <1>3, <1>4, <1>5, <1>6, <1>7, <1>8, <1>12, Zenon DEF Serialize
<1>13. QED
  BY <1>9, <1>10, <1>11, <1>12, Zenon

(* The serializer and the parser stay linked: what is in the stream says to *)
(* the parser exactly what the application has serialized.                  *)
THEOREM StreamLinked ==
  ASSUME PlainNames
  PROVE  Spec /\ []TablesFit => []StreamInv
<1>1. Init => StreamInv
  BY StreamStarts
<1>2. PlainNames /\ TablesFit /\ StreamInv /\ [Next]_vars => StreamInv'
  BY StreamSteps
<1>3. QED
  BY <1>1, <1>2, PTL DEF Spec

(* Both sides of the link.                                                  *)
OneSide(s) ==
  /\ Names(s.uriTable) /\ Grammars(s.uriTable, s.grammarTable)
  /\ s.gStack = <<>> \/ Stack(s.uriTable, s.grammarTable, s.gStack)

(* Names, learned grammars and stack are in order on both sides.            *)
LEMMA BothSides ==
  ASSUME StreamInv
  PROVE  OneSide(enc) /\ OneSide(dec)
<1>1. PICK o, e, b, u, g, t, c, x, c1, S, F, B :
        Link(enc, dec, sent, o, e, b, u, g, t, c, x, c1, S, F, B)
  BY Zenon DEF StreamInv, Linked
<1>2. PICK no : no = FALSE
  OBVIOUS
<1>3. PICK y, r, d : y = S[1] /\ r = ParserStack(y.t) /\ d = <<>>
  OBVIOUS
<1>4. enc = Strm(o,e,b,u,g,t,c,x) /\ Side(u, g, t) /\ Chain(o, sent, S, F, B)
  BY <1>1, Zenon DEF Link
<1>5. dec = Strm(o,"EXIP_OK",d,y.u,y.g,r,c1,no)
  BY <1>1, <1>2, <1>3, Zenon DEF Link
<1>6. Side(y.u, y.g, y.t)
  <2>1. 1 \in 1..Len(sent)+1
    BY DEF StreamInv
  <2>2. QED
    BY <1>3, <1>4, <2>1, Zenon DEF Chain, SideAt
<1>7. enc.uriTable = u /\ enc.grammarTable = g /\ enc.gStack = t
  BY <1>4, Accesses
<1>8. dec.uriTable = y.u /\ dec.grammarTable = y.g /\ dec.gStack = r
  BY <1>5, Accesses
<1>9. r = <<>> \/ r = y.t
  BY <1>3, Zenon DEF ParserStack
<1>10. OneSide(enc)
  BY <1>4, <1>7, Zenon DEF OneSide, Side
<1>11. OneSide(dec)
  BY <1>6, <1>8, <1>9, Zenon DEF OneSide, Side
<1>12. QED
  BY <1>10, <1>11, Zenon

(* No rule holds the same production twice, on neither side.                *)
LEMMA OnceOf ==
  ASSUME NEW s, OneSide(s), NEW g \in 1..Len(s.grammarTable), NEW nt \in {1, 2}
  PROVE  IsInjective(s.grammarTable[g][nt].production)
<1>1. PICK P : P = Prods(s.grammarTable, g, nt)
  OBVIOUS
<1>2. P = s.grammarTable[g][nt].production
  BY <1>1, Zenon DEF Prods
<1>3. \A k, l \in 1..Len(P) : P[k] = P[l] => k = l
  <2>1. PICK gt : gt = s.grammarTable
    OBVIOUS
  <2>2. \A k, l \in 1..Len(Prods(gt, g, nt)) : Prods(gt, g, nt)[k] = Prods(gt, g, nt)[l] => k = l
    <3>1. Grammars(s.uriTable, gt) /\ g \in 1..Len(gt)
      BY <2>1, Zenon DEF OneSide
    <3>2. QED
      BY <3>1, Zenon DEF Grammars
  <2>3. QED
    BY <1>1, <2>1, <2>2, Zenon
<1>4. P \in Seq(ProdT)
  <2>1. s.grammarTable \in GrammarTableT
    BY Zenon DEF OneSide, Grammars
  <2>2. QED
    BY <1>2, <2>1 DEF GrammarTableT, RuleT
<1>5. DOMAIN P = 1..Len(P)
  BY <1>4
<1>6. QED
  BY <1>2, <1>3, <1>5, Zenon DEF IsInjective

(* The codec learns every production once although it never looks for it.   *)
THEOREM ProductionsLearnedOnce ==
  ASSUME PlainNames
  PROVE  Spec /\ []TablesFit => []LearnedOnce
<1>1. ASSUME StreamInv PROVE LearnedOnce
  BY <1>1, BothSides, OnceOf, Zenon DEF LearnedOnce
<1>2. QED
  BY <1>1, StreamLinked, PTL

(* No name has two identifiers on either side.                              *)
LEMMA StoredOnceBy ==
  ASSUME NEW u, Names(u)
  PROVE  /\ IsInjective([i \in 1..Len(u) |-> u[i].uriStr])
         /\ \A i \in 1..Len(u) :
              LET e == u[i]
              IN /\ IsInjective([k \in 1..Len(e.lnTable) |-> e.lnTable[k].lnStr])
                 /\ IsInjective(e.pfxTable)
<1>1. u \in UriTableT /\ UniqueUris(u) /\ UniqueLns(u) /\ UniquePfxs(u)
  BY Zenon DEF Names
<1>2. IsInjective([i \in 1..Len(u) |-> u[i].uriStr])
  BY <1>1 DEF UniqueUris, IsInjective
<1>3. ASSUME NEW i \in 1..Len(u)
      PROVE  /\ IsInjective([k \in 1..Len(u[i].lnTable) |-> u[i].lnTable[k].lnStr])
             /\ IsInjective(u[i].pfxTable)
  <2>1. PICK e : e = u[i]
    OBVIOUS
  <2>2. \A k, l \in 1..Len(e.lnTable) : e.lnTable[k].lnStr = e.lnTable[l].lnStr => k = l
    BY <1>1, <2>1, Zenon DEF UniqueLns
  <2>3. \A k, l \in 1..Len(e.pfxTable) : e.pfxTable[k] = e.pfxTable[l] => k = l
    BY <1>1, <2>1, Zenon DEF UniquePfxs
  <2>4. e.pfxTable \in Seq(Text)
    BY <1>1, <2>1, Entries, Zenon
  <2>5. DOMAIN e.pfxTable = 1..Len(e.pfxTable)
    BY <2>4
  <2>6. IsInjective([k \in 1..Len(e.lnTable) |-> e.lnTable[k].lnStr])
    BY <2>2 DEF IsInjective
  <2>7. QED
    BY <2>1, <2>3, <2>5, <2>6, Zenon DEF IsInjective
<1>4. QED
  BY <1>2, <1>3, Zenon

(* The parser adds literals without a look-up, and still no name, URI or    *)
(* prefix is stored twice.                                                  *)
THEOREM NamesHaveOneIdentifier ==
  ASSUME PlainNames
  PROVE  Spec /\ []TablesFit => []NamesStoredOnce
<1>1. ASSUME StreamInv PROVE NamesStoredOnce
  <2>1. \A s \in {enc, dec} : Names(s.uriTable)
    BY <1>1, BothSides, Zenon DEF OneSide
  <2>2. QED
    BY <2>1, StoredOnceBy, Zenon DEF NamesStoredOnce
<1>2. QED
  BY <1>1, StreamLinked, PTL

(* A learned SE(qname) can be followed, and open elements have the grammar  *)
(* of their name.                                                           *)
LEMMA FollowableOf ==
  ASSUME NEW s, OneSide(s), NEW id, KnownId(s.uriTable, id)
  PROVE  KnownName(s, id) /\ Ln(s, id).elemGrammar = GrammarOf(s.uriTable, id)
<1>1. KnownName(s, id)
  BY Zenon DEF KnownName, KnownId, Lns, At
<1>2. QED
  BY <1>1, Zenon DEF Ln, GrammarOf

(* Every learned name is known, and every learned element and every open    *)
(* one has a grammar.                                                       *)
LEMMA GrammarsOf ==
  ASSUME NEW s, OneSide(s)
  PROVE  /\ \A g \in 1..Len(s.grammarTable), nt \in {1, 2} :
              \A p \in Range(s.grammarTable[g][nt].production) :
                /\ p.event = "SE_QNAME" => Followable(s, p.qnameId)
                /\ p.event = "AT_QNAME" => KnownName(s, p.qnameId)
         /\ \A i \in 1..Len(s.gStack) - 1 :
              /\ Followable(s, s.gStack[i].currQNameID)
              /\ s.gStack[i].grammar = Ln(s, s.gStack[i].currQNameID).elemGrammar
<1>1. PICK u, gt, t : u = s.uriTable /\ gt = s.grammarTable /\ t = s.gStack
  OBVIOUS
<1>2. Grammars(u, gt) /\ (t = <<>> \/ Stack(u, gt, t))
  BY <1>1, Zenon DEF OneSide
<1>3. ASSUME NEW g \in 1..Len(gt), NEW nt \in {1, 2}, NEW p \in Range(gt[g][nt].production)
      PROVE  /\ p.event = "SE_QNAME" => Followable(s, p.qnameId)
             /\ p.event = "AT_QNAME" => KnownName(s, p.qnameId)
  <2>1. PICK P : P = gt[g][nt].production
    OBVIOUS
  <2>2. P \in Seq(ProdT)
    <3>1. gt \in GrammarTableT
      BY <1>2, Zenon DEF Grammars
    <3>2. QED
      BY <2>1, <3>1 DEF GrammarTableT, RuleT
  <2>3. DOMAIN P = 1..Len(P)
    BY <2>2
  <2>4. PICK k \in 1..Len(P) : p = P[k]
    BY <2>1, <2>3, Zenon DEF Range
  <2>5. LearnedProd(u, nt, p)
    <3>1. P = Prods(gt, g, nt)
      BY <2>1, Zenon DEF Prods
    <3>2. \A l \in 1..Len(Prods(gt, g, nt)) : LearnedProd(u, nt, Prods(gt, g, nt)[l])
      BY <1>2, Zenon DEF Grammars
    <3>3. QED
      BY <2>4, <3>1, <3>2, Zenon
  <2>6. CASE p.event = "SE_QNAME"
    <3>1. KnownId(u, p.qnameId) /\ GrammarOf(u, p.qnameId) # NoGrammar /\ p.event # "AT_QNAME"
      BY <2>5, <2>6, SMT DEF LearnedProd
    <3>2. KnownName(s, p.qnameId) /\ Ln(s, p.qnameId).elemGrammar = GrammarOf(u, p.qnameId)
      BY <1>1, <3>1, FollowableOf, Zenon
    <3>3. Followable(s, p.qnameId)
      BY <3>1, <3>2, Zenon DEF Followable
    <3>4. QED
      BY <3>1, <3>3, Zenon
  <2>7. CASE p.event = "AT_QNAME"
    <3>1. KnownId(u, p.qnameId) /\ p.event # "SE_QNAME"
      BY <2>5, <2>7, SMT DEF LearnedProd
    <3>2. KnownName(s, p.qnameId)
      BY <1>1, <3>1, FollowableOf, Zenon
    <3>3. QED
      BY <3>1, <3>2, Zenon
  <2>8. QED
    BY <2>6, <2>7, Zenon
<1>4. ASSUME NEW i \in 1..Len(t) - 1
      PROVE  /\ Followable(s, t[i].currQNameID)
             /\ t[i].grammar = Ln(s, t[i].currQNameID).elemGrammar
  <2>1. CASE t = <<>>
    <3>1. Len(t) = 0
      BY <2>1
    <3>2. QED
      BY <3>1
  <2>2. CASE Stack(u, gt, t)
    <3>1. PICK node : node = t[i]
      OBVIOUS
    <3>2. i \in 1..Len(t) /\ i # Len(t)
      <4>1. Len(t) \in Nat
        BY <2>2 DEF Stack, StackT
      <4>2. QED
        BY <4>1
    <3>3. OpenNode(u, gt, node)
      BY <2>2, <3>1, <3>2, Zenon DEF Stack
    <3>4. /\ KnownId(u, node.currQNameID) /\ GrammarOf(u, node.currQNameID) = node.grammar
          /\ node.grammar \in 1..Len(gt)
      BY <3>3, Zenon DEF OpenNode
    <3>5. node.grammar # NoGrammar
      BY <3>4 DEF NoGrammar
    <3>6. KnownName(s, node.currQNameID)
          /\ Ln(s, node.currQNameID).elemGrammar = GrammarOf(u, node.currQNameID)
      BY <1>1, <3>4, FollowableOf, Zenon
    <3>7. QED
      BY <3>1, <3>4, <3>5, <3>6, Zenon DEF Followable
  <2>3. QED
    BY <1>2, <2>1, <2>2, Zenon
<1>5. QED
  BY <1>1, <1>3, <1>4, Zenon

(* No learned production leads to a name or a grammar that is not there.    *)
THEOREM LearnedElementsCanBeFollowed ==
  ASSUME PlainNames
  PROVE  Spec /\ []TablesFit => []LearnedElementsHaveGrammars
<1>1. ASSUME StreamInv PROVE LearnedElementsHaveGrammars
  BY <1>1, BothSides, GrammarsOf, Zenon DEF LearnedElementsHaveGrammars
<1>2. QED
  BY <1>1, StreamLinked, PTL

(* Whenever the parser has caught up, it is where the serializer is.        *)
THEOREM SidesInStep ==
  ASSUME PlainNames
  PROVE  Spec /\ []TablesFit => []InStep
<1>1. ASSUME StreamInv, sent = <<>>, enc.err = "EXIP_OK", ~enc.expectATData
      PROVE  /\ dec.uriTable = enc.uriTable
             /\ dec.grammarTable = enc.grammarTable
             /\ dec.gStack = IF Ended(enc) THEN <<>> ELSE enc.gStack
             /\ enc.buffer = <<>>
  <2>1. PICK o, e, b, u, g, t, c, x, c1, S, F, B :
          Link(enc, dec, sent, o, e, b, u, g, t, c, x, c1, S, F, B)
    BY <1>1, Zenon DEF StreamInv, Linked
  <2>2. PICK no : no = FALSE
    OBVIOUS
  <2>3. PICK y, r, d : y = S[1] /\ r = ParserStack(y.t) /\ d = <<>>
    OBVIOUS
  <2>4. /\ enc = Strm(o,e,b,u,g,t,c,x) /\ b = B[1]
        /\ e = "EXIP_OK" => Behind(o, S[Len(sent)+1], B[Len(sent)+1], u, g, t, c, x)
    BY <2>1, Zenon DEF Link
  <2>5. dec = Strm(o,"EXIP_OK",d,y.u,y.g,r,c1,no)
    BY <2>1, <2>2, <2>3, Zenon DEF Link
  <2>6. enc.err = e /\ enc.uriTable = u /\ enc.grammarTable = g /\ enc.gStack = t
        /\ enc.expectATData = x /\ enc.buffer = b
    BY <2>4, Accesses
  <2>7. dec.uriTable = y.u /\ dec.grammarTable = y.g /\ dec.gStack = r
    BY <2>5, Accesses
  <2>8. Len(sent)+1 = 1
    BY <1>1
  <2>9. y.u = u /\ y.g = g /\ y.t = t /\ b = <<>>
    BY <1>1, <2>3, <2>4, <2>6, <2>8, Zenon DEF Behind
  <2>10. Ended(enc) <=> Head(t).currNonTermID = GR_VOID_NON_TERMINAL
    BY <2>6, Zenon DEF Ended, Top
  <2>11. r = IF Ended(enc) THEN <<>> ELSE t
    BY <2>3, <2>9, <2>10, Zenon DEF ParserStack
  <2>12. QED
    BY <2>6, <2>7, <2>9, <2>11, Zenon
<1>2. ASSUME StreamInv PROVE InStep
  BY <1>1, <1>2, Zenon DEF InStep
<1>3. QED
  BY <1>2, StreamLinked, PTL

(* The parser never fails, and it has a grammar to go on with as long as    *)
(* there is anything in the stream: parseNext is never stuck.               *)
ParserGoesOn == dec.err = "EXIP_OK" /\ (sent # <<>> => CanParse)

(* The parser never fails and is never stuck in front of an event.          *)
THEOREM ParserNeverFails ==
  ASSUME PlainNames
  PROVE  Spec /\ []TablesFit => []ParserGoesOn
<1>1. ASSUME StreamInv PROVE ParserGoesOn
  <2>1. dec.err = "EXIP_OK"
    <3>1. PICK o, e, b, u, g, t, c, x, c1, S, F, B :
            Link(enc, dec, sent, o, e, b, u, g, t, c, x, c1, S, F, B)
      BY <1>1, Zenon DEF StreamInv, Linked
    <3>2. PICK no, y, r, d : no = FALSE /\ y = S[1] /\ r = ParserStack(y.t) /\ d = <<>>
      OBVIOUS
    <3>3. dec = Strm(o,"EXIP_OK",d,y.u,y.g,r,c1,no)
      BY <3>1, <3>2, Zenon DEF Link
    <3>4. QED
      BY <3>3, Accesses
  <2>2. ASSUME sent # <<>> PROVE CanParse
    <3>1. PICK e1, d1 : e1 = enc /\ d1 = dec
      OBVIOUS
    <3>2. sent \in Seq(Events) /\ Linked(enc, dec, sent)
      BY <1>1, Zenon DEF StreamInv
    <3>3. PICK q1 \in Seq(Events) : q1 = sent
      BY <3>2, Zenon
    <3>4. d1.gStack # <<>>
      BY <2>2, <3>1, <3>2, <3>3, Delivering, Zenon
    <3>5. QED
      BY <2>1, <2>2, <3>1, <3>4, Zenon DEF CanParse
  <2>3. QED
    BY <2>1, <2>2, Zenon DEF ParserGoesOn
<1>2. QED
  BY <1>1, StreamLinked, PTL

(* The codec implements the pipe: the handler is called for the events of   *)
(* the application, each once, in order, with its names and values.         *)
LEMMA SerializesOneEvent ==
  ASSUME Serialize
  PROVE  received' = received /\ (sent' = sent \/ \E ev : sent' = Append(sent, ev))
<1>1. ASSUME NEW s, NEW ev, Serialized(s, ev)
      PROVE  received' = received /\ (sent' = sent \/ sent' = Append(sent, ev))
  BY <1>1, Zenon DEF Serialized
<1>2. ASSUME NEW q, startElement(q)
      PROVE  received' = received /\ (sent' = sent \/ \E ev : sent' = Append(sent, ev))
  BY <1>1, <1>2, Zenon DEF startElement
<1>3. CASE endElement
  BY <1>1, <1>3, Zenon DEF endElement
<1>4. ASSUME NEW q, attribute(q)
      PROVE  received' = received /\ (sent' = sent \/ \E ev : sent' = Append(sent, ev))
  BY <1>4, Zenon DEF attribute
<1>5. ASSUME NEW v, attributeData(v)
      PROVE  received' = received /\ (sent' = sent \/ \E ev : sent' = Append(sent, ev))
  BY <1>1, <1>5, Zenon DEF attributeData
<1>6. ASSUME NEW v, stringData(v)
      PROVE  received' = received /\ (sent' = sent \/ \E ev : sent' = Append(sent, ev))
  BY <1>1, <1>6, Zenon DEF stringData
<1>7. ASSUME NEW q, qnameData(q)
      PROVE  received' = received /\ (sent' = sent \/ \E ev : sent' = Append(sent, ev))
  BY <1>1, <1>7, Zenon DEF qnameData
<1>8. ASSUME NEW ns, NEW isLocal, namespaceDeclaration(ns, isLocal)
      PROVE  received' = received /\ (sent' = sent \/ \E ev : sent' = Append(sent, ev))
  BY <1>1, <1>8, Zenon DEF namespaceDeclaration
<1>9. CASE endDocument
  BY <1>1, <1>9, Zenon DEF endDocument
<1>10. QED
  BY <1>2, <1>3, <1>4, <1>5, <1>6, <1>7, <1>8, <1>9, Zenon DEF Serialize

(* The serializer and the parser implement the pipe, step by step.          *)
THEOREM CodecIsAPipe ==
  ASSUME PlainNames
  PROVE  Spec /\ []TablesFit => Pipe!Init /\ [][Pipe!Next]_Pipe!vars
<1>1. Init => Pipe!Init
  BY Zenon DEF Init, Pipe!Init
<1>2. ASSUME TablesFit, StreamInv, StreamInv', [Next]_vars
      PROVE  [Pipe!Next]_Pipe!vars
  <2>1. CASE Serialize
    <3>1. received' = received /\ (sent' = sent \/ \E ev : sent' = Append(sent, ev))
      BY <2>1, SerializesOneEvent, Zenon
    <3>2. CASE sent' = sent
      BY <3>1, <3>2, Zenon DEF Pipe!vars
    <3>3. ASSUME NEW ev, sent' = Append(sent, ev)
          PROVE  Pipe!Next
      <4>1. sent \in Seq(Events) /\ sent' \in Seq(Events)
        BY <1>2, Zenon DEF StreamInv
      <4>2. ev \in Events
        BY <3>3, <4>1
      <4>3. QED
        BY <3>1, <3>3, <4>2, Zenon DEF Pipe!Next, Pipe!Serialize
    <3>4. QED
      BY <3>1, <3>2, <3>3, Zenon
  <2>2. CASE parseNext
    <3>1. received' = <<Head(sent)>> /\ sent' = Tail(sent) /\ sent # <<>>
      BY <1>2, <2>2, ParseNextStep, Zenon DEF parseNext, CanParse
    <3>2. QED
      BY <3>1, Zenon DEF Pipe!Next, Pipe!Parse
  <2>3. CASE UNCHANGED vars
    <3>1. sent' = sent /\ received' = received
      BY <2>3 DEF vars
    <3>2. QED
      BY <3>1, Zenon DEF Pipe!vars
  <2>4. Serialize \/ parseNext \/ UNCHANGED vars
    BY <1>2, Zenon DEF Next
  <2>5. QED
    BY <2>1, <2>2, <2>3, <2>4, Zenon
<1>3. QED
  BY <1>1, <1>2, StreamLinked, PTL DEF Spec
=============================================================================
