------------------------ MODULE SharedSchema_proofs ------------------------
(***************************************************************************)
(* Proofs about one EXIPSchema under any number of streams, for every      *)
(* schema that SharedSchemaAssumption describes: with names that are no    *)
(* global elements, and with a grammarTable that may be moved whenever it  *)
(* grows.                                                                  *)
(***************************************************************************)
EXTENDS SharedSchema, TLAPS

AllNames == StaticNames \cup NewNames
Element == [block : Nat, index : Nat, currQName : AllNames]

TypeOK ==
  /\ StaticNames \subseteq Names /\ Names \subseteq AllNames
  /\ elemGrammar \in [Names -> Nat]
  /\ count \in Nat /\ StaticGrCount <= count /\ count <= INDEX_MAX
  /\ 0..count-1 \subseteq DOMAIN grammar
  /\ block \in Nat /\ arrayEntries \in Nat
  /\ room \in Nat /\ room <= arrayEntries
  /\ gStack \in Seq(Element)

(* What belongs to the schema is as it was built, but for the index of the  *)
(* names that a stream has made a grammar for.                              *)
SchemaPart ==
  /\ \A n \in StaticNames \ (made \cup left) : elemGrammar[n] = StaticElemGrammar[n]
  /\ \A i \in 0..StaticGrCount-1 : grammar[i] = SchemaGrammar(i)

(* Behind it are the grammars this stream has made, each for one name, and  *)
(* nothing else; the names of earlier streams lead there as well.           *)
StreamPart ==
  /\ made \subseteq Names \ (GlobalElements \cup left)
  /\ left \subseteq StaticNames \ GlobalElements
  /\ Names \ StaticNames \subseteq made
  /\ \A n \in made : /\ elemGrammar[n] \in StaticGrCount..count-1
                     /\ grammar[elemGrammar[n]] = ElementGrammar(n)
  /\ \A n \in left : elemGrammar[n] >= StaticGrCount /\ elemGrammar[n] < INDEX_MAX
  /\ \A i \in StaticGrCount..count-1 : \E n \in made : grammar[i] = ElementGrammar(n)

(* Between two streams there is nothing of the kind.                        *)
NothingElse == ~open => made = {} /\ count = StaticGrCount /\ vxTables = {} /\ gStack = <<>>

IInv == TypeOK /\ SchemaPart /\ StreamPart /\ NothingElse /\ OpenElementsHaveGrammars

(* What OpenElementsHaveGrammars says of a node.                            *)
Good(node) ==
  /\ count <= room => node.block = block
  /\ node.currQName \notin left =>
       /\ node.index < count
       /\ grammar[node.index] = IF node.index < StaticGrCount
                                THEN SchemaGrammar(node.index)
                                ELSE ElementGrammar(node.currQName)

-----------------------------------------------------------------------------
(* Lemmas about the tables.                                                 *)

(* The constants, as the proofs use them.                                   *)
LEMMA Bounds ==
  /\ StaticGrCount \in Nat /\ INDEX_MAX \in Nat /\ StaticGrCount <= INDEX_MAX
  /\ ArrayEntries \in Nat /\ ChunkEntries \in Nat /\ ChunkEntries > 0
  /\ GlobalElements \subseteq StaticNames
BY SharedSchemaAssumption

(* A name of the schema leads to its grammar if it is a global element, and *)
(* to none otherwise.                                                       *)
LEMMA StaticIndex ==
  ASSUME NEW n \in StaticNames
  PROVE  /\ n \in GlobalElements =>
              /\ StaticElemGrammar[n] = GlobalGrammar[n]
              /\ StaticElemGrammar[n] \in 0..StaticGrCount-1
              /\ StaticElemGrammar[n] # INDEX_MAX
         /\ n \notin GlobalElements => StaticElemGrammar[n] = INDEX_MAX
BY Bounds, SharedSchemaAssumption DEF StaticElemGrammar

(* The index of a grammar made for one name does not lead to another's.     *)
LEMMA Different ==
  ASSUME NEW m, NEW n, ElementGrammar(m) = ElementGrammar(n)
  PROVE  m = n
<1>1. ElementGrammar(m).of = m /\ ElementGrammar(n).of = n
  BY DEF ElementGrammar
<1>2. QED
  BY <1>1

(* A name that has an index and was not left behind has its own grammar.    *)
LEMMA OwnGrammar ==
  ASSUME TypeOK, SchemaPart, StreamPart,
         NEW n \in Names, elemGrammar[n] # INDEX_MAX, n \notin left
  PROVE  /\ HasOwnGrammar(n)
         /\ grammar[elemGrammar[n]] = IF elemGrammar[n] < StaticGrCount
                                      THEN SchemaGrammar(elemGrammar[n])
                                      ELSE ElementGrammar(n)
<1>1. CASE n \in made
  <2>1. /\ elemGrammar[n] \in StaticGrCount..count-1
        /\ grammar[elemGrammar[n]] = ElementGrammar(n)
        /\ n \notin GlobalElements
    BY <1>1 DEF StreamPart
  <2>2. QED
    BY <2>1, Bounds DEF TypeOK, HasOwnGrammar
<1>2. CASE n \notin made
  <2>1. n \in StaticNames
    BY <1>2 DEF StreamPart
  <2>2. elemGrammar[n] = StaticElemGrammar[n]
    BY <1>2, <2>1 DEF SchemaPart
  <2>3. /\ n \in GlobalElements
        /\ elemGrammar[n] = GlobalGrammar[n]
        /\ elemGrammar[n] \in 0..StaticGrCount-1
    BY <2>1, <2>2, StaticIndex
  <2>4. grammar[elemGrammar[n]] = SchemaGrammar(elemGrammar[n])
    BY <2>3 DEF SchemaPart
  <2>5. QED
    BY <2>3, <2>4, Bounds DEF TypeOK, HasOwnGrammar
<1>3. QED
  BY <1>1, <1>2

(* A name that an earlier stream has left behind never leads to a grammar   *)
(* of its own: behind the schema's are only those of this stream.           *)
LEMMA LeftBehind ==
  ASSUME TypeOK, StreamPart, NEW n \in left
  PROVE  ~HasOwnGrammar(n)
<1>1. /\ n \in StaticNames /\ n \notin GlobalElements /\ n \notin made
      /\ elemGrammar[n] >= StaticGrCount
  BY DEF StreamPart
<1>2. SUFFICES ASSUME elemGrammar[n] < count, grammar[elemGrammar[n]] = ElementGrammar(n)
               PROVE  FALSE
  BY <1>1 DEF HasOwnGrammar
<1>3. elemGrammar[n] \in StaticGrCount..count-1
  BY <1>1, <1>2, Bounds DEF TypeOK
<1>4. PICK m \in made : grammar[elemGrammar[n]] = ElementGrammar(m)
  BY <1>3 DEF StreamPart
<1>5. QED
  BY <1>1, <1>2, <1>4, Different

-----------------------------------------------------------------------------
(* The initial state.                                                       *)

(* A schema no stream has used yet satisfies the invariant.                 *)
LEMMA InitInv == Init => IInv
<1> SUFFICES ASSUME Init PROVE IInv
  OBVIOUS
<1>1. Names = StaticNames
  BY DEF Init, Names, StaticElemGrammar
<1>2. elemGrammar \in [Names -> Nat]
  <2>1. \A n \in StaticNames : StaticElemGrammar[n] \in Nat
    BY StaticIndex, Bounds
  <2>2. elemGrammar = [n \in StaticNames |-> StaticElemGrammar[n]]
    BY DEF Init, StaticElemGrammar
  <2>3. QED
    BY <1>1, <2>1, <2>2
<1>3. TypeOK
  <2>1. gStack \in Seq(Element)
    BY DEF Init
  <2>2. 0..count-1 \subseteq DOMAIN grammar
    BY Bounds DEF Init
  <2>3. QED
    BY <1>1, <1>2, <2>1, <2>2, Bounds DEF Init, TypeOK, AllNames
<1>4. SchemaPart
  BY DEF Init, SchemaPart
<1>5. StreamPart
  BY <1>1, Bounds DEF Init, StreamPart
<1>6. NothingElse /\ OpenElementsHaveGrammars
  BY DEF Init, NothingElse, OpenElementsHaveGrammars
<1>7. QED
  BY <1>3, <1>4, <1>5, <1>6 DEF IInv

-----------------------------------------------------------------------------
(* The steps.                                                               *)

(* The nodes of a stack stay good if each of them does.                     *)
LEMMA StackKept ==
  ASSUME \A i \in 1..Len(gStack') : gStack'[i] \in Element,
         \A node \in Element : (\E i \in 1..Len(gStack') : gStack'[i] = node) => Good(node)'
  PROVE  OpenElementsHaveGrammars'
<1> SUFFICES ASSUME NEW i \in 1..Len(gStack'), NEW node \in Element, node = gStack'[i]
             PROVE  /\ (count <= room => node.block = block)'
                    /\ node.currQName \notin left' =>
                         /\ node.index < count'
                         /\ grammar'[node.index] = IF node.index < StaticGrCount
                                                  THEN SchemaGrammar(node.index)
                                                  ELSE ElementGrammar(node.currQName)
  BY DEF OpenElementsHaveGrammars
<1>1. Good(node)'
  OBVIOUS
<1>2. QED
  BY <1>1 DEF Good

(* What an element that is opened adds to the stack: the nodes below it and *)
(* the new one have to be good.                                             *)
LEMMA Pushing ==
  ASSUME gStack \in Seq(Element), NEW node \in Element,
         gStack' = <<node>> \o gStack,
         \A e \in Element : Good(e) => Good(e)',
         OpenElementsHaveGrammars, Good(node)'
  PROVE  gStack' \in Seq(Element) /\ OpenElementsHaveGrammars'
<1> HIDE DEF Element
<1>1. /\ gStack' \in Seq(Element)
      /\ Len(gStack') = Len(gStack) + 1
      /\ gStack'[1] = node
      /\ \A i \in 2..Len(gStack') : i - 1 \in 1..Len(gStack) /\ gStack'[i] = gStack[i-1]
  OBVIOUS
<1>2. \A i \in 1..Len(gStack) : Good(gStack[i])
  BY DEF OpenElementsHaveGrammars, Good
<1>3. \A i \in 1..Len(gStack') : gStack'[i] \in Element
  BY <1>1
<1>4. ASSUME NEW e \in Element, NEW i \in 1..Len(gStack'), gStack'[i] = e
      PROVE  Good(e)'
  <2>1. CASE i = 1
    BY <1>1, <1>4, <2>1
  <2>2. CASE i # 1
    <3>1. i - 1 \in 1..Len(gStack) /\ e = gStack[i-1]
      BY <1>1, <1>4, <2>2
    <3>2. Good(e)
      BY <1>2, <3>1
    <3>3. QED
      BY <3>2
  <2>3. QED
    BY <2>1, <2>2
<1>5. QED
  BY <1>1, <1>3, <1>4, StackKept

(* An element whose grammar is there: only the stack changes.               *)
LEMMA PushStep ==
  ASSUME IInv, NEW i \in Nat, NEW n \in AllNames,
         open, UNCHANGED <<table, vxTables, open, history>>, push(i, n),
         n \notin left => i < count /\ grammar[i] = IF i < StaticGrCount
                                                    THEN SchemaGrammar(i)
                                                    ELSE ElementGrammar(n)
  PROVE  IInv'
<1>1. PICK node \in Element : node = Node(block, i, n)
  BY DEF Node, Element, IInv, TypeOK
<1>2. gStack' = <<node>> \o gStack
  BY <1>1 DEF push, table
<1>3. \A e \in Element : Good(e) => Good(e)'
  BY DEF Good, table, history
<1>4. Good(node)'
  BY <1>1 DEF Good, Node, table, history
<1>5. gStack' \in Seq(Element) /\ OpenElementsHaveGrammars'
  BY <1>1, <1>2, <1>3, <1>4, Pushing DEF IInv, TypeOK
<1>6. TypeOK'
  BY <1>5 DEF IInv, TypeOK, table, history, Names
<1>7. SchemaPart' /\ StreamPart'
  BY DEF IInv, SchemaPart, StreamPart, table, history, Names
<1>8. NothingElse'
  BY DEF NothingElse
<1>9. QED
  BY <1>5, <1>6, <1>7, <1>8 DEF IInv

(* A grammar that is made for a name: the entries before it, the indices of *)
(* the other names, and what is open stay as they are.  The table may move, *)
(* but only when this is one grammar more than the stream had room for.     *)
LEMMA CreateStep ==
  ASSUME IInv, NEW n \in AllNames, n \in Names => elemGrammar[n] = INDEX_MAX,
         createElementGrammar(n), open, UNCHANGED <<vxTables, open, left, room>>
  PROVE  IInv'
<1>1. /\ count \in Nat /\ StaticGrCount <= count /\ count < INDEX_MAX
      /\ count' = count + 1
  BY DEF IInv, TypeOK, createElementGrammar, addDynEntry
<1>2. /\ Names' = Names \cup {n} /\ n \in Names' /\ made' = made \cup {n}
      /\ elemGrammar' = [m \in Names' |-> IF m = n THEN count ELSE elemGrammar[m]]
      /\ elemGrammar'[n] = count
      /\ \A m \in Names : m # n => elemGrammar'[m] = elemGrammar[m]
  BY DEF createElementGrammar, Names
<1>3. /\ DOMAIN grammar' = DOMAIN grammar \cup {count}
      /\ grammar'[count] = ElementGrammar(n)
      /\ \A i \in 0..count-1 : grammar'[i] = grammar[i]
  BY <1>1 DEF IInv, TypeOK, createElementGrammar, addDynEntry
<1>4. /\ arrayEntries' \in Nat /\ room' = room /\ room' <= arrayEntries'
      /\ block' \in Nat
      /\ count' <= room => block' = block
  BY Bounds, <1>1 DEF IInv, TypeOK, createElementGrammar, addDynEntry
<1>5. n \notin made /\ n \notin left /\ n \notin GlobalElements
  <2>1. n \notin made
    <3> SUFFICES ASSUME n \in made PROVE FALSE
      OBVIOUS
    <3>1. n \in Names /\ elemGrammar[n] \in StaticGrCount..count-1
      BY DEF IInv, StreamPart
    <3>2. QED
      BY <1>1, <3>1, Bounds
  <2>2. n \notin left
    BY Bounds DEF IInv, TypeOK, StreamPart
  <2>3. n \notin GlobalElements
    <3> SUFFICES ASSUME n \in GlobalElements PROVE FALSE
      OBVIOUS
    <3>1. n \in StaticNames /\ n \in Names
      BY Bounds DEF IInv, TypeOK
    <3>2. elemGrammar[n] = StaticElemGrammar[n]
      BY <2>1, <2>2, <3>1 DEF IInv, SchemaPart
    <3>3. QED
      BY <3>1, <3>2, StaticIndex
  <2>4. QED
    BY <2>1, <2>2, <2>3
<1>6. gStack' \in Seq(Element) /\ OpenElementsHaveGrammars'
  <2>1. PICK node \in Element : node = Node(block', count, n)
    BY <1>1, <1>4 DEF Node, Element
  <2>2. gStack' = <<node>> \o gStack
    BY <2>1 DEF createElementGrammar, push
  <2>3. ASSUME NEW e \in Element, Good(e) PROVE Good(e)'
    <3>1. count' <= room' => e.block = block'
      <4>1. count' <= room => count <= room
        BY <1>1 DEF IInv, TypeOK
      <4>2. QED
        BY <1>4, <2>3, <4>1 DEF Good
    <3>2. ASSUME e.currQName \notin left
          PROVE  /\ e.index < count'
                 /\ grammar'[e.index] = IF e.index < StaticGrCount
                                        THEN SchemaGrammar(e.index)
                                        ELSE ElementGrammar(e.currQName)
      <4>1. e.index \in Nat /\ e.index < count
        BY <2>3, <3>2 DEF Good, Element
      <4>2. grammar'[e.index] = grammar[e.index]
        BY <1>1, <1>3, <4>1
      <4>3. QED
        BY <1>1, <2>3, <3>2, <4>1, <4>2 DEF Good
    <3>3. QED
      BY <3>1, <3>2 DEF Good
  <2>4. Good(node)'
    BY <1>1, <1>3, <2>1, Bounds DEF Good, Node
  <2>5. QED
    BY <2>1, <2>2, <2>3, <2>4, Pushing DEF IInv, TypeOK
<1>7. TypeOK'
  <2>1. elemGrammar' \in [Names' -> Nat]
    BY <1>1, <1>2 DEF IInv, TypeOK
  <2>2. 0..count'-1 \subseteq DOMAIN grammar'
    BY <1>1, <1>3 DEF IInv, TypeOK
  <2>3. StaticNames \subseteq Names' /\ Names' \subseteq AllNames
    BY <1>2 DEF IInv, TypeOK
  <2>4. count' \in Nat /\ StaticGrCount <= count' /\ count' <= INDEX_MAX
    BY <1>1, Bounds
  <2>5. QED
    BY <1>4, <1>6, <2>1, <2>2, <2>3, <2>4 DEF IInv, TypeOK
<1>8. SchemaPart'
  <2>1. \A m \in StaticNames \ (made' \cup left') : elemGrammar'[m] = StaticElemGrammar[m]
    BY <1>2 DEF IInv, TypeOK, SchemaPart
  <2>2. \A i \in 0..StaticGrCount-1 : grammar'[i] = SchemaGrammar(i)
    BY <1>1, <1>3, Bounds DEF IInv, SchemaPart
  <2>3. QED
    BY <2>1, <2>2 DEF SchemaPart
<1>9. StreamPart'
  <2>1. made' \subseteq Names' \ (GlobalElements \cup left')
    BY <1>2, <1>5 DEF IInv, StreamPart
  <2>2. Names' \ StaticNames \subseteq made'
    BY <1>2 DEF IInv, StreamPart
  <2>3. ASSUME NEW m \in made'
        PROVE  /\ elemGrammar'[m] \in StaticGrCount..count'-1
               /\ grammar'[elemGrammar'[m]] = ElementGrammar(m)
    <3>1. CASE m = n
      BY <1>1, <1>2, <1>3, <3>1, Bounds
    <3>2. CASE m # n
      <4>1. m \in made /\ m \in Names /\ elemGrammar'[m] = elemGrammar[m]
        BY <1>2, <3>2 DEF IInv, StreamPart
      <4>2. /\ elemGrammar[m] \in StaticGrCount..count-1
            /\ grammar[elemGrammar[m]] = ElementGrammar(m)
        BY <4>1 DEF IInv, StreamPart
      <4>3. elemGrammar[m] \in 0..count-1 /\ elemGrammar[m] \in StaticGrCount..count'-1
        BY <1>1, <4>2, Bounds
      <4>4. QED
        BY <1>3, <4>1, <4>2, <4>3
    <3>3. QED
      BY <3>1, <3>2
  <2>4. \A m \in left' : elemGrammar'[m] >= StaticGrCount /\ elemGrammar'[m] < INDEX_MAX
    BY <1>2, <1>5 DEF IInv, TypeOK, StreamPart
  <2>5. ASSUME NEW i \in StaticGrCount..count'-1
        PROVE  \E m \in made' : grammar'[i] = ElementGrammar(m)
    <3>1. CASE i = count
      BY <1>2, <1>3, <3>1
    <3>2. CASE i # count
      <4>1. i \in StaticGrCount..count-1 /\ i \in 0..count-1
        BY <1>1, <3>2, Bounds
      <4>2. PICK m \in made : grammar[i] = ElementGrammar(m)
        BY <4>1 DEF IInv, StreamPart
      <4>3. QED
        BY <1>2, <1>3, <4>1, <4>2
    <3>3. QED
      BY <3>1, <3>2
  <2>6. QED
    BY <2>1, <2>2, <2>3, <2>4, <2>5 DEF IInv, StreamPart
<1>10. NothingElse'
  BY DEF NothingElse
<1>11. QED
  BY <1>6, <1>7, <1>8, <1>9, <1>10 DEF IInv

(* The element on top is closed: the others stay as they are.               *)
LEMMA EndStep ==
  ASSUME IInv, endElement
  PROVE  IInv'
<1> HIDE DEF Element
<1>1. /\ gStack \in Seq(Element) /\ gStack # <<>> /\ gStack' = Tail(gStack)
      /\ UNCHANGED <<table, vxTables, open, history>> /\ open
  BY DEF endElement, IInv, TypeOK
<1>2. /\ gStack' \in Seq(Element)
      /\ \A i \in 1..Len(gStack') : /\ i + 1 \in 1..Len(gStack)
                                    /\ gStack'[i] = gStack[i+1]
                                    /\ gStack'[i] \in Element
  BY <1>1
<1>3. \A i \in 1..Len(gStack) : Good(gStack[i])
  BY DEF IInv, OpenElementsHaveGrammars, Good
<1>4. ASSUME NEW e \in Element, NEW i \in 1..Len(gStack'), gStack'[i] = e
      PROVE  Good(e)'
  <2>1. Good(e)
    BY <1>2, <1>3, <1>4
  <2>2. QED
    BY <1>1, <2>1 DEF Good, table, history
<1>5. OpenElementsHaveGrammars'
  BY <1>2, <1>4, StackKept
<1>6. TypeOK'
  BY <1>1, <1>2 DEF IInv, TypeOK, table, history, Names
<1>7. SchemaPart' /\ StreamPart' /\ NothingElse'
  BY <1>1 DEF IInv, SchemaPart, StreamPart, NothingElse, table, history, Names
<1>8. QED
  BY <1>5, <1>6, <1>7 DEF IInv

(* Closing a stream takes out its grammars and its names.  The names of the *)
(* schema it has made a grammar for join those that were left behind.       *)
LEMMA CloseStep ==
  ASSUME IInv, closeEXIStream
  PROVE  IInv'
<1>1. /\ count \in Nat /\ StaticGrCount <= count /\ count' = StaticGrCount
      /\ UNCHANGED <<arrayEntries, block, room>>
      /\ gStack' = <<>> /\ vxTables' = {} /\ made' = {}
      /\ left' = left \cup (made \intersect StaticNames)
  BY DEF IInv, TypeOK, closeEXIStream, freeAllMem
<1>2. /\ Names' = StaticNames
      /\ elemGrammar' = [n \in StaticNames |-> elemGrammar[n]]
  <2>1. Names \intersect StaticNames = StaticNames
    BY DEF IInv, TypeOK
  <2>2. QED
    BY <2>1 DEF closeEXIStream, freeAllMem, Names
<1>3. /\ DOMAIN grammar' = DOMAIN grammar
      /\ \A i \in 0..StaticGrCount-1 : grammar'[i] = grammar[i]
  BY <1>1, Bounds DEF IInv, TypeOK, closeEXIStream, freeAllMem
<1>4. TypeOK'
  <2>1. elemGrammar' \in [Names' -> Nat]
    BY <1>2 DEF IInv, TypeOK
  <2>2. 0..count'-1 \subseteq DOMAIN grammar'
    BY <1>1, <1>3, Bounds DEF IInv, TypeOK
  <2>3. gStack' \in Seq(Element)
    BY <1>1
  <2>4. StaticNames \subseteq Names' /\ Names' \subseteq AllNames
    BY <1>2 DEF AllNames
  <2>5. QED
    BY <1>1, <2>1, <2>2, <2>3, <2>4, Bounds DEF IInv, TypeOK
<1>5. SchemaPart'
  <2>1. \A n \in StaticNames \ (made' \cup left') : elemGrammar'[n] = StaticElemGrammar[n]
    BY <1>1, <1>2 DEF IInv, SchemaPart
  <2>2. QED
    BY <1>3, <2>1 DEF IInv, SchemaPart
<1>6. StreamPart'
  <2>1. left' \subseteq StaticNames \ GlobalElements
    BY <1>1 DEF IInv, StreamPart
  <2>2. ASSUME NEW n \in left'
        PROVE  elemGrammar'[n] >= StaticGrCount /\ elemGrammar'[n] < INDEX_MAX
    <3>1. elemGrammar'[n] = elemGrammar[n]
      BY <1>2, <2>1
    <3>2. CASE n \in left
      BY <3>1, <3>2 DEF IInv, StreamPart
    <3>3. CASE n \in made
      <4>1. elemGrammar[n] \in StaticGrCount..count-1
        BY <3>3 DEF IInv, StreamPart
      <4>2. QED
        BY <3>1, <4>1, Bounds DEF IInv, TypeOK
    <3>4. QED
      BY <1>1, <3>2, <3>3
  <2>3. \A i \in StaticGrCount..count'-1 : FALSE
    BY <1>1, Bounds
  <2>4. QED
    BY <1>1, <1>2, <2>1, <2>2, <2>3 DEF StreamPart
<1>7. NothingElse' /\ OpenElementsHaveGrammars'
  BY <1>1 DEF NothingElse, OpenElementsHaveGrammars
<1>8. QED
  BY <1>4, <1>5, <1>6, <1>7 DEF IInv

(* Every step of a stream preserves the invariant.                          *)
LEMMA NextInv == IInv /\ [Next]_vars => IInv'
<1> SUFFICES ASSUME IInv, [Next]_vars PROVE IInv'
  OBVIOUS
<1>1. ASSUME initStream PROVE IInv'
  <2>1. /\ ~open /\ room' = arrayEntries
        /\ UNCHANGED <<table, gStack, vxTables, made, left>>
    BY <1>1 DEF initStream
  <2>2. TypeOK' /\ SchemaPart' /\ StreamPart' /\ NothingElse'
    BY <1>1, <2>1
       DEF IInv, TypeOK, SchemaPart, StreamPart, NothingElse, table, Names, initStream
  <2>3. OpenElementsHaveGrammars'
    BY <2>1 DEF IInv, NothingElse, OpenElementsHaveGrammars
  <2>4. QED
    BY <2>2, <2>3 DEF IInv
<1>2. ASSUME NEW n \in StaticNames \cup NewNames, startElement(n) PROVE IInv'
  <2>1. n \in AllNames /\ open /\ UNCHANGED <<vxTables, open, left, room>>
    BY <1>2 DEF startElement, AllNames
  <2>2. CASE /\ n \in Names /\ elemGrammar[n] # INDEX_MAX
             /\ UNCHANGED <<table, made>> /\ push(elemGrammar[n], n)
    <3>1. UNCHANGED <<table, vxTables, open, history>>
      BY <2>1, <2>2 DEF history
    <3>2. elemGrammar[n] \in Nat
      BY <2>2 DEF IInv, TypeOK
    <3>3. n \notin left =>
            /\ elemGrammar[n] < count
            /\ grammar[elemGrammar[n]] = IF elemGrammar[n] < StaticGrCount
                                         THEN SchemaGrammar(elemGrammar[n])
                                         ELSE ElementGrammar(n)
      BY <2>2, OwnGrammar DEF IInv, HasOwnGrammar
    <3>4. QED
      BY <2>1, <2>2, <3>1, <3>2, <3>3, PushStep
  <2>3. CASE (n \in Names => elemGrammar[n] = INDEX_MAX) /\ createElementGrammar(n)
    BY <2>1, <2>3, CreateStep
  <2>4. QED
    BY <1>2, <2>2, <2>3 DEF startElement
<1>3. ASSUME NEW d \in Declared, startDeclaredElement(d[1], d[2]) PROVE IInv'
  <2>1. d[1] \in AllNames /\ d[2] \in 0..StaticGrCount-1
    BY SharedSchemaAssumption DEF AllNames
  <2>2. d[2] \in Nat /\ d[2] < count /\ d[2] < StaticGrCount
    BY <2>1, Bounds DEF IInv, TypeOK
  <2>3. grammar[d[2]] = SchemaGrammar(d[2])
    BY <2>1 DEF IInv, SchemaPart
  <2>4. open /\ UNCHANGED <<table, vxTables, open, history>> /\ push(d[2], d[1])
    BY <1>3 DEF startDeclaredElement
  <2>5. QED
    BY <2>1, <2>2, <2>3, <2>4, PushStep
<1>4. ASSUME addValueEntry PROVE IInv'
  <2>1. open /\ UNCHANGED <<table, gStack, open, history>>
    BY <1>4 DEF addValueEntry
  <2>2. QED
    BY <2>1 DEF IInv, TypeOK, SchemaPart, StreamPart, NothingElse, OpenElementsHaveGrammars,
                table, history, Names
<1>5. ASSUME endElement PROVE IInv'
  BY <1>5, EndStep
<1>6. ASSUME closeEXIStream PROVE IInv'
  BY <1>6, CloseStep
<1>7. ASSUME UNCHANGED vars PROVE IInv'
  BY <1>7 DEF IInv, TypeOK, SchemaPart, StreamPart, NothingElse, OpenElementsHaveGrammars,
              vars, table, history, Names
<1>8. QED
  BY <1>1, <1>2, <1>3, <1>4, <1>5, <1>6, <1>7 DEF Next

(* The invariant holds for every stream that uses the schema.               *)
LEMMA InvHolds == Spec => []IInv
<1>1. Init => IInv
  BY InitInv
<1>2. IInv /\ [Next]_vars => IInv'
  BY NextInv
<1>3. QED
  BY <1>1, <1>2, PTL DEF Spec

-----------------------------------------------------------------------------
(* In every schema, through any number of streams and also when grammarTable*)
(* grows: the index of a name leads to its own grammar, exactly but for the *)
(* local names of the schema that freeAllMem has left with the index of a   *)
(* grammar it has freed.                                                    *)
THEOREM ElemGrammarsStayValid == Spec => []ElemGrammarValid
<1>1. IInv => ElemGrammarValid
  BY OwnGrammar, LeftBehind DEF IInv, ElemGrammarValid
<1>2. QED
  BY <1>1, InvHolds, PTL

(* In every schema freeAllMem at the end of each stream leaves the grammars *)
(* of the schema, its names and cross tables and the index of its global    *)
(* elements as the first stream has found them, and nothing of its own but  *)
(* the indices that ElemGrammarsStayValid names.                            *)
THEOREM StreamsRestoreTheSchema == Spec => []SchemaRestored
<1>1. IInv => SchemaRestored
  <2> SUFFICES ASSUME IInv, ~open PROVE SchemaRestored
    BY DEF SchemaRestored
  <2>1. made = {} /\ count = StaticGrCount /\ vxTables = {}
    BY DEF IInv, NothingElse
  <2>2. Names = StaticNames
    BY <2>1 DEF IInv, TypeOK, StreamPart
  <2>3. QED
    BY <2>1, <2>2 DEF IInv, SchemaPart, StreamPart, SchemaRestored
<1>2. QED
  BY <1>1, InvHolds, PTL

(* In every schema each open element is processed by the grammar that was   *)
(* pushed for it until the stream has more grammars than grammarTable had   *)
(* room for when it began, and by its index still has it afterwards.        *)
THEOREM OpenElementsKeepTheirGrammars == Spec => []OpenElementsHaveGrammars
<1>1. IInv => OpenElementsHaveGrammars
  BY DEF IInv
<1>2. QED
  BY <1>1, InvHolds, PTL
=============================================================================
