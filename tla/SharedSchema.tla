--------------------------- MODULE SharedSchema ---------------------------
(***************************************************************************)
(* One EXIPSchema used by one EXI stream after the other ("can be used to  *)
(* process multiple EXI streams", doc/user/Schema-information.tex).  A     *)
(* stream adds names and built-in element grammars to the tables of the    *)
(* schema while it runs; closeEXIStream and destroyParser end in           *)
(* freeAllMem (src/common/src/memManagement.c), which is to take them out. *)
(*                                                                         *)
(* The stack of open elements holds pointers into grammarTable, an array   *)
(* that is reallocated when it grows (src/common/src/dynamicArray.c).  A   *)
(* pointer is the block of memory it points into and an index.             *)
(*                                                                         *)
(* The code does not take all of it out again, and does not look after the *)
(* pointers.  Where a freed grammar or a block that was given back is then *)
(* read, anything may happen; the model goes on with the effects of the    *)
(* code on the tables, as if the memory still held what it did.            *)
(***************************************************************************)
EXTENDS Integers, Sequences, FiniteSets

CONSTANTS StaticNames,     \* the names in the string tables of the schema
          GlobalElements,  \* those of them that are global elements
          NewNames,        \* the names that streams add
          StaticGrCount,   \* the grammars of the schema
          GlobalGrammar,   \* the grammar of the type of each global element
          Declared,        \* the SE(qname) productions of the schema's grammars
          ArrayEntries,    \* the entries allocated for grammarTable
          ChunkEntries,    \* the entries added when it is full
          INDEX_MAX,       \* no grammar
          MaxDepth         \* bound: open elements

(* Elements of the same type share a grammar.  Most names of a schema are   *)
(* not global elements: local elements, attributes, types, and the names    *)
(* that are in every string table.                                          *)
ASSUME SharedSchemaAssumption ==
  /\ GlobalElements \subseteq StaticNames
  /\ StaticNames \intersect NewNames = {}
  /\ StaticGrCount \in Nat
  /\ GlobalGrammar \in [GlobalElements -> 0..StaticGrCount-1]
  /\ Declared \subseteq StaticNames \X (0..StaticGrCount-1)
  /\ ArrayEntries \in Nat /\ ChunkEntries \in Nat \ {0}
  /\ StaticGrCount <= ArrayEntries
  /\ INDEX_MAX \in Nat /\ ArrayEntries <= INDEX_MAX

VARIABLES elemGrammar,   \* elemGrammar[n]: LnEntry.elemGrammar of name n
          grammar,       \* the entries of grammarTable, in use or not
          count,         \* grammarTable.count
          arrayEntries,  \* grammarTable.dynArray.arrayEntries
          block,         \* the memory block grammarTable.grammar points to
          gStack,        \* the open elements
          vxTables,      \* the names whose vxTable is not NULL
          open           \* whether a stream uses the schema

(* History of the schema, on which nothing in the model depends.            *)
VARIABLES made,          \* the names this stream has made a grammar for
          left,          \* those names of the schema an earlier one has
          room           \* arrayEntries when this stream began

table == <<elemGrammar, grammar, count, arrayEntries, block>>
history == <<made, left, room>>
vars == <<table, gStack, vxTables, open, history>>

Names == DOMAIN elemGrammar

(* A grammar of the schema, and the one made for an element; freeAllMem     *)
(* frees the rules of the latter.                                           *)
SchemaGrammar(i) == [of |-> i, builtIn |-> FALSE, freed |-> FALSE]
ElementGrammar(n) == [of |-> n, builtIn |-> TRUE, freed |-> FALSE]
Node(b, i, n) == [block |-> b, index |-> i, currQName |-> n]

StaticElemGrammar ==
  [n \in StaticNames |-> IF n \in GlobalElements THEN GlobalGrammar[n] ELSE INDEX_MAX]

Init ==
  /\ elemGrammar = StaticElemGrammar
  /\ grammar = [i \in 0..StaticGrCount-1 |-> SchemaGrammar(i)]
  /\ count = StaticGrCount
  /\ arrayEntries = ArrayEntries
  /\ block = 0
  /\ gStack = <<>> /\ vxTables = {} /\ open = FALSE
  /\ made = {} /\ left = {} /\ room = ArrayEntries

initStream ==
  /\ ~open
  /\ open' = TRUE
  /\ room' = arrayEntries
  /\ UNCHANGED <<table, gStack, vxTables, made, left>>

push(i, n) == gStack' = <<Node(block', i, n)>> \o gStack

(* addDynEntry.  Growing may or may not move the array; one with INDEX_MAX  *)
(* entries cannot be allocated.                                             *)
addDynEntry(g) ==
  /\ count < INDEX_MAX
  /\ IF arrayEntries = count
     THEN /\ arrayEntries' = arrayEntries + ChunkEntries
          /\ block' \in {block, block + 1}
     ELSE UNCHANGED <<arrayEntries, block>>
  /\ grammar' = [i \in DOMAIN grammar \cup {count} |-> IF i = count THEN g ELSE grammar[i]]
  /\ count' = count + 1

(* Mutant of createElementGrammar: the entry behind the new one is recorded.*)
createElementGrammarOffByOne(n) ==
  /\ addDynEntry(ElementGrammar(n))
  /\ elemGrammar' = [m \in Names \cup {n} |-> IF m = n THEN count + 1 ELSE elemGrammar[m]]
  /\ push(count, n)
  /\ made' = made \cup {n}

(* encodeQName or decodeQName has added the name, unless it was there; a    *)
(* built-in grammar is created, recorded and pushed.                        *)
createElementGrammar(n) ==
  /\ addDynEntry(ElementGrammar(n))
  /\ elemGrammar' = [m \in Names \cup {n} |-> IF m = n THEN count ELSE elemGrammar[m]]
  /\ push(count, n)
  /\ made' = made \cup {n}

(* SE( * ), or SE(n) in a built-in grammar: the name leads to the grammar.  *)
startElement(n) ==
  /\ open /\ Len(gStack) < MaxDepth
  /\ \/ /\ n \in Names /\ elemGrammar[n] # INDEX_MAX
        /\ UNCHANGED <<table, made>>
        /\ push(elemGrammar[n], n)
     \/ /\ n \in Names => elemGrammar[n] = INDEX_MAX
        /\ createElementGrammar(n)
  /\ UNCHANGED <<vxTables, open, left, room>>

(* SE(n) in a grammar of the schema, which below all elements is that of    *)
(* the document: the production leads to the grammar.                       *)
startDeclaredElement(n, typeId) ==
  /\ open /\ Len(gStack) < MaxDepth
  /\ gStack # <<>> => Head(gStack).index < StaticGrCount
  /\ UNCHANGED <<table, vxTables, open, history>>
  /\ push(typeId, n)

(* A value of the element on top is stored (addValueEntry).                 *)
addValueEntry ==
  /\ open /\ gStack # <<>>
  /\ vxTables' = vxTables \cup {Head(gStack).currQName}
  /\ UNCHANGED <<table, gStack, open, history>>

endElement ==
  /\ open /\ gStack # <<>>
  /\ gStack' = Tail(gStack)
  /\ UNCHANGED <<table, vxTables, open, history>>

(* Mutant of freeAllMem: the cross tables are left to the next stream.      *)
freeAllMemKeepsVx ==
  /\ grammar' = [i \in DOMAIN grammar |->
                   IF i \in StaticGrCount..count-1 THEN [grammar[i] EXCEPT !.freed = TRUE]
                                                   ELSE grammar[i]]
  /\ count' = StaticGrCount
  /\ UNCHANGED vxTables
  /\ elemGrammar' = [n \in Names \intersect StaticNames |-> elemGrammar[n]]
  /\ UNCHANGED <<arrayEntries, block>>

(* freeAllMem frees the rules of the built-in grammars and the cross        *)
(* tables, and forgets the names the stream has added.  LnEntry.elemGrammar *)
(* of the names that stay is not touched.                                   *)
freeAllMem ==
  /\ grammar' = [i \in DOMAIN grammar |->
                   IF i \in StaticGrCount..count-1 THEN [grammar[i] EXCEPT !.freed = TRUE]
                                                   ELSE grammar[i]]
  /\ count' = StaticGrCount
  /\ vxTables' = {}
  /\ elemGrammar' = [n \in Names \intersect StaticNames |-> elemGrammar[n]]
  /\ UNCHANGED <<arrayEntries, block>>

(* Mutant of closeEXIStream: the grammars stay on the stack.                *)
closeEXIStreamKeepsStack ==
  /\ open
  /\ open' = FALSE
  /\ UNCHANGED gStack
  /\ freeAllMem
  /\ left' = left \cup (made \intersect StaticNames)
  /\ made' = {} /\ UNCHANGED room

(* The stream is closed when it is complete or at any time after an error.  *)
closeEXIStream ==
  /\ open
  /\ open' = FALSE
  /\ gStack' = <<>>
  /\ freeAllMem
  /\ left' = left \cup (made \intersect StaticNames)
  /\ made' = {} /\ UNCHANGED room

Next ==
  \/ initStream
  \/ \E n \in StaticNames \cup NewNames : startElement(n)
  \/ \E d \in Declared : startDeclaredElement(d[1], d[2])
  \/ addValueEntry
  \/ endElement
  \/ closeEXIStream

Spec == Init /\ [][Next]_vars

-----------------------------------------------------------------------------
(* Properties.                                                              *)

(* The grammar that the name n leads to is its own: that of the schema for  *)
(* a global element, for any other name the built-in one of this stream,    *)
(* neither freed nor made for another name.                                 *)
HasOwnGrammar(n) ==
  /\ elemGrammar[n] < count
  /\ grammar[elemGrammar[n]] = IF n \in GlobalElements THEN SchemaGrammar(GlobalGrammar[n])
                                                       ELSE ElementGrammar(n)

(* "Either Index of a global element grammar in the SchemaGrammarTable OR   *)
(* INDEX_MAX if a global element grammar with that qname does not exist",   *)
(* says the comment on elemGrammar, which the built-in grammars share.  The *)
(* index is right for all names but those of the schema which are no global *)
(* elements and for which an earlier stream has made a grammar: their index *)
(* stays behind and never leads to a grammar of theirs again.               *)
ElemGrammarValid ==
  \A n \in Names : elemGrammar[n] # INDEX_MAX => (HasOwnGrammar(n) <=> n \notin left)

(* An open element is processed by the grammar that was pushed for it, not  *)
(* by what has become of the memory it was in, as long as the stream has    *)
(* never had more grammars than there was room for when it began.  The      *)
(* index stays right even then.                                             *)
OpenElementsHaveGrammars ==
  \A i \in 1..Len(gStack) :
    LET node == gStack[i]
    IN /\ count <= room => node.block = block
       /\ node.currQName \notin left =>
            /\ node.index < count
            /\ grammar[node.index] = IF node.index < StaticGrCount
                                     THEN SchemaGrammar(node.index)
                                     ELSE ElementGrammar(node.currQName)

(* Streams leave nothing else behind: the next one finds names, cross       *)
(* tables and the grammars of the schema as the first one did, and of the   *)
(* names every global element, and every other but those of ElemGrammarValid*)
(* with the index it had.                                                   *)
SchemaRestored ==
  ~open => /\ Names = StaticNames
           /\ \A n \in StaticNames \ left : elemGrammar[n] = StaticElemGrammar[n]
           /\ left \intersect GlobalElements = {}
           /\ count = StaticGrCount
           /\ \A i \in 0..count-1 : grammar[i] = SchemaGrammar(i)
           /\ vxTables = {}
=============================================================================
