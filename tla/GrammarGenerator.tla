-------------------------- MODULE GrammarGenerator --------------------------
(***************************************************************************)
(* generateSchemaInformedGrammars of grammarGenerator.c: the tree tables   *)
(* of all documents are built first; then the references between documents *)
(* are checked, the string tables sorted, the literals of every global     *)
(* definition resolved, and the definitions converted to grammars, each in *)
(* the order of the documents.                                             *)
(***************************************************************************)
EXTENDS SchemaToGrammars

CONSTANT Schemas      \* the schemas to generate from: sequences of documents

VARIABLES
  phase,        \* where generateSchemaInformedGrammars is
  todo,         \* the global entries the current phase has still to visit
  ctx,          \* the build context of the conversion, with the schema
  docGrammar    \* the content rule of the document grammar

vars == <<treeVars, phase, todo, ctx, docGrammar>>

noContext == InitContext(createUriTableEntries, generateBuiltInTypesGrammars, builtInSimpleTypes)

Init ==
  /\ buffers \in Schemas
  /\ events = <<>>
  /\ ttpd = initTtpd
  /\ files = <<>>
  /\ entries = <<>>
  /\ uriTable = createUriTableEntries
  /\ subsTbl = <<>>
  /\ err = "OK"
  /\ phase = "build"
  /\ todo = <<>>
  /\ ctx = noContext
  /\ docGrammar = <<>>

globalEntries == FlattenSeq([f \in DOMAIN files |-> files[f].tree])

build ==
  /\ phase = "build"
  /\ BuildNext
  /\ UNCHANGED <<phase, todo, ctx, docGrammar>>

references ==
  /\ phase = "build" /\ err = "OK" /\ events = <<>> /\ Len(files) = Len(buffers)
  /\ resolveIncludeImportReferences
  /\ phase' = "sort"
  /\ UNCHANGED <<buffers, events, ttpd, files, entries, uriTable, subsTbl, todo, ctx, docGrammar>>

sort ==
  /\ phase = "sort" /\ err = "OK"
  /\ sortStringTables
  /\ phase' = "resolve"
  /\ todo' = globalEntries
  /\ UNCHANGED <<buffers, events, ttpd, entries, subsTbl, ctx, docGrammar>>

resolve ==
  /\ phase = "resolve" /\ err = "OK" /\ todo # <<>>
  /\ resolveTypeHierarchy(Head(todo))
  /\ todo' = Tail(todo)
  /\ UNCHANGED <<buffers, events, ttpd, files, uriTable, phase, ctx, docGrammar>>

startConversion ==
  /\ phase = "resolve" /\ err = "OK" /\ todo = <<>>
  /\ phase' = "convert"
  /\ todo' = globalEntries
  /\ ctx' = [noContext EXCEPT !.uriTable = uriTable]
  /\ UNCHANGED <<treeVars, docGrammar>>

(* ctx.val keeps nothing from one definition to the next one.               *)
convert ==
  /\ phase = "convert" /\ err = "OK" /\ todo # <<>>
  /\ ctx' = Return(handleGlobalEntry(ctx, Head(todo)), 0)
  /\ uriTable' = ctx'.uriTable
  /\ err' = ctx'.err
  /\ todo' = Tail(todo)
  /\ UNCHANGED <<buffers, events, ttpd, files, entries, subsTbl, phase, docGrammar>>

finish ==
  /\ phase = "convert" /\ err = "OK" /\ todo = <<>>
  /\ LET elems == sortGlobalElemQnameTable(ctx.elems)
     IN /\ ctx' = [ctx EXCEPT !.elems = elems, !.enums = sortEnumTable(@)]
        /\ docGrammar' = createDocGrammar(ctx, elems)
  /\ phase' = "done"
  /\ UNCHANGED <<treeVars, todo>>

Next ==
  \/ build \/ references \/ sort \/ resolve \/ startConversion \/ convert \/ finish

Spec == Init /\ [][Next]_vars /\ WF_vars(Next)
=============================================================================
