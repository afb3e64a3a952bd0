--------------------------- MODULE MCBodyCodec ----------------------------
(* Documents of at most MaxEvents elements, attributes, characters and      *)
(* declarations over two element names (one of which is also an attribute   *)
(* name, and one in a namespace that the tables do not know at first); the  *)
(* open elements can always be closed.                                      *)
EXTENDS BodyCodec

CONSTANT MaxEvents

VARIABLE events   \* elements, attributes, characters and declarations so far

Name(uri, ln, pfx) == [uri |-> uri, ln |-> ln, pfx |-> pfx]

MCElemNames == {Name("urn", "a", "p"), Name("urn", "a", "q"), Name("", "b", "")}
MCAttrNames == {Name("", "b", ""), Name("xsi", "type", "xsi")}
MCTypeNames == {Name("urn", "t", "p")}
MCNamespaces == {[uri |-> "urn", pfx |-> "p"], [uri |-> "urn", pfx |-> "r"]}
MCValues == {"v"}
MCOptionSets == {{}, {"prefixes", "comments", "pis"}, {"selfContained", "dtd"}}

Grow == 
  \/ \E q \in ElemNames : startElement(q)
  \/ \E q \in AttrNames : attribute(q)
  \/ \E v \in Values : stringData(v)
  \/ \E ns \in Namespaces, isLocal \in BOOLEAN : namespaceDeclaration(ns, isLocal)

Finish ==
  \/ \E v \in Values : attributeData(v)
  \/ \E q \in TypeNames : qnameData(q)
  \/ endElement
  \/ endDocument
  \/ parseNext

MCNext == \/ events < MaxEvents /\ Grow /\ events' = events + 1
          \/ Finish /\ UNCHANGED events

MCInit == Init /\ events = 0

MCSpec == MCInit /\ [][MCNext]_<<vars, events>> /\ ParserFairness
=============================================================================
