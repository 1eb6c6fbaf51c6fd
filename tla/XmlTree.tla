------------------------------ MODULE XmlTree ------------------------------
(***************************************************************************)
(* The trees of RocketConfigXmlParser.  A document is the sequence of its  *)
(* top nodes; parseGeneric keeps the root element of it, and an element    *)
(* written and read again is the same but for what it held in "value",     *)
(* which serializeGeneric does not look at.                                *)
(***************************************************************************)
EXTENDS Naturals, Sequences, SequencesExt

CONSTANT None

Node(type, name, value, children) ==
  [type |-> type, name |-> name, attrs |-> {}, value |-> value, children |-> children]

Element(name, children) == Node("element", name, None, children)
Text(value)    == Node("text", None, value, <<>>)
Comment(value) == Node("comment", None, value, <<>>)
Cdata(value)   == Node("cdata", None, value, <<>>)
Declaration    == Text("<?xml?>")

(* An element that was given its text as "value".                          *)
Leaf(name, value)        == Node("element", name, value, <<>>)
TextElement(name, value) == Element(name, <<Text(value)>>)

IsElement(n) == n.type = "element"
Named(n, name) == IsElement(n) /\ n.name = name

(* wrapRoot: one element is the root and the rest is dropped; none, or     *)
(* several, are wrapped with everything around them.                       *)
WrapRoot(nodes) ==
  LET elements == SelectSeq(nodes, IsElement)
  IN IF Len(elements) = 1 THEN elements[1] ELSE Element("root", nodes)

(* serializeGeneric, and what parseGeneric makes of its text.              *)
RECURSIVE Written(_)
Written(n) ==
  IF IsElement(n)
  THEN [n EXCEPT !.value = None, !.children = [i \in DOMAIN n.children |-> Written(n.children[i])]]
  ELSE n

(* findElement, elementText.                                               *)
ElementsOf(n, name) == SelectSeq(n.children, LAMBDA c : Named(c, name))
Has(n, name)        == ElementsOf(n, name) # <<>>
Find(n, name)       == ElementsOf(n, name)[1]

CollectText(n) ==
  LET texts == SelectSeq(n.children, LAMBDA c : c.type \in {"text", "cdata"})
  IN IF texts = <<>> THEN "" ELSE texts[1].value

ElementText(n, path, fallback) ==
  CASE ~Has(n, path[1])                           -> fallback
    [] Len(path) = 1                              -> CollectText(Find(n, path[1]))
    [] ~Has(Find(n, path[1]), path[2])            -> fallback
    [] OTHER -> CollectText(Find(Find(n, path[1]), path[2]))

(* setElementText: the first element of that name gets the text instead of *)
(* its children, or a new one is put behind the others.                    *)
Replace(n, name, element) ==
  IF Has(n, name)
  THEN LET i == SelectInSeq(n.children, LAMBDA c : Named(c, name))
       IN [n EXCEPT !.children[i] = element]
  ELSE [n EXCEPT !.children = Append(@, element)]

WithText(n, value) == [n EXCEPT !.children = <<Text(value)>>]
Child(n, name)     == IF Has(n, name) THEN Find(n, name) ELSE Element(name, <<>>)

SetElementText(n, path, value) ==
  IF Len(path) = 1
  THEN Replace(n, path[1], WithText(Child(n, path[1]), value))
  ELSE LET parent == Child(n, path[1])
       IN Replace(n, path[1], Replace(parent, path[2], WithText(Child(parent, path[2]), value)))

(* What stands in a document: its declarations, comments, attributes and   *)
(* texts, each with the elements it stands in.                             *)
RECURSIVE Contents(_, _)
Contents(nodes, path) ==
  UNION {LET n == nodes[i]
         IN IF IsElement(n)
            THEN {<<Append(path, n.name), a>> : a \in n.attrs}
                   \cup Contents(n.children, Append(path, n.name))
            ELSE {<<path, n.type, n.value>>}
         : i \in DOMAIN nodes}
=============================================================================
