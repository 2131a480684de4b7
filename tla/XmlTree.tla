------------------------------ MODULE XmlTree ------------------------------
(***************************************************************************)
(* XmlTreeDocument and XmlTreeEditor: an XML source with one root element, *)
(* whose elements are nodes with ids.  Every edit splices the source,      *)
(* parses it anew and carries the ids of the other nodes over.  An edit    *)
(* that throws leaves the document as it is and is no action here.         *)
(*                                                                         *)
(* The tokens of a source are tags, text, white space, comments,           *)
(* processing instructions, XML declarations and doctypes.  iiXml pairs    *)
(* tags of a name; the document itself refuses a tree whose ranges cross.  *)
(***************************************************************************)
EXTENDS Markup, SequencesExt

CONSTANTS
  Source,     \* sources a document may be created from
  Fragment,   \* fragments handed to create and update
  MaxId,      \* largest id, 2^64 - 1 in the code
  MaxRevision \* largest revision, 2^64 - 1 in the code

Token == UNION {Range(s) : s \in Source \cup Fragment}

(* Opening a self-closing parent up writes tags of its name. *)
TreeToken == Token \cup [kind : {"open", "close"}, tag : {token.tag : token \in Token}]

XmlAssumption ==
  /\ Source \cup Fragment \subseteq Seq(Token)
  /\ MaxId \in Nat \ {0}
  /\ MaxRevision \in Nat

VARIABLES
  tree,   \* the members xml, nodes, nextId, revision; the ledger's changes
  marks   \* the edit that wrote each token, and its place (history)

vars == <<tree, marks>>

-----------------------------------------------------------------------------
(* Reading a source. *)

Misc == {"space", "comment", "pi"}

(* The tokens in front of the body. *)
prologOf(xml) ==
  LET endsProlog(n) == n = Len(xml) \/ xml[n + 1].kind \notin Misc \cup {"declaration", "doctype"}
  IN SubSeq(xml, 1, Min({n \in 0..Len(xml) : endsProlog(n)}))

(* A declaration occurs once and before the doctype, a doctype once.       *)
prologAccepted(prolog) ==
  \A i, j \in 1..Len(prolog) :
    i < j /\ prolog[i].kind \in {"declaration", "doctype"}
      => /\ prolog[j].kind # "declaration"
         /\ prolog[j].kind = "doctype" => prolog[i].kind = "declaration"

containsOnlyXmlMisc(tokens) == \A i \in 1..Len(tokens) : tokens[i].kind \in Misc

(* The ranges of the elements, in the order of their opening tags. *)
rangesOf(body) ==
  LET element(i, end) ==
        [name |-> body[i].tag, selfClosing |-> body[i].kind = "void",
         rawBegin |-> i - 1, valueBegin |-> i,
         valueEnd |-> IF end = i THEN i ELSE end - 1, rawEnd |-> end]
  IN [n \in 1..Cardinality(Starts(body)) |->
        element(startOf(body, n), endOf(body, startOf(body, n)))]

(* a lies within the value of b. *)
Within(a, b) == b.valueBegin <= a.rawBegin /\ a.rawEnd <= b.valueEnd

(* Children lie within their parent's value and siblings do not overlap.   *)
validateNodeHierarchy(ranges) ==
  \A a, b \in Range(ranges) :
    \/ a.rawEnd <= b.rawBegin \/ b.rawEnd <= a.rawBegin
    \/ a = b \/ Within(a, b) \/ Within(b, a)

(* parseNodes does not throw. *)
Parses(xml, allowEmpty) ==
  LET prolog == prologOf(xml)
      body == SubSeq(xml, Len(prolog) + 1, Len(xml))
      ranges == rangesOf(body)
      roots == {a \in Range(ranges) : \A b \in Range(ranges) : ~Within(a, b)}
  IN /\ prologAccepted(prolog)
     /\ IF containsOnlyXmlMisc(body) THEN allowEmpty
        ELSE /\ TagsPair(body)
             /\ Cardinality(roots) = 1
             /\ \A root \in roots :
                  /\ root.rawBegin = 0
                  /\ containsOnlyXmlMisc(SubSeq(body, root.rawEnd + 1, Len(body)))
             /\ validateNodeHierarchy(ranges)

(* The nodes of a source that parses, with ids counted from 1; a parent is *)
(* a set of at most one id.                                                *)
parseNodes(xml) ==
  LET offset == Len(prologOf(xml))
      ranges == rangesOf(SubSeq(xml, offset + 1, Len(xml)))
      above == [n \in 1..Len(ranges) |->
                  {m \in 1..n - 1 : Within(ranges[n], ranges[m])}]
      parent == [n \in 1..Len(ranges) |->
                   IF above[n] = {} THEN {} ELSE {Max(above[n])}]
      below(n) == {m \in 1..Len(ranges) : n \in parent[m]}
      children(n) == [k \in 1..Cardinality(below(n)) |-> nth(below(n), k)]
  IN [n \in 1..Len(ranges) |->
        [id |-> n, name |-> ranges[n].name, parentId |-> parent[n],
         depth |-> Cardinality(above[n]), childIds |-> children(n),
         selfClosing |-> ranges[n].selfClosing,
         rawBegin |-> offset + ranges[n].rawBegin,
         valueBegin |-> offset + ranges[n].valueBegin,
         valueEnd |-> offset + ranges[n].valueEnd,
         rawEnd |-> offset + ranges[n].rawEnd]]

ids(nodes) == {node.id : node \in Range(nodes)}

(* The root is the first node, if there is one. *)
HasRoot(doc) == doc.nodes # <<>>

fromXml(xml) ==
  [xml |-> xml, nodes |-> parseNodes(xml), nextId |-> Len(parseNodes(xml)) + 1,
   revision |-> 0, changes |-> 0]

-----------------------------------------------------------------------------
(* replaceRange.  An edit replaces the range from begin to end; a binding  *)
(* names the id of an element of the replacement.                          *)

Binding(id, begin, end, allocate) ==
  [id |-> id, begin |-> begin, end |-> end, allocate |-> allocate]

EditOf(begin, end, replacement, bindings) ==
  [begin |-> begin, end |-> end, replacement |-> replacement, bindings |-> bindings]

Spliced(s, edit, replacement) ==
  SubSeq(s, 1, edit.begin) \o replacement \o SubSeq(s, edit.end + 1, Len(s))

nextXml(doc, edit) == Spliced(doc.xml, edit, edit.replacement)

(* The nodes outside the edit: before it, behind it and around it. *)
Preserved(doc, edit) ==
  {node \in Range(doc.nodes) :
     /\ node.rawBegin # edit.begin \/ node.rawEnd # edit.end
     /\ \/ node.rawEnd <= edit.begin
        \/ node.rawBegin >= edit.end
        \/ node.rawBegin < edit.begin /\ node.rawEnd > edit.end}

(* No other node reaches over an end of the edit. *)
CutsNoNode(doc, edit) ==
  \A node \in Range(doc.nodes) \ Preserved(doc, edit) :
    edit.begin <= node.rawBegin /\ node.rawEnd <= edit.end

shiftedAfterEdit(position, edit) ==
  edit.begin + Len(edit.replacement) + (position - edit.end)

expandedAncestorEnd(oldEnd, edit) ==
  oldEnd - (edit.end - edit.begin) + Len(edit.replacement)

expectedRange(node, edit) ==
  IF node.rawEnd <= edit.begin THEN <<node.rawBegin, node.rawEnd>>
  ELSE IF node.rawBegin >= edit.end
    THEN <<shiftedAfterEdit(node.rawBegin, edit), shiftedAfterEdit(node.rawEnd, edit)>>
    ELSE <<node.rawBegin, expandedAncestorEnd(node.rawEnd, edit)>>

(* The ids bound to a parsed node, and those of the old nodes expected     *)
(* there under its name: findNodeByRange.                                  *)
boundIds(edit, node) ==
  {b.id : b \in {c \in Range(edit.bindings) :
                   c.begin = node.rawBegin /\ c.end = node.rawEnd}}

carriedIds(doc, edit, node) ==
  {old.id : old \in {o \in Preserved(doc, edit) :
                       /\ expectedRange(o, edit) = <<node.rawBegin, node.rawEnd>>
                       /\ o.name = node.name}}

(* Every binding and every preserved node finds a parsed node of its own.  *)
AllFound(doc, edit, parsed) ==
  /\ \A b \in Range(edit.bindings) :
       \E node \in Range(parsed) : b.begin = node.rawBegin /\ b.end = node.rawEnd
  /\ \A old \in Preserved(doc, edit) :
       \E node \in Range(parsed) :
         /\ old.id \in carriedIds(doc, edit, node)
         /\ boundIds(edit, node) = {}
         /\ Cardinality(carriedIds(doc, edit, node)) = 1

Allocated(edit) == Cardinality({b \in Range(edit.bindings) : b.allocate})

(* The parsed nodes that get a new id. *)
Fresh(doc, edit, parsed) ==
  {n \in 1..Len(parsed) :
     boundIds(edit, parsed[n]) \cup carriedIds(doc, edit, parsed[n]) = {}}

(* replaceRange throws unless this holds. *)
CanReplace(doc, edit) ==
  LET parsed == parseNodes(nextXml(doc, edit))
      taken == Allocated(edit) + Cardinality(Fresh(doc, edit, parsed))
  IN /\ doc.revision < MaxRevision
     /\ Parses(nextXml(doc, edit), TRUE)
     /\ CutsNoNode(doc, edit)
     /\ AllFound(doc, edit, parsed)
     /\ taken > 0 => doc.nextId + taken <= MaxId

(* Ids, parents and children of the parsed nodes under their final ids.    *)
remapped(nodes, idOf) ==
  [n \in 1..Len(nodes) |->
     [nodes[n] EXCEPT
        !.id = idOf[n],
        !.parentId = {idOf[m] : m \in @},
        !.childIds = [i \in 1..Len(@) |-> idOf[@[i]]]]]

replaced(doc, edit) ==
  LET xml == nextXml(doc, edit)
      parsed == parseNodes(xml)
      fresh == Fresh(doc, edit, parsed)
      first == doc.nextId + Allocated(edit)
      idOf == [n \in 1..Len(parsed) |->
                 IF n \in fresh THEN first + Cardinality(fresh \cap 1..n - 1)
                 ELSE CHOOSE id \in boundIds(edit, parsed[n])
                                      \cup carriedIds(doc, edit, parsed[n]) : TRUE]
  IN IF xml = doc.xml THEN doc
     ELSE [xml |-> xml, nodes |-> remapped(parsed, idOf),
           nextId |-> first + Cardinality(fresh),
           revision |-> doc.revision + 1, changes |-> doc.changes + 1]

-----------------------------------------------------------------------------
(* The editor's operations. *)

Spaces(s) == {i \in 1..Len(s) : s[i].kind # "space"}

(* A fragment without the white space around it; it has to be one bare     *)
(* element.                                                                *)
trimmed(s) ==
  IF Spaces(s) = {} THEN <<>> ELSE SubSeq(s, Min(Spaces(s)), Max(Spaces(s)))

isSingleNode(fragment) ==
  LET s == trimmed(fragment)
  IN /\ Parses(s, FALSE)
     /\ Head(parseNodes(s)).rawBegin = 0
     /\ Head(parseNodes(s)).rawEnd = Len(s)

(* The edits of create, update and remove. *)
rootCreation(doc, fragment) ==
  LET at == Len(doc.xml)
  IN EditOf(at, at, fragment,
            <<Binding(doc.nextId, at, at + Len(fragment), TRUE)>>)

childCreation(doc, parent, fragment) ==
  LET at == parent.valueEnd
  IN EditOf(at, at, fragment,
            <<Binding(doc.nextId, at, at + Len(fragment), TRUE)>>)

\* Mutant: the parent that is opened up is not bound to its id.
OpenedParentUnbound(doc, parent, fragment) ==
  LET childBegin == parent.rawBegin + 1
      childEnd == childBegin + Len(fragment)
  IN EditOf(parent.rawBegin, parent.rawEnd,
       <<[kind |-> "open", tag |-> parent.name]>> \o fragment
         \o <<[kind |-> "close", tag |-> parent.name]>>,
       <<Binding(doc.nextId, childBegin, childEnd, TRUE)>>)

(* A self-closing parent is opened up around its first child. *)
openingCreation(doc, parent, fragment) ==
  LET childBegin == parent.rawBegin + 1
      childEnd == childBegin + Len(fragment)
  IN EditOf(parent.rawBegin, parent.rawEnd,
       <<[kind |-> "open", tag |-> parent.name]>> \o fragment
         \o <<[kind |-> "close", tag |-> parent.name]>>,
       <<Binding(parent.id, parent.rawBegin, childEnd + 1, FALSE),
         Binding(doc.nextId, childBegin, childEnd, TRUE)>>)

creationIn(doc, parent, fragment) ==
  IF parent.selfClosing THEN openingCreation(doc, parent, fragment)
  ELSE childCreation(doc, parent, fragment)

updateOf(node, fragment) ==
  EditOf(node.rawBegin, node.rawEnd, fragment,
    <<Binding(node.id, node.rawBegin, node.rawBegin + Len(fragment), FALSE)>>)

removalOf(node) == EditOf(node.rawBegin, node.rawEnd, <<>>, <<>>)

Init ==
  /\ tree \in
       {fromXml(xml) : xml \in
          {s \in Source : Parses(s, FALSE) /\ Len(parseNodes(s)) < MaxId}}
  /\ marks = [i \in 1..Len(tree.xml) |-> <<0, i>>]

replaceRange(edit) ==
  /\ CanReplace(tree, edit)
  /\ tree' = replaced(tree, edit)
  /\ marks' = Spliced(marks, edit,
                [i \in 1..Len(edit.replacement) |-> <<tree'.revision, i>>])

CreateRoot(fragment) ==
  /\ isSingleNode(fragment)
  /\ tree.nextId < MaxId
  /\ ~HasRoot(tree)
  /\ replaceRange(rootCreation(tree, trimmed(fragment)))

CreateIn(parent, fragment) ==
  /\ isSingleNode(fragment)
  /\ tree.nextId < MaxId
  /\ replaceRange(creationIn(tree, parent, trimmed(fragment)))

UpdateNode(node, fragment) ==
  /\ isSingleNode(fragment)
  /\ trimmed(fragment) # SubSeq(tree.xml, node.rawBegin + 1, node.rawEnd)
  /\ replaceRange(updateOf(node, trimmed(fragment)))

RemoveNode(node) == replaceRange(removalOf(node))

Next ==
  \/ \E fragment \in Fragment : CreateRoot(fragment)
  \/ \E node \in Range(tree.nodes), fragment \in Fragment :
       CreateIn(node, fragment) \/ UpdateNode(node, fragment)
  \/ \E node \in Range(tree.nodes) : RemoveNode(node)

Spec == Init /\ [][Next]_vars

-----------------------------------------------------------------------------
Nodes == Range(tree.nodes)

(* The nodes are those of the source under other ids, in range and without *)
(* repetition, none of them still to be given out; parents and children    *)
(* name each other.                                                        *)
TypeOK ==
  LET parsed == parseNodes(tree.xml)
      idOf == [n \in 1..Len(tree.nodes) |-> tree.nodes[n].id]
  IN /\ Parses(tree.xml, TRUE)
     /\ Len(parsed) = Len(tree.nodes)
     /\ tree.nodes = remapped(parsed, idOf)
     /\ \A c, p \in Nodes : c.parentId = {p.id} <=> c.id \in Range(p.childIds)
     /\ Cardinality(ids(tree.nodes)) = Len(tree.nodes)
     /\ \A id \in ids(tree.nodes) : id \in 1..tree.nextId - 1
     /\ tree.nextId \in 1..MaxId
     /\ tree.revision \in 0..MaxRevision /\ tree.changes = tree.revision
     /\ Len(marks) = Len(tree.xml)

(* Elements are refused by nothing but exhausted counters: whatever was    *)
(* done to the tree, each node can be removed, replaced and given a child, *)
(* and an emptied document takes a root.  What is saved can be loaded      *)
(* again exactly while there is a root.                                    *)
NoElementIsRefused ==
  /\ Parses(tree.xml, FALSE) <=> HasRoot(tree)
  /\ tree.revision < MaxRevision =>
       /\ \A node \in Nodes : CanReplace(tree, removalOf(node))
       /\ \A fragment \in {f \in Fragment : isSingleNode(f)} :
            LET s == trimmed(fragment)
            IN tree.nextId + Len(parseNodes(s)) <= MaxId =>
                 /\ ~HasRoot(tree) => CanReplace(tree, rootCreation(tree, s))
                 /\ \A node \in Nodes :
                      /\ CanReplace(tree, updateOf(node, s))
                      /\ CanReplace(tree, creationIn(tree, node, s))

(* The tags of a node as the edits wrote them. *)
TagMarks(written, node) == <<written[node.rawBegin + 1], written[node.rawEnd]>>

(* The children listed in front of one. *)
InFront(list, id) ==
  {list[i] : i \in {j \in DOMAIN list : \E k \in DOMAIN list : j < k /\ list[k] = id}}

(* What a step of the editor may do to the nodes that are there. *)
NodesStay ==
  LET Same(b, c) == TagMarks(marks, b) = TagMarks(marks', c)
      survivors == {s \in Nodes \X Range(tree'.nodes) : s[1].id = s[2].id}
      Kept(b) == Range(b.childIds) \cap ids(tree'.nodes)
  IN /\ \A b \in Nodes, c \in Range(tree'.nodes) : Same(b, c) => b.id = c.id
     /\ Cardinality({s \in survivors : ~Same(s[1], s[2])}) <= 1
     /\ \A s \in survivors :
          /\ s[1].parentId = s[2].parentId /\ s[1].depth = s[2].depth
          /\ {id \in Range(s[2].childIds) : id < tree.nextId} = Kept(s[1])
          /\ \A id \in Kept(s[1]) :
               InFront(s[2].childIds, id) \subseteq InFront(s[1].childIds, id)
     /\ \A id \in ids(tree'.nodes) \ ids(tree.nodes) : id >= tree.nextId

(* Across an edit a node whose tags stay keeps its id; a node that keeps   *)
(* its id keeps its parent, its depth and those children that stay, in     *)
(* their order and before any new ones.  At most one, replaced or opened   *)
(* up, gets other tags; ids that come in were never given out.             *)
NodesKeepTheirPlace == [][NodesStay]_vars
=============================================================================
