----------------------------- MODULE HtmlBlocks -----------------------------
(***************************************************************************)
(* HtmlBlockDocument and HtmlBlockEditor: an HTML source whose block       *)
(* elements have ids.  Every edit splices the source, parses it anew and   *)
(* carries the ids of unaffected blocks over by computing where their      *)
(* ranges must be now.  An edit that throws leaves the document as it is   *)
(* and is no action here.                                                  *)
(*                                                                         *)
(* The tags of a source are those of its block elements.                   *)
(***************************************************************************)
EXTENDS Markup, SequencesExt

CONSTANTS
  Source,     \* sources a document may be created from
  Fragment,   \* block fragments handed to create and update
  MaxId,      \* largest id, 2^64 - 1 in the code
  MaxRevision \* largest revision, 2^64 - 1 in the code

Token == UNION {Range(html) : html \in Source \cup Fragment}

ASSUME HtmlAssumption ==
  /\ Source \cup Fragment \subseteq Seq(Token)
  /\ MaxId \in Nat \ {0}
  /\ MaxRevision \in Nat

VARIABLES
  document,  \* the members html, blocks, nextId, revision; ledger changes
  marks,     \* the edit that wrote each token, and its place (history)
  retired    \* ids of blocks that are gone (history)

vars == <<document, marks, retired>>

-----------------------------------------------------------------------------
Parses(html) == TagsPair(html)

(* The blocks in the order of their opening tags, with ids counted from 1. *)
parseBlocks(html) ==
  LET block(n, i, end) ==
        [id |-> n, tagName |-> html[i].tag, rawBegin |-> i - 1, valueBegin |-> i,
         valueEnd |-> IF end = i THEN i ELSE end - 1, rawEnd |-> end]
  IN [n \in 1..Cardinality(Starts(html)) |->
        block(n, startOf(html, n), endOf(html, startOf(html, n)))]

-----------------------------------------------------------------------------
(* The hierarchy is a function of the blocks and rebuilt with them. *)

strictlyContains(outer, inner) ==
  /\ outer.rawBegin <= inner.rawBegin
  /\ inner.rawEnd <= outer.rawEnd
  /\ outer.rawBegin # inner.rawBegin \/ outer.rawEnd # inner.rawEnd

Containers(blocks, child) == {b \in Range(blocks) : strictlyContains(b, child)}

(* The parent of a block, as a set of at most one. *)
parents(blocks, child) ==
  {b \in Containers(blocks, child) :
     \A other \in Containers(blocks, child) \ {b} :
       \/ other.rawBegin < b.rawBegin
       \/ other.rawBegin = b.rawBegin /\ b.rawEnd < other.rawEnd}

childIds(blocks, parent) ==
  LET children == {n \in 1..Len(blocks) : parent \in parents(blocks, blocks[n])}
  IN [k \in 1..Cardinality(children) |-> blocks[nth(children, k)].id]

ids(blocks) == {b.id : b \in Range(blocks)}

-----------------------------------------------------------------------------
(* The document and replaceRange. *)

fromHtml(html) ==
  LET blocks == parseBlocks(html)
  IN [html |-> html, blocks |-> blocks, nextId |-> Len(blocks) + 1,
      revision |-> 0, changes |-> 0]

(* A fragment is one block and nothing outside it. *)
isSingleBlock(fragment) ==
  LET blocks == parseBlocks(fragment)
      top == {b \in Range(blocks) : Containers(blocks, b) = {}}
  IN /\ Parses(fragment)
     /\ Cardinality(top) = 1
     /\ \A b \in top : b.rawBegin = 0 /\ b.rawEnd = Len(fragment)

Spliced(s, begin, end, replacement) ==
  SubSeq(s, 1, begin) \o replacement \o SubSeq(s, end + 1, Len(s))

(* An edit replaces the range from begin to end; root is the id its        *)
(* outermost block gets, NoRoot if there is none, and allocates says that  *)
(* this id is taken from the document's counter.                           *)
NoRoot == 0

EditOf(begin, end, replacement, root, allocates) ==
  [begin |-> begin, end |-> end, replacement |-> replacement, root |-> root,
   allocates |-> allocates]

nextHtml(doc, edit) ==
  Spliced(doc.html, edit.begin, edit.end, edit.replacement)

(* The blocks whose ids have to be found again. *)
Preserved(doc, edit) ==
  {b \in Range(doc.blocks) :
     /\ b.id = edit.root => edit.allocates
     /\ b.rawBegin # edit.begin \/ b.rawEnd # edit.end
     /\ \/ b.rawEnd <= edit.begin
        \/ b.rawBegin >= edit.end
        \/ b.rawBegin < edit.begin /\ b.rawEnd > edit.end}

\* Mutant: an edit may cut through a block.
NoBlockCrosses(doc, edit) == {}

(* The blocks an edit would cut through. *)
Crossed(doc, edit) ==
  {b \in Range(doc.blocks) \ Preserved(doc, edit) :
     /\ b.id = edit.root => edit.allocates
     /\ b.rawBegin < edit.begin \/ b.rawEnd > edit.end}

\* Mutant: the size of what is removed is not taken off.
ShiftedByInsertion(position, edit) == position + Len(edit.replacement)

shiftedAfterEdit(position, edit) ==
  edit.begin + Len(edit.replacement) + (position - edit.end)

expandedAncestorEnd(oldEnd, edit) ==
  oldEnd - (edit.end - edit.begin) + Len(edit.replacement)

expectedRange(b, edit) ==
  IF b.rawEnd <= edit.begin THEN <<b.rawBegin, b.rawEnd>>
  ELSE IF b.rawBegin >= edit.end
    THEN <<shiftedAfterEdit(b.rawBegin, edit), shiftedAfterEdit(b.rawEnd, edit)>>
    ELSE <<b.rawBegin, expandedAncestorEnd(b.rawEnd, edit)>>

rangeOf(b) == <<b.rawBegin, b.rawEnd>>

rootRange(edit) == <<edit.begin, edit.begin + Len(edit.replacement)>>

\* Mutant: blocks are matched by their place in the source order.
CarriedByIndex(doc, edit, blocks, i) ==
  IF edit.root # NoRoot /\ rangeOf(blocks[i]) = rootRange(edit) THEN {edit.root}
  ELSE {doc.blocks[k].id : k \in {i} \cap 1..Len(doc.blocks)}
         \cap {b.id : b \in Preserved(doc, edit)}

(* The id the i-th parsed block takes over, as a set of at most one. *)
carriedId(doc, edit, blocks, i) ==
  IF edit.root # NoRoot /\ rangeOf(blocks[i]) = rootRange(edit) THEN {edit.root}
  ELSE {b.id : b \in {old \in Preserved(doc, edit) :
                        /\ expectedRange(old, edit) = rangeOf(blocks[i])
                        /\ old.tagName = blocks[i].tagName}}

(* The parsed blocks that get a new id. *)
NewBlocks(doc, edit, blocks) ==
  {i \in 1..Len(blocks) : carriedId(doc, edit, blocks, i) = {}}

\* Mutant: the id of a created block is not taken from the counter.
CreatedIdLeft(doc, edit) == doc.nextId

(* The counter once the root of a created block has its id. *)
counterAfterRoot(doc, edit) == doc.nextId + (IF edit.allocates THEN 1 ELSE 0)

(* Every range is where it is expected, root and preserved blocks alike.   *)
RangesFound(doc, edit, blocks) ==
  LET ranges == {<<rangeOf(b), b.tagName>> : b \in Range(blocks)}
  IN /\ edit.root # NoRoot => \E b \in Range(blocks) : rangeOf(b) = rootRange(edit)
     /\ \A b \in Preserved(doc, edit) :
          <<expectedRange(b, edit), b.tagName>> \in ranges

\* Mutant: the counter follows the largest id in use.
CounterFromBlocks(doc, edit, blocks, taken) == 1 + Max({0} \cup ids(blocks))

counterAfter(doc, edit, blocks, taken) == counterAfterRoot(doc, edit) + taken

idsSuffice(doc, edit, taken) ==
  edit.allocates \/ taken > 0 => counterAfterRoot(doc, edit) + taken <= MaxId

(* replaceRange throws unless this holds. *)
CanReplace(doc, edit) ==
  LET html == nextHtml(doc, edit)
      blocks == parseBlocks(html)
  IN /\ doc.revision < MaxRevision
     /\ Parses(html)
     /\ Crossed(doc, edit) = {}
     /\ RangesFound(doc, edit, blocks)
     /\ idsSuffice(doc, edit, Cardinality(NewBlocks(doc, edit, blocks)))

replaced(doc, edit) ==
  LET html == nextHtml(doc, edit)
      parsed == parseBlocks(html)
      new == NewBlocks(doc, edit, parsed)
      idOf(i) ==
        IF i \in new
          THEN counterAfterRoot(doc, edit) + Cardinality(new \cap 1..i - 1)
          ELSE CHOOSE id \in carriedId(doc, edit, parsed, i) : TRUE
      blocks == [i \in 1..Len(parsed) |-> [parsed[i] EXCEPT !.id = idOf(i)]]
  IN IF html = doc.html THEN doc
     ELSE [html |-> html, blocks |-> blocks,
           nextId |-> counterAfter(doc, edit, blocks, Cardinality(new)),
           revision |-> doc.revision + 1, changes |-> doc.changes + 1]

-----------------------------------------------------------------------------
Init ==
  /\ document \in
       {fromHtml(html) : html \in
          {s \in Source : Parses(s) /\ Len(parseBlocks(s)) < MaxId}}
  /\ marks = [i \in 1..Len(document.html) |-> <<0, i>>]
  /\ retired = {}

replaceRange(edit) ==
  /\ CanReplace(document, edit)
  /\ document' = replaced(document, edit)
  /\ marks' = Spliced(marks, edit.begin, edit.end,
                [i \in 1..Len(edit.replacement) |-> <<document'.revision, i>>])
  /\ retired' = retired \cup (ids(document.blocks) \ ids(document'.blocks))

insertionIn(parent) == parent.valueEnd

(* The edits of create, update and remove. *)
creationOf(insertion, fragment) ==
  EditOf(insertion, insertion, fragment, document.nextId, TRUE)
updateOf(b, fragment) == EditOf(b.rawBegin, b.rawEnd, fragment, b.id, FALSE)
removalOf(b) == EditOf(b.rawBegin, b.rawEnd, <<>>, NoRoot, FALSE)

(* create, at the end of the source or of a parent.                        *)
CreateAt(insertion, fragment) ==
  /\ isSingleBlock(fragment)
  /\ document.nextId < MaxId
  /\ replaceRange(creationOf(insertion, fragment))

CreateBlock(fragment) == CreateAt(Len(document.html), fragment)

CreateIn(parent, fragment) == CreateAt(insertionIn(parent), fragment)

UpdateBlock(b, fragment) ==
  /\ isSingleBlock(fragment)
  /\ fragment # SubSeq(document.html, b.rawBegin + 1, b.rawEnd)
  /\ replaceRange(updateOf(b, fragment))

RemoveBlock(b) == replaceRange(removalOf(b))

Next ==
  \/ \E fragment \in Fragment : CreateBlock(fragment)
  \/ \E b \in Range(document.blocks), fragment \in Fragment :
       CreateIn(b, fragment) \/ UpdateBlock(b, fragment)
  \/ \E b \in Range(document.blocks) : RemoveBlock(b)

Spec == Init /\ [][Next]_vars

-----------------------------------------------------------------------------
Blocks == Range(document.blocks)

(* Every block is where the source has it.  No two share an id, and none   *)
(* has one the counter has still to give out.                              *)
TypeOK ==
  /\ Parses(document.html)
  /\ Len(document.blocks) = Len(parseBlocks(document.html))
  /\ \A i \in 1..Len(document.blocks) :
       /\ [document.blocks[i] EXCEPT !.id = i] = parseBlocks(document.html)[i]
       /\ document.blocks[i].id \in 1..document.nextId - 1
  /\ Cardinality(ids(document.blocks)) = Len(document.blocks)
  /\ document.nextId \in 1..MaxId
  /\ document.revision \in 0..MaxRevision
  /\ document.changes = document.revision
  /\ Len(marks) = Len(document.html)
  /\ retired \subseteq 1..MaxId

(* An id that a caller may still hold is never given to another block.     *)
IdsNeverReturn == ids(document.blocks) \cap retired = {}

(* The source that an edit makes parses, with every block where the editor *)
(* looks for it.                                                           *)
IsFound(edit) ==
  LET html == nextHtml(document, edit)
  IN Parses(html) /\ RangesFound(document, edit, parseBlocks(html))

(* A well-formed edit is refused only for cutting through another block or *)
(* for an exhausted counter: never because a range is not found again.     *)
(* One that creates a block cuts through none, wherever its parent ends.   *)
OnlyCrossingsAreRefused ==
  document.revision < MaxRevision =>
    /\ \A b \in Blocks : Crossed(document, removalOf(b)) = {} => IsFound(removalOf(b))
    /\ \A fragment \in {f \in Fragment : isSingleBlock(f)} :
         /\ \A b \in Blocks :
              Crossed(document, updateOf(b, fragment)) = {} => IsFound(updateOf(b, fragment))
         /\ \A at \in {Len(document.html)} \cup {insertionIn(b) : b \in Blocks} :
              /\ Crossed(document, creationOf(at, fragment)) = {}
              /\ IsFound(creationOf(at, fragment))

(* The tags of a block as the edits wrote them. *)
TagMarks(doc, written, b) == <<written[b.rawBegin + 1], written[b.rawEnd]>>

(* Across an edit an id stands for the same pair of tags, wherever they    *)
(* have moved; only the block that update replaces passes its id on, to    *)
(* the outermost block of what has replaced it.                            *)
BlocksKeepTheirIdentity ==
  [][\A b \in Blocks, c \in Blocks' :
       LET old == TagMarks(document, marks, b)
           new == TagMarks(document', marks', c)
           replaces == /\ b.rawBegin = c.rawBegin
                       /\ old[1] \notin Range(marks')
                       /\ new[1] = <<document'.revision, 1>>
       IN b.id = c.id <=> old = new \/ replaces]_vars

(* The block and what hangs below it in the hierarchy: what is in every    *)
(* set with the block that has the children of its members.                *)
Subtree(blocks, b) ==
  LET children == [c \in Range(blocks) |-> Range(childIds(blocks, c))]
      Closed(S) == \A c \in Range(blocks) : c.id \in S => children[c] \subseteq S
  IN {id \in ids(blocks) :
        \A S \in SUBSET (ids(blocks) \ {id}) : Closed(S) => b.id \notin S}

(* Removing a block takes its descendants in the hierarchy and nothing     *)
(* else, although the edit knows ranges only and ranges may overlap.       *)
RemovalTakesTheSubtree ==
  \A b \in Blocks :
    marks' = Spliced(marks, b.rawBegin, b.rawEnd, <<>>)
      => ids(document.blocks) \ ids(document'.blocks) = Subtree(document.blocks, b)

(* Nothing that begins inside a block ends outside it. *)
Uncrossed(b) ==
  \A c \in Blocks :
    b.rawBegin < c.rawBegin /\ c.rawBegin < b.rawEnd => c.rawEnd <= b.rawEnd

(* A block created in a parent becomes its last child, unless the parent   *)
(* is self-closing, when it becomes what follows the parent, or another    *)
(* block that begins inside the parent ends outside it.                    *)
CreatedIsLastChild ==
  \A b \in Blocks :
    LET at == insertionIn(b)
        written == [i \in 1..Len(marks') - Len(marks) |-> <<document'.revision, i>>]
    IN b.valueEnd < b.rawEnd /\ Uncrossed(b) /\ marks' = Spliced(marks, at, at, written)
         => \A c \in Blocks' : c.id = b.id =>
              childIds(document'.blocks, c) =
                Append(childIds(document.blocks, b), document.nextId)

(* The ranges that remove cuts out and create inserts at do what the       *)
(* hierarchy of the blocks asks for, in every edit.                        *)
EditsFollowTheHierarchy == [][RemovalTakesTheSubtree /\ CreatedIsLastChild]_vars
=============================================================================
