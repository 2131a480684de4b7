------------------------- MODULE MarkupEditorsProofs -------------------------
(***************************************************************************)
(* For all sources, fragments and counters: the blocks of an HTML document *)
(* are where its source has them, their ids are unique and never given out *)
(* again and stand for the same tags, no edit is refused that cuts through *)
(* no block, and edits follow the hierarchy of the blocks.  With what      *)
(* XmlTreeProofs says of XML trees, what both editors promise.             *)
(***************************************************************************)
EXTENDS MarkupEditors, MarkupProofs

(* A block as the parser makes it, under any id. *)
PlacedIn(html, b) ==
  /\ b = [id |-> b.id, tagName |-> b.tagName, rawBegin |-> b.rawBegin,
          valueBegin |-> b.valueBegin, valueEnd |-> b.valueEnd, rawEnd |-> b.rawEnd]
  /\ b.rawBegin \in Nat /\ b.valueEnd \in Nat /\ b.rawEnd \in Nat
  /\ b.rawBegin < b.rawEnd /\ b.rawEnd <= Len(html) /\ b.valueEnd <= b.rawEnd
  /\ b.tagName = html[b.rawBegin + 1].tag

(* Different blocks begin at different places. *)
BeginsDiffer(blocks) ==
  \A m, n \in 1..Len(blocks) : blocks[m].rawBegin = blocks[n].rawBegin => m = n

(* The parsed blocks of a source: a sequence of elements that lie within   *)
(* it and begin at different places.                                       *)
LEMMA ParsedBlocks ==
  ASSUME NEW html, Len(html) \in Nat, Parses(html)
  PROVE  LET parsed == parseBlocks(html)
         IN /\ Len(parsed) \in Nat
            /\ parsed = [n \in 1..Len(parsed) |-> parsed[n]]
            /\ \A n \in 1..Len(parsed) : PlacedIn(html, parsed[n]) /\ parsed[n].id = n
            /\ BeginsDiffer(parsed)
<1> DEFINE N == Cardinality(Starts(html))
           parsed == parseBlocks(html)
<1>1. N \in Nat
      /\ \A n \in 1..N : /\ startOf(html, n) \in Starts(html)
                         /\ startOf(html, n) \in 1..Len(html)
                         /\ Cardinality(Starts(html) \cap 1..startOf(html, n)) = n
  BY StartsAreCounted
<1>2. parsed = [n \in 1..N |-> parsed[n]] /\ Len(parsed) = N
  <2>1. parsed = [n \in 1..N |-> parsed[n]]
    BY DEF parseBlocks
  <2>2. DOMAIN parsed = 1..N
    BY <2>1
  <2> QED BY <1>1, <2>1, <2>2
<1>3. ASSUME NEW n \in 1..N
      PROVE  /\ parsed[n].rawBegin = startOf(html, n) - 1
             /\ PlacedIn(html, parsed[n]) /\ parsed[n].id = n
  <2> DEFINE s == startOf(html, n)
             e == endOf(html, s)
  <2>1. s \in 1..Len(html) /\ e \in s..Len(html)
    BY <1>1, EndsWithinSource DEF Parses
  <2>2. parsed[n] = [id |-> n, tagName |-> html[s].tag, rawBegin |-> s - 1,
                     valueBegin |-> s, valueEnd |-> IF e = s THEN s ELSE e - 1,
                     rawEnd |-> e]
    BY DEF parseBlocks
  <2> HIDE DEF s, e, parsed
  <2>3. parsed[n].valueEnd \in Nat /\ parsed[n].valueEnd <= e
    BY <2>1, <2>2
  <2>4. s - 1 \in Nat /\ (s - 1) + 1 = s
    BY <2>1
  <2>5. parsed[n].rawBegin = s - 1 /\ parsed[n].rawEnd = e /\ parsed[n].id = n
        /\ parsed[n].tagName = html[s].tag
    BY <2>2
  <2> QED BY <2>1, <2>2, <2>3, <2>4, <2>5 DEF PlacedIn, s
<1>4. BeginsDiffer(parsed)
  <2> HIDE DEF parsed, N
  <2> SUFFICES ASSUME NEW m \in 1..N, NEW n \in 1..N,
                      parsed[m].rawBegin = parsed[n].rawBegin
               PROVE  m = n
    BY <1>2 DEF BeginsDiffer
  <2>1. startOf(html, m) - 1 = startOf(html, n) - 1
    BY <1>3
  <2>2. startOf(html, m) \in 1..Len(html) /\ startOf(html, n) \in 1..Len(html)
    BY <1>1
  <2>3. startOf(html, m) = startOf(html, n)
    BY <2>1, <2>2
  <2> QED BY <1>1, <2>3
<1> HIDE DEF parsed
<1> QED BY <1>1, <1>2, <1>3, <1>4 DEF parsed
-----------------------------------------------------------------------------
(* A document: the blocks of its source in their places, under ids that    *)
(* differ and that the counter has passed.                                 *)
Numbered(blocks, parsed, next) ==
  /\ blocks = [n \in 1..Len(parsed) |-> blocks[n]]
  /\ \A n \in 1..Len(parsed) :
       /\ blocks[n] = [parsed[n] EXCEPT !.id = blocks[n].id]
       /\ blocks[n].id \in 1..next - 1
  /\ \A m, n \in 1..Len(parsed) : blocks[m].id = blocks[n].id => m = n

DocumentSound(doc) ==
  /\ doc.html \in Seq(Token)
  /\ Parses(doc.html)
  /\ doc.nextId \in 1..MaxId
  /\ doc.revision \in 0..MaxRevision
  /\ doc.changes = doc.revision
  /\ Numbered(doc.blocks, parseBlocks(doc.html), doc.nextId)

(* Blocks under new ids are blocks of the same places.                     *)
LEMMA NumberedBlocks ==
  ASSUME NEW html, Len(html) \in Nat, Parses(html), NEW next \in Nat, NEW blocks,
         Numbered(blocks, parseBlocks(html), next)
  PROVE  /\ Len(blocks) = Len(parseBlocks(html)) /\ Len(blocks) \in Nat
         /\ Range(blocks) = {blocks[n] : n \in 1..Len(blocks)}
         /\ \A n \in 1..Len(blocks) :
              /\ PlacedIn(html, blocks[n])
              /\ [blocks[n] EXCEPT !.id = n] = parseBlocks(html)[n]
              /\ blocks[n].id \in 1..next - 1
         /\ BeginsDiffer(blocks)
         /\ \A m, n \in 1..Len(blocks) : blocks[m].id = blocks[n].id => m = n
<1> DEFINE parsed == parseBlocks(html)
<1>1. /\ Len(parsed) \in Nat
      /\ \A n \in 1..Len(parsed) : PlacedIn(html, parsed[n]) /\ parsed[n].id = n
      /\ BeginsDiffer(parsed)
  BY ParsedBlocks
<1> HIDE DEF parsed
<1>2. blocks = [n \in 1..Len(parsed) |-> blocks[n]]
  BY DEF Numbered, parsed
<1>3. DOMAIN blocks = 1..Len(parsed)
  BY <1>2
<1>4. Len(blocks) = Len(parsed)
  BY <1>1, <1>2, <1>3
<1>5. Range(blocks) = {blocks[n] : n \in 1..Len(blocks)}
  BY <1>3, <1>4 DEF Range
<1>6. ASSUME NEW n \in 1..Len(parsed)
      PROVE  /\ PlacedIn(html, blocks[n])
             /\ [blocks[n] EXCEPT !.id = n] = parsed[n]
             /\ blocks[n].rawBegin = parsed[n].rawBegin
             /\ blocks[n].id \in 1..next - 1
  <2>1. blocks[n] = [parsed[n] EXCEPT !.id = blocks[n].id] /\ blocks[n].id \in 1..next - 1
    BY DEF Numbered, parsed
  <2>2. PlacedIn(html, parsed[n]) /\ parsed[n].id = n
    BY <1>1
  <2> DEFINE p == parsed[n]
             id == blocks[n].id
  <2>3. p = [id |-> n, tagName |-> p.tagName, rawBegin |-> p.rawBegin,
             valueBegin |-> p.valueBegin, valueEnd |-> p.valueEnd, rawEnd |-> p.rawEnd]
    BY <2>2 DEF PlacedIn
  <2> HIDE DEF p, id
  <2>4. blocks[n] = [id |-> id, tagName |-> p.tagName, rawBegin |-> p.rawBegin,
             valueBegin |-> p.valueBegin, valueEnd |-> p.valueEnd, rawEnd |-> p.rawEnd]
    BY <2>1, <2>3 DEF p, id
  <2>5. PlacedIn(html, blocks[n])
    BY <2>2, <2>4 DEF PlacedIn, p
  <2>6. [blocks[n] EXCEPT !.id = n] = p
    BY <2>3, <2>4
  <2> QED BY <2>1, <2>4, <2>5, <2>6 DEF p
<1>7. BeginsDiffer(blocks)
  BY <1>1, <1>4, <1>6 DEF BeginsDiffer
<1>8. \A m, n \in 1..Len(blocks) : blocks[m].id = blocks[n].id => m = n
  BY <1>4 DEF Numbered, parsed
<1> QED BY <1>1, <1>4, <1>5, <1>6, <1>7, <1>8 DEF parsed

(* As many ids as blocks: none is given to two of them.                    *)
LEMMA IdsAreAsManyAsBlocks ==
  ASSUME NEW blocks, Len(blocks) \in Nat,
         Range(blocks) = {blocks[n] : n \in 1..Len(blocks)},
         \A m, n \in 1..Len(blocks) : blocks[m].id = blocks[n].id => m = n
  PROVE  Cardinality(ids(blocks)) = Len(blocks)
<1> DEFINE id == [n \in 1..Len(blocks) |-> blocks[n].id]
<1>1. id \in Surjection(1..Len(blocks), ids(blocks))
  BY DEF ids, Surjection
<1>2. id \in Injection(1..Len(blocks), ids(blocks))
  BY <1>1 DEF Surjection, Injection, IsInjective
<1> HIDE DEF id
<1>3. IsFiniteSet(1..Len(blocks)) /\ Cardinality(1..Len(blocks)) = Len(blocks)
  BY UpToSize
<1> QED BY <1>1, <1>2, <1>3, FS_Surjection
-----------------------------------------------------------------------------
(* The blocks of a document. *)
LEMMA DocumentBlocks ==
  ASSUME NEW doc, DocumentSound(doc)
  PROVE  /\ doc.html \in Seq(Token) /\ Len(doc.html) \in Nat /\ doc.nextId \in Nat
         /\ Len(doc.blocks) = Len(parseBlocks(doc.html)) /\ Len(doc.blocks) \in Nat
         /\ \A n \in 1..Len(doc.blocks) :
              /\ [doc.blocks[n] EXCEPT !.id = n] = parseBlocks(doc.html)[n]
              /\ doc.blocks[n].id \in 1..doc.nextId - 1
         /\ Cardinality(ids(doc.blocks)) = Len(doc.blocks)
         /\ ids(doc.blocks) \subseteq 1..doc.nextId - 1
         /\ \A b \in Range(doc.blocks) : PlacedIn(doc.html, b)
         /\ \A b, c \in Range(doc.blocks) :
              b.id = c.id \/ b.rawBegin = c.rawBegin => b = c
<1> DEFINE html == doc.html
           next == doc.nextId
           blocks == doc.blocks
<1>1. /\ html \in Seq(Token) /\ Parses(html) /\ next \in Nat /\ Len(html) \in Nat
      /\ Numbered(blocks, parseBlocks(html), next)
  BY HtmlAssumption DEF DocumentSound
<1> HIDE DEF html, next, blocks
<1>2. /\ Len(blocks) = Len(parseBlocks(html)) /\ Len(blocks) \in Nat
      /\ Range(blocks) = {blocks[n] : n \in 1..Len(blocks)}
      /\ \A n \in 1..Len(blocks) :
           /\ PlacedIn(html, blocks[n])
           /\ [blocks[n] EXCEPT !.id = n] = parseBlocks(html)[n]
           /\ blocks[n].id \in 1..next - 1
      /\ BeginsDiffer(blocks)
      /\ \A m, n \in 1..Len(blocks) : blocks[m].id = blocks[n].id => m = n
  BY <1>1, NumberedBlocks
<1>3. Cardinality(ids(blocks)) = Len(blocks)
  BY <1>2, IdsAreAsManyAsBlocks
<1>4. ids(blocks) \subseteq 1..next - 1
  <2> SUFFICES ASSUME NEW id \in ids(blocks)
               PROVE  id \in 1..next - 1
    OBVIOUS
  <2>1. PICK n \in 1..Len(blocks) : id = blocks[n].id
    BY <1>2 DEF ids
  <2> QED BY <1>2, <2>1
<1>5. \A b \in Range(blocks) : PlacedIn(html, b)
  BY <1>2
<1>6. \A b, c \in Range(blocks) : b.id = c.id \/ b.rawBegin = c.rawBegin => b = c
  BY <1>2 DEF BeginsDiffer
<1> QED BY <1>1, <1>2, <1>3, <1>4, <1>5, <1>6 DEF html, next, blocks

(* An edit of the editor's operations: it inserts a block under the id     *)
(* that the counter gives out next, or takes the range of a block, for     *)
(* another under its id or for nothing.                                    *)
EditFits(doc, edit) ==
  /\ edit.begin \in Nat /\ edit.end \in Nat
  /\ edit.begin <= edit.end /\ edit.end <= Len(doc.html)
  /\ edit.replacement \in Seq(Token)
  /\ edit.allocates \in BOOLEAN
  /\ edit.allocates => edit.root = doc.nextId /\ edit.begin = edit.end
  /\ ~edit.allocates =>
       \E b \in Range(doc.blocks) :
         /\ b.rawBegin = edit.begin /\ b.rawEnd = edit.end
         /\ edit.root \in {NoRoot, b.id}
  /\ edit.root = NoRoot <=> edit.replacement = <<>>
  /\ nextHtml(doc, edit) # doc.html

(* The id that replaced gives to the n-th parsed block. *)
idGiven(doc, edit, n) ==
  LET parsed == parseBlocks(nextHtml(doc, edit))
      new == NewBlocks(doc, edit, parsed)
  IN IF n \in new
       THEN counterAfterRoot(doc, edit) + Cardinality(new \cap 1..n - 1)
       ELSE CHOOSE id \in carriedId(doc, edit, parsed, n) : TRUE

(* The ids carried over are older than those the counter gives out, and no *)
(* two blocks get the same.                                                *)
LEMMA GivenIds ==
  ASSUME NEW doc, DocumentSound(doc), NEW edit, EditFits(doc, edit),
         Parses(nextHtml(doc, edit)),
         NEW taken, taken = Cardinality(NewBlocks(doc, edit, parseBlocks(nextHtml(doc, edit))))
  PROVE  LET N == 1..Len(parseBlocks(nextHtml(doc, edit)))
         IN /\ taken \in Nat
            /\ \A n \in N :
                 /\ idGiven(doc, edit, n) \in 1..counterAfterRoot(doc, edit) + taken - 1
                 /\ \/ idGiven(doc, edit, n) \in ids(doc.blocks)
                    \/ idGiven(doc, edit, n) >= doc.nextId
            /\ \A m, n \in N :
                 idGiven(doc, edit, m) = idGiven(doc, edit, n) => m = n
<1> DEFINE html == nextHtml(doc, edit)
           parsed == parseBlocks(html)
           N == 1..Len(parsed)
           new == NewBlocks(doc, edit, parsed)
           first == counterAfterRoot(doc, edit)
           given(n) == idGiven(doc, edit, n)
<1>1. /\ doc.html \in Seq(Token) /\ doc.nextId \in Nat /\ doc.nextId >= 1
  BY DocumentBlocks DEF DocumentSound
<1>2. html \in Seq(Token) /\ Len(html) \in Nat
  <2>1. html \in Seq(Token)
    BY <1>1, SplicedParts DEF EditFits, nextHtml, Spliced, IsSplice
  <2> QED BY <2>1
<1>3. /\ Len(parsed) \in Nat
      /\ \A n \in N : PlacedIn(html, parsed[n])
      /\ BeginsDiffer(parsed)
  BY <1>2, ParsedBlocks
<1>4. /\ ids(doc.blocks) \subseteq 1..doc.nextId - 1
      /\ \A b, c \in Range(doc.blocks) : b.id = c.id => b = c
  BY DocumentBlocks
<1>5. edit.allocates \in BOOLEAN /\ (edit.root # NoRoot =>
        IF edit.allocates THEN edit.root = doc.nextId ELSE edit.root \in ids(doc.blocks))
  BY DEF EditFits, ids
<1>6. /\ first \in Nat /\ first >= doc.nextId
      /\ edit.allocates => first = doc.nextId + 1
  BY <1>1 DEF counterAfterRoot, EditFits
<1> HIDE DEF html, parsed, new, first
<1> DEFINE inFront(n) == Cardinality(new \cap 1..n - 1)
<1>7. /\ taken \in Nat
      /\ \A n \in new : inFront(n) \in 0..taken - 1
      /\ \A m, n \in new : m < n => inFront(m) # inFront(n)
  <2>1. new \subseteq N
    BY DEF new, NewBlocks
  <2>2. Cardinality(new) \in Nat
    BY <1>3, <2>1, EveryRankIsTaken
  <2>3. taken = Cardinality(new)
    BY DEF new, parsed, html
  <2> QED BY <1>3, <2>1, <2>2, <2>3, CountInFrontDiffers
<1>8. ASSUME NEW n \in new
      PROVE  given(n) = first + inFront(n)
  BY DEF idGiven, new, parsed, html, first
<1> HIDE DEF inFront
<1>9. ASSUME NEW n \in N, n \notin new
      PROVE  given(n) \in carriedId(doc, edit, parsed, n)
  <2>1. carriedId(doc, edit, parsed, n) # {}
    BY <1>9 DEF new, NewBlocks
  <2>2. given(n) = CHOOSE id \in carriedId(doc, edit, parsed, n) : TRUE
    BY <1>9 DEF idGiven, new, parsed, html
  <2> QED BY <2>1, <2>2
<1> DEFINE isRoot(n) == edit.root # NoRoot /\ rangeOf(parsed[n]) = rootRange(edit)
<1>10. ASSUME NEW n \in N, n \notin new, isRoot(n)
       PROVE  given(n) = edit.root
  <2>1. carriedId(doc, edit, parsed, n) = {edit.root}
    BY <1>10 DEF carriedId
  <2> QED BY <1>9, <1>10, <2>1
<1>11. ASSUME NEW n \in N, n \notin new, ~isRoot(n)
       PROVE  \E b \in Preserved(doc, edit) :
                b.id = given(n) /\ expectedRange(b, edit) = rangeOf(parsed[n])
  <2>1. carriedId(doc, edit, parsed, n) =
          {b.id : b \in {old \in Preserved(doc, edit) :
                           /\ expectedRange(old, edit) = rangeOf(parsed[n])
                           /\ old.tagName = parsed[n].tagName}}
    BY <1>11 DEF carriedId
  <2> QED BY <1>9, <1>11, <2>1
<1>12. Preserved(doc, edit) \subseteq Range(doc.blocks)
       /\ \A b \in Preserved(doc, edit) : b.id = edit.root => edit.allocates
  BY DEF Preserved
<1>13. ASSUME NEW n \in N, n \notin new
       PROVE  /\ given(n) \in 1..first - 1
              /\ given(n) \in ids(doc.blocks) \/ given(n) >= doc.nextId
  <2>1. CASE isRoot(n)
    BY <1>1, <1>4, <1>5, <1>6, <1>10, <1>13, <2>1
  <2>2. CASE ~isRoot(n)
    <3>1. given(n) \in ids(doc.blocks)
      BY <1>11, <1>12, <1>13, <2>2 DEF ids
    <3> QED BY <1>1, <1>4, <1>6, <3>1
  <2> QED BY <2>1, <2>2
<1>14. ASSUME NEW m \in N, m \notin new, NEW n \in N, n \notin new, given(m) = given(n)
       PROVE  m = n
  <2>1. ASSUME rangeOf(parsed[m]) = rangeOf(parsed[n])
        PROVE  m = n
    BY <1>3, <2>1 DEF rangeOf, BeginsDiffer
  <2>2. ASSUME NEW k \in N, k \notin new, ~isRoot(k)
        PROVE  ~(edit.root # NoRoot /\ given(k) = edit.root)
    <3>1. PICK b \in Preserved(doc, edit) : b.id = given(k)
      BY <1>11, <2>2
    <3>2. b.id \in ids(doc.blocks)
      BY <1>12 DEF ids
    <3>3. b.id # doc.nextId
      BY <1>1, <1>4, <3>2
    <3> QED BY <1>5, <1>12, <3>1, <3>3
  <2>3. CASE isRoot(m) /\ isRoot(n)
    BY <2>1, <2>3
  <2>4. CASE isRoot(m) # isRoot(n)
    BY <1>10, <1>14, <2>2, <2>4
  <2>5. CASE ~isRoot(m) /\ ~isRoot(n)
    <3>1. PICK b \in Preserved(doc, edit) :
            b.id = given(m) /\ expectedRange(b, edit) = rangeOf(parsed[m])
      BY <1>11, <1>14, <2>5
    <3>2. PICK c \in Preserved(doc, edit) :
            c.id = given(n) /\ expectedRange(c, edit) = rangeOf(parsed[n])
      BY <1>11, <1>14, <2>5
    <3>3. b = c
      BY <1>4, <1>12, <1>14, <3>1, <3>2
    <3> QED BY <2>1, <3>1, <3>2, <3>3
  <2> QED BY <2>3, <2>4, <2>5
<1> HIDE DEF given
<1>15. ASSUME NEW n \in N
       PROVE  /\ given(n) \in 1..first + taken - 1
              /\ given(n) \in ids(doc.blocks) \/ given(n) >= doc.nextId
  <2>1. CASE n \in new
    BY <1>1, <1>6, <1>7, <1>8, <2>1
  <2>2. CASE n \notin new
    BY <1>6, <1>7, <1>13, <2>2
  <2> QED BY <2>1, <2>2
<1>16. ASSUME NEW m \in N, NEW n \in N, given(m) = given(n)
       PROVE  m = n
  <2>1. ASSUME NEW k \in new, NEW l \in N, l \notin new
        PROVE  given(k) # given(l)
    BY <1>6, <1>7, <1>8, <1>13, <2>1
  <2>2. ASSUME NEW k \in new, NEW l \in new, k < l
        PROVE  given(k) # given(l)
    BY <1>6, <1>7, <1>8, <2>2
  <2>3. CASE m \in new /\ n \in new
    <3>1. m \in Nat /\ n \in Nat
      BY <1>3
    <3> QED BY <1>16, <2>2, <2>3, <3>1
  <2> QED BY <1>14, <1>16, <2>1, <2>3
<1> QED BY <1>7, <1>15, <1>16 DEF given, parsed, html, first

(* An edit makes a sound document of a sound one, and gives its blocks ids *)
(* that they had before or that the counter had not given out.             *)
LEMMA ReplacedSound ==
  ASSUME NEW doc, DocumentSound(doc), NEW edit, EditFits(doc, edit), CanReplace(doc, edit)
  PROVE  LET next == replaced(doc, edit)
         IN /\ DocumentSound(next)
            /\ next.html = nextHtml(doc, edit)
            /\ next.revision = doc.revision + 1
            /\ next.nextId >= doc.nextId
            /\ \A n \in 1..Len(next.blocks) : next.blocks[n].id = idGiven(doc, edit, n)
            /\ \A id \in ids(next.blocks) : id \in ids(doc.blocks) \/ id >= doc.nextId
<1> DEFINE html == nextHtml(doc, edit)
           parsed == parseBlocks(html)
           new == NewBlocks(doc, edit, parsed)
           taken == Cardinality(new)
           next == replaced(doc, edit)
           given(n) == idGiven(doc, edit, n)
<1>1. /\ doc.html \in Seq(Token) /\ doc.nextId \in 1..MaxId
      /\ doc.revision \in 0..MaxRevision /\ doc.changes = doc.revision
  BY DEF DocumentSound
<1>2. html \in Seq(Token)
  BY <1>1, SplicedParts DEF EditFits, nextHtml, Spliced, IsSplice
<1>3. /\ Parses(html) /\ doc.revision < MaxRevision
      /\ edit.allocates \/ taken > 0 => counterAfterRoot(doc, edit) + taken <= MaxId
  BY DEF CanReplace, idsSuffice
<1>4. /\ taken \in Nat
      /\ \A n \in 1..Len(parsed) :
           /\ given(n) \in 1..counterAfterRoot(doc, edit) + taken - 1
           /\ given(n) \in ids(doc.blocks) \/ given(n) >= doc.nextId
      /\ \A m, n \in 1..Len(parsed) : given(m) = given(n) => m = n
  BY <1>3, GivenIds
<1>5. Len(html) \in Nat /\ Len(parsed) \in Nat
      /\ \A n \in 1..Len(parsed) : PlacedIn(html, parsed[n])
  BY <1>2, <1>3, ParsedBlocks
<1>6. /\ next.html = html /\ next.revision = doc.revision + 1
      /\ next.changes = doc.changes + 1
      /\ next.nextId = counterAfterRoot(doc, edit) + taken
      /\ next.blocks = [n \in 1..Len(parsed) |-> [parsed[n] EXCEPT !.id = given(n)]]
  BY DEF replaced, EditFits, counterAfter, idGiven
<1> HIDE DEF html, parsed, new, taken, next, given
<1>7. next.nextId \in 1..MaxId /\ next.nextId >= doc.nextId
  <2>1. CASE edit.allocates
    BY <1>1, <1>3, <1>4, <1>6, <2>1, HtmlAssumption DEF counterAfterRoot
  <2>2. CASE ~edit.allocates
    BY <1>1, <1>3, <1>4, <1>6, <2>2, HtmlAssumption DEF counterAfterRoot
  <2> QED BY <2>1, <2>2
<1>8. ASSUME NEW n \in 1..Len(parsed)
      PROVE  /\ next.blocks[n] = [parsed[n] EXCEPT !.id = next.blocks[n].id]
             /\ next.blocks[n].id = given(n)
  <2> DEFINE p == parsed[n]
  <2>1. p = [id |-> p.id, tagName |-> p.tagName, rawBegin |-> p.rawBegin,
             valueBegin |-> p.valueBegin, valueEnd |-> p.valueEnd, rawEnd |-> p.rawEnd]
    BY <1>5 DEF PlacedIn
  <2>2. next.blocks[n] = [p EXCEPT !.id = given(n)]
    BY <1>6
  <2> HIDE DEF p
  <2>3. [p EXCEPT !.id = given(n)].id = given(n)
    BY <2>1
  <2> QED BY <2>2, <2>3 DEF p
<1>9. \A n \in 1..Len(parsed) : next.blocks[n].id = given(n)
  BY <1>8
<1>10. Numbered(next.blocks, parsed, next.nextId)
  <2>1. next.blocks = [n \in 1..Len(parsed) |-> next.blocks[n]]
    BY <1>6
  <2>2. \A n \in 1..Len(parsed) : next.blocks[n].id \in 1..next.nextId - 1
    <3>1. counterAfterRoot(doc, edit) \in Nat
      BY <1>1 DEF counterAfterRoot, EditFits
    <3>2. next.nextId = counterAfterRoot(doc, edit) + taken
      BY <1>6
    <3> QED BY <1>4, <1>9, <3>1, <3>2
  <2>3. \A m, n \in 1..Len(parsed) : next.blocks[m].id = next.blocks[n].id => m = n
    BY <1>4, <1>9
  <2> QED BY <1>8, <2>1, <2>2, <2>3 DEF Numbered
<1>11. DocumentSound(next)
  <2>1. next.revision \in 0..MaxRevision /\ next.changes = next.revision
    BY <1>1, <1>3, <1>6, HtmlAssumption
  <2> QED BY <1>2, <1>3, <1>6, <1>7, <1>10, <2>1 DEF DocumentSound, parsed
<1>12. DOMAIN next.blocks = 1..Len(parsed) /\ Len(next.blocks) = Len(parsed)
  <2>1. DOMAIN next.blocks = 1..Len(parsed)
    BY <1>6
  <2> QED BY <1>5, <1>6, <2>1
<1>13. ASSUME NEW id \in ids(next.blocks)
       PROVE  id \in ids(doc.blocks) \/ id >= doc.nextId
  <2>1. PICK n \in 1..Len(parsed) : id = next.blocks[n].id
    BY <1>12 DEF ids, Range
  <2> QED BY <1>4, <1>9, <2>1
<1> QED BY <1>6, <1>7, <1>9, <1>11, <1>12, <1>13 DEF next, given, html
-----------------------------------------------------------------------------
(* The editor's operations make edits that fit their document. *)

(* A fragment of one block has a token.                                    *)
LEMMA SingleBlockIsNotEmpty ==
  ASSUME NEW fragment \in Fragment, isSingleBlock(fragment)
  PROVE  fragment \in Seq(Token) /\ Len(fragment) \in Nat \ {0}
<1>1. fragment \in Seq(Token)
  BY HtmlAssumption
<1>2. ASSUME Len(fragment) = 0
      PROVE  FALSE
  <2>1. Starts(fragment) = {}
    BY <1>2 DEF Starts, Positions
  <2>2. Cardinality(Starts(fragment)) = 0
    BY <2>1, FS_EmptySet
  <2>3. Range(parseBlocks(fragment)) = {}
    BY <2>2 DEF parseBlocks, Range
  <2> DEFINE top == {b \in Range(parseBlocks(fragment)) :
                      Containers(parseBlocks(fragment), b) = {}}
  <2>4. top = {}
    BY <2>3
  <2>5. Cardinality(top) = 1
    BY DEF isSingleBlock
  <2> HIDE DEF top
  <2> QED BY <2>4, <2>5, FS_EmptySet
<1> QED BY <1>1, <1>2

(* What makes an edit one that fits, in the terms of its members. *)
LEMMA FittingEdit ==
  ASSUME NEW doc, doc.html \in Seq(Token), NEW begin \in Nat, NEW end \in Nat,
         begin <= end, end <= Len(doc.html), NEW replacement \in Seq(Token), NEW root,
         root = NoRoot <=> replacement = <<>>
  PROVE  /\ nextHtml(doc, EditOf(begin, end, replacement, root, TRUE)) # doc.html
              /\ root = doc.nextId /\ begin = end
              => EditFits(doc, EditOf(begin, end, replacement, root, TRUE))
         /\ nextHtml(doc, EditOf(begin, end, replacement, root, FALSE)) # doc.html
              /\ (\E b \in Range(doc.blocks) :
                    b.rawBegin = begin /\ b.rawEnd = end /\ root \in {NoRoot, b.id})
              => EditFits(doc, EditOf(begin, end, replacement, root, FALSE))
         /\ \A allocates \in BOOLEAN :
              IsSplice(Token, nextHtml(doc, EditOf(begin, end, replacement, root, allocates)),
                       doc.html, begin, end, replacement)
<1>1. ASSUME NEW allocates \in BOOLEAN,
             NEW edit, edit = EditOf(begin, end, replacement, root, allocates)
      PROVE  /\ edit.begin = begin /\ edit.end = end /\ edit.replacement = replacement
             /\ edit.root = root /\ edit.allocates = allocates
  BY <1>1 DEF EditOf
<1>2. ASSUME NEW edit, edit = EditOf(begin, end, replacement, root, TRUE),
             nextHtml(doc, edit) # doc.html, root = doc.nextId, begin = end
      PROVE  EditFits(doc, edit)
  BY <1>1, <1>2 DEF EditFits
<1>3. ASSUME NEW edit, edit = EditOf(begin, end, replacement, root, FALSE),
             nextHtml(doc, edit) # doc.html,
             \E b \in Range(doc.blocks) :
               b.rawBegin = begin /\ b.rawEnd = end /\ root \in {NoRoot, b.id}
      PROVE  EditFits(doc, edit)
  BY <1>1, <1>3 DEF EditFits
<1>4. ASSUME NEW allocates \in BOOLEAN
      PROVE  IsSplice(Token, nextHtml(doc, EditOf(begin, end, replacement, root, allocates)),
                      doc.html, begin, end, replacement)
  <2>1. nextHtml(doc, EditOf(begin, end, replacement, root, allocates)) =
          Spliced(doc.html, begin, end, replacement)
    BY <1>1 DEF nextHtml
  <2> QED BY <2>1, SplicedParts DEF Spliced
<1> QED BY <1>2, <1>3, <1>4

(* A block is created anywhere. *)
LEMMA CreationFits ==
  ASSUME NEW doc, DocumentSound(doc), NEW fragment \in Fragment, isSingleBlock(fragment),
         NEW insertion \in Nat, insertion <= Len(doc.html)
  PROVE  EditFits(doc, EditOf(insertion, insertion, fragment, doc.nextId, TRUE))
<1> DEFINE html == nextHtml(doc, EditOf(insertion, insertion, fragment, doc.nextId, TRUE))
<1>1. /\ fragment \in Seq(Token) /\ Len(fragment) \in Nat /\ Len(fragment) > 0
      /\ fragment # <<>>
  BY SingleBlockIsNotEmpty
<1>2. /\ doc.html \in Seq(Token) /\ Len(doc.html) \in Nat /\ doc.nextId # NoRoot
      /\ insertion \in Nat /\ insertion <= insertion /\ insertion <= Len(doc.html)
  BY HtmlAssumption DEF DocumentSound, NoRoot
<1>3. IsSplice(Token, html, doc.html, insertion, insertion, fragment)
  BY <1>1, <1>2, FittingEdit
<1>4. html # doc.html
  <2> HIDE DEF html
  <2>1. Len(html) = insertion + Len(fragment) + (Len(doc.html) - insertion)
    BY <1>3 DEF IsSplice
  <2>2. \A i, l, n \in Nat : n > 0 => i + n + (l - i) # l
    OBVIOUS
  <2>3. Len(html) # Len(doc.html)
    BY <1>1, <1>2, <2>1, <2>2
  <2> QED BY <2>3
<1> QED BY <1>1, <1>2, <1>4, FittingEdit

(* A block is removed. *)
LEMMA RemovalFits ==
  ASSUME NEW doc, DocumentSound(doc), NEW b \in Range(doc.blocks)
  PROVE  EditFits(doc, removalOf(b))
<1> DEFINE html == nextHtml(doc, EditOf(b.rawBegin, b.rawEnd, <<>>, NoRoot, FALSE))
<1>1. /\ doc.html \in Seq(Token) /\ Len(doc.html) \in Nat
      /\ b.rawBegin \in Nat /\ b.rawEnd \in Nat
      /\ b.rawBegin < b.rawEnd /\ b.rawEnd <= Len(doc.html)
  BY DocumentBlocks DEF PlacedIn
<1>2. <<>> \in Seq(Token) /\ Len(<<>>) = 0 /\ b.rawBegin <= b.rawEnd
  BY <1>1
<1>3. IsSplice(Token, html, doc.html, b.rawBegin, b.rawEnd, <<>>)
  BY <1>1, <1>2, FittingEdit
<1>4. html # doc.html
  <2> HIDE DEF html
  <2>1. Len(html) = b.rawBegin + Len(<<>>) + (Len(doc.html) - b.rawEnd)
    BY <1>3 DEF IsSplice
  <2>2. Len(html) # Len(doc.html)
    BY <1>1, <1>2, <2>1
  <2> QED BY <2>2
<1>5. \E c \in Range(doc.blocks) :
        c.rawBegin = b.rawBegin /\ c.rawEnd = b.rawEnd /\ NoRoot \in {NoRoot, c.id}
  OBVIOUS
<1> QED BY <1>1, <1>2, <1>4, <1>5, FittingEdit DEF removalOf

(* A block is replaced by another. *)
LEMMA UpdateFits ==
  ASSUME NEW doc, DocumentSound(doc), NEW b \in Range(doc.blocks),
         NEW fragment \in Fragment, isSingleBlock(fragment),
         fragment # SubSeq(doc.html, b.rawBegin + 1, b.rawEnd)
  PROVE  EditFits(doc, updateOf(b, fragment))
<1> DEFINE html == nextHtml(doc, EditOf(b.rawBegin, b.rawEnd, fragment, b.id, FALSE))
           source == doc.html
           part == SubSeq(source, b.rawBegin + 1, b.rawEnd)
<1>1. /\ source \in Seq(Token) /\ Len(source) \in Nat
      /\ b.rawBegin \in Nat /\ b.rawEnd \in Nat
      /\ b.rawBegin < b.rawEnd /\ b.rawEnd <= Len(source)
  BY DocumentBlocks DEF PlacedIn
<1>2. b.id # NoRoot
  <2>1. b.id \in ids(doc.blocks)
    BY DEF ids
  <2>2. ids(doc.blocks) \subseteq 1..doc.nextId - 1 /\ doc.nextId \in Nat
    BY DocumentBlocks
  <2> QED BY <2>1, <2>2 DEF NoRoot
<1>3. fragment \in Seq(Token) /\ Len(fragment) \in Nat \ {0} /\ fragment # <<>>
      /\ b.rawBegin <= b.rawEnd
  BY <1>1, SingleBlockIsNotEmpty
<1>4. IsSplice(Token, html, source, b.rawBegin, b.rawEnd, fragment)
  BY <1>1, <1>2, <1>3, FittingEdit
<1>5. fragment # part
  OBVIOUS
<1> HIDE DEF html, source
<1>6. /\ part \in Seq(Token) /\ Len(part) = b.rawEnd - b.rawBegin
      /\ \A p \in 1..b.rawEnd - b.rawBegin : part[p] = source[b.rawBegin + p]
  <2> DEFINE first == b.rawBegin + 1
             last == b.rawEnd
  <2>1. /\ source \in Seq(Token) /\ first \in 1..Len(source) + 1 /\ last \in first - 1..Len(source)
        /\ (last - first) + 1 = b.rawEnd - b.rawBegin
        /\ \A p \in 1..b.rawEnd - b.rawBegin : (first + p) - 1 = b.rawBegin + p
    <3>1. first \in 1..Len(source) + 1 /\ last \in first - 1..Len(source)
      BY <1>1
    <3>2. (last - first) + 1 = b.rawEnd - b.rawBegin
      BY <1>1
    <3>3. \A p \in 1..b.rawEnd - b.rawBegin : (first + p) - 1 = b.rawBegin + p
      BY <1>1
    <3> QED BY <1>1, <3>1, <3>2, <3>3
  <2>2. first <= last
    BY <1>1
  <2> HIDE DEF first, last
  <2>3. /\ SubSeq(source, first, last) \in Seq(Token)
        /\ Len(SubSeq(source, first, last)) = (last - first) + 1
        /\ \A p \in 1..(last - first) + 1 :
              SubSeq(source, first, last)[p] = source[(first + p) - 1]
    BY <2>1, <2>2, SubSeqProperties
  <2>4. part = SubSeq(source, first, last)
    BY DEF first, last
  <2> HIDE DEF part
  <2> QED BY <2>1, <2>3, <2>4
<1> HIDE DEF part
<1>7. ASSUME html = source
      PROVE  FALSE
  <2>1. Len(source) = b.rawBegin + Len(fragment) + (Len(source) - b.rawEnd)
        /\ \A p \in 1..Len(fragment) : source[b.rawBegin + p] = fragment[p]
    <3>1. IsSplice(Token, source, source, b.rawBegin, b.rawEnd, fragment)
      BY <1>4, <1>7
    <3> QED BY <3>1 DEF IsSplice
  <2>2. Len(fragment) = b.rawEnd - b.rawBegin
    <3>1. /\ Len(source) \in Nat /\ Len(fragment) \in Nat
          /\ b.rawBegin \in Nat /\ b.rawEnd \in Nat
      BY <1>1, <1>3
    <3>2. Len(source) = b.rawBegin + Len(fragment) + (Len(source) - b.rawEnd)
      BY <2>1
    <3>3. \A n, k, i, j \in Nat : n = i + k + (n - j) => k = j - i
      OBVIOUS
    <3> QED BY <3>1, <3>2, <3>3, Z3T(30)
  <2>3. \A p \in 1..Len(fragment) : fragment[p] = part[p]
    BY <1>6, <2>1, <2>2
  <2>4. fragment = part
    BY <1>3, <1>6, <2>2, <2>3
  <2> QED BY <1>5, <2>4
<1>8. \E c \in Range(doc.blocks) :
        c.rawBegin = b.rawBegin /\ c.rawEnd = b.rawEnd /\ b.id \in {NoRoot, c.id}
  OBVIOUS
<1> QED BY <1>1, <1>2, <1>3, <1>7, <1>8, FittingEdit DEF updateOf, html, source
-----------------------------------------------------------------------------
(* The inductive invariant: the blocks of the source have ids of their own *)
(* that the counter has passed, as it has those of the blocks that are     *)
(* gone; and every token has a mark of its own.                            *)
IInv ==
  /\ DocumentSound(document)
  /\ MarksSound(marks, Len(document.html), document.revision)
  /\ retired \subseteq 1..document.nextId - 1
  /\ IdsNeverReturn

(* A document that is created is sound.                                    *)
LEMMA IInvInit == Init => IInv
<1> SUFFICES ASSUME Init
             PROVE  IInv
  OBVIOUS
<1>1. PICK html \in Source :
        document = fromHtml(html) /\ Parses(html) /\ Len(parseBlocks(html)) < MaxId
  BY DEF Init
<1> DEFINE parsed == parseBlocks(html)
<1>2. html \in Seq(Token) /\ Len(html) \in Nat
  BY HtmlAssumption
<1>3. /\ Len(parsed) \in Nat
      /\ parsed = [n \in 1..Len(parsed) |-> parsed[n]]
      /\ \A n \in 1..Len(parsed) : PlacedIn(html, parsed[n]) /\ parsed[n].id = n
  BY <1>1, <1>2, ParsedBlocks
<1>4. /\ document.html = html /\ document.blocks = parsed
      /\ document.nextId = Len(parsed) + 1
      /\ document.revision = 0 /\ document.changes = 0
  BY <1>1 DEF fromHtml
<1>5. Len(parsed) < MaxId
  BY <1>1
<1> HIDE DEF parsed
<1>6. ASSUME NEW n \in 1..Len(parsed)
      PROVE  parsed[n] = [parsed[n] EXCEPT !.id = parsed[n].id]
  <2> DEFINE p == parsed[n]
  <2>1. p = [id |-> p.id, tagName |-> p.tagName, rawBegin |-> p.rawBegin,
             valueBegin |-> p.valueBegin, valueEnd |-> p.valueEnd, rawEnd |-> p.rawEnd]
    BY <1>3 DEF PlacedIn
  <2> HIDE DEF p
  <2>2. p = [p EXCEPT !.id = p.id]
    BY <2>1
  <2> QED BY <2>2 DEF p
<1>7. Numbered(parsed, parsed, Len(parsed) + 1)
  <2>1. \A n \in 1..Len(parsed) : parsed[n].id \in 1..(Len(parsed) + 1) - 1
    BY <1>3
  <2>2. \A m, n \in 1..Len(parsed) : parsed[m].id = parsed[n].id => m = n
    BY <1>3
  <2> QED BY <1>3, <1>6, <2>1, <2>2 DEF Numbered
<1>8. DocumentSound(document)
  <2>1. document.nextId \in 1..MaxId
    BY <1>3, <1>4, <1>5, HtmlAssumption
  <2>2. document.revision \in 0..MaxRevision
    BY <1>4, HtmlAssumption
  <2> QED BY <1>1, <1>2, <1>4, <1>7, <2>1, <2>2 DEF DocumentSound, parsed
<1>9. MarksSound(marks, Len(document.html), document.revision)
  <2>1. marks = [i \in 1..Len(html) |-> <<0, i>>]
    BY <1>4 DEF Init
  <2> QED BY <1>2, <1>4, <2>1 DEF MarksSound
<1>10. retired = {}
  BY DEF Init
<1> QED BY <1>8, <1>9, <1>10 DEF IInv, IdsNeverReturn

(* Every step is an edit that fits. *)
LEMMA StepsAreEdits ==
  ASSUME IInv, Next
  PROVE  \E edit : EditFits(document, edit) /\ replaceRange(edit)
<1>1. DocumentSound(document) /\ document.html \in Seq(Token) /\ Len(document.html) \in Nat
  BY DocumentBlocks DEF IInv
<1>2. ASSUME NEW fragment \in Fragment, CreateBlock(fragment)
      PROVE  \E edit : EditFits(document, edit) /\ replaceRange(edit)
  <2>1. Len(document.html) <= Len(document.html)
    BY <1>1
  <2> QED BY <1>1, <1>2, <2>1, CreationFits DEF CreateBlock, CreateAt, creationOf
<1>3. ASSUME NEW b \in Range(document.blocks), NEW fragment \in Fragment,
             CreateIn(b, fragment)
      PROVE  \E edit : EditFits(document, edit) /\ replaceRange(edit)
  <2>1. b.valueEnd \in Nat /\ b.rawEnd \in Nat
        /\ b.valueEnd <= b.rawEnd /\ b.rawEnd <= Len(document.html)
    BY <1>1, DocumentBlocks DEF PlacedIn
  <2>2. b.valueEnd <= Len(document.html)
    BY <1>1, <2>1
  <2> QED BY <1>1, <1>3, <2>1, <2>2, CreationFits DEF CreateIn, insertionIn, CreateAt, creationOf
<1>4. ASSUME NEW b \in Range(document.blocks), NEW fragment \in Fragment,
             UpdateBlock(b, fragment)
      PROVE  \E edit : EditFits(document, edit) /\ replaceRange(edit)
  BY <1>1, <1>4, UpdateFits DEF UpdateBlock
<1>5. ASSUME NEW b \in Range(document.blocks), RemoveBlock(b)
      PROVE  \E edit : EditFits(document, edit) /\ replaceRange(edit)
  BY <1>1, <1>5, RemovalFits DEF RemoveBlock
<1> QED BY <1>2, <1>3, <1>4, <1>5 DEF Next

(* What an edit does to document and marks. *)
LEMMA EditsKeep ==
  ASSUME IInv, NEW edit, EditFits(document, edit), replaceRange(edit)
  PROVE  /\ IInv'
         /\ document'.html = nextHtml(document, edit)
         /\ document'.revision = document.revision + 1
         /\ \A n \in 1..Len(document'.blocks) :
              document'.blocks[n].id = idGiven(document, edit, n)
         /\ marks' = Spliced(marks, edit.begin, edit.end,
                        NewMarks(document.revision + 1, Len(edit.replacement)))
<1>1. /\ document' = replaced(document, edit) /\ CanReplace(document, edit)
      /\ retired' = retired \cup (ids(document.blocks) \ ids(document'.blocks))
  BY DEF replaceRange
<1>2. /\ DocumentSound(document')
      /\ document'.html = nextHtml(document, edit)
      /\ document'.revision = document.revision + 1
      /\ document'.nextId >= document.nextId
      /\ \A n \in 1..Len(document'.blocks) :
           document'.blocks[n].id = idGiven(document, edit, n)
      /\ \A id \in ids(document'.blocks) :
           id \in ids(document.blocks) \/ id >= document.nextId
  BY <1>1, ReplacedSound DEF IInv
<1>3. /\ document.revision \in Nat /\ document.html \in Seq(Token)
      /\ document.nextId \in Nat /\ document'.nextId \in Nat
      /\ ids(document.blocks) \subseteq 1..document.nextId - 1
  BY <1>2, DocumentBlocks, HtmlAssumption DEF IInv, DocumentSound
<1>4. /\ edit.begin \in Nat /\ edit.end \in Nat /\ edit.replacement \in Seq(Token)
      /\ edit.begin <= edit.end /\ edit.end <= Len(document.html)
  BY DEF EditFits
<1>5. marks' = Spliced(marks, edit.begin, edit.end,
                 NewMarks(document.revision + 1, Len(edit.replacement)))
  BY <1>2 DEF replaceRange, NewMarks
<1>6. MarksSound(marks', Len(document'.html), document'.revision)
  <2>1. IsSplice(Token, document'.html, document.html, edit.begin, edit.end,
                 edit.replacement)
    BY <1>2, <1>3, <1>4, SplicedParts DEF nextHtml, Spliced
  <2>2. Len(document'.html) =
          edit.begin + Len(edit.replacement) + (Len(document.html) - edit.end)
    BY <2>1 DEF IsSplice
  <2>3. Len(edit.replacement) \in Nat /\ Len(document.html) \in Nat
    BY <1>3, <1>4
  <2>4. MarksSound(marks, Len(document.html), document.revision)
    BY DEF IInv
  <2>5. MarksSound(Spliced(marks, edit.begin, edit.end,
                     NewMarks(document.revision + 1, Len(edit.replacement))),
                   edit.begin + Len(edit.replacement) + (Len(document.html) - edit.end),
                   document.revision + 1)
    BY <1>3, <1>4, <2>3, <2>4, MarksMove DEF Spliced, Splice
  <2> QED BY <1>2, <1>5, <2>2, <2>5
<1>7. ASSUME NEW id \in retired'
      PROVE  id \in 1..document'.nextId - 1 /\ id \notin ids(document'.blocks)
  <2>1. id \in 1..document.nextId - 1
    BY <1>1, <1>3 DEF IInv
  <2>2. id \in 1..document'.nextId - 1
    BY <1>2, <1>3, <2>1
  <2>3. CASE id \in retired
    BY <1>2, <1>3, <2>1, <2>3 DEF IInv, IdsNeverReturn
  <2>4. CASE id \notin retired
    BY <1>1, <2>2, <2>4
  <2> QED BY <2>2, <2>3, <2>4
<1>8. IInv'
  BY <1>2, <1>6, <1>7 DEF IInv, IdsNeverReturn
<1> QED BY <1>2, <1>5, <1>8

(* The invariant is inductive.                                             *)
LEMMA IInvNext == IInv /\ [Next]_vars => IInv'
<1>1. IInv /\ Next => IInv'
  BY StepsAreEdits, EditsKeep
<1>2. IInv /\ UNCHANGED vars => IInv'
  BY DEF IInv, IdsNeverReturn, vars
<1> QED BY <1>1, <1>2

(* The inductive invariant holds in every reachable state. *)
THEOREM HtmlInvariant == Spec => []IInv
  BY IInvInit, IInvNext, PTL DEF Spec

(* However a document was edited, its blocks are those that its source     *)
(* parses into, no two under one id and none under an id to come.          *)
THEOREM HtmlTypeOK == Spec => []TypeOK
<1>1. IInv => TypeOK
  <2> SUFFICES ASSUME IInv
               PROVE  TypeOK
    OBVIOUS
  <2>1. DocumentSound(document)
    BY DEF IInv
  <2>2. /\ Len(document.blocks) = Len(parseBlocks(document.html))
        /\ \A n \in 1..Len(document.blocks) :
             /\ [document.blocks[n] EXCEPT !.id = n] = parseBlocks(document.html)[n]
             /\ document.blocks[n].id \in 1..document.nextId - 1
        /\ Cardinality(ids(document.blocks)) = Len(document.blocks)
    BY <2>1, DocumentBlocks
  <2>3. /\ Parses(document.html) /\ document.nextId \in 1..MaxId
        /\ document.revision \in 0..MaxRevision /\ document.changes = document.revision
    BY <2>1 DEF DocumentSound
  <2>4. Len(marks) = Len(document.html)
    BY DEF IInv, MarksSound
  <2>5. retired \subseteq 1..MaxId
    BY <2>3, HtmlAssumption DEF IInv
  <2> QED BY <2>2, <2>3, <2>4, <2>5 DEF TypeOK
<1> QED BY <1>1, HtmlInvariant, PTL

(* The id of a block that is gone is never given to another: a caller who  *)
(* still holds it finds no block, and never a wrong one.                   *)
THEOREM IdsAreNotReused == Spec => []IdsNeverReturn
<1>1. IInv => IdsNeverReturn
  BY DEF IInv
<1> QED BY <1>1, HtmlInvariant, PTL
-----------------------------------------------------------------------------
(* An id stands for the same tags. *)

(* The n-th parsed block is the root of the replacement. *)
IsRoot(edit, parsed, n) == edit.root # NoRoot /\ rangeOf(parsed[n]) = rootRange(edit)

(* The old blocks that the n-th parsed one may be. *)
Candidates(doc, edit, parsed, n) ==
  {old \in Preserved(doc, edit) :
     /\ expectedRange(old, edit) = rangeOf(parsed[n])
     /\ old.tagName = parsed[n].tagName}

(* Where the id of a parsed block comes from. *)
LEMMA WhichId ==
  ASSUME NEW doc, DocumentSound(doc), NEW edit, EditFits(doc, edit),
         Parses(nextHtml(doc, edit)), NEW parsed, parsed = parseBlocks(nextHtml(doc, edit)),
         NEW n \in 1..Len(parsed)
  PROVE  /\ IsRoot(edit, parsed, n) => idGiven(doc, edit, n) = edit.root
         /\ ~IsRoot(edit, parsed, n) =>
              \/ idGiven(doc, edit, n) >= doc.nextId /\ Candidates(doc, edit, parsed, n) = {}
              \/ \E b \in Candidates(doc, edit, parsed, n) : b.id = idGiven(doc, edit, n)
<1> DEFINE new == NewBlocks(doc, edit, parsed)
           carried == carriedId(doc, edit, parsed, n)
           given == idGiven(doc, edit, n)
           first == counterAfterRoot(doc, edit)
           inFront == Cardinality(new \cap 1..n - 1)
<1>1. doc.html \in Seq(Token) /\ doc.nextId \in Nat
  BY DocumentBlocks
<1>2. nextHtml(doc, edit) \in Seq(Token)
  BY <1>1, SplicedParts DEF EditFits, nextHtml, Spliced, IsSplice
<1>3. Len(parsed) \in Nat
  <2>1. Len(nextHtml(doc, edit)) \in Nat
    BY <1>2
  <2> QED BY <2>1, ParsedBlocks
<1>4. n \in new <=> carried = {}
  BY DEF NewBlocks
<1>5. /\ n \in new => given = first + inFront
      /\ n \notin new => given = CHOOSE id \in carried : TRUE
  BY DEF idGiven
<1>6. n \in new => inFront \in Nat
  <2>1. new \subseteq 1..Len(parsed)
    BY DEF NewBlocks
  <2> HIDE DEF new
  <2> HIDE DEF inFront
  <2>2. Cardinality(new) \in Nat
    BY <1>3, <2>1, EveryRankIsTaken
  <2>3. \A k \in new : Cardinality(new \cap 1..k - 1) \in 0..Cardinality(new) - 1
    BY <1>3, <2>1, CountInFrontDiffers
  <2>4. \A k \in new : Cardinality(new \cap 1..k - 1) \in Nat
    BY <2>2, <2>3
  <2> QED BY <2>4 DEF inFront
<1>7. first \in Nat /\ first >= doc.nextId
  BY <1>1 DEF counterAfterRoot, EditFits
<1>8. CASE IsRoot(edit, parsed, n)
  <2>1. carried = {edit.root}
    BY <1>8 DEF carriedId, IsRoot
  <2> HIDE DEF carried, given, new
  <2>2. given = edit.root
    BY <1>4, <1>5, <2>1
  <2> QED BY <1>8, <2>2 DEF given
<1>9. CASE ~IsRoot(edit, parsed, n)
  <2>1. carried = {b.id : b \in Candidates(doc, edit, parsed, n)}
    BY <1>9 DEF carriedId, IsRoot, Candidates
  <2> HIDE DEF carried, given, new, first, inFront
  <2>2. CASE carried = {}
    <3>1. Candidates(doc, edit, parsed, n) = {}
      BY <2>1, <2>2
    <3>2. given >= doc.nextId
      BY <1>1, <1>4, <1>5, <1>6, <1>7, <2>2
    <3> QED BY <1>9, <3>1, <3>2 DEF given
  <2>3. CASE carried # {}
    <3>1. given \in carried
      BY <1>4, <1>5, <2>3
    <3> QED BY <1>9, <2>1, <3>1 DEF given
  <2> QED BY <2>2, <2>3
<1> QED BY <1>8, <1>9

(* The range computed for a block is where its tags have moved to. *)
LEMMA ExpectedIsMoved ==
  ASSUME NEW edit, edit.begin \in Nat, edit.end \in Nat, edit.begin <= edit.end,
         Len(edit.replacement) \in Nat,
         NEW b, b.rawBegin \in Nat, b.rawEnd \in Nat, b.rawBegin < b.rawEnd,
         NEW c, c.rawBegin \in Nat, c.rawEnd \in Nat
  PROVE  MovedTo(edit, b, c) <=> Apart(edit, b) /\ expectedRange(b, edit) = rangeOf(c)
<1> DEFINE a == edit.begin
           z == edit.end
           r == Len(edit.replacement)
           x == b.rawBegin
           y == b.rawEnd
           u == c.rawBegin
           v == c.rawEnd
<1>1. /\ a \in Nat /\ z \in Nat /\ a <= z /\ r \in Nat
      /\ x \in Nat /\ y \in Nat /\ x < y /\ u \in Nat /\ v \in Nat
  OBVIOUS
<1>2. MovedTo(edit, b, c) <=>
        /\ \/ x + 1 <= a /\ u + 1 = x + 1
           \/ x + 1 > z /\ u + 1 = a + r + ((x + 1) - z)
        /\ \/ y <= a /\ v = y
           \/ y > z /\ v = a + r + (y - z)
  BY DEF MovedTo, Moved
<1>3. Apart(edit, b) <=>
        /\ (x # a) \/ (y # z)
        /\ (y <= a) \/ (x >= z) \/ (x < a /\ y > z)
  BY DEF Apart
<1>4. /\ y <= a => (expectedRange(b, edit) = rangeOf(c) <=> u = x /\ v = y)
      /\ ~(y <= a) /\ x >= z =>
           (expectedRange(b, edit) = rangeOf(c) <=>
              u = a + r + (x - z) /\ v = a + r + (y - z))
      /\ ~(y <= a) /\ ~(x >= z) =>
           (expectedRange(b, edit) = rangeOf(c) <=> u = x /\ v = y - (z - a) + r)
  BY DEF expectedRange, rangeOf, shiftedAfterEdit, expandedAncestorEnd
<1> HIDE DEF a, z, r, x, y, u, v
<1>5. CASE y <= a
  BY <1>1, <1>2, <1>3, <1>4, <1>5
<1>6. CASE ~(y <= a) /\ x >= z
  BY <1>1, <1>2, <1>3, <1>4, <1>6
<1>7. CASE ~(y <= a) /\ ~(x >= z)
  BY <1>1, <1>2, <1>3, <1>4, <1>7
<1> QED BY <1>5, <1>6, <1>7

(* b gives its id to c, which has come into its place. *)
Replaces(edit, b, c) ==
  /\ b.rawBegin = edit.begin /\ edit.begin < edit.end
  /\ c.rawBegin = edit.begin /\ Len(edit.replacement) > 0

(* A parsed block gets the id of the block whose tags have moved to its    *)
(* ends, or that it has come into the place of, and of no other.           *)
LEMMA IdentityByRanges ==
  ASSUME NEW doc, DocumentSound(doc), NEW edit, EditFits(doc, edit), CanReplace(doc, edit),
         NEW parsed, parsed = parseBlocks(nextHtml(doc, edit)),
         NEW n \in 1..Len(parsed), NEW b \in Range(doc.blocks)
  PROVE  b.id = idGiven(doc, edit, n)
           <=> MovedTo(edit, b, parsed[n]) \/ Replaces(edit, b, parsed[n])
<1> DEFINE html == nextHtml(doc, edit)
           p == parsed[n]
           given == idGiven(doc, edit, n)
           a == edit.begin
           z == edit.end
           r == Len(edit.replacement)
<1>1. /\ doc.html \in Seq(Token) /\ Len(doc.html) \in Nat /\ doc.nextId \in Nat
      /\ \A c, d \in Range(doc.blocks) :
           c.id = d.id \/ c.rawBegin = d.rawBegin => c = d
      /\ \A c \in Range(doc.blocks) : PlacedIn(doc.html, c)
  BY DocumentBlocks
<1>2. \A c \in Range(doc.blocks) : c.id \in 1..doc.nextId - 1
  BY DocumentBlocks DEF ids
<1>3. /\ a \in Nat /\ z \in Nat /\ a <= z /\ z <= Len(doc.html) /\ r \in Nat
      /\ edit.replacement \in Seq(Token)
  BY DEF EditFits
<1>4. edit.root # NoRoot <=> r > 0
  BY <1>3 DEF EditFits
<1>5. /\ Parses(html)
      /\ edit.root # NoRoot => \E c \in Range(parsed) : rangeOf(c) = rootRange(edit)
  BY DEF CanReplace, RangesFound
<1>6. IsSplice(Token, html, doc.html, a, z, edit.replacement)
  BY <1>1, <1>3, SplicedParts DEF nextHtml, Spliced
<1>7. /\ Len(parsed) \in Nat /\ Range(parsed) = {parsed[k] : k \in 1..Len(parsed)}
      /\ \A k \in 1..Len(parsed) : PlacedIn(html, parsed[k])
      /\ BeginsDiffer(parsed)
  <2>1. Len(html) \in Nat
    BY <1>6 DEF IsSplice
  <2>2. /\ Len(parsed) \in Nat /\ parsed = [k \in 1..Len(parsed) |-> parsed[k]]
        /\ \A k \in 1..Len(parsed) : PlacedIn(html, parsed[k])
        /\ BeginsDiffer(parsed)
    BY <1>5, <2>1, ParsedBlocks
  <2>3. DOMAIN parsed = 1..Len(parsed)
    BY <2>2
  <2> QED BY <2>2, <2>3 DEF Range
<1>8. /\ IsRoot(edit, parsed, n) => given = edit.root
      /\ ~IsRoot(edit, parsed, n) =>
           \/ given >= doc.nextId /\ Candidates(doc, edit, parsed, n) = {}
           \/ \E c \in Candidates(doc, edit, parsed, n) : c.id = given
  BY <1>5, WhichId
<1>9. p.rawBegin \in Nat /\ p.rawEnd \in Nat /\ p.tagName = html[p.rawBegin + 1].tag
  BY <1>7 DEF PlacedIn
<1>10. ASSUME NEW c \in Range(doc.blocks)
       PROVE  /\ c.rawBegin \in Nat /\ c.rawEnd \in Nat /\ c.rawBegin < c.rawEnd
              /\ c.rawEnd <= Len(doc.html)
              /\ c.tagName = doc.html[c.rawBegin + 1].tag
              /\ MovedTo(edit, c, p) <=>
                   Apart(edit, c) /\ expectedRange(c, edit) = rangeOf(p)
  <2>1. /\ c.rawBegin \in Nat /\ c.rawEnd \in Nat /\ c.rawBegin < c.rawEnd
        /\ c.rawEnd <= Len(doc.html) /\ c.tagName = doc.html[c.rawBegin + 1].tag
    BY <1>1 DEF PlacedIn
  <2> HIDE DEF p
  <2> QED BY <1>3, <1>9, <2>1, ExpectedIsMoved
<1>11. \A c \in Candidates(doc, edit, parsed, n) :
         c \in Range(doc.blocks) /\ MovedTo(edit, c, p)
  BY <1>10 DEF Candidates, Preserved, Apart
<1>12. \A c, d \in Range(doc.blocks) :
         MovedTo(edit, c, p) /\ MovedTo(edit, d, p) => c = d
  <2> SUFFICES ASSUME NEW c \in Range(doc.blocks), NEW d \in Range(doc.blocks),
                      MovedTo(edit, c, p), MovedTo(edit, d, p)
               PROVE  c.rawBegin = d.rawBegin
    BY <1>1
  <2>1. c.rawBegin \in Nat /\ d.rawBegin \in Nat
    BY <1>10
  <2>2. /\ Moved(a, z, r, c.rawBegin + 1, p.rawBegin + 1)
        /\ Moved(a, z, r, d.rawBegin + 1, p.rawBegin + 1)
    BY DEF MovedTo
  <2> HIDE DEF a, z, r, p
  <2>3. \A x, y, u \in Nat :
          Moved(a, z, r, x + 1, u + 1) /\ Moved(a, z, r, y + 1, u + 1) => x = y
    BY <1>3 DEF Moved
  <2> QED BY <1>9, <2>1, <2>2, <2>3
<1>13. ASSUME NEW c \in Range(doc.blocks), c.id = edit.root
       PROVE  c.rawBegin = a /\ c.rawEnd = z /\ ~edit.allocates
  <2>1. edit.root \in 1..doc.nextId - 1
    BY <1>2, <1>13
  <2>2. ~edit.allocates /\ edit.root # NoRoot
    BY <1>1, <2>1 DEF EditFits, NoRoot
  <2>3. PICK d \in Range(doc.blocks) :
          d.rawBegin = a /\ d.rawEnd = z /\ edit.root \in {NoRoot, d.id}
    BY <2>2 DEF EditFits
  <2> QED BY <1>1, <1>13, <2>2, <2>3
<1>14. ASSUME MovedTo(edit, b, p)
       PROVE  b.id = given
  <2>1. Apart(edit, b) /\ expectedRange(b, edit) = rangeOf(p)
    BY <1>10, <1>14
  <2>2. b.id # edit.root
    BY <1>13, <2>1 DEF Apart
  <2>3. b \in Preserved(doc, edit)
    BY <2>1, <2>2 DEF Preserved, Apart
  <2>4. Moved(a, z, r, b.rawBegin + 1, p.rawBegin + 1)
    BY <1>14 DEF MovedTo
  <2>5. b.rawBegin \in Nat /\ b.rawBegin + 1 \in 1..Len(doc.html)
    BY <1>1, <1>10
  <2>6. ~IsRoot(edit, parsed, n)
    <3>1. ASSUME p.rawBegin = a, r > 0
          PROVE  FALSE
      <4> HIDE DEF a, z, r, p
      <4> QED BY <1>3, <1>9, <2>4, <2>5, <3>1 DEF Moved
    <3> QED BY <1>4, <3>1 DEF IsRoot, rangeOf, rootRange
  <2>7. html[p.rawBegin + 1] = doc.html[b.rawBegin + 1]
    <3>1. /\ \A k \in 1..a : html[k] = doc.html[k]
          /\ \A k \in z + 1..Len(doc.html) : html[a + r + (k - z)] = doc.html[k]
      BY <1>6 DEF IsSplice
    <3> HIDE DEF a, z, r, p, html
    <3>2. CASE b.rawBegin + 1 <= a /\ p.rawBegin + 1 = b.rawBegin + 1
      BY <1>3, <2>5, <3>1, <3>2
    <3>3. CASE b.rawBegin + 1 > z /\ p.rawBegin + 1 = a + r + ((b.rawBegin + 1) - z)
      <4>1. b.rawBegin + 1 \in z + 1..Len(doc.html)
        BY <1>1, <1>3, <2>5, <3>3
      <4> QED BY <3>1, <3>3, <4>1
    <3> QED BY <2>4, <3>2, <3>3 DEF Moved
  <2>8. b.tagName = p.tagName
    BY <1>9, <1>10, <2>7
  <2>9. b \in Candidates(doc, edit, parsed, n)
    BY <2>1, <2>3, <2>8 DEF Candidates
  <2>10. PICK c \in Candidates(doc, edit, parsed, n) : c.id = given
    BY <1>8, <2>6, <2>9
  <2> QED BY <1>11, <1>12, <1>14, <2>10
<1>15. ASSUME Replaces(edit, b, p)
       PROVE  b.id = given
  <2>1. ~edit.allocates /\ edit.root # NoRoot
    BY <1>3, <1>4, <1>15 DEF Replaces, EditFits
  <2>2. PICK d \in Range(doc.blocks) :
          d.rawBegin = a /\ d.rawEnd = z /\ edit.root \in {NoRoot, d.id}
    BY <2>1 DEF EditFits
  <2>3. b.id = edit.root
    BY <1>1, <1>15, <2>1, <2>2 DEF Replaces
  <2>4. PICK k \in 1..Len(parsed) : rangeOf(parsed[k]) = rootRange(edit)
    BY <1>5, <1>7, <2>1
  <2>5. parsed[k].rawBegin = parsed[n].rawBegin
    BY <1>15, <2>4 DEF Replaces, rangeOf, rootRange
  <2>6. k = n
    BY <1>7, <2>5 DEF BeginsDiffer
  <2> QED BY <1>8, <2>1, <2>3, <2>4, <2>6 DEF IsRoot
<1>16. ASSUME b.id = given
       PROVE  MovedTo(edit, b, p) \/ Replaces(edit, b, p)
  <2>1. CASE IsRoot(edit, parsed, n)
    <3>1. b.id = edit.root
      BY <1>8, <1>16, <2>1
    <3>2. b.rawBegin = a /\ b.rawEnd = z
      BY <1>13, <3>1
    <3>3. p.rawBegin = a /\ r > 0
      BY <1>4, <2>1 DEF IsRoot, rangeOf, rootRange
    <3> QED BY <1>10, <3>2, <3>3 DEF Replaces
  <2>2. CASE ~IsRoot(edit, parsed, n)
    <3>1. given \in 1..doc.nextId - 1
      BY <1>2, <1>16
    <3>2. ~(given >= doc.nextId)
      BY <1>1, <3>1
    <3>3. PICK c \in Candidates(doc, edit, parsed, n) : c.id = given
      BY <1>8, <2>2, <3>2
    <3> QED BY <1>1, <1>11, <1>16, <3>3
  <2> QED BY <2>1, <2>2
<1> QED BY <1>14, <1>15, <1>16

(* What a caller knows a block by: its id and its tags name the same one,  *)
(* or the block has come into the place of the other.                      *)
SameByMarks(b, c) ==
  LET old == TagMarks(document, marks, b)
      new == TagMarks(document', marks', c)
      replaces == /\ b.rawBegin = c.rawBegin
                  /\ old[1] \notin Range(marks')
                  /\ new[1] = <<document'.revision, 1>>
  IN b.id = c.id <=> old = new \/ replaces

(* An edit keeps the ids at their tags.                                    *)
LEMMA EditsKeepIdentity ==
  ASSUME IInv, NEW edit, EditFits(document, edit), replaceRange(edit),
         NEW b \in Range(document.blocks), NEW c \in Range(document'.blocks)
  PROVE  SameByMarks(b, c)
<1> DEFINE html == nextHtml(document, edit)
           parsed == parseBlocks(html)
           a == edit.begin
           z == edit.end
           r == Len(edit.replacement)
           length == Len(document.html)
           total == a + r + (length - z)
           revision == document.revision
<1>1. /\ IInv' /\ document'.html = html /\ document'.revision = revision + 1
      /\ \A n \in 1..Len(document'.blocks) :
           document'.blocks[n].id = idGiven(document, edit, n)
      /\ marks' = Spliced(marks, a, z, NewMarks(revision + 1, r))
  BY EditsKeep
<1>2. DocumentSound(document) /\ DocumentSound(document') /\ CanReplace(document, edit)
  BY <1>1 DEF IInv, replaceRange
<1>3. /\ a \in Nat /\ z \in Nat /\ a <= z /\ z <= length /\ r \in Nat
      /\ edit.replacement \in Seq(Token) /\ document.html \in Seq(Token)
      /\ length \in Nat /\ revision \in Nat
  BY <1>2, HtmlAssumption DEF EditFits, DocumentSound
<1>4. Len(html) = total
  <2>1. IsSplice(Token, html, document.html, a, z, edit.replacement)
    BY <1>3, SplicedParts DEF nextHtml, Spliced
  <2> QED BY <2>1 DEF IsSplice
<1>5. /\ MarksSound(marks', total, revision + 1)
      /\ \A p \in 1..total, q \in 1..length :
           marks'[p] = marks[q] <=> Moved(a, z, r, q, p)
      /\ \A p \in 1..total : marks'[p] = <<revision + 1, 1>> <=> p = a + 1 /\ r > 0
  <2>1. MarksSound(marks, length, revision)
    BY DEF IInv
  <2> DEFINE now == Spliced(marks, a, z, NewMarks(revision + 1, r))
  <2> HIDE DEF a, z, r, length, revision
  <2>2. /\ MarksSound(now, total, revision + 1)
        /\ MarksFollow(now, marks, length, revision, a, z, r)
    BY <1>3, <2>1, MarksMove DEF Spliced, Splice
  <2>3. marks' = now
    BY <1>1
  <2> QED BY <2>2, <2>3 DEF MarksFollow
<1>6. PICK n \in 1..Len(parsed) :
        /\ c.id = idGiven(document, edit, n)
        /\ c.rawBegin = parsed[n].rawBegin /\ c.rawEnd = parsed[n].rawEnd
        /\ c.rawBegin \in Nat /\ c.rawEnd \in Nat
        /\ c.rawBegin < c.rawEnd /\ c.rawEnd <= total
  <2> DEFINE blocks == document'.blocks
             next == document'.nextId
  <2>1. /\ Len(html) \in Nat /\ Parses(html) /\ next \in Nat
        /\ Numbered(blocks, parsed, next)
    BY <1>1, <1>2, HtmlAssumption DEF DocumentSound
  <2>10. \A k \in 1..Len(blocks) : blocks[k].id = idGiven(document, edit, k)
    BY <1>1
  <2>11. c \in Range(blocks)
    OBVIOUS
  <2> HIDE DEF html, blocks, next
  <2>2. /\ Len(blocks) = Len(parsed)
        /\ Range(blocks) = {blocks[k] : k \in 1..Len(blocks)}
        /\ \A k \in 1..Len(blocks) :
             /\ PlacedIn(html, blocks[k])
             /\ [blocks[k] EXCEPT !.id = k] = parsed[k]
             /\ blocks[k].id \in 1..next - 1
    BY <2>1, NumberedBlocks
  <2>3. PICK n \in 1..Len(parsed) : c = blocks[n]
    BY <2>2, <2>11
  <2>4. c = [parsed[n] EXCEPT !.id = c.id]
    BY <2>1, <2>3 DEF Numbered
  <2>5. PlacedIn(html, c) /\ c.id = idGiven(document, edit, n)
    BY <2>2, <2>3, <2>10
  <2>6. PlacedIn(html, parsed[n])
    BY <2>1, ParsedBlocks
  <2> DEFINE p == parsed[n]
  <2>7. p = [id |-> p.id, tagName |-> p.tagName, rawBegin |-> p.rawBegin,
             valueBegin |-> p.valueBegin, valueEnd |-> p.valueEnd, rawEnd |-> p.rawEnd]
    BY <2>6 DEF PlacedIn
  <2> HIDE DEF p
  <2>8. [p EXCEPT !.id = c.id].rawBegin = p.rawBegin
        /\ [p EXCEPT !.id = c.id].rawEnd = p.rawEnd
    BY <2>7
  <2>9. c.rawBegin = p.rawBegin /\ c.rawEnd = p.rawEnd
    BY <2>4, <2>8 DEF p
  <2> QED BY <1>4, <2>5, <2>9 DEF PlacedIn, p
<1> DEFINE x == b.rawBegin
           y == b.rawEnd
           u == c.rawBegin
           v == c.rawEnd
<1>7. x \in Nat /\ y \in Nat /\ x < y /\ y <= length
  BY <1>2, DocumentBlocks DEF PlacedIn
<1>8. b.id = c.id <=> MovedTo(edit, b, c) \/ Replaces(edit, b, c)
  <2>1. b.id = c.id <=> MovedTo(edit, b, parsed[n]) \/ Replaces(edit, b, parsed[n])
    BY <1>2, <1>6, IdentityByRanges
  <2> QED BY <1>6, <2>1 DEF MovedTo, Replaces
<1>9. MovedTo(edit, b, c) <=> Moved(a, z, r, x + 1, u + 1) /\ Moved(a, z, r, y, v)
  BY DEF MovedTo
<1>10. Replaces(edit, b, c) <=> x = a /\ a < z /\ u = a /\ r > 0
  BY DEF Replaces
<1>11. /\ marks' \in Seq(Nat \X Nat) /\ Len(marks') = total
  BY <1>5 DEF MarksSound
<1>12. SameByMarks(b, c) <=>
         (b.id = c.id <=>
            \/ marks[x + 1] = marks'[u + 1] /\ marks[y] = marks'[v]
            \/ /\ x = u
               /\ marks[x + 1] \notin Range(marks')
               /\ marks'[u + 1] = <<revision + 1, 1>>)
  BY <1>1 DEF SameByMarks, TagMarks
<1> HIDE DEF a, z, r, length, total, revision, x, y, u, v
<1>13. x + 1 \in 1..length /\ y \in 1..length /\ u + 1 \in 1..total /\ v \in 1..total
  BY <1>3, <1>4, <1>6, <1>7 DEF total, u, v
<1>14. marks[x + 1] = marks'[u + 1] /\ marks[y] = marks'[v]
         <=> Moved(a, z, r, x + 1, u + 1) /\ Moved(a, z, r, y, v)
  BY <1>5, <1>13
<1>15. marks'[u + 1] = <<revision + 1, 1>> <=> u = a /\ r > 0
  <2>1. u \in Nat
    BY <1>6 DEF u
  <2> QED BY <1>3, <1>5, <1>13, <2>1
<1>16. ASSUME x = a
       PROVE  marks[x + 1] \notin Range(marks') <=> a < z
  <2>1. Range(marks') = {marks'[p] : p \in 1..total}
    <3>1. DOMAIN marks' = 1..Len(marks')
      BY <1>11
    <3>2. DOMAIN marks' = 1..total
      BY <1>11, <3>1
    <3> QED BY <3>2 DEF Range
  <2>2. marks[x + 1] \in Range(marks') <=> \E p \in 1..total : Moved(a, z, r, x + 1, p)
    BY <1>5, <1>13, <2>1
  <2>3. ASSUME a < z, NEW p \in 1..total
        PROVE  ~Moved(a, z, r, x + 1, p)
    BY <1>3, <1>16, <2>3 DEF Moved
  <2>4. ASSUME ~(a < z)
        PROVE  \E p \in 1..total : Moved(a, z, r, x + 1, p)
    <3>1. x + 1 > z /\ a + r + ((x + 1) - z) \in 1..total
      BY <1>3, <1>13, <1>16, <2>4 DEF total
    <3> QED BY <3>1 DEF Moved
  <2> QED BY <2>2, <2>3, <2>4
<1> QED BY <1>8, <1>9, <1>10, <1>12, <1>14, <1>15, <1>16

(* However a document is edited, and wherever its blocks move to, a block  *)
(* of the next document has the id of an earlier one exactly when it is    *)
(* the same pair of tags or what update has put in its place.              *)
THEOREM IdsStandForTheirTags == Spec => BlocksKeepTheirIdentity
<1> DEFINE Kept == \A b \in Blocks, c \in Blocks' : SameByMarks(b, c)
<1>1. IInv /\ Next => Kept
  BY StepsAreEdits, EditsKeepIdentity DEF Blocks
<1>2. IInv /\ [Next]_vars => [Kept]_vars
  BY <1>1
<1> QED BY <1>2, HtmlInvariant, PTL DEF Spec, BlocksKeepTheirIdentity, SameByMarks
-----------------------------------------------------------------------------
(* No edit is refused that cuts through no block. *)

(* b is the element of html that begins at p. *)
IsElement(html, b, p) ==
  /\ b.rawBegin \in Nat /\ b.rawBegin + 1 = p /\ p \in Starts(html)
  /\ b.rawEnd = endOf(html, p) /\ b.tagName = html[p].tag

(* The parser makes a block of every element. *)
LEMMA ElementsAreParsed ==
  ASSUME NEW html, Len(html) \in Nat, Parses(html)
  PROVE  /\ \A n \in 1..Len(parseBlocks(html)) :
              IsElement(html, parseBlocks(html)[n], parseBlocks(html)[n].rawBegin + 1)
         /\ \A p \in Starts(html) : \E n \in 1..Len(parseBlocks(html)) :
              IsElement(html, parseBlocks(html)[n], p)
<1> DEFINE N == Cardinality(Starts(html))
           parsed == parseBlocks(html)
<1>1. /\ N \in Nat
      /\ \A n \in 1..N : startOf(html, n) \in Starts(html) /\ startOf(html, n) \in 1..Len(html)
  BY StartsAreCounted
<1>2. Len(parsed) = N
  <2>1. DOMAIN parsed = 1..N
    BY DEF parseBlocks
  <2> HIDE DEF parsed, N
  <2>2. Len(parsed) \in Nat /\ parsed = [n \in 1..Len(parsed) |-> parsed[n]]
    BY ParsedBlocks DEF parsed
  <2>3. DOMAIN parsed = 1..Len(parsed)
    BY <2>2
  <2>4. parsed \in Seq({parsed[n] : n \in 1..Len(parsed)})
    BY <2>2
  <2> QED BY <1>1, <2>1, <2>2, <2>3
<1>3. ASSUME NEW n \in 1..N
      PROVE  IsElement(html, parsed[n], startOf(html, n))
  <2> DEFINE s == startOf(html, n)
             e == endOf(html, s)
  <2>1. s \in 1..Len(html) /\ s \in Starts(html)
    BY <1>1
  <2>2. parsed[n] = [id |-> n, tagName |-> html[s].tag, rawBegin |-> s - 1,
                     valueBegin |-> s, valueEnd |-> IF e = s THEN s ELSE e - 1,
                     rawEnd |-> e]
    BY DEF parseBlocks
  <2> HIDE DEF s, e, parsed
  <2>3. parsed[n].rawBegin = s - 1 /\ parsed[n].rawEnd = e /\ parsed[n].tagName = html[s].tag
    BY <2>2
  <2>4. s - 1 \in Nat /\ (s - 1) + 1 = s
    BY <2>1
  <2> QED BY <2>1, <2>3, <2>4 DEF IsElement, s, e
<1>4. ASSUME NEW n \in 1..N
      PROVE  IsElement(html, parsed[n], parsed[n].rawBegin + 1)
  BY <1>3 DEF IsElement
<1>5. ASSUME NEW p \in Starts(html)
      PROVE  \E n \in 1..N : IsElement(html, parsed[n], p)
  <2>1. Starts(html) \in SUBSET (1..Len(html))
    BY DEF Starts, Positions
  <2>2. PICK n \in 1..N : nth(Starts(html), n) = p
    BY <2>1, NthCounts
  <2>3. startOf(html, n) = p
    BY <2>2 DEF startOf
  <2> QED BY <1>3, <2>3
<1> QED BY <1>2, <1>4, <1>5

(* The blocks of a document are the elements of its source. *)
LEMMA BlocksAreElements ==
  ASSUME NEW doc, DocumentSound(doc)
  PROVE  /\ \A b \in Range(doc.blocks) : IsElement(doc.html, b, b.rawBegin + 1)
         /\ \A p \in Starts(doc.html) : \E b \in Range(doc.blocks) : IsElement(doc.html, b, p)
<1> DEFINE html == doc.html
           blocks == doc.blocks
           parsed == parseBlocks(html)
<1>1. Parses(html) /\ Len(html) \in Nat /\ doc.nextId \in Nat
      /\ Numbered(blocks, parsed, doc.nextId)
  BY DocumentBlocks DEF DocumentSound
<1> HIDE DEF html, blocks
<1>2. /\ Len(blocks) = Len(parsed)
      /\ Range(blocks) = {blocks[n] : n \in 1..Len(blocks)}
      /\ \A n \in 1..Len(blocks) :
           PlacedIn(html, blocks[n]) /\ [blocks[n] EXCEPT !.id = n] = parsed[n]
  BY <1>1, NumberedBlocks
<1>3. /\ \A n \in 1..Len(parsed) : IsElement(html, parsed[n], parsed[n].rawBegin + 1)
      /\ \A p \in Starts(html) : \E n \in 1..Len(parsed) : IsElement(html, parsed[n], p)
  BY <1>1, ElementsAreParsed
<1> HIDE DEF parsed
<1>4. ASSUME NEW n \in 1..Len(parsed)
      PROVE  /\ blocks[n].rawBegin = parsed[n].rawBegin /\ blocks[n].rawEnd = parsed[n].rawEnd
             /\ blocks[n].tagName = parsed[n].tagName
  <2> DEFINE b == blocks[n]
  <2>1. b = [id |-> b.id, tagName |-> b.tagName, rawBegin |-> b.rawBegin,
             valueBegin |-> b.valueBegin, valueEnd |-> b.valueEnd, rawEnd |-> b.rawEnd]
    BY <1>2 DEF PlacedIn
  <2>2. [b EXCEPT !.id = n] = parsed[n]
    BY <1>2
  <2> HIDE DEF b
  <2>3. parsed[n] = [id |-> n, tagName |-> b.tagName, rawBegin |-> b.rawBegin,
             valueBegin |-> b.valueBegin, valueEnd |-> b.valueEnd, rawEnd |-> b.rawEnd]
    BY <2>1, <2>2
  <2> QED BY <2>3 DEF b
<1>5. ASSUME NEW n \in 1..Len(parsed), NEW p
      PROVE  IsElement(html, blocks[n], p) <=> IsElement(html, parsed[n], p)
  BY <1>4 DEF IsElement
<1>6. \A b \in Range(blocks) : IsElement(html, b, b.rawBegin + 1)
  <2> SUFFICES ASSUME NEW n \in 1..Len(parsed)
               PROVE  IsElement(html, blocks[n], blocks[n].rawBegin + 1)
    BY <1>2
  <2>1. IsElement(html, parsed[n], parsed[n].rawBegin + 1)
    BY <1>3
  <2>2. IsElement(html, parsed[n], blocks[n].rawBegin + 1)
    BY <1>4, <2>1
  <2> QED BY <1>5, <2>2
<1>7. ASSUME NEW p \in Starts(html)
      PROVE  \E b \in Range(blocks) : IsElement(html, b, p)
  <2>1. PICK n \in 1..Len(parsed) : IsElement(html, parsed[n], p)
    BY <1>3
  <2> QED BY <1>2, <1>5, <2>1
<1> QED BY <1>6, <1>7 DEF html, blocks

(* edit takes the range of b, for another block under its id or for        *)
(* nothing.                                                                *)
TakesBlock(doc, edit, b) ==
  /\ b \in Range(doc.blocks)
  /\ edit.begin = b.rawBegin /\ edit.end = b.rawEnd
  /\ edit.allocates = FALSE
  /\ edit.root \in {NoRoot, b.id}

(* The tags that an edit replaces pair, whatever their names. *)
RangePairs(doc, edit) ==
  /\ edit.begin \in Nat /\ edit.end \in Nat
  /\ edit.begin <= edit.end /\ edit.end <= Len(doc.html)
  /\ \A T : Excess(doc.html, T, edit.begin + 1, edit.end) = 0

(* They do if it takes the range of a block and cuts through no other.     *)
LEMMA UncutRangePairs ==
  ASSUME NEW doc, DocumentSound(doc), NEW edit, NEW b, TakesBlock(doc, edit, b),
         Crossed(doc, edit) = {}
  PROVE  RangePairs(doc, edit)
<1> DEFINE html == doc.html
           a == edit.begin
           z == edit.end
           first == a + 1
<1>1. /\ Len(html) \in Nat /\ TagsPair(html)
      /\ \A c, d \in Range(doc.blocks) : c.id = d.id \/ c.rawBegin = d.rawBegin => c = d
      /\ \A c \in Range(doc.blocks) : PlacedIn(html, c) /\ c.id \in ids(doc.blocks)
      /\ ids(doc.blocks) \subseteq 1..doc.nextId - 1 /\ doc.nextId \in Nat
  BY DocumentBlocks DEF DocumentSound, Parses, ids
<1>2. /\ a \in Nat /\ z \in Nat /\ a < z /\ z <= Len(html)
      /\ edit.allocates = FALSE /\ b \in Range(doc.blocks)
      /\ b.rawBegin = a /\ b.rawEnd = z /\ edit.root \in {NoRoot, b.id}
  BY <1>1 DEF PlacedIn, TakesBlock
<1>3. ASSUME NEW j \in Positions(html, "open")
      PROVE  /\ endOf(html, j) \in first..z => j >= first
             /\ j \in first..z => endOf(html, j) <= z
  <2>1. j \in Starts(html)
    BY DEF Starts
  <2>2. PICK c \in Range(doc.blocks) : IsElement(html, c, j)
    BY <2>1, BlocksAreElements
  <2> DEFINE x == c.rawBegin
             y == c.rawEnd
  <2>3. /\ x \in Nat /\ y \in Nat /\ x < y /\ x + 1 = j /\ y = endOf(html, j)
    BY <1>1, <2>2 DEF IsElement, PlacedIn
  <2>4. CASE c = b
    <3>1. x = a /\ y = z
      BY <1>2, <2>4
    <3> HIDE DEF x, y, a, z
    <3> QED BY <1>2, <2>3, <3>1
  <2>5. CASE c # b
    <3>1. c.id # edit.root
      <4>1. c.id # NoRoot
        BY <1>1 DEF NoRoot
      <4> QED BY <1>1, <1>2, <2>5, <4>1
    <3>2. c \notin Crossed(doc, edit)
      OBVIOUS
    <3>3. \/ y <= a
          \/ x >= z
          \/ x < a /\ y > z
          \/ ~(x < a) /\ ~(y > z)
      BY <3>1, <3>2 DEF Crossed, Preserved
    <3> HIDE DEF x, y, a, z
    <3> QED BY <1>2, <2>3, <3>3
  <2> QED BY <2>4, <2>5
<1>4. first \in Nat /\ z \in Nat /\ first >= 1 /\ z <= Len(html)
  BY <1>2
<1> HIDE DEF first, html, a, z
<1>5. \A j \in Positions(html, "open") : endOf(html, j) \in first..z => j >= first
  BY <1>3
<1>6. \A j \in Positions(html, "open") : j \in first..z => endOf(html, j) <= z
  BY <1>3
<1>7. ASSUME NEW T
      PROVE  Excess(html, T, first, z) = 0
  BY <1>1, <1>4, <1>5, <1>6, ExcessOfRange
<1>8. a \in Nat /\ z \in Nat /\ a <= z /\ z <= Len(html)
  BY <1>1, <1>2
<1> QED BY <1>7, <1>8 DEF RangePairs, first, html, a, z

(* The replacement is one block, or nothing. *)
Replacement(edit) ==
  /\ edit.replacement \in Seq(Token)
  /\ TagsPair(edit.replacement)
  /\ edit.root # NoRoot =>
       1 \in Starts(edit.replacement)
         /\ endOf(edit.replacement, 1) = Len(edit.replacement)

(* An edit that replaces what pairs leaves a source that parses and has    *)
(* every preserved block where it is expected.                             *)
LEMMA UncutEditsAreFound ==
  ASSUME NEW doc, DocumentSound(doc), NEW edit, RangePairs(doc, edit), Replacement(edit),
         NEW html, html = nextHtml(doc, edit)
  PROVE  Parses(html) /\ RangesFound(doc, edit, parseBlocks(html))
<1> DEFINE s == doc.html
           a == edit.begin
           z == edit.end
           r == edit.replacement
           R == Len(r)
           parsed == parseBlocks(html)
<1>1. /\ s \in Seq(Token) /\ Len(s) \in Nat /\ TagsPair(s)
      /\ \A c \in Range(doc.blocks) : PlacedIn(s, c) /\ IsElement(s, c, c.rawBegin + 1)
  BY DocumentBlocks, BlocksAreElements DEF DocumentSound, Parses
<1>2. /\ a \in Nat /\ z \in Nat /\ a <= z /\ z <= Len(s)
  BY DEF RangePairs
<1>3. r \in Seq(Token) /\ R \in Nat /\ TagsPair(r)
  BY DEF Replacement
<1>4. IsSplice(Token, html, s, a, z, r)
  BY <1>1, <1>2, <1>3, SplicedParts DEF nextHtml, Spliced
<1>5. \A T : Excess(s, T, a + 1, z) = 0
  BY DEF RangePairs
<1>6. Len(html) \in Nat /\ TagsPair(html)
  <2> HIDE DEF s, a, z, r
  <2> QED BY <1>1, <1>2, <1>3, <1>4, <1>5, SplicePairs
<1>7. /\ Len(parsed) \in Nat /\ Range(parsed) = {parsed[n] : n \in 1..Len(parsed)}
      /\ \A p \in Starts(html) : \E c \in Range(parsed) : IsElement(html, c, p)
  <2>1. Parses(html)
    BY <1>6 DEF Parses
  <2>2. Len(parsed) \in Nat /\ parsed = [n \in 1..Len(parsed) |-> parsed[n]]
    BY <1>6, <2>1, ParsedBlocks
  <2>3. DOMAIN parsed = 1..Len(parsed)
    BY <2>2
  <2>4. Range(parsed) = {parsed[n] : n \in 1..Len(parsed)}
    BY <2>3 DEF Range
  <2>5. \A p \in Starts(html) : \E n \in 1..Len(parsed) : IsElement(html, parsed[n], p)
    BY <1>6, <2>1, ElementsAreParsed
  <2> HIDE DEF parsed
  <2> QED BY <2>2, <2>4, <2>5
<1> HIDE DEF parsed
<1>8. ASSUME edit.root # NoRoot
      PROVE  \E c \in Range(parsed) : rangeOf(c) = rootRange(edit)
  <2>1. 1 \in Starts(r) /\ endOf(r, 1) = R
    BY <1>8 DEF Replacement
  <2>2. a + 1 \in Starts(html) /\ endOf(html, a + 1) = a + R
    <3> DEFINE j == 1
    <3>1. j \in Starts(r) /\ endOf(r, j) = R
      BY <2>1
    <3>2. /\ a \in Nat /\ z \in Nat /\ a <= z /\ z <= Len(s)
          /\ Len(s) \in Nat /\ Len(r) \in Nat /\ TagsPair(r)
      BY <1>1, <1>2, <1>3
    <3> HIDE DEF s, a, z, r, j, R
    <3>3. a + j \in Starts(html) /\ endOf(html, a + j) = a + endOf(r, j)
      BY <1>4, <3>1, <3>2, InnerEndsMove
    <3> QED BY <3>1, <3>3 DEF j
  <2>3. PICK c \in Range(parsed) : IsElement(html, c, a + 1)
    BY <1>7, <2>2
  <2>4. c.rawBegin = a /\ c.rawEnd = a + R
    BY <1>2, <2>2, <2>3 DEF IsElement
  <2> QED BY <2>4 DEF rangeOf, rootRange
<1>9. ASSUME NEW c \in Preserved(doc, edit)
      PROVE  \E d \in Range(parsed) :
               expectedRange(c, edit) = rangeOf(d) /\ d.tagName = c.tagName
  <2> DEFINE x == c.rawBegin
             y == c.rawEnd
             i == x + 1
             p == IF i <= a THEN i ELSE a + R + (i - z)
             q == IF y <= a THEN y ELSE a + R + (y - z)
  <2>1. c \in Range(doc.blocks) /\ Apart(edit, c)
    BY DEF Preserved, Apart
  <2>2. /\ x \in Nat /\ y \in Nat /\ x < y /\ y <= Len(s)
        /\ i \in Starts(s) /\ endOf(s, i) = y /\ c.tagName = s[i].tag
    BY <1>1, <2>1 DEF PlacedIn, IsElement
  <2>3. y <= a \/ x >= z \/ (x < a /\ y > z)
    BY <2>1 DEF Apart
  <2> HIDE DEF s, a, z, r, R, x, y
  <2>4. /\ Moved(a, z, R, i, p) /\ Moved(a, z, R, y, q)
        /\ y <= a \/ i > z \/ (i <= a /\ y > z)
    BY <1>2, <1>3, <2>2, <2>3 DEF Moved
  <2>5. p \in Nat /\ q \in Nat /\ p > 0
    BY <1>2, <1>3, <2>2, <2>3
  <2> HIDE DEF i, p, q
  <2>6. p \in Starts(html) /\ endOf(html, p) = q
    BY <1>1, <1>2, <1>3, <1>4, <1>5, <2>2, <2>4, OuterEndsMove DEF R
  <2>7. PICK d \in Range(parsed) : IsElement(html, d, p)
    BY <1>7, <2>6
  <2>8. d.rawBegin \in Nat /\ d.rawBegin + 1 = p /\ d.rawEnd = q /\ d.tagName = html[p].tag
    BY <2>6, <2>7 DEF IsElement
  <2>9. MovedTo(edit, c, d)
    BY <2>4, <2>8 DEF MovedTo, a, z, R, r, x, y, i
  <2>10. expectedRange(c, edit) = rangeOf(d)
    BY <1>2, <1>3, <2>2, <2>5, <2>8, <2>9, ExpectedIsMoved DEF a, z, R, r, x, y
  <2>11. html[p] = s[i]
    <3>1. /\ \A k \in 1..a : html[k] = s[k]
          /\ \A k \in z + 1..Len(s) : html[a + R + (k - z)] = s[k]
      BY <1>4 DEF IsSplice, R
    <3>2. CASE i <= a /\ p = i
      BY <1>2, <2>2, <3>1, <3>2 DEF i
    <3>3. CASE i > z /\ p = a + R + (i - z)
      <4>1. i \in z + 1..Len(s)
        BY <1>1, <1>2, <2>2, <3>3 DEF i
      <4> QED BY <3>1, <3>3, <4>1
    <3> QED BY <2>4, <3>2, <3>3 DEF Moved
  <2> QED BY <2>2, <2>8, <2>10, <2>11
<1>10. RangesFound(doc, edit, parsed)
  BY <1>8, <1>9 DEF RangesFound
<1> QED BY <1>6, <1>10 DEF Parses, parsed

(* A fragment of one block is that block from its first token to its last. *)
LEMMA SingleBlockIsAll ==
  ASSUME NEW fragment \in Fragment, isSingleBlock(fragment)
  PROVE  /\ fragment \in Seq(Token) /\ TagsPair(fragment)
         /\ 1 \in Starts(fragment) /\ endOf(fragment, 1) = Len(fragment)
<1> DEFINE blocks == parseBlocks(fragment)
           top == {b \in Range(blocks) : Containers(blocks, b) = {}}
<1>1. fragment \in Seq(Token) /\ Len(fragment) \in Nat /\ Parses(fragment)
  BY SingleBlockIsNotEmpty DEF isSingleBlock
<1>2. /\ Cardinality(top) = 1
      /\ \A b \in top : b.rawBegin = 0 /\ b.rawEnd = Len(fragment)
  BY DEF isSingleBlock
<1>3. top # {}
  <2>1. Cardinality(top) = 1
    BY <1>2
  <2>2. Cardinality({}) = 0
    BY FS_EmptySet
  <2> HIDE DEF top
  <2> QED BY <2>1, <2>2
<1>4. PICK b \in Range(blocks) : b.rawBegin = 0 /\ b.rawEnd = Len(fragment)
  BY <1>2, <1>3
<1>5. IsElement(fragment, b, b.rawBegin + 1)
  <2>1. blocks = [n \in 1..Len(blocks) |-> blocks[n]]
    BY <1>1, ParsedBlocks
  <2>2. DOMAIN blocks = 1..Len(blocks)
    BY <2>1
  <2>3. PICK n \in 1..Len(blocks) : b = blocks[n]
    BY <2>2 DEF Range
  <2>4. \A k \in 1..Len(blocks) : IsElement(fragment, blocks[k], blocks[k].rawBegin + 1)
    BY <1>1, ElementsAreParsed
  <2> HIDE DEF blocks
  <2> QED BY <2>3, <2>4
<1>6. IsElement(fragment, b, 1)
  BY <1>4, <1>5
<1> QED BY <1>1, <1>4, <1>6 DEF IsElement, Parses

(* Nothing pairs. *)
LEMMA NothingPairs == <<>> \in Seq(Token) /\ TagsPair(<<>>)
<1>1. \A kind : Positions(<<>>, kind) = {}
  BY DEF Positions
<1>2. TagsPair(<<>>)
  BY <1>1 DEF TagsPair
<1>3. <<>> \in Seq(Token)
  OBVIOUS
<1> QED BY <1>2, <1>3

(* However its ranges overlap, create cuts through no block and puts its   *)
(* fragment between tokens that are there already.                         *)
LEMMA CreationsCrossNothing ==
  ASSUME DocumentSound(document), NEW fragment, NEW at \in Nat, at <= Len(document.html)
  PROVE  /\ Crossed(document, creationOf(at, fragment)) = {}
         /\ RangePairs(document, creationOf(at, fragment))
<1> DEFINE edit == creationOf(at, fragment)
<1>1. edit.begin = at /\ edit.end = at /\ edit.allocates = TRUE
  BY DEF creationOf, EditOf
<1> HIDE DEF edit
<1>2. ASSUME NEW b \in Range(document.blocks)
      PROVE  b \in Preserved(document, edit)
  <2>1. b.rawBegin \in Nat /\ b.rawEnd \in Nat /\ b.rawBegin < b.rawEnd
    BY DocumentBlocks DEF PlacedIn
  <2>2. b.rawBegin # at \/ b.rawEnd # at
    BY <2>1
  <2>3. b.rawEnd <= at \/ b.rawBegin >= at \/ (b.rawBegin < at /\ b.rawEnd > at)
    BY <2>1
  <2> QED BY <1>1, <2>2, <2>3 DEF Preserved
<1>3. Crossed(document, edit) = {}
  BY <1>2 DEF Crossed
<1>4. ASSUME NEW T
      PROVE  Excess(document.html, T, at + 1, at) = 0
  <2>1. at + 1..at = {}
    OBVIOUS
  <2>2. /\ TagsIn(document.html, "open", T, at + 1, at) = {}
        /\ TagsIn(document.html, "close", T, at + 1, at) = {}
    BY <2>1 DEF TagsIn
  <2> DEFINE none == Cardinality({})
  <2>3. none = 0
    BY FS_EmptySet
  <2> HIDE DEF none
  <2>4. Excess(document.html, T, at + 1, at) = none - none
    BY <2>2 DEF Excess, none
  <2> QED BY <2>3, <2>4
<1>5. RangePairs(document, edit)
  BY <1>1, <1>4 DEF RangePairs
<1> QED BY <1>3, <1>5 DEF edit

(* Whatever the sources, the fragments and the blocks, and however their   *)
(* ranges overlap: create, update and remove are refused only for cutting  *)
(* through another block or for an exhausted counter, and create not even  *)
(* for the first; the source that the edit makes always parses, and no     *)
(* block gets lost in it.                                                  *)
THEOREM UncutEditsAreAccepted == Spec => []OnlyCrossingsAreRefused
<1>1. ASSUME IInv
      PROVE  OnlyCrossingsAreRefused
  <2>1. DocumentSound(document)
    BY <1>1 DEF IInv
  <2>2. ASSUME NEW edit, RangePairs(document, edit), Replacement(edit)
        PROVE  IsFound(edit)
    BY <2>1, <2>2, UncutEditsAreFound DEF IsFound
  <2>3. ASSUME NEW b \in Blocks, Crossed(document, removalOf(b)) = {}
        PROVE  IsFound(removalOf(b))
    <3> DEFINE edit == removalOf(b)
    <3>1. /\ edit.begin = b.rawBegin /\ edit.end = b.rawEnd
          /\ edit.allocates = FALSE /\ edit.root = NoRoot /\ edit.replacement = <<>>
      BY DEF removalOf, EditOf
    <3>2. Crossed(document, edit) = {}
      BY <2>3
    <3> HIDE DEF edit
    <3>3. TakesBlock(document, edit, b)
      BY <3>1 DEF TakesBlock, Blocks
    <3>4. Replacement(edit)
      BY <3>1, NothingPairs DEF Replacement
    <3>5. IsFound(edit)
      BY <2>1, <2>2, <3>2, <3>3, <3>4, UncutRangePairs
    <3> QED BY <3>5 DEF edit
  <2>4. ASSUME NEW fragment \in Fragment, isSingleBlock(fragment),
               NEW b \in Blocks, Crossed(document, updateOf(b, fragment)) = {}
        PROVE  IsFound(updateOf(b, fragment))
    <3> DEFINE edit == updateOf(b, fragment)
    <3>1. /\ edit.begin = b.rawBegin /\ edit.end = b.rawEnd
          /\ edit.allocates = FALSE /\ edit.root = b.id /\ edit.replacement = fragment
      BY DEF updateOf, EditOf
    <3>2. Crossed(document, edit) = {}
      BY <2>4
    <3> HIDE DEF edit
    <3>3. TakesBlock(document, edit, b)
      BY <3>1 DEF TakesBlock, Blocks
    <3>4. Replacement(edit)
      BY <2>4, <3>1, SingleBlockIsAll DEF Replacement
    <3>5. IsFound(edit)
      BY <2>1, <2>2, <3>2, <3>3, <3>4, UncutRangePairs
    <3> QED BY <3>5 DEF edit
  <2>5. ASSUME NEW fragment \in Fragment, isSingleBlock(fragment),
               NEW at \in {Len(document.html)} \cup {insertionIn(b) : b \in Blocks}
        PROVE  /\ Crossed(document, creationOf(at, fragment)) = {}
               /\ IsFound(creationOf(at, fragment))
    <3> DEFINE edit == creationOf(at, fragment)
    <3>1. at \in Nat /\ at <= Len(document.html)
      <4>1. Len(document.html) \in Nat
        BY <2>1, DocumentBlocks
      <4>2. ASSUME NEW b \in Blocks, at = insertionIn(b)
            PROVE  at \in Nat /\ at <= Len(document.html)
        <5>1. /\ b.valueEnd \in Nat /\ b.rawEnd \in Nat
              /\ b.valueEnd <= b.rawEnd /\ b.rawEnd <= Len(document.html)
          BY <2>1, DocumentBlocks DEF PlacedIn, Blocks
        <5> QED BY <4>1, <4>2, <5>1 DEF insertionIn
      <4> QED BY <4>1, <4>2
    <3>2. edit.replacement = fragment
      BY DEF creationOf, EditOf
    <3>3. Crossed(document, edit) = {} /\ RangePairs(document, edit)
      BY <2>1, <3>1, CreationsCrossNothing
    <3> HIDE DEF edit
    <3>4. Replacement(edit)
      BY <2>5, <3>2, SingleBlockIsAll DEF Replacement
    <3>5. IsFound(edit)
      BY <2>2, <3>3, <3>4
    <3> QED BY <3>3, <3>5 DEF edit
  <2> QED BY <2>3, <2>4, <2>5 DEF OnlyCrossingsAreRefused
<1> QED BY <1>1, HtmlInvariant, PTL
-----------------------------------------------------------------------------
(* The blocks of a document are in the order of their beginnings, and what *)
(* is in a block ends in front of its closing tag.                         *)
LEMMA BlocksInOrder ==
  ASSUME NEW doc, DocumentSound(doc)
  PROVE  /\ Range(doc.blocks) = {doc.blocks[n] : n \in 1..Len(doc.blocks)}
         /\ \A m, n \in 1..Len(doc.blocks) :
              m < n <=> doc.blocks[m].rawBegin < doc.blocks[n].rawBegin
         /\ \A b \in Range(doc.blocks) :
              b.valueEnd = IF b.rawEnd = b.rawBegin + 1 THEN b.rawEnd ELSE b.rawEnd - 1
<1> DEFINE html == doc.html
           blocks == doc.blocks
           parsed == parseBlocks(html)
           N == Cardinality(Starts(html))
<1>1. Parses(html) /\ Len(html) \in Nat /\ doc.nextId \in Nat
      /\ Numbered(blocks, parsed, doc.nextId)
  BY DocumentBlocks DEF DocumentSound
<1> HIDE DEF html, blocks
<1>2. /\ Len(blocks) = Len(parsed) /\ Len(blocks) \in Nat
      /\ Range(blocks) = {blocks[n] : n \in 1..Len(blocks)}
      /\ \A n \in 1..Len(blocks) :
           PlacedIn(html, blocks[n]) /\ [blocks[n] EXCEPT !.id = n] = parsed[n]
  BY <1>1, NumberedBlocks
<1>3. Len(parsed) = N /\ N \in Nat
  <2>1. DOMAIN parsed = 1..N
    BY DEF parseBlocks
  <2>2. N \in Nat
    BY <1>1, StartsAreCounted
  <2> HIDE DEF parsed, N
  <2>3. Len(parsed) \in Nat /\ parsed = [n \in 1..Len(parsed) |-> parsed[n]]
    BY <1>1, ParsedBlocks DEF parsed
  <2>4. DOMAIN parsed = 1..Len(parsed)
    BY <2>3
  <2> QED BY <2>1, <2>2, <2>3, <2>4
<1>4. ASSUME NEW n \in 1..N
      PROVE  LET b == blocks[n]
             IN /\ b.rawBegin + 1 = nth(Starts(html), n) /\ b.rawBegin \in Nat
                /\ b.valueEnd = IF b.rawEnd = b.rawBegin + 1 THEN b.rawEnd ELSE b.rawEnd - 1
  <2> DEFINE s == startOf(html, n)
             e == endOf(html, s)
             b == blocks[n]
  <2>1. s \in 1..Len(html)
    BY <1>1, StartsAreCounted
  <2>2. parsed[n] = [id |-> n, tagName |-> html[s].tag, rawBegin |-> s - 1,
                     valueBegin |-> s, valueEnd |-> IF e = s THEN s ELSE e - 1,
                     rawEnd |-> e]
    BY DEF parseBlocks
  <2>3. b = [id |-> b.id, tagName |-> b.tagName, rawBegin |-> b.rawBegin,
             valueBegin |-> b.valueBegin, valueEnd |-> b.valueEnd, rawEnd |-> b.rawEnd]
        /\ b.rawBegin \in Nat
    BY <1>2, <1>3 DEF PlacedIn
  <2>4. [b EXCEPT !.id = n] = parsed[n]
    BY <1>2, <1>3
  <2>5. s = nth(Starts(html), n)
    BY DEF startOf
  <2> HIDE DEF s, e, parsed, b
  <2>6. parsed[n] = [id |-> n, tagName |-> b.tagName, rawBegin |-> b.rawBegin,
             valueBegin |-> b.valueBegin, valueEnd |-> b.valueEnd, rawEnd |-> b.rawEnd]
    BY <2>3, <2>4
  <2>7. b.rawBegin = s - 1 /\ b.rawEnd = e /\ b.valueEnd = IF e = s THEN s ELSE e - 1
    BY <2>2, <2>6
  <2>8. b.rawBegin + 1 = s
    BY <2>1, <2>7
  <2>9. b.valueEnd = IF b.rawEnd = b.rawBegin + 1 THEN b.rawEnd ELSE b.rawEnd - 1
    BY <2>7, <2>8
  <2> QED BY <2>3, <2>5, <2>8, <2>9 DEF b
<1>5. ASSUME NEW m \in 1..N, NEW n \in 1..N
      PROVE  m < n <=> blocks[m].rawBegin < blocks[n].rawBegin
  <2>1. Starts(html) \in SUBSET (1..Len(html))
    BY DEF Starts, Positions
  <2>2. m < n <=> nth(Starts(html), m) < nth(Starts(html), n)
    BY <1>1, <2>1, NthCounts
  <2>3. /\ blocks[m].rawBegin + 1 = nth(Starts(html), m) /\ blocks[m].rawBegin \in Nat
        /\ blocks[n].rawBegin + 1 = nth(Starts(html), n) /\ blocks[n].rawBegin \in Nat
    BY <1>4
  <2> QED BY <2>2, <2>3
<1> HIDE DEF N
<1> QED BY <1>2, <1>3, <1>4, <1>5 DEF blocks
-----------------------------------------------------------------------------
(* The hierarchy of the blocks. *)

(* p is innermost among the blocks that contain c. *)
ParentOf(blocks, p, c) ==
  /\ p \in Containers(blocks, c)
  /\ \A o \in Containers(blocks, c) : o.rawBegin <= p.rawBegin

(* Blocks that begin at different places, in their order, with ids of      *)
(* their own.                                                              *)
Laid(blocks, length) ==
  /\ Len(blocks) \in Nat /\ length \in Nat
  /\ Range(blocks) = {blocks[n] : n \in 1..Len(blocks)}
  /\ \A b \in Range(blocks) :
       /\ b.rawBegin \in Nat /\ b.rawEnd \in Nat
       /\ b.rawBegin < b.rawEnd /\ b.rawEnd <= length
  /\ \A b, c \in Range(blocks) : b.id = c.id \/ b.rawBegin = c.rawBegin => b = c
  /\ \A m, n \in 1..Len(blocks) : m < n <=> blocks[m].rawBegin < blocks[n].rawBegin

LEMMA DocumentLaid ==
  ASSUME NEW doc, DocumentSound(doc)
  PROVE  Laid(doc.blocks, Len(doc.html))
<1>1. /\ Range(doc.blocks) = {doc.blocks[n] : n \in 1..Len(doc.blocks)}
      /\ \A m, n \in 1..Len(doc.blocks) :
              m < n <=> doc.blocks[m].rawBegin < doc.blocks[n].rawBegin
  BY BlocksInOrder
<1>2. /\ Len(doc.blocks) \in Nat /\ Len(doc.html) \in Nat
      /\ \A b \in Range(doc.blocks) : PlacedIn(doc.html, b)
      /\ \A b, c \in Range(doc.blocks) : b.id = c.id \/ b.rawBegin = c.rawBegin => b = c
  BY DocumentBlocks
<1> QED BY <1>1, <1>2 DEF Laid, PlacedIn

(* The parent of a block is the innermost that contains it, and one that   *)
(* is contained has one.                                                   *)
LEMMA InnermostIsParent ==
  ASSUME NEW blocks, NEW length, Laid(blocks, length), NEW c \in Range(blocks)
  PROVE  /\ \A p : p \in parents(blocks, c) <=> ParentOf(blocks, p, c)
         /\ Containers(blocks, c) # {} => \E p \in Range(blocks) : ParentOf(blocks, p, c)
<1> DEFINE C == Containers(blocks, c)
<1>1. C \subseteq Range(blocks)
  BY DEF Containers
<1>2. \A o \in C : o.rawBegin \in Nat /\ o.rawBegin \in 0..length
  BY <1>1 DEF Laid
<1>3. \A o, p \in C : o.rawBegin = p.rawBegin => o = p
  BY <1>1 DEF Laid
<1>4. \A p : p \in parents(blocks, c) <=>
        /\ p \in C
        /\ \A o \in C \ {p} :
             \/ o.rawBegin < p.rawBegin
             \/ o.rawBegin = p.rawBegin /\ p.rawEnd < o.rawEnd
  BY <1>1 DEF parents
<1>5. \A p : ParentOf(blocks, p, c) <=> p \in C /\ \A o \in C : o.rawBegin <= p.rawBegin
  BY DEF ParentOf
<1> HIDE DEF C
<1>6. ASSUME NEW p \in C
      PROVE  (\A o \in C \ {p} :
                \/ o.rawBegin < p.rawBegin
                \/ o.rawBegin = p.rawBegin /\ p.rawEnd < o.rawEnd)
              <=> \A o \in C : o.rawBegin <= p.rawBegin
  <2>1. ASSUME NEW o \in C \ {p}
        PROVE  (\/ o.rawBegin < p.rawBegin
                \/ o.rawBegin = p.rawBegin /\ p.rawEnd < o.rawEnd)
               <=> o.rawBegin <= p.rawBegin
    BY <1>2, <1>3
  <2>2. p.rawBegin <= p.rawBegin
    BY <1>2
  <2> QED BY <2>1, <2>2
<1>7. ASSUME C # {}
      PROVE  \E p \in C : \A o \in C : o.rawBegin <= p.rawBegin
  <2> DEFINE S == {o.rawBegin : o \in C}
  <2>1. S \in SUBSET (0..length) /\ S # {} /\ length \in Nat
    BY <1>2, <1>7 DEF Laid
  <2> HIDE DEF S
  <2>2. Max(S) \in S /\ \A y \in S : y <= Max(S)
    BY <2>1, MaxBounded
  <2>3. PICK p \in C : p.rawBegin = Max(S)
    BY <2>2 DEF S
  <2> QED BY <2>2, <2>3 DEF S
<1> QED BY <1>1, <1>4, <1>5, <1>6, <1>7 DEF C

(* The places of the children of a block. *)
ChildPlaces(blocks, p) == {n \in 1..Len(blocks) : ParentOf(blocks, p, blocks[n])}

(* A block lists the ids of its children by their places. *)
LEMMA ChildrenAreListed ==
  ASSUME NEW blocks, NEW length, Laid(blocks, length), NEW p \in Range(blocks)
  PROVE  /\ ChildPlaces(blocks, p) \in SUBSET (1..Len(blocks))
         /\ childIds(blocks, p) =
              [k \in 1..Cardinality(ChildPlaces(blocks, p)) |->
                 blocks[nth(ChildPlaces(blocks, p), k)].id]
         /\ Range(childIds(blocks, p)) =
              {c.id : c \in {d \in Range(blocks) : ParentOf(blocks, p, d)}}
<1> DEFINE K == ChildPlaces(blocks, p)
           N == Cardinality(K)
           list == [k \in 1..N |-> blocks[nth(K, k)].id]
<1>1. K \in SUBSET (1..Len(blocks)) /\ Len(blocks) \in Nat
      /\ Range(blocks) = {blocks[n] : n \in 1..Len(blocks)}
  BY DEF ChildPlaces, Laid
<1>2. {n \in 1..Len(blocks) : p \in parents(blocks, blocks[n])} = K
  <2>1. \A n \in 1..Len(blocks) :
          p \in parents(blocks, blocks[n]) <=> ParentOf(blocks, p, blocks[n])
    BY <1>1, InnermostIsParent
  <2> QED BY <2>1 DEF ChildPlaces
<1>3. childIds(blocks, p) = list
  BY <1>2 DEF childIds
<1>4. /\ \A k \in 1..N : nth(K, k) \in K
      /\ \A n \in K : \E k \in 1..N : nth(K, k) = n
  BY <1>1, NthCounts
<1>5. Range(list) = {blocks[nth(K, k)].id : k \in 1..N}
  BY DEF Range
<1> HIDE DEF list
<1>6. \A d : d \in Range(blocks) /\ ParentOf(blocks, p, d) <=> \E n \in K : d = blocks[n]
  BY <1>1 DEF ChildPlaces
<1> HIDE DEF K, N
<1>7. {blocks[nth(K, k)].id : k \in 1..N} = {blocks[n].id : n \in K}
  BY <1>4
<1>8. {blocks[n].id : n \in K} = {c.id : c \in {d \in Range(blocks) : ParentOf(blocks, p, d)}}
  BY <1>6
<1> QED BY <1>1, <1>3, <1>5, <1>7, <1>8 DEF K, N, list

(* The blocks in the range of b. *)
InRange(blocks, b) ==
  {c \in Range(blocks) : b.rawBegin <= c.rawBegin /\ c.rawEnd <= b.rawEnd}

(* No block begins inside and ends outside of the range of b, or the other *)
(* way round.                                                              *)
CrossesNone(blocks, b) ==
  \A c \in Range(blocks) :
    \/ c \in InRange(blocks, b)
    \/ c.rawEnd <= b.rawBegin \/ c.rawBegin >= b.rawEnd
    \/ c.rawBegin < b.rawBegin /\ c.rawEnd > b.rawEnd

(* The subtree of a block that none crosses is what is in its range.       *)
LEMMA SubtreeIsInRange ==
  ASSUME NEW blocks, NEW length, Laid(blocks, length), NEW b \in Range(blocks),
         CrossesNone(blocks, b)
  PROVE  Subtree(blocks, b) = {c.id : c \in InRange(blocks, b)}
<1> DEFINE Inside == InRange(blocks, b)
           insideIds == {c.id : c \in Inside}
           Closed(S) == \A p \in Range(blocks) : p.id \in S =>
                          \A c \in Range(blocks) : ParentOf(blocks, p, c) => c.id \in S
<1>1. /\ \A c \in Range(blocks) :
           /\ c.rawBegin \in Nat /\ c.rawEnd \in Nat
           /\ c.rawBegin < c.rawEnd /\ c.rawEnd <= length
      /\ \A c, d \in Range(blocks) : c.id = d.id \/ c.rawBegin = d.rawBegin => c = d
      /\ length \in Nat
  BY DEF Laid
<1>2. Subtree(blocks, b) =
        {id \in ids(blocks) : \A S \in SUBSET (ids(blocks) \ {id}) : Closed(S) => b.id \notin S}
  <2> DEFINE children == [c \in Range(blocks) |-> Range(childIds(blocks, c))]
             C(S) == \A c \in Range(blocks) : c.id \in S => children[c] \subseteq S
  <2>1. ASSUME NEW p \in Range(blocks)
        PROVE  children[p] = {c.id : c \in {d \in Range(blocks) : ParentOf(blocks, p, d)}}
    BY ChildrenAreListed
  <2>2. Subtree(blocks, b) =
          {id \in ids(blocks) : \A S \in SUBSET (ids(blocks) \ {id}) : C(S) => b.id \notin S}
    BY DEF Subtree
  <2> HIDE DEF children
  <2>3. \A S : C(S) <=> Closed(S)
    BY <2>1
  <2> HIDE DEF C, Closed
  <2> QED BY <2>2, <2>3
<1>3. /\ Inside \subseteq Range(blocks) /\ b \in Inside
      /\ \A c \in Range(blocks) :
           c \in Inside <=> b.rawBegin <= c.rawBegin /\ c.rawEnd <= b.rawEnd
  BY <1>1 DEF InRange
<1>4. \A c \in Range(blocks) :
        \/ c \in Inside
        \/ c.rawEnd <= b.rawBegin \/ c.rawBegin >= b.rawEnd
        \/ c.rawBegin < b.rawBegin /\ c.rawEnd > b.rawEnd
  BY DEF CrossesNone
<1>5. \A p, c \in Range(blocks) :
        p \in Containers(blocks, c) <=>
          p # c /\ p.rawBegin <= c.rawBegin /\ c.rawEnd <= p.rawEnd
  <2> SUFFICES ASSUME NEW p \in Range(blocks), NEW c \in Range(blocks)
               PROVE  p \in Containers(blocks, c) <=>
                        p # c /\ p.rawBegin <= c.rawBegin /\ c.rawEnd <= p.rawEnd
    OBVIOUS
  <2>1. p = c <=> p.rawBegin = c.rawBegin
    BY <1>1
  <2>2. p = c => p.rawEnd = c.rawEnd
    OBVIOUS
  <2> QED BY <2>1, <2>2 DEF Containers, strictlyContains
<1> HIDE DEF Inside
<1>6. insideIds \subseteq ids(blocks)
  BY <1>3 DEF ids
<1>7. Closed(insideIds) /\ b.id \in insideIds
  <2> SUFFICES ASSUME NEW p \in Range(blocks), p.id \in insideIds,
                      NEW c \in Range(blocks), ParentOf(blocks, p, c)
               PROVE  c \in Inside
    BY <1>3
  <2>1. p \in Inside
    BY <1>1, <1>3
  <2>2. p.rawBegin <= c.rawBegin /\ c.rawEnd <= p.rawEnd
    BY <1>5 DEF ParentOf
  <2> QED BY <1>1, <1>3, <2>1, <2>2
<1>8. ASSUME NEW d \in Inside, NEW S, Closed(S), b.id \in S
      PROVE  d.id \in S
  <2> SUFFICES ASSUME d.id \notin S
               PROVE  FALSE
    OBVIOUS
  <2> DEFINE bad == {c \in Inside : c.id \notin S}
             begins == {c.rawBegin : c \in bad}
  <2>1. begins \in SUBSET (0..length) /\ begins # {}
    BY <1>1, <1>3
  <2> HIDE DEF begins
  <2>2. Min(begins) \in begins /\ \A y \in begins : Min(begins) <= y
    BY <1>1, <2>1, MinBounded
  <2>3. PICK c \in bad : c.rawBegin = Min(begins)
    BY <2>2 DEF begins
  <2>4. c \in Range(blocks) /\ c \in Inside /\ c.id \notin S /\ c # b
    BY <1>3, <1>8, <2>3
  <2>5. b \in Containers(blocks, c)
    BY <1>3, <1>5, <2>4
  <2>6. PICK p \in Range(blocks) : ParentOf(blocks, p, c)
    BY <2>4, <2>5, InnermostIsParent
  <2>7. /\ b.rawBegin <= p.rawBegin
        /\ p # c /\ p.rawBegin <= c.rawBegin /\ c.rawEnd <= p.rawEnd
    BY <1>5, <2>4, <2>5, <2>6 DEF ParentOf
  <2>8. p.rawBegin < c.rawBegin
    BY <1>1, <2>4, <2>7
  <2>9. p \in Inside
    BY <1>1, <1>3, <1>4, <2>4, <2>7
  <2>10. p.id \in S
    <3>1. p \in bad => c.rawBegin <= p.rawBegin
      BY <2>2, <2>3 DEF begins
    <3> QED BY <1>1, <2>4, <2>8, <2>9, <3>1
  <2> QED BY <1>8, <2>4, <2>6, <2>10
<1>9. ASSUME NEW id \in ids(blocks)
      PROVE  (\A S \in SUBSET (ids(blocks) \ {id}) : Closed(S) => b.id \notin S)
               <=> id \in insideIds
  <2>1. ASSUME id \notin insideIds
        PROVE  \E S \in SUBSET (ids(blocks) \ {id}) : Closed(S) /\ b.id \in S
    <3>1. insideIds \in SUBSET (ids(blocks) \ {id})
      BY <1>6, <2>1
    <3> HIDE DEF Closed, insideIds
    <3> QED BY <1>7, <3>1
  <2>2. ASSUME id \in insideIds, NEW S \in SUBSET (ids(blocks) \ {id}), Closed(S), b.id \in S
        PROVE  FALSE
    <3>1. PICK d \in Inside : id = d.id
      BY <2>2
    <3>2. d.id \in S
      BY <1>8, <2>2
    <3> QED BY <2>2, <3>1, <3>2
  <2> HIDE DEF Closed, insideIds
  <2> QED BY <2>1, <2>2
<1> HIDE DEF Closed, insideIds
<1>10. Subtree(blocks, b) = insideIds
  BY <1>2, <1>6, <1>9
<1> QED BY <1>10 DEF insideIds, Inside

(* The marks tell which range an edit has replaced by how many tokens.     *)
LEMMA MarksTellTheEdit ==
  ASSUME NEW length \in Nat, NEW revision \in Nat, NEW written,
         MarksSound(written, length, revision),
         NEW a \in Nat, NEW z \in Nat, NEW r \in Nat, a <= z, z <= length,
         NEW x \in Nat, NEW y \in Nat, NEW w \in Nat, x <= y, y <= length,
         Splice(written, a, z, NewMarks(revision + 1, r))
           = Splice(written, x, y, NewMarks(revision + 1, w))
  PROVE  /\ x < y \/ w > 0 => a = x /\ z = y /\ r = w
         /\ x = y /\ w = 0 => a = z /\ r = 0
<1> DEFINE now == Splice(written, a, z, NewMarks(revision + 1, r))
           total == a + r + (length - z)
           other == x + w + (length - y)
<1>1. /\ MarksSound(now, total, revision + 1)
      /\ MarksFollow(now, written, length, revision, a, z, r)
  BY MarksMove
<1>2. /\ MarksSound(now, other, revision + 1)
      /\ MarksFollow(now, written, length, revision, x, y, w)
  <2> DEFINE then == Splice(written, x, y, NewMarks(revision + 1, w))
  <2>1. /\ MarksSound(then, other, revision + 1)
        /\ MarksFollow(then, written, length, revision, x, y, w)
    BY MarksMove
  <2>2. now = then
    OBVIOUS
  <2> HIDE DEF now, then
  <2> QED BY <2>1, <2>2
<1> HIDE DEF now
<1>3. total = other
  BY <1>1, <1>2 DEF MarksSound
<1>4. /\ \A p \in 1..total, q \in 1..length : now[p] = written[q] <=> Moved(a, z, r, q, p)
      /\ \A p \in 1..total : now[p] = <<revision + 1, 1>> <=> p = a + 1 /\ r > 0
  BY <1>1 DEF MarksFollow
<1>5. /\ \A p \in 1..other, q \in 1..length : now[p] = written[q] <=> Moved(x, y, w, q, p)
      /\ \A p \in 1..other : now[p] = <<revision + 1, 1>> <=> p = x + 1 /\ w > 0
  BY <1>2 DEF MarksFollow
<1>6. \A p \in 1..total : (p = a + 1 /\ r > 0) <=> (p = x + 1 /\ w > 0)
  BY <1>3, <1>4, <1>5
<1>7. \A p \in 1..total, q \in 1..length : Moved(a, z, r, q, p) <=> Moved(x, y, w, q, p)
  BY <1>3, <1>4, <1>5
<1>8. total = a + r + (length - z) /\ total = x + w + (length - y) /\ total \in Nat
  BY <1>3
<1> HIDE DEF total, other
<1>9. (r > 0 <=> w > 0) /\ (w > 0 => a = x)
  <2>1. r > 0 => a + 1 \in 1..total
    BY <1>8
  <2>2. w > 0 => x + 1 \in 1..total
    BY <1>8
  <2> QED BY <1>6, <2>1, <2>2
<1>10. ASSUME NEW q \in 1..length
       PROVE  a < q /\ q <= z <=> x < q /\ q <= y
  <2>1. a < q /\ q <= z <=> ~ \E p \in 1..total : Moved(a, z, r, q, p)
    <3>1. a < q /\ q <= z => ~ \E p \in 1..total : Moved(a, z, r, q, p)
      BY DEF Moved
    <3>2. q <= a => q \in 1..total /\ Moved(a, z, r, q, q)
      BY <1>8 DEF Moved
    <3>3. q > z => a + r + (q - z) \in 1..total /\ Moved(a, z, r, q, a + r + (q - z))
      BY <1>8 DEF Moved
    <3> QED BY <3>1, <3>2, <3>3
  <2>2. x < q /\ q <= y <=> ~ \E p \in 1..total : Moved(x, y, w, q, p)
    <3>1. x < q /\ q <= y => ~ \E p \in 1..total : Moved(x, y, w, q, p)
      BY DEF Moved
    <3>2. q <= x => q \in 1..total /\ Moved(x, y, w, q, q)
      BY <1>8 DEF Moved
    <3>3. q > y => x + w + (q - y) \in 1..total /\ Moved(x, y, w, q, x + w + (q - y))
      BY <1>8 DEF Moved
    <3> QED BY <3>1, <3>2, <3>3
  <2>3. (\E p \in 1..total : Moved(a, z, r, q, p)) <=> (\E p \in 1..total : Moved(x, y, w, q, p))
    BY <1>7
  <2> QED BY <2>1, <2>2, <2>3
<1>11. a < z => a + 1 \in 1..length /\ z \in 1..length
  OBVIOUS
<1>12. x < y => x + 1 \in 1..length /\ y \in 1..length
  OBVIOUS
<1>13. a < z <=> x < y
  BY <1>10, <1>11, <1>12
<1>14. x < y => a = x /\ z = y
  <2> SUFFICES ASSUME x < y
               PROVE  a = x /\ z = y
    OBVIOUS
  <2>1. a < x + 1 /\ y <= z
    BY <1>10, <1>12
  <2>2. x < a + 1 /\ z <= y
    BY <1>10, <1>11, <1>13
  <2> QED BY <2>1, <2>2
<1>15. x = y => a = z
  BY <1>13
<1>16. ASSUME x < y \/ w > 0
       PROVE  a = x /\ z = y /\ r = w
  <2>1. a = x /\ z = y
    BY <1>9, <1>13, <1>14, <1>16
  <2> QED BY <1>8, <2>1
<1>17. ASSUME x = y, w = 0
       PROVE  a = z /\ r = 0
  BY <1>9, <1>15, <1>17
<1> QED BY <1>16, <1>17

(* The ids that an edit takes away are those of the blocks in the range    *)
(* that it removes, and it crosses none.                                   *)
LEMMA RemovedIds ==
  ASSUME IInv, NEW edit, EditFits(document, edit), replaceRange(edit),
         NEW b \in Range(document.blocks),
         edit.begin = b.rawBegin, edit.end = b.rawEnd, Len(edit.replacement) = 0
  PROVE  /\ CrossesNone(document.blocks, b)
         /\ ids(document.blocks) \ ids(document'.blocks)
              = {c.id : c \in InRange(document.blocks, b)}
<1> DEFINE blocks == document.blocks
           html == nextHtml(document, edit)
           parsed == parseBlocks(html)
           a == edit.begin
           z == edit.end
           Inside(c) == a <= c.rawBegin /\ c.rawEnd <= z
<1>1. /\ DocumentSound(document) /\ DocumentSound(document') /\ CanReplace(document, edit)
      /\ document'.html = html
      /\ \A n \in 1..Len(document'.blocks) :
              document'.blocks[n].id = idGiven(document, edit, n)
  BY EditsKeep DEF IInv, replaceRange
<1>2. /\ Laid(blocks, Len(document.html))
  BY <1>1, DocumentLaid
<1>3. /\ \A c \in Range(blocks) :
           /\ c.rawBegin \in Nat /\ c.rawEnd \in Nat /\ c.rawBegin < c.rawEnd
           /\ c.id # NoRoot
      /\ \A c, d \in Range(blocks) : c.id = d.id => c = d
  <2>1. ids(blocks) \subseteq 1..document.nextId - 1 /\ document.nextId \in Nat
    BY <1>1, DocumentBlocks
  <2>2. \A c \in Range(blocks) : c.id \in 1..document.nextId - 1
    BY <2>1 DEF ids
  <2>3. \A c \in Range(blocks) : c.id # NoRoot
    BY <2>1, <2>2 DEF NoRoot
  <2>4. /\ \A c \in Range(blocks) :
             c.rawBegin \in Nat /\ c.rawEnd \in Nat /\ c.rawBegin < c.rawEnd
        /\ \A c, d \in Range(blocks) : c.id = d.id => c = d
    <3> HIDE DEF blocks
    <3> QED BY <1>2 DEF Laid
  <2> QED BY <2>3, <2>4
<1>4. /\ a \in Nat /\ z \in Nat /\ a < z /\ edit.root = NoRoot
      /\ edit.replacement \in Seq(Token) /\ edit.replacement = <<>>
  <2>1. edit.replacement \in Seq(Token) /\ edit.replacement = <<>>
    BY DEF EditFits
  <2> QED BY <1>3, <2>1 DEF EditFits
<1>5. ASSUME NEW c \in Range(blocks)
      PROVE  /\ c \in Preserved(document, edit) <=> Apart(edit, c)
             /\ Inside(c) <=> ~Apart(edit, c)
             /\ \/ Inside(c) \/ c.rawEnd <= a \/ c.rawBegin >= z
                \/ c.rawBegin < a /\ c.rawEnd > z
  <2>1. c \in Preserved(document, edit) <=> Apart(edit, c)
    BY <1>3, <1>4 DEF Preserved, Apart
  <2>2. c \notin Crossed(document, edit) /\ c.id # edit.root
    BY <1>1, <1>3, <1>4 DEF CanReplace
  <2>3. ~Apart(edit, c) => Inside(c)
    <3>1. ~Apart(edit, c) => ~(c.rawBegin < a \/ c.rawEnd > z)
      BY <2>1, <2>2 DEF Crossed
    <3> HIDE DEF a, z
    <3> QED BY <1>3, <1>4, <3>1
  <2>4. Apart(edit, c) <=>
          /\ c.rawBegin # a \/ c.rawEnd # z
          /\ \/ c.rawEnd <= a
             \/ c.rawBegin >= z
             \/ c.rawBegin < a /\ c.rawEnd > z
    BY DEF Apart
  <2> HIDE DEF a, z
  <2>5. c.rawBegin \in Nat /\ c.rawEnd \in Nat /\ c.rawBegin < c.rawEnd
    BY <1>3
  <2>6. Apart(edit, c) => ~Inside(c)
    BY <1>4, <2>4, <2>5
  <2> QED BY <2>1, <2>3, <2>4, <2>6
<1>6. CrossesNone(blocks, b)
  BY <1>5 DEF CrossesNone, InRange
<1>7. /\ ids(document'.blocks) = {idGiven(document, edit, n) : n \in 1..Len(parsed)}
      /\ \A n \in 1..Len(parsed) : PlacedIn(html, parsed[n])
      /\ Range(parsed) = {parsed[n] : n \in 1..Len(parsed)}
  <2>1. /\ Len(document'.html) \in Nat
        /\ Len(document'.blocks) = Len(parseBlocks(document'.html))
        /\ Parses(document'.html)
    BY <1>1, DocumentBlocks DEF DocumentSound
  <2>2. Laid(document'.blocks, Len(document'.html))
    BY <1>1, DocumentLaid
  <2>3. Range(document'.blocks) = {document'.blocks[n] : n \in 1..Len(document'.blocks)}
    BY <2>2 DEF Laid
  <2>4. ids(document'.blocks) = {document'.blocks[n].id : n \in 1..Len(document'.blocks)}
    BY <2>3 DEF ids
  <2>5. Len(document'.blocks) = Len(parsed)
    BY <1>1, <2>1
  <2>6. Len(html) \in Nat /\ Parses(html)
    BY <1>1, <2>1
  <2>7. /\ Len(parsed) \in Nat /\ parsed = [n \in 1..Len(parsed) |-> parsed[n]]
        /\ \A n \in 1..Len(parsed) : PlacedIn(html, parsed[n])
    BY <2>6, ParsedBlocks
  <2> HIDE DEF parsed
  <2>8. Range(parsed) = {parsed[n] : n \in 1..Len(parsed)}
    <3>1. DOMAIN parsed = 1..Len(parsed)
      BY <2>7
    <3> QED BY <3>1 DEF Range
  <2> QED BY <1>1, <2>4, <2>5, <2>7, <2>8
<1> HIDE DEF parsed
<1>8. ASSUME NEW c \in Range(blocks)
      PROVE  c.id \in ids(document'.blocks) <=> Apart(edit, c)
  <2>1. \A n \in 1..Len(parsed) : c.id = idGiven(document, edit, n) <=> MovedTo(edit, c, parsed[n])
    BY <1>1, <1>4, IdentityByRanges DEF Replaces, parsed
  <2>2. \A n \in 1..Len(parsed) :
          MovedTo(edit, c, parsed[n]) <=>
            Apart(edit, c) /\ expectedRange(c, edit) = rangeOf(parsed[n])
    <3> SUFFICES ASSUME NEW n \in 1..Len(parsed)
                 PROVE  MovedTo(edit, c, parsed[n]) <=>
                          Apart(edit, c) /\ expectedRange(c, edit) = rangeOf(parsed[n])
      OBVIOUS
    <3>1. parsed[n].rawBegin \in Nat /\ parsed[n].rawEnd \in Nat
      BY <1>7 DEF PlacedIn
    <3>2. edit.begin <= edit.end /\ Len(edit.replacement) \in Nat
      BY <1>4
    <3> QED BY <1>3, <1>4, <3>1, <3>2, ExpectedIsMoved
  <2>3. ASSUME Apart(edit, c)
        PROVE  \E n \in 1..Len(parsed) : expectedRange(c, edit) = rangeOf(parsed[n])
    <3>1. c \in Preserved(document, edit)
      BY <1>5, <2>3
    <3>2. <<expectedRange(c, edit), c.tagName>> \in {<<rangeOf(p), p.tagName>> : p \in Range(parsed)}
      BY <1>1, <3>1 DEF CanReplace, RangesFound, parsed
    <3>3. PICK p \in Range(parsed) :
            <<expectedRange(c, edit), c.tagName>> = <<rangeOf(p), p.tagName>>
      BY <3>2
    <3>4. \A f, g, h, k : <<f, g>> = <<h, k>> => f = h
      OBVIOUS
    <3>5. expectedRange(c, edit) = rangeOf(p)
      BY <3>3, <3>4
    <3>6. \E n \in 1..Len(parsed) : p = parsed[n]
      BY <1>7, <3>3
    <3> QED BY <3>5, <3>6
  <2> QED BY <1>7, <2>1, <2>2, <2>3
<1>9. InRange(blocks, b) = {c \in Range(blocks) : ~Apart(edit, c)}
  BY <1>5 DEF InRange
<1> HIDE DEF blocks
<1>10. ids(blocks) = {c.id : c \in Range(blocks)}
  BY DEF ids
<1>11. ids(blocks) \ ids(document'.blocks) = {c.id : c \in InRange(blocks, b)}
  BY <1>8, <1>9, <1>10
<1> QED BY <1>6, <1>11 DEF blocks

(* A step that removes a block takes its subtree.                          *)
LEMMA RemovalsTakeSubtrees ==
  ASSUME IInv, Next
  PROVE  RemovalTakesTheSubtree
<1> SUFFICES ASSUME NEW b \in Range(document.blocks),
                    marks' = Spliced(marks, b.rawBegin, b.rawEnd, <<>>)
             PROVE  ids(document.blocks) \ ids(document'.blocks) = Subtree(document.blocks, b)
  BY DEF RemovalTakesTheSubtree, Blocks
<1>1. PICK edit : EditFits(document, edit) /\ replaceRange(edit)
  BY StepsAreEdits
<1> DEFINE a == edit.begin
           z == edit.end
           r == Len(edit.replacement)
           x == b.rawBegin
           y == b.rawEnd
           length == Len(document.html)
           revision == document.revision
           zero == 0
<1>2. /\ a \in Nat /\ z \in Nat /\ a <= z /\ z <= length /\ r \in Nat
  BY <1>1 DEF EditFits
<1>3. DocumentSound(document) /\ Laid(document.blocks, length)
      /\ MarksSound(marks, length, revision)
  BY DocumentLaid DEF IInv
<1>4. x \in Nat /\ y \in Nat /\ x < y /\ y <= length /\ length \in Nat /\ revision \in Nat
  BY <1>3, HtmlAssumption DEF Laid, DocumentSound
<1>5. marks' = Splice(marks, a, z, NewMarks(revision + 1, r))
  BY <1>1, EditsKeep DEF Spliced, Splice
<1>6. marks' = Splice(marks, x, y, NewMarks(revision + 1, zero))
  <2>1. NewMarks(revision + 1, zero) = <<>>
    BY DEF NewMarks
  <2> QED BY <2>1 DEF Spliced, Splice
<1>7. a = x /\ z = y /\ r = zero
  <2>1. zero \in Nat /\ x <= y
    BY <1>4
  <2>2. Splice(marks, a, z, NewMarks(revision + 1, r))
          = Splice(marks, x, y, NewMarks(revision + 1, zero))
    BY <1>5, <1>6
  <2> HIDE DEF a, z, r, x, y, length, revision, zero
  <2> QED BY <1>2, <1>3, <1>4, <2>1, <2>2, MarksTellTheEdit
<1>8. /\ CrossesNone(document.blocks, b)
      /\ ids(document.blocks) \ ids(document'.blocks) = {c.id : c \in InRange(document.blocks, b)}
  BY <1>1, <1>7, RemovedIds
<1> QED BY <1>3, <1>8, SubtreeIsInRange

-----------------------------------------------------------------------------
(* Blocks are where the parser has put them. *)
LEMMA ParsedPlaces ==
  ASSUME NEW doc, DocumentSound(doc), NEW n \in 1..Len(doc.blocks)
  PROVE  /\ doc.blocks[n].rawBegin = parseBlocks(doc.html)[n].rawBegin
         /\ doc.blocks[n].rawEnd = parseBlocks(doc.html)[n].rawEnd
<1> DEFINE b == doc.blocks[n]
           p == parseBlocks(doc.html)[n]
<1>1. [b EXCEPT !.id = n] = p /\ b \in Range(doc.blocks)
  <2>1. [b EXCEPT !.id = n] = p
    BY DocumentBlocks
  <2>2. Range(doc.blocks) = {doc.blocks[k] : k \in 1..Len(doc.blocks)}
    BY BlocksInOrder
  <2> QED BY <2>1, <2>2
<1>2. b = [id |-> b.id, tagName |-> b.tagName, rawBegin |-> b.rawBegin,
           valueBegin |-> b.valueBegin, valueEnd |-> b.valueEnd, rawEnd |-> b.rawEnd]
  BY <1>1, DocumentBlocks DEF PlacedIn
<1> HIDE DEF b
<1>3. [b EXCEPT !.id = n].rawBegin = b.rawBegin /\ [b EXCEPT !.id = n].rawEnd = b.rawEnd
  BY <1>2
<1> QED BY <1>1, <1>3 DEF b, p

(* d is c after r tokens were inserted at a. *)
Shifted(a, r, c, d) ==
  /\ d.id = c.id
  /\ d.rawBegin = IF c.rawBegin < a THEN c.rawBegin ELSE c.rawBegin + r
  /\ d.rawEnd = IF c.rawEnd <= a THEN c.rawEnd ELSE c.rawEnd + r

(* The blocks after r tokens were inserted at a: the old ones, shifted,    *)
(* and others within what was inserted; one of them is all of it and has   *)
(* root for its id.                                                        *)
Inserts(old, new, length, a, r, root) ==
  /\ Laid(old, length) /\ Laid(new, length + r)
  /\ \A c \in Range(old) : \E d \in Range(new) : Shifted(a, r, c, d)
  /\ \A d \in Range(new) :
       \/ \E c \in Range(old) : Shifted(a, r, c, d)
       \/ a <= d.rawBegin /\ d.rawEnd <= a + r
  /\ \E d \in Range(new) : d.id = root /\ d.rawBegin = a /\ d.rawEnd = a + r

(* edit inserts r tokens at a. *)
InsertsAt(doc, edit, length, a, r) ==
  /\ Len(doc.html) = length
  /\ edit.begin = a /\ edit.end = a
  /\ Len(edit.replacement) = r

(* What the blocks are after an edit that inserts. *)
LEMMA InsertedBlocks ==
  ASSUME IInv, NEW edit, EditFits(document, edit), replaceRange(edit),
         NEW length \in Nat, NEW a \in Nat, NEW r \in Nat, r > 0,
         InsertsAt(document, edit, length, a, r)
  PROVE  Inserts(document.blocks, document'.blocks, length, a, r, document.nextId)
<1> DEFINE old == document.blocks
           new == document'.blocks
           s == document.html
           t == document'.html
           parsed == parseBlocks(nextHtml(document, edit))
<1>1. /\ DocumentSound(document) /\ DocumentSound(document') /\ CanReplace(document, edit)
      /\ t = nextHtml(document, edit)
      /\ \A n \in 1..Len(new) : new[n].id = idGiven(document, edit, n)
  BY EditsKeep DEF IInv, replaceRange
<1>2. /\ edit.replacement \in Seq(Token) /\ s \in Seq(Token)
      /\ edit.begin = a /\ edit.end = a /\ Len(edit.replacement) = r
      /\ a \in Nat /\ a <= length /\ r \in Nat /\ r > 0 /\ length \in Nat
  BY <1>1, DocumentBlocks DEF EditFits, InsertsAt
<1>numbers. a \in Nat /\ r \in Nat /\ length \in Nat /\ a <= length /\ r > 0
  BY <1>2
<1>3. /\ edit.allocates = TRUE /\ edit.root = document.nextId /\ edit.root # NoRoot
  <2>1. \A b \in Range(old) : b.rawBegin < b.rawEnd /\ b.rawBegin \in Nat /\ b.rawEnd \in Nat
    BY <1>1, DocumentBlocks DEF PlacedIn
  <2>2. edit.allocates
    <3>1. ASSUME ~edit.allocates
          PROVE  FALSE
      <4>1. PICK b \in Range(old) : b.rawBegin = edit.begin /\ b.rawEnd = edit.end
        BY <3>1 DEF EditFits
      <4> QED BY <1>2, <2>1, <4>1
    <3> QED BY <3>1
  <2>3. edit.replacement # <<>>
    BY <1>2
  <2> QED BY <2>2, <2>3 DEF EditFits
<1>4. IsSplice(Token, t, s, a, a, edit.replacement)
  <2>1. a \in Nat /\ a <= a /\ a <= Len(s)
    BY <1>numbers DEF InsertsAt
  <2>2. t = SubSeq(s, 1, a) \o edit.replacement \o SubSeq(s, a + 1, Len(s))
    BY <1>1, <1>2 DEF nextHtml, Spliced
  <2> HIDE DEF s, t
  <2> QED BY <1>2, <2>1, <2>2, SplicedParts
<1>5. /\ Len(t) = length + r /\ Len(t) \in Nat
      /\ \A p \in 1..a : t[p] = s[p]
      /\ \A q \in a + 1..length : t[q + r] = s[q]
  <2>0. Len(s) = length
    BY DEF InsertsAt
  <2>1. /\ Len(t) = a + r + (length - a)
        /\ \A p \in 1..a : t[p] = s[p]
        /\ \A q \in a + 1..length : t[a + r + (q - a)] = s[q]
    BY <1>2, <1>4, <2>0 DEF IsSplice
  <2>2. a + r + (length - a) = length + r
    BY <1>numbers
  <2>3. \A q \in a + 1..length : a + r + (q - a) = q + r
    BY <1>numbers
  <2> HIDE DEF t, s
  <2>4. length + r \in Nat
    BY <1>numbers
  <2> QED BY <2>1, <2>2, <2>3, <2>4
<1>6. Laid(old, length) /\ Laid(new, length + r)
  BY <1>1, <1>5, DocumentLaid DEF InsertsAt
<1>7. /\ Len(parsed) = Len(new)
      /\ Range(parsed) = {parsed[n] : n \in 1..Len(parsed)}
      /\ \A n \in 1..Len(new) :
           /\ new[n] \in Range(new)
           /\ new[n].rawBegin = parsed[n].rawBegin /\ new[n].rawEnd = parsed[n].rawEnd
           /\ parsed[n].rawBegin \in Nat /\ parsed[n].rawEnd \in Nat
  <2>1. /\ Len(new) = Len(parsed) /\ Parses(t)
    BY <1>1, DocumentBlocks DEF DocumentSound
  <2>2. /\ Len(parsed) \in Nat /\ parsed = [n \in 1..Len(parsed) |-> parsed[n]]
    BY <1>1, <1>5, <2>1, ParsedBlocks
  <2>3. \A n \in 1..Len(new) :
           new[n].rawBegin = parsed[n].rawBegin /\ new[n].rawEnd = parsed[n].rawEnd
    BY <1>1, ParsedPlaces
  <2> HIDE DEF parsed, new
  <2>4. Range(parsed) = {parsed[n] : n \in 1..Len(parsed)}
    <3>1. DOMAIN parsed = 1..Len(parsed)
      BY <2>2
    <3> QED BY <3>1 DEF Range
  <2>5. \A n \in 1..Len(new) :
          new[n] \in Range(new) /\ new[n].rawBegin \in Nat /\ new[n].rawEnd \in Nat
    BY <1>6 DEF Laid
  <2>6. \A n \in 1..Len(new) : parsed[n].rawBegin \in Nat /\ parsed[n].rawEnd \in Nat
    BY <2>3, <2>5
  <2> QED BY <2>1, <2>3, <2>4, <2>5, <2>6
<1> HIDE DEF parsed
<1>8. /\ \A c \in Range(old) :
           /\ c.rawBegin \in Nat /\ c.rawEnd \in Nat
           /\ c.rawBegin < c.rawEnd /\ c.rawEnd <= length
      /\ \A d \in Range(new) :
           /\ d.rawBegin \in Nat /\ d.rawEnd \in Nat
           /\ d.rawBegin < d.rawEnd /\ d.rawEnd <= length + r
      /\ \A d, e \in Range(new) : d.rawBegin = e.rawBegin => d = e
  BY <1>6 DEF Laid
<1>9. ASSUME NEW c \in Range(old)
      PROVE  \E d \in Range(new) : Shifted(a, r, c, d)
  <2>1. Apart(edit, c) /\ c \in Preserved(document, edit)
    <3>1. /\ c.rawBegin # a \/ c.rawEnd # a
          /\ \/ c.rawEnd <= a
             \/ c.rawBegin >= a
             \/ c.rawBegin < a /\ c.rawEnd > a
      BY <1>numbers, <1>8
    <3> QED BY <1>2, <1>3, <3>1 DEF Apart, Preserved
  <2>2. <<expectedRange(c, edit), c.tagName>> \in {<<rangeOf(p), p.tagName>> : p \in Range(parsed)}
    BY <1>1, <2>1 DEF CanReplace, RangesFound, parsed
  <2>3. PICK p \in Range(parsed) :
          <<expectedRange(c, edit), c.tagName>> = <<rangeOf(p), p.tagName>>
    BY <2>2
  <2>4. PICK n \in 1..Len(new) : p = parsed[n]
    BY <1>7, <2>3
  <2>5. expectedRange(c, edit) = rangeOf(parsed[n])
    BY <2>3, <2>4
  <2>6. MovedTo(edit, c, parsed[n])
    <3>1. /\ edit.begin \in Nat /\ edit.end \in Nat /\ edit.begin <= edit.end
          /\ Len(edit.replacement) \in Nat
      BY <1>2
    <3>2. c.rawBegin \in Nat /\ c.rawEnd \in Nat /\ c.rawBegin < c.rawEnd
      BY <1>8
    <3>3. parsed[n].rawBegin \in Nat /\ parsed[n].rawEnd \in Nat
      BY <1>7
    <3>4. MovedTo(edit, c, parsed[n]) <=>
            Apart(edit, c) /\ expectedRange(c, edit) = rangeOf(parsed[n])
      BY <3>1, <3>2, <3>3, ExpectedIsMoved
    <3> QED BY <2>1, <2>5, <3>4
  <2>7. c.id = new[n].id
    BY <1>1, <1>7, <2>6, IdentityByRanges DEF parsed
  <2> DEFINE x == c.rawBegin
             y == c.rawEnd
             u == new[n].rawBegin
             v == new[n].rawEnd
  <2>8. /\ y <= a => u = x /\ v = y
        /\ ~(y <= a) /\ x >= a => u = a + r + (x - a) /\ v = a + r + (y - a)
        /\ ~(y <= a) /\ ~(x >= a) => u = x /\ v = y - (a - a) + r
    BY <1>2, <1>7, <2>5 DEF expectedRange, rangeOf, shiftedAfterEdit, expandedAncestorEnd
  <2>9. x \in Nat /\ y \in Nat /\ x < y /\ u \in Nat /\ v \in Nat
    BY <1>7, <1>8
  <2> HIDE DEF x, y, u, v
  <2>10. /\ u = IF x < a THEN x ELSE x + r
         /\ v = IF y <= a THEN y ELSE y + r
    BY <1>numbers, <2>8, <2>9
  <2>11. Shifted(a, r, c, new[n])
    BY <2>7, <2>10 DEF Shifted, x, y, u, v
  <2> QED BY <1>7, <2>11
<1>10. \E d \in Range(new) : d.id = document.nextId /\ d.rawBegin = a /\ d.rawEnd = a + r
  <2>1. \E p \in Range(parsed) : rangeOf(p) = rootRange(edit)
    BY <1>1, <1>3 DEF CanReplace, RangesFound, parsed
  <2>2. PICK n \in 1..Len(new) : rangeOf(parsed[n]) = rootRange(edit)
    BY <1>7, <2>1
  <2>3. Parses(nextHtml(document, edit)) /\ n \in 1..Len(parsed)
    BY <1>1, <1>7 DEF CanReplace
  <2>4. IsRoot(edit, parsed, n) => idGiven(document, edit, n) = edit.root
    BY <1>1, <2>3, WhichId DEF parsed
  <2>5. new[n].id = document.nextId
    BY <1>1, <1>3, <2>2, <2>4 DEF IsRoot
  <2>6. new[n].rawBegin = a /\ new[n].rawEnd = a + r
    BY <1>2, <1>7, <2>2 DEF rangeOf, rootRange
  <2> QED BY <1>7, <2>5, <2>6
<1>11. /\ TagsPair(s) /\ TagsPair(t) /\ Len(s) = length /\ Len(s) \in Nat
       /\ \A b \in Range(old) : IsElement(s, b, b.rawBegin + 1)
       /\ \A p \in Starts(s) : \E b \in Range(old) : IsElement(s, b, p)
       /\ \A b \in Range(new) : IsElement(t, b, b.rawBegin + 1)
  BY <1>1, BlocksAreElements DEF DocumentSound, Parses, InsertsAt
<1> HIDE DEF s, t, old, new
<1>12. ASSUME NEW d \in Range(new), d.rawBegin < a \/ d.rawBegin >= a + r
       PROVE  \E c \in Range(old) : Shifted(a, r, c, d)
  <2> DEFINE p == d.rawBegin + 1
             q == IF p <= a THEN p ELSE p - r
  <2>1. p \in Starts(t) /\ d.rawBegin \in Nat /\ p \in 1..length + r
    BY <1>8, <1>11 DEF IsElement
  <2>2. q \in 1..length /\ s[q] = t[p]
    <3>1. CASE p <= a
      BY <1>numbers, <1>5, <2>1, <3>1
    <3>2. CASE ~(p <= a)
      <4>1. q \in a + 1..length /\ q + r = p /\ q \in 1..length
        BY <1>numbers, <1>12, <2>1, <3>2
      <4> HIDE DEF p, q
      <4> QED BY <1>5, <4>1
    <3> QED BY <3>1, <3>2
  <2>3. q \in Starts(s)
    BY <1>11, <2>1, <2>2 DEF Starts, Positions
  <2>4. PICK c \in Range(old) : IsElement(s, c, q)
    BY <1>11, <2>3
  <2>5. c.rawBegin \in Nat /\ c.rawBegin + 1 = q
    BY <2>4 DEF IsElement
  <2>6. PICK e \in Range(new) : Shifted(a, r, c, e)
    BY <1>9
  <2>7. e.rawBegin = d.rawBegin
    <3>1. e.rawBegin = IF c.rawBegin < a THEN c.rawBegin ELSE c.rawBegin + r
      BY <2>6 DEF Shifted
    <3> QED BY <1>numbers, <1>12, <2>1, <2>5, <3>1
  <2> QED BY <1>8, <2>6, <2>7
<1>13. ASSUME NEW d \in Range(new), a <= d.rawBegin, d.rawBegin < a + r
       PROVE  d.rawEnd <= a + r
  <2> SUFFICES ASSUME a + r < d.rawEnd
               PROVE  FALSE
    BY <1>numbers, <1>8
  <2> DEFINE p == d.rawBegin + 1
             e == d.rawEnd
             k == e - r
  <2>1. p \in Starts(t) /\ e = endOf(t, p) /\ p \in Nat /\ e \in Nat
        /\ p <= a + r /\ a + r < e /\ e <= length + r
    BY <1>numbers, <1>8, <1>11, <1>13 DEF IsElement
  <2> HIDE DEF p, e
  <2>2. t[p].kind # "void"
    <3>1. endOf(t, p) # p
      BY <1>numbers, <2>1
    <3> QED BY <1>5, <1>11, <2>1, <3>1, EndsWithinSource
  <2>3. p \in Positions(t, "open")
    BY <2>1, <2>2 DEF Starts, Positions
  <2>4. e \in Positions(t, "close")
    BY <1>5, <1>11, <2>1, <2>3, ClosersMatch
  <2>5. k \in a + 1..length /\ k + r = e /\ k \in 1..length
    BY <1>numbers, <2>1
  <2>6. k \in Positions(s, "close")
    <3> HIDE DEF k
    <3>1. s[k] = t[e]
      BY <1>5, <2>5
    <3> QED BY <1>11, <2>4, <2>5, <3>1 DEF Positions
  <2>7. PICK i \in Positions(s, "open") : endOf(s, i) = k
    BY <1>2, <1>11, <2>6, ClosersMatch
  <2>8. PICK c \in Range(old) : IsElement(s, c, i)
    BY <1>11 DEF Starts
  <2>9. c.rawEnd = k
    BY <2>7, <2>8 DEF IsElement
  <2>10. PICK f \in Range(new) : Shifted(a, r, c, f)
    BY <1>9
  <2>11. f.rawEnd = e
    <3>1. f.rawEnd = IF c.rawEnd <= a THEN c.rawEnd ELSE c.rawEnd + r
      BY <2>10 DEF Shifted
    <3> QED BY <1>numbers, <2>5, <2>9, <3>1
  <2> DEFINE j == f.rawBegin + 1
  <2>12. j \in Starts(t) /\ endOf(t, j) = e
    BY <1>11, <2>11 DEF IsElement
  <2>13. j \in Positions(t, "open")
    <3>1. j # e
      BY <2>4, <2>12 DEF Starts, Positions
    <3>2. t[j].kind # "void"
      BY <1>5, <1>11, <2>12, <3>1, EndsWithinSource
    <3> QED BY <2>12, <3>2 DEF Starts, Positions
  <2>14. j = p
    BY <1>5, <1>11, <2>1, <2>3, <2>12, <2>13, ClosersMatch
  <2>15. f.rawBegin = IF c.rawBegin < a THEN c.rawBegin ELSE c.rawBegin + r
    BY <2>10 DEF Shifted
  <2> QED BY <1>numbers, <1>8, <1>13, <2>14, <2>15 DEF p
<1>14. ASSUME NEW d \in Range(new)
       PROVE  \/ \E c \in Range(old) : Shifted(a, r, c, d)
              \/ a <= d.rawBegin /\ d.rawEnd <= a + r
  <2>1. d.rawBegin < a \/ d.rawBegin >= a + r \/ (a <= d.rawBegin /\ d.rawBegin < a + r)
    BY <1>numbers, <1>8
  <2> QED BY <1>12, <1>13, <2>1
<1> QED BY <1>6, <1>9, <1>10, <1>14 DEF Inserts, old, new

(* nth and counting from the left are each other's inverse.                *)
LEMMA NthHasItsRank ==
  ASSUME NEW length \in Nat, NEW S \in SUBSET (1..length)
  PROVE  /\ Cardinality(S) \in Nat
         /\ \A k \in 1..Cardinality(S) : nth(S, k) \in S /\ Cardinality(S \cap 1..nth(S, k)) = k
         /\ \A i \in S : nth(S, Cardinality(S \cap 1..i)) = i
<1>1. /\ Cardinality(S) \in Nat
      /\ \A k \in 1..Cardinality(S) : \E i \in S : Cardinality(S \cap 1..i) = k
  BY EveryRankIsTaken
<1>2. \A k \in 1..Cardinality(S) : nth(S, k) \in S /\ Cardinality(S \cap 1..nth(S, k)) = k
  <2> SUFFICES ASSUME NEW k \in 1..Cardinality(S)
               PROVE  nth(S, k) \in S /\ Cardinality(S \cap 1..nth(S, k)) = k
    OBVIOUS
  <2>1. \E i \in S : Cardinality(S \cap 1..i) = k
    BY <1>1
  <2> QED BY <2>1 DEF nth
<1>3. \A i \in S : \E k \in 1..Cardinality(S) : nth(S, k) = i
  BY NthCounts
<1> QED BY <1>1, <1>2, <1>3

(* g takes the members of S to those of T in their order, and last comes   *)
(* after them all.                                                         *)
OneMore(S, T, g, last) ==
  /\ g \in [S -> T]
  /\ last \in T
  /\ \A m, n \in S : m < n => g[m] < g[n]
  /\ \A n \in S : g[n] < last
  /\ \A t \in T : t = last \/ \E n \in S : t = g[n]

(* If the members of S correspond in their order to those of T but the     *)
(* last, so do those that nth counts.                                      *)
LEMMA NthWithLast ==
  ASSUME NEW length \in Nat, NEW S \in SUBSET (1..length),
         NEW total \in Nat, NEW T \in SUBSET (1..total),
         NEW g, NEW last, OneMore(S, T, g, last)
  PROVE  /\ Cardinality(S) \in Nat /\ Cardinality(T) = Cardinality(S) + 1
         /\ \A k \in 1..Cardinality(S) : nth(S, k) \in S /\ nth(T, k) = g[nth(S, k)]
         /\ nth(T, Cardinality(T)) = last
<1>b. \A k \in 1..Cardinality(S) : nth(S, k) \in S /\ Cardinality(S \cap 1..nth(S, k)) = k
  BY NthHasItsRank
<1>c. \A i \in T : nth(T, Cardinality(T \cap 1..i)) = i
  BY NthHasItsRank
<1>a. /\ g \in [S -> T]
      /\ last \in T
      /\ \A m, n \in S : m < n => g[m] < g[n]
      /\ \A n \in S : g[n] < last
      /\ \A t \in T : t = last \/ \E n \in S : t = g[n]
  BY DEF OneMore
<1>1. /\ \A n \in S : n \in Nat
      /\ \A t \in T : t \in Nat /\ t >= 1
      /\ \A n \in S : g[n] \in T /\ g[n] \in Nat
      /\ last \in T /\ last \in Nat
      /\ g \in [S -> T]
      /\ \A n \in S : g[n] < last
      /\ \A t \in T : t = last \/ \E n \in S : t = g[n]
  <2>1. \A n \in S : n \in Nat
    OBVIOUS
  <2>2. \A t \in T : t \in Nat /\ t >= 1
    OBVIOUS
  <2>3. \A n \in S : g[n] \in T
    BY <1>a
  <2> QED BY <1>a, <2>1, <2>2, <2>3
<1>0. \A m, n \in S : m < n => g[m] < g[n]
  BY <1>a
<1>2. \A m, n \in S : g[m] = g[n] => m = n
  BY <1>0, <1>1
<1>3. \A m, n \in S : m <= n <=> g[m] <= g[n]
  BY <1>0, <1>1
<1>4. IsFiniteSet(S) /\ IsFiniteSet(T) /\ Cardinality(S) \in Nat
  BY EveryRankIsTaken
<1>5. ASSUME NEW U \in SUBSET S
      PROVE  /\ IsFiniteSet(U) /\ Cardinality({g[n] : n \in U}) = Cardinality(U)
             /\ IsFiniteSet({g[n] : n \in U})
  <2> DEFINE V == {g[n] : n \in U}
             f == [n \in U |-> g[n]]
  <2>1. IsFiniteSet(U)
    BY <1>4, FS_Subset
  <2>2. f \in Bijection(U, V)
    BY <1>2 DEF Bijection, Injection, Surjection, IsInjective
  <2>3. ExistsBijection(U, V)
    BY <2>2 DEF ExistsBijection
  <2> QED BY <2>1, <2>3, FS_Bijection
<1>6. Cardinality(T) = Cardinality(S) + 1
  <2> DEFINE V == {g[n] : n \in S}
  <2>1. IsFiniteSet(V) /\ Cardinality(V) = Cardinality(S)
    BY <1>5
  <2>2. T = V \cup {last}
    BY <1>1
  <2>3. last \notin V
    BY <1>1
  <2> HIDE DEF V
  <2> QED BY <2>1, <2>2, <2>3, FS_AddElement
<1>7. T \cap 1..last = T
  <2>1. \A t \in T : t <= last
    BY <1>1
  <2>2. \A t \in T : t \in 1..last
    BY <1>1, <2>1
  <2> QED BY <2>2
<1>8. ASSUME NEW i \in S
      PROVE  Cardinality(T \cap 1..g[i]) = Cardinality(S \cap 1..i)
  <2>1. T \cap 1..g[i] = {g[n] : n \in S \cap 1..i}
    <3>1. ASSUME NEW t \in T, t <= g[i]
          PROVE  \E n \in S : t = g[n] /\ n <= i
      <4>1. t # last
        <5>1. g[i] < last /\ g[i] \in Nat /\ last \in Nat /\ t \in Nat
          BY <1>1
        <5> QED BY <3>1, <5>1
      <4>2. PICK n \in S : t = g[n]
        BY <1>1, <4>1
      <4> QED BY <1>3, <3>1, <4>2
    <3>2. \A n \in S : n <= i => g[n] <= g[i]
      BY <1>3
    <3> QED BY <1>1, <3>1, <3>2
  <2> QED BY <1>5, <2>1
<1>9. ASSUME NEW k \in 1..Cardinality(S)
      PROVE  nth(S, k) \in S /\ nth(T, k) = g[nth(S, k)]
  <2>1. nth(S, k) \in S /\ Cardinality(S \cap 1..nth(S, k)) = k
    BY <1>b
  <2>2. Cardinality(T \cap 1..g[nth(S, k)]) = k
    BY <1>8, <2>1
  <2> QED BY <1>1, <1>c, <2>1, <2>2
<1>10. nth(T, Cardinality(T)) = last
  BY <1>1, <1>7, <1>c
<1> QED BY <1>4, <1>6, <1>9, <1>10

(* A block contains those other ones that lie in its range.                *)
LEMMA ContainersByRange ==
  ASSUME NEW blocks, NEW length, Laid(blocks, length),
         NEW p \in Range(blocks), NEW c \in Range(blocks)
  PROVE  p \in Containers(blocks, c) <=>
           p # c /\ p.rawBegin <= c.rawBegin /\ c.rawEnd <= p.rawEnd
<1>1. p = c <=> p.rawBegin = c.rawBegin
  BY DEF Laid
<1>2. p = c => p.rawEnd = c.rawEnd
  OBVIOUS
<1> QED BY <1>1, <1>2 DEF Containers, strictlyContains

(* Blocks that an insertion shifts keep their order and contain each other *)
(* as before, and no other contains them.                                  *)
LEMMA ShiftedContainers ==
  ASSUME NEW old, NEW new, NEW length \in Nat, NEW a \in Nat, NEW r \in Nat, r > 0, NEW root,
         Inserts(old, new, length, a, r, root)
  PROVE  /\ \A c, e \in Range(old), d, f \in Range(new) :
              Shifted(a, r, c, d) /\ Shifted(a, r, e, f) =>
                /\ d.rawBegin <= f.rawBegin <=> c.rawBegin <= e.rawBegin
                /\ d \in Containers(new, f) <=> c \in Containers(old, e)
         /\ \A d \in Range(new) : \A o \in Containers(new, d) :
              (\E c \in Range(old) : Shifted(a, r, c, d)) =>
                \E e \in Range(old) : Shifted(a, r, e, o)
<1>1. /\ Laid(old, length) /\ Laid(new, length + r)
      /\ \A d \in Range(new) :
           \/ \E c \in Range(old) : Shifted(a, r, c, d)
           \/ a <= d.rawBegin /\ d.rawEnd <= a + r
  BY DEF Inserts
<1>2. \A c \in Range(old) :
        c.rawBegin \in Nat /\ c.rawEnd \in Nat /\ c.rawBegin < c.rawEnd
  BY <1>1 DEF Laid
<1>3. \A d \in Range(new) :
        d.rawBegin \in Nat /\ d.rawEnd \in Nat /\ d.rawBegin < d.rawEnd
  BY <1>1 DEF Laid
<1>4. /\ \A c, e \in Range(old) : c.id = e.id => c = e
      /\ \A d, f \in Range(new) : d.id = f.id => d = f
  BY <1>1 DEF Laid
<1>5. ASSUME NEW c \in Range(old), NEW e \in Range(old), NEW d \in Range(new),
             NEW f \in Range(new), Shifted(a, r, c, d), Shifted(a, r, e, f)
      PROVE  /\ d.rawBegin <= f.rawBegin <=> c.rawBegin <= e.rawBegin
             /\ d \in Containers(new, f) <=> c \in Containers(old, e)
  <2>1. /\ d.rawBegin = IF c.rawBegin < a THEN c.rawBegin ELSE c.rawBegin + r
        /\ d.rawEnd = IF c.rawEnd <= a THEN c.rawEnd ELSE c.rawEnd + r
        /\ f.rawBegin = IF e.rawBegin < a THEN e.rawBegin ELSE e.rawBegin + r
        /\ f.rawEnd = IF e.rawEnd <= a THEN e.rawEnd ELSE e.rawEnd + r
        /\ d.id = c.id /\ f.id = e.id
    BY <1>5 DEF Shifted
  <2>2. /\ c.rawBegin \in Nat /\ c.rawEnd \in Nat /\ e.rawBegin \in Nat /\ e.rawEnd \in Nat
    BY <1>2
  <2>3. d.rawBegin <= f.rawBegin <=> c.rawBegin <= e.rawBegin
    BY <2>1, <2>2
  <2>4. f.rawEnd <= d.rawEnd <=> e.rawEnd <= c.rawEnd
    BY <2>1, <2>2
  <2>5. d = f <=> c = e
    BY <1>4, <2>1
  <2>6. d \in Containers(new, f) <=> d # f /\ d.rawBegin <= f.rawBegin /\ f.rawEnd <= d.rawEnd
    BY <1>1, ContainersByRange
  <2>7. c \in Containers(old, e) <=> c # e /\ c.rawBegin <= e.rawBegin /\ e.rawEnd <= c.rawEnd
    BY <1>1, ContainersByRange
  <2> QED BY <2>3, <2>4, <2>5, <2>6, <2>7
<1>6. ASSUME NEW d \in Range(new), NEW o \in Containers(new, d),
             NEW c \in Range(old), Shifted(a, r, c, d)
      PROVE  \E e \in Range(old) : Shifted(a, r, e, o)
  <2>1. o \in Range(new) /\ o.rawBegin <= d.rawBegin /\ d.rawEnd <= o.rawEnd
    <3>1. o \in Range(new)
      BY DEF Containers
    <3> QED BY <1>1, <3>1, ContainersByRange
  <2>2. /\ d.rawBegin = IF c.rawBegin < a THEN c.rawBegin ELSE c.rawBegin + r
        /\ d.rawEnd = IF c.rawEnd <= a THEN c.rawEnd ELSE c.rawEnd + r
    BY <1>6 DEF Shifted
  <2>3. ~(a <= o.rawBegin /\ o.rawEnd <= a + r)
    <3>1. /\ c.rawBegin \in Nat /\ c.rawEnd \in Nat /\ c.rawBegin < c.rawEnd
          /\ o.rawBegin \in Nat /\ o.rawEnd \in Nat
      BY <1>2, <1>3, <2>1
    <3> QED BY <2>1, <2>2, <3>1
  <2> QED BY <1>1, <2>1, <2>3
<1> QED BY <1>5, <1>6

(* The place of an insertion is the end of b, if it is inside of it and no *)
(* other block that it is inside of begins later.                          *)
EndsIn(old, a, b) ==
  /\ b.rawBegin < a /\ a < b.rawEnd
  /\ \A o \in Range(old) : o.rawBegin < a /\ a < o.rawEnd => o.rawBegin <= b.rawBegin

(* Of the blocks after an insertion at the end of b, those that were there *)
(* have the parents that they had, and of the others only the one that is  *)
(* all of what was inserted has b for its parent.                          *)
LEMMA ParentsAfterInsertion ==
  ASSUME NEW old, NEW new, NEW length \in Nat, NEW a \in Nat, NEW r \in Nat, r > 0, NEW root,
         Inserts(old, new, length, a, r, root),
         NEW b \in Range(old), EndsIn(old, a, b),
         NEW c \in Range(new), Shifted(a, r, b, c),
         NEW d \in Range(new)
  PROVE  /\ \A e \in Range(old) : Shifted(a, r, e, d) =>
              (ParentOf(new, c, d) <=> ParentOf(old, b, e))
         /\ ~(\E e \in Range(old) : Shifted(a, r, e, d)) =>
              (ParentOf(new, c, d) <=> d.id = root)
<1>1. /\ Laid(old, length) /\ Laid(new, length + r)
      /\ \A e \in Range(old) : \E f \in Range(new) : Shifted(a, r, e, f)
      /\ \A f \in Range(new) :
           \/ \E e \in Range(old) : Shifted(a, r, e, f)
           \/ a <= f.rawBegin /\ f.rawEnd <= a + r
  BY DEF Inserts
<1>2. PICK all \in Range(new) : all.id = root /\ all.rawBegin = a /\ all.rawEnd = a + r
  BY DEF Inserts
<1>3. \A f \in Range(new) :
        f.rawBegin \in Nat /\ f.rawEnd \in Nat /\ f.rawBegin < f.rawEnd
  BY <1>1 DEF Laid
<1>4. \A e \in Range(old) :
        e.rawBegin \in Nat /\ e.rawEnd \in Nat /\ e.rawBegin < e.rawEnd
  BY <1>1 DEF Laid
<1>5. \A f, h \in Range(new) : f.id = h.id \/ f.rawBegin = h.rawBegin => f = h
  BY <1>1 DEF Laid
<1>6. /\ \A e, g \in Range(old), f, h \in Range(new) :
              Shifted(a, r, e, f) /\ Shifted(a, r, g, h) =>
                /\ f.rawBegin <= h.rawBegin <=> e.rawBegin <= g.rawBegin
                /\ f \in Containers(new, h) <=> e \in Containers(old, g)
      /\ \A f \in Range(new) : \A o \in Containers(new, f) :
              (\E e \in Range(old) : Shifted(a, r, e, f)) =>
                \E e \in Range(old) : Shifted(a, r, e, o)
  BY ShiftedContainers
<1>7. /\ \A f \in Range(new) : Containers(new, f) \subseteq Range(new)
      /\ \A e \in Range(old) : Containers(old, e) \subseteq Range(old)
  BY DEF Containers
<1>8. b.rawBegin < a /\ a < b.rawEnd
      /\ c.rawBegin = b.rawBegin /\ c.rawEnd = b.rawEnd + r
  <2>1. b.rawBegin < a /\ a < b.rawEnd
    BY DEF EndsIn
  <2>2. /\ c.rawBegin = IF b.rawBegin < a THEN b.rawBegin ELSE b.rawBegin + r
        /\ c.rawEnd = IF b.rawEnd <= a THEN b.rawEnd ELSE b.rawEnd + r
    BY DEF Shifted
  <2> QED BY <1>4, <2>1, <2>2
<1>9. ASSUME NEW e \in Range(old), Shifted(a, r, e, d)
      PROVE  ParentOf(new, c, d) <=> ParentOf(old, b, e)
  <2>1. c \in Containers(new, d) <=> b \in Containers(old, e)
    BY <1>6, <1>9
  <2>2. ASSUME \A o \in Containers(new, d) : o.rawBegin <= c.rawBegin,
               NEW p \in Containers(old, e)
        PROVE  p.rawBegin <= b.rawBegin
    <3>1. PICK o \in Range(new) : Shifted(a, r, p, o)
      BY <1>1, <1>7
    <3>2. o \in Containers(new, d)
      BY <1>6, <1>7, <1>9, <3>1
    <3> QED BY <1>6, <1>7, <2>2, <3>1, <3>2
  <2>3. ASSUME \A p \in Containers(old, e) : p.rawBegin <= b.rawBegin,
               NEW o \in Containers(new, d)
        PROVE  o.rawBegin <= c.rawBegin
    <3>1. PICK p \in Range(old) : Shifted(a, r, p, o)
      BY <1>6, <1>9
    <3>2. p \in Containers(old, e)
      BY <1>6, <1>7, <1>9, <3>1
    <3> QED BY <1>6, <1>7, <2>3, <3>1, <3>2
  <2> QED BY <2>1, <2>2, <2>3 DEF ParentOf
<1>10. ASSUME ~(\E e \in Range(old) : Shifted(a, r, e, d)), d.id # root
       PROVE  ~ParentOf(new, c, d)
  <2>1. a <= d.rawBegin /\ d.rawEnd <= a + r /\ all # d
    BY <1>1, <1>2, <1>10
  <2>2. all \in Containers(new, d)
    BY <1>1, <1>2, <2>1, ContainersByRange
  <2>3. ~(all.rawBegin <= c.rawBegin)
    BY <1>2, <1>3, <1>8
  <2> QED BY <2>2, <2>3 DEF ParentOf
<1>11. ASSUME d.id = root
       PROVE  ParentOf(new, c, d)
  <2>1. d = all /\ d.rawBegin = a /\ d.rawEnd = a + r
    BY <1>2, <1>5, <1>11
  <2>2. c \in Containers(new, d)
    <3>1. c # d /\ c.rawBegin <= d.rawBegin /\ d.rawEnd <= c.rawEnd
      BY <1>4, <1>8, <2>1
    <3> QED BY <1>1, <3>1, ContainersByRange
  <2>3. ASSUME NEW o \in Containers(new, d)
        PROVE  o.rawBegin <= c.rawBegin
    <3>1. o \in Range(new) /\ o # d /\ o.rawBegin <= a /\ a + r <= o.rawEnd
      BY <1>1, <1>7, <2>1, ContainersByRange
    <3>2. o.rawBegin # a /\ o.rawBegin < a
      BY <1>3, <1>5, <2>1, <3>1
    <3>3. PICK e \in Range(old) : Shifted(a, r, e, o)
      BY <1>1, <1>3, <3>1, <3>2
    <3>4. /\ o.rawBegin = IF e.rawBegin < a THEN e.rawBegin ELSE e.rawBegin + r
          /\ o.rawEnd = IF e.rawEnd <= a THEN e.rawEnd ELSE e.rawEnd + r
      BY <3>3 DEF Shifted
    <3>5. e.rawBegin \in Nat /\ e.rawEnd \in Nat
      BY <1>4
    <3>6. e.rawBegin < a /\ a < e.rawEnd /\ o.rawBegin = e.rawBegin
      BY <3>1, <3>2, <3>4, <3>5
    <3>7. e.rawBegin <= b.rawBegin
      BY <3>6 DEF EndsIn
    <3> QED BY <1>8, <3>6, <3>7
  <2> QED BY <2>2, <2>3 DEF ParentOf
<1> QED BY <1>9, <1>10, <1>11

(* b has the children that it had, and the block inserted at its end is    *)
(* the last.                                                               *)
LEMMA ChildrenAfterInsertion ==
  ASSUME NEW old, NEW new, NEW length \in Nat, NEW a \in Nat, NEW r \in Nat, r > 0, NEW root,
         Inserts(old, new, length, a, r, root), root \notin ids(old),
         NEW b \in Range(old), EndsIn(old, a, b),
         \A e \in Range(old) : ParentOf(old, b, e) => e.rawBegin < a,
         NEW c \in Range(new), c.id = b.id
  PROVE  childIds(new, c) = Append(childIds(old, b), root)
<1> DEFINE S == ChildPlaces(old, b)
           T == ChildPlaces(new, c)
           N == Cardinality(S)
           g == [n \in S |-> CHOOSE m \in 1..Len(new) : Shifted(a, r, old[n], new[m])]
<1>1. /\ Laid(old, length) /\ Laid(new, length + r)
      /\ \A e \in Range(old) : \E f \in Range(new) : Shifted(a, r, e, f)
      /\ \E f \in Range(new) : f.id = root /\ f.rawBegin = a /\ f.rawEnd = a + r
  BY DEF Inserts
<1>2. /\ Len(old) \in Nat /\ Range(old) = {old[n] : n \in 1..Len(old)}
      /\ \A m, n \in 1..Len(old) : m < n <=> old[m].rawBegin < old[n].rawBegin
      /\ \A n \in 1..Len(old) : old[n] \in Range(old) /\ old[n].rawBegin \in Nat
  BY <1>1 DEF Laid
<1>3. /\ Len(new) \in Nat /\ Range(new) = {new[n] : n \in 1..Len(new)}
      /\ \A m, n \in 1..Len(new) : m < n <=> new[m].rawBegin < new[n].rawBegin
      /\ \A n \in 1..Len(new) : new[n] \in Range(new) /\ new[n].rawBegin \in Nat
      /\ \A d, f \in Range(new) : d.id = f.id => d = f
  BY <1>1 DEF Laid
<1>4. \A m, n \in 1..Len(new) : new[m].id = new[n].id => m = n
  <2> SUFFICES ASSUME NEW m \in 1..Len(new), NEW n \in 1..Len(new), new[m].id = new[n].id
               PROVE  m = n
    OBVIOUS
  <2>1. new[m].rawBegin = new[n].rawBegin /\ new[m].rawBegin \in Nat
    BY <1>3
  <2>2. m \in Nat /\ n \in Nat /\ ~(m < n) /\ ~(n < m)
    BY <1>3, <2>1
  <2> QED BY <2>2
<1>5. Shifted(a, r, b, c)
  <2>1. PICK f \in Range(new) : Shifted(a, r, b, f)
    BY <1>1
  <2>2. f = c
    BY <1>3, <2>1 DEF Shifted
  <2> QED BY <2>1, <2>2
<1>6. \A d \in Range(new) :
        /\ \A e \in Range(old) : Shifted(a, r, e, d) =>
              (ParentOf(new, c, d) <=> ParentOf(old, b, e))
        /\ ~(\E e \in Range(old) : Shifted(a, r, e, d)) =>
              (ParentOf(new, c, d) <=> d.id = root)
  BY <1>5, ParentsAfterInsertion
<1>7. /\ S \in SUBSET (1..Len(old))
      /\ childIds(old, b) = [k \in 1..N |-> old[nth(S, k)].id]
  BY <1>1, ChildrenAreListed
<1>8. /\ T \in SUBSET (1..Len(new))
      /\ childIds(new, c) = [k \in 1..Cardinality(T) |-> new[nth(T, k)].id]
  BY <1>1, ChildrenAreListed
<1>9. PICK last \in 1..Len(new) : new[last].id = root /\ new[last].rawBegin = a
  BY <1>1, <1>3
<1>10. last \in T
  <2>1. ~(\E e \in Range(old) : Shifted(a, r, e, new[last]))
    BY <1>9 DEF Shifted, ids
  <2> QED BY <1>3, <1>6, <1>9, <2>1 DEF ChildPlaces
<1>11. ASSUME NEW n \in S
       PROVE  /\ n \in 1..Len(old) /\ old[n] \in Range(old)
              /\ ParentOf(old, b, old[n]) /\ old[n].rawBegin < a
  BY <1>2 DEF ChildPlaces
<1>12. ASSUME NEW n \in S
       PROVE  g[n] \in T /\ g[n] \in 1..Len(new) /\ Shifted(a, r, old[n], new[g[n]])
  <2>1. \E m \in 1..Len(new) : Shifted(a, r, old[n], new[m])
    <3>1. PICK f \in Range(new) : Shifted(a, r, old[n], f)
      BY <1>1, <1>11
    <3>2. \E m \in 1..Len(new) : f = new[m]
      BY <1>3, <3>1
    <3> QED BY <3>1, <3>2
  <2>2. g[n] \in 1..Len(new) /\ Shifted(a, r, old[n], new[g[n]])
    BY <2>1
  <2> HIDE DEF g
  <2>3. ParentOf(new, c, new[g[n]])
    BY <1>3, <1>6, <1>11, <2>2
  <2> QED BY <2>2, <2>3 DEF ChildPlaces
<1>13. g \in [S -> T]
  BY <1>12
<1> HIDE DEF S, T, N, g
<1>14. ASSUME NEW m \in S, NEW n \in S, m < n
       PROVE  g[m] < g[n]
  <2>1. old[m].rawBegin < old[n].rawBegin
    BY <1>2, <1>11, <1>14
  <2>2. new[g[n]].rawBegin <= new[g[m]].rawBegin <=> old[n].rawBegin <= old[m].rawBegin
    <3>1. \A h, e \in Range(old), d, f \in Range(new) :
            Shifted(a, r, h, d) /\ Shifted(a, r, e, f) =>
              (d.rawBegin <= f.rawBegin <=> h.rawBegin <= e.rawBegin)
      BY ShiftedContainers
    <3>2. new[g[m]] \in Range(new) /\ new[g[n]] \in Range(new)
      BY <1>3, <1>12
    <3>3. /\ old[m] \in Range(old) /\ Shifted(a, r, old[m], new[g[m]])
          /\ old[n] \in Range(old) /\ Shifted(a, r, old[n], new[g[n]])
      BY <1>11, <1>12
    <3> QED BY <3>1, <3>2, <3>3
  <2>3. new[g[m]].rawBegin < new[g[n]].rawBegin
    <3>1. /\ old[m].rawBegin \in Nat /\ old[n].rawBegin \in Nat
          /\ new[g[m]].rawBegin \in Nat /\ new[g[n]].rawBegin \in Nat
      BY <1>2, <1>3, <1>11, <1>12
    <3> QED BY <2>1, <2>2, <3>1
  <2> QED BY <1>3, <1>12, <2>3
<1>15. ASSUME NEW n \in S
       PROVE  g[n] < last
  <2>1. new[g[n]].rawBegin = old[n].rawBegin
    BY <1>11, <1>12 DEF Shifted
  <2>2. new[g[n]].rawBegin < new[last].rawBegin
    BY <1>9, <1>11, <2>1
  <2> QED BY <1>3, <1>9, <1>12, <2>2
<1>16. ASSUME NEW t \in T
       PROVE  t = last \/ \E n \in S : t = g[n]
  <2>1. t \in 1..Len(new) /\ ParentOf(new, c, new[t]) /\ new[t] \in Range(new)
    BY <1>3, <1>8 DEF T, ChildPlaces
  <2>2. CASE \E e \in Range(old) : Shifted(a, r, e, new[t])
    <3>1. PICK n \in 1..Len(old) : Shifted(a, r, old[n], new[t])
      BY <1>2, <2>2
    <3>2. n \in S
      BY <1>2, <1>6, <2>1, <3>1 DEF S, ChildPlaces
    <3>3. new[g[n]].id = new[t].id
      BY <1>12, <3>1, <3>2 DEF Shifted
    <3>4. g[n] = t
      BY <1>4, <1>12, <2>1, <3>2, <3>3
    <3> QED BY <3>2, <3>4
  <2>3. CASE ~(\E e \in Range(old) : Shifted(a, r, e, new[t]))
    <3>1. new[t].id = root
      BY <1>6, <2>1, <2>3
    <3> QED BY <1>4, <1>9, <2>1, <3>1
  <2> QED BY <2>2, <2>3
<1>17. /\ N \in Nat /\ Cardinality(T) = N + 1
       /\ \A k \in 1..N : nth(S, k) \in S /\ nth(T, k) = g[nth(S, k)]
       /\ nth(T, N + 1) = last
  <2>1. \A m, n \in S : m < n => g[m] < g[n]
    BY <1>14
  <2>2. \A n \in S : g[n] < last
    BY <1>15
  <2>3. \A t \in T : t = last \/ \E n \in S : t = g[n]
    BY <1>16
  <2>4. OneMore(S, T, g, last)
    BY <1>10, <1>13, <2>1, <2>2, <2>3 DEF OneMore
  <2>5. /\ Len(old) \in Nat /\ S \in SUBSET (1..Len(old))
        /\ Len(new) \in Nat /\ T \in SUBSET (1..Len(new))
    BY <1>2, <1>3, <1>7, <1>8
  <2>6. /\ Cardinality(S) \in Nat /\ Cardinality(T) = Cardinality(S) + 1
        /\ \A k \in 1..Cardinality(S) : nth(S, k) \in S /\ nth(T, k) = g[nth(S, k)]
        /\ nth(T, Cardinality(T)) = last
    BY <2>4, <2>5, NthWithLast
  <2> QED BY <2>6 DEF N
<1> DEFINE list == childIds(old, b)
           longer == childIds(new, c)
           Id == {old[n].id : n \in S} \cup {root}
<1>18. list \in Seq(Id) /\ Len(list) = N
  <2>1. \A k \in 1..N : old[nth(S, k)].id \in Id
    BY <1>17
  <2> HIDE DEF Id
  <2>2. list = [k \in 1..N |-> old[nth(S, k)].id]
    BY <1>7
  <2>3. list \in [1..N -> Id]
    BY <2>1, <2>2
  <2> QED BY <1>17, <2>3
<1>19. longer = [k \in 1..N + 1 |-> new[nth(T, k)].id]
  BY <1>8, <1>17
<1>20. \A k \in 1..N : new[nth(T, k)].id = list[k]
  <2> SUFFICES ASSUME NEW k \in 1..N
               PROVE  new[nth(T, k)].id = list[k]
    OBVIOUS
  <2>1. list[k] = old[nth(S, k)].id
    BY <1>7
  <2> QED BY <1>12, <1>17, <2>1 DEF Shifted
<1>21. new[nth(T, N + 1)].id = root
  BY <1>9, <1>17
<1> HIDE DEF list, longer
<1>22. /\ Append(list, root) \in Seq(Id) /\ Len(Append(list, root)) = N + 1
       /\ \A k \in 1..N : Append(list, root)[k] = list[k]
       /\ Append(list, root)[N + 1] = root
  <2>1. root \in Id
    OBVIOUS
  <2> HIDE DEF Id
  <2> QED BY <1>17, <1>18, <2>1, AppendProperties
<1>23. Append(list, root) = [k \in 1..N + 1 |-> Append(list, root)[k]]
  <2> DEFINE s == Append(list, root)
  <2>1. s \in Seq(Id) /\ Len(s) = N + 1
    BY <1>22
  <2> HIDE DEF Id, s
  <2>2. s \in [1..Len(s) -> Id]
    BY <2>1
  <2>3. s \in [1..N + 1 -> Id]
    BY <2>1, <2>2
  <2>4. s = [k \in 1..N + 1 |-> s[k]]
    BY <2>3
  <2> QED BY <2>4 DEF s
<1>24. ASSUME NEW k \in 1..N + 1
       PROVE  new[nth(T, k)].id = Append(list, root)[k]
  <2>1. k \in 1..N \/ k = N + 1
    BY <1>17
  <2> QED BY <1>20, <1>21, <1>22, <2>1
<1>25. longer = Append(list, root)
  BY <1>19, <1>23, <1>24
<1> QED BY <1>25 DEF list, longer

(* A block that ends behind its start is closed by a tag of its own.       *)
LEMMA ClosedBlocks ==
  ASSUME NEW doc, DocumentSound(doc),
         NEW b \in Range(doc.blocks), b.rawEnd # b.rawBegin + 1
  PROVE  /\ b.rawBegin + 1 \in Positions(doc.html, "open")
         /\ b.rawEnd \in Positions(doc.html, "close")
         /\ \A c \in Range(doc.blocks) :
              c.rawEnd # c.rawBegin + 1 /\ c.rawEnd = b.rawEnd => c = b
<1> DEFINE s == doc.html
           Open == Positions(s, "open")
<1>1. /\ Len(s) \in Nat /\ TagsPair(s)
      /\ \A c \in Range(doc.blocks) : PlacedIn(s, c) /\ IsElement(s, c, c.rawBegin + 1)
      /\ \A c, d \in Range(doc.blocks) : c.rawBegin = d.rawBegin => c = d
  BY DocumentBlocks, BlocksAreElements DEF DocumentSound, Parses
<1>2. ASSUME NEW c \in Range(doc.blocks), c.rawEnd # c.rawBegin + 1
      PROVE  /\ c.rawBegin + 1 \in Open /\ c.rawEnd = endOf(s, c.rawBegin + 1)
             /\ c.rawBegin \in Nat
  <2> DEFINE p == c.rawBegin + 1
  <2>1. p \in Starts(s) /\ c.rawEnd = endOf(s, p) /\ c.rawBegin \in Nat
    BY <1>1 DEF IsElement
  <2>2. endOf(s, p) = p <=> s[p].kind = "void"
    BY <1>1, <2>1, EndsWithinSource
  <2>3. s[p].kind # "void"
    BY <1>2, <2>1, <2>2
  <2> QED BY <2>1, <2>3 DEF Starts, Positions
<1>3. /\ \A i \in Open : endOf(s, i) \in Positions(s, "close")
      /\ \A i, j \in Open : endOf(s, i) = endOf(s, j) => i = j
  BY <1>1, ClosersMatch
<1>4. ASSUME NEW c \in Range(doc.blocks), c.rawEnd # c.rawBegin + 1, c.rawEnd = b.rawEnd
      PROVE  c = b
  <2>1. c.rawBegin + 1 = b.rawBegin + 1
    BY <1>2, <1>3, <1>4
  <2>2. c.rawBegin = b.rawBegin
    BY <1>2, <1>4, <2>1
  <2> QED BY <1>1, <2>2
<1> QED BY <1>2, <1>3, <1>4

(* Where create inserts in a block that nothing crosses.                   *)
LEMMA InsertionEndsIn ==
  ASSUME DocumentSound(document), NEW b \in Range(document.blocks),
         b.valueEnd < b.rawEnd, Uncrossed(b)
  PROVE  /\ b.valueEnd \in Nat /\ b.valueEnd <= Len(document.html)
         /\ EndsIn(document.blocks, b.valueEnd, b)
         /\ \A e \in Range(document.blocks) :
              ParentOf(document.blocks, b, e) => e.rawBegin < b.valueEnd
<1> DEFINE s == document.html
           blocks == document.blocks
           at == b.valueEnd
<1>1. /\ Len(s) \in Nat
      /\ \A c \in Range(blocks) : /\ c.rawBegin \in Nat /\ c.rawEnd \in Nat /\ c.valueEnd \in Nat
                                  /\ c.rawBegin < c.rawEnd /\ c.rawEnd <= Len(s)
                                  /\ c.rawBegin + 1 \in Starts(s)
  BY DocumentBlocks, BlocksAreElements DEF PlacedIn, IsElement
<1>2. b.valueEnd = IF b.rawEnd = b.rawBegin + 1 THEN b.rawEnd ELSE b.rawEnd - 1
  BY BlocksInOrder
<1>3. /\ b.rawEnd # b.rawBegin + 1 /\ at + 1 = b.rawEnd
      /\ b.rawBegin < at /\ at < b.rawEnd /\ at \in Nat /\ at <= Len(s)
  <2>1. /\ b.rawBegin \in Nat /\ b.rawEnd \in Nat /\ b.rawBegin < b.rawEnd /\ at \in Nat
        /\ b.rawEnd <= Len(s) /\ Len(s) \in Nat /\ at < b.rawEnd
    BY <1>1
  <2> HIDE DEF at
  <2>2. at = IF b.rawEnd = b.rawBegin + 1 THEN b.rawEnd ELSE b.rawEnd - 1
    BY <1>2 DEF at
  <2> QED BY <2>1, <2>2
<1>4. /\ b.rawEnd \in Positions(s, "close")
      /\ \A c \in Range(blocks) : c.rawEnd # c.rawBegin + 1 /\ c.rawEnd = b.rawEnd => c = b
  BY <1>3, ClosedBlocks
<1>5. ASSUME NEW o \in Range(blocks), o.rawBegin < at, at < o.rawEnd
      PROVE  o.rawBegin <= b.rawBegin
  <2> SUFFICES ASSUME b.rawBegin < o.rawBegin
               PROVE  FALSE
    BY <1>1
  <2>0. /\ o.rawBegin \in Nat /\ o.rawEnd \in Nat /\ b.rawBegin \in Nat /\ b.rawEnd \in Nat
        /\ at \in Nat
    BY <1>1
  <2>1. o.rawBegin < b.rawEnd
    BY <1>3, <1>5, <2>0
  <2>2. o.rawEnd <= b.rawEnd
    BY <2>1 DEF Uncrossed, Blocks
  <2>3. o.rawEnd = b.rawEnd /\ o.rawEnd # o.rawBegin + 1
    BY <1>3, <1>5, <2>0, <2>2
  <2>4. o = b
    BY <1>4, <2>3
  <2> QED BY <2>0, <2>4
<1>6. ASSUME NEW e \in Range(blocks), ParentOf(blocks, b, e)
      PROVE  e.rawBegin < at
  <2>1. e.rawEnd <= b.rawEnd
    BY <1>6 DEF ParentOf, Containers, strictlyContains
  <2>2. /\ e.rawBegin \in Nat /\ e.rawEnd \in Nat /\ b.rawEnd \in Nat /\ at \in Nat
        /\ e.rawBegin < e.rawEnd
    BY <1>1
  <2>3. e.rawBegin # at
    <3>1. e.rawBegin + 1 # b.rawEnd
      BY <1>1, <1>4 DEF Starts, Positions
    <3> QED BY <1>3, <3>1
  <2> QED BY <1>3, <2>1, <2>2, <2>3
<1>7. EndsIn(blocks, at, b)
  BY <1>3, <1>5 DEF EndsIn
<1> QED BY <1>3, <1>6, <1>7

(* A step that inserts at the end of a block appends to its children.      *)
LEMMA CreationsAppend ==
  ASSUME IInv, Next
  PROVE  CreatedIsLastChild
<1> DEFINE wide == Len(marks') - Len(marks)
           given == [i \in 1..wide |-> <<document'.revision, i>>]
<1> SUFFICES ASSUME NEW b \in Range(document.blocks),
                    b.valueEnd < b.rawEnd, Uncrossed(b),
                    marks' = Spliced(marks, b.valueEnd, b.valueEnd, given),
                    NEW c \in Range(document'.blocks), c.id = b.id
             PROVE  childIds(document'.blocks, c) =
                      Append(childIds(document.blocks, b), document.nextId)
  BY DEF CreatedIsLastChild, Blocks, insertionIn
<1>1. PICK edit : EditFits(document, edit) /\ replaceRange(edit)
  BY StepsAreEdits
<1> DEFINE a == edit.begin
           z == edit.end
           r == Len(edit.replacement)
           at == b.valueEnd
           length == Len(document.html)
           revision == document.revision
           w == IF wide \in Nat THEN wide ELSE 0
           zero == 0
<1>2. /\ a \in Nat /\ z \in Nat /\ a <= z /\ z <= length /\ r \in Nat
  BY <1>1 DEF EditFits
<1>3. /\ DocumentSound(document) /\ MarksSound(marks, length, revision)
      /\ length \in Nat /\ revision \in Nat /\ document.nextId \in Nat \ {0}
  BY DocumentBlocks, HtmlAssumption DEF IInv, DocumentSound
<1>4. /\ document'.revision = revision + 1 /\ IInv'
      /\ marks' = Splice(marks, a, z, NewMarks(revision + 1, r))
  BY <1>1, EditsKeep DEF Spliced, Splice
<1>5. /\ at \in Nat /\ at <= length
      /\ EndsIn(document.blocks, at, b)
      /\ \A e \in Range(document.blocks) : ParentOf(document.blocks, b, e) => e.rawBegin < at
  BY <1>3, InsertionEndsIn
<1>6. /\ w \in Nat /\ given = NewMarks(revision + 1, w)
  <2>1. Len(marks) \in Int /\ Len(marks') \in Int
    BY <1>4 DEF IInv, MarksSound
  <2>2. wide \in Int
    BY <2>1
  <2>3. 1..wide = 1..w
    <3> HIDE DEF wide
    <3> QED BY <2>2
  <2> HIDE DEF wide, w
  <2>4. given = NewMarks(revision + 1, w)
    BY <1>4, <2>3 DEF NewMarks
  <2> QED BY <2>4 DEF w
<1>7. marks' = Splice(marks, at, at, NewMarks(revision + 1, w))
  BY <1>6 DEF Spliced, Splice
<1>8. /\ w > zero => a = at /\ z = at /\ r = w
      /\ w = zero => a = z /\ r = zero
  <2> DEFINE x == at
             y == at
  <2>1. /\ Splice(marks, a, z, NewMarks(revision + 1, r))
             = Splice(marks, x, y, NewMarks(revision + 1, w))
        /\ x <= y /\ x \in Nat /\ y \in Nat /\ y <= length
    BY <1>4, <1>5, <1>7
  <2>2. zero \in Nat /\ zero = 0 /\ x = y
    OBVIOUS
  <2> HIDE DEF a, z, r, at, x, y, length, revision, w, zero
  <2>3. /\ a \in Nat /\ z \in Nat /\ a <= z /\ z <= length /\ r \in Nat
        /\ MarksSound(marks, length, revision) /\ length \in Nat /\ revision \in Nat
        /\ w \in Nat
    BY <1>2, <1>3, <1>6
  <2>4. ASSUME w > zero
        PROVE  a = x /\ z = y /\ r = w
    BY <2>1, <2>2, <2>3, <2>4, MarksTellTheEdit
  <2>5. ASSUME w = zero
        PROVE  a = z /\ r = zero
    BY <2>1, <2>2, <2>3, <2>5, MarksTellTheEdit
  <2> QED BY <2>2, <2>4, <2>5 DEF x
<1>9. r # zero \/ a # z
  <2> SUFFICES ASSUME r = zero, a = z
               PROVE  FALSE
    OBVIOUS
  <2>1. edit.replacement = <<>>
    BY <1>1 DEF EditFits
  <2>2. edit.root = 0
    BY <1>1, <2>1 DEF EditFits, NoRoot
  <2>3. ~edit.allocates
    BY <1>1, <1>3, <2>2 DEF EditFits
  <2>4. PICK d \in Range(document.blocks) : d.rawBegin = a /\ d.rawEnd = z
    BY <1>1, <2>3 DEF EditFits
  <2>5. d.rawBegin \in Nat /\ d.rawEnd \in Nat /\ d.rawBegin < d.rawEnd
    BY <1>3, DocumentBlocks DEF PlacedIn
  <2> QED BY <2>4, <2>5
<1>10. a = at /\ z = at /\ r \in Nat /\ r > 0
  <2> HIDE DEF a, z, r, at, w
  <2> QED BY <1>2, <1>6, <1>8, <1>9
<1>11. InsertsAt(document, edit, length, at, r)
  BY <1>10 DEF InsertsAt
<1>12. Inserts(document.blocks, document'.blocks, length, at, r, document.nextId)
  <2> HIDE DEF length, at, r
  <2> QED BY <1>1, <1>3, <1>5, <1>10, <1>11, InsertedBlocks
<1>13. document.nextId \notin ids(document.blocks)
  <2>1. ids(document.blocks) \subseteq 1..document.nextId - 1
    BY <1>3, DocumentBlocks
  <2> QED BY <1>3, <2>1
<1> DEFINE root == document.nextId
           old == document.blocks
           new == document'.blocks
<1>14. /\ Inserts(old, new, length, at, r, root) /\ root \notin ids(old)
       /\ b \in Range(old) /\ c \in Range(new) /\ c.id = b.id
       /\ EndsIn(old, at, b)
       /\ \A e \in Range(old) : ParentOf(old, b, e) => e.rawBegin < at
  BY <1>5, <1>12, <1>13
<1>15. length \in Nat /\ at \in Nat /\ r \in Nat /\ r > 0
  BY <1>3, <1>5, <1>10
<1> HIDE DEF length, at, r, root, old, new
<1>16. childIds(new, c) = Append(childIds(old, b), root)
  BY <1>14, <1>15, ChildrenAfterInsertion
<1> QED BY <1>16 DEF root, old, new

(* However a document is edited, removing a block takes what hangs below   *)
(* it in the hierarchy and nothing else, and a block created in a parent   *)
(* that nothing crosses becomes its last child.                            *)
THEOREM EditsKeepTheHierarchy == Spec => EditsFollowTheHierarchy
<1> DEFINE Follows == RemovalTakesTheSubtree /\ CreatedIsLastChild
<1>1. IInv /\ Next => Follows
  BY RemovalsTakeSubtrees, CreationsAppend
<1>2. IInv /\ [Next]_vars => [Follows]_vars
  BY <1>1
<1> QED BY <1>2, HtmlInvariant, PTL DEF Spec, EditsFollowTheHierarchy
-----------------------------------------------------------------------------
(* The editors together. *)

XmlP == INSTANCE XmlTreeProofs
  WITH Source <- XmlSource, Fragment <- XmlFragment, MaxId <- XmlMaxId,
       MaxRevision <- XmlMaxRevision, marks <- treeMarks

(* XmlP, the tree with what is proved of it, and Xml define the same.      *)
LEMMA InstancesAgree ==
  /\ Xml!XmlAssumption <=> XmlP!XmlAssumption
  /\ Xml!Init <=> XmlP!Init
  /\ Xml!Next <=> XmlP!Next
  /\ Xml!vars = XmlP!vars
  /\ Xml!TypeOK <=> XmlP!TypeOK
  /\ Xml!NoElementIsRefused <=> XmlP!NoElementIsRefused
  /\ Xml!NodesStay <=> XmlP!NodesStay
<1>Cardinality. \A S : Xml!Cardinality(S) = XmlP!Cardinality(S)
  BY DEF Xml!Cardinality, XmlP!Cardinality
<1>Range. \A f : Xml!Range(f) = XmlP!Range(f)
  BY DEF Xml!Range, XmlP!Range
<1>Min. \A S : Xml!Min(S) = XmlP!Min(S)
  BY DEF Xml!Min, XmlP!Min
<1>Max. \A S : Xml!Max(S) = XmlP!Max(S)
  BY DEF Xml!Max, XmlP!Max
<1>Positions. \A source, kind :
        Xml!Positions(source, kind) = XmlP!Positions(source, kind)
  BY DEF Xml!Positions, XmlP!Positions
<1>Balanced. \A source, i : Xml!Balanced(source, i) = XmlP!Balanced(source, i)
  BY <1>Cardinality DEF Xml!Balanced, XmlP!Balanced
<1>TagsPair. \A source : Xml!TagsPair(source) <=> XmlP!TagsPair(source)
  BY <1>Cardinality, <1>Positions, <1>Balanced DEF Xml!TagsPair, XmlP!TagsPair
<1>Starts. \A source : Xml!Starts(source) = XmlP!Starts(source)
  BY <1>Positions DEF Xml!Starts, XmlP!Starts
<1>nth. \A S, n : Xml!nth(S, n) = XmlP!nth(S, n)
  BY <1>Cardinality DEF Xml!nth, XmlP!nth
<1>startOf. \A source, n : Xml!startOf(source, n) = XmlP!startOf(source, n)
  BY <1>Starts, <1>nth DEF Xml!startOf, XmlP!startOf
<1>endOf. \A source, i : Xml!endOf(source, i) = XmlP!endOf(source, i)
  BY <1>Min, <1>Balanced DEF Xml!endOf, XmlP!endOf
<1>Token. Xml!Token = XmlP!Token
  BY <1>Range DEF Xml!Token, XmlP!Token
<1>TreeToken. Xml!TreeToken = XmlP!TreeToken
  BY <1>Token DEF Xml!TreeToken, XmlP!TreeToken
<1>XmlAssumption. Xml!XmlAssumption <=> XmlP!XmlAssumption
  BY <1>Token DEF Xml!XmlAssumption, XmlP!XmlAssumption
<1>vars. Xml!vars = XmlP!vars
  BY DEF Xml!vars, XmlP!vars
<1>Misc. Xml!Misc = XmlP!Misc
  BY DEF Xml!Misc, XmlP!Misc
<1>prologOf. \A xml : Xml!prologOf(xml) = XmlP!prologOf(xml)
  BY <1>Min, <1>Misc DEF Xml!prologOf, XmlP!prologOf
<1>prologAccepted. \A prolog :
        Xml!prologAccepted(prolog) <=> XmlP!prologAccepted(prolog)
  BY DEF Xml!prologAccepted, XmlP!prologAccepted
<1>containsOnlyXmlMisc. \A tokens :
        Xml!containsOnlyXmlMisc(tokens) <=> XmlP!containsOnlyXmlMisc(tokens)
  BY <1>Misc DEF Xml!containsOnlyXmlMisc, XmlP!containsOnlyXmlMisc
<1>rangesOf. \A body : Xml!rangesOf(body) = XmlP!rangesOf(body)
  BY <1>Cardinality, <1>Starts, <1>startOf, <1>endOf DEF Xml!rangesOf, XmlP!rangesOf
<1>Within. \A a, b : Xml!Within(a, b) <=> XmlP!Within(a, b)
  BY DEF Xml!Within, XmlP!Within
<1>validateNodeHierarchy. \A ranges :
        Xml!validateNodeHierarchy(ranges) <=> XmlP!validateNodeHierarchy(ranges)
  BY <1>Range, <1>Within DEF Xml!validateNodeHierarchy, XmlP!validateNodeHierarchy
<1>Parses. \A xml, allowEmpty :
        Xml!Parses(xml, allowEmpty) <=> XmlP!Parses(xml, allowEmpty)
  BY <1>Cardinality, <1>Range, <1>TagsPair, <1>prologOf, <1>prologAccepted,
     <1>containsOnlyXmlMisc, <1>rangesOf, <1>Within, <1>validateNodeHierarchy DEF
     Xml!Parses, XmlP!Parses
<1>parseNodes. \A xml : Xml!parseNodes(xml) = XmlP!parseNodes(xml)
  <2> DEFINE aboveXml(ranges) ==
               [n \in 1..Len(ranges) |->
                  {m \in 1..n - 1 : Xml!Within(ranges[n], ranges[m])}]
             parentXml(ranges) ==
               [n \in 1..Len(ranges) |->
                  IF aboveXml(ranges)[n] = {} THEN {} ELSE {Xml!Max(aboveXml(ranges)[n])}]
             belowXml(ranges, n) == {m \in 1..Len(ranges) : n \in parentXml(ranges)[m]}
             childrenXml(ranges, n) ==
               [k \in 1..Xml!Cardinality(belowXml(ranges, n)) |->
                  Xml!nth(belowXml(ranges, n), k)]
             nodesXml(offset, ranges) ==
               [n \in 1..Len(ranges) |->
                  [id |-> n, name |-> ranges[n].name, parentId |-> parentXml(ranges)[n],
                   depth |-> Xml!Cardinality(aboveXml(ranges)[n]),
                   childIds |-> childrenXml(ranges, n),
                   selfClosing |-> ranges[n].selfClosing,
                   rawBegin |-> offset + ranges[n].rawBegin,
                   valueBegin |-> offset + ranges[n].valueBegin,
                   valueEnd |-> offset + ranges[n].valueEnd,
                   rawEnd |-> offset + ranges[n].rawEnd]]
             aboveXmlP(ranges) ==
               [n \in 1..Len(ranges) |->
                  {m \in 1..n - 1 : XmlP!Within(ranges[n], ranges[m])}]
             parentXmlP(ranges) ==
               [n \in 1..Len(ranges) |->
                  IF aboveXmlP(ranges)[n] = {} THEN {} ELSE {XmlP!Max(aboveXmlP(ranges)[n])}]
             belowXmlP(ranges, n) == {m \in 1..Len(ranges) : n \in parentXmlP(ranges)[m]}
             childrenXmlP(ranges, n) ==
               [k \in 1..XmlP!Cardinality(belowXmlP(ranges, n)) |->
                  XmlP!nth(belowXmlP(ranges, n), k)]
             nodesXmlP(offset, ranges) ==
               [n \in 1..Len(ranges) |->
                  [id |-> n, name |-> ranges[n].name, parentId |-> parentXmlP(ranges)[n],
                   depth |-> XmlP!Cardinality(aboveXmlP(ranges)[n]),
                   childIds |-> childrenXmlP(ranges, n),
                   selfClosing |-> ranges[n].selfClosing,
                   rawBegin |-> offset + ranges[n].rawBegin,
                   valueBegin |-> offset + ranges[n].valueBegin,
                   valueEnd |-> offset + ranges[n].valueEnd,
                   rawEnd |-> offset + ranges[n].rawEnd]]
  <2>1. \A xml : Xml!parseNodes(xml) =
          nodesXml(Len(Xml!prologOf(xml)),
                 Xml!rangesOf(SubSeq(xml, Len(Xml!prologOf(xml)) + 1, Len(xml))))
    BY DEF Xml!parseNodes
  <2>2. \A xml : XmlP!parseNodes(xml) =
          nodesXmlP(Len(XmlP!prologOf(xml)),
                 XmlP!rangesOf(SubSeq(xml, Len(XmlP!prologOf(xml)) + 1, Len(xml))))
    BY DEF XmlP!parseNodes
  <2>3. \A ranges : aboveXml(ranges) = aboveXmlP(ranges)
    BY <1>Within
  <2>4. \A ranges : parentXml(ranges) = parentXmlP(ranges)
    <3> HIDE DEF aboveXml, aboveXmlP
    <3> QED BY <2>3, <1>Max
  <2>5. \A ranges, n : belowXml(ranges, n) = belowXmlP(ranges, n)
    <3> HIDE DEF parentXml, parentXmlP
    <3> QED BY <2>4
  <2>6. \A ranges, n : childrenXml(ranges, n) = childrenXmlP(ranges, n)
    <3> HIDE DEF belowXml, belowXmlP
    <3> QED BY <2>5, <1>Cardinality, <1>nth
  <2>7. \A offset, ranges : nodesXml(offset, ranges) = nodesXmlP(offset, ranges)
    <3> HIDE DEF aboveXml, aboveXmlP, parentXml, parentXmlP, childrenXml, childrenXmlP
    <3> QED BY <2>3, <2>4, <2>6, <1>Cardinality
  <2> HIDE DEF nodesXml, nodesXmlP
  <2> QED BY <2>1, <2>2, <2>7, <1>prologOf, <1>rangesOf
<1>ids. \A nodes : Xml!ids(nodes) = XmlP!ids(nodes)
  BY <1>Range DEF Xml!ids, XmlP!ids
<1>HasRoot. \A doc : Xml!HasRoot(doc) <=> XmlP!HasRoot(doc)
  BY DEF Xml!HasRoot, XmlP!HasRoot
<1>fromXml. \A xml : Xml!fromXml(xml) = XmlP!fromXml(xml)
  BY <1>parseNodes DEF Xml!fromXml, XmlP!fromXml
<1>Binding. \A id, begin, end, allocate :
        Xml!Binding(id, begin, end, allocate) = XmlP!Binding(id, begin, end, allocate)
  BY DEF Xml!Binding, XmlP!Binding
<1>EditOf. \A begin, end, replacement, bindings :
        Xml!EditOf(begin, end, replacement, bindings) =
          XmlP!EditOf(begin, end, replacement, bindings)
  BY DEF Xml!EditOf, XmlP!EditOf
<1>Spliced. \A s, edit, replacement :
        Xml!Spliced(s, edit, replacement) = XmlP!Spliced(s, edit, replacement)
  BY DEF Xml!Spliced, XmlP!Spliced
<1>nextXml. \A doc, edit : Xml!nextXml(doc, edit) = XmlP!nextXml(doc, edit)
  BY <1>Spliced DEF Xml!nextXml, XmlP!nextXml
<1>Preserved. \A doc, edit : Xml!Preserved(doc, edit) = XmlP!Preserved(doc, edit)
  BY <1>Range DEF Xml!Preserved, XmlP!Preserved
<1>CutsNoNode. \A doc, edit : Xml!CutsNoNode(doc, edit) <=> XmlP!CutsNoNode(doc, edit)
  BY <1>Range, <1>Preserved DEF Xml!CutsNoNode, XmlP!CutsNoNode
<1>shiftedAfterEdit. \A position, edit :
        Xml!shiftedAfterEdit(position, edit) = XmlP!shiftedAfterEdit(position, edit)
  BY DEF Xml!shiftedAfterEdit, XmlP!shiftedAfterEdit
<1>expandedAncestorEnd. \A oldEnd, edit :
        Xml!expandedAncestorEnd(oldEnd, edit) = XmlP!expandedAncestorEnd(oldEnd, edit)
  BY DEF Xml!expandedAncestorEnd, XmlP!expandedAncestorEnd
<1>expectedRange. \A node, edit :
        Xml!expectedRange(node, edit) = XmlP!expectedRange(node, edit)
  BY <1>shiftedAfterEdit, <1>expandedAncestorEnd DEF Xml!expectedRange,
     XmlP!expectedRange
<1>boundIds. \A edit, node : Xml!boundIds(edit, node) = XmlP!boundIds(edit, node)
  BY <1>Range DEF Xml!boundIds, XmlP!boundIds
<1>carriedIds. \A doc, edit, node :
        Xml!carriedIds(doc, edit, node) = XmlP!carriedIds(doc, edit, node)
  BY <1>Preserved, <1>expectedRange DEF Xml!carriedIds, XmlP!carriedIds
<1>AllFound. \A doc, edit, parsed :
        Xml!AllFound(doc, edit, parsed) <=> XmlP!AllFound(doc, edit, parsed)
  BY <1>Cardinality, <1>Range, <1>Preserved, <1>boundIds, <1>carriedIds DEF Xml!AllFound,
     XmlP!AllFound
<1>Allocated. \A edit : Xml!Allocated(edit) = XmlP!Allocated(edit)
  BY <1>Cardinality, <1>Range DEF Xml!Allocated, XmlP!Allocated
<1>Fresh. \A doc, edit, parsed :
        Xml!Fresh(doc, edit, parsed) = XmlP!Fresh(doc, edit, parsed)
  BY <1>boundIds, <1>carriedIds DEF Xml!Fresh, XmlP!Fresh
<1>CanReplace. \A doc, edit : Xml!CanReplace(doc, edit) <=> XmlP!CanReplace(doc, edit)
  BY <1>Cardinality, <1>Parses, <1>parseNodes, <1>nextXml, <1>CutsNoNode, <1>AllFound,
     <1>Allocated, <1>Fresh DEF Xml!CanReplace, XmlP!CanReplace
<1>remapped. \A nodes, idOf : Xml!remapped(nodes, idOf) = XmlP!remapped(nodes, idOf)
  BY DEF Xml!remapped, XmlP!remapped
<1>replaced. \A doc, edit : Xml!replaced(doc, edit) = XmlP!replaced(doc, edit)
  <2> DEFINE some(S) == CHOOSE id \in S : TRUE
             firstXml(doc, edit) == doc.nextId + Xml!Allocated(edit)
             idsXml(doc, edit, node) ==
               Xml!boundIds(edit, node) \cup Xml!carriedIds(doc, edit, node)
             idOfXml(doc, edit, parsed, fresh) ==
               [n \in 1..Len(parsed) |->
                  IF n \in fresh THEN firstXml(doc, edit) + Xml!Cardinality(fresh \cap 1..n - 1)
                  ELSE some(idsXml(doc, edit, parsed[n]))]
             nextXml(doc, edit, xml, parsed, fresh) ==
               IF xml = doc.xml THEN doc
               ELSE [xml |-> xml,
                     nodes |-> Xml!remapped(parsed, idOfXml(doc, edit, parsed, fresh)),
                     nextId |-> firstXml(doc, edit) + Xml!Cardinality(fresh),
                     revision |-> doc.revision + 1, changes |-> doc.changes + 1]
             firstXmlP(doc, edit) == doc.nextId + XmlP!Allocated(edit)
             idsXmlP(doc, edit, node) ==
               XmlP!boundIds(edit, node) \cup XmlP!carriedIds(doc, edit, node)
             idOfXmlP(doc, edit, parsed, fresh) ==
               [n \in 1..Len(parsed) |->
                  IF n \in fresh THEN firstXmlP(doc, edit) + XmlP!Cardinality(fresh \cap 1..n - 1)
                  ELSE some(idsXmlP(doc, edit, parsed[n]))]
             nextXmlP(doc, edit, xml, parsed, fresh) ==
               IF xml = doc.xml THEN doc
               ELSE [xml |-> xml,
                     nodes |-> XmlP!remapped(parsed, idOfXmlP(doc, edit, parsed, fresh)),
                     nextId |-> firstXmlP(doc, edit) + XmlP!Cardinality(fresh),
                     revision |-> doc.revision + 1, changes |-> doc.changes + 1]
  <2>1. \A doc, edit :
          Xml!replaced(doc, edit) =
            nextXml(doc, edit, Xml!nextXml(doc, edit), Xml!parseNodes(Xml!nextXml(doc, edit)),
                    Xml!Fresh(doc, edit, Xml!parseNodes(Xml!nextXml(doc, edit))))
    BY DEF Xml!replaced
  <2>2. \A doc, edit :
          XmlP!replaced(doc, edit) =
            nextXmlP(doc, edit, XmlP!nextXml(doc, edit), XmlP!parseNodes(XmlP!nextXml(doc, edit)),
                    XmlP!Fresh(doc, edit, XmlP!parseNodes(XmlP!nextXml(doc, edit))))
    BY DEF XmlP!replaced
  <2>3. \A doc, edit, parsed, fresh :
          idOfXml(doc, edit, parsed, fresh) = idOfXmlP(doc, edit, parsed, fresh)
    <3>1. \A doc, edit, node : idsXml(doc, edit, node) = idsXmlP(doc, edit, node)
      BY <1>boundIds, <1>carriedIds
    <3>2. \A doc, edit : firstXml(doc, edit) = firstXmlP(doc, edit)
      BY <1>Allocated
    <3> HIDE DEF some, idsXml, idsXmlP, firstXml, firstXmlP
    <3> QED BY <3>1, <3>2, <1>Cardinality
  <2>4. \A doc, edit, xml, parsed, fresh :
          nextXml(doc, edit, xml, parsed, fresh) = nextXmlP(doc, edit, xml, parsed, fresh)
    <3> HIDE DEF idOfXml, idOfXmlP
    <3> QED BY <2>3, <1>Cardinality, <1>Allocated, <1>remapped
  <2> HIDE DEF nextXml, nextXmlP
  <2> QED BY <2>1, <2>2, <2>4, <1>nextXml, <1>parseNodes, <1>Fresh
<1>Spaces. \A s : Xml!Spaces(s) = XmlP!Spaces(s)
  BY DEF Xml!Spaces, XmlP!Spaces
<1>trimmed. \A s : Xml!trimmed(s) = XmlP!trimmed(s)
  BY <1>Min, <1>Max, <1>Spaces DEF Xml!trimmed, XmlP!trimmed
<1>isSingleNode. \A fragment :
        Xml!isSingleNode(fragment) <=> XmlP!isSingleNode(fragment)
  BY <1>Parses, <1>parseNodes, <1>trimmed DEF Xml!isSingleNode, XmlP!isSingleNode
<1>rootCreation. \A doc, fragment :
        Xml!rootCreation(doc, fragment) = XmlP!rootCreation(doc, fragment)
  BY <1>Binding, <1>EditOf DEF Xml!rootCreation, XmlP!rootCreation
<1>childCreation. \A doc, parent, fragment :
        Xml!childCreation(doc, parent, fragment) = XmlP!childCreation(doc, parent, fragment)
  BY <1>Binding, <1>EditOf DEF Xml!childCreation, XmlP!childCreation
<1>openingCreation. \A doc, parent, fragment :
        Xml!openingCreation(doc, parent, fragment) =
          XmlP!openingCreation(doc, parent, fragment)
  BY <1>Binding, <1>EditOf DEF Xml!openingCreation, XmlP!openingCreation
<1>creationIn. \A doc, parent, fragment :
        Xml!creationIn(doc, parent, fragment) = XmlP!creationIn(doc, parent, fragment)
  BY <1>childCreation, <1>openingCreation DEF Xml!creationIn, XmlP!creationIn
<1>updateOf. \A node, fragment :
        Xml!updateOf(node, fragment) = XmlP!updateOf(node, fragment)
  BY <1>Binding, <1>EditOf DEF Xml!updateOf, XmlP!updateOf
<1>removalOf. \A node : Xml!removalOf(node) = XmlP!removalOf(node)
  BY <1>EditOf DEF Xml!removalOf, XmlP!removalOf
<1>Init. Xml!Init <=> XmlP!Init
  BY <1>Parses, <1>parseNodes, <1>fromXml DEF Xml!Init, XmlP!Init
<1>replaceRange. \A edit : Xml!replaceRange(edit) <=> XmlP!replaceRange(edit)
  BY <1>Spliced, <1>CanReplace, <1>replaced DEF Xml!replaceRange, XmlP!replaceRange
<1>CreateRoot. \A fragment : Xml!CreateRoot(fragment) <=> XmlP!CreateRoot(fragment)
  BY <1>HasRoot, <1>trimmed, <1>isSingleNode, <1>rootCreation, <1>replaceRange DEF
     Xml!CreateRoot, XmlP!CreateRoot
<1>CreateIn. \A parent, fragment :
        Xml!CreateIn(parent, fragment) <=> XmlP!CreateIn(parent, fragment)
  BY <1>trimmed, <1>isSingleNode, <1>creationIn, <1>replaceRange DEF Xml!CreateIn,
     XmlP!CreateIn
<1>UpdateNode. \A node, fragment :
        Xml!UpdateNode(node, fragment) <=> XmlP!UpdateNode(node, fragment)
  BY <1>trimmed, <1>isSingleNode, <1>updateOf, <1>replaceRange DEF Xml!UpdateNode,
     XmlP!UpdateNode
<1>RemoveNode. \A node : Xml!RemoveNode(node) <=> XmlP!RemoveNode(node)
  BY <1>removalOf, <1>replaceRange DEF Xml!RemoveNode, XmlP!RemoveNode
<1>Next. Xml!Next <=> XmlP!Next
  BY <1>Range, <1>CreateRoot, <1>CreateIn, <1>UpdateNode, <1>RemoveNode DEF Xml!Next,
     XmlP!Next
<1>Nodes. Xml!Nodes = XmlP!Nodes
  BY <1>Range DEF Xml!Nodes, XmlP!Nodes
<1>TypeOK. Xml!TypeOK <=> XmlP!TypeOK
  BY <1>Cardinality, <1>Range, <1>Parses, <1>parseNodes, <1>ids, <1>remapped, <1>Nodes DEF
     Xml!TypeOK, XmlP!TypeOK
<1>NoElementIsRefused. Xml!NoElementIsRefused <=> XmlP!NoElementIsRefused
  BY <1>Parses, <1>parseNodes, <1>HasRoot, <1>CanReplace, <1>trimmed, <1>isSingleNode,
     <1>rootCreation, <1>creationIn, <1>updateOf, <1>removalOf, <1>Nodes DEF
     Xml!NoElementIsRefused, XmlP!NoElementIsRefused
<1>TagMarks. \A written, node :
        Xml!TagMarks(written, node) = XmlP!TagMarks(written, node)
  BY DEF Xml!TagMarks, XmlP!TagMarks
<1>InFront. \A list, id : Xml!InFront(list, id) = XmlP!InFront(list, id)
  BY DEF Xml!InFront, XmlP!InFront
<1>NodesStay. Xml!NodesStay <=> XmlP!NodesStay
  BY <1>Cardinality, <1>Range, <1>ids, <1>Nodes, <1>TagMarks, <1>InFront DEF Xml!NodesStay,
     XmlP!NodesStay
<1> QED BY <1>XmlAssumption, <1>Init, <1>Next, <1>vars, <1>TypeOK,
           <1>NoElementIsRefused, <1>NodesStay

(* A behaviour of the editors is one of each.                              *)
LEMMA EditorsWorkApart == EditorsSpec => Spec /\ XmlP!Spec
<1>1. EditorsInit => Init /\ XmlP!Init
  BY InstancesAgree DEF EditorsInit
<1>2. [EditHtml \/ EditXml]_editorVars => [Next]_vars
  BY DEF EditHtml, EditXml, editorVars
<1>3. [EditHtml \/ EditXml]_editorVars => [XmlP!Next]_XmlP!vars
  <2>1. CASE EditHtml
    BY <2>1 DEF EditHtml, XmlP!vars
  <2>2. CASE EditXml
    BY <2>2, InstancesAgree DEF EditXml
  <2>3. CASE UNCHANGED editorVars
    BY <2>3 DEF editorVars, XmlP!vars
  <2> QED BY <2>1, <2>2, <2>3
<1> QED BY <1>1, <1>2, <1>3, PTL DEF EditorsSpec, Spec, XmlP!Spec

(* However the two documents were edited, blocks and nodes are where their *)
(* sources have them, under unique ids that the counters have passed.      *)
THEOREM EditorsDocumentsOK == EditorsSpec => []DocumentsOK
<1>1. XmlP!Spec => []XmlP!TypeOK
  BY XmlSourcesAssumption, InstancesAgree, XmlP!XmlTypeOK
<1>2. XmlP!TypeOK => Xml!TypeOK
  BY InstancesAgree
<1> QED BY <1>1, <1>2, EditorsWorkApart, HtmlTypeOK, PTL DEF DocumentsOK

(* No edit fails that should succeed, whatever the sources, the fragments  *)
(* and the edits before it: one of an HTML block only for cutting through  *)
(* another, one of an XML element only for exhausted counters.             *)
THEOREM EditorsRefuseNoEdit == EditorsSpec => []EditsAreNotRefused
<1>1. XmlP!Spec => []XmlP!NoElementIsRefused
  BY XmlSourcesAssumption, InstancesAgree, XmlP!ElementsAreNotRefused
<1>2. XmlP!NoElementIsRefused => Xml!NoElementIsRefused
  BY InstancesAgree
<1> QED BY <1>1, <1>2, EditorsWorkApart, UncutEditsAreAccepted, PTL DEF EditsAreNotRefused

(* The nodes of the XML document keep their places across its edits.       *)
THEOREM EditorsKeepNodes == EditorsSpec => NodesKeepTheirPlace
<1>1. XmlP!Spec => XmlP!NodesKeepTheirPlace
  BY XmlSourcesAssumption, InstancesAgree, XmlP!NodesKeepPlace
<1>2. [XmlP!NodesStay]_XmlP!vars => [Xml!NodesStay]_Xml!vars
  BY InstancesAgree DEF Xml!vars, XmlP!vars
<1> QED BY <1>1, <1>2, EditorsWorkApart, PTL
        DEF NodesKeepTheirPlace, Xml!NodesKeepTheirPlace, XmlP!NodesKeepTheirPlace
=============================================================================
