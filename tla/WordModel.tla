------------------------------ MODULE WordModel ------------------------------
(***************************************************************************)
(* The blocks of a WordDocument, and what its writers ask of them: the     *)
(* OpenDocument and the DOCX writer make the same checks.                  *)
(*                                                                         *)
(* A document is the sequence of its blocks: paragraphs, and tables, which *)
(* are sequences of rows of cells of paragraphs.  A numbering id is <<>>   *)
(* or <<n>>.  A style id is a pair of a stem and a number, <<"Heading", 2>>*)
(* for Heading2, the number -1 when there is none.  Of the seven           *)
(* properties of a run three stand for all: bold, the size in quarters of  *)
(* a point, 0 when there is none, and the colour, "" when there is none.   *)
(* Text is a sequence of characters.                                       *)
(***************************************************************************)
EXTENDS Integers, SequencesExt

CONSTANTS
  DeepestLevel,  \* the deepest numbering level, 8 in the code
  Hexadecimal,   \* the colours that are six hexadecimal digits
  UpperCase      \* every colour in capitals

NoName == <<"", -1>>

PlainLook == [bold |-> FALSE, size |-> 0, color |-> ""]

EmptyParagraph ==
  [kind |-> "paragraph", style |-> NoName, alignment |-> "automatic",
   numberingId |-> <<>>, level |-> 0, continuation |-> FALSE, runs |-> <<>>]

(* The geometry of the pages, in twips. *)
DefaultSection ==
  [width |-> 12240, height |-> 15840,
   top |-> 1440, right |-> 1440, bottom |-> 1440, left |-> 1440]

Clamp(n, low, high) == Max({low, Min({n, high})})

-----------------------------------------------------------------------------
validateParagraph(p) ==
  /\ p.numberingId # <<>> => p.numberingId[1] >= 0
  /\ p.continuation => p.numberingId # <<>>
  /\ p.level \in 0..DeepestLevel
  /\ \A run \in ToSet(p.runs) : run.look.color \in Hexadecimal \cup {""}

(* A continuation follows, with nothing but its list in between, the item  *)
(* it continues: no item at a lower level may have come between.           *)
validateNumberingContinuations(paragraphs) ==
  \A i \in DOMAIN paragraphs :
    paragraphs[i].continuation =>
      \E j \in 1..i - 1 :
        /\ paragraphs[j].level = paragraphs[i].level /\ ~paragraphs[j].continuation
        /\ \A k \in j..i : paragraphs[k].numberingId = paragraphs[i].numberingId
        /\ \A k \in j..i :
             paragraphs[k].continuation \/ paragraphs[k].level >= paragraphs[j].level

validParagraphs(paragraphs) ==
  /\ \A i \in DOMAIN paragraphs : validateParagraph(paragraphs[i])
  /\ validateNumberingContinuations(paragraphs)

(* The blocks from i on up to the first table. *)
flowFrom(blocks, i) ==
  LET end == Max({n \in i - 1..Len(blocks) :
                    \A k \in i..n : blocks[k].kind = "paragraph"})
  IN SubSeq(blocks, i, end)

tables(blocks) == {blocks[i] : i \in {n \in DOMAIN blocks : blocks[n].kind = "table"}}

validateDocument(blocks) ==
  /\ \A i \in DOMAIN blocks :
       i = 1 \/ blocks[i - 1].kind = "table" => validParagraphs(flowFrom(blocks, i))
  /\ \A table \in tables(blocks) :
       /\ table.rows # <<>>
       /\ \A row \in ToSet(table.rows) :
            row # <<>> /\ \A cell \in ToSet(row) : validParagraphs(cell)

(* Pages have room for text. *)
validSection(section) ==
  /\ \A length \in {"top", "right", "bottom", "left"} : section[length] >= 0
  /\ section.left + section.right < section.width
  /\ section.top + section.bottom < section.height

(* The paragraphs of the blocks, those in cells in their place. *)
paragraphsOf(blocks) ==
  FlattenSeq([i \in DOMAIN blocks |->
                IF blocks[i].kind = "paragraph" THEN <<blocks[i]>>
                ELSE FlattenSeq(FlattenSeq(blocks[i].rows))])
=============================================================================
