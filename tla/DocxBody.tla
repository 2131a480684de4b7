------------------------------- MODULE DocxBody -------------------------------
(***************************************************************************)
(* DocxPackage.cpp, the part about the content of a package: what the      *)
(* reader makes of the body of any document.xml, and the parts that the    *)
(* writer makes of the blocks of a document.                               *)
(*                                                                         *)
(* An element of XML is a record of its name without the prefix, and of    *)
(* what it has: the sequence of its elements, its text, the lengths of a   *)
(* section, a function from some of their names, or its w:val,             *)
(* which is a style id, a number, <<>> if it does not parse and <<n>> if   *)
(* it does, or another value in small letters.  A package has its body,    *)
(* the style ids that its styles.xml defines, and the numbers and levels   *)
(* that its numbering.xml defines.                                         *)
(***************************************************************************)
EXTENDS WordModel

Element(tag, content) == [tag |-> tag, content |-> content]
ValElement(tag, val) == [tag |-> tag, val |-> val]
NumberElement(tag, n) == [tag |-> tag, number |-> <<n>>]
EmptyElement(tag) == [tag |-> tag]

-----------------------------------------------------------------------------
(* Reading.  What is not known is passed over. *)

onOffValue(val) == val \notin {"0", "false", "off", "none"}

(* The elements of a name, and the elements inside of them.                *)
named(tag, content) == SelectSeq(content, LAMBDA c : c.tag = tag)

inside(tag, content) ==
  LET es == named(tag, content) IN FlattenSeq([i \in DOMAIN es |-> es[i].content])

parseRunProperties(properties) ==
  LET read(look, p) ==
        CASE p.tag = "b" -> [look EXCEPT !.bold = onOffValue(p.val)]
          [] p.tag = "sz" /\ p.number # <<>> /\ p.number[1] >= 0 ->
               [look EXCEPT !.size = 2 * p.number[1]]
          [] p.tag = "color" /\ p.val # "auto" -> [look EXCEPT !.color = UpperCase[p.val]]
          [] OTHER -> look
  IN FoldLeft(read, PlainLook, properties)

parseRun(e) ==
  LET text(c) ==
        CASE c.tag \in {"t", "delText"} -> c.text
          [] c.tag = "tab" -> <<"\t">>
          [] c.tag \in {"br", "cr"} -> <<"\n">>
          [] OTHER -> <<>>
  IN [text |-> FlattenSeq([i \in DOMAIN e.content |-> text(e.content[i])]),
      look |-> parseRunProperties(inside("rPr", e.content))]

Alignments ==
  [left |-> "left", start |-> "left", center |-> "center", right |-> "right",
   end |-> "right", both |-> "justified", distribute |-> "justified"]

(* Of several elements of a name the last that has a value counts.         *)
parseParagraphProperties(properties) ==
  LET styles == named("pStyle", properties)
      alignments == SelectSeq(named("jc", properties), LAMBDA c : c.val \in DOMAIN Alignments)
      numbers(tag) ==
        SelectSeq(inside("numPr", properties), LAMBDA n : n.tag = tag /\ n.number # <<>>)
      last(values, otherwise) == IF values = <<>> THEN otherwise ELSE Last(values)
  IN [EmptyParagraph EXCEPT
        !.style = last(styles, [style |-> @]).style,
        !.alignment = IF alignments = <<>> THEN @ ELSE Alignments[Last(alignments).val],
        !.numberingId = last(numbers("numId"), [number |-> @]).number,
        !.level = Clamp(last(numbers("ilvl"), [number |-> <<@>>]).number[1], 0, DeepestLevel)]

(* The elements whose runs are read as if they stood in their place.       *)
(* Deleted and moved text is not among them.                               *)
Transparent == {"hyperlink", "ins", "smartTag", "sdt", "sdtContent", "fldSimple"}

RECURSIVE parseInlineContainer(_)
parseInlineContainer(content) ==
  FlattenSeq([i \in DOMAIN content |->
                CASE content[i].tag = "r" -> <<parseRun(content[i])>>
                  [] content[i].tag \in Transparent ->
                       parseInlineContainer(content[i].content)
                  [] OTHER -> <<>>])

parseParagraph(e) ==
  [parseParagraphProperties(inside("pPr", e.content))
     EXCEPT !.runs = parseInlineContainer(e.content)]

parseTableCell(e) ==
  LET ps == named("p", e.content)
  IN IF ps = <<>> THEN <<EmptyParagraph>> ELSE [i \in DOMAIN ps |-> parseParagraph(ps[i])]

parseTableRow(e) ==
  LET cells == named("tc", e.content)
  IN [i \in DOMAIN cells |-> parseTableCell(cells[i])]

parseTable(e) ==
  LET rows == named("tr", e.content)
  IN [kind |-> "table", rows |-> [i \in DOMAIN rows |-> parseTableRow(rows[i])]]

parseDocumentXml(package) ==
  LET read == SelectSeq(package.body, LAMBDA e : e.tag \in {"p", "tbl"})
  IN [i \in DOMAIN read |->
        IF read[i].tag = "p" THEN parseParagraph(read[i]) ELSE parseTable(read[i])]

(* What the section properties of a body make of a section: a page has a   *)
(* size, and margins are not negative.                                     *)
parseSectionProperties(package, defaults) ==
  LET Sound(name, n) == n > 0 \/ (n = 0 /\ name \notin {"width", "height"})
      read(section, e) ==
        [name \in DOMAIN section |->
           IF name \in DOMAIN e.lengths /\ Sound(name, e.lengths[name])
           THEN e.lengths[name] ELSE section[name]]
      geometry == SelectSeq(inside("sectPr", package.body),
                            LAMBDA e : e.tag \in {"pgSz", "pgMar"})
  IN FoldLeft(read, defaults, geometry)

-----------------------------------------------------------------------------
(* Writing. *)

OptionalElement(wanted, element) == IF wanted THEN <<element>> ELSE <<>>

(* Sizes are written in halves of a point, rounded away from zero. *)
writeRunProperties(look) ==
  OptionalElement(look # PlainLook,
    Element("rPr",
      OptionalElement(look.bold, ValElement("b", ""))
      \o OptionalElement(look.size > 0, NumberElement("sz", (look.size + 1) \div 2))
      \o OptionalElement(look.color # "", ValElement("color", look.color))))

(* A carriage return and the line feed after it are one break. *)
writeRunText(text) ==
  LET Broken(i) == text[i] \in {"\t", "\n", "\r"}
      write(xml, i) ==
        CASE text[i] = "\t" -> Append(xml, EmptyElement("tab"))
          [] text[i] = "\n" /\ i > 1 /\ text[i - 1] = "\r" -> xml
          [] Broken(i) -> Append(xml, EmptyElement("br"))
          [] i > 1 /\ ~Broken(i - 1) -> [xml EXCEPT ![Len(xml)].text = Append(@, text[i])]
          [] OTHER -> Append(xml, [tag |-> "t", text |-> <<text[i]>>])
  IN FoldLeft(write, <<>>, [i \in DOMAIN text |-> i])

(* A paragraph that continues an item is not numbered. *)
writeParagraph(p) ==
  LET properties ==
        OptionalElement(p.style # NoName, [tag |-> "pStyle", style |-> p.style])
        \o OptionalElement(p.alignment # "automatic",
             ValElement("jc", IF p.alignment = "justified" THEN "both" ELSE p.alignment))
        \o OptionalElement(p.numberingId # <<>> /\ ~p.continuation,
             Element("numPr", <<NumberElement("ilvl", p.level),
                                NumberElement("numId", p.numberingId[1])>>))
      run(r) == Element("r", writeRunProperties(r.look) \o writeRunText(r.text))
  IN Element("p", OptionalElement(properties # <<>>, Element("pPr", properties))
                        \o [i \in DOMAIN p.runs |-> run(p.runs[i])])

writeTable(table) ==
  LET cell(ps) ==
        Element("tc", <<EmptyElement("tcPr")>> \o
          (IF ps = <<>> THEN <<writeParagraph(EmptyParagraph)>>
           ELSE [i \in DOMAIN ps |-> writeParagraph(ps[i])]))
      row(cells) == Element("tr", [i \in DOMAIN cells |-> cell(cells[i])])
  IN Element("tbl", <<EmptyElement("tblPr"), EmptyElement("tblGrid")>>
                          \o [i \in DOMAIN table.rows |-> row(table.rows[i])])

writeSectionProperties(section) ==
  LET lengths(names) == [name \in names |-> section[name]]
  IN Element("sectPr",
       <<[tag |-> "pgSz", lengths |-> lengths({"width", "height"})],
         [tag |-> "pgMar", lengths |-> lengths({"top", "right", "bottom", "left"})]>>)

documentXml(blocks, section) ==
  (IF blocks = <<>> THEN <<writeParagraph(EmptyParagraph)>>
   ELSE [i \in DOMAIN blocks |->
           IF blocks[i].kind = "paragraph" THEN writeParagraph(blocks[i])
           ELSE writeTable(blocks[i])])
  \o <<writeSectionProperties(section)>>

usedStyles(blocks) == {p.style : p \in ToSet(paragraphsOf(blocks))} \ {NoName}

usedNumberingIds(blocks) ==
  {p.numberingId[1] : p \in {q \in ToSet(paragraphsOf(blocks)) : q.numberingId # <<>>}}

BuiltIn ==
  {<<"Normal", -1>>, <<"Title", -1>>, <<"Subtitle", -1>>}
    \cup {<<"Heading", level>> : level \in 1..3}

stylesXml(blocks) == BuiltIn \cup usedStyles(blocks)

numberingXml(identifiers) == identifiers \X (0..DeepestLevel)

(* The parts of the package that a document which passes validation is     *)
(* written to.                                                             *)
writePackage(blocks, section) ==
  [body |-> documentXml(blocks, section), styles |-> stylesXml(blocks),
   numbering |-> numberingXml(usedNumberingIds(blocks))]
=============================================================================
