------------------------- MODULE MCContentEncoding -------------------------
(***************************************************************************)
(* Checks the encodings of content.  The two a version is made of: the     *)
(* delta of every pair of texts of at most MaxLength bytes, as a text is   *)
(* edited over and over; and the canonical encoding of header metadata, as *)
(* entries come and go.  And the files of a word document, which is edited *)
(* and reopened, has blocks of many kinds appended, or is opened from a    *)
(* file of foreign making.  The three are independent: only one of them    *)
(* moves in a behaviour.                                                   *)
(***************************************************************************)
EXTENDS TextDiff, WordDocument

CONSTANTS Byte, MaxLength, Names, Values

VARIABLES
  before, after, \* the texts before and after an edit
  metadata       \* header metadata

Header == INSTANCE CanonicalHeader

Texts == BoundedSeq(Byte, MaxLength)

words == <<document, draft, file>>
vars == <<before, after, metadata, document, draft, file>>

ContentInit == before = <<>> /\ after = <<>> /\ metadata = <<>> /\ Init

NoDocument == document = NewDocument /\ ~Editing /\ file = NoFile
NoTexts == before = <<>> /\ after = <<>>

EditText ==
  /\ metadata = <<>> /\ NoDocument
  /\ before' = after
  /\ after' \in Texts
  /\ UNCHANGED <<metadata, words>>

Assign ==
  \E name \in Names, value \in Values :
    /\ NoTexts /\ NoDocument
    /\ metadata' = (name :> value) @@ metadata
    /\ UNCHANGED <<before, after, words>>

Erase ==
  \E name \in DOMAIN metadata :
    /\ metadata' = [n \in DOMAIN metadata \ {name} |-> metadata[n]]
    /\ UNCHANGED <<before, after, words>>

-----------------------------------------------------------------------------
(* A document in use has blocks of Block only, and its pages are changed   *)
(* as long as it has no metadata but its ledger.                           *)
PlainPages(doc) ==
  doc.section = DefaultSection \/ DOMAIN doc.metadata \subseteq {MetadataKey}

EditDocument ==
  /\ NoTexts /\ metadata = <<>> /\ file = NoFile
  /\ \A block \in ToSet(document.blocks) : block \in Block
  /\ Next
  /\ PlainPages(document')
  /\ draft' # NoDraft => PlainPages(draft')
  /\ UNCHANGED <<before, after, metadata>>

(* Blocks to append.  A document that is not edited is made of blocks of   *)
(* one family, at most as many as the family has as its limit, with the    *)
(* pages of a new one, and passes validation: if it does not, no block     *)
(* appended to it changes that.                                            *)

Plain == PlainLook
Bold == [Plain EXCEPT !.bold = TRUE]
Red == [Plain EXCEPT !.color = "c0ffee"]
Large == [Plain EXCEPT !.size = 41]

Run(text, look) == [text |-> text, look |-> look]
X == <<"x">>
XRun == <<Run(X, Plain)>>

With(runs) == [EmptyParagraph EXCEPT !.runs = runs]
Item(id, level, continuation) ==
  [With(XRun) EXCEPT !.numberingId = <<id>>, !.level = level,
                     !.continuation = continuation]

(* Paragraphs of one or two runs. *)
TextFamily ==
  LET texts == BoundedSeq({"x", " ", "\r", "\n"}, 2)
      runs == {Run(t, l) : t \in texts \cup {<<"\t", "x">>, <<" ", " ", " ">>},
                           l \in {Plain, Bold}}
  IN {With(<<r>>) : r \in runs} \cup {With(<<q, r>>) : q, r \in runs}

Quote == <<"Quote", -1>>

StyleFamily ==
  {[With(<<Run(X, look)>>) EXCEPT !.style = style, !.alignment = alignment] :
     style \in {NoName, Quote, <<"Heading", 2>>},
     alignment \in {"automatic", "center", "right"}, look \in {Bold, Red, Large}}

ListFamily ==
  {Item(4, level, again) : level \in 0..2, again \in BOOLEAN}
  \cup {Item(7, level, FALSE) : level \in 0..1}
  \cup {[With(XRun) EXCEPT !.level = 1],
        [kind |-> "table",
         rows |-> << << <<Item(4, 0, FALSE), Item(4, 0, TRUE)>>, <<>> >>,
                     << <<Item(4, 1, FALSE)>> >> >>]}

Families == {[blocks |-> TextFamily, limit |-> 1], [blocks |-> StyleFamily, limit |-> 3],
             [blocks |-> ListFamily, limit |-> 4]}

AppendOfFamily ==
  \E family \in Families :
    \E block \in family.blocks :
      /\ NoTexts /\ metadata = <<>> /\ file = NoFile /\ ~Editing
      /\ DOMAIN document.metadata \subseteq {MetadataKey}
      /\ document.section = DefaultSection
      /\ document.ledger.revision <= Len(document.blocks)
      /\ document.ledger.active = Unattributed
      /\ Len(document.blocks) < family.limit
      /\ \A b \in ToSet(document.blocks) : b \in family.blocks
      /\ AppendBlock(block)
      /\ validateDocument(document'.blocks)
      /\ UNCHANGED <<before, after, metadata>>

-----------------------------------------------------------------------------
(* Files of foreign making. *)

Text(chars) == [tag |-> "characters", text |-> chars]
Spaces(n) == [tag |-> "s", count |-> n]
Tab == [tag |-> "tab"]
Break == [tag |-> "line-break"]
Note == [tag |-> "note"]
Span(style, content) == [tag |-> "span", style |-> <<style, -1>>, content |-> content]
Link(content) == [tag |-> "a", content |-> content]

Styled(tag, style, outline, content) ==
  [tag |-> tag, style |-> style, outline |-> outline, content |-> content]
P(content) == Styled("p", NoName, 0, content)
XP == P(<<Text(X)>>)

Style(parent, attributes) == [parent |-> <<parent, -1>>, attributes |-> attributes]
Sets(attribute, value) == [a \in {attribute} |-> value]

(* Styles that inherit and override, that inherit in a circle, whose       *)
(* inheritance is longer than may be followed, and that apply a master     *)
(* page, be there one or not.                                              *)
Styles ==
  [paragraph |->
     (Quote :> Style("Loud", Sets("alignment", "right")))
     @@ (<<"Loud", -1>> :> Style("", Sets("bold", TRUE)))
     @@ (<<"IGDP", 7>> :> Style("Quote", Sets("bold", FALSE)))
     @@ (<<"Circle", -1>> :> Style("Round", Sets("color", "c0ffee")))
     @@ (<<"Round", -1>> :> Style("Circle", Sets("color", "purple")))
     @@ (<<"Listed", -1>> :> Style("Numbers", Sets("bold", TRUE)))
     @@ (<<"Numbers", -1>> :> Style("", Sets("list", <<"Roman", -1>>)))
     @@ (<<"Paged", -1>> :> Style("", Sets("master", "A")))
     @@ (<<"Heir", -1>> :> Style("Paged", Sets("bold", TRUE)))
     @@ (<<"Lost", -1>> :> Style("Paged", Sets("master", "Nowhere")))
     @@ (<<"Long", 1>> :> [parent |-> <<"Long", 2>>, attributes |-> Sets("bold", TRUE)])
     @@ [n \in {<<"Long", i>> : i \in 2..6} |->
           [parent |-> <<"Long", n[2] + 1>>, attributes |-> Sets("color", "c0ffee")]],
   table |->
     (<<"Wide", -1>> :> Style("", Sets("master", "B")))
     @@ [n \in {<<"Long", i>> : i \in 1..6} |->
           [parent |-> <<"Long", n[2] + 1>>, attributes |-> Sets("bold", TRUE)]],
   text |->
     (<<"Red", -1>> :> Style("Dark", Sets("color", "c0ffee")))
     @@ (<<"Dark", -1>> :> Style("", Sets("color", "purple")))]

Inline ==
  LET basic == {Text(X), Text(<<" ">>), Text(<<" ", "x">>), Text(<<"x", "\n", " ">>),
                Spaces(1), Tab, Note}
      inner == BoundedSeq({Text(<<" ", "x">>), Text(<<"x", " ">>), Spaces(2), Break}, 2)
      outer == basic \cup {Span(s, c) : s \in {"Red", "None"}, c \in inner}
                 \cup {Link(c) : c \in inner}
  IN BoundedSeq(basic, 3) \cup BoundedSeq(outer, 2)

RECURSIVE SpanChain(_)
SpanChain(n) == IF n = 0 THEN <<Text(X)>> ELSE <<Span("Red", SpanChain(n - 1))>>

TextBodies ==
  {<<P(content)>> : content \in Inline \cup {SpanChain(n) : n \in 1..6}
                                  \cup {<<Spaces(0)>>}}
  \cup {<<Styled(tag, style, outline, <<Text(X), Span("Red", <<Text(X)>>)>>)>> :
          tag \in {"p", "h"}, outline \in {0, 3, 12},
          style \in {NoName, Odf!BaseName, <<"Missing", -1>>, <<"IGDP", 8>>}
                      \cup DOMAIN Styles.paragraph}

List(items) ==
  [tag |-> "list", style |-> NoName, id |-> "", continueList |-> "",
   continueNumbering |-> FALSE, items |-> items]
Listed(content) == [tag |-> "list-item", content |-> content]
Headed(content) == [tag |-> "list-header", content |-> content]

RECURSIVE ListChain(_)
ListChain(n) ==
  IF n = 0 THEN List(<<Listed(<<XP, XP>>), Listed(<<XP>>)>>)
  ELSE List(<<Listed(<<XP, ListChain(n - 1), XP>>)>>)

ListBodies ==
  LET inner == {List(<<Listed(<<XP, XP>>), Listed(<<>>)>>), List(<<Headed(<<XP>>)>>),
                List(<<Listed(<<List(<<Listed(<<XP>>)>>), XP>>)>>)}
      items == {Listed(c) : c \in BoundedSeq({XP, Note} \cup inner, 3)}
                 \cup {Headed(<<XP>>), Headed(<<XP, ListChain(0)>>)}
      lists == {List(<<i>>) : i \in items}
                 \cup {List(<<i, Listed(<<XP>>)>>) : i \in items}
                 \cup {ListChain(n) : n \in 0..6}
  IN {<<l>> : l \in lists} \cup {<<l, XP, [tag |-> "section", content |-> <<l>>]>> : l \in lists}

(* Three lists that may have ids and continue one another. *)
LinkedLists ==
  {[List(<<Listed(<<item>>)>>) EXCEPT
      !.style = style, !.id = id, !.continueList = link, !.continueNumbering = goesOn] :
     <<style, item>> \in {<<<<"Roman", -1>>, XP>>, <<NoName, XP>>,
                          <<NoName, Styled("p", <<"Listed", -1>>, 0, <<Text(X)>>)>>},
     id \in {"", "i"}, link \in {"", "i"}, goesOn \in BOOLEAN}

LinkedBodies == {<<a, b, c>> : a, b, c \in LinkedLists}

Cell(tag, repeat, content) == [tag |-> tag, repeat |-> repeat, content |-> content]
Row(tag, repeat, cells) == [tag |-> tag, repeat |-> repeat, cells |-> cells]
Table(rows) == [tag |-> "table", style |-> NoName, rows |-> rows]

TableBodies ==
  LET cells == {Cell("table-cell", n, c) :
                  n \in 0..3, c \in {<<>>, <<P(<<Text(X), Tab>>)>>, <<Note, ListChain(0)>>}}
                 \cup {Cell("covered-table-cell", n, <<>>) : n \in 1..2}
                 \cup {[tag |-> "other"]}
      rows == {Row("table-row", n, <<>>) : n \in 0..1}
                \cup {Row("table-row", n, <<c>>) : n \in 1..3, c \in cells}
                \cup {Row("table-row", 1, <<c, d>>) : c, d \in cells}
                \cup {Row("table-header-rows", 1, <<>>)}
  IN {<<Table(r), XP>> : r \in BoundedSeq(rows, 1)}
       \cup {<<Table(<<q, Row("table-row", 2, <<Cell("table-cell", 2, <<XP>>)>>)>>)>> :
               q \in rows}

OdfFile(body, meta) ==
  [format |-> "odf", content |-> [styles |-> Styles, body |-> body],
   pages |-> OdfPages!NoPages, metadata |-> meta]

(* Pages: what begins the text may apply a master page, at some depth.     *)
PageBodies ==
  LET paged(style) == Styled("p", <<style, -1>>, 0, <<Text(X)>>)
      table(style, content) ==
        [Table(<<Row("table-row", 1, <<Cell("table-cell", 1, content)>>)>>)
           EXCEPT !.style = style]
  IN BoundedSeq({XP, List(<<Listed(<<paged("Heir")>>)>>), paged("Lost"),
                 [tag |-> "section", content |-> <<paged("Circle"), paged("Paged")>>],
                 table(NoName, <<paged("Paged")>>), table(<<"Wide", -1>>, <<>>),
                 table(<<"Long", 1>>, <<>>)}, 2) \ {<<>>}

PageFamilies ==
  LET layout(name, properties) == [name |-> name, properties |-> properties]
      master(name, of) == [name |-> name, layout |-> of]
      narrow == layout("L", <<"width" :> 3000 @@ "margin" :> 100 @@ "left" :> 50,
                              "height" :> 0 @@ "right" :> 0 @@ "top" :> -1>>)
      roomless == layout("M", <<"margin" :> 8000>>)
      low == layout("M", <<"height" :> 5000, "margin" :> -1 @@ "bottom" :> 7>>)
  IN {[layouts |-> l, masters |-> m] :
        l \in {<<>>, <<narrow>>, <<low, narrow>>, <<narrow, roomless>>,
              <<roomless, layout("", <<>>), narrow, low>>},
        m \in {<<>>, <<master("A", "L")>>, <<master("B", "M"), master("A", "L")>>,
              <<master("A", "Gone"), master("B", "L")>>,
              <<master("A", "M"), master("B", ""), master("A", "L")>>}}

MetaElement(tag, value) == [tag |-> tag, value |-> value]
LedgerElement(ofLedger) == [tag |-> MetadataKey, dump |-> ofLedger]

OdfFiles ==
  {OdfFile(body, <<>>) : body \in TextBodies \cup ListBodies \cup LinkedBodies \cup TableBodies}
  \cup {OdfFile(<<XP>>, meta) :
          meta \in BoundedSeq({MetaElement("keyword", X), MetaElement("generator", X),
                              MetaElement("title", <<>>), MetaElement("creator", X),
                              MetaElement("initial-creator", <<"y">>)}, 3)
                  \cup BoundedSeq({LedgerElement(UnreadableDump),
                                  LedgerElement([revision |-> 1, last |-> Unattributed])}, 2)}
  \cup {[OdfFile(body, <<>>) EXCEPT !.pages = pages] : body \in PageBodies, pages \in PageFamilies}

R(content) == Docx!Element("r", content)
RT == R(<<[tag |-> "t", text |-> X]>>)
DP(content) == Docx!Element("p", content)
DXP == DP(<<RT>>)

Looks ==
  {Docx!ValElement("b", v) : v \in {"", "off"}}
  \cup {[tag |-> "sz", number |-> n] : n \in {<<>>, <<-1>>, <<21>>}}
  \cup {Docx!ValElement("color", v) : v \in {"auto", "c0ffee", "teal"}}

RunContents ==
  {<<Docx!Element("rPr", look), [tag |-> "t", text |-> X]>> : look \in BoundedSeq(Looks, 2)}
  \cup BoundedSeq({[tag |-> "t", text |-> <<" ", "x">>], [tag |-> "delText", text |-> X]}
                 \cup {Docx!EmptyElement(t) : t \in {"tab", "br", "drawing"}}, 2)

ParagraphProperties ==
  {<<[tag |-> "pStyle", style |-> Quote]>>, <<Docx!ValElement("jc", "top")>>,
   <<Docx!ValElement("jc", "start"), Docx!ValElement("jc", "distribute")>>}
  \cup {<<Docx!Element("numPr", c)>> :
          c \in BoundedSeq({[tag |-> t, number |-> n] :
                            t \in {"numId", "ilvl"}, n \in {<<>>, <<4>>, <<-1>>}}, 2)}

Wrapped ==
  LET once == {Docx!Element(t, <<RT>>) : t \in {"ins", "del", "moveTo", "hyperlink"}}
  IN once \cup {Docx!Element(t, <<RT, e>>) : t \in {"sdt", "del"}, e \in once}

PageLengths ==
  {[tag |-> "pgSz", lengths |-> l] : l \in {"width" :> 3000 @@ "height" :> 0, "height" :> 5000}}
  \cup {[tag |-> "pgMar", lengths |-> l] : l \in {"left" :> 0 @@ "top" :> -1, "right" :> 12000}}
  \cup {Docx!EmptyElement("cols")}

DocxBodies ==
  {<<DP(<<R(c)>>)>> : c \in RunContents}
  \cup {<<DP(<<Docx!Element("pPr", c), RT>>), DXP>> : c \in ParagraphProperties}
  \cup {<<DP(<<e, RT, f>>)>> : e, f \in Wrapped}
  \cup {<<Docx!Element("tbl", rows)>> :
          rows \in BoundedSeq({Docx!EmptyElement("tblPr")}
            \cup {Docx!Element("tr", cells) :
                    cells \in {<<>>, <<Docx!Element("tc", <<>>)>>,
                               <<Docx!Element("tc", <<DXP, DXP>>), Docx!EmptyElement("sdt")>>}},
            2)}
  \cup BoundedSeq({DXP, Docx!EmptyElement("sdt")}, 2)
  \cup {<<DXP, Docx!Element("sectPr", c)>> : c \in BoundedSeq(PageLengths, 2)}

DocxFiles ==
  {[format |-> "docx",
    content |-> [body |-> body, styles |-> Docx!BuiltIn, numbering |-> {}],
    metadata |-> [core |-> <<MetaElement("lastModifiedBy", X)>>, custom |-> <<>>]] :
     body \in DocxBodies}

OpenFile ==
  /\ NoTexts /\ metadata = <<>> /\ NoDocument
  /\ \/ \E f \in OdfFiles : Open(f)
     \/ \E f \in DocxFiles : Open(f)
  /\ UNCHANGED <<before, after, metadata>>

CloseDocument ==
  /\ ~NoDocument /\ ~Editing
  /\ document' = NewDocument /\ draft' = draft /\ file' = NoFile
  /\ UNCHANGED <<before, after, metadata>>

ContentNext ==
  EditText \/ Assign \/ Erase \/ EditDocument \/ AppendOfFamily \/ OpenFile \/ CloseDocument

ContentSpec == ContentInit /\ [][ContentNext]_vars

-----------------------------------------------------------------------------
(* Byte strings over a digit, a delimiter and a letter, so that a value    *)
(* can look like a length prefix or like the start of another entry.       *)
MCNames == {<<1>>, <<Header!Colon>>, <<1, Header!Colon>>, <<20>>}
MCUpperCase ==
  "c0ffee" :> "C0FFEE" @@ "purple" :> "PURPLE" @@ "teal" :> "TEAL"
    @@ [color \in {"C0FFEE", "PURPLE", "TEAL"} |-> color]

MCBlock == {With(XRun)}
MCValue == {X, <<"y">>}
MCSection == {[DefaultSection EXCEPT !.width = 3000, !.left = 0]}

MCValues ==
  {<<>>, <<1>>, <<Header!Newline>>, <<Header!Newline, 1, Header!Colon, 20>>,
   [i \in 1..11 |-> 1]}

(* The delta of two texts applies to the first and yields exactly the      *)
(* second; and on whatever base it is accepted, not only the one it was    *)
(* made from, it loses nothing: the inverted delta restores that base.     *)
DeltaReconstructsTarget ==
  LET diff == makeTextDiff(before, after)
  IN /\ TextDiffApplies(diff, before) /\ TextDiffResult(diff, before) = after
     /\ \A base \in Texts : TextDiffApplies(diff, base) =>
          LET result == TextDiffResult(diff, base)
          IN /\ TextDiffApplies(Inverted(diff), result)
             /\ TextDiffResult(Inverted(diff), result) = base

(* parseCanonicalHeader inverts canonicalHeader whatever bytes the names   *)
(* and values hold, so unequal metadata never share a header object id;    *)
(* and it accepts no proper prefix of an encoding and none with one more   *)
(* byte, so a delta that cuts or pads a header cannot produce metadata.    *)
EncodingIsLossless ==
  LET bytes == Header!canonicalHeader(metadata)
      parsed == Header!parseCanonicalHeader(bytes)
  IN /\ parsed.accepted /\ parsed.metadata = metadata
     /\ \A n \in 0..Len(bytes) - 1 :
          ~Header!parseCanonicalHeader(SubSeq(bytes, 1, n)).accepted
     /\ \A byte \in {1, Header!Colon, Header!Newline, 20} :
          ~Header!parseCanonicalHeader(Append(bytes, byte)).accepted

-----------------------------------------------------------------------------
(* The document as a format can tell it.  In both, line ends are line      *)
(* feeds, colours are capitals, only a numbered paragraph has a level, and *)
(* a cell has a paragraph.                                                 *)
LineFeeds(text) ==
  LET kept == SelectSeq([i \in DOMAIN text |-> i],
                        LAMBDA i : i = 1 \/ text[i] # "\n" \/ text[i - 1] # "\r")
  IN [k \in DOMAIN kept |-> IF text[kept[k]] = "\r" THEN "\n" ELSE text[kept[k]]]

NormalRun(run) ==
  [run EXCEPT !.text = LineFeeds(@), !.look.color = IF @ = "" THEN @ ELSE UpperCase[@]]

(* A run of OpenDocument has text. *)
OdfParagraph(p) ==
  [p EXCEPT !.level = IF p.numberingId = <<>> THEN 0 ELSE @,
            !.runs = SelectSeq([i \in DOMAIN p.runs |-> NormalRun(p.runs[i])],
                               LAMBDA run : run.text # <<>>)]

(* In DOCX a paragraph cannot continue an item, and sizes are halves of a  *)
(* point.                                                                  *)
DocxParagraph(p) ==
  LET numbered == p.numberingId # <<>> /\ ~p.continuation
  IN [p EXCEPT !.numberingId = IF numbered THEN @ ELSE <<>>,
               !.level = IF numbered THEN @ ELSE 0,
               !.continuation = FALSE,
               !.runs = [i \in DOMAIN @ |->
                  [NormalRun(@[i]) EXCEPT !.look.size = IF @ % 2 = 1 THEN @ + 1 ELSE @]]]

(* The paragraphs with, instead of its number, whether each is numbered    *)
(* and goes on with the list of the one before.                            *)
Joined(flow) ==
  [i \in DOMAIN flow |->
     IF flow[i].kind = "table" THEN flow[i]
     ELSE LET joins == /\ i > 1 /\ flow[i - 1].kind = "paragraph"
                       /\ flow[i].numberingId = flow[i - 1].numberingId
          IN [flow[i] EXCEPT !.numberingId = <<@ # <<>>, @ # <<>> /\ joins>>]]

MapFlow(flow, Paragraph(_)) ==
  [i \in DOMAIN flow |-> IF flow[i].kind = "table" THEN flow[i] ELSE Paragraph(flow[i])]

InCells(flow, Cell2(_)) ==
  [i \in DOMAIN flow |->
     IF flow[i].kind = "paragraph" THEN flow[i]
     ELSE [flow[i] EXCEPT !.rows =
             [r \in DOMAIN @ |-> [c \in DOMAIN @[r] |-> Cell2(@[r][c])]]]]

Normal(format, flow) ==
  LET paragraph(p) == IF format = "odf" THEN OdfParagraph(p) ELSE DocxParagraph(p)
      cell(paragraphs) ==
        IF paragraphs = <<>> THEN <<EmptyParagraph>> ELSE MapFlow(paragraphs, paragraph)
  IN IF flow = <<>> /\ format = "docx" THEN <<EmptyParagraph>>
     ELSE InCells(MapFlow(flow, paragraph), cell)

(* Only a numbered paragraph has a level. *)
Levelled(p) == [p EXCEPT !.level = IF p.numberingId = <<>> THEN 0 ELSE @]

(* OpenDocument keeps which paragraphs share a list, not its number. *)
Structure(format, flow) ==
  IF format = "odf" THEN InCells(Joined(flow), Joined) ELSE flow

(* Of metadata, the keys that a format knows are kept, if they have a      *)
(* value.  In OpenDocument the author and whoever made the last change     *)
(* stand in for each other, and the application is always this library.    *)
NormalMetadata(format, doc) ==
  LET known == {"Title", "Author", "Subject", "Description", "Keywords", "LastModifiedBy",
                "Created", "Modified"}
      kept == [key \in {k \in DOMAIN doc.metadata \cap known : doc.metadata[k] # <<>>} |->
                 doc.metadata[key]]
      others(key, other) ==
        [k \in {n \in {key} : other \in DOMAIN kept} |-> kept[other]]
      told == IF format = "docx" THEN kept
              ELSE kept @@ others("Author", "LastModifiedBy")
                   @@ others("LastModifiedBy", "Author")
                   @@ ("Application" :> Generator)
  IN storeAuthorship(doc.ledger, told)

(* A header in a list within an item sets the item's next paragraph apart  *)
(* from the one it continues; a table may be read as one without rows or a *)
(* row as one without cells; a page may have no room for text; and DOCX    *)
(* may have a colour that is none, or a negative number.  Such documents   *)
(* cannot be saved.                                                        *)
HeaderWithin(list) ==
  \E i \in DOMAIN list.items :
    \E c \in ToSet(list.items[i].content) :
      c.tag = "list" /\ \E j \in DOMAIN c.items : c.items[j].tag = "list-header"

CanBeSavedAgain ==
  /\ file.format = "odf" =>
       \A e \in ToSet(file.content.body) : e.tag = "list" => ~HeaderWithin(e)
  /\ \A table \in tables(document.blocks) :
       table.rows # <<>> /\ <<>> \notin ToSet(table.rows)
  /\ document.section.left + document.section.right < document.section.width
  /\ document.section.top + document.section.bottom < document.section.height
  /\ \A p \in ToSet(paragraphsOf(document.blocks)) :
       /\ p.numberingId # <<-1>>
       /\ \A run \in ToSet(p.runs) : run.look.color \in {"", "C0FFEE"}

(* A continuation comes right after a paragraph of an outer item, so the   *)
(* list of the item it continues has been closed.  Validation lets it      *)
(* through, and it is saved as the first paragraph of an item of its own.  *)
ContinuesClosedItem(flow) ==
  \E i \in DOMAIN flow : \E k \in 1..i - 1 :
    /\ \A m \in k..i : flow[m].kind = "paragraph"
    /\ flow[i].continuation /\ flow[k].level < flow[i].level
    /\ \A m \in k + 1..i - 1 : flow[m].level > flow[i].level

(* The elements of XML, at any depth. *)
RECURSIVE Within(_)
Within(content) ==
  UNION {{e} \cup (IF "content" \in DOMAIN e THEN Within(e.content) ELSE {}) :
           e \in ToSet(content)}

(* The styles, numbers and levels that the body of a package refers to are *)
(* defined in its other parts.                                             *)
ReferencesDefined(package) ==
  \A e \in Within(package.body) :
    /\ e.tag = "pStyle" => e.style \in package.styles
    /\ e.tag = "numPr" =>
         <<e.content[2].number[1], e.content[1].number[1]>> \in package.numbering

Savable(format, doc) ==
  validDocument(doc) /\ (format = "docx" \/ ~ContinuesClosedItem(doc.blocks))

SameDocument(format, result, doc) ==
  /\ result.accepted
  /\ Structure(format, result.document.blocks)
       = Structure(format, Normal(format, doc.blocks))
  /\ result.document.section = doc.section
  /\ result.document.metadata = NormalMetadata(format, doc)
  /\ result.document.ledger = [doc.ledger EXCEPT !.active = Unattributed]

(* A document that may be saved reads back, from OpenDocument and from     *)
(* DOCX, as the format can tell it: its text with every space and break,   *)
(* the look of every run, the styles and alignments, its lists and levels, *)
(* the cells of its tables, its pages, its metadata, and the ledger but    *)
(* for the active author, whatever is under the reserved key.  A document  *)
(* that was read may be saved, and reads back exactly, but for the numbers *)
(* of the lists of OpenDocument and for a level without a number, read     *)
(* from DOCX.                                                              *)
SavedFileReadsBack ==
  /\ \A format \in Format :
       Savable(format, document) =>
         \E f \in {written(format, document)} : \E result \in {read(f)} :
           SameDocument(format, result, document)
  /\ validDocument(document) =>
       ReferencesDefined(written("docx", document).content)
  /\ file # NoFile /\ document.blocks # <<>> =>
       /\ CanBeSavedAgain => Savable(file.format, document)
       /\ Structure(file.format, Normal(file.format, document.blocks))
            = Structure(file.format, MapFlow(document.blocks, Levelled))

(* Two lists of a file get one number, and so are saved as one if they     *)
(* meet, only if the later one says it continues the earlier one: the      *)
(* first that has the id it names or, when it names none, the one before.  *)
OnlyContinuedListsShareNumbers ==
  file # NoFile /\ file.format = "odf" /\ file.content.body \in LinkedBodies =>
    LET lists == file.content.body
        number(k) == document.blocks[k].numberingId
    IN \A k \in DOMAIN lists :
         LET named == {j \in 1..k - 1 : lists[j].id = lists[k].continueList}
             link == lists[k].continueList
         IN CASE link # "" /\ named # {} -> number(k) = number(Min(named))
              [] link = "" /\ lists[k].continueNumbering /\ k > 1
                   /\ number(k) = number(k - 1) -> TRUE
              [] OTHER -> \A j \in 1..k - 1 : number(j) # number(k)

(* What the blocks of a document cost a reader. *)
CostOf(blocks) ==
  LET cost(b) ==
        IF b.kind = "paragraph" THEN Odf!paragraphCost(b)
        ELSE Odf!containerCost([i \in DOMAIN b.rows |-> Odf!rowCost(b.rows[i])])
  IN FoldLeft(LAMBDA sum, b : Odf!plus(sum, cost(b)), Odf!NoCost, blocks)

(* What reading with a budget has come to, if the blocks cost so much.     *)
Accounted(budget, body, spent) ==
  IF body.context.failed
  THEN spent.items > budget[1] \/ spent.characters > Min({budget[1], budget[2]})
  ELSE /\ body.blocks = document.blocks
       /\ body.context.items = spent.items /\ spent.items <= budget[1]
       /\ body.context.characters = spent.characters
       /\ spent.characters <= budget[2]

(* Whatever the budget, what is read costs what was taken from it: a file  *)
(* is refused when its repeated rows, cells and spaces come to more, and   *)
(* only then, and no budget changes what is read.  (A text:s may not ask   *)
(* for more spaces than there may be objects either.)                      *)
ExpansionIsAccounted ==
  LET budgets ==
        CASE file.content.body \in TableBodies -> (3..20) \X {0, 2, 5, 40}
          [] file.content.body \in LinkedBodies -> {6, MaximumItems} \X {MaximumCharacters}
          [] OTHER -> {2, MaximumItems} \X {2, MaximumCharacters}
  IN file # NoFile /\ file.format = "odf" /\ document.blocks # <<>> =>
       \A budget \in budgets :
         Accounted(budget, Odf!parseBody(file.content, budget[1], budget[2]),
                   CostOf(document.blocks))
=============================================================================
