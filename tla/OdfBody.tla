------------------------------- MODULE OdfBody -------------------------------
(***************************************************************************)
(* OdfTextCodec.cpp, the part about the body of a document: lists, tables  *)
(* and sections, and the budget that everything read is taken from.  A     *)
(* body is the sequence of the elements of office:text.                    *)
(***************************************************************************)
EXTENDS OdfText

Paragraph(tag) == tag \in {"p", "h"}

(* The sum of f(x) over the elements x of a sequence. *)
total(f(_), seq) == FoldLeft(LAMBDA sum, x : sum + f(x), 0, seq)

-----------------------------------------------------------------------------
(* Reading lists. *)

\* Mutant: a list that repeats an id takes it over.
IdGoesToTheLast(list, styleName, own, context) ==
  LET linked ==
        CASE list.continueList \in DOMAIN context.listIds ->
               {context.listIds[list.continueList]}
          [] /\ list.continueList = "" /\ list.continueNumbering
             /\ context.lastList # <<>> /\ context.lastList[2] = styleName ->
               {context.lastList[1]}
          [] OTHER -> {}
      identifier == IF linked = {} THEN own ELSE CHOOSE n \in linked : TRUE
      ids == IF list.id = "" THEN context.listIds
             ELSE (list.id :> identifier) @@ context.listIds
  IN [identifier |-> identifier,
      context |-> [context EXCEPT !.listIds = ids, !.lastList = <<identifier, styleName>>]]

(* The number of a list: that of the list it names, which must have been   *)
(* met; that of the last one, if it goes on and their styles agree; or its *)
(* own.  The first list with an id keeps it.                               *)
finalizeTopLevelListIdentifier(list, styleName, own, context) ==
  LET linked ==
        CASE list.continueList \in DOMAIN context.listIds ->
               {context.listIds[list.continueList]}
          [] /\ list.continueList = "" /\ list.continueNumbering
             /\ context.lastList # <<>> /\ context.lastList[2] = styleName ->
               {context.lastList[1]}
          [] OTHER -> {}
      identifier == IF linked = {} THEN own ELSE CHOOSE n \in linked : TRUE
      ids == IF list.id = "" THEN context.listIds
             ELSE context.listIds @@ (list.id :> identifier)
  IN [identifier |-> identifier,
      context |-> [context EXCEPT !.listIds = ids, !.lastList = <<identifier, styleName>>]]

(* The paragraphs of a list and of those in it.  The first paragraph of an *)
(* item is numbered, the others continue it, those of a header are         *)
(* neither.  A list without a style has that of its first item paragraph.  *)
RECURSIVE parseListParagraphs(_, _, _, _, _)

addListParagraph(s, parsed, level, identifier, header, inferred) ==
  LET numbered ==
        [parsed.paragraph EXCEPT
           !.numberingId = <<identifier>>, !.level = Min({level, DeepestLevel}),
           !.continuation = s.inItem]
  IN IF header
     THEN [s EXCEPT !.context = parsed.context,
                    !.blocks = Append(@, parsed.paragraph)]
     ELSE [context |-> parsed.context, inferred |-> inferred, inItem |-> TRUE,
           blocks |-> Append(s.blocks, numbered)]

inferredStyle(s, e, list, styles) ==
  IF s.inferred = <<>> /\ list.style = NoName
  THEN <<attributeOf(resolveStyle(styles.paragraph, e.style), "list", NoName)>>
  ELSE s.inferred

joined(s, parsed) ==
  [s EXCEPT !.context = parsed.context, !.blocks = @ \o parsed.blocks]

readInItem(s, e, item, list, styles, level, identifier) ==
  CASE s.context.failed -> s
    [] Paragraph(e.tag) ->
         addListParagraph(s, parseParagraph(e, styles, s.context), level, identifier,
                          item.tag = "list-header", inferredStyle(s, e, list, styles))
    [] e.tag = "list" ->
         joined(s, parseListParagraphs(e, styles, level + 1, identifier, s.context))
    [] OTHER -> s

parseListParagraphs(list, styles, level, identifier, entered) ==
  FoldLeft(LAMBDA s, item :
             FoldLeft(LAMBDA t, e : readInItem(t, e, item, list, styles, level, identifier),
                      [s EXCEPT !.inItem = FALSE], item.content),
           [blocks |-> <<>>, inferred |-> <<>>, inItem |-> FALSE,
            context |-> allowNesting(entered, level)],
           SelectSeq(list.items, LAMBDA i : i.tag \in {"list-item", "list-header"}))

(* A top-level list, read with a number of its own, which all its          *)
(* paragraphs trade for the number of the list it turns out to continue.   *)
renumberedList(list, own, parsed) ==
  LET styleName == CASE list.style # NoName -> list.style
                     [] parsed.inferred = <<>> -> NoName
                     [] OTHER -> parsed.inferred[1]
      final == finalizeTopLevelListIdentifier(list, styleName, own, parsed.context)
      renumbered(p) ==
        IF p.numberingId = <<own>> THEN [p EXCEPT !.numberingId = <<final.identifier>>]
        ELSE p
  IN IF parsed.context.failed THEN [blocks |-> <<>>, context |-> parsed.context]
     ELSE [blocks |->
             [i \in DOMAIN parsed.blocks |-> renumbered(parsed.blocks[i])],
           context |-> final.context]

readTopLevelList(list, styles, context) ==
  renumberedList(list, context.nextList,
    parseListParagraphs(list, styles, 0, context.nextList,
                        [context EXCEPT !.nextList = @ + 1]))

-----------------------------------------------------------------------------
(* Reading tables, whose rows and cells may be repeated. *)

NoCost == [items |-> 0, characters |-> 0]

plus(a, b) == [items |-> a.items + b.items, characters |-> a.characters + b.characters]

paragraphCost(p) ==
  [items |-> 1 + Len(p.runs), characters |-> total(LAMBDA run : Len(run.text), p.runs)]

containerCost(costs) == FoldLeft(plus, [NoCost EXCEPT !.items = 1], costs)

cellCost(cell) == containerCost([i \in DOMAIN cell |-> paragraphCost(cell[i])])

rowCost(row) == containerCost([i \in DOMAIN row |-> cellCost(row[i])])

(* The repeat count of a row or a cell is 1 to the limit, or reading fails. *)
repeatedCount(e, context) == e.repeat \in 1..context.maximumItems

\* Mutant: the copies of a cell or row are taken to be free of characters.
FreeCharacters(context, cost, copies) ==
  IF cost.items * copies > context.maximumItems - context.items THEN fail(context)
  ELSE [context EXCEPT !.items = @ + cost.items * copies]

(* What copies of something read once take from the budget. *)
consumeCopies(context, cost, copies) ==
  LET left == [items |-> context.maximumItems - context.items,
               characters |-> context.maximumCharacters - context.characters]
  IN IF \/ copies = 0
        \/ \A of \in {"items", "characters"} :
             cost[of] = 0 \/ copies <= left[of] \div cost[of]
     THEN [context EXCEPT !.items = @ + cost.items * copies,
                          !.characters = @ + cost.characters * copies]
     ELSE fail(context)

copies(x, n) == [i \in 1..n |-> x]

(* The paragraphs of a cell, at least one. *)
appended(s, parsed) ==
  [s EXCEPT !.context = parsed.context, !.blocks = Append(@, parsed.paragraph)]

readInCell(s, e, styles) ==
  CASE s.context.failed -> s
    [] Paragraph(e.tag) -> appended(s, parseParagraph(e, styles, s.context))
    [] e.tag = "list" -> joined(s, readTopLevelList(e, styles, s.context))
    [] OTHER -> s

filledCell(s) ==
  IF s.blocks = <<>> /\ ~s.context.failed
  THEN [blocks |-> <<EmptyParagraph>>, context |-> consumeItems(s.context, 1)]
  ELSE s

parseTableCell(cell, styles, entered) ==
  filledCell(FoldLeft(LAMBDA s, e : readInCell(s, e, styles),
                      [blocks |-> <<>>, context |-> consumeItems(entered, 1)],
                      cell.content))

(* The cells of a row; those that a merged cell covers are empty cells. *)
addCells(s, cell, parsed, more) ==
  [cells |-> s.cells \o copies(parsed.blocks, cell.repeat),
   context |-> IF parsed.context.failed THEN parsed.context
               ELSE consumeCopies(parsed.context, cellCost(parsed.blocks), more)]

readInRow(s, cell, styles) ==
  CASE s.context.failed \/ cell.tag \notin {"table-cell", "covered-table-cell"} -> s
    [] ~repeatedCount(cell, s.context) -> [s EXCEPT !.context = fail(@)]
    [] cell.tag = "covered-table-cell" ->
         addCells(s, cell, [blocks |-> <<EmptyParagraph>>, context |-> s.context],
                  cell.repeat)
    [] OTHER -> addCells(s, cell, parseTableCell(cell, styles, s.context), cell.repeat - 1)

parseTableRow(row, styles, entered) ==
  FoldLeft(LAMBDA s, cell : readInRow(s, cell, styles),
           [cells |-> <<>>, context |-> consumeItems(entered, 1)], row.cells)

(* The rows of a table; any other element of it is skipped, with the rows  *)
(* it may hold.                                                            *)
addRows(s, row, parsed) ==
  [rows |-> s.rows \o copies(parsed.cells, row.repeat),
   context |-> IF parsed.context.failed THEN parsed.context
               ELSE consumeCopies(parsed.context, rowCost(parsed.cells), row.repeat - 1)]

readInTable(s, row, styles) ==
  CASE s.context.failed \/ row.tag # "table-row" -> s
    [] ~repeatedCount(row, s.context) -> [s EXCEPT !.context = fail(@)]
    [] OTHER -> addRows(s, row, parseTableRow(row, styles, s.context))

parseTable(table, styles, entered) ==
  FoldLeft(LAMBDA s, row : readInTable(s, row, styles),
           [rows |-> <<>>, context |-> consumeItems(entered, 1)], table.rows)

(* The blocks of a body or of a section, whose elements are read as if     *)
(* they stood in its place.                                                *)
RECURSIVE parseBlockContainer(_, _, _, _)

addTable(s, parsed) ==
  [s EXCEPT !.context = parsed.context,
            !.blocks = Append(@, [kind |-> "table", rows |-> parsed.rows])]

readBlock(s, e, styles, depth) ==
  CASE s.context.failed -> s
    [] Paragraph(e.tag) -> appended(s, parseParagraph(e, styles, s.context))
    [] e.tag = "list" -> joined(s, readTopLevelList(e, styles, s.context))
    [] e.tag = "table" -> addTable(s, parseTable(e, styles, s.context))
    [] e.tag = "section" -> parseBlockContainer(s, e.content, styles, depth + 1)
    [] OTHER -> s

parseBlockContainer(start, elements, styles, depth) ==
  FoldLeft(LAMBDA s, e : readBlock(s, e, styles, depth),
           [start EXCEPT !.context = allowNesting(@, depth)], elements)

(* What a file is read as, if the context has not failed. *)
parseBody(file, maximumItems, maximumCharacters) ==
  parseBlockContainer(
    [blocks |-> <<>>, context |-> ReadContext(maximumItems, maximumCharacters)],
    file.body, file.styles, 0)

-----------------------------------------------------------------------------
(* Writing a document. *)

(* How many paragraphs, from the first on, satisfy the predicate. *)
leadingWhere(paragraphs, Satisfies(_)) ==
  Max({n \in 0..Len(paragraphs) : \A i \in 1..n : Satisfies(paragraphs[i])})

(* The list of the paragraphs at a level: an item begins with a paragraph  *)
(* and takes in the deeper ones after it and those that continue it, or,   *)
(* if the first one is deeper, is just the list of the deeper ones.        *)
RECURSIVE writeListLevel(_, _, _)
writeListLevel(paragraphs, level, plan) ==
  LET Deeper(p) == p.level > level
      InItem(p) == p.level > level \/ p.continuation
      itemLength(ps) ==
        IF Deeper(Head(ps)) THEN leadingWhere(ps, Deeper)
        ELSE 1 + leadingWhere(Tail(ps), InItem)
      content[ps \in Seq(ToSet(paragraphs))] ==
        IF ps = <<>> THEN <<>>
        ELSE LET n == leadingWhere(ps, Deeper)
             IN IF n = 0 THEN <<writeParagraph(Head(ps), plan)>> \o content[Tail(ps)]
                ELSE <<writeListLevel(SubSeq(ps, 1, n), level + 1, plan)>>
                       \o content[SubSeq(ps, n + 1, Len(ps))]
      items[ps \in Seq(ToSet(paragraphs))] ==
        IF ps = <<>> THEN <<>>
        ELSE LET n == itemLength(ps)
             IN <<[tag |-> "list-item", content |-> content[SubSeq(ps, 1, n)]]>>
                  \o items[SubSeq(ps, n + 1, Len(ps))]
  IN [tag |-> "list", style |-> <<"IGDL", Head(paragraphs).numberingId[1]>>,
      id |-> "", continueList |-> "", continueNumbering |-> FALSE,
      items |-> items[paragraphs]]

writeNumberedParagraphs(paragraphs, plan) == writeListLevel(paragraphs, 0, plan)

(* The elements of a body or a cell: adjacent paragraphs with one number   *)
(* are one list.  Tables call for the elements of their cells.             *)
RECURSIVE writeBlocks(_, _)
writeBlocks(blocks, plan) ==
  LET first == Head(blocks)
      JoinsFirst(b) == b.kind = "paragraph" /\ b.numberingId = first.numberingId
      n == leadingWhere(blocks, JoinsFirst)
      cell(paragraphs) ==
        [tag |-> "table-cell", repeat |-> 1,
         content |-> IF paragraphs = <<>>
                       THEN <<[tag |-> "p", style |-> NoName, outline |-> 0, content |-> <<>>]>>
                       ELSE writeBlocks(paragraphs, plan)]
      row(cells) == [tag |-> "table-row", repeat |-> 1,
                     cells |-> [i \in DOMAIN cells |-> cell(cells[i])]]
  IN CASE blocks = <<>> -> <<>>
       [] first.kind = "table" ->
            <<[tag |-> "table", style |-> NoName, rows |-> [i \in DOMAIN first.rows |-> row(first.rows[i])]]>>
              \o writeBlocks(Tail(blocks), plan)
       [] first.numberingId = <<>> ->
            <<writeParagraph(first, plan)>> \o writeBlocks(Tail(blocks), plan)
       [] OTHER ->
            <<writeNumberedParagraphs(SubSeq(blocks, 1, n), plan)>>
              \o writeBlocks(SubSeq(blocks, n + 1, Len(blocks)), plan)

makeWritePlan(blocks) == FoldLeft(collectParagraph, EmptyPlan, paragraphsOf(blocks))

(* The file a document that passes validation is written to. *)
writeDocument(blocks) ==
  LET plan == makeWritePlan(blocks)
  IN [styles |-> writtenStyles(plan), body |-> writeBlocks(blocks, plan)]
=============================================================================
