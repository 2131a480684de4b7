------------------------------- MODULE OdfText -------------------------------
(***************************************************************************)
(* OdfTextCodec.cpp, the part about paragraphs: their styles, the runs and *)
(* white space of their text, how the writer lays them out and what the    *)
(* reader makes of the paragraphs of any file.                             *)
(*                                                                         *)
(* The style names of a file are style ids.  XML is the sequence of the    *)
(* elements that an element holds; XmlReader and XmlWriter are exact about *)
(* it.                                                                     *)
(***************************************************************************)
EXTENDS WordModel

CONSTANTS
  MaximumNesting, \* maximumSemanticNestingDepth, 128 in the code
  SixCharacters   \* the colours of six characters, hexadecimal or not

BaseName == <<"IGDBase", -1>>

StandardPage == "IGDStandard"

Space == {" ", "\t", "\n", "\r"}

NoAttributes == [a \in {} |-> a]

-----------------------------------------------------------------------------
(* The budget of a reader.  Failed stands for the errors that end reading. *)

(* The state of a reader that may still make so many model objects and     *)
(* characters, and the lists it has met at top level: the numbers of those *)
(* with an id, the number and style of the last one, and the next number.  *)
ReadContext(items, characters) ==
  [items |-> 0, maximumItems |-> items,
   characters |-> 0, maximumCharacters |-> characters, failed |-> FALSE,
   listIds |-> NoAttributes, lastList |-> <<>>, nextList |-> 1]

fail(context) == [context EXCEPT !.failed = TRUE]

consumeItems(context, count) ==
  IF count > context.maximumItems - context.items THEN fail(context)
  ELSE [context EXCEPT !.items = @ + count]

consumeCharacters(context, count) ==
  IF count > context.maximumCharacters - context.characters THEN fail(context)
  ELSE [context EXCEPT !.characters = @ + count]

allowNesting(context, depth) ==
  IF depth <= MaximumNesting THEN context ELSE fail(context)

-----------------------------------------------------------------------------
(* Styles: a style has a parent and the attributes it sets; a file has     *)
(* styles of paragraphs and of text, by name.                              *)

NoStyle == [attributes |-> NoAttributes, parent |-> NoName, tooDeep |-> FALSE]

(* The text properties that are read: a size that is not negative, and a   *)
(* colour of six characters, which is turned into capitals.                *)
parseTextProperties(attributes) ==
  [a \in {b \in DOMAIN attributes :
             /\ b = "size" => attributes[b] >= 0
             /\ b = "color" => attributes[b] \in SixCharacters} |->
     IF a = "color" THEN UpperCase[attributes[a]] ELSE attributes[a]]

(* The attributes of a style over those it inherits.  A style met again on *)
(* the way up adds nothing, and too long a way makes the file unreadable.  *)
RECURSIVE resolveAbove(_, _, _)
resolveAbove(styles, name, resolving) ==
  CASE Cardinality(resolving) > MaximumNesting -> [NoStyle EXCEPT !.tooDeep = TRUE]
    [] name \notin DOMAIN styles \/ name \in resolving -> NoStyle
    [] OTHER ->
         LET style == styles[name]
             inherited == IF style.parent = NoName THEN NoStyle
                          ELSE resolveAbove(styles, style.parent, resolving \cup {name})
         IN [attributes |-> parseTextProperties(style.attributes) @@ inherited.attributes,
             parent |-> style.parent, tooDeep |-> inherited.tooDeep]

resolveStyle(styles, name) == resolveAbove(styles, name, {})

attributeOf(style, attribute, default) ==
  IF attribute \in DOMAIN style.attributes THEN style.attributes[attribute] ELSE default

applyStyle(style, look) ==
  [a \in DOMAIN look |-> attributeOf(style, a, look[a])]

(* The prefix and at least one digit. *)
generatedStyleName(name, prefix) == name[1] = prefix /\ name[2] >= 0

headingLevel(name) ==
  IF name[1] = "Heading" /\ name[2] \in 1..9 THEN name[2] ELSE 0

-----------------------------------------------------------------------------
(* Reading the text of a paragraph.  The state is the runs so far, whether *)
(* the next text starts a run, and OdfWhitespaceState: whether anything    *)
(* was put out, and whether a space is due before the next of it.          *)

appendRunText(s, text, look) ==
  LET newRun == s.force \/ s.runs = <<>> \/ Last(s.runs).look # look
      counted == consumeCharacters(s.context, Len(text))
      context == IF counted.failed \/ ~newRun THEN counted ELSE consumeItems(counted, 1)
  IN CASE text = <<>> -> s
       [] context.failed -> [s EXCEPT !.context = context]
       [] OTHER ->
            [s EXCEPT !.context = context, !.force = FALSE,
               !.runs = IF newRun THEN Append(@, [text |-> text, look |-> look])
                        ELSE [@ EXCEPT ![Len(@)].text = @ \o text]]

consumePendingOdfSpace(s) == IF s.pending /\ s.output THEN <<" ">> ELSE <<>>

(* The characters with white space collapsed, as far as it precedes one of *)
(* them; and the white space state after them.                             *)
normalizedOdfCharacters(value, s) ==
  FoldLeft(LAMBDA n, character :
             IF character \in Space THEN [n EXCEPT !.pending = n.output]
             ELSE [text |-> n.text \o consumePendingOdfSpace(n) \o <<character>>,
                   output |-> TRUE, pending |-> FALSE],
           [text |-> <<>>, output |-> s.output, pending |-> s.pending], value)

readCharacters(s, value, look) ==
  LET normal == normalizedOdfCharacters(value, s)
  IN appendRunText([s EXCEPT !.output = normal.output, !.pending = normal.pending],
                   normal.text, look)

(* White space that is marked up is put out as it is. *)
readExplicit(s, text, look) ==
  [appendRunText(s, consumePendingOdfSpace(s) \o text, look)
     EXCEPT !.output = TRUE, !.pending = FALSE]

(* text:s with its count: none is one, and no other than 1 to the limit.   *)
readSpaces(s, count, look) ==
  IF count \notin 1..s.context.maximumItems THEN [s EXCEPT !.context = fail(@)]
  ELSE readExplicit(s, [i \in 1..count |-> " "], look)

(* A span is runs of its own; other elements are read as if their content  *)
(* stood in their place, or, notes and drawings, not at all.               *)
RECURSIVE parseInlineElement(_, _, _, _, _)

readSpan(s, content, look, textStyles, depth, style) ==
  [parseInlineElement(
     [s EXCEPT !.force = TRUE, !.context = IF style.tooDeep THEN fail(@) ELSE @],
     content, applyStyle(style, look), textStyles, depth + 1)
     EXCEPT !.force = TRUE]

readInline(s, e, look, textStyles, depth) ==
  CASE s.context.failed -> s
    [] e.tag = "characters" -> readCharacters(s, e.text, look)
    [] e.tag = "s" -> readSpaces(s, e.count, look)
    [] e.tag = "tab" -> readExplicit(s, <<"\t">>, look)
    [] e.tag = "line-break" -> readExplicit(s, <<"\n">>, look)
    [] e.tag = "note" -> s
    [] e.tag = "span" ->
         readSpan(s, e.content, look, textStyles, depth, resolveStyle(textStyles, e.style))
    [] OTHER -> parseInlineElement(s, e.content, look, textStyles, depth + 1)

parseInlineElement(entered, content, look, textStyles, depth) ==
  FoldLeft(LAMBDA s, e : readInline(s, e, look, textStyles, depth),
           [entered EXCEPT !.context = IF @.failed THEN @ ELSE allowNesting(@, depth)],
           content)

(* The style id a paragraph gets: a name the writer generates stands for   *)
(* the style it inherits from, and a heading has at least the style of its *)
(* level.                                                                  *)
readStyleId(e, style) ==
  LET id == CASE generatedStyleName(e.style, "IGDP") -> style.parent
              [] e.style = BaseName -> NoName
              [] OTHER -> e.style
  IN IF e.tag = "h" /\ id = NoName THEN <<"Heading", Clamp(e.outline, 1, 9)>> ELSE id

(* A text:p or text:h and the context after it. *)
readParagraph(e, style, textStyles, context) ==
  LET start == [runs |-> <<>>, force |-> TRUE, output |-> FALSE, pending |-> FALSE,
                context |-> IF style.tooDeep THEN fail(context) ELSE context]
      paragraph(read) ==
        [paragraph |->
           [EmptyParagraph EXCEPT
              !.style = readStyleId(e, style), !.runs = read.runs,
              !.alignment = attributeOf(style, "alignment", "automatic")],
         context |-> read.context]
  IN paragraph(parseInlineElement(start, e.content, applyStyle(style, PlainLook),
                                  textStyles, 0))

parseParagraph(e, styles, context) ==
  readParagraph(e, resolveStyle(styles.paragraph, e.style), styles.text,
                consumeItems(context, 1))

-----------------------------------------------------------------------------
(* Writing a paragraph, with the styles of the whole document planned.     *)

hasRunProperties(look) == look # PlainLook

EmptyPlan == [looks |-> <<>>, aligned |-> <<>>, named |-> {}]

(* seq with e at its end, unless e is in it. *)
withKey(seq, e) == IF e \in ToSet(seq) THEN seq ELSE Append(seq, e)

position(seq, e) == CHOOSE i \in DOMAIN seq : seq[i] = e

paragraphStyleKey(p) == <<p.style, p.alignment>>

(* What a paragraph adds to the plan: its style, its aligned style and the *)
(* looks of its runs, each once and in the order they occur.               *)
collectParagraph(plan, p) ==
  [looks |-> FoldLeft(LAMBDA looks, run : IF hasRunProperties(run.look)
                                          THEN withKey(looks, run.look) ELSE looks,
                      plan.looks, p.runs),
   aligned |-> IF p.alignment = "automatic" THEN plan.aligned
               ELSE withKey(plan.aligned, paragraphStyleKey(p)),
   named |-> plan.named \cup ({p.style} \ {NoName})]

paragraphStyleName(p, plan) ==
  CASE p.alignment # "automatic" ->
         <<"IGDP", position(plan.aligned, paragraphStyleKey(p))>>
    [] p.style = NoName -> BaseName
    [] OTHER -> p.style

runStyleName(run, plan) ==
  IF hasRunProperties(run.look) THEN <<"IGDT", position(plan.looks, run.look)>>
  ELSE NoName

(* The named styles and the styles of aligned paragraphs, which inherit    *)
(* from them and come later in a file.                                     *)
writtenParagraphStyles(plan) ==
  [name \in {<<"IGDP", i>> : i \in DOMAIN plan.aligned} |->
     [parent |-> plan.aligned[name[2]][1],
      attributes |-> ("alignment" :> plan.aligned[name[2]][2])
                       @@ ("master" :> StandardPage)]]
  @@ [name \in {BaseName} \cup plan.named |->
        [parent |-> NoName, attributes |-> "master" :> StandardPage]]

(* A run style sets the properties that are not as in plain text. *)
writeRunStyle(look) ==
  [parent |-> NoName,
   attributes |-> [a \in {b \in DOMAIN look : look[b] # PlainLook[b]} |-> look[a]]]

writtenStyles(plan) ==
  [paragraph |-> writtenParagraphStyles(plan),
   text |-> [name \in {<<"IGDT", i>> : i \in DOMAIN plan.looks} |->
               writeRunStyle(plan.looks[name[2]])],
   table |-> NoAttributes]

(* How many characters of text, from the first on, are in the set. *)
leading(text, set) ==
  Max({n \in 0..Len(text) : \A i \in 1..n : text[i] \in set})

\* Mutant: each of a carriage return and its line feed is a break.
RECURSIVE BreakPerCharacter(_)
BreakPerCharacter(text) ==
  LET spaces == leading(text, {" "})
      plain == leading(text, {c \in ToSet(text) : c \notin Space})
      rest(n) == BreakPerCharacter(SubSeq(text, n + 1, Len(text)))
  IN CASE text = <<>> -> <<>>
       [] spaces > 0 -> <<[tag |-> "s", count |-> spaces]>> \o rest(spaces)
       [] Head(text) = "\t" -> <<[tag |-> "tab"]>> \o rest(1)
       [] Head(text) \in {"\n", "\r"} -> <<[tag |-> "line-break"]>> \o rest(1)
       [] OTHER ->
            <<[tag |-> "characters", text |-> SubSeq(text, 1, plain)]>> \o rest(plain)

(* Spaces, tabs and breaks are elements; a carriage return and the line    *)
(* feed after it are one break.                                            *)
RECURSIVE writeOdfText(_)
writeOdfText(text) ==
  LET spaces == leading(text, {" "})
      plain == leading(text, {c \in ToSet(text) : c \notin Space})
      rest(n) == writeOdfText(SubSeq(text, n + 1, Len(text)))
  IN CASE text = <<>> -> <<>>
       [] spaces > 0 -> <<[tag |-> "s", count |-> spaces]>> \o rest(spaces)
       [] Head(text) = "\t" -> <<[tag |-> "tab"]>> \o rest(1)
       [] IsPrefix(<<"\r", "\n">>, text) -> <<[tag |-> "line-break"]>> \o rest(2)
       [] Head(text) \in {"\n", "\r"} -> <<[tag |-> "line-break"]>> \o rest(1)
       [] OTHER ->
            <<[tag |-> "characters", text |-> SubSeq(text, 1, plain)]>> \o rest(plain)

writeParagraph(p, plan) ==
  LET level == headingLevel(p.style)
      span(run) == [tag |-> "span", style |-> runStyleName(run, plan),
                    content |-> writeOdfText(run.text)]
  IN [tag |-> IF level > 0 THEN "h" ELSE "p", style |-> paragraphStyleName(p, plan),
      outline |-> level, content |-> [i \in DOMAIN p.runs |-> span(p.runs[i])]]
=============================================================================
