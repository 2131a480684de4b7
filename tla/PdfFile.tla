------------------------------ MODULE PdfFile ------------------------------
(***************************************************************************)
(* PDF files as the reader and the writer of iiGeneralDocument see them,   *)
(* and the two conversions between a file and a Document.                  *)
(*                                                                         *)
(* A file has pages and form XObjects, each with a content stream and an   *)
(* /XObject dictionary, which several of them may share.  Dictionaries     *)
(* and forms are indirect objects and have numbers; a form that draws      *)
(* others has a number above theirs, so that a form found to draw itself   *)
(* is the one that draws no lower number.  An instruction is an operator   *)
(* and an argument; fonts, geometry and appearances are left out.          *)
(***************************************************************************)
EXTENDS Integers, SequencesExt

(* Document-information keys that are read and written.  The dump of the   *)
(* ledger has a key of its own, which the field ledger stands for.         *)
CONSTANT InfoKeys

-----------------------------------------------------------------------------
(* Resources. *)

NoPayload == "none"
Image(payload) == [kind |-> "image", payload |-> payload, form |-> 0]
Form(number) == [kind |-> "formXObject", payload |-> NoPayload, form |-> number]

formsIn(dict) == {dict[name].form : name \in DOMAIN dict} \ {0}

(* The forms that reading a dictionary reads. *)
formsUnder(file, number) ==
  LET nested[f \in DOMAIN file.forms] ==
        {f} \cup UNION {nested[g] : g \in {h \in formsIn(file.dicts[file.forms[f].dict]) : h < f}}
  IN UNION {nested[f] : f \in formsIn(file.dicts[number])}

Ascending(numbers) ==
  LET top == Max({0} \cup numbers)
  IN SelectSeq([n \in 1..top |-> n], LAMBDA n : n \in numbers)

-----------------------------------------------------------------------------
(* classify: a content stream falls into elements. *)

Closer == [BT |-> "ET", BI |-> "data", re |-> "S"]

(* q cm Do Q draws one image or form. *)
isPlacement(stream, i, dict) ==
  /\ i + 3 <= Len(stream)
  /\ [k \in 1..4 |-> stream[i + k - 1].op] = <<"q", "cm", "Do", "Q">>
  /\ stream[i + 2].arg \in DOMAIN dict

groupEnd(stream, i, dict) ==
  IF stream[i].op \in DOMAIN Closer
    THEN Min({Len(stream)} \cup
             {j \in i + 1..Len(stream) : stream[j].op = Closer[stream[i].op]})
    ELSE IF isPlacement(stream, i, dict) THEN i + 3 ELSE i

groups(stream, dict) ==
  LET from[i \in 1..Len(stream) + 1] ==
        IF i > Len(stream) THEN <<>>
        ELSE LET end == groupEnd(stream, i, dict)
             IN <<SubSeq(stream, i, end)>> \o from[end + 1]
  IN from[1]

Plain == [BT |-> "text", BI |-> "inlineImage", re |-> "path"]

(* What the group draws, as a set of at most one. *)
drawn(group, dict) ==
  IF group[1].op \in DOMAIN Plain THEN {}
  ELSE {dict[group[k].arg] : k \in {n \in 1..Len(group) :
          group[n].op = "Do" /\ group[n].arg \in DOMAIN dict}}

(* An element.  image is what an image element read from the file, form    *)
(* the content of a form element, 0 if there is none.                      *)
Element(id, kind, instructions, image, form) ==
  [id |-> id, kind |-> kind, instructions |-> instructions, image |-> image,
   form |-> form, replacement |-> NoPayload]

elementOf(id, group, dict, readable) ==
  LET target == drawn(group, dict)
  IN IF target = {}
       THEN Element(id, IF group[1].op \in DOMAIN Plain THEN Plain[group[1].op]
                        ELSE "unknown", group, NoPayload, 0)
       ELSE LET t == CHOOSE d \in target : TRUE
            IN Element(id, t.kind, group, t.payload,
                       IF t.form \in readable THEN t.form ELSE 0)

-----------------------------------------------------------------------------
(* readBytes.  Ids count up through the document; a form is read once,     *)
(* before the first page or form that names it.                            *)

readBytes(file) ==
  LET n == Len(file.pages)
      below(i) == UNION {formsUnder(file, file.pages[j].dict) : j \in 1..i}
      order == FlattenSeq([i \in 1..n |->
                 Ascending(below(i) \ below(i - 1)) \o <<0 - i>>])
      \* A form by its number, a page by its negated index.
      owner(c) == IF c > 0 THEN file.forms[c] ELSE file.pages[0 - c]
      parts(c) == groups(owner(c).stream, file.dicts[owner(c).dict])
      first[k \in 1..Len(order) + 1] ==
        IF k = 1 THEN 1 ELSE first[k - 1] + Len(parts(order[k - 1]))
      elements(k) ==
        LET c == order[k]
            readable == IF c > 0 THEN 1..c - 1 ELSE DOMAIN file.forms
        IN [m \in 1..Len(parts(c)) |->
              elementOf(first[k] + m - 1, parts(c)[m], file.dicts[owner(c).dict], readable)]
      of(c) == elements(CHOOSE k \in 1..Len(order) : order[k] = c)
      noteId(i) == FoldLeft(LAMBDA total, j : total + Len(file.pages[j].notes), 0,
                            [j \in 1..i - 1 |-> j])
  IN [pages |-> [i \in 1..n |->
        [elements |-> of(0 - i), rotation |-> file.pages[i].rotation, source |-> i,
         annotations |-> [m \in 1..Len(file.pages[i].notes) |->
           [id |-> noteId(i) + m, contents |-> file.pages[i].notes[m]]]]],
      contents |-> [f \in below(n) |-> of(f)],
      formFields |-> file.fields,
      metadata |-> [key \in DOMAIN file.info \cap InfoKeys |-> file.info[key]],
      authorship |-> file.ledger,
      origin |-> {file}]

-----------------------------------------------------------------------------
(* The elements of a Document. *)

FormsOf(doc, elements) ==
  LET nested[f \in DOMAIN doc.contents] ==
        {f} \cup UNION {nested[g] : g \in {e.form : e \in Range(doc.contents[f])} \ {0}}
  IN UNION {nested[f] : f \in {e.form : e \in Range(elements)} \ {0}}

(* The forms that hang on some page, and everything that can be found.     *)
LiveForms(doc) ==
  UNION {FormsOf(doc, doc.pages[i].elements) : i \in DOMAIN doc.pages}

LiveElements(doc) ==
  UNION {Range(doc.pages[i].elements) : i \in DOMAIN doc.pages}
    \cup UNION {Range(doc.contents[f]) : f \in LiveForms(doc)}

Annotations(doc) == UNION {Range(doc.pages[i].annotations) : i \in DOMAIN doc.pages}

SumOver(S, op(_)) == FoldLeft(LAMBDA total, n : total + op(n), 0, S)

(* Ids are positive and no two objects share one. *)
validate(doc) ==
  LET pages == [i \in 1..Len(doc.pages) |-> i]
      elements == SumOver(pages, LAMBDA i : Len(doc.pages[i].elements))
                    + SumOver(Ascending(LiveForms(doc)), LAMBDA f : Len(doc.contents[f]))
      annotations == SumOver(pages, LAMBDA i : Len(doc.pages[i].annotations))
      elementIds == {e.id : e \in LiveElements(doc)}
      annotationIds == {a.id : a \in Annotations(doc)}
  IN /\ Cardinality(elementIds) = elements /\ 0 \notin elementIds
     /\ Cardinality(annotationIds) = annotations /\ 0 \notin annotationIds
     /\ \A i \in DOMAIN doc.pages : doc.pages[i].rotation % 90 = 0

-----------------------------------------------------------------------------
(* writeBytes. *)

drawName(e) ==
  e.instructions[CHOOSE k \in 1..Len(e.instructions) : e.instructions[k].op = "Do"].arg

Replaced(elements) == {e \in Range(elements) : e.replacement # NoPayload}

\* Mutant: a name that is in use is used again.
NameOnce(dict, e, forceNew) ==
  IF forceNew \/ drawName(e) \in DOMAIN dict THEN <<"IiEdited", e.id>> ELSE drawName(e)

(* The name under which a replacement is installed.  Names made for        *)
(* different ids never meet, so it does not matter which comes first.      *)
uniqueResourceName(dict, e, forceNew) ==
  LET base == IF forceNew \/ drawName(e) \in DOMAIN dict
                THEN <<"IiEdited", e.id>> ELSE drawName(e)
      suffixes == {k \in 1..Cardinality(DOMAIN dict) : Append(base, k) \notin DOMAIN dict}
  IN IF base \notin DOMAIN dict THEN base ELSE Append(base, Min(suffixes))

(* The names and payloads that the replaced images of a container add.     *)
installImages(dict, elements, forceNew) ==
  {[name |-> uniqueResourceName(dict, e, forceNew), payload |-> e.replacement] :
     e \in Replaced(elements)}

serializeElements(elements, dict, forceNew) ==
  FlattenSeq([k \in 1..Len(elements) |->
    LET e == elements[k]
    IN IF e.replacement = NoPayload THEN e.instructions
       ELSE [n \in 1..Len(e.instructions) |->
               IF e.instructions[n].op = "Do"
                 THEN [e.instructions[n] EXCEPT !.arg = uniqueResourceName(dict, e, forceNew)]
                 ELSE e.instructions[n]]])

(* A new file has an empty dictionary for every page. *)
emptyPDF(n) ==
  [pages |-> [i \in 1..n |-> [stream |-> <<>>, dict |-> i, notes |-> <<>>, rotation |-> 0]],
   forms |-> [f \in {} |-> 0], dicts |-> [i \in 1..n |-> [name \in {} |-> 0]],
   fields |-> <<>>, info |-> [key \in {} |-> 0], ledger |-> 0]

(* The writer starts from the bytes the document was read from. *)
target(doc) ==
  IF doc.origin = {} THEN emptyPDF(Len(doc.pages)) ELSE CHOOSE file \in doc.origin : TRUE

canWrite(doc) ==
  /\ validate(doc)
  /\ doc.origin # {} =>
       /\ Len(target(doc).pages) = Len(doc.pages)
       /\ \A i \in DOMAIN doc.pages : doc.pages[i].source = i

syncMetadata(info, metadata) ==
  LET kept == DOMAIN info \ InfoKeys
  IN [key \in kept \cup (DOMAIN metadata \cap InfoKeys) |->
        IF key \in kept THEN info[key] ELSE metadata[key]]

syncFormFields(fields, doc) ==
  [i \in 1..Len(fields) |-> [fields[i] EXCEPT !.value = doc.formFields[i].value]]

syncPage(doc, i) ==
  LET page == target(doc).pages[i]
      dict == target(doc).dicts[page.dict]
      annotations == doc.pages[i].annotations
  IN [page EXCEPT
        !.stream = serializeElements(doc.pages[i].elements, dict, doc.origin # {}),
        !.rotation = doc.pages[i].rotation,
        !.notes = [m \in 1..Len(annotations) |-> annotations[m].contents]]

(* Only forms that hang on a page are reached.                             *)
syncFormContents(doc) ==
  LET forms == target(doc).forms
  IN [f \in DOMAIN forms |->
        IF f \notin LiveForms(doc) THEN forms[f]
        ELSE [forms[f] EXCEPT !.stream =
                serializeElements(doc.contents[f], target(doc).dicts[forms[f].dict], TRUE)]]

(* The images that every page and form that uses a dictionary adds to it.  *)
installedIn(doc, number) ==
  LET file == target(doc)
      users == {doc.pages[i].elements : i \in {j \in DOMAIN doc.pages : file.pages[j].dict = number}}
                 \cup {doc.contents[f] : f \in {g \in LiveForms(doc) : file.forms[g].dict = number}}
  IN UNION {installImages(file.dicts[number], elements, doc.origin # {}) : elements \in users}

withImages(dict, images) ==
  [name \in DOMAIN dict \cup {image.name : image \in images} |->
     IF \E image \in images : image.name = name
       THEN Image((CHOOSE image \in images : image.name = name).payload)
       ELSE dict[name]]

writeBytes(doc) ==
  LET file == target(doc)
  IN [pages |-> [i \in 1..Len(doc.pages) |-> syncPage(doc, i)],
      forms |-> syncFormContents(doc),
      dicts |-> [d \in DOMAIN file.dicts |-> withImages(file.dicts[d], installedIn(doc, d))],
      fields |-> syncFormFields(file.fields, doc),
      info |-> syncMetadata(file.info, doc.metadata),
      ledger |-> doc.authorship]

-----------------------------------------------------------------------------
(* What a reader of the file sees: streams with every Do resolved.         *)

Resolved(instruction, dict, readable, form(_)) ==
  IF instruction.op # "Do" \/ instruction.arg \notin DOMAIN dict THEN <<instruction>>
  ELSE LET t == dict[instruction.arg]
       IN IF t.kind = "image" THEN <<[op |-> "image", arg |-> <<t.payload>>]>>
          ELSE IF t.form \in readable THEN form(t.form) ELSE <<instruction>>

PageShows(file, i) ==
  LET shows(stream, dict, readable, form(_)) ==
        FlattenSeq([k \in 1..Len(stream) |-> Resolved(stream[k], dict, readable, form)])
      formShows[f \in DOMAIN file.forms] ==
        shows(file.forms[f].stream, file.dicts[file.forms[f].dict], 1..f - 1,
              LAMBDA g : formShows[g])
  IN shows(file.pages[i].stream, file.dicts[file.pages[i].dict], DOMAIN file.forms,
           LAMBDA g : formShows[g])

Described(file) ==
  [pages |-> [i \in 1..Len(file.pages) |->
     [shows |-> PageShows(file, i), rotation |-> file.pages[i].rotation,
      notes |-> file.pages[i].notes]],
   fields |-> file.fields,
   info |-> [key \in DOMAIN file.info \cap InfoKeys |-> file.info[key]]]

(* What a document says that a reader of its file will see. *)
Modelled(doc) ==
  LET payload(e) == IF e.replacement = NoPayload THEN e.image ELSE e.replacement
      shown(e, instruction, form(_)) ==
        IF instruction.op = "Do" /\ e.kind = "image"
          THEN <<[op |-> "image", arg |-> <<payload(e)>>]>>
        ELSE IF instruction.op = "Do" /\ e.form # 0 THEN form(e.form)
        ELSE <<instruction>>
      shows(elements, form(_)) ==
        FlattenSeq([k \in 1..Len(elements) |->
          FlattenSeq([n \in 1..Len(elements[k].instructions) |->
            shown(elements[k], elements[k].instructions[n], form)])])
      formShows[f \in DOMAIN doc.contents] ==
        shows(doc.contents[f], LAMBDA g : formShows[g])
  IN [pages |-> [i \in 1..Len(doc.pages) |->
        [shows |-> shows(doc.pages[i].elements, LAMBDA g : formShows[g]),
         rotation |-> doc.pages[i].rotation,
         notes |-> [m \in 1..Len(doc.pages[i].annotations) |->
                      doc.pages[i].annotations[m].contents]]],
      fields |-> doc.formFields,
      info |-> [key \in DOMAIN doc.metadata \cap InfoKeys |-> doc.metadata[key]]]
=============================================================================
