---------------------------- MODULE PdfDocument ----------------------------
(***************************************************************************)
(* Document and DocumentEditor: a PDF as pages of elements, edited in      *)
(* memory, saved, read again, taken apart and merged; and pdf::Editor,     *)
(* which makes some of the same edits on a file.  Every edit is counted    *)
(* in the document's ledger, which has a limit: counting then throws.      *)
(***************************************************************************)
EXTENDS PdfFile

CONSTANTS
  Source,        \* files to start from and to merge with
  Text,          \* texts, field values and metadata values
  Payload,       \* image payloads
  Degrees,       \* rotations asked for
  MaxAuthorship, \* changes that the ledger has room for
  MaxPages       \* pages a document may be given or taken apart into

ASSUME PdfAssumption == MaxAuthorship \in Nat /\ MaxPages \in Nat

VARIABLES
  document, \* the members of Document; the ledger as a count of changes
  thrown    \* the last edit threw; the caller edits no more (history)

vars == <<document, thrown>>

Pages == DOMAIN document.pages

-----------------------------------------------------------------------------
(* The ledger. *)

canRecord(doc) == doc.authorship < MaxAuthorship

(* A change that has been made is counted.  If that throws, it stays.      *)
recordChange(doc) ==
  IF canRecord(doc) THEN [doc EXCEPT !.authorship = @ + 1] ELSE doc

(* Counting is prepared before the change is made.  If it throws, there is *)
(* no change.                                                              *)
prepared(doc, changed) ==
  IF canRecord(doc) THEN recordChange(changed) ELSE doc

Edit(changed) ==
  /\ ~thrown
  /\ document' = changed
  /\ thrown' = ~canRecord(document)

-----------------------------------------------------------------------------
(* Elements and annotations. *)

\* Mutant: ids are made from the number of elements.
CountedId(doc) == 1 + Cardinality({e.id : e \in LiveElements(doc)})

nextElementId(doc) == 1 + Max({0} \cup {e.id : e \in LiveElements(doc)})

nextAnnotationId(doc) == 1 + Max({0} \cup {a.id : a \in Annotations(doc)})

Instruction(op, arg) == [op |-> op, arg |-> arg]

createText(id, text) ==
  Element(id, "text", <<Instruction("BT", <<>>), Instruction("Tj", <<text>>),
                        Instruction("ET", <<>>)>>, NoPayload, 0)

createRectangle(id) ==
  Element(id, "path", <<Instruction("re", <<>>), Instruction("S", <<>>)>>, NoPayload, 0)

createRgb(id, payload) ==
  [Element(id, "image",
           <<Instruction("q", <<>>), Instruction("cm", <<>>),
             Instruction("Do", <<"IiImage", id>>), Instruction("Q", <<>>)>>, NoPayload, 0)
     EXCEPT !.replacement = payload]

createUnknown(id) == Element(id, "unknown", <<Instruction("q", <<>>)>>, NoPayload, 0)

(* addText, addRectangle, addRgbImage and addUnknown.                      *)
newElements(id) ==
  {createText(id, text) : text \in Text} \cup {createRectangle(id), createUnknown(id)}
    \cup {createRgb(id, payload) : payload \in Payload}

appended(doc, i, e) == recordChange([doc EXCEPT !.pages[i].elements = Append(@, e)])

(* Every sequence of elements, on pages and in the contents they draw.     *)
withElements(doc, change(_)) ==
  [doc EXCEPT
     !.pages = [i \in DOMAIN @ |-> [@[i] EXCEPT !.elements = change(@)]],
     !.contents = [f \in DOMAIN @ |-> IF f \in LiveForms(doc) THEN change(@[f]) ELSE @[f]]]

(* find reaches every live element; one id means one element.              *)
updated(doc, id, change(_)) ==
  withElements(doc, LAMBDA elements :
    [k \in 1..Len(elements) |->
       IF elements[k].id = id THEN change(elements[k]) ELSE elements[k]])

textSegments(e) == {n \in 1..Len(e.instructions) : e.instructions[n].op = "Tj"}

replacedText(doc, id, n, text) ==
  recordChange(updated(doc, id, LAMBDA e : [e EXCEPT !.instructions[n].arg = <<text>>]))

replacedImage(doc, id, payload) ==
  recordChange(updated(doc, id, LAMBDA e : [e EXCEPT !.replacement = payload]))

removed(doc, id) ==
  recordChange(withElements(doc, LAMBDA elements :
    SelectSeq(elements, LAMBDA e : e.id # id)))

addedAnnotation(doc, i, contents) ==
  [doc EXCEPT !.pages[i].annotations =
     Append(@, [id |-> nextAnnotationId(doc), contents |-> contents])]

removedAnnotation(doc, id) ==
  recordChange([doc EXCEPT !.pages = [i \in DOMAIN @ |->
    [@[i] EXCEPT !.annotations = SelectSeq(@, LAMBDA a : a.id # id)]]])

-----------------------------------------------------------------------------
(* Rotation, notes, fields and metadata. *)

rotated(doc, selected, degrees) ==
  [doc EXCEPT !.pages = [i \in DOMAIN @ |->
     IF i \in selected THEN [@[i] EXCEPT !.rotation = (@ + degrees) % 360] ELSE @[i]]]

\* Mutant: the pages are turned before the ledger is known to have room.
RotatesFirst(doc, selected, degrees) ==
  IF degrees % 360 = 0 THEN doc ELSE recordChange(rotated(doc, selected, degrees))

rotatePages(doc, selected, degrees) ==
  IF degrees % 360 = 0 THEN doc ELSE prepared(doc, rotated(doc, selected, degrees))

addTextNote(doc, i, contents) == prepared(doc, addedAnnotation(doc, i, contents))

\* Mutant: of several fields of one name the first is taken.
FirstFieldTaken(fields, name) ==
  LET matches == {i \in 1..Len(fields) : fields[i].name = name}
  IN {i \in matches : i = Min(matches) /\ ~fields[i].constrained}

(* The text field of that name, if no other has it and it may be changed,  *)
(* as a set.                                                               *)
editableFields(fields, name) ==
  {i \in 1..Len(fields) :
     /\ fields[i].name = name /\ ~fields[i].constrained
     /\ \A other \in 1..Len(fields) \ {i} : fields[other].name # name}

setTextField(doc, name, value) ==
  LET found == editableFields(doc.formFields, name)
      i == CHOOSE n \in found : TRUE
  IN IF found = {} \/ doc.formFields[i].value = value THEN doc
     ELSE prepared(doc, [doc EXCEPT !.formFields[i].value = value])

(* changes maps keys to sets of at most one value: none removes the key.   *)
withMetadata(metadata, changes) ==
  [key \in (DOMAIN metadata \ DOMAIN changes) \cup {k \in DOMAIN changes : changes[k] # {}} |->
     IF key \in DOMAIN changes THEN CHOOSE value \in changes[key] : TRUE ELSE metadata[key]]

setMetadata(doc, changes) ==
  LET next == withMetadata(doc.metadata, changes)
  IN IF next = doc.metadata THEN doc ELSE prepared(doc, [doc EXCEPT !.metadata = next])

-----------------------------------------------------------------------------
(* pdf::Document and pdf::Editor, which work on a file. *)

(* QPDF gives a copied field a name of its own.                            *)
uniqueNames(fields) ==
  LET name[i \in 1..Len(fields)] ==
        LET taken == {name[j] : j \in 1..i - 1}
            given == fields[i].name
        IN IF given \notin taken THEN given
           ELSE Append(given, Min({k \in 1..i : Append(given, k) \notin taken}))
  IN [i \in 1..Len(fields) |-> [fields[i] EXCEPT !.name = name[i]]]

(* The pages at the given positions, repetitions included, in a file that  *)
(* has nothing of the document but them.                                   *)
copyPages(file, selected) ==
  LET fieldsOf(k) ==
        LET own == SelectSeq(file.fields, LAMBDA field : field.page = selected[k])
        IN [n \in 1..Len(own) |-> [own[n] EXCEPT !.page = k]]
  IN [file EXCEPT
        !.pages = [k \in 1..Len(selected) |-> file.pages[selected[k]]],
        !.fields = uniqueNames(FlattenSeq([k \in 1..Len(selected) |-> fieldsOf(k)])),
        !.info = [key \in {} |-> 0], !.ledger = 0]

(* The objects of the second file get numbers above those of the first.    *)
joined(first, second) ==
  LET f == Max({0} \cup DOMAIN first.forms)
      d == Max({0} \cup DOMAIN first.dicts)
      moved(dict) ==
        [name \in DOMAIN dict |->
           IF dict[name].kind = "image" THEN dict[name] ELSE Form(dict[name].form + f)]
      onto(owner) == [owner EXCEPT !.dict = @ + d]
  IN [first EXCEPT
        !.pages = @ \o [i \in 1..Len(second.pages) |-> onto(second.pages[i])],
        !.forms = @ @@ [n \in {m + f : m \in DOMAIN second.forms} |-> onto(second.forms[n - f])],
        !.dicts = @ @@ [n \in {m + d : m \in DOMAIN second.dicts} |-> moved(second.dicts[n - d])],
        !.fields = uniqueNames(@ \o [i \in 1..Len(second.fields) |->
                     [second.fields[i] EXCEPT !.page = @ + Len(first.pages)]])]

nativeRotate(file, selected, degrees) ==
  [file EXCEPT !.pages = [i \in DOMAIN @ |->
     IF i \in selected THEN [@[i] EXCEPT !.rotation = (@ + (degrees % 360)) % 360] ELSE @[i]]]

nativeNote(file, i, contents) == [file EXCEPT !.pages[i].notes = Append(@, contents)]

(* All fields of that name are collected; a single one is looked into.     *)
nativeField(file, name, value) ==
  LET matches == {i \in 1..Len(file.fields) : file.fields[i].name = name}
      front == Min(matches)
  IN IF Cardinality(matches) # 1 \/ file.fields[front].constrained THEN file
     ELSE [file EXCEPT !.fields[front].value = value]

nativeMetadata(file, changes) == [file EXCEPT !.info = withMetadata(@, changes)]

-----------------------------------------------------------------------------
newDocument == [readBytes(emptyPDF(0)) EXCEPT !.origin = {}]

Init ==
  /\ document \in {readBytes(file) : file \in Source} \cup {newDocument}
  /\ thrown = FALSE

AddPage ==
  /\ Len(document.pages) < MaxPages
  /\ Edit(recordChange([document EXCEPT !.pages =
            Append(@, [elements |-> <<>>, rotation |-> 0, source |-> 0, annotations |-> <<>>])]))

AddElement ==
  \E i \in Pages, e \in newElements(nextElementId(document)) : Edit(appended(document, i, e))

ReplaceText ==
  \E e \in LiveElements(document), text \in Text :
    \E n \in textSegments(e) :
      /\ e.kind = "text" /\ e.instructions[n].arg # <<text>>
      /\ Edit(replacedText(document, e.id, n, text))

ReplaceImage ==
  \E e \in LiveElements(document), payload \in Payload :
    /\ e.kind = "image" /\ e.replacement # payload
    /\ Edit(replacedImage(document, e.id, payload))

RemoveElement ==
  \E e \in LiveElements(document) : Edit(removed(document, e.id))

AddAnnotation ==
  \E i \in Pages, contents \in Text :
    Edit(recordChange(addedAnnotation(document, i, contents)))

RemoveAnnotation ==
  \E a \in Annotations(document) : Edit(removedAnnotation(document, a.id))

RotatePages ==
  \E selected \in SUBSET Pages \ {{}}, degrees \in Degrees :
    /\ degrees % 360 # 0
    /\ Edit(rotatePages(document, selected, degrees))

AddTextNote ==
  \E i \in Pages, contents \in Text : Edit(addTextNote(document, i, contents))

SetTextField ==
  \E field \in Range(document.formFields), value \in Text :
    /\ \E i \in editableFields(document.formFields, field.name) :
         document.formFields[i].value # value
    /\ Edit(setTextField(document, field.name, value))

(* setMetadata, removeMetadata and setMetadataBatch. *)
Changes == UNION {[keys -> {{}} \cup {{text} : text \in Text}] : keys \in SUBSET InfoKeys \ {{}}}

SetMetadata ==
  \E changes \in Changes :
    /\ withMetadata(document.metadata, changes) # document.metadata
    /\ Edit(setMetadata(document, changes))

(* The document is saved, and the file read in its place.                  *)
Reopen ==
  /\ canWrite(document)
  /\ document' = readBytes(writeBytes(document))
  /\ UNCHANGED thrown

(* The caller goes on with the extracted or merged document, which takes   *)
(* over the ledger and counts one change.  If counting throws there is no  *)
(* new document.                                                           *)
Derive(file) ==
  /\ canRecord(document)
  /\ Edit(recordChange([readBytes(file) EXCEPT !.authorship = document.authorship]))

Selections(n) == {s \in BoundedSeq(1..n, MaxPages) : s # <<>>}

ExtractPages ==
  \E selected \in Selections(Len(document.pages)) :
    /\ canWrite(document)
    /\ Derive(copyPages(writeBytes(document), selected))

MergePages ==
  \E other \in Source :
    /\ canWrite(document)
    /\ document.pages # <<>> /\ Len(document.pages) + Len(other.pages) <= MaxPages
    /\ Derive(joined(copyPages(writeBytes(document), [i \in Pages |-> i]),
                     copyPages(writeBytes(readBytes(other)), [i \in DOMAIN other.pages |-> i])))

Next ==
  \/ AddPage \/ AddElement \/ ReplaceText \/ ReplaceImage \/ RemoveElement
  \/ AddAnnotation \/ RemoveAnnotation \/ RotatePages \/ AddTextNote
  \/ SetTextField \/ SetMetadata \/ Reopen \/ ExtractPages \/ MergePages

Spec == Init /\ [][Next]_vars

-----------------------------------------------------------------------------
(* The document passes the validator, whatever was added, drawn twice,     *)
(* removed, merged or read again; and it changes only within its bounds.   *)
TypeOK ==
  /\ validate(document)
  /\ document.authorship \in 0..MaxAuthorship
  /\ thrown \in BOOLEAN
  /\ LiveForms(document) \subseteq DOMAIN document.contents
  /\ \A e \in LiveElements(document) : e.kind # "image" => e.replacement = NoPayload

(* A file written from the document shows what the document says, although *)
(* the writer only changes the file the document was read from: resources  *)
(* that pages and forms share are added to, and none is drawn in place of  *)
(* another.                                                                *)
WrittenAsModelled ==
  canWrite(document) => Described(writeBytes(document)) = Modelled(document)

(* Nothing changes without being counted in the ledger, saving and reading *)
(* again included; except that elements and annotations stay changed when  *)
(* counting has thrown, though no note of addTextNote does.                *)
UncountedIsUnchanged ==
  [][LET before == Modelled(document)
         after == Modelled(document')
         rotations(view) == [i \in DOMAIN view.pages |-> view.pages[i].rotation]
     IN document'.authorship = document.authorship =>
          /\ after.fields = before.fields /\ after.info = before.info
          /\ \/ after.pages = before.pages
             \/ /\ thrown' /\ ~AddTextNote
                /\ \A i \in Pages : rotations(after)[i] = rotations(before)[i]]_vars

(* DocumentEditor and pdf::Editor make the same edit: one on the document, *)
(* which is then written, the other on the file that was written before.   *)
EditorsAgree ==
  canWrite(document) /\ canRecord(document) =>
    LET file == writeBytes(document)
        agree(doc, native) == Described(writeBytes(doc)) = Described(native)
    IN /\ \A selected \in SUBSET Pages, degrees \in Degrees :
            agree(rotatePages(document, selected, degrees), nativeRotate(file, selected, degrees))
       /\ \A i \in Pages, text \in Text :
            agree(addTextNote(document, i, text), nativeNote(file, i, text))
       /\ \A field \in Range(document.formFields), text \in Text :
            agree(setTextField(document, field.name, text), nativeField(file, field.name, text))
       /\ \A changes \in Changes :
            agree(setMetadata(document, changes), nativeMetadata(file, changes))
=============================================================================
