----------------------------- MODULE WordDocument -----------------------------
(***************************************************************************)
(* A WordDocument in use: its blocks, metadata and authorship ledger,      *)
(* changed through calls that count, through direct access and through     *)
(* edits on a draft; and its files, OpenDocument and DOCX.                 *)
(*                                                                         *)
(* Counting a change throws when the ledger has no room for it.            *)
(***************************************************************************)
EXTENDS WordModel, WordMetadata

CONSTANTS
  MaximumNesting, SixCharacters, \* see OdfText
  MaximumItems,      \* maximumOdfModelItems and
  MaximumCharacters, \* maximumOdfDecodedTextBytes of the reading options
  MaxAuthorship,     \* changes that the ledger has room for
  Author,            \* author profiles
  Block,             \* blocks a caller appends
  MaxBlocks,         \* bound of the model on the number of blocks
  Key, Value,        \* metadata a caller sets
  Section            \* page geometries a caller sets

Odf == INSTANCE OdfBody
OdfPages == INSTANCE OdfPages
Docx == INSTANCE DocxBody

VARIABLES
  document, \* the document value
  draft,    \* the copy an edit callback works on, or NoDraft
  file      \* the file that the document was read from, or NoFile

NoDraft == [none |-> "no draft"]
NoFile == [none |-> "no file"]

-----------------------------------------------------------------------------
(* The document value and its operations.  One that throws is the identity *)
(* on what it leaves as it was.                                            *)

NewDocument ==
  [blocks |-> <<>>, metadata |-> <<>>, section |-> DefaultSection, ledger |-> EmptyLedger]

validDocument(doc) == validateDocument(doc.blocks) /\ validSection(doc.section)

canRecord(ledger) == ledger.revision < MaxAuthorship

withLedger(doc, ledger) ==
  [doc EXCEPT !.ledger = ledger, !.metadata = storeAuthorship(ledger, @)]

recordChange(doc) ==
  IF canRecord(doc.ledger) THEN withLedger(doc, changeRecorded(doc.ledger)) ELSE doc

(* The block is appended before the change is counted. *)
blockAppended(doc, block) == recordChange([doc EXCEPT !.blocks = Append(@, block)])

(* Counting is prepared before the value is set; the reserved key is       *)
(* refused.                                                                *)
metadataSet(doc, key, value) ==
  LET next == assigned(doc.metadata, key, value)
  IN IF key = MetadataKey \/ next = doc.metadata \/ ~canRecord(doc.ledger) THEN doc
     ELSE recordChange([doc EXCEPT !.metadata = next])

fileAuthorSet(doc, author) ==
  LET next == authorSet(doc.ledger, author)
  IN IF next.revision > MaxAuthorship THEN doc ELSE withLedger(doc, next)

Changed(before, after) ==
  \/ after.blocks # before.blocks
  \/ after.section # before.section
  \/ after.metadata # before.metadata

\* Mutant: a draft that cannot be counted is kept all the same.
CommittedUncounted(before, after) ==
  LET changed == Changed(before, after)
  IN IF changed /\ dump(after.ledger) = dump(before.ledger) THEN recordChange(after)
     ELSE after

(* What an edit leaves whose callback has returned true: the draft, counted *)
(* if it has changed and was not; or, if that throws, what was before.      *)
editCommitted(before, after) ==
  LET changed == Changed(before, after)
  IN CASE ~changed \/ dump(after.ledger) # dump(before.ledger) -> after
       [] canRecord(after.ledger) -> recordChange(after)
       [] OTHER -> before

-----------------------------------------------------------------------------
(* Files. *)

Format == {"odf", "docx"}

(* The file that a document which passes validation is written to. *)
written(format, doc) ==
  IF format = "odf"
  THEN [format |-> format, content |-> Odf!writeDocument(doc.blocks),
        pages |-> OdfPages!writePages(doc.section),
        metadata |-> writeMetadataSection(doc.metadata, doc.ledger)]
  ELSE [format |-> format, content |-> Docx!writePackage(doc.blocks, doc.section),
        metadata |-> writeDocxMetadata(doc.metadata, doc.ledger)]

(* The document a file is read as, if that is accepted. *)
read(f) ==
  LET result(unfailed, blocks, section, meta) ==
        [accepted |-> unfailed /\ meta.accepted /\ AuthorshipReadable(meta.metadata),
         document |-> [blocks |-> blocks, metadata |-> meta.metadata, section |-> section,
                       ledger |-> readAuthorship(meta.metadata)]]
      odf(page, body) ==
        result(~page.failed /\ ~body.context.failed, body.blocks, page.section,
               parseMetadata(f.metadata))
  IN IF f.format = "odf"
     THEN odf(OdfPages!selectPageLayout(f.content.body, f.content.styles, f.pages),
              Odf!parseBody(f.content, MaximumItems, MaximumCharacters))
     ELSE result(TRUE, Docx!parseDocumentXml(f.content),
                 Docx!parseSectionProperties(f.content, DefaultSection),
                 readDocxMetadata(f.metadata))

-----------------------------------------------------------------------------
Editing == draft # NoDraft

(* The document an operation is called on: inside a callback, the draft.   *)
Current == IF Editing THEN draft ELSE document

Becomes(new) ==
  IF Editing THEN draft' = new /\ UNCHANGED <<document, file>>
  ELSE document' = new /\ UNCHANGED <<draft, file>>

Init == document = NewDocument /\ draft = NoDraft /\ file = NoFile

(* appendParagraph and appendTable. *)
AppendBlock(block) == Becomes(blockAppended(Current, block))

SetMetadata(key, value) == Becomes(metadataSet(Current, key, value))

SetFileAuthor(author) == Becomes(fileAuthorSet(Current, author))

(* Direct access to the blocks, the section and the metadata, the reserved *)
(* key in it.                                                              *)
RemoveBlock ==
  /\ Current.blocks # <<>>
  /\ Becomes([Current EXCEPT !.blocks = Front(@)])

WriteMetadata(key, value) ==
  Becomes([Current EXCEPT !.metadata = assigned(@, key, value)])

WriteSection(section) == Becomes([Current EXCEPT !.section = section])

BeginEdit ==
  /\ ~Editing
  /\ draft' = document
  /\ UNCHANGED <<document, file>>

CommitEdit ==
  /\ Editing
  /\ document' = editCommitted(document, draft)
  /\ draft' = NoDraft
  /\ UNCHANGED file

(* The callback returns false or throws. *)
RejectEdit ==
  /\ Editing
  /\ draft' = NoDraft
  /\ UNCHANGED <<document, file>>

(* The document is saved, and the file opened again. *)
Reopen(format) ==
  /\ ~Editing
  /\ validDocument(document)
  /\ document' = read(written(format, document)).document
  /\ UNCHANGED <<draft, file>>

(* A file of any making is opened.  If it is not accepted there is no      *)
(* document.                                                               *)
Open(f) ==
  LET documentOf(result) == IF result.accepted THEN result.document ELSE NewDocument
  IN /\ ~Editing
     /\ file' = f
     /\ document' = documentOf(read(f))
     /\ UNCHANGED draft

Next ==
  \/ \E block \in Block : Len(Current.blocks) < MaxBlocks /\ AppendBlock(block)
  \/ \E key \in Key, value \in Value : SetMetadata(key, value)
  \/ \E author \in Author : SetFileAuthor(author)
  \/ RemoveBlock
  \/ \E key \in Key, value \in Value : WriteMetadata(key, value)
  \/ WriteMetadata(MetadataKey, UnreadableDump)
  \/ \E section \in Section : WriteSection(section)
  \/ BeginEdit
  \/ CommitEdit
  \/ RejectEdit
  \/ \E format \in Format : Reopen(format)

-----------------------------------------------------------------------------
(* The content of a document a user sees change. *)
ContentOf(doc) ==
  <<doc.blocks, doc.section, Restrict(doc.metadata, DOMAIN doc.metadata \ {MetadataKey})>>

(* An edit that changes the content of a document is counted: by what was  *)
(* counted in its draft or else once, though the calls in it may count,    *)
(* throw and be caught, or bypass the counting; if there is no room in the *)
(* ledger the document stays as it is.  So it is with setMetadata outside  *)
(* of an edit.                                                             *)
EditsAreCounted ==
  [][/\ \/ CommitEdit
        \/ ~Editing /\ \E key \in Key, value \in Value : SetMetadata(key, value)
     /\ ContentOf(document') # ContentOf(document)
     => LET counted == IF Editing THEN draft.ledger.revision - document.ledger.revision ELSE 0
        IN document'.ledger.revision = document.ledger.revision + Max({1, counted})]_document
=============================================================================
