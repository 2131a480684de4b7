----------------------- MODULE ThinkingSpaceDocument -----------------------
(***************************************************************************)
(* A .tsdoc document in use: header metadata, one HTML body that carries   *)
(* the authorship ledger, and a version history; edits through drafts, the *)
(* block editor on the body, recording, saving and loading.                *)
(*                                                                         *)
(* A body is a sequence of tokens: pieces of text, and authorship comments *)
(* as readMarkup tells them apart.                                         *)
(***************************************************************************)
EXTENDS VersionObjects, Authorship

CONSTANTS
  Author,        \* author profiles
  Title,         \* values of the one ordinary header key
  InitialHtml,   \* bodies a document is assembled with
  MaxRevision    \* bound of the model on the ledger's change count

VARIABLES
  document,      \* the document value
  draft,         \* the copy an edit callback works on, or NoDraft
  stamps,        \* ledger changes made in the draft so far (history variable)
  file           \* the bytes saved last, or NoFile

vars == <<document, draft, stamps, file>>

NoDraft == [none |-> "no draft"]
NoFile == [none |-> "no file"]

(* The ledgers within the bound. *)
Ledger ==
  [revision : 0..MaxRevision, last : Author \cup {Unattributed},
   active : Author \cup {Unattributed}]

(* std::map::insert_or_assign on header metadata. *)
written(metadata, key, value) ==
  [k \in DOMAIN metadata \cup {key} |-> IF k = key THEN value ELSE metadata[k]]

(* Header metadata may hold what the operations write into it. *)
ASSUME DocumentAssumption ==
  /\ MaxRevision \in Nat
  /\ InitialHtml \subseteq Html
  /\ \A m \in Metadata :
       /\ \A ledger \in Ledger : storeAuthorship(ledger, m) \in Metadata
       /\ \A title \in Title : written(m, "Title", title) \in Metadata
       /\ written(m, MetadataKey, UnreadableDump) \in Metadata

-----------------------------------------------------------------------------
(* The document value, its file and the operations. *)

fromHtml(html) ==
  [header |-> EmptyMetadata, html |-> html, ledger |-> EmptyLedger,
   history |-> EmptyHistory]

synced(doc) == [doc EXCEPT !.header = storeAuthorship(doc.ledger, doc.header)]

CanSave(doc) == verifyIntegrity(doc.history)

toFileBytes(doc) ==
  [header |-> storeAuthorship(doc.ledger, doc.header),
   bodyHtml |-> doc.html,
   history |-> doc.history]

(* The body as fromFileBytes hands it to HtmlBlockDocument. *)
envelope(f) == markupBytes(f.bodyHtml, readAuthorship(f.header))

(* fromFileBytes throws unless this holds. *)
CanLoad(f) ==
  /\ AuthorshipReadable(f.header)
  /\ MarkupReadable(envelope(f))
  /\ Len(f.history.versions) <= maximumVersionCount
  /\ Cardinality(DOMAIN f.history.snapshots) <= maximumVersionCount
  /\ Cardinality(DOMAIN f.history.diffs) <= maximumVersionCount
  /\ \A id \in DOMAIN f.history.snapshots :
       AuthorshipReadable(f.history.snapshots[id].headerMetadata)
  /\ verifyIntegrity(f.history)

\* Mutant: the envelope is parsed and left in the body.
LoadKeepingEnvelope(f) ==
  [header |-> f.header,
   html |-> envelope(f),
   ledger |-> MarkupLedger(envelope(f)),
   history |-> f.history]

fromFileBytes(f) ==
  [header |-> f.header,
   html |-> MarkupBody(envelope(f)),
   ledger |-> MarkupLedger(envelope(f)),
   history |-> f.history]

(* The block editor: an unchanged source is no change. *)
bodyEdited(doc, html) ==
  IF doc.html = html THEN doc
  ELSE [doc EXCEPT !.html = html, !.ledger = changeRecorded(@)]

\* Mutant: a version is recorded with the header as it stands.
RecordWithoutStoring(doc, label, createdAtUtc) ==
  [doc EXCEPT !.history =
     recorded(@, doc.header, doc.html, label, createdAtUtc)]

versionRecorded(doc, label, createdAtUtc) ==
  LET stored == synced(doc)
  IN [stored EXCEPT !.history =
        recorded(@, stored.header, stored.html, label, createdAtUtc)]

EditChanged(before, after) ==
  \/ after.header # before.header
  \/ markupBytes(after.html, after.ledger) # markupBytes(before.html, before.ledger)

\* Mutant: a draft that changed is stamped even if it was stamped already.
EditStampedTwice(before, after) ==
  synced(IF EditChanged(before, after)
           THEN [after EXCEPT !.ledger = changeRecorded(@)]
           ELSE after)

(* What edit commits when the callback has returned true. *)
editCommitted(before, after) ==
  synced(IF EditChanged(before, after) /\ dump(after.ledger) = dump(before.ledger)
           THEN [after EXCEPT !.ledger = changeRecorded(@)]
           ELSE after)

-----------------------------------------------------------------------------
Editing == draft # NoDraft

(* The document an operation is called on: inside a callback, the draft.   *)
Current == IF Editing THEN draft ELSE document

Becomes(new) ==
  /\ new.ledger.revision <= MaxRevision
  /\ IF Editing
       THEN /\ draft' = new
            /\ stamps' = stamps + new.ledger.revision - draft.ledger.revision
            /\ UNCHANGED <<document, file>>
       ELSE /\ document' = new
            /\ UNCHANGED <<draft, stamps, file>>

Init ==
  /\ document \in {fromHtml(html) : html \in InitialHtml}
  /\ draft = NoDraft
  /\ stamps = 0
  /\ file = NoFile

SetFileAuthor(author) ==
  Becomes(synced([Current EXCEPT !.ledger = authorSet(@, author)]))

(* HtmlBlockEditor on the body, called in or outside an edit. *)
EditBody(html) == Becomes(bodyEdited(Current, html))

RecordVersion(label, createdAtUtc) ==
  /\ canRecord(Current.history)
  /\ Becomes(versionRecorded(Current, label, createdAtUtc))

(* record throws, for the exhausted counter or for want of memory; the     *)
(* header is synchronised all the same.                                    *)
RecordVersionThrows == Becomes(synced(Current))

BeginEdit ==
  /\ ~Editing
  /\ draft' = document
  /\ stamps' = 0
  /\ UNCHANGED <<document, file>>

(* The callback writes the draft's header: an ordinary key, or whatever it *)
(* likes under the reserved one.                                           *)
WriteTitle(title) ==
  /\ Editing
  /\ Becomes([draft EXCEPT !.header = written(@, "Title", title)])

WriteReservedKey ==
  /\ Editing
  /\ Becomes([draft EXCEPT !.header = written(@, MetadataKey, UnreadableDump)])

CommitEdit ==
  /\ Editing
  /\ document' = editCommitted(document, draft)
  /\ document'.ledger.revision <= MaxRevision
  /\ draft' = NoDraft
  /\ stamps' = 0
  /\ UNCHANGED file

(* The callback returns false or throws. *)
RejectEdit ==
  /\ Editing
  /\ draft' = NoDraft
  /\ stamps' = 0
  /\ UNCHANGED <<document, file>>

Save ==
  /\ ~Editing
  /\ CanSave(document)
  /\ file' = toFileBytes(document)
  /\ UNCHANGED <<document, draft, stamps>>

Load ==
  /\ ~Editing
  /\ file # NoFile
  /\ CanLoad(file)
  /\ document' = fromFileBytes(file)
  /\ UNCHANGED <<draft, stamps, file>>

Next ==
  \/ \E author \in Author : SetFileAuthor(author)
  \/ \E html \in Html : EditBody(html)
  \/ \E label \in Label, createdAtUtc \in Timestamp : RecordVersion(label, createdAtUtc)
  \/ RecordVersionThrows
  \/ BeginEdit
  \/ \E title \in Title : WriteTitle(title)
  \/ WriteReservedKey
  \/ CommitEdit
  \/ RejectEdit
  \/ Save
  \/ Load

Spec == Init /\ [][Next]_vars

(* Edits and author selections only, on a document that records nothing.   *)
SpecWithoutVersions ==
  Init /\ [][\/ \E author \in Author : SetFileAuthor(author)
            \/ \E html \in Html : EditBody(html)
            \/ BeginEdit
            \/ CommitEdit
            \/ RejectEdit]_vars

-----------------------------------------------------------------------------
IsDocument(doc) ==
  /\ doc = [header |-> doc.header, html |-> doc.html, ledger |-> doc.ledger,
            history |-> doc.history]
  /\ doc.header \in Metadata
  /\ doc.html \in Html
  /\ doc.ledger \in Ledger
  /\ WellFormed(doc.history)

(* The members of the document and of the draft have their types. *)
TypeOK ==
  /\ IsDocument(document)
  /\ draft # NoDraft => IsDocument(draft)
  /\ stamps \in 0..MaxRevision

(* A document can be saved at any time, whatever was recorded, edited or   *)
(* rejected, and the file gives the same document back: the header with    *)
(* the ledger in it, the body, the ledger but for the active author, and   *)
(* the whole history.                                                      *)
SavedFileReloads ==
  LET f == toFileBytes(document)
  IN /\ CanSave(document)
     /\ CanLoad(f)
     /\ fromFileBytes(f) =
          [synced(document) EXCEPT !.ledger.active = Unattributed]

(* The ledger a commit's snapshot holds. *)
LedgerOf(doc, i) ==
  readAuthorship(
    doc.history.snapshots[doc.history.versions[i].snapshotObjectId].headerMetadata)

(* Every version captures the ledger of its moment: along the commits the  *)
(* count of changes never falls and it never exceeds the current one, and  *)
(* two commits of the same count have the same body.                       *)
VersionsCaptureTheLedger ==
  LET versions == document.history.versions
      bodyAt(i) == document.history.snapshots[versions[i].snapshotObjectId].bodyHtml
  IN \A i, j \in 1..Len(versions) :
       i <= j =>
         /\ LedgerOf(document, i).revision <= LedgerOf(document, j).revision
         /\ LedgerOf(document, j).revision <= document.ledger.revision
         /\ LedgerOf(document, i).revision = LedgerOf(document, j).revision
              => bodyAt(i) = bodyAt(j)

(* The content of a document a user sees change. *)
ContentOf(doc) ==
  <<Restrict(doc.header, DOMAIN doc.header \ {MetadataKey}), doc.html>>

(* A committed edit that changed the content is counted: as often as its   *)
(* draft was stamped by the body editor or by an author's selection, and   *)
(* once if it was not; every changed edit leaves a different dump.         *)
EditsStampOnce ==
  [][CommitEdit /\ ContentOf(document') # ContentOf(document) =>
       document'.ledger.revision =
         document.ledger.revision + (IF stamps = 0 THEN 1 ELSE stamps)]_vars

(* Under SpecWithoutVersions: an edit whose callback changes no content    *)
(* and leaves the ledger's dump as it is has at most selected the profile  *)
(* recorded last, which is not a change.                                   *)
SelectingTheSameProfileIsNoChange ==
  [][CommitEdit /\ ContentOf(draft) = ContentOf(document) /\ stamps = 0
       => document'.ledger.revision = document.ledger.revision]_vars
=============================================================================
