-------------------- MODULE ThinkingSpaceDocumentProofs --------------------
(***************************************************************************)
(* A document keeps its promises through drafts, recordings, saves and     *)
(* loads: for every set of bodies, headers, authors and titles, and every  *)
(* retention limit, provided no body brings an authorship comment of its   *)
(* own.  (MCForeignComment shows what one such body does.)                 *)
(*                                                                         *)
(* The three documents around - the document, the draft, and the one the   *)
(* file would load as - satisfy the same invariant, DocumentSound; the     *)
(* operations keep it because each either leaves the history alone and     *)
(* never lets the ledger fall back, or records the document as it stands.  *)
(***************************************************************************)
EXTENDS ThinkingSpaceDocument, VersionObjectsProofs, FiniteSetTheorems

(* No body brings an authorship comment of its own: the only one a file    *)
(* holds is the one saving puts there.                                     *)
OwnCommentsOnly == \A html \in Html : Comments(html) = {}

RevisionAt(doc, i) == LedgerOf(doc, i).revision

BodyAt(doc, i) ==
  doc.history.snapshots[doc.history.versions[i].snapshotObjectId].bodyHtml

(* VersionsCaptureTheLedger of any document.  Inductive: two neighbouring  *)
(* commits of one count agree because each agrees with the document that   *)
(* was current when the later one was recorded.                            *)
Captures(doc) ==
  /\ \A i \in 1..Len(doc.history.versions) :
       /\ RevisionAt(doc, i) \in 0..doc.ledger.revision
       /\ RevisionAt(doc, i) = doc.ledger.revision => BodyAt(doc, i) = doc.html
  /\ \A i, j \in 1..Len(doc.history.versions) :
       i <= j => /\ RevisionAt(doc, i) <= RevisionAt(doc, j)
                 /\ RevisionAt(doc, i) = RevisionAt(doc, j)
                      => BodyAt(doc, i) = BodyAt(doc, j)

SnapshotsReadable(h) ==
  \A id \in DOMAIN h.snapshots : AuthorshipReadable(h.snapshots[id].headerMetadata)

(* A ledger that counts nothing names nobody: it equals the one that is    *)
(* read where none was stored.                                             *)
LedgerSound(ledger) == ledger.revision = 0 => ledger.last = Unattributed

DocumentSound(doc) ==
  /\ IsDocument(doc)
  /\ LedgerSound(doc.ledger)
  /\ Sound(doc.history)
  /\ Len(doc.history.versions) <= maximumVersionCount
  /\ SnapshotsReadable(doc.history)
  /\ Captures(doc)

(* The draft is ahead of the document by exactly its stamps.               *)
DraftSound ==
  /\ DocumentSound(draft)
  /\ draft.ledger.revision = document.ledger.revision + stamps
  /\ stamps = 0 => draft.ledger.last = document.ledger.last

IInv ==
  /\ DocumentSound(document)
  /\ Editing => DraftSound
  /\ stamps \in 0..MaxRevision
  /\ file # NoFile => DocumentSound(fromFileBytes(file))
-----------------------------------------------------------------------------
(* The ledger and its three homes. *)

(* What is stored in metadata reads back, but for the active author, and   *)
(* leaves the other keys alone.                                            *)
LEMMA StoredAuthorshipReads ==
  ASSUME NEW ledger \in Ledger, LedgerSound(ledger), NEW m
  PROVE  LET stored == storeAuthorship(ledger, m)
         IN /\ AuthorshipReadable(stored)
            /\ readAuthorship(stored) = [ledger EXCEPT !.active = Unattributed]
            /\ Restrict(stored, DOMAIN stored \ {MetadataKey})
                 = Restrict(m, DOMAIN m \ {MetadataKey})
<1> DEFINE stored == storeAuthorship(ledger, m)
<1>1. ledger = [revision |-> ledger.revision, last |-> ledger.last,
                active |-> ledger.active]
  BY DEF Ledger
<1>2. [ledger EXCEPT !.active = Unattributed] =
        [revision |-> ledger.revision, last |-> ledger.last, active |-> Unattributed]
  BY <1>1
<1>3. CASE isEmpty(ledger)
  <2>1. ledger.revision = 0 /\ ledger.last = Unattributed
    BY <1>3 DEF isEmpty, LedgerSound
  <2>2. stored = [k \in DOMAIN m \ {MetadataKey} |-> m[k]]
    BY <1>3 DEF storeAuthorship, Restrict
  <2>3. DOMAIN stored = DOMAIN m \ {MetadataKey}
    BY <2>2
  <2>4. readAuthorship(stored) = EmptyLedger
    BY <2>3 DEF readAuthorship
  <2>5. Restrict(stored, DOMAIN stored \ {MetadataKey})
          = [k \in DOMAIN m \ {MetadataKey} |-> m[k]]
    BY <2>2, <2>3 DEF Restrict
  <2> QED BY <1>2, <2>1, <2>3, <2>4, <2>5
          DEF AuthorshipReadable, EmptyLedger, Restrict
<1>4. CASE ~isEmpty(ledger)
  <2>1. stored = [k \in DOMAIN m \cup {MetadataKey} |->
                    IF k = MetadataKey THEN dump(ledger) ELSE m[k]]
    BY <1>4 DEF storeAuthorship
  <2>2. /\ DOMAIN stored = DOMAIN m \cup {MetadataKey}
        /\ stored[MetadataKey] = dump(ledger)
        /\ \A k \in DOMAIN m \ {MetadataKey} : stored[k] = m[k]
    BY <2>1
  <2> HIDE DEF stored
  <2>3. dump(ledger) # UnreadableDump
    BY <1>4 DEF dump, UnreadableDump, isEmpty
  <2>4. readAuthorship(stored) = fromDump(dump(ledger))
    BY <2>2 DEF readAuthorship
  <2>5. fromDump(dump(ledger)) =
          [revision |-> ledger.revision, last |-> ledger.last, active |-> Unattributed]
    BY DEF fromDump, dump
  <2>6. DOMAIN stored \ {MetadataKey} = DOMAIN m \ {MetadataKey}
    BY <2>2
  <2>7. Restrict(stored, DOMAIN stored \ {MetadataKey})
          = Restrict(m, DOMAIN m \ {MetadataKey})
    BY <2>2, <2>6 DEF Restrict
  <2>8. AuthorshipReadable(stored)
    BY <2>2, <2>3 DEF AuthorshipReadable
  <2> QED BY <1>2, <2>4, <2>5, <2>7, <2>8 DEF stored
<1> QED BY <1>3, <1>4

(* The three ways a ledger changes: what the count and the last author do. *)
LEMMA LedgerSteps ==
  ASSUME NEW ledger \in Ledger
  PROVE  /\ ledger.revision \in Nat
         /\ changeRecorded(ledger) = [revision |-> ledger.revision + 1,
              last |-> ledger.active, active |-> ledger.active]
         /\ \A author \in Author :
              LET new == authorSet(ledger, author)
              IN \/ new = [revision |-> ledger.revision, last |-> ledger.last,
                           active |-> author]
                 \/ new = [revision |-> ledger.revision + 1, last |-> author,
                           active |-> author]
<1>1. ledger = [revision |-> ledger.revision, last |-> ledger.last,
                active |-> ledger.active] /\ ledger.revision \in Nat
  BY DocumentAssumption DEF Ledger
<1>2. changeRecorded(ledger) = [revision |-> ledger.revision + 1,
        last |-> ledger.active, active |-> ledger.active]
  <2> DEFINE counted == [ledger EXCEPT !.revision = ledger.revision + 1]
  <2>1. counted = [revision |-> ledger.revision + 1, last |-> ledger.last,
                   active |-> ledger.active]
    BY <1>1
  <2> HIDE DEF counted
  <2>2. [counted EXCEPT !.last = ledger.active] =
          [revision |-> ledger.revision + 1, last |-> ledger.active,
           active |-> ledger.active]
    BY <2>1
  <2> QED BY <2>2 DEF changeRecorded, counted
<1>3. ASSUME NEW author \in Author
      PROVE  [ledger EXCEPT !.active = author] =
               [revision |-> ledger.revision, last |-> ledger.last, active |-> author]
  BY <1>1
<1> QED BY <1>1, <1>2, <1>3, Zenon DEF authorSet

(* The envelope round trip: a body without comments of its own comes back, *)
(* with the ledger.                                                        *)
LEMMA EnvelopeReads ==
  ASSUME NEW html \in Html, Comments(html) = {},
         NEW ledger \in Ledger, LedgerSound(ledger)
  PROVE  LET bytes == markupBytes(html, ledger)
         IN /\ MarkupReadable(bytes)
            /\ MarkupBody(bytes) = html
            /\ MarkupLedger(bytes) = [ledger EXCEPT !.active = Unattributed]
<1> DEFINE bytes == markupBytes(html, ledger)
           n == Len(html)
<1>1. [ledger EXCEPT !.active = Unattributed] =
        [revision |-> ledger.revision, last |-> ledger.last, active |-> Unattributed]
  BY DEF Ledger
<1>2. html \in Seq(Byte) /\ n \in Nat /\ \A i \in 1..n : html[i] \in Byte
  BY ContentAssumption, LenProperties, ElementOfSeq
<1>3. CASE isEmpty(ledger)
  <2>1. bytes = html
    BY <1>3 DEF markupBytes
  <2>2. ledger.revision = 0 /\ ledger.last = Unattributed
    BY <1>3 DEF isEmpty, LedgerSound
  <2> QED BY <1>1, <2>1, <2>2 DEF MarkupReadable, MarkupBody, MarkupLedger, EmptyLedger
<1>4. CASE ~isEmpty(ledger)
  <2> DEFINE comment == AuthorshipComment(dump(ledger))
             B == Byte \cup {comment}
  <2>1. bytes = Append(html, comment)
    BY <1>4 DEF markupBytes
  <2>2. html \in Seq(B) /\ comment \in B
    BY <1>2, SeqMonotonic
  <2>3. /\ bytes \in Seq(B)
        /\ Len(bytes) = n + 1
        /\ bytes[n + 1] = comment
        /\ \A i \in 1..n : bytes[i] = html[i]
    BY <2>1, <2>2, AppendProperties
  <2> HIDE DEF bytes
  <2>4. comment.kind = "authorship comment" /\ comment.dump = dump(ledger)
    BY DEF AuthorshipComment
  <2>5. dump(ledger) # UnreadableDump
    BY <1>4 DEF dump, UnreadableDump, isEmpty
  <2> HIDE DEF comment
  <2>6. n + 1 \in 1..n + 1 /\ \A i \in 1..n + 1 : i = n + 1 \/ i \in 1..n
    BY <1>2
  <2>7. Comments(bytes) = {n + 1}
    BY <2>3, <2>4, <2>6 DEF Comments
  <2>8. MarkupReadable(bytes)
    BY <2>3, <2>4, <2>5, <2>7 DEF MarkupReadable
  <2>9. MarkupBody(bytes) = html
    <3> DEFINE t == SubSeq(bytes, 1, n)
    <3>1. MarkupBody(bytes) = t
      BY <1>2, <2>3, <2>7 DEF MarkupBody
    <3>2. /\ 1 \in Int /\ n \in Int /\ n - 1 + 1 = n
          /\ \A i \in 1..n : bytes[i] \in Byte /\ 1 + i - 1 = i
      BY <1>2, <2>3
    <3>3. /\ t \in Seq(Byte)
          /\ Len(t) = IF 1 <= n THEN n - 1 + 1 ELSE 0
          /\ \A i \in 1..n - 1 + 1 : t[i] = bytes[1 + i - 1]
      BY <3>2, SubSeqProperties
    <3>4. Len(t) = n /\ \A i \in 1..n : t[i] = html[i]
      BY <1>2, <2>3, <3>2, <3>3
    <3> HIDE DEF t
    <3> QED BY <1>2, <3>1, <3>3, <3>4, SeqEqual
  <2>10. MarkupLedger(bytes) = fromDump(dump(ledger))
    BY <2>3, <2>4, <2>7 DEF MarkupLedger
  <2>11. fromDump(dump(ledger)) =
           [revision |-> ledger.revision, last |-> ledger.last, active |-> Unattributed]
    BY DEF fromDump, dump
  <2> QED BY <1>1, <2>8, <2>9, <2>10, <2>11 DEF bytes
<1> QED BY <1>3, <1>4
-----------------------------------------------------------------------------
(* Documents: what the operations make of the members. *)

HasMembers(doc) ==
  doc = [header |-> doc.header, html |-> doc.html, ledger |-> doc.ledger,
         history |-> doc.history]

(* Replacing one member leaves the others.                                 *)
LEMMA MembersReplaced ==
  ASSUME NEW doc, HasMembers(doc), NEW x, NEW y
  PROVE  /\ [doc EXCEPT !.header = x] =
              [header |-> x, html |-> doc.html, ledger |-> doc.ledger,
               history |-> doc.history]
         /\ [doc EXCEPT !.ledger = x] =
              [header |-> doc.header, html |-> doc.html, ledger |-> x,
               history |-> doc.history]
         /\ [doc EXCEPT !.html = x, !.ledger = y] =
              [header |-> doc.header, html |-> x, ledger |-> y,
               history |-> doc.history]
         /\ [doc EXCEPT !.header = x, !.history = y] =
              [header |-> x, html |-> doc.html, ledger |-> doc.ledger,
               history |-> y]
<1>1. doc = [header |-> doc.header, html |-> doc.html, ledger |-> doc.ledger,
             history |-> doc.history]
  BY DEF HasMembers
<1>2. [doc EXCEPT !.header = x] =
        [header |-> x, html |-> doc.html, ledger |-> doc.ledger,
         history |-> doc.history]
  BY <1>1
<1>3. [doc EXCEPT !.ledger = x] =
        [header |-> doc.header, html |-> doc.html, ledger |-> x,
         history |-> doc.history]
  BY <1>1
<1>4. [doc EXCEPT !.html = x, !.ledger = y] =
        [header |-> doc.header, html |-> x, ledger |-> y, history |-> doc.history]
  <2> DEFINE a == [doc EXCEPT !.html = x]
  <2>1. a = [header |-> doc.header, html |-> x, ledger |-> doc.ledger,
             history |-> doc.history]
    BY <1>1
  <2> HIDE DEF a
  <2>2. [a EXCEPT !.ledger = y] =
          [header |-> doc.header, html |-> x, ledger |-> y, history |-> doc.history]
    BY <2>1
  <2> QED BY <2>2 DEF a
<1>5. [doc EXCEPT !.header = x, !.history = y] =
        [header |-> x, html |-> doc.html, ledger |-> doc.ledger, history |-> y]
  <2> DEFINE a == [doc EXCEPT !.header = x]
  <2>1. a = [header |-> x, html |-> doc.html, ledger |-> doc.ledger,
             history |-> doc.history]
    BY <1>2
  <2> HIDE DEF a
  <2>2. [a EXCEPT !.history = y] =
          [header |-> x, html |-> doc.html, ledger |-> doc.ledger, history |-> y]
    BY <2>1
  <2> QED BY <2>2 DEF a
<1> QED BY <1>2, <1>3, <1>4, <1>5

(* Syncing replaces the header alone.                                      *)
LEMMA SyncedMembers ==
  ASSUME NEW doc, HasMembers(doc)
  PROVE  synced(doc) = [header |-> storeAuthorship(doc.ledger, doc.header),
                        html |-> doc.html, ledger |-> doc.ledger,
                        history |-> doc.history]
<1> DEFINE header == storeAuthorship(doc.ledger, doc.header)
<1>1. synced(doc) = [doc EXCEPT !.header = header]
  BY DEF synced
<1> HIDE DEF header
<1>2. [doc EXCEPT !.header = header] =
        [header |-> header, html |-> doc.html, ledger |-> doc.ledger,
         history |-> doc.history]
  BY MembersReplaced
<1> QED BY <1>1, <1>2 DEF header

(* The invariant survives whatever leaves the history alone and does not   *)
(* let the count fall, nor change the body under the same count.           *)
LEMMA HistoryKept ==
  ASSUME NEW doc, DocumentSound(doc), NEW new, IsDocument(new),
         LedgerSound(new.ledger),
         new.history = doc.history,
         new.ledger.revision >= doc.ledger.revision,
         new.ledger.revision = doc.ledger.revision => new.html = doc.html
  PROVE  DocumentSound(new)
<1>1. /\ Sound(new.history)
      /\ Len(new.history.versions) <= maximumVersionCount
      /\ SnapshotsReadable(new.history)
  BY DEF DocumentSound
<1>2. /\ new.ledger.revision \in Nat /\ doc.ledger.revision \in Nat
  BY LedgerSteps DEF DocumentSound, IsDocument
<1>3. \A i : RevisionAt(new, i) = RevisionAt(doc, i) /\ BodyAt(new, i) = BodyAt(doc, i)
  BY DEF RevisionAt, BodyAt, LedgerOf
<1>4. Captures(doc)
  BY DEF DocumentSound
<1>5. ASSUME NEW i \in 1..Len(new.history.versions)
      PROVE  /\ RevisionAt(new, i) \in 0..new.ledger.revision
             /\ RevisionAt(new, i) = new.ledger.revision => BodyAt(new, i) = new.html
  <2>1. /\ RevisionAt(doc, i) \in 0..doc.ledger.revision
        /\ RevisionAt(doc, i) = doc.ledger.revision => BodyAt(doc, i) = doc.html
    BY <1>4 DEF Captures
  <2> QED BY <1>2, <1>3, <2>1
<1>6. Captures(new)
  BY <1>3, <1>4, <1>5 DEF Captures
<1> QED BY <1>1, <1>6 DEF DocumentSound

(* Storing the ledger in the header. *)
LEMMA SyncedSound ==
  ASSUME NEW doc, DocumentSound(doc)
  PROVE  /\ synced(doc) = [header |-> storeAuthorship(doc.ledger, doc.header),
                           html |-> doc.html, ledger |-> doc.ledger,
                           history |-> doc.history]
         /\ DocumentSound(synced(doc))
<1>1. IsDocument(doc) /\ doc.ledger.revision \in Nat
  BY LedgerSteps DEF DocumentSound, IsDocument
<1>2. synced(doc) = [header |-> storeAuthorship(doc.ledger, doc.header),
                     html |-> doc.html, ledger |-> doc.ledger,
                     history |-> doc.history]
  BY <1>1, SyncedMembers DEF IsDocument, HasMembers
<1>3. storeAuthorship(doc.ledger, doc.header) \in Metadata
  BY <1>1, DocumentAssumption DEF IsDocument
<1> DEFINE new == synced(doc)
<1> HIDE DEF new
<1>4. new = [header |-> storeAuthorship(doc.ledger, doc.header),
             html |-> doc.html, ledger |-> doc.ledger, history |-> doc.history]
  BY <1>2 DEF new
<1>5. IsDocument(new)
  BY <1>1, <1>3, <1>4 DEF IsDocument
<1>6. DocumentSound(new)
  BY <1>1, <1>4, <1>5, HistoryKept DEF DocumentSound
<1> QED BY <1>2, <1>6 DEF new

(* A change that is counted: an edited body, a committed edit, a new       *)
(* author.                                                                 *)
LEMMA CountedSound ==
  ASSUME NEW doc, DocumentSound(doc), NEW new,
         new.html \in Html, new.ledger \in Ledger,
         new = [header |-> doc.header, html |-> new.html, ledger |-> new.ledger,
                history |-> doc.history],
         new.ledger.revision = doc.ledger.revision + 1
  PROVE  DocumentSound(new)
<1>1. IsDocument(doc) /\ doc.ledger.revision \in Nat
  BY LedgerSteps DEF DocumentSound, IsDocument
<1>2. new.header = doc.header /\ new.history = doc.history
  OBVIOUS
<1>3. IsDocument(new)
  BY <1>1, <1>2 DEF IsDocument
<1>4. /\ LedgerSound(new.ledger)
      /\ new.ledger.revision >= doc.ledger.revision
      /\ new.ledger.revision # doc.ledger.revision
  BY <1>1 DEF LedgerSound
<1> QED BY <1>2, <1>3, <1>4, HistoryKept
(* A history with one more commit, and with so many old ones gone. *)
Follows(new, h, pruned) ==
  /\ Sound(h) /\ Sound(new)
  /\ pruned \in 0..1
  /\ Len(new.versions) + pruned = Len(h.versions) + 1
  /\ \A i \in pruned + 1..Len(h.versions) : new.versions[i - pruned] = h.versions[i]
  /\ \A id \in DOMAIN h.snapshots \cap DOMAIN new.snapshots :
       new.snapshots[id] = h.snapshots[id]

(* The snapshots a recording leaves are kept ones or the new one. *)
LEMMA RecordedSnapshots ==
  ASSUME NEW h, NEW new, NEW pruned, Follows(new, h, pruned)
  PROVE  /\ Len(new.versions) \in Nat /\ Len(h.versions) \in Nat
         /\ \A i \in 1..Len(new.versions) - 1 :
              /\ i + pruned \in 1..Len(h.versions)
              /\ LET id == new.versions[i].snapshotObjectId
                 IN /\ id = h.versions[i + pruned].snapshotObjectId
                    /\ id \in DOMAIN h.snapshots /\ id \in DOMAIN new.snapshots
                    /\ new.snapshots[id] = h.snapshots[id]
         /\ \A id \in DOMAIN new.snapshots :
              \E i \in 1..Len(new.versions) : new.versions[i].snapshotObjectId = id
<1>1. /\ Len(new.versions) \in Nat /\ Len(h.versions) \in Nat
      /\ Range(new.versions) = {new.versions[i] : i \in 1..Len(new.versions)}
  BY Commits DEF Sound, Follows
<1>2. ASSUME NEW i \in 1..Len(new.versions) - 1
      PROVE  /\ i + pruned \in 1..Len(h.versions)
             /\ LET id == new.versions[i].snapshotObjectId
                IN /\ id = h.versions[i + pruned].snapshotObjectId
                   /\ id \in DOMAIN h.snapshots /\ id \in DOMAIN new.snapshots
                   /\ new.snapshots[id] = h.snapshots[id]
  <2>1. /\ i + pruned \in pruned + 1..Len(h.versions)
        /\ i + pruned \in 1..Len(h.versions)
        /\ (i + pruned) - pruned = i
        /\ i \in 1..Len(new.versions)
    BY <1>1 DEF Follows
  <2>2. new.versions[i] = h.versions[i + pruned]
    BY <2>1 DEF Follows
  <2>3. /\ new.versions[i].snapshotObjectId \in DOMAIN new.snapshots
        /\ h.versions[i + pruned].snapshotObjectId \in DOMAIN h.snapshots
    BY <2>1 DEF Follows, Sound, Linked, CommitSound, VersionResolves
  <2> QED BY <2>1, <2>2, <2>3 DEF Follows
<1>3. \A id \in DOMAIN new.snapshots :
        \E i \in 1..Len(new.versions) : new.versions[i].snapshotObjectId = id
  BY <1>1 DEF Follows, Sound, Linked, SnapshotsSound
<1> QED BY <1>1, <1>2, <1>3

(* Recording a version keeps the invariant: the new snapshot holds the     *)
(* ledger and the body of the moment.                                      *)
LEMMA VersionRecordedSound ==
  ASSUME NEW doc, DocumentSound(doc), canRecord(doc.history),
         NEW label \in Label, NEW time \in Timestamp
  PROVE  LET new == versionRecorded(doc, label, time)
         IN /\ DocumentSound(new)
            /\ new.ledger = doc.ledger
<1> DEFINE stored == synced(doc)
           h == doc.history
           new == versionRecorded(doc, label, time)
           after == recorded(h, stored.header, doc.html, label, time)
           pruned == after.prunedVersionCount - h.prunedVersionCount
<1>1. /\ stored = [header |-> storeAuthorship(doc.ledger, doc.header),
                   html |-> doc.html, ledger |-> doc.ledger, history |-> h]
      /\ DocumentSound(stored)
  BY SyncedSound
<1>2. /\ IsDocument(stored) /\ IsDocument(doc)
      /\ Sound(h) /\ Len(h.versions) <= maximumVersionCount
      /\ SnapshotsReadable(h) /\ Captures(doc)
      /\ LedgerSound(doc.ledger)
  BY <1>1 DEF DocumentSound
<1>3. /\ stored.header = storeAuthorship(doc.ledger, doc.header)
      /\ stored.html = doc.html /\ stored.ledger = doc.ledger
      /\ stored.history = h
  BY <1>1
<1>4. stored.header \in Metadata /\ doc.html \in Html /\ doc.ledger \in Ledger
  BY <1>2 DEF IsDocument
<1>5. /\ AuthorshipReadable(stored.header)
      /\ readAuthorship(stored.header) = [doc.ledger EXCEPT !.active = Unattributed]
  <2>1. /\ AuthorshipReadable(storeAuthorship(doc.ledger, doc.header))
        /\ readAuthorship(storeAuthorship(doc.ledger, doc.header)) =
             [doc.ledger EXCEPT !.active = Unattributed]
    BY <1>2, <1>4, StoredAuthorshipReads
  <2> HIDE DEF stored
  <2> QED BY <1>3, <2>1
<1>6. readAuthorship(stored.header).revision = doc.ledger.revision
      /\ doc.ledger.revision \in Nat
  BY <1>4, <1>5, LedgerSteps DEF Ledger
<1>7. new = [header |-> stored.header, html |-> doc.html, ledger |-> doc.ledger,
             history |-> after]
  <2>1. new = [stored EXCEPT !.history = after]
    BY <1>3, Zenon DEF versionRecorded
  <2> HIDE DEF after, new
  <2> QED BY <1>1, <1>3, <2>1
<1>8. /\ Sound(after)
      /\ Len(after.versions) <= maximumVersionCount
      /\ pruned \in 0..1
      /\ Len(after.versions) + pruned = Len(h.versions) + 1
      /\ \A i \in pruned + 1..Len(h.versions) :
           after.versions[i - pruned] = h.versions[i]
      /\ \A id \in DOMAIN h.snapshots \cap DOMAIN after.snapshots :
           after.snapshots[id] = h.snapshots[id]
      /\ GivesBack(after, after.versions[Len(after.versions)], stored.header,
                   doc.html, label, time)
  <2> HIDE DEF stored
  <2> QED BY <1>2, <1>4, RecordedSound, SMTT(60)
<1> DEFINE N == Len(after.versions)
<1> HIDE DEF stored, after, new, pruned
<1>9. /\ N \in Nat /\ Len(h.versions) \in Nat
      /\ \A i \in 1..N - 1 :
           /\ i + pruned \in 1..Len(h.versions)
           /\ LET id == after.versions[i].snapshotObjectId
              IN /\ id = h.versions[i + pruned].snapshotObjectId
                 /\ id \in DOMAIN h.snapshots /\ id \in DOMAIN after.snapshots
                 /\ after.snapshots[id] = h.snapshots[id]
      /\ \A id \in DOMAIN after.snapshots :
           \E i \in 1..N : after.versions[i].snapshotObjectId = id
  <2>1. Follows(after, h, pruned)
    BY <1>2, <1>8 DEF Follows
  <2> HIDE DEF h
  <2> QED BY <2>1, RecordedSnapshots
<1>10. \A i \in 1..N : i = N \/ i \in 1..N - 1
  BY <1>9
<1>11. SnapshotsReadable(after)
  <2> SUFFICES ASSUME NEW id \in DOMAIN after.snapshots
               PROVE  AuthorshipReadable(after.snapshots[id].headerMetadata)
    BY DEF SnapshotsReadable
  <2>1. PICK i \in 1..N : after.versions[i].snapshotObjectId = id
    BY <1>9
  <2>2. CASE i = N
    BY <1>5, <1>8, <2>1, <2>2 DEF GivesBack
  <2>3. CASE i \in 1..N - 1
    BY <1>2, <1>9, <2>1, <2>3 DEF SnapshotsReadable
  <2> QED BY <1>10, <2>2, <2>3
<1>12. /\ new.history = after /\ new.html = doc.html /\ new.ledger = doc.ledger
       /\ new.header = stored.header
  BY <1>7
<1>13. /\ RevisionAt(new, N) = doc.ledger.revision
       /\ BodyAt(new, N) = doc.html
  BY <1>6, <1>8, <1>12 DEF GivesBack, RevisionAt, BodyAt, LedgerOf
<1>14. ASSUME NEW i \in 1..N - 1
       PROVE  /\ i + pruned \in 1..Len(h.versions)
              /\ RevisionAt(new, i) = RevisionAt(doc, i + pruned)
              /\ BodyAt(new, i) = BodyAt(doc, i + pruned)
  BY <1>9, <1>12 DEF RevisionAt, BodyAt, LedgerOf
<1>15. ASSUME NEW i \in 1..N
       PROVE  /\ RevisionAt(new, i) \in 0..doc.ledger.revision
              /\ RevisionAt(new, i) = doc.ledger.revision => BodyAt(new, i) = doc.html
  <2>1. CASE i = N
    BY <1>6, <1>13, <2>1
  <2>2. CASE i \in 1..N - 1
    BY <1>2, <1>14, <2>2 DEF Captures
  <2> QED BY <1>10, <2>1, <2>2
<1>16. ASSUME NEW i \in 1..N, NEW j \in 1..N, i <= j
       PROVE  /\ RevisionAt(new, i) <= RevisionAt(new, j)
              /\ RevisionAt(new, i) = RevisionAt(new, j)
                   => BodyAt(new, i) = BodyAt(new, j)
  <2>1. CASE j = N
    BY <1>6, <1>13, <1>15, <2>1
  <2>2. CASE j \in 1..N - 1
    <3>1. i \in 1..N - 1
      BY <1>9, <1>16, <2>2
    <3>2. i + pruned <= j + pruned
      BY <1>8, <1>16
    <3> QED BY <1>2, <1>14, <2>2, <3>1, <3>2 DEF Captures
  <2> QED BY <1>10, <2>1, <2>2
<1>17. Captures(new)
  BY <1>12, <1>15, <1>16 DEF Captures
<1>18. IsDocument(new)
  <2>1. WellFormed(after)
    BY <1>8 DEF Sound
  <2> QED BY <1>4, <1>7, <1>12, <2>1 DEF IsDocument
<1>19. DocumentSound(new)
  BY <1>2, <1>8, <1>11, <1>12, <1>17, <1>18 DEF DocumentSound
<1> QED BY <1>12, <1>19 DEF new
(* A set no larger than the list it is read off. *)
LEMMA NoMoreThanListed ==
  ASSUME NEW S, NEW n \in Nat, NEW e, \A x \in S : \E i \in 1..n : e[i] = x,
         NEW limit \in Nat, n <= limit
  PROVE  Cardinality(S) <= limit
<1> DEFINE I == {i \in 1..n : e[i] \in S}
           f == [i \in I |-> e[i]]
<1>1. /\ IsFiniteSet(1..n) /\ Cardinality(1..n) = n
  BY FS_Interval
<1>2. /\ IsFiniteSet(I) /\ Cardinality(I) <= n
  BY <1>1, FS_Subset
<1>3. f \in Surjection(I, S)
  BY DEF Surjection
<1>4. IsFiniteSet(S) /\ Cardinality(S) <= Cardinality(I)
  BY <1>2, <1>3, FS_Surjection
<1>5. Cardinality(S) \in Nat /\ Cardinality(I) \in Nat
  BY <1>2, <1>4, FS_CardinalityType
<1> QED BY <1>2, <1>4, <1>5

(* The stores hold no more objects than there are commits. *)
LEMMA StoresAreSmall ==
  ASSUME NEW h, Sound(h), Len(h.versions) <= maximumVersionCount
  PROVE  /\ Cardinality(DOMAIN h.snapshots) <= maximumVersionCount
         /\ Cardinality(DOMAIN h.diffs) <= maximumVersionCount
<1> DEFINE N == Len(h.versions)
           snapshotIds == [i \in 1..N |-> h.versions[i].snapshotObjectId]
           diffIds == [i \in 1..N |-> h.versions[i].diffObjectId]
<1>1. /\ N \in Nat /\ Range(h.versions) = {h.versions[i] : i \in 1..N}
      /\ maximumVersionCount \in Nat
  BY Commits, LimitAssumption DEF Sound
<1>2. \A id \in DOMAIN h.snapshots : \E i \in 1..N : snapshotIds[i] = id
  BY <1>1 DEF Sound, Linked, SnapshotsSound
<1>3. \A id \in DOMAIN h.diffs : \E i \in 1..N : diffIds[i] = id
  BY <1>1 DEF Sound, Linked, DiffsSound
<1> HIDE DEF N, snapshotIds, diffIds
<1>4. N <= maximumVersionCount
  BY DEF N
<1>5. Cardinality(DOMAIN h.snapshots) <= maximumVersionCount
  BY <1>1, <1>2, <1>4, NoMoreThanListed
<1>6. Cardinality(DOMAIN h.diffs) <= maximumVersionCount
  BY <1>1, <1>3, <1>4, NoMoreThanListed
<1> QED BY <1>5, <1>6

(* A sound document can be saved, its file loads, and what loads is the    *)
(* document with its ledger stored and nobody active.                      *)
LEMMA SavedReloads ==
  ASSUME OwnCommentsOnly, NEW doc, DocumentSound(doc)
  PROVE  /\ CanSave(doc)
         /\ CanLoad(toFileBytes(doc))
         /\ fromFileBytes(toFileBytes(doc)) =
              [synced(doc) EXCEPT !.ledger.active = Unattributed]
         /\ DocumentSound(fromFileBytes(toFileBytes(doc)))
<1> DEFINE f == toFileBytes(doc)
           header == storeAuthorship(doc.ledger, doc.header)
           asleep == [doc.ledger EXCEPT !.active = Unattributed]
<1>1. /\ IsDocument(doc) /\ LedgerSound(doc.ledger) /\ Sound(doc.history)
      /\ Len(doc.history.versions) <= maximumVersionCount
      /\ SnapshotsReadable(doc.history)
  BY DEF DocumentSound
<1>2. doc.ledger \in Ledger /\ doc.html \in Html /\ doc.header \in Metadata
  BY <1>1 DEF IsDocument
<1>3. AuthorshipReadable(header) /\ readAuthorship(header) = asleep
  BY <1>1, <1>2, StoredAuthorshipReads
<1>4. /\ asleep = [revision |-> doc.ledger.revision, last |-> doc.ledger.last,
                   active |-> Unattributed]
      /\ asleep \in Ledger /\ LedgerSound(asleep)
      /\ isEmpty(asleep) <=> isEmpty(doc.ledger)
      /\ [asleep EXCEPT !.active = Unattributed] = asleep
  <2>1. asleep = [revision |-> doc.ledger.revision, last |-> doc.ledger.last,
                  active |-> Unattributed]
    BY <1>2 DEF Ledger
  <2>2. /\ doc.ledger.revision \in 0..MaxRevision
        /\ doc.ledger.last \in Author \cup {Unattributed}
    BY <1>2 DEF Ledger
  <2> HIDE DEF asleep
  <2>3. asleep \in Ledger /\ LedgerSound(asleep)
    BY <1>1, <2>1, <2>2 DEF Ledger, LedgerSound
  <2>4. [asleep EXCEPT !.active = Unattributed] = asleep
    BY <2>1
  <2> QED BY <2>1, <2>3, <2>4 DEF isEmpty
<1>5. verifyIntegrity(doc.history)
  BY <1>1, IntegrityIsLinked DEF Sound
<1>6. /\ f.header = header /\ f.bodyHtml = doc.html /\ f.history = doc.history
  BY DEF toFileBytes
<1> HIDE DEF asleep, header, f
<1>7. envelope(f) = markupBytes(doc.html, asleep)
  BY <1>3, <1>6 DEF envelope
<1>8. /\ MarkupReadable(envelope(f))
      /\ MarkupBody(envelope(f)) = doc.html
      /\ MarkupLedger(envelope(f)) = asleep
  BY <1>2, <1>4, <1>7, EnvelopeReads DEF OwnCommentsOnly
<1>9. CanLoad(f)
  BY <1>1, <1>3, <1>5, <1>6, <1>8, StoresAreSmall DEF CanLoad, SnapshotsReadable
<1> DEFINE new == fromFileBytes(f)
<1>10. new = [header |-> header, html |-> doc.html, ledger |-> asleep,
              history |-> doc.history]
  BY <1>6, <1>8 DEF fromFileBytes
<1>11. new = [synced(doc) EXCEPT !.ledger.active = Unattributed]
  <2>1. synced(doc) = [header |-> header, html |-> doc.html, ledger |-> doc.ledger,
                       history |-> doc.history]
    BY SyncedSound DEF header
  <2>2. [synced(doc) EXCEPT !.ledger.active = Unattributed] =
          [synced(doc) EXCEPT !.ledger = asleep]
    BY <2>1 DEF asleep
  <2> QED BY <1>10, <2>1, <2>2
<1>12. DocumentSound(new)
  <2>1. header \in Metadata
    BY <1>2, DocumentAssumption DEF header
  <2>2. /\ new.header = header /\ new.html = doc.html /\ new.ledger = asleep
        /\ new.history = doc.history
    BY <1>10
  <2> HIDE DEF new
  <2>3. IsDocument(new)
    BY <1>1, <1>2, <1>4, <1>10, <2>1, <2>2 DEF IsDocument
  <2>4. new.ledger.revision = doc.ledger.revision /\ doc.ledger.revision \in Nat
    BY <1>2, <1>4, <2>2, LedgerSteps
  <2> QED BY <1>4, <2>2, <2>3, <2>4, HistoryKept
<1> QED BY <1>5, <1>9, <1>11, <1>12 DEF CanSave, f

-----------------------------------------------------------------------------
(* Committed edits. *)

(* A dump tells count and last author. *)
LEMMA SameDump ==
  ASSUME NEW k, NEW l
  PROVE  dump(k) = dump(l) <=> k.revision = l.revision /\ k.last = l.last
  BY DEF dump

(* A ledger that was not counted on leaves the envelope to tell the bodies *)
(* apart.                                                                  *)
LEMMA EnvelopeTellsBodies ==
  ASSUME NEW a \in Html, NEW b \in Html, NEW k \in Ledger, NEW l \in Ledger,
         dump(k) = dump(l), markupBytes(a, k) = markupBytes(b, l)
  PROVE  a = b
<1>1. k.revision = l.revision
  BY DEF dump
<1>2. CASE isEmpty(k)
  BY <1>1, <1>2 DEF markupBytes, isEmpty
<1>3. CASE ~isEmpty(k)
  <2> DEFINE comment == AuthorshipComment(dump(k))
             B == Byte \cup {comment}
  <2>1. Append(a, comment) = Append(b, comment)
    BY <1>1, <1>3 DEF markupBytes, isEmpty
  <2>2. a \in Seq(B) /\ b \in Seq(B) /\ comment \in B
    BY ContentAssumption, SeqMonotonic
  <2>3. /\ Len(Append(a, comment)) = Len(a) + 1
        /\ Len(Append(b, comment)) = Len(b) + 1
        /\ \A i \in 1..Len(a) : Append(a, comment)[i] = a[i]
        /\ \A i \in 1..Len(b) : Append(b, comment)[i] = b[i]
        /\ Len(a) \in Nat /\ Len(b) \in Nat
    BY <2>2, AppendProperties, LenProperties
  <2> HIDE DEF comment
  <2>4. Len(a) = Len(b) /\ \A i \in 1..Len(a) : a[i] = b[i]
    BY <2>1, <2>3
  <2> QED BY <2>2, <2>4, SeqEqual
<1> QED BY <1>2, <1>3
(* An edit whose callback changed the draft and left the ledger alone.     *)
Unstamped(before, after) ==
  EditChanged(before, after) /\ dump(after.ledger) = dump(before.ledger)

(* The document an edit commits: the draft with its ledger stored, counted *)
(* once more if the draft was changed and not stamped.                     *)
LEMMA CommittedEdit ==
  ASSUME NEW before, IsDocument(before), NEW after, DocumentSound(after),
         NEW new, new = editCommitted(before, after),
         new.ledger.revision <= MaxRevision
  PROVE  /\ DocumentSound(new)
         /\ new.html = after.html
         /\ Restrict(new.header, DOMAIN new.header \ {MetadataKey})
              = Restrict(after.header, DOMAIN after.header \ {MetadataKey})
         /\ Unstamped(before, after)
              => new.ledger.revision = after.ledger.revision + 1
         /\ ~Unstamped(before, after)
              => new.ledger.revision = after.ledger.revision
<1> DEFINE unstamped == Unstamped(before, after)
           counted == [after EXCEPT !.ledger = changeRecorded(@)]
           draftCounted == IF unstamped THEN counted ELSE after
<1>1. IsDocument(after) /\ after.ledger \in Ledger /\ after.ledger.revision \in Nat
  BY LedgerSteps DEF DocumentSound, IsDocument
<1>2. new = [draftCounted EXCEPT
               !.header = storeAuthorship(draftCounted.ledger, draftCounted.header)]
  BY Zenon DEF editCommitted, synced, Unstamped
<1>3. counted = [header |-> after.header, html |-> after.html,
                 ledger |-> changeRecorded(after.ledger), history |-> after.history]
  <2>1. counted = [after EXCEPT !.ledger = changeRecorded(after.ledger)]
    OBVIOUS
  <2> HIDE DEF counted
  <2> QED BY <1>1, <2>1, MembersReplaced DEF IsDocument, HasMembers
<1> HIDE DEF unstamped, counted
<1>4. /\ HasMembers(draftCounted)
      /\ draftCounted.html = after.html /\ draftCounted.header = after.header
      /\ draftCounted.history = after.history
      /\ draftCounted.ledger =
           IF unstamped THEN changeRecorded(after.ledger) ELSE after.ledger
  <2>1. CASE unstamped
    BY <1>3, <2>1 DEF HasMembers
  <2>2. CASE ~unstamped
    BY <1>1, <2>2 DEF HasMembers, IsDocument
  <2> QED BY <2>1, <2>2
<1> HIDE DEF draftCounted
<1>5. new = [header |-> storeAuthorship(draftCounted.ledger, after.header),
             html |-> after.html, ledger |-> draftCounted.ledger,
             history |-> after.history]
  <2>1. new = synced(draftCounted)
    BY <1>2 DEF synced
  <2> QED BY <1>4, <2>1, SyncedMembers
<1>6. /\ draftCounted.ledger.revision <= MaxRevision
      /\ unstamped => draftCounted.ledger.revision = after.ledger.revision + 1
      /\ ~unstamped => draftCounted.ledger.revision = after.ledger.revision
  BY <1>1, <1>4, <1>5, LedgerSteps
<1>7. draftCounted.ledger \in Ledger
  <2>1. CASE unstamped
    <3>1. draftCounted.ledger = [revision |-> after.ledger.revision + 1,
            last |-> after.ledger.active, active |-> after.ledger.active]
      BY <1>1, <1>4, <2>1, LedgerSteps
    <3>2. after.ledger.revision + 1 \in 0..MaxRevision
      BY <1>1, <1>6, <2>1, DocumentAssumption
    <3>3. after.ledger.active \in Author \cup {Unattributed}
      BY <1>1 DEF Ledger
    <3> QED BY <3>1, <3>2, <3>3 DEF Ledger
  <2>2. CASE ~unstamped
    BY <1>1, <1>4, <2>2
  <2> QED BY <2>1, <2>2
<1>8. DocumentSound(draftCounted)
  <2>1. CASE unstamped
    BY <1>1, <1>4, <1>6, <1>7, <2>1, CountedSound DEF IsDocument, HasMembers
  <2>2. CASE ~unstamped
    <3>1. draftCounted = after
      BY <2>2 DEF draftCounted
    <3> QED BY <3>1
  <2> QED BY <2>1, <2>2
<1>9. DocumentSound(new)
  <2>1. new = synced(draftCounted)
    BY <1>2 DEF synced
  <2> QED BY <1>8, <2>1, SyncedSound
<1>10. /\ new.html = after.html
       /\ new.ledger = draftCounted.ledger
       /\ new.header = storeAuthorship(draftCounted.ledger, after.header)
  BY <1>5
<1>11. Restrict(new.header, DOMAIN new.header \ {MetadataKey})
         = Restrict(after.header, DOMAIN after.header \ {MetadataKey})
  BY <1>7, <1>8, <1>10, StoredAuthorshipReads DEF DocumentSound
<1> QED BY <1>6, <1>9, <1>10, <1>11 DEF unstamped

(* An edit that leaves count, last author, header and envelope alone has   *)
(* changed no content.                                                     *)
LEMMA UnchangedEdit ==
  ASSUME NEW before, IsDocument(before), NEW after, IsDocument(after),
         ~EditChanged(before, after), dump(after.ledger) = dump(before.ledger)
  PROVE  after.header = before.header /\ after.html = before.html
  BY EnvelopeTellsBodies DEF EditChanged, IsDocument

(* Selecting an author: a change exactly when the count moves.             *)
LEMMA AuthorSelected ==
  ASSUME NEW doc, DocumentSound(doc), NEW author \in Author,
         NEW new, new = synced([doc EXCEPT !.ledger = authorSet(@, author)]),
         new.ledger.revision <= MaxRevision
  PROVE  /\ DocumentSound(new)
         /\ \/ /\ new.ledger.revision = doc.ledger.revision
               /\ new.ledger.last = doc.ledger.last
            \/ new.ledger.revision = doc.ledger.revision + 1
<1> DEFINE inner == [doc EXCEPT !.ledger = authorSet(@, author)]
           ledger == authorSet(doc.ledger, author)
<1>1. IsDocument(doc) /\ doc.ledger \in Ledger /\ doc.ledger.revision \in Nat
  BY LedgerSteps DEF DocumentSound, IsDocument
<1>2. /\ inner = [header |-> doc.header, html |-> doc.html, ledger |-> ledger,
                  history |-> doc.history]
      /\ HasMembers(inner)
  <2>1. inner = [doc EXCEPT !.ledger = ledger]
    OBVIOUS
  <2> HIDE DEF inner, ledger
  <2> QED BY <1>1, <2>1, MembersReplaced DEF IsDocument, HasMembers
<1>3. \/ ledger = [revision |-> doc.ledger.revision, last |-> doc.ledger.last,
                   active |-> author]
      \/ ledger = [revision |-> doc.ledger.revision + 1, last |-> author,
                   active |-> author]
  BY <1>1, LedgerSteps
<1> HIDE DEF inner, ledger
<1>4. inner.ledger = ledger /\ inner.header = doc.header /\ inner.html = doc.html
      /\ inner.history = doc.history
  BY <1>2
<1>5. new = [header |-> storeAuthorship(ledger, doc.header), html |-> doc.html,
             ledger |-> ledger, history |-> doc.history]
  <2>1. new = synced(inner)
    BY DEF inner
  <2> QED BY <1>2, <1>4, <2>1, SyncedMembers
<1>6. ledger \in Ledger
  <2>1. /\ ledger.revision \in 0..MaxRevision
        /\ ledger = [revision |-> ledger.revision, last |-> ledger.last,
                     active |-> ledger.active]
        /\ ledger.last \in Author \cup {Unattributed}
        /\ ledger.active \in Author \cup {Unattributed}
    <3>1. ledger.revision <= MaxRevision
      BY <1>5
    <3>2. doc.ledger.last \in Author \cup {Unattributed}
      BY <1>1 DEF Ledger
    <3> QED BY <1>1, <1>3, <3>1, <3>2, DocumentAssumption
  <2> QED BY <2>1 DEF Ledger
<1>7. DocumentSound(inner)
  <2>1. CASE ledger.revision = doc.ledger.revision + 1
    BY <1>1, <1>2, <1>4, <1>6, <2>1, CountedSound DEF IsDocument
  <2>2. CASE ledger.revision = doc.ledger.revision /\ ledger.last = doc.ledger.last
    <3>1. IsDocument(inner)
      BY <1>1, <1>2, <1>4, <1>6 DEF IsDocument
    <3>2. LedgerSound(inner.ledger)
      BY <1>4, <2>2 DEF DocumentSound, LedgerSound
    <3> QED BY <1>1, <1>4, <2>2, <3>1, <3>2, HistoryKept
  <2> QED BY <1>3, <2>1, <2>2
<1>8. DocumentSound(new)
  <2>1. new = synced(inner)
    BY DEF inner
  <2> QED BY <1>7, <2>1, SyncedSound
<1> QED BY <1>3, <1>5, <1>8
(* The block editor: the same body, or a counted change. *)
LEMMA BodyEdited ==
  ASSUME NEW doc, DocumentSound(doc), NEW html \in Html,
         NEW new, new = bodyEdited(doc, html),
         new.ledger.revision <= MaxRevision
  PROVE  /\ DocumentSound(new)
         /\ \/ /\ new.ledger.revision = doc.ledger.revision
               /\ new.ledger.last = doc.ledger.last
            \/ new.ledger.revision = doc.ledger.revision + 1
<1>1. CASE doc.html = html
  BY <1>1 DEF bodyEdited
<1>2. CASE doc.html # html
  <2> DEFINE ledger == changeRecorded(doc.ledger)
  <2>1. IsDocument(doc) /\ doc.ledger \in Ledger
    BY DEF DocumentSound, IsDocument
  <2>2. new = [doc EXCEPT !.html = html, !.ledger = ledger]
    BY <1>2 DEF bodyEdited
  <2>3. /\ ledger = [revision |-> doc.ledger.revision + 1,
                     last |-> doc.ledger.active, active |-> doc.ledger.active]
        /\ doc.ledger.revision \in Nat
    BY <2>1, LedgerSteps
  <2> HIDE DEF ledger
  <2>4. new = [header |-> doc.header, html |-> html, ledger |-> ledger,
               history |-> doc.history]
    BY <2>1, <2>2, MembersReplaced DEF IsDocument, HasMembers
  <2>5. /\ doc.ledger.active \in Author \cup {Unattributed}
        /\ doc.ledger.revision + 1 \in 0..MaxRevision
    BY <2>1, <2>3, <2>4, DocumentAssumption DEF Ledger
  <2>6. ledger \in Ledger
    BY <2>3, <2>5 DEF Ledger
  <2>7. DocumentSound(new)
    BY <2>3, <2>4, <2>6, CountedSound
  <2> QED BY <2>3, <2>4, <2>7
<1> QED BY <1>1, <1>2

(* Whatever a callback writes into the header. *)
LEMMA HeaderWritten ==
  ASSUME NEW doc, DocumentSound(doc), NEW header \in Metadata,
         NEW new, new = [doc EXCEPT !.header = header]
  PROVE  DocumentSound(new) /\ new.ledger = doc.ledger
<1>1. IsDocument(doc) /\ doc.ledger.revision \in Nat
  BY LedgerSteps DEF DocumentSound, IsDocument
<1>2. new = [header |-> header, html |-> doc.html, ledger |-> doc.ledger,
             history |-> doc.history]
  BY <1>1, MembersReplaced DEF IsDocument, HasMembers
<1>3. /\ new.header = header /\ new.html = doc.html /\ new.ledger = doc.ledger
      /\ new.history = doc.history
  BY <1>2
<1>4. IsDocument(new)
  BY <1>1, <1>2, <1>3 DEF IsDocument
<1>5. /\ LedgerSound(new.ledger)
      /\ new.ledger.revision >= doc.ledger.revision
  BY <1>1, <1>3 DEF DocumentSound
<1> QED BY <1>3, <1>4, <1>5, HistoryKept

-----------------------------------------------------------------------------
(* The invariant. *)

(* An operation on the current document: on the draft while there is one.  *)
LEMMA BecomesKeepsTheInvariant ==
  ASSUME IInv, NEW new, DocumentSound(new), Becomes(new),
         \/ /\ new.ledger.revision = Current.ledger.revision
            /\ new.ledger.last = Current.ledger.last
         \/ new.ledger.revision = Current.ledger.revision + 1
  PROVE  IInv'
<1>1. /\ new.ledger.revision \in Nat /\ new.ledger.revision <= MaxRevision
      /\ document.ledger.revision \in Nat /\ stamps \in Nat /\ MaxRevision \in Nat
  BY LedgerSteps, DocumentAssumption DEF IInv, DocumentSound, IsDocument, Becomes
<1>2. CASE Editing
  <2>1. /\ draft' = new /\ stamps' = stamps + new.ledger.revision - draft.ledger.revision
        /\ document' = document /\ file' = file
    BY <1>2 DEF Becomes
  <2>2. /\ draft.ledger.revision = document.ledger.revision + stamps
        /\ stamps = 0 => draft.ledger.last = document.ledger.last
    BY <1>2 DEF IInv, DraftSound
  <2>3. /\ stamps' \in Nat
        /\ new.ledger.revision = document.ledger.revision + stamps'
        /\ stamps' = 0 => new.ledger.last = document.ledger.last
    BY <1>1, <1>2, <2>1, <2>2 DEF Current
  <2>4. stamps' \in 0..MaxRevision
    BY <1>1, <2>3
  <2>5. DraftSound'
    BY <2>1, <2>3 DEF DraftSound
  <2> QED BY <2>1, <2>4, <2>5 DEF IInv
<1>3. CASE ~Editing
  <2>1. document' = new /\ UNCHANGED <<draft, stamps, file>>
    BY <1>3 DEF Becomes
  <2> QED BY <1>3, <2>1 DEF IInv, Editing
<1> QED BY <1>2, <1>3

(* The document an operation is called on is sound. *)
LEMMA CurrentIsSound ==
  ASSUME IInv
  PROVE  /\ DocumentSound(Current)
         /\ Current.ledger.revision \in Nat
  BY LedgerSteps DEF IInv, DraftSound, Current, DocumentSound, IsDocument

(* A document is assembled without a history and without an author. *)
LEMMA AssembledIsSound ==
  ASSUME NEW html \in Html
  PROVE  DocumentSound(fromHtml(html))
<1> DEFINE doc == fromHtml(html)
<1>1. /\ doc.header = EmptyMetadata /\ doc.html = html
      /\ doc.ledger = EmptyLedger /\ doc.history = EmptyHistory
      /\ HasMembers(doc)
  BY DEF fromHtml, HasMembers
<1> HIDE DEF doc
<1>2. EmptyLedger \in Ledger /\ LedgerSound(EmptyLedger)
  BY DocumentAssumption DEF EmptyLedger, Ledger, LedgerSound
<1>3. EmptyHistory.versions = <<>> /\ Len(EmptyHistory.versions) = 0
      /\ EmptyHistory.snapshots = EmptyMap /\ EmptyHistory.diffs = EmptyMap
      /\ EmptyHistory.prunedVersionCount = 0
      /\ EmptyHistory.shallowBoundaryParentObjectId = NoObject
      /\ DOMAIN EmptyMap = {}
  BY DEF EmptyHistory, EmptyMap
<1>4. WellFormed(EmptyHistory)
  <2>1. Range(<<>>) = {} /\ <<>> \in Seq({})
    BY DEF Range
  <2>2. EmptyMap = [id \in DOMAIN EmptyMap |-> EmptyMap[id]]
    BY DEF EmptyMap
  <2>3. 0 \in 0..MaxPrunedCount
    BY LimitAssumption
  <2>4. EmptyHistory = [versions |-> EmptyHistory.versions,
          snapshots |-> EmptyHistory.snapshots, diffs |-> EmptyHistory.diffs,
          prunedVersionCount |-> EmptyHistory.prunedVersionCount,
          shallowBoundaryParentObjectId |-> EmptyHistory.shallowBoundaryParentObjectId]
    BY DEF EmptyHistory
  <2> QED BY <1>3, <2>1, <2>2, <2>3, <2>4 DEF WellFormed
<1>5. Sound(EmptyHistory)
  BY <1>3, <1>4 DEF Sound, Linked, BoundaryDeclared, SnapshotsSound, DiffsSound
<1>6. Captures(doc)
  BY <1>1, <1>3 DEF Captures
<1>7. IsDocument(doc)
  BY <1>1, <1>2, <1>4, ContentAssumption DEF IsDocument, HasMembers
<1>8. SnapshotsReadable(EmptyHistory)
  BY <1>3 DEF SnapshotsReadable
<1> QED BY <1>1, <1>2, <1>3, <1>5, <1>6, <1>7, <1>8, LimitAssumption
        DEF DocumentSound, doc

(* A document that is created is sound.                                    *)
LEMMA InitInvariant == Init => IInv
<1> SUFFICES ASSUME Init PROVE IInv
  OBVIOUS
<1>1. PICK html \in InitialHtml : document = fromHtml(html)
  BY DEF Init
<1>2. DocumentSound(document)
  BY <1>1, AssembledIsSound, DocumentAssumption
<1> QED BY <1>2, DocumentAssumption DEF Init, IInv, Editing

(* The invariant is inductive while no body brings a comment of its own.   *)
LEMMA NextInvariant ==
  ASSUME OwnCommentsOnly, IInv, [Next]_vars
  PROVE  IInv'
<1> USE CurrentIsSound
<1>1. CASE UNCHANGED vars
  BY <1>1 DEF vars, IInv, Editing, DraftSound
<1>2. ASSUME NEW author \in Author, SetFileAuthor(author)
      PROVE  IInv'
  <2> DEFINE new == synced([Current EXCEPT !.ledger = authorSet(@, author)])
  <2>1. Becomes(new)
    BY <1>2 DEF SetFileAuthor
  <2>2. new.ledger.revision <= MaxRevision
    BY <2>1 DEF Becomes
  <2>3. /\ DocumentSound(new)
        /\ \/ /\ new.ledger.revision = Current.ledger.revision
              /\ new.ledger.last = Current.ledger.last
           \/ new.ledger.revision = Current.ledger.revision + 1
    BY <2>2, AuthorSelected
  <2> QED BY <2>1, <2>3, BecomesKeepsTheInvariant
<1>3. ASSUME NEW html \in Html, EditBody(html)
      PROVE  IInv'
  <2> DEFINE new == bodyEdited(Current, html)
  <2>1. Becomes(new)
    BY <1>3 DEF EditBody
  <2>2. new.ledger.revision <= MaxRevision
    BY <2>1 DEF Becomes
  <2>3. /\ DocumentSound(new)
        /\ \/ /\ new.ledger.revision = Current.ledger.revision
              /\ new.ledger.last = Current.ledger.last
           \/ new.ledger.revision = Current.ledger.revision + 1
    BY <2>2, BodyEdited
  <2> QED BY <2>1, <2>3, BecomesKeepsTheInvariant
<1>4. ASSUME NEW label \in Label, NEW time \in Timestamp, RecordVersion(label, time)
      PROVE  IInv'
  <2> DEFINE new == versionRecorded(Current, label, time)
  <2>1. canRecord(Current.history) /\ Becomes(new)
    BY <1>4 DEF RecordVersion
  <2>2. DocumentSound(new) /\ new.ledger = Current.ledger
    BY <2>1, VersionRecordedSound
  <2> QED BY <2>1, <2>2, BecomesKeepsTheInvariant
<1>5. CASE RecordVersionThrows
  <2> DEFINE new == synced(Current)
  <2>1. Becomes(new)
    BY <1>5 DEF RecordVersionThrows
  <2>2. DocumentSound(new) /\ new.ledger = Current.ledger
    BY SyncedSound
  <2> QED BY <2>1, <2>2, BecomesKeepsTheInvariant
<1>6. CASE BeginEdit
  <2>1. document' = document /\ draft' = document /\ stamps' = 0 /\ file' = file
    BY <1>6 DEF BeginEdit
  <2>2. document.ledger.revision \in Nat
    BY LedgerSteps DEF IInv, DocumentSound, IsDocument
  <2>3. DraftSound'
    BY <2>1, <2>2 DEF DraftSound, IInv
  <2> QED BY <2>1, <2>3, DocumentAssumption DEF IInv
<1>7. ASSUME Editing, NEW key, NEW value, written(draft.header, key, value) \in Metadata,
             Becomes([draft EXCEPT !.header = written(@, key, value)])
      PROVE  IInv'
  <2> DEFINE header == written(draft.header, key, value)
             new == [draft EXCEPT !.header = header]
  <2>1. DocumentSound(draft) /\ Current = draft
    BY <1>7 DEF IInv, DraftSound, Current
  <2>2. DocumentSound(new) /\ new.ledger = draft.ledger
    BY <1>7, <2>1, HeaderWritten
  <2>3. Becomes(new)
    BY <1>7
  <2> HIDE DEF new
  <2> QED BY <2>1, <2>2, <2>3, BecomesKeepsTheInvariant
<1>8. Editing => draft.header \in Metadata
  BY DEF IInv, DraftSound, DocumentSound, IsDocument
<1>9. ASSUME NEW title \in Title, WriteTitle(title)
      PROVE  IInv'
  <2>1. /\ Editing
        /\ Becomes([draft EXCEPT !.header = written(@, "Title", title)])
    BY <1>9 DEF WriteTitle
  <2>2. written(draft.header, "Title", title) \in Metadata
    BY <1>8, <2>1, DocumentAssumption
  <2> QED BY <1>7, <2>1, <2>2
<1>10. CASE WriteReservedKey
  <2>1. /\ Editing
        /\ Becomes([draft EXCEPT !.header = written(@, MetadataKey, UnreadableDump)])
    BY <1>10 DEF WriteReservedKey
  <2>2. written(draft.header, MetadataKey, UnreadableDump) \in Metadata
    BY <1>8, <2>1, DocumentAssumption
  <2> QED BY <1>7, <2>1, <2>2
<1>11. CASE CommitEdit
  <2>1. /\ Editing
        /\ document' = editCommitted(document, draft)
        /\ document'.ledger.revision <= MaxRevision
        /\ draft' = NoDraft /\ stamps' = 0 /\ file' = file
    BY <1>11 DEF CommitEdit
  <2>2. DocumentSound(draft) /\ IsDocument(document)
    BY <2>1 DEF IInv, DraftSound, DocumentSound
  <2>3. DocumentSound(document')
    BY <2>1, <2>2, CommittedEdit
  <2> QED BY <2>1, <2>3, DocumentAssumption DEF IInv, Editing
<1>12. CASE RejectEdit
  BY <1>12, DocumentAssumption DEF RejectEdit, IInv, Editing
<1>13. CASE Save
  <2>1. /\ file' = toFileBytes(document)
        /\ document' = document /\ draft' = draft /\ stamps' = stamps
    BY <1>13 DEF Save
  <2>2. DocumentSound(fromFileBytes(toFileBytes(document)))
    BY SavedReloads DEF IInv
  <2>3. DocumentSound(fromFileBytes(file'))
    BY <2>1, <2>2
  <2> QED BY <2>1, <2>3 DEF IInv, Editing, DraftSound
<1>14. CASE Load
  <2>1. /\ ~Editing /\ file # NoFile
        /\ document' = fromFileBytes(file)
        /\ draft' = draft /\ stamps' = stamps /\ file' = file
    BY <1>14 DEF Load
  <2> QED BY <2>1 DEF IInv, Editing
<1> QED BY <1>1, <1>2, <1>3, <1>4, <1>5, <1>6, <1>9, <1>10, <1>11, <1>12, <1>13,
           <1>14 DEF Next

(* IInv holds in every state: the document, the draft and what the file    *)
(* would load as are sound.                                                *)
THEOREM DocumentInvariant ==
  ASSUME OwnCommentsOnly
  PROVE  Spec => []IInv
<1>1. Init => IInv
  BY InitInvariant
<1>2. IInv /\ [Next]_vars => IInv'
  BY NextInvariant
<1> QED BY <1>1, <1>2, PTL DEF Spec

(* The document and the draft keep their types through every operation.    *)
THEOREM DocumentTypeOK ==
  ASSUME OwnCommentsOnly
  PROVE  Spec => []TypeOK
<1>1. IInv => TypeOK
  BY DEF IInv, DraftSound, DocumentSound, TypeOK, Editing
<1> QED BY <1>1, DocumentInvariant, PTL

(* Whatever was edited, recorded, rejected or loaded before: the document  *)
(* can be saved, its file loads, and what loads is the document.           *)
THEOREM EverySaveReloads ==
  ASSUME OwnCommentsOnly
  PROVE  Spec => []SavedFileReloads
<1>1. IInv => SavedFileReloads
  BY SavedReloads DEF IInv, SavedFileReloads
<1> QED BY <1>1, DocumentInvariant, PTL

(* Every version holds the ledger of its moment, along the whole history.  *)
THEOREM VersionsHoldTheirLedger ==
  ASSUME OwnCommentsOnly
  PROVE  Spec => []VersionsCaptureTheLedger
<1>1. IInv => VersionsCaptureTheLedger
  <2> SUFFICES ASSUME IInv,
                      NEW i \in 1..Len(document.history.versions),
                      NEW j \in 1..Len(document.history.versions), i <= j
               PROVE  /\ RevisionAt(document, i) <= RevisionAt(document, j)
                      /\ RevisionAt(document, j) <= document.ledger.revision
                      /\ RevisionAt(document, i) = RevisionAt(document, j)
                           => BodyAt(document, i) = BodyAt(document, j)
    BY DEF VersionsCaptureTheLedger, RevisionAt, BodyAt
  <2>1. Captures(document)
    BY DEF IInv, DocumentSound
  <2> QED BY <2>1 DEF Captures
<1> QED BY <1>1, DocumentInvariant, PTL

(* A committed edit that changed the content is counted once if its draft  *)
(* was not stamped, and as often as it was otherwise.                      *)
THEOREM EditsAreStampedOnce ==
  ASSUME OwnCommentsOnly
  PROVE  Spec => EditsStampOnce
<1>1. ASSUME IInv, CommitEdit, ContentOf(document') # ContentOf(document)
      PROVE  document'.ledger.revision =
               document.ledger.revision + (IF stamps = 0 THEN 1 ELSE stamps)
  <2>1. /\ Editing
        /\ document' = editCommitted(document, draft)
        /\ document'.ledger.revision <= MaxRevision
    BY <1>1 DEF CommitEdit
  <2>2. /\ DocumentSound(draft) /\ IsDocument(document) /\ IsDocument(draft)
        /\ draft.ledger.revision = document.ledger.revision + stamps
        /\ stamps = 0 => draft.ledger.last = document.ledger.last
        /\ stamps \in Nat /\ document.ledger.revision \in Nat
    BY <1>1, <2>1, LedgerSteps, DocumentAssumption
       DEF IInv, DraftSound, DocumentSound, IsDocument
  <2>3. /\ document'.html = draft.html
        /\ Restrict(document'.header, DOMAIN document'.header \ {MetadataKey})
             = Restrict(draft.header, DOMAIN draft.header \ {MetadataKey})
        /\ Unstamped(document, draft)
             => document'.ledger.revision = draft.ledger.revision + 1
        /\ ~Unstamped(document, draft)
             => document'.ledger.revision = draft.ledger.revision
    BY <2>1, <2>2, CommittedEdit
  <2>4. stamps = 0 <=> dump(draft.ledger) = dump(document.ledger)
    <3>1. stamps = 0 <=> draft.ledger.revision = document.ledger.revision
      BY <2>2
    <3> QED BY <2>2, <3>1, SameDump
  <2>5. stamps = 0 => EditChanged(document, draft)
    <3> SUFFICES ASSUME stamps = 0, ~EditChanged(document, draft)
                 PROVE  FALSE
      OBVIOUS
    <3>1. draft.header = document.header /\ draft.html = document.html
      BY <2>2, <2>4, UnchangedEdit
    <3> QED BY <1>1, <2>3, <3>1 DEF ContentOf
  <2> QED BY <2>2, <2>3, <2>4, <2>5 DEF Unstamped
<1>2. IInv /\ [Next]_vars =>
        [CommitEdit /\ ContentOf(document') # ContentOf(document) =>
           document'.ledger.revision =
             document.ledger.revision + (IF stamps = 0 THEN 1 ELSE stamps)]_vars
  BY <1>1
<1> QED BY <1>2, DocumentInvariant, PTL DEF Spec, EditsStampOnce
=============================================================================
