--------------------------- MODULE VersionObjects ---------------------------
(***************************************************************************)
(* The value of a ThinkingSpaceDocumentVersionHistory and the operations   *)
(* on it: commits over content-addressed snapshots and deltas, retention   *)
(* of the newest commits, a shallow boundary, and the collection of        *)
(* unreferenced objects.                                                   *)
(*                                                                         *)
(* An object id is the pair of the object's type and its payload, which    *)
(* is what a collision-free SHA-256 of the framed payload tells apart; the *)
(* empty id is the empty sequence.  A store (std::map) is a function from  *)
(* ids to objects.                                                         *)
(***************************************************************************)
EXTENDS TextDiff

CONSTANTS
  Byte,                  \* alphabet of header encodings and bodies
  Metadata,              \* header metadata maps
  EmptyMetadata,         \* the metadata of a default-constructed header
  encodedHeader(_),    \* their encoding; CanonicalHeader checks the real one
  Html,                  \* body sources
  Label,                 \* commit labels
  Timestamp,             \* creation times, given by the caller or by utcNow
  maximumVersionCount,   \* retention limit, 100 in the code
  MaxPrunedCount         \* largest std::uint64_t

ASSUME ContentAssumption ==
  /\ EmptyMetadata \in Metadata
  /\ \A m \in Metadata : encodedHeader(m) \in Seq(Byte)
  /\ \A m, n \in Metadata : encodedHeader(m) = encodedHeader(n) => m = n
  /\ Html \subseteq Seq(Byte)
  /\ <<>> \in Html

ASSUME LimitAssumption ==
  /\ maximumVersionCount \in Nat \ {0}
  /\ MaxPrunedCount \in Nat \ {0}

-----------------------------------------------------------------------------
(* Objects and their ids. *)

NoObject == <<>>

hashObject(type, payload) == <<type, payload>>

makeSnapshotFromContent(metadata, html) ==
  LET headerId == hashObject("blob", encodedHeader(metadata))
      bodyId == hashObject("blob", html)
  IN [objectId |-> hashObject("tree", <<headerId, bodyId>>),
      headerObjectId |-> headerId,
      bodyObjectId |-> bodyId,
      headerMetadata |-> metadata,
      bodyHtml |-> html]

makeEmptySnapshot == makeSnapshotFromContent(EmptyMetadata, <<>>)

snapshotMatchesId(snapshot) ==
  snapshot = makeSnapshotFromContent(snapshot.headerMetadata, snapshot.bodyHtml)

diffObjectId(base, target, header, body) ==
  hashObject("diff", <<base, target, header, body>>)

makeDiff(base, target) ==
  LET header == makeTextDiff(encodedHeader(base.headerMetadata),
                             encodedHeader(target.headerMetadata))
      body == makeTextDiff(base.bodyHtml, target.bodyHtml)
  IN [objectId |-> diffObjectId(base.objectId, target.objectId, header, body),
      baseSnapshotObjectId |-> base.objectId,
      targetSnapshotObjectId |-> target.objectId,
      header |-> header,
      body |-> body]

versionObjectId(version) ==
  hashObject("commit", <<version.snapshotObjectId, version.parentObjectId,
                         version.diffObjectId, version.createdAtUtc,
                         version.label>>)

makeVersion(parent, snapshot, diff, label, createdAtUtc) ==
  LET unnamed == [parentObjectId |-> parent, snapshotObjectId |-> snapshot,
                  diffObjectId |-> diff, label |-> label,
                  createdAtUtc |-> createdAtUtc]
  IN [objectId |-> versionObjectId(unnamed), parentObjectId |-> parent,
      snapshotObjectId |-> snapshot, diffObjectId |-> diff,
      label |-> label, createdAtUtc |-> createdAtUtc]

(* The metadata an encoding stands for: parseCanonicalHeader, the inverse  *)
(* of encodedHeader.                                                     *)
parseCanonicalHeader(text) ==
  CHOOSE m \in Metadata : encodedHeader(m) = text

\* Mutant: the base is taken as it is, its content never rehashed.
ApplyTrustingBase(diff, base) ==
  /\ TextDiffApplies(diff.header, encodedHeader(base.headerMetadata))
  /\ TextDiffApplies(diff.body, base.bodyHtml)

(* ThinkingSpaceDocumentDiff::apply yields a snapshot only if this holds.  *)
DiffApplies(diff, base) ==
  LET normalizedBase ==
        makeSnapshotFromContent(base.headerMetadata, base.bodyHtml)
      header == TextDiffResult(diff.header, encodedHeader(base.headerMetadata))
      body == TextDiffResult(diff.body, base.bodyHtml)
  IN /\ base.objectId # NoObject => snapshotMatchesId(base)
     /\ normalizedBase.objectId = diff.baseSnapshotObjectId
     /\ TextDiffApplies(diff.header, encodedHeader(base.headerMetadata))
     /\ TextDiffApplies(diff.body, base.bodyHtml)
     /\ \E m \in Metadata : encodedHeader(m) = header
     /\ makeSnapshotFromContent(parseCanonicalHeader(header), body).objectId
          = diff.targetSnapshotObjectId

DiffResult(diff, base) ==
  makeSnapshotFromContent(
    parseCanonicalHeader(
      TextDiffResult(diff.header, encodedHeader(base.headerMetadata))),
    TextDiffResult(diff.body, base.bodyHtml))

-----------------------------------------------------------------------------
(* The history value and the operations of the class on it. *)

EmptyMap == [id \in {} |-> id]

EmptyHistory ==
  [versions |-> <<>>, snapshots |-> EmptyMap, diffs |-> EmptyMap,
   prunedVersionCount |-> 0, shallowBoundaryParentObjectId |-> NoObject]

TextDiffs ==
  [commonPrefixBytes : Nat, commonSuffixBytes : Nat,
   removedText : Seq(Byte), insertedText : Seq(Byte)]

IsSnapshot(s) ==
  /\ s = [objectId |-> s.objectId, headerObjectId |-> s.headerObjectId,
          bodyObjectId |-> s.bodyObjectId,
          headerMetadata |-> s.headerMetadata, bodyHtml |-> s.bodyHtml]
  /\ s.headerMetadata \in Metadata
  /\ s.bodyHtml \in Html

IsDiff(d) ==
  /\ d = [objectId |-> d.objectId,
          baseSnapshotObjectId |-> d.baseSnapshotObjectId,
          targetSnapshotObjectId |-> d.targetSnapshotObjectId,
          header |-> d.header, body |-> d.body]
  /\ d.header \in TextDiffs
  /\ d.body \in TextDiffs

IsVersion(v) ==
  /\ v = [objectId |-> v.objectId, parentObjectId |-> v.parentObjectId,
          snapshotObjectId |-> v.snapshotObjectId,
          diffObjectId |-> v.diffObjectId,
          label |-> v.label, createdAtUtc |-> v.createdAtUtc]
  /\ v.label \in Label
  /\ v.createdAtUtc \in Timestamp

(* The members have their types; nothing is said of ids and references.    *)
WellFormed(h) ==
  /\ h = [versions |-> h.versions, snapshots |-> h.snapshots, diffs |-> h.diffs,
          prunedVersionCount |-> h.prunedVersionCount,
          shallowBoundaryParentObjectId |-> h.shallowBoundaryParentObjectId]
  /\ h.versions \in Seq(Range(h.versions))
  /\ \A v \in Range(h.versions) : IsVersion(v)
  /\ h.snapshots = [id \in DOMAIN h.snapshots |-> h.snapshots[id]]
  /\ \A id \in DOMAIN h.snapshots : IsSnapshot(h.snapshots[id])
  /\ h.diffs = [id \in DOMAIN h.diffs |-> h.diffs[id]]
  /\ \A id \in DOMAIN h.diffs : IsDiff(h.diffs[id])
  /\ h.prunedVersionCount \in 0..MaxPrunedCount

(* std::map::try_emplace and erase. *)
tryEmplace(map, id, object) ==
  IF id \in DOMAIN map THEN map
  ELSE [k \in DOMAIN map \cup {id} |-> IF k = id THEN object ELSE map[k]]

eraseKey(map, id) == Restrict(map, DOMAIN map \ {id})

head(h) == h.versions[Len(h.versions)]

baseSnapshot(h) ==
  IF h.versions = <<>> THEN makeEmptySnapshot
  ELSE h.snapshots[head(h).snapshotObjectId]

parentId(h) == IF h.versions = <<>> THEN NoObject ELSE head(h).objectId

(* The two early throws of record. *)
canRecord(h) ==
  /\ ~(/\ Len(h.versions) >= maximumVersionCount
       /\ h.prunedVersionCount = MaxPrunedCount)
  /\ h.versions # <<>> => head(h).snapshotObjectId \in DOMAIN h.snapshots

collectUnreferencedObjects(h) ==
  [h EXCEPT
     !.snapshots = Restrict(@, DOMAIN @ \cap {v.snapshotObjectId : v \in Range(h.versions)}),
     !.diffs = Restrict(@, DOMAIN @ \cap {v.diffObjectId : v \in Range(h.versions)})]

\* Mutant: what a pruned commit refers to is erased even if a kept one shares it.
PruneErasingShared(h) ==
  LET overflow == Len(h.versions) - maximumVersionCount
      kept == SubSeq(h.versions, overflow + 1, Len(h.versions))
  IN IF overflow <= 0 THEN h
     ELSE [h EXCEPT
             !.versions = kept,
             !.snapshots = eraseKey(@, h.versions[1].snapshotObjectId),
             !.diffs = eraseKey(@, h.versions[1].diffObjectId),
             !.prunedVersionCount = (@ + overflow) % (MaxPrunedCount + 1),
             !.shallowBoundaryParentObjectId = kept[1].parentObjectId]

\* Mutant: the newest commits are the ones erased.
PruneNewest(h) ==
  LET overflow == Len(h.versions) - maximumVersionCount
  IN IF overflow <= 0 THEN h
     ELSE collectUnreferencedObjects(
            [h EXCEPT !.versions = SubSeq(@, 1, maximumVersionCount),
                      !.prunedVersionCount = (@ + overflow) % (MaxPrunedCount + 1),
                      !.shallowBoundaryParentObjectId = h.versions[1].parentObjectId])

\* Mutant: the surviving root is rewritten to have no parent.
PruneRewritingRoot(h) ==
  LET overflow == Len(h.versions) - maximumVersionCount
      kept == SubSeq(h.versions, overflow + 1, Len(h.versions))
      root == makeVersion(NoObject, kept[1].snapshotObjectId,
                          kept[1].diffObjectId, kept[1].label,
                          kept[1].createdAtUtc)
  IN IF overflow <= 0 THEN h
     ELSE collectUnreferencedObjects(
            [h EXCEPT !.versions = [kept EXCEPT ![1] = root],
                      !.prunedVersionCount = (@ + overflow) % (MaxPrunedCount + 1)])

pruneOldestVersions(h) ==
  LET overflow == Len(h.versions) - maximumVersionCount
      kept == SubSeq(h.versions, overflow + 1, Len(h.versions))
  IN IF overflow <= 0 THEN h
     ELSE collectUnreferencedObjects(
            [h EXCEPT !.versions = kept,
                      !.prunedVersionCount = (@ + overflow) % (MaxPrunedCount + 1),
                      !.shallowBoundaryParentObjectId = kept[1].parentObjectId])

\* Mutant: label and time change places.
AppendedSwapped(h, target, label, createdAtUtc) ==
  LET diff == makeDiff(baseSnapshot(h), target)
      version == makeVersion(parentId(h), target.objectId, diff.objectId,
                             createdAtUtc, label)
  IN [h EXCEPT !.snapshots = tryEmplace(@, target.objectId, target),
               !.diffs = tryEmplace(@, diff.objectId, diff),
               !.versions = Append(@, version)]

(* The history with one more commit, before pruning. *)
appended(h, target, label, createdAtUtc) ==
  LET diff == makeDiff(baseSnapshot(h), target)
      version == makeVersion(parentId(h), target.objectId, diff.objectId,
                             label, createdAtUtc)
  IN [h EXCEPT !.snapshots = tryEmplace(@, target.objectId, target),
               !.diffs = tryEmplace(@, diff.objectId, diff),
               !.versions = Append(@, version)]

recorded(h, metadata, html, label, createdAtUtc) ==
  pruneOldestVersions(
    appended(h, makeSnapshotFromContent(metadata, html), label, createdAtUtc))

\* Mutant: the rollback erases whatever is stored under the new ids.
UnconditionalRollback(h, target, stage) ==
  LET diff == makeDiff(baseSnapshot(h), target)
  IN [h EXCEPT
        !.snapshots = eraseKey(@, target.objectId),
        !.diffs = IF stage = "versions" THEN eraseKey(@, diff.objectId) ELSE @]

(* What the catch block of record leaves when an allocation fails in the   *)
(* insertion named by stage: only what this call inserted is erased.       *)
rolledBack(h, target, stage) ==
  LET diff == makeDiff(baseSnapshot(h), target)
      snapshots == tryEmplace(h.snapshots, target.objectId, target)
      diffs == IF stage = "versions"
                 THEN tryEmplace(h.diffs, diff.objectId, diff) ELSE h.diffs
      snapshotInserted == target.objectId \notin DOMAIN h.snapshots
      diffInserted == stage = "versions" /\ diff.objectId \notin DOMAIN h.diffs
  IN [h EXCEPT
        !.snapshots = IF snapshotInserted THEN eraseKey(snapshots, target.objectId)
                                          ELSE snapshots,
        !.diffs = IF diffInserted THEN eraseKey(diffs, diff.objectId) ELSE diffs]

-----------------------------------------------------------------------------
(* verifyIntegrity: the check toFileBytes and fromFileBytes insist on. *)

BoundaryDeclared(h) ==
  h.prunedVersionCount = 0 <=> h.shallowBoundaryParentObjectId = NoObject

(* A commit resolves to a snapshot and a delta to it, and names itself.    *)
VersionResolves(h, v) ==
  /\ v.snapshotObjectId \in DOMAIN h.snapshots
  /\ v.diffObjectId \in DOMAIN h.diffs
  /\ h.diffs[v.diffObjectId].targetSnapshotObjectId
       = h.snapshots[v.snapshotObjectId].objectId
  /\ v.objectId = versionObjectId(v)

ParentLinked(h, i) ==
  h.versions[i].parentObjectId =
    IF i > 1 THEN h.versions[i - 1].objectId
    ELSE h.shallowBoundaryParentObjectId

(* The base of a commit's delta is gone only behind the shallow boundary.  *)
HasBase(h, i) == i > 1 \/ h.prunedVersionCount = 0

BaseOf(h, i) ==
  IF i > 1 THEN h.snapshots[h.versions[i - 1].snapshotObjectId]
  ELSE makeEmptySnapshot

DiffReconstructs(diff, base, snapshot) ==
  /\ diff.baseSnapshotObjectId = base.objectId
  /\ TextDiffApplies(diff.header, encodedHeader(base.headerMetadata))
  /\ TextDiffApplies(diff.body, base.bodyHtml)
  /\ TextDiffResult(diff.header, encodedHeader(base.headerMetadata))
       = encodedHeader(snapshot.headerMetadata)
  /\ TextDiffResult(diff.body, base.bodyHtml) = snapshot.bodyHtml

SnapshotsSound(h) ==
  \A id \in DOMAIN h.snapshots :
    /\ \E v \in Range(h.versions) : v.snapshotObjectId = id
    /\ id = h.snapshots[id].objectId
    /\ snapshotMatchesId(h.snapshots[id])

DiffsSound(h) ==
  \A id \in DOMAIN h.diffs :
    LET diff == h.diffs[id]
    IN /\ \E v \in Range(h.versions) : v.diffObjectId = id
       /\ id = diff.objectId
       /\ id = diffObjectId(diff.baseSnapshotObjectId,
                            diff.targetSnapshotObjectId, diff.header, diff.body)

verifyIntegrity(h) ==
  /\ Len(h.versions) <= maximumVersionCount
  /\ BoundaryDeclared(h)
  /\ \A i \in 1..Len(h.versions) :
       /\ VersionResolves(h, h.versions[i])
       /\ ParentLinked(h, i)
       /\ HasBase(h, i) =>
            DiffReconstructs(h.diffs[h.versions[i].diffObjectId], BaseOf(h, i),
                             h.snapshots[h.versions[i].snapshotObjectId])
  /\ SnapshotsSound(h)
  /\ DiffsSound(h)
=============================================================================
