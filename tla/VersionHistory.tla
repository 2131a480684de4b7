--------------------------- MODULE VersionHistory ---------------------------
(***************************************************************************)
(* A version history in use: it is empty or read from a file, commits are  *)
(* recorded, and a recording may fail for want of memory.                  *)
(***************************************************************************)
EXTENDS VersionObjects

CONSTANT FileHistories   \* histories .tsdoc files hold, intact or not

(* A file parses into fields of the right types, whatever they say.        *)
ASSUME FileAssumption == \A file \in FileHistories : WellFormed(file)

VARIABLE history

(* fromFileBytes keeps a history only if it verifies.                      *)
AcceptedFiles == {file \in FileHistories : verifyIntegrity(file)}

(* A file toFileBytes wrote: recording leaves at least one commit, so      *)
(* nothing is pruned while no commit is kept.                              *)
WrittenByLibrary(file) == file.versions = <<>> => file.prunedVersionCount = 0

Init ==
  history \in {EmptyHistory} \cup {file \in AcceptedFiles : WrittenByLibrary(file)}

(* Any file the reader accepts, whoever wrote it. *)
InitFromAnyFile == history \in {EmptyHistory} \cup AcceptedFiles

Record ==
  \E metadata \in Metadata, html \in Html, label \in Label,
     createdAtUtc \in Timestamp :
    /\ canRecord(history)
    /\ history' = recorded(history, metadata, html, label, createdAtUtc)

(* An insertion into the store of deltas or into the list of commits       *)
(* throws; the catch block undoes the insertions before it.                *)
RecordThrows ==
  \E metadata \in Metadata, html \in Html, stage \in {"diffs", "versions"} :
    /\ canRecord(history)
    /\ history' = rolledBack(history, makeSnapshotFromContent(metadata, html), stage)

Next == Record \/ RecordThrows

Spec == Init /\ [][Next]_history

SpecFromAnyFile == InitFromAnyFile /\ [][Next]_history

-----------------------------------------------------------------------------
(* The shape of a history: every commit reads as one, and the counter      *)
(* stays within its type.                                                  *)
TypeOK == WellFormed(history)

(* The check that loading and saving insist on never fails on a history    *)
(* the library made: every recording, pruning and collection leaves all    *)
(* links, ids and deltas of the kept commits intact, and no stray object.  *)
Integrity == verifyIntegrity(history)

(* Recording never rewrites what survives: kept commits keep their id and  *)
(* place, objects still stored are the objects stored before, and the      *)
(* counter grows by exactly the number of commits that left.               *)
SurvivorsUntouched ==
  [][LET pruned == history'.prunedVersionCount - history.prunedVersionCount
         old == history.versions
     IN /\ pruned \in 0..1
        /\ Len(history'.versions) + pruned = Len(old) + 1
        /\ \A i \in pruned + 1..Len(old) : history'.versions[i - pruned] = old[i]
        /\ \A id \in DOMAIN history.snapshots \cap DOMAIN history'.snapshots :
             history'.snapshots[id] = history.snapshots[id]
        /\ \A id \in DOMAIN history.diffs \cap DOMAIN history'.diffs :
             history'.diffs[id] = history.diffs[id]]_history

(* A recording that throws leaves the history as it was.                   *)
FailedRecordLeavesNoTrace == [][RecordThrows => UNCHANGED history]_history

(* A default-constructed snapshot, whose id is empty. *)
DefaultSnapshot == [makeEmptySnapshot EXCEPT !.objectId = NoObject]

(* ThinkingSpaceDocumentDiff::apply turns the parent's snapshot into the   *)
(* commit's snapshot for every kept commit whose parent is known, refuses  *)
(* every other stored snapshot, and refuses a base whose body was altered  *)
(* under its old id.                                                       *)
DiffsApplyToTheirBaseOnly ==
  \A i \in 1..Len(history.versions) :
    LET v == history.versions[i]
        diff == history.diffs[v.diffObjectId]
        base == IF i > 1 THEN BaseOf(history, i) ELSE DefaultSnapshot
        known == HasBase(history, i)
        altered(s) == {[s EXCEPT !.bodyHtml = html] : html \in Html \ {s.bodyHtml}}
    IN /\ known => /\ DiffApplies(diff, base)
                   /\ DiffResult(diff, base) = history.snapshots[v.snapshotObjectId]
       /\ \A id \in DOMAIN history.snapshots :
            LET other == history.snapshots[id]
            IN /\ DiffApplies(diff, other) => id = diff.baseSnapshotObjectId
               /\ \A damaged \in altered(other) : ~DiffApplies(diff, damaged)

-----------------------------------------------------------------------------
Entries ==
  [headerMetadata : Metadata, bodyHtml : Html, label : Label,
   createdAtUtc : Timestamp]

(* The content a commit gives back: its snapshot, looked up by id. *)
EntryOf(v) ==
  [headerMetadata |-> history.snapshots[v.snapshotObjectId].headerMetadata,
   bodyHtml |-> history.snapshots[v.snapshotObjectId].bodyHtml,
   label |-> v.label, createdAtUtc |-> v.createdAtUtc]

Log == INSTANCE VersionLog WITH
         Entry <- Entries,
         Limit <- maximumVersionCount,
         MaxDropped <- MaxPrunedCount,
         entries <- [i \in 1..Len(history.versions) |-> EntryOf(history.versions[i])],
         dropped <- history.prunedVersionCount

(* Through all sharing, pruning and collection, the history gives back     *)
(* exactly the contents recorded last, in order.                           *)
ImplementsLog == Log!Spec

(* The shallow boundary is the missing parent of the oldest kept commit.   *)
BoundaryIsMissingParent ==
  (history.versions # <<>> /\ history.prunedVersionCount # 0) =>
    history.shallowBoundaryParentObjectId = history.versions[1].parentObjectId
=============================================================================
