------------------------ MODULE VersionHistoryProofs ------------------------
(***************************************************************************)
(* A version history in use, for every content and every retention limit:  *)
(* every history the library makes or keeps verifies; it is a log of the   *)
(* contents recorded last; and the delta of every kept commit turns the    *)
(* parent's snapshot, and nothing else, into the commit's.                 *)
(***************************************************************************)
EXTENDS VersionHistory, VersionObjectsProofs

IInv == Sound(history) /\ Len(history.versions) <= maximumVersionCount

-----------------------------------------------------------------------------
(* Every step keeps the inductive invariant. *)
LEMMA IInvInit == Init => IInv
<1>1. Sound(EmptyHistory) /\ Len(EmptyHistory.versions) <= maximumVersionCount
  <2>1. /\ EmptyHistory.versions = <<>>
        /\ EmptyHistory.snapshots = [id \in {} |-> id]
        /\ EmptyHistory.diffs = [id \in {} |-> id]
        /\ EmptyHistory.prunedVersionCount = 0
        /\ EmptyHistory.shallowBoundaryParentObjectId = NoObject
        /\ IsHistory(EmptyHistory)
    BY DEF EmptyHistory, EmptyMap, IsHistory
  <2>2. Len(<<>>) = 0 /\ Range(<<>>) = {} /\ <<>> \in Seq({})
    BY EmptySeq DEF Range
  <2>3. DOMAIN [id \in {} |-> id] = {}
        /\ [id \in {} |-> id] =
             [k \in DOMAIN [id \in {} |-> id] |-> [id \in {} |-> id][k]]
    OBVIOUS
  <2> HIDE DEF EmptyHistory
  <2>4. WellFormed(EmptyHistory)
    BY <2>1, <2>2, <2>3, LimitAssumption DEF WellFormed, IsHistory
  <2>5. Linked(EmptyHistory)
    BY <2>1, <2>2, <2>3 DEF Linked, BoundaryDeclared, SnapshotsSound, DiffsSound
  <2> QED BY <2>1, <2>2, <2>4, <2>5, LimitAssumption DEF Sound
<1>2. ASSUME NEW file \in AcceptedFiles, WrittenByLibrary(file)
      PROVE  Sound(file) /\ Len(file.versions) <= maximumVersionCount
  <2>1. WellFormed(file) /\ verifyIntegrity(file)
    BY FileAssumption DEF AcceptedFiles
  <2> QED BY <1>2, <2>1, IntegrityIsLinked DEF Sound, WrittenByLibrary
<1> QED BY <1>1, <1>2 DEF Init, IInv

(* A recording keeps the history sound.                                    *)
LEMMA RecordKeeps ==
  ASSUME IInv, Record
  PROVE  IInv'
<1>1. PICK m \in Metadata, b \in Html, label \in Label, time \in Timestamp :
        canRecord(history) /\ history' = recorded(history, m, b, label, time)
  BY DEF Record
<1>2. Sound(history') /\ Len(history'.versions) <= maximumVersionCount
  BY <1>1, RecordedSound DEF IInv
<1> QED BY <1>2 DEF IInv

(* A recording that throws leaves the history as it was.                   *)
LEMMA RecordThrowsKeeps ==
  ASSUME IInv, RecordThrows
  PROVE  UNCHANGED history
<1>1. PICK m \in Metadata, b \in Html, stage \in {"diffs", "versions"} :
        history' = rolledBack(history, makeSnapshotFromContent(m, b), stage)
  BY DEF RecordThrows
<1> QED BY <1>1, RolledBackIsUnchanged DEF IInv, Sound

(* The invariant is inductive.                                             *)
LEMMA IInvNext == IInv /\ [Next]_history => IInv'
<1> SUFFICES ASSUME IInv, [Next]_history
             PROVE  IInv'
  OBVIOUS
<1>1. CASE Record
  BY <1>1, RecordKeeps
<1>2. CASE RecordThrows
  BY <1>2, RecordThrowsKeeps DEF IInv
<1>3. CASE UNCHANGED history
  BY <1>3 DEF IInv
<1> QED BY <1>1, <1>2, <1>3 DEF Next

(* The inductive invariant holds in every reachable state. *)
THEOREM InductiveInvariant == Spec => []IInv
  BY IInvInit, IInvNext, PTL DEF Spec

(* The members of a history keep their types: the counter of pruned        *)
(* commits never wraps, and nothing ill-formed is stored.                  *)
THEOREM HistoryTypeOK == Spec => []TypeOK
<1>1. IInv => TypeOK
  BY DEF IInv, Sound, TypeOK
<1> QED BY <1>1, InductiveInvariant, PTL

(* A history the library made or accepted always passes the check that     *)
(* loading and saving insist on, whatever is recorded, shared, pruned,     *)
(* collected or rolled back.                                               *)
THEOREM HistoryVerifies == Spec => []Integrity
<1>1. IInv => Integrity
  BY IntegrityIsLinked DEF IInv, Sound, Integrity
<1> QED BY <1>1, InductiveInvariant, PTL

(* No step rewrites a commit or an object that survives it, and commits    *)
(* leave only oldest first, one for one.                                   *)
THEOREM HistoryKeepsSurvivors == Spec => SurvivorsUntouched
<1> DEFINE Kept ==
      LET pruned == history'.prunedVersionCount - history.prunedVersionCount
          old == history.versions
      IN /\ pruned \in 0..1
         /\ Len(history'.versions) + pruned = Len(old) + 1
         /\ \A i \in pruned + 1..Len(old) : history'.versions[i - pruned] = old[i]
         /\ \A id \in DOMAIN history.snapshots \cap DOMAIN history'.snapshots :
              history'.snapshots[id] = history.snapshots[id]
         /\ \A id \in DOMAIN history.diffs \cap DOMAIN history'.diffs :
              history'.diffs[id] = history.diffs[id]
<1>1. ASSUME IInv, Record
      PROVE  Kept
  <2>1. PICK m \in Metadata, b \in Html, label \in Label, time \in Timestamp :
          canRecord(history) /\ history' = recorded(history, m, b, label, time)
    BY <1>1 DEF Record
  <2> QED BY <1>1, <2>1, RecordedSound DEF IInv
<1>2. IInv /\ [Next]_history => [Kept]_history
  BY <1>1, RecordThrowsKeeps DEF Next
<1> QED BY <1>2, InductiveInvariant, PTL DEF Spec, SurvivorsUntouched

(* A recording that fails for want of memory changes nothing. *)
THEOREM FailedRecordIsUndone == Spec => FailedRecordLeavesNoTrace
<1>1. IInv /\ [Next]_history => [RecordThrows => UNCHANGED history]_history
  BY RecordThrowsKeeps
<1> QED BY <1>1, InductiveInvariant, PTL DEF Spec, FailedRecordLeavesNoTrace

-----------------------------------------------------------------------------
(* The log a history keeps. *)

(* EntryOf and the log of a history other than the current one. *)
EntryIn(h, v) ==
  [headerMetadata |-> h.snapshots[v.snapshotObjectId].headerMetadata,
   bodyHtml |-> h.snapshots[v.snapshotObjectId].bodyHtml,
   label |-> v.label, createdAtUtc |-> v.createdAtUtc]

LogOf(h) == [i \in 1..Len(h.versions) |-> EntryIn(h, h.versions[i])]

(* Every kept commit gives back a content of the right types. *)
LEMMA LogIsTyped ==
  ASSUME NEW h, Sound(h)
  PROVE  /\ Len(h.versions) \in Nat
         /\ LogOf(h) \in Seq(Entries)
         /\ Len(LogOf(h)) = Len(h.versions)
<1>1. Len(h.versions) \in Nat
  BY Commits DEF Sound
<1>2. ASSUME NEW i \in 1..Len(h.versions)
      PROVE  EntryIn(h, h.versions[i]) \in Entries
  <2>1. IsVersion(h.versions[i])
    BY Commits DEF Sound
  <2>2. IsSnapshot(h.snapshots[h.versions[i].snapshotObjectId])
    BY DEF Sound, Linked, CommitSound, VersionResolves, WellFormed
  <2> QED BY <2>1, <2>2 DEF EntryIn, Entries, IsVersion, IsSnapshot
<1>3. LogOf(h) \in Seq(Entries)
  BY <1>1, <1>2, IsASeq DEF LogOf
<1>4. DOMAIN LogOf(h) = 1..Len(h.versions)
  BY DEF LogOf
<1>5. DOMAIN LogOf(h) = 1..Len(LogOf(h)) /\ Len(LogOf(h)) \in Nat
  BY <1>3, LenProperties
<1>6. \A j, k \in Nat : 1..j = 1..k => j = k
  <2> TAKE j, k \in Nat
  <2>1. (j \in 1..j <=> j # 0) /\ (k \in 1..k <=> k # 0)
    OBVIOUS
  <2>2. (j \in 1..k => j <= k) /\ (k \in 1..j => k <= j)
    OBVIOUS
  <2>3. 0 \notin 1..j /\ 0 \notin 1..k
    OBVIOUS
  <2> QED BY <2>1, <2>2, <2>3
<1> QED BY <1>1, <1>3, <1>4, <1>5, <1>6

(* Two logs with the same entries are the same. *)
LEMMA SameLog ==
  ASSUME NEW S, NEW s \in Seq(S), NEW t \in Seq(S), Len(s) = Len(t),
         \A i \in 1..Len(s) : s[i] = t[i]
  PROVE  s = t
  BY SeqEqual

(* An entry appended to a log comes last.                                  *)
LEMMA AppendedEntry ==
  ASSUME NEW S, NEW s \in Seq(S), NEW e \in S
  PROVE  /\ Append(s, e) \in Seq(S)
         /\ Len(Append(s, e)) = Len(s) + 1
         /\ \A i \in 1..Len(s) : Append(s, e)[i] = s[i]
         /\ Append(s, e)[Len(s) + 1] = e
  BY AppendProperties

(* A recording adds its content to the log and drops the oldest entry of a *)
(* log that is full.                                                       *)
LEMMA RecordedLog ==
  ASSUME NEW h, Sound(h), Len(h.versions) <= maximumVersionCount, canRecord(h),
         NEW m \in Metadata, NEW b \in Html,
         NEW label \in Label, NEW time \in Timestamp
  PROVE  LET new == recorded(h, m, b, label, time)
             entry == [headerMetadata |-> m, bodyHtml |-> b, label |-> label,
                       createdAtUtc |-> time]
             log == Append(LogOf(h), entry)
         IN /\ entry \in Entries
            /\ LogOf(new) = Log!Newest(log)
            /\ new.prunedVersionCount =
                 h.prunedVersionCount + (Len(log) - Len(LogOf(new)))
            /\ new.prunedVersionCount <= MaxPrunedCount
<1> DEFINE new == recorded(h, m, b, label, time)
           entry == [headerMetadata |-> m, bodyHtml |-> b, label |-> label,
                     createdAtUtc |-> time]
           log == Append(LogOf(h), entry)
           pruned == new.prunedVersionCount - h.prunedVersionCount
           N == Len(h.versions)
           M == Len(new.versions)
<1>1. /\ Sound(new) /\ M <= maximumVersionCount
      /\ pruned \in 0..1
      /\ pruned = 1 => N = maximumVersionCount
      /\ M + pruned = N + 1
      /\ \A i \in pruned + 1..N : new.versions[i - pruned] = h.versions[i]
      /\ \A id \in DOMAIN h.snapshots \cap DOMAIN new.snapshots :
           new.snapshots[id] = h.snapshots[id]
      /\ GivesBack(new, new.versions[M], m, b, label, time)
  BY RecordedSound
<1>2. entry \in Entries
  BY DEF Entries
<1>3. /\ h.prunedVersionCount \in Nat
      /\ new.prunedVersionCount \in 0..MaxPrunedCount
      /\ maximumVersionCount \in Nat \ {0} /\ MaxPrunedCount \in Nat
  BY <1>1, LimitAssumption DEF Sound, WellFormed
<1>4. /\ N \in Nat /\ LogOf(h) \in Seq(Entries) /\ Len(LogOf(h)) = N
      /\ M \in Nat /\ LogOf(new) \in Seq(Entries) /\ Len(LogOf(new)) = M
  BY <1>1, LogIsTyped
<1> HIDE DEF entry, new
<1>5. /\ log \in Seq(Entries)
      /\ Len(log) = N + 1
      /\ \A i \in 1..N : log[i] = LogOf(h)[i]
      /\ log[N + 1] = entry
  BY <1>2, <1>4, AppendedEntry
<1>6. \A i \in pruned + 1..N : LogOf(new)[i - pruned] = LogOf(h)[i]
  <2> TAKE i \in pruned + 1..N
  <2>1. i - pruned \in 1..M /\ i \in 1..N
    BY <1>1, <1>3, <1>4, SMTT(30)
  <2>2. new.versions[i - pruned] = h.versions[i]
    BY <1>1
  <2>3. /\ h.versions[i].snapshotObjectId \in DOMAIN h.snapshots
        /\ h.versions[i].snapshotObjectId \in DOMAIN new.snapshots
    BY <1>1, <2>1, <2>2 DEF Sound, Linked, CommitSound, VersionResolves
  <2>4. EntryIn(new, new.versions[i - pruned]) = EntryIn(h, h.versions[i])
    BY <1>1, <2>2, <2>3 DEF EntryIn
  <2> QED BY <2>1, <2>4 DEF LogOf
<1>7. LogOf(new)[M] = entry
  <2>1. M \in 1..M
    BY <1>1, <1>3, <1>4
  <2> QED BY <1>1, <2>1 DEF LogOf, EntryIn, GivesBack, entry
<1> HIDE DEF log
<1>8. ASSUME pruned = 0
      PROVE  LogOf(new) = Log!Newest(log)
  <2>1. M = N + 1 /\ Len(log) <= maximumVersionCount
    BY <1>1, <1>4, <1>5, <1>8
  <2>2. \A i \in 1..N + 1 : LogOf(new)[i] = log[i]
    <3> TAKE i \in 1..N + 1
    <3>1. CASE i = N + 1
      BY <1>5, <1>7, <2>1, <3>1
    <3>2. CASE i # N + 1
      <4>1. i \in 1..N /\ i \in pruned + 1..N /\ i - pruned = i
        BY <1>4, <1>8, <3>2, SMTT(30)
      <4> QED BY <1>5, <1>6, <4>1
    <3> QED BY <3>1, <3>2
  <2>3. LogOf(new) = log
    BY <1>4, <1>5, <2>1, <2>2, SameLog
  <2>4. Log!Newest(log) = log
    BY <2>1 DEF Log!Newest
  <2> QED BY <2>3, <2>4
<1>9. ASSUME pruned = 1
      PROVE  LogOf(new) = Log!Newest(log)
  <2>1. M = N /\ N \in Nat \ {0} /\ N = maximumVersionCount
    BY <1>1, <1>3, <1>4, <1>9
  <2>2. Log!Newest(log) = SubSeq(log, 2, N + 1)
    <3>1. ~(Len(log) <= maximumVersionCount) /\ Len(log) - maximumVersionCount + 1 = 2
      BY <1>5, <2>1
    <3> QED BY <1>5, <3>1 DEF Log!Newest
  <2>3. /\ SubSeq(log, 2, N + 1) \in Seq(Entries)
        /\ Len(SubSeq(log, 2, N + 1)) = N
        /\ \A i \in 1..N : SubSeq(log, 2, N + 1)[i] = log[i + 1]
    <3>1. DOMAIN log = 1..N + 1 /\ \A i \in 1..N + 1 : log[i] \in Entries
      BY <1>5, LenProperties
    <3>2. /\ 2 \in Int /\ N + 1 \in Int /\ 2 <= N + 1 /\ (N + 1) - 2 + 1 = N
          /\ \A i \in 2..N + 1 : log[i] \in Entries
          /\ \A i \in 1..N : 2 + i - 1 = i + 1
      BY <2>1, <3>1
    <3>3. /\ SubSeq(log, 2, N + 1) \in Seq(Entries)
          /\ Len(SubSeq(log, 2, N + 1)) = (N + 1) - 2 + 1
          /\ \A i \in 1..(N + 1) - 2 + 1 : SubSeq(log, 2, N + 1)[i] = log[2 + i - 1]
      BY <3>2, SubSeqProperties
    <3> QED BY <3>2, <3>3
  <2>4. \A i \in 1..N : LogOf(new)[i] = log[i + 1]
    <3> TAKE i \in 1..N
    <3>1. CASE i = N
      BY <1>5, <1>7, <2>1, <3>1
    <3>2. CASE i # N
      <4>1. i + 1 \in 1..N /\ i + 1 \in pruned + 1..N /\ (i + 1) - pruned = i
        BY <1>4, <1>9, <3>2
      <4> QED BY <1>5, <1>6, <4>1
    <3> QED BY <3>1, <3>2
  <2>5. LogOf(new) = SubSeq(log, 2, N + 1)
    BY <1>4, <2>1, <2>3, <2>4, SameLog
  <2> QED BY <2>2, <2>5
<1>10. LogOf(new) = Log!Newest(log)
  BY <1>1, <1>8, <1>9
<1>11. /\ new.prunedVersionCount = h.prunedVersionCount + (Len(log) - Len(LogOf(new)))
       /\ new.prunedVersionCount <= MaxPrunedCount
  <2>1. /\ M + (new.prunedVersionCount - h.prunedVersionCount) = N + 1
        /\ Len(log) = N + 1 /\ Len(LogOf(new)) = M
    BY <1>1, <1>4, <1>5
  <2>2. /\ new.prunedVersionCount \in Nat /\ h.prunedVersionCount \in Nat
        /\ M \in Nat /\ N \in Nat /\ new.prunedVersionCount <= MaxPrunedCount
    BY <1>3, <1>4
  <2> HIDE DEF M, N
  <2> QED BY <2>1, <2>2
<1> QED BY <1>2, <1>10, <1>11 DEF log, entry, new

(* The history implements the log: every recording that returns is one     *)
(* Add, whatever it shares, prunes and collects, and one that throws is a  *)
(* stuttering step.                                                        *)
THEOREM HistoryImplementsLog == Spec => ImplementsLog
<1> DEFINE log == [i \in 1..Len(history.versions) |-> EntryOf(history.versions[i])]
<1>1. log = LogOf(history) /\ log' = LogOf(history')
  BY DEF LogOf, EntryIn, EntryOf
<1>2. Init => Log!Init
  <2> SUFFICES ASSUME Init
               PROVE  Log!Init
    OBVIOUS
  <2>1. Sound(history) /\ Len(history.versions) <= maximumVersionCount
    BY IInvInit DEF IInv
  <2>2. log \in Seq(Entries) /\ Len(log) = Len(history.versions)
    BY <1>1, <2>1, LogIsTyped
  <2>3. history.prunedVersionCount \in 0..MaxPrunedCount
    BY <2>1 DEF Sound, WellFormed
  <2> HIDE DEF log
  <2>4. /\ log \in Seq(Entries) /\ Len(log) <= maximumVersionCount
        /\ history.prunedVersionCount \in 0..MaxPrunedCount
    BY <2>1, <2>2, <2>3
  <2> QED BY <2>4 DEF Log!Init, log
<1>3. ASSUME IInv, Record
      PROVE  Log!Next
  <2>1. PICK m \in Metadata, b \in Html, label \in Label, time \in Timestamp :
          canRecord(history) /\ history' = recorded(history, m, b, label, time)
    BY <1>3 DEF Record
  <2> DEFINE entry == [headerMetadata |-> m, bodyHtml |-> b, label |-> label,
                       createdAtUtc |-> time]
  <2>2. /\ entry \in Entries
        /\ LogOf(history') = Log!Newest(Append(LogOf(history), entry))
        /\ history'.prunedVersionCount = history.prunedVersionCount
             + (Len(Append(LogOf(history), entry)) - Len(LogOf(history')))
        /\ history'.prunedVersionCount <= MaxPrunedCount
    BY <1>3, <2>1, RecordedLog DEF IInv
  <2> HIDE DEF entry, log
  <2>3. /\ log' = Log!Newest(Append(log, entry))
        /\ history'.prunedVersionCount =
             history.prunedVersionCount + (Len(Append(log, entry)) - Len(log'))
    BY <1>1, <2>2
  <2>4. Log!Add(entry)
    BY <2>2, <2>3 DEF Log!Add, log
  <2> QED BY <2>2, <2>4 DEF Log!Next
<1>4. IInv /\ [Next]_history => [Log!Next]_<<log, history.prunedVersionCount>>
  <2>1. IInv /\ RecordThrows => UNCHANGED <<log, history.prunedVersionCount>>
    BY RecordThrowsKeeps DEF EntryOf
  <2>2. UNCHANGED history => UNCHANGED <<log, history.prunedVersionCount>>
    BY DEF EntryOf
  <2> HIDE DEF log
  <2> QED BY <1>3, <2>1, <2>2 DEF Next
<1> QED BY <1>2, <1>4, InductiveInvariant, PTL DEF Spec, ImplementsLog, Log!Spec

-----------------------------------------------------------------------------
(* An encoding stands for the metadata it was made from. *)
LEMMA EncodingParses ==
  ASSUME NEW m \in Metadata
  PROVE  parseCanonicalHeader(encodedHeader(m)) = m
  BY ContentAssumption DEF parseCanonicalHeader

(* A delta that reconstructs a sound snapshot from the content of its base *)
(* applies to any object with that content which is unnamed or sound.      *)
LEMMA ReconstructingApplies ==
  ASSUME NEW diff, NEW named, NEW base, NEW target,
         IsSnapshot(target), snapshotMatchesId(target),
         diff.targetSnapshotObjectId = target.objectId,
         DiffReconstructs(diff, named, target),
         snapshotMatchesId(named),
         base.headerMetadata = named.headerMetadata,
         base.bodyHtml = named.bodyHtml,
         base.objectId # NoObject => snapshotMatchesId(base)
  PROVE  DiffApplies(diff, base) /\ DiffResult(diff, base) = target
<1> DEFINE header == TextDiffResult(diff.header, encodedHeader(base.headerMetadata))
           body == TextDiffResult(diff.body, base.bodyHtml)
<1>1. header = encodedHeader(target.headerMetadata) /\ body = target.bodyHtml
  BY DEF DiffReconstructs
<1>2. target.headerMetadata \in Metadata
  BY DEF IsSnapshot
<1>3. parseCanonicalHeader(header) = target.headerMetadata
  BY <1>1, <1>2, EncodingParses
<1>4. makeSnapshotFromContent(parseCanonicalHeader(header), body) = target
  BY <1>1, <1>3 DEF snapshotMatchesId
<1>5. makeSnapshotFromContent(base.headerMetadata, base.bodyHtml) = named
  BY DEF snapshotMatchesId
<1>6. /\ diff.baseSnapshotObjectId = named.objectId
      /\ TextDiffApplies(diff.header, encodedHeader(base.headerMetadata))
      /\ TextDiffApplies(diff.body, base.bodyHtml)
  BY DEF DiffReconstructs
<1> HIDE DEF header, body
<1>7. \E m \in Metadata : encodedHeader(m) = header
  BY <1>1, <1>2
<1>8. DiffApplies(diff, base)
  BY <1>4, <1>5, <1>6, <1>7, Zenon DEF DiffApplies, header, body
<1>9. DiffResult(diff, base) = target
  BY <1>4, Zenon DEF DiffResult, header, body
<1> QED BY <1>8, <1>9

(* Under an id that is not the hash of its content no base is accepted.    *)
LEMMA DamagedIsRefused ==
  ASSUME NEW diff, NEW other, IsSnapshot(other), snapshotMatchesId(other),
         NEW html \in Html \ {other.bodyHtml}
  PROVE  ~DiffApplies(diff, [other EXCEPT !.bodyHtml = html])
<1> DEFINE damaged == [other EXCEPT !.bodyHtml = html]
<1>1. /\ damaged.objectId = other.objectId
      /\ damaged.headerMetadata = other.headerMetadata
      /\ damaged.bodyHtml = html
  BY DEF IsSnapshot
<1>2. other.objectId # NoObject
  <2>1. other.objectId = makeSnapshotFromContent(other.headerMetadata, other.bodyHtml).objectId
    BY DEF snapshotMatchesId
  <2> QED BY <2>1 DEF makeSnapshotFromContent, hashObject, NoObject
<1>3. ~snapshotMatchesId(damaged)
  <2> SUFFICES ASSUME snapshotMatchesId(damaged)
               PROVE  FALSE
    OBVIOUS
  <2> HIDE DEF damaged
  <2>1. makeSnapshotFromContent(other.headerMetadata, html).objectId
          = makeSnapshotFromContent(other.headerMetadata, other.bodyHtml).objectId
    BY <1>1 DEF snapshotMatchesId
  <2>2. other.headerMetadata \in Metadata /\ other.bodyHtml \in Html
    BY DEF IsSnapshot
  <2> QED BY <2>1, <2>2, SnapshotOfId
<1> HIDE DEF damaged
<1>4. ~DiffApplies(diff, damaged)
  BY <1>1, <1>2, <1>3, Zenon DEF DiffApplies
<1> QED BY <1>4 DEF damaged

(* What the store keeps under an id is the snapshot of that id. *)
LEMMA StoredSnapshot ==
  ASSUME NEW h, Sound(h), NEW id \in DOMAIN h.snapshots
  PROVE  /\ IsSnapshot(h.snapshots[id])
         /\ snapshotMatchesId(h.snapshots[id])
         /\ h.snapshots[id].objectId = id
  BY DEF Sound, WellFormed, Linked, SnapshotsSound

(* The empty snapshot, unnamed, that a root commit is applied to. *)
LEMMA DefaultBase ==
  /\ DefaultSnapshot.headerMetadata = makeEmptySnapshot.headerMetadata
  /\ DefaultSnapshot.bodyHtml = makeEmptySnapshot.bodyHtml
  /\ DefaultSnapshot.objectId = NoObject
  /\ snapshotMatchesId(makeEmptySnapshot)
<1>1. IsSnapshot(makeEmptySnapshot) /\ snapshotMatchesId(makeEmptySnapshot)
  BY NewSnapshot, ContentAssumption DEF makeEmptySnapshot
<1> QED BY <1>1 DEF DefaultSnapshot, IsSnapshot

(* Every kept delta rebuilds its commit's snapshot from the parent's, is   *)
(* refused by every other stored snapshot, and by one altered under its    *)
(* old id.                                                                 *)
THEOREM DeltasApplyToTheirBaseOnly == Spec => []DiffsApplyToTheirBaseOnly
<1>1. IInv => DiffsApplyToTheirBaseOnly
  <2> SUFFICES ASSUME IInv, NEW i \in 1..Len(history.versions)
               PROVE  LET v == history.versions[i]
                          diff == history.diffs[v.diffObjectId]
                          base == IF i > 1 THEN BaseOf(history, i) ELSE DefaultSnapshot
                          known == HasBase(history, i)
                          altered(s) == {[s EXCEPT !.bodyHtml = html] :
                                           html \in Html \ {s.bodyHtml}}
                      IN /\ known => /\ DiffApplies(diff, base)
                                     /\ DiffResult(diff, base)
                                          = history.snapshots[v.snapshotObjectId]
                         /\ \A id \in DOMAIN history.snapshots :
                              LET other == history.snapshots[id]
                              IN /\ DiffApplies(diff, other)
                                      => id = diff.baseSnapshotObjectId
                                 /\ \A damaged \in altered(other) :
                                      ~DiffApplies(diff, damaged)
    BY Zenon DEF DiffsApplyToTheirBaseOnly
  <2> DEFINE v == history.versions[i]
             diff == history.diffs[v.diffObjectId]
             base == IF i > 1 THEN BaseOf(history, i) ELSE DefaultSnapshot
             target == history.snapshots[v.snapshotObjectId]
  <2>1. Sound(history) /\ CommitSound(history, i)
    BY DEF IInv, Sound, Linked
  <2>2. /\ IsSnapshot(target) /\ snapshotMatchesId(target)
        /\ diff.targetSnapshotObjectId = target.objectId
    BY <2>1, StoredSnapshot DEF CommitSound, VersionResolves
  <2>3. ASSUME HasBase(history, i)
        PROVE  DiffApplies(diff, base) /\ DiffResult(diff, base) = target
    <3> DEFINE named == BaseOf(history, i)
    <3>1. DiffReconstructs(diff, named, target)
      BY <2>1, <2>3 DEF CommitSound
    <3>2. /\ snapshotMatchesId(named)
          /\ base.headerMetadata = named.headerMetadata
          /\ base.bodyHtml = named.bodyHtml
          /\ base.objectId # NoObject => snapshotMatchesId(base)
      <4>1. CASE i > 1
        <5>1. i - 1 \in 1..Len(history.versions)
          BY <2>1, <4>1, Commits DEF Sound
        <5>2. history.versions[i - 1].snapshotObjectId \in DOMAIN history.snapshots
          BY <2>1, <5>1 DEF Sound, Linked, CommitSound, VersionResolves
        <5> QED BY <2>1, <4>1, <5>2, StoredSnapshot DEF BaseOf
      <4>2. CASE ~(i > 1)
        BY <4>2, DefaultBase DEF BaseOf
      <4> QED BY <4>1, <4>2
    <3> HIDE DEF named, base, target, diff
    <3> QED BY <2>2, <3>1, <3>2, ReconstructingApplies
  <2>4. ASSUME NEW id \in DOMAIN history.snapshots
        PROVE  /\ DiffApplies(diff, history.snapshots[id])
                    => id = diff.baseSnapshotObjectId
               /\ \A html \in Html \ {history.snapshots[id].bodyHtml} :
                    ~DiffApplies(diff, [history.snapshots[id] EXCEPT !.bodyHtml = html])
    <3> DEFINE other == history.snapshots[id]
    <3>1. IsSnapshot(other) /\ snapshotMatchesId(other) /\ other.objectId = id
      BY <2>1, StoredSnapshot
    <3> HIDE DEF other, diff
    <3>2. makeSnapshotFromContent(other.headerMetadata, other.bodyHtml).objectId = id
      BY <3>1 DEF snapshotMatchesId
    <3>3. DiffApplies(diff, other) => id = diff.baseSnapshotObjectId
      BY <3>2, Zenon DEF DiffApplies
    <3>4. \A html \in Html \ {other.bodyHtml} :
            ~DiffApplies(diff, [other EXCEPT !.bodyHtml = html])
      BY <3>1, DamagedIsRefused
    <3> QED BY <3>3, <3>4 DEF other
  <2> HIDE DEF v, diff, base
  <2> QED BY <2>3, <2>4 DEF v, diff, base
<1> QED BY <1>1, InductiveInvariant, PTL
=============================================================================
