------------------------- MODULE VersionObjectsProofs -------------------------
(***************************************************************************)
(* Recording keeps a history sound, for every alphabet, every set of       *)
(* contents and every retention limit: what the operations of the history  *)
(* value do, independent of who calls them.                                *)
(*                                                                         *)
(* A recording is appended, then pruned by at most one commit; the two     *)
(* halves are treated apart.  Between them the history is Linked: intact   *)
(* but for its length.                                                     *)
(*                                                                         *)
(* First, for all texts: the delta makeTextDiff computes applies to its    *)
(* base and yields its target.                                             *)
(***************************************************************************)
EXTENDS VersionObjects, SequenceTheorems, FiniteSetTheorems, TLAPS

(* A non-empty set of naturals with an upper bound has its maximum.        *)
LEMMA MaxBounded ==
  ASSUME NEW bound \in Nat, NEW S \in SUBSET (0..bound), S # {}
  PROVE  Max(S) \in S /\ \A y \in S : y <= Max(S)
<1> DEFINE Above(x) == (x + 1)..bound
           T == {Above(x) : x \in S}
<1>1. T \subseteq FiniteSubsetsOf(0..bound)
  <2> SUFFICES ASSUME NEW x \in S
               PROVE  Above(x) \in FiniteSubsetsOf(0..bound)
    OBVIOUS
  <2>1. IsFiniteSet(Above(x))
    <3>1. x + 1 \in Int /\ bound \in Int
      OBVIOUS
    <3> QED BY <3>1, FS_Interval
  <2>2. Above(x) \subseteq 0..bound
    OBVIOUS
  <2> QED BY <2>1, <2>2 DEF FiniteSubsetsOf
<1>2. PICK A \in T : \A B \in T : <<B, A>> \notin StrictSubsetOrdering(0..bound)
  <2>1. T # {}
    OBVIOUS
  <2>2. IsWellFoundedOn(StrictSubsetOrdering(0..bound), FiniteSubsetsOf(0..bound))
    BY FS_StrictSubsetOrderingWellFounded
  <2> HIDE DEF T
  <2> QED BY <1>1, <2>1, <2>2, WFMin
<1>3. PICK m \in S : A = Above(m)
  BY <1>2
<1>4. \A y \in S : y <= m
  <2> SUFFICES ASSUME NEW y \in S, y > m
               PROVE  FALSE
    OBVIOUS
  <2>1. Above(y) \subseteq A /\ y \in A /\ y \notin Above(y)
    BY <1>3
  <2>2. <<Above(y), A>> \in StrictSubsetOrdering(0..bound)
    BY <1>3, <2>1 DEF StrictSubsetOrdering
  <2> QED BY <1>2, <2>2
<1>5. Max(S) \in S /\ \A y \in S : Max(S) >= y
  BY <1>4 DEF Max
<1> QED BY <1>5

(* The prefix and the suffix makeTextDiff finds are common to both texts   *)
(* and do not overlap in either.                                           *)
LEMMA CommonBytes ==
  ASSUME NEW S, NEW before \in Seq(S), NEW after \in Seq(S)
  PROVE  LET p == commonPrefixBytes(before, after)
             q == commonSuffixBytes(before, after, p)
         IN /\ p \in Nat /\ q \in Nat
            /\ p + q <= Len(before) /\ p + q <= Len(after)
            /\ PrefixAgrees(before, after, p)
            /\ SuffixAgrees(before, after, q)
<1> DEFINE limit == sharedLimit(before, after)
           p == commonPrefixBytes(before, after)
           q == commonSuffixBytes(before, after, p)
<1>1. limit \in Nat /\ limit <= Len(before) /\ limit <= Len(after)
  BY LenProperties DEF sharedLimit
<1>2. p \in 0..limit /\ PrefixAgrees(before, after, p)
  <2> DEFINE P == {n \in 0..limit : PrefixAgrees(before, after, n)}
  <2>1. 0 \in P
    BY <1>1 DEF PrefixAgrees
  <2>2. P \in SUBSET (0..limit) /\ P # {}
    BY <2>1
  <2>3. Max(P) \in P
    <3> HIDE DEF P, limit
    <3> QED BY <1>1, <2>2, MaxBounded
  <2> QED BY <2>3 DEF commonPrefixBytes
<1>3. q \in 0..(limit - p) /\ SuffixAgrees(before, after, q)
  <2> DEFINE rest == limit - p
             Q == {n \in 0..rest : SuffixAgrees(before, after, n)}
  <2>1. rest \in Nat
    BY <1>1, <1>2
  <2>2. 0 \in Q
    BY <2>1 DEF SuffixAgrees
  <2>3. Q \in SUBSET (0..rest) /\ Q # {}
    BY <2>2
  <2>4. Max(Q) \in Q
    <3> HIDE DEF Q, rest
    <3> QED BY <2>1, <2>3, MaxBounded
  <2> QED BY <2>4 DEF commonSuffixBytes
<1> HIDE DEF limit, p, q
<1> QED BY <1>1, <1>2, <1>3, LenProperties DEF p, q

(* A delta is well-formed, applies to the text it was made from, and       *)
(* yields the text it was made for.                                        *)
THEOREM TextDiffExact ==
  ASSUME NEW S, NEW before \in Seq(S), NEW after \in Seq(S)
  PROVE  LET diff == makeTextDiff(before, after)
         IN /\ diff \in [commonPrefixBytes : Nat, commonSuffixBytes : Nat,
                          removedText : Seq(S), insertedText : Seq(S)]
            /\ TextDiffApplies(diff, before)
            /\ TextDiffResult(diff, before) = after
<1> DEFINE p == commonPrefixBytes(before, after)
           q == commonSuffixBytes(before, after, p)
           diff == makeTextDiff(before, after)
           m == Len(before)
           n == Len(after)
           kept == SubSeq(before, 1, p)
           inserted == SubSeq(after, p + 1, n - q)
           tail == SubSeq(before, m - q + 1, m)
<1>1. /\ p \in Nat /\ q \in Nat
      /\ p + q <= m /\ p + q <= n
      /\ \A i \in 1..p : before[i] = after[i]
      /\ \A i \in 0..q-1 : before[m - i] = after[n - i]
  BY CommonBytes DEF PrefixAgrees, SuffixAgrees
<1>2. /\ m \in Nat /\ n \in Nat
      /\ \A i \in 1..m : before[i] \in S
      /\ \A i \in 1..n : after[i] \in S
  BY LenProperties, ElementOfSeq
<1>3. diff = [commonPrefixBytes |-> p, commonSuffixBytes |-> q,
              removedText |-> SubSeq(before, p + 1, m - q),
              insertedText |-> inserted]
  BY DEF makeTextDiff
<1> HIDE DEF p, q, diff, m, n
<1>4. /\ SubSeq(before, p + 1, m - q) \in Seq(S)
      /\ inserted \in Seq(S) /\ Len(inserted) = n - q - p
      /\ \A i \in 1..n - q - p : inserted[i] = after[p + i]
  <2>1. /\ p + 1 \in Int /\ m - q \in Int /\ n - q \in Int
        /\ \A i \in p + 1..m - q : before[i] \in S
        /\ \A i \in p + 1..n - q : after[i] \in S
    BY <1>1, <1>2
  <2> QED BY <1>1, <1>2, <2>1, SubSeqProperties
<1>5. /\ kept \in Seq(S) /\ Len(kept) = p
      /\ \A i \in 1..p : kept[i] = before[i]
  <2>1. p \in Int /\ \A i \in 1..p : before[i] \in S
    BY <1>1, <1>2
  <2> QED BY <1>1, <2>1, SubSeqProperties
<1>6. /\ tail \in Seq(S) /\ Len(tail) = q
      /\ \A i \in 1..q : tail[i] = before[m - q + i]
  <2>1. /\ m - q + 1 \in Int /\ m \in Int
        /\ \A i \in m - q + 1..m : before[i] \in S
    BY <1>1, <1>2
  <2> QED BY <1>1, <1>2, <2>1, SubSeqProperties, SMTT(30)
<1> HIDE DEF kept, inserted, tail
<1>7. /\ kept \o inserted \in Seq(S) /\ Len(kept \o inserted) = n - q
      /\ \A i \in 1..n - q : (kept \o inserted)[i] = after[i]
  <2>1. /\ kept \o inserted \in Seq(S)
        /\ Len(kept \o inserted) = Len(kept) + Len(inserted)
        /\ \A i \in 1..Len(kept) + Len(inserted) :
             (kept \o inserted)[i] = IF i <= Len(kept) THEN kept[i]
                                     ELSE inserted[i - Len(kept)]
    BY <1>4, <1>5, ConcatProperties
  <2>2. Len(kept) + Len(inserted) = n - q
    BY <1>1, <1>2, <1>4, <1>5
  <2>3. ASSUME NEW i \in 1..n - q
        PROVE  (kept \o inserted)[i] = after[i]
    <3>1. CASE i <= p
      <4>1. (kept \o inserted)[i] = kept[i]
        BY <1>5, <2>1, <2>2, <3>1
      <4>2. i \in 1..p
        BY <1>1, <1>2, <3>1
      <4> QED BY <1>1, <1>5, <4>1, <4>2
    <3>2. CASE i > p
      <4>1. (kept \o inserted)[i] = inserted[i - p]
        BY <1>1, <1>2, <1>5, <2>1, <2>2, <3>2
      <4>2. i - p \in 1..n - q - p /\ p + (i - p) = i
        BY <1>1, <1>2, <3>2
      <4> QED BY <1>4, <4>1, <4>2
    <3>3. i <= p \/ i > p
      BY <1>1, <1>2
    <3> QED BY <3>1, <3>2, <3>3
  <2> QED BY <2>1, <2>2, <2>3
<1>8. (kept \o inserted) \o tail = after
  <2> DEFINE front == kept \o inserted
             result == front \o tail
  <2>0. front \in Seq(S) /\ tail \in Seq(S)
    BY <1>6, <1>7
  <2> HIDE DEF front
  <2>1. /\ result \in Seq(S)
        /\ Len(result) = Len(front) + Len(tail)
        /\ \A i \in 1..Len(front) + Len(tail) :
             result[i] = IF i <= Len(front) THEN front[i]
                         ELSE tail[i - Len(front)]
    BY <2>0, ConcatProperties
  <2>2. Len(front) = n - q /\ Len(front) + Len(tail) = n
    BY <1>1, <1>2, <1>6, <1>7 DEF front
  <2> HIDE DEF result
  <2>3. ASSUME NEW i \in 1..n
        PROVE  result[i] = after[i]
    <3>1. CASE i <= n - q
      <4>1. result[i] = front[i]
        BY <2>1, <2>2, <3>1
      <4>2. i \in 1..n - q
        BY <1>1, <1>2, <3>1
      <4> QED BY <1>7, <4>1, <4>2 DEF front
    <3>2. CASE i > n - q
      <4>1. PICK k \in 0..q-1 : i = n - k
        <5>1. n - i \in 0..q-1 /\ i = n - (n - i)
          BY <1>1, <1>2, <3>2
        <5> QED BY <5>1
      <4>2. result[i] = tail[i - (n - q)]
        <5>1. i \in 1..Len(front) + Len(tail) /\ ~(i <= Len(front))
          BY <1>1, <1>2, <2>2, <3>2
        <5> QED BY <2>1, <2>2, <5>1
      <4>3. i - (n - q) = q - k /\ q - k \in 1..q /\ m - q + (q - k) = m - k
        BY <1>1, <1>2, <4>1
      <4>4. tail[i - (n - q)] = before[m - k]
        BY <1>6, <4>3
      <4> QED BY <1>1, <4>1, <4>2, <4>4
    <3>3. i <= n - q \/ i > n - q
      BY <1>1, <1>2
    <3> QED BY <3>1, <3>2, <3>3
  <2>4. Len(result) = Len(after) /\ \A i \in 1..Len(result) : result[i] = after[i]
    BY <2>1, <2>2, <2>3 DEF n
  <2>5. result = after
    BY <2>1, <2>4, SeqEqual
  <2> QED BY <2>5 DEF result, front
<1>9. TextDiffApplies(diff, before)
  BY <1>1, <1>2, <1>3 DEF TextDiffApplies, m
<1>10. TextDiffResult(diff, before) = after
  BY <1>3, <1>8 DEF TextDiffResult, kept, inserted, tail, m
<1> QED BY <1>1, <1>3, <1>4, <1>9, <1>10 DEF diff

-----------------------------------------------------------------------------
(* verifyIntegrity without the retention limit. *)
CommitSound(h, i) ==
  /\ VersionResolves(h, h.versions[i])
  /\ ParentLinked(h, i)
  /\ HasBase(h, i) =>
       DiffReconstructs(h.diffs[h.versions[i].diffObjectId], BaseOf(h, i),
                        h.snapshots[h.versions[i].snapshotObjectId])

Linked(h) ==
  /\ BoundaryDeclared(h)
  /\ \A i \in 1..Len(h.versions) : CommitSound(h, i)
  /\ SnapshotsSound(h)
  /\ DiffsSound(h)

(* Inductive: an empty history has pruned nothing, or the first commit     *)
(* would not be linked to the declared boundary.                           *)
Sound(h) ==
  /\ WellFormed(h)
  /\ Linked(h)
  /\ h.versions = <<>> => h.prunedVersionCount = 0

-----------------------------------------------------------------------------
(* verifyIntegrity is Linked plus the limit. *)
LEMMA IntegrityIsLinked ==
  ASSUME NEW h
  PROVE  verifyIntegrity(h) <=> Linked(h) /\ Len(h.versions) <= maximumVersionCount
  BY DEF verifyIntegrity, Linked, CommitSound

(* Members of the list of commits of a well-formed history. *)
LEMMA Commits ==
  ASSUME NEW h, WellFormed(h)
  PROVE  /\ Len(h.versions) \in Nat
         /\ h.versions \in Seq(Range(h.versions))
         /\ h.versions = <<>> <=> Len(h.versions) = 0
         /\ Range(h.versions) = {h.versions[i] : i \in 1..Len(h.versions)}
         /\ \A i \in 1..Len(h.versions) : IsVersion(h.versions[i])
<1>1. h.versions \in Seq(Range(h.versions)) /\ \A v \in Range(h.versions) : IsVersion(v)
  BY DEF WellFormed
<1>2. DOMAIN h.versions = 1..Len(h.versions) /\ Len(h.versions) \in Nat
  BY <1>1, LenProperties
<1>3. Range(h.versions) = {h.versions[i] : i \in 1..Len(h.versions)}
  BY <1>2 DEF Range
<1>4. h.versions = <<>> <=> Len(h.versions) = 0
  BY <1>1, EmptySeq
<1> QED BY <1>1, <1>2, <1>3, <1>4

(* A snapshot is told by its id: a sound store holds no other snapshot     *)
(* under the id of this one.                                               *)
LEMMA SnapshotOfId ==
  ASSUME NEW m \in Metadata, NEW b \in Html, NEW n \in Metadata, NEW c \in Html,
         makeSnapshotFromContent(m, b).objectId = makeSnapshotFromContent(n, c).objectId
  PROVE  m = n /\ b = c
  BY ContentAssumption DEF makeSnapshotFromContent, hashObject

(* A new snapshot is well-formed, names itself and matches its id. *)
LEMMA NewSnapshot ==
  ASSUME NEW m \in Metadata, NEW b \in Html
  PROVE  LET s == makeSnapshotFromContent(m, b)
         IN /\ IsSnapshot(s)
            /\ snapshotMatchesId(s)
            /\ s.headerMetadata = m /\ s.bodyHtml = b
  BY DEF makeSnapshotFromContent, IsSnapshot, snapshotMatchesId

(* The delta between two snapshots is well-formed, names itself, and       *)
(* reconstructs its target: TextDiffExact for the header and for the body. *)
LEMMA NewDiff ==
  ASSUME NEW base, NEW target, IsSnapshot(base), IsSnapshot(target)
  PROVE  LET d == makeDiff(base, target)
         IN /\ IsDiff(d)
            /\ d.targetSnapshotObjectId = target.objectId
            /\ d.objectId = diffObjectId(d.baseSnapshotObjectId,
                              d.targetSnapshotObjectId, d.header, d.body)
            /\ DiffReconstructs(d, base, target)
<1>1. /\ encodedHeader(base.headerMetadata) \in Seq(Byte)
      /\ encodedHeader(target.headerMetadata) \in Seq(Byte)
      /\ base.bodyHtml \in Seq(Byte) /\ target.bodyHtml \in Seq(Byte)
  BY ContentAssumption DEF IsSnapshot
<1> DEFINE header == makeTextDiff(encodedHeader(base.headerMetadata),
                                  encodedHeader(target.headerMetadata))
           body == makeTextDiff(base.bodyHtml, target.bodyHtml)
<1>2. /\ header \in TextDiffs
      /\ TextDiffApplies(header, encodedHeader(base.headerMetadata))
      /\ TextDiffResult(header, encodedHeader(base.headerMetadata))
           = encodedHeader(target.headerMetadata)
  BY <1>1, TextDiffExact DEF TextDiffs
<1>3. /\ body \in TextDiffs
      /\ TextDiffApplies(body, base.bodyHtml)
      /\ TextDiffResult(body, base.bodyHtml) = target.bodyHtml
  BY <1>1, TextDiffExact DEF TextDiffs
<1>4. makeDiff(base, target) =
        [objectId |-> diffObjectId(base.objectId, target.objectId, header, body),
         baseSnapshotObjectId |-> base.objectId,
         targetSnapshotObjectId |-> target.objectId,
         header |-> header, body |-> body]
  BY DEF makeDiff
<1> HIDE DEF header, body
<1> QED BY <1>2, <1>3, <1>4 DEF IsDiff, DiffReconstructs

(* The snapshot a new commit starts from. *)
LEMMA BaseIsSnapshot ==
  ASSUME NEW h, Sound(h)
  PROVE  IsSnapshot(baseSnapshot(h))
<1>1. CASE h.versions = <<>>
  BY <1>1, NewSnapshot, ContentAssumption DEF baseSnapshot, makeEmptySnapshot
<1>2. CASE h.versions # <<>>
  <2>1. Len(h.versions) \in 1..Len(h.versions)
    BY <1>2, Commits DEF Sound
  <2>2. head(h).snapshotObjectId \in DOMAIN h.snapshots
    BY <2>1 DEF Sound, Linked, CommitSound, VersionResolves, head
  <2> QED BY <1>2, <2>2 DEF baseSnapshot, Sound, WellFormed
<1> QED BY <1>1, <1>2

(* Erasing what was inserted restores a map. *)
LEMMA EmplaceUndone ==
  ASSUME NEW map, NEW id, NEW object, map = [k \in DOMAIN map |-> map[k]]
  PROVE  /\ id \notin DOMAIN map => eraseKey(tryEmplace(map, id, object), id) = map
         /\ id \in DOMAIN map => tryEmplace(map, id, object) = map
<1>1. CASE id \in DOMAIN map
  BY <1>1 DEF tryEmplace
<1>2. CASE id \notin DOMAIN map
  <2> DEFINE new == tryEmplace(map, id, object)
  <2>1. DOMAIN new \ {id} = DOMAIN map /\ \A k \in DOMAIN map : new[k] = map[k]
    BY <1>2 DEF tryEmplace
  <2> HIDE DEF new
  <2>2. eraseKey(new, id) = [k \in DOMAIN map |-> map[k]]
    BY <2>1 DEF eraseKey, Restrict
  <2> QED BY <1>2, <2>2 DEF new
<1> QED BY <1>1, <1>2

(* Replacing members of a history, one of them at a time, leaves the rest. *)
IsHistory(h) ==
  h = [versions |-> h.versions, snapshots |-> h.snapshots, diffs |-> h.diffs,
       prunedVersionCount |-> h.prunedVersionCount,
       shallowBoundaryParentObjectId |-> h.shallowBoundaryParentObjectId]

(* New snapshots and diffs leave the commits.                              *)
LEMMA StoresReplaced ==
  ASSUME NEW h, IsHistory(h), NEW snapshots, NEW diffs
  PROVE  [h EXCEPT !.snapshots = snapshots, !.diffs = diffs] =
           [versions |-> h.versions, snapshots |-> snapshots, diffs |-> diffs,
            prunedVersionCount |-> h.prunedVersionCount,
            shallowBoundaryParentObjectId |-> h.shallowBoundaryParentObjectId]
<1> DEFINE a == [h EXCEPT !.snapshots = snapshots]
           b == [a EXCEPT !.diffs = diffs]
<1>1. a = [versions |-> h.versions, snapshots |-> snapshots, diffs |-> h.diffs,
           prunedVersionCount |-> h.prunedVersionCount,
           shallowBoundaryParentObjectId |-> h.shallowBoundaryParentObjectId]
  BY DEF IsHistory
<1> HIDE DEF a
<1>2. b = [versions |-> h.versions, snapshots |-> snapshots, diffs |-> diffs,
           prunedVersionCount |-> h.prunedVersionCount,
           shallowBoundaryParentObjectId |-> h.shallowBoundaryParentObjectId]
  BY <1>1
<1> HIDE DEF b
<1>3. b = [h EXCEPT !.snapshots = snapshots, !.diffs = diffs]
  BY DEF a, b
<1> QED BY <1>2, <1>3

(* A new commit comes with its objects.                                    *)
LEMMA CommitReplaced ==
  ASSUME NEW h, IsHistory(h), NEW snapshots, NEW diffs, NEW versions
  PROVE  [h EXCEPT !.snapshots = snapshots, !.diffs = diffs, !.versions = versions] =
           [versions |-> versions, snapshots |-> snapshots, diffs |-> diffs,
            prunedVersionCount |-> h.prunedVersionCount,
            shallowBoundaryParentObjectId |-> h.shallowBoundaryParentObjectId]
<1> DEFINE a == [h EXCEPT !.snapshots = snapshots, !.diffs = diffs]
           b == [a EXCEPT !.versions = versions]
<1>1. a = [versions |-> h.versions, snapshots |-> snapshots, diffs |-> diffs,
           prunedVersionCount |-> h.prunedVersionCount,
           shallowBoundaryParentObjectId |-> h.shallowBoundaryParentObjectId]
  BY StoresReplaced
<1> HIDE DEF a
<1>2. b = [versions |-> versions, snapshots |-> snapshots, diffs |-> diffs,
           prunedVersionCount |-> h.prunedVersionCount,
           shallowBoundaryParentObjectId |-> h.shallowBoundaryParentObjectId]
  BY <1>1
<1> HIDE DEF b
<1>3. b = [h EXCEPT !.snapshots = snapshots, !.diffs = diffs, !.versions = versions]
  BY DEF a, b
<1> QED BY <1>2, <1>3

(* Pruning replaces the commits and the declared boundary.                 *)
LEMMA BoundaryReplaced ==
  ASSUME NEW h, IsHistory(h), NEW versions, NEW count, NEW boundary
  PROVE  [h EXCEPT !.versions = versions, !.prunedVersionCount = count,
                   !.shallowBoundaryParentObjectId = boundary] =
           [versions |-> versions, snapshots |-> h.snapshots, diffs |-> h.diffs,
            prunedVersionCount |-> count,
            shallowBoundaryParentObjectId |-> boundary]
<1> DEFINE a == [h EXCEPT !.versions = versions]
           b == [a EXCEPT !.prunedVersionCount = count]
           c == [b EXCEPT !.shallowBoundaryParentObjectId = boundary]
<1>1. a = [versions |-> versions, snapshots |-> h.snapshots, diffs |-> h.diffs,
           prunedVersionCount |-> h.prunedVersionCount,
           shallowBoundaryParentObjectId |-> h.shallowBoundaryParentObjectId]
  BY DEF IsHistory
<1> HIDE DEF a
<1>2. b = [versions |-> versions, snapshots |-> h.snapshots, diffs |-> h.diffs,
           prunedVersionCount |-> count,
           shallowBoundaryParentObjectId |-> h.shallowBoundaryParentObjectId]
  BY <1>1
<1> HIDE DEF b
<1>3. c = [versions |-> versions, snapshots |-> h.snapshots, diffs |-> h.diffs,
           prunedVersionCount |-> count,
           shallowBoundaryParentObjectId |-> boundary]
  BY <1>2
<1> HIDE DEF c
<1>4. c = [h EXCEPT !.versions = versions, !.prunedVersionCount = count,
                    !.shallowBoundaryParentObjectId = boundary]
  BY DEF a, b, c
<1> QED BY <1>3, <1>4

(* The members of the history with one more commit. *)
LEMMA AppendedFields ==
  ASSUME NEW h, WellFormed(h), NEW target, NEW label, NEW time
  PROVE  LET diff == makeDiff(baseSnapshot(h), target)
             version == makeVersion(parentId(h), target.objectId, diff.objectId,
                                    label, time)
         IN appended(h, target, label, time) =
              [versions |-> Append(h.versions, version),
               snapshots |-> tryEmplace(h.snapshots, target.objectId, target),
               diffs |-> tryEmplace(h.diffs, diff.objectId, diff),
               prunedVersionCount |-> h.prunedVersionCount,
               shallowBoundaryParentObjectId |-> h.shallowBoundaryParentObjectId]
<1> DEFINE diff == makeDiff(baseSnapshot(h), target)
           version == makeVersion(parentId(h), target.objectId, diff.objectId,
                                  label, time)
           snapshots == tryEmplace(h.snapshots, target.objectId, target)
           diffs == tryEmplace(h.diffs, diff.objectId, diff)
           versions == Append(h.versions, version)
<1>1. appended(h, target, label, time) =
        [h EXCEPT !.snapshots = snapshots, !.diffs = diffs, !.versions = versions]
  BY Zenon DEF appended
<1>2. IsHistory(h)
  BY DEF WellFormed, IsHistory
<1> HIDE DEF snapshots, diffs, versions
<1>3. appended(h, target, label, time) =
        [versions |-> versions, snapshots |-> snapshots, diffs |-> diffs,
         prunedVersionCount |-> h.prunedVersionCount,
         shallowBoundaryParentObjectId |-> h.shallowBoundaryParentObjectId]
  BY <1>1, <1>2, CommitReplaced, Zenon
<1> QED BY <1>3 DEF snapshots, diffs, versions

(* What was recorded can be read back from the commit. *)
GivesBack(h, v, m, b, label, time) ==
  /\ v.label = label /\ v.createdAtUtc = time
  /\ h.snapshots[v.snapshotObjectId].headerMetadata = m
  /\ h.snapshots[v.snapshotObjectId].bodyHtml = b

(* One more commit leaves a history well-formed and linked, and gives back *)
(* what was recorded.                                                      *)
LEMMA AppendedSound ==
  ASSUME NEW h, Sound(h), NEW m \in Metadata, NEW b \in Html,
         NEW label \in Label, NEW time \in Timestamp
  PROVE  LET a == appended(h, makeSnapshotFromContent(m, b), label, time)
         IN /\ Sound(a)
            /\ Len(a.versions) = Len(h.versions) + 1
            /\ a.prunedVersionCount = h.prunedVersionCount
            /\ \A i \in 1..Len(h.versions) : a.versions[i] = h.versions[i]
            /\ \A id \in DOMAIN h.snapshots :
                 id \in DOMAIN a.snapshots /\ a.snapshots[id] = h.snapshots[id]
            /\ \A id \in DOMAIN h.diffs :
                 id \in DOMAIN a.diffs /\ a.diffs[id] = h.diffs[id]
            /\ GivesBack(a, a.versions[Len(h.versions) + 1], m, b, label, time)
<1> DEFINE target == makeSnapshotFromContent(m, b)
           diff == makeDiff(baseSnapshot(h), target)
           version == makeVersion(parentId(h), target.objectId, diff.objectId,
                                  label, time)
           a == appended(h, target, label, time)
           N == Len(h.versions)
<1>1. WellFormed(h) /\ Linked(h) /\ (h.versions = <<>> => h.prunedVersionCount = 0)
  BY DEF Sound
<1>2. /\ IsSnapshot(target) /\ snapshotMatchesId(target)
      /\ target.headerMetadata = m /\ target.bodyHtml = b
  BY NewSnapshot
<1>3. /\ IsDiff(diff)
      /\ diff.targetSnapshotObjectId = target.objectId
      /\ diff.objectId = diffObjectId(diff.baseSnapshotObjectId,
                           diff.targetSnapshotObjectId, diff.header, diff.body)
      /\ DiffReconstructs(diff, baseSnapshot(h), target)
  BY <1>2, BaseIsSnapshot, NewDiff
<1>4. /\ version = [objectId |-> version.objectId,
                    parentObjectId |-> parentId(h),
                    snapshotObjectId |-> target.objectId,
                    diffObjectId |-> diff.objectId,
                    label |-> label, createdAtUtc |-> time]
      /\ version.objectId = versionObjectId(version)
  BY DEF makeVersion, versionObjectId
<1>5. /\ a.versions = Append(h.versions, version)
      /\ a.snapshots = tryEmplace(h.snapshots, target.objectId, target)
      /\ a.diffs = tryEmplace(h.diffs, diff.objectId, diff)
      /\ a.prunedVersionCount = h.prunedVersionCount
      /\ a.shallowBoundaryParentObjectId = h.shallowBoundaryParentObjectId
      /\ a = [versions |-> a.versions, snapshots |-> a.snapshots, diffs |-> a.diffs,
              prunedVersionCount |-> a.prunedVersionCount,
              shallowBoundaryParentObjectId |-> a.shallowBoundaryParentObjectId]
  BY <1>1, AppendedFields
<1> HIDE DEF target, diff, version, a
<1>6. /\ N \in Nat
      /\ h.versions \in Seq(Range(h.versions))
      /\ h.versions = <<>> <=> N = 0
      /\ Range(h.versions) = {h.versions[i] : i \in 1..N}
      /\ \A i \in 1..N : IsVersion(h.versions[i])
  BY <1>1, Commits
<1>7. /\ Len(a.versions) = N + 1
      /\ \A i \in 1..N : a.versions[i] = h.versions[i]
      /\ a.versions[N + 1] = version
      /\ Range(a.versions) = Range(h.versions) \cup {version}
      /\ a.versions \in Seq(Range(a.versions))
  <2> DEFINE R == Range(h.versions) \cup {version}
  <2>1. h.versions \in Seq(R) /\ version \in R
    BY <1>6, SeqMonotonic
  <2> HIDE DEF R
  <2>2. /\ a.versions \in Seq(R)
        /\ Len(a.versions) = N + 1
        /\ \A i \in 1..N : a.versions[i] = h.versions[i]
        /\ a.versions[N + 1] = version
    BY <1>5, <2>1, AppendProperties
  <2>3. DOMAIN a.versions = 1..N + 1
    BY <2>2, LenProperties
  <2>4. Range(a.versions) = {a.versions[i] : i \in 1..N + 1}
    BY <2>3 DEF Range
  <2>5. Range(a.versions) = R
    <3>1. \A i \in 1..N + 1 : i \in 1..N \/ i = N + 1
      BY <1>6
    <3>2. 1..N \subseteq 1..N + 1 /\ N + 1 \in 1..N + 1
      BY <1>6
    <3>3. {a.versions[i] : i \in 1..N + 1} = {h.versions[i] : i \in 1..N} \cup {version}
      BY <2>2, <3>1, <3>2
    <3> QED BY <1>6, <2>4, <3>3 DEF R
  <2> QED BY <2>2, <2>5 DEF R
<1>8. /\ DOMAIN a.snapshots = DOMAIN h.snapshots \cup {target.objectId}
      /\ a.snapshots = [id \in DOMAIN a.snapshots |-> a.snapshots[id]]
      /\ \A id \in DOMAIN h.snapshots : a.snapshots[id] = h.snapshots[id]
      /\ a.snapshots[target.objectId] = target
  <2>1. target.objectId \in DOMAIN h.snapshots => h.snapshots[target.objectId] = target
    <3> SUFFICES ASSUME target.objectId \in DOMAIN h.snapshots
                 PROVE  h.snapshots[target.objectId] = target
      OBVIOUS
    <3> DEFINE s == h.snapshots[target.objectId]
    <3>1. IsSnapshot(s) /\ s.objectId = target.objectId /\ snapshotMatchesId(s)
      BY <1>1 DEF WellFormed, Linked, SnapshotsSound
    <3>2. s.headerMetadata \in Metadata /\ s.bodyHtml \in Html
      BY <3>1 DEF IsSnapshot
    <3>3. s = makeSnapshotFromContent(s.headerMetadata, s.bodyHtml)
      BY <3>1 DEF snapshotMatchesId
    <3>4. s.headerMetadata = m /\ s.bodyHtml = b
      BY <3>1, <3>2, <3>3, SnapshotOfId DEF target
    <3> QED BY <3>3, <3>4 DEF target
  <2>2. h.snapshots = [id \in DOMAIN h.snapshots |-> h.snapshots[id]]
    BY <1>1 DEF WellFormed
  <2> QED BY <1>5, <2>1, <2>2 DEF tryEmplace
<1>9. /\ DOMAIN a.diffs = DOMAIN h.diffs \cup {diff.objectId}
      /\ a.diffs = [id \in DOMAIN a.diffs |-> a.diffs[id]]
      /\ \A id \in DOMAIN h.diffs : a.diffs[id] = h.diffs[id]
      /\ a.diffs[diff.objectId] = diff
  <2>1. diff.objectId \in DOMAIN h.diffs => h.diffs[diff.objectId] = diff
    <3> SUFFICES ASSUME diff.objectId \in DOMAIN h.diffs
                 PROVE  h.diffs[diff.objectId] = diff
      OBVIOUS
    <3> DEFINE d == h.diffs[diff.objectId]
    <3>1. IsDiff(d) /\ d.objectId = diff.objectId
          /\ d.objectId = diffObjectId(d.baseSnapshotObjectId,
                            d.targetSnapshotObjectId, d.header, d.body)
      BY <1>1 DEF WellFormed, Linked, DiffsSound
    <3> HIDE DEF d
    <3>2. /\ d.baseSnapshotObjectId = diff.baseSnapshotObjectId
          /\ d.targetSnapshotObjectId = diff.targetSnapshotObjectId
          /\ d.header = diff.header /\ d.body = diff.body
      BY <1>3, <3>1 DEF diffObjectId, hashObject
    <3>3. d = diff
      BY <1>3, <3>1, <3>2 DEF IsDiff
    <3> QED BY <3>3 DEF d
  <2>2. h.diffs = [id \in DOMAIN h.diffs |-> h.diffs[id]]
    BY <1>1 DEF WellFormed
  <2> QED BY <1>5, <2>1, <2>2 DEF tryEmplace
<1>10. WellFormed(a)
  <2>1. IsVersion(version)
    BY <1>4 DEF IsVersion
  <2>2. \A v \in Range(a.versions) : IsVersion(v)
    BY <1>1, <1>7, <2>1 DEF WellFormed
  <2>3. \A id \in DOMAIN a.snapshots : IsSnapshot(a.snapshots[id])
    BY <1>1, <1>2, <1>8 DEF WellFormed
  <2>4. \A id \in DOMAIN a.diffs : IsDiff(a.diffs[id])
    BY <1>1, <1>3, <1>9 DEF WellFormed
  <2>5. a.prunedVersionCount \in 0..MaxPrunedCount
    BY <1>1, <1>5 DEF WellFormed
  <2> QED BY <1>5, <1>7, <1>8, <1>9, <2>2, <2>3, <2>4, <2>5 DEF WellFormed
<1>11. \A i \in 1..N : CommitSound(a, i)
  <2> TAKE i \in 1..N
  <2> DEFINE v == h.versions[i]
  <2>1. CommitSound(h, i) /\ a.versions[i] = v
    BY <1>1, <1>7 DEF Linked
  <2>2. /\ v.snapshotObjectId \in DOMAIN h.snapshots
        /\ v.diffObjectId \in DOMAIN h.diffs
    BY <2>1 DEF CommitSound, VersionResolves
  <2>3. VersionResolves(a, v)
    BY <1>8, <1>9, <2>1, <2>2 DEF CommitSound, VersionResolves
  <2>4. i > 1 => i - 1 \in 1..N
    BY <1>6
  <2>5. ParentLinked(a, i)
    BY <1>5, <1>7, <2>1, <2>4 DEF CommitSound, ParentLinked
  <2>6. HasBase(a, i) => HasBase(h, i) /\ BaseOf(a, i) = BaseOf(h, i)
    <3>1. i > 1 => h.versions[i - 1].snapshotObjectId \in DOMAIN h.snapshots
      BY <1>1, <2>4 DEF Linked, CommitSound, VersionResolves
    <3> QED BY <1>5, <1>7, <1>8, <2>4, <3>1 DEF HasBase, BaseOf
  <2> QED BY <1>8, <1>9, <2>1, <2>2, <2>3, <2>5, <2>6 DEF CommitSound
<1>12. CommitSound(a, N + 1)
  <2>1. VersionResolves(a, version)
    BY <1>3, <1>4, <1>8, <1>9 DEF VersionResolves
  <2>2. CASE h.versions = <<>>
    <3>1. N = 0 /\ h.prunedVersionCount = 0
      BY <1>1, <1>6, <2>2
    <3>2. h.shallowBoundaryParentObjectId = NoObject
      BY <1>1, <3>1 DEF Linked, BoundaryDeclared
    <3>3. ParentLinked(a, N + 1)
      BY <1>4, <1>5, <1>7, <2>2, <3>1, <3>2 DEF ParentLinked, parentId
    <3>4. BaseOf(a, N + 1) = baseSnapshot(h)
      BY <2>2, <3>1 DEF BaseOf, baseSnapshot
    <3> QED BY <1>3, <1>4, <1>7, <1>8, <1>9, <2>1, <3>3, <3>4 DEF CommitSound
  <2>3. CASE h.versions # <<>>
    <3>1. N + 1 > 1 /\ (N + 1) - 1 = N /\ N \in 1..N
      BY <1>6, <2>3
    <3>2. ParentLinked(a, N + 1)
      BY <1>4, <1>7, <2>3, <3>1 DEF ParentLinked, parentId, head
    <3>3. h.versions[N].snapshotObjectId \in DOMAIN h.snapshots
      BY <1>1, <3>1 DEF Linked, CommitSound, VersionResolves
    <3>4. BaseOf(a, N + 1) = baseSnapshot(h)
      BY <1>7, <1>8, <2>3, <3>1, <3>3 DEF BaseOf, baseSnapshot, head
    <3> QED BY <1>3, <1>4, <1>7, <1>8, <1>9, <2>1, <3>2, <3>4 DEF CommitSound
  <2> QED BY <2>2, <2>3
<1>13. Linked(a)
  <2>1. BoundaryDeclared(a)
    BY <1>1, <1>5 DEF Linked, BoundaryDeclared
  <2>2. \A i \in 1..Len(a.versions) : CommitSound(a, i)
    <3>1. \A i \in 1..N + 1 : i \in 1..N \/ i = N + 1
      BY <1>6
    <3> QED BY <1>7, <1>11, <1>12, <3>1
  <2>3. SnapshotsSound(a)
    BY <1>1, <1>2, <1>4, <1>7, <1>8 DEF Linked, SnapshotsSound
  <2>4. DiffsSound(a)
    BY <1>1, <1>3, <1>4, <1>7, <1>9 DEF Linked, DiffsSound
  <2> QED BY <2>1, <2>2, <2>3, <2>4 DEF Linked
<1>14. a.versions # <<>>
  BY <1>6, <1>7
<1>15. GivesBack(a, a.versions[N + 1], m, b, label, time)
  BY <1>2, <1>4, <1>7, <1>8 DEF GivesBack
<1> QED BY <1>5, <1>7, <1>8, <1>9, <1>10, <1>13, <1>14, <1>15 DEF Sound, a, target

(* The members of a history that is one commit over the limit, pruned. *)
LEMMA PrunedFields ==
  ASSUME NEW h, WellFormed(h), Len(h.versions) = maximumVersionCount + 1
  PROVE  LET kept == SubSeq(h.versions, 2, Len(h.versions))
             p == pruneOldestVersions(h)
         IN /\ p.versions = kept
            /\ p.snapshots = [id \in DOMAIN h.snapshots
                                \cap {v.snapshotObjectId : v \in Range(kept)}
                                |-> h.snapshots[id]]
            /\ p.diffs = [id \in DOMAIN h.diffs
                            \cap {v.diffObjectId : v \in Range(kept)}
                            |-> h.diffs[id]]
            /\ p.prunedVersionCount
                 = (h.prunedVersionCount + 1) % (MaxPrunedCount + 1)
            /\ p.shallowBoundaryParentObjectId = kept[1].parentObjectId
            /\ IsHistory(p)
<1> DEFINE kept == SubSeq(h.versions, 2, Len(h.versions))
           count == (h.prunedVersionCount + 1) % (MaxPrunedCount + 1)
           boundary == kept[1].parentObjectId
           cut == [h EXCEPT !.versions = kept, !.prunedVersionCount = count,
                            !.shallowBoundaryParentObjectId = boundary]
           snapshots == Restrict(h.snapshots, DOMAIN h.snapshots
                                   \cap {v.snapshotObjectId : v \in Range(kept)})
           diffs == Restrict(h.diffs, DOMAIN h.diffs
                               \cap {v.diffObjectId : v \in Range(kept)})
<1>1. Len(h.versions) - maximumVersionCount = 1 /\ ~(1 <= 0) /\ 1 + 1 = 2
  BY LimitAssumption
<1>2. pruneOldestVersions(h) = collectUnreferencedObjects(cut)
  BY <1>1, Zenon DEF pruneOldestVersions
<1>3. IsHistory(h)
  BY DEF WellFormed, IsHistory
<1> HIDE DEF kept, count, boundary
<1>4. cut = [versions |-> kept, snapshots |-> h.snapshots, diffs |-> h.diffs,
             prunedVersionCount |-> count, shallowBoundaryParentObjectId |-> boundary]
  BY <1>3, BoundaryReplaced, Zenon
<1> HIDE DEF cut
<1>5. /\ IsHistory(cut)
      /\ cut.versions = kept /\ cut.snapshots = h.snapshots /\ cut.diffs = h.diffs
      /\ cut.prunedVersionCount = count
      /\ cut.shallowBoundaryParentObjectId = boundary
  BY <1>4 DEF IsHistory
<1>6. collectUnreferencedObjects(cut) =
        [cut EXCEPT !.snapshots = snapshots, !.diffs = diffs]
  BY <1>5, Zenon DEF collectUnreferencedObjects
<1> HIDE DEF snapshots, diffs
<1>7. collectUnreferencedObjects(cut) =
        [versions |-> cut.versions, snapshots |-> snapshots, diffs |-> diffs,
         prunedVersionCount |-> cut.prunedVersionCount,
         shallowBoundaryParentObjectId |-> cut.shallowBoundaryParentObjectId]
  BY <1>5, <1>6, StoresReplaced, Zenon
<1> DEFINE p == pruneOldestVersions(h)
<1>8. /\ p.versions = kept /\ p.snapshots = snapshots /\ p.diffs = diffs
      /\ p.prunedVersionCount = count
      /\ p.shallowBoundaryParentObjectId = boundary
      /\ IsHistory(p)
  BY <1>2, <1>5, <1>7 DEF IsHistory
<1> HIDE DEF p
<1> QED
  BY <1>8 DEF p, kept, count, boundary, snapshots, diffs, Restrict

(* A counter that has not reached its limit does not wrap. *)
LEMMA SmallRemainder ==
  ASSUME NEW k \in Nat \ {0}, NEW x \in 0..k - 1
  PROVE  x % k = x
  OBVIOUS

(* Pruning the one commit over the limit leaves a history well-formed,     *)
(* linked and within the limit: the new boundary is the id of the commit   *)
(* that left, which is never empty.                                        *)
LEMMA PrunedSound ==
  ASSUME NEW h, Sound(h), Len(h.versions) = maximumVersionCount + 1,
         h.prunedVersionCount # MaxPrunedCount
  PROVE  LET p == pruneOldestVersions(h)
         IN /\ Sound(p)
            /\ Len(p.versions) = maximumVersionCount
            /\ p.prunedVersionCount = h.prunedVersionCount + 1
            /\ \A i \in 1..maximumVersionCount : p.versions[i] = h.versions[i + 1]
            /\ \A id \in DOMAIN p.snapshots :
                 id \in DOMAIN h.snapshots /\ p.snapshots[id] = h.snapshots[id]
            /\ \A id \in DOMAIN p.diffs :
                 id \in DOMAIN h.diffs /\ p.diffs[id] = h.diffs[id]
<1> DEFINE p == pruneOldestVersions(h)
           N == maximumVersionCount
           kept == SubSeq(h.versions, 2, N + 1)
<1>1. WellFormed(h) /\ Linked(h)
  BY DEF Sound
<1>2. /\ N \in Nat \ {0} /\ 1 \in 1..N /\ 2 \in 1..N + 1
      /\ h.prunedVersionCount \in 0..MaxPrunedCount /\ MaxPrunedCount \in Nat
  BY <1>1, LimitAssumption DEF WellFormed
<1>3. /\ p.versions = kept
      /\ p.snapshots = [id \in DOMAIN h.snapshots
                          \cap {v.snapshotObjectId : v \in Range(kept)}
                          |-> h.snapshots[id]]
      /\ p.diffs = [id \in DOMAIN h.diffs
                      \cap {v.diffObjectId : v \in Range(kept)}
                      |-> h.diffs[id]]
      /\ p.prunedVersionCount = (h.prunedVersionCount + 1) % (MaxPrunedCount + 1)
      /\ p.shallowBoundaryParentObjectId = kept[1].parentObjectId
      /\ IsHistory(p)
  BY <1>1, PrunedFields, ZenonT(60)
<1>4. /\ h.versions \in Seq(Range(h.versions))
      /\ Range(h.versions) = {h.versions[i] : i \in 1..N + 1}
      /\ \A i \in 1..N + 1 : IsVersion(h.versions[i])
  BY <1>1, Commits
<1> HIDE DEF p, kept
<1>5. /\ kept \in Seq(Range(h.versions))
      /\ Len(kept) = N
      /\ \A i \in 1..N : kept[i] = h.versions[i + 1]
  <2>1. /\ N + 1 \in Int /\ 2 \in Int /\ (N + 1) - 2 + 1 = N /\ 2 <= (N + 1) + 1
        /\ \A i \in 2..N + 1 : h.versions[i] \in Range(h.versions)
        /\ \A i \in 1..N : 2 + i - 1 = i + 1
    BY <1>2, <1>4
  <2>2. /\ kept \in Seq(Range(h.versions))
        /\ Len(kept) = (N + 1) - 2 + 1
        /\ \A i \in 1..(N + 1) - 2 + 1 : kept[i] = h.versions[2 + i - 1]
    BY <2>1, SubSeqProperties DEF kept
  <2> QED BY <2>1, <2>2
<1>6. /\ Range(kept) = {kept[i] : i \in 1..N}
      /\ kept \in Seq(Range(kept))
      /\ kept # <<>>
  <2>1. DOMAIN kept = 1..N
    BY <1>5, LenProperties
  <2>2. Range(kept) = {kept[i] : i \in 1..N}
    BY <2>1 DEF Range
  <2>3. kept \in Seq(Range(kept))
    <3>1. \A i \in 1..N : kept[i] \in Range(kept)
      BY <2>2
    <3>2. kept = [i \in 1..N |-> kept[i]]
      BY <1>5, LenProperties
    <3>3. [i \in 1..N |-> kept[i]] \in Seq(Range(kept))
      BY <1>2, <3>1, IsASeq
    <3> QED BY <3>2, <3>3
  <2> QED BY <1>2, <1>5, <2>2, <2>3
<1>7. p.prunedVersionCount = h.prunedVersionCount + 1
      /\ p.prunedVersionCount \in 1..MaxPrunedCount
  <2>1. h.prunedVersionCount + 1 \in 1..MaxPrunedCount
    BY <1>2
  <2>2. (h.prunedVersionCount + 1) % (MaxPrunedCount + 1) = h.prunedVersionCount + 1
    <3>1. MaxPrunedCount + 1 \in Nat \ {0}
      BY <1>2
    <3>2. h.prunedVersionCount + 1 \in 0..(MaxPrunedCount + 1) - 1
      BY <1>2, <2>1
    <3> QED BY <3>1, <3>2, SmallRemainder
  <2> QED BY <1>3, <2>1, <2>2
<1>8. /\ \A id \in DOMAIN p.snapshots :
           id \in DOMAIN h.snapshots /\ p.snapshots[id] = h.snapshots[id]
      /\ \A id \in DOMAIN p.diffs :
           id \in DOMAIN h.diffs /\ p.diffs[id] = h.diffs[id]
  BY <1>3
<1>9. WellFormed(p)
  <2>1. \A v \in Range(p.versions) : IsVersion(v)
    <3>1. \A i \in 1..N : i + 1 \in 1..N + 1
      BY <1>2
    <3>2. \A i \in 1..N : IsVersion(kept[i])
      BY <1>4, <1>5, <3>1
    <3> QED BY <1>3, <1>6, <3>2
  <2>2. /\ p.snapshots = [id \in DOMAIN p.snapshots |-> p.snapshots[id]]
        /\ p.diffs = [id \in DOMAIN p.diffs |-> p.diffs[id]]
    BY <1>3
  <2>3. /\ \A id \in DOMAIN p.snapshots : IsSnapshot(p.snapshots[id])
        /\ \A id \in DOMAIN p.diffs : IsDiff(p.diffs[id])
    BY <1>1, <1>8 DEF WellFormed
  <2>4. p.prunedVersionCount \in 0..MaxPrunedCount
    BY <1>7
  <2> QED BY <1>3, <1>6, <2>1, <2>2, <2>3, <2>4 DEF WellFormed, IsHistory
<1>10. \A i \in 1..N : CommitSound(p, i)
  <2> TAKE i \in 1..N
  <2> DEFINE v == h.versions[i + 1]
  <2>1. i + 1 \in 1..N + 1 /\ i \in 1..N + 1 /\ i + 1 > 1 /\ (i + 1) - 1 = i
    BY <1>2
  <2>2. CommitSound(h, i + 1) /\ CommitSound(h, i)
    BY <1>1, <2>1 DEF Linked
  <2>3. p.versions[i] = v /\ v \in Range(kept)
    BY <1>3, <1>5, <1>6
  <2>4. /\ v.snapshotObjectId \in DOMAIN p.snapshots
        /\ v.diffObjectId \in DOMAIN p.diffs
    BY <1>3, <2>2, <2>3 DEF CommitSound, VersionResolves
  <2>5. VersionResolves(p, v)
    BY <1>8, <2>2, <2>4 DEF CommitSound, VersionResolves
  <2>6. v.parentObjectId = h.versions[i].objectId
    BY <2>1, <2>2 DEF CommitSound, ParentLinked
  <2>7. i > 1 => i - 1 \in 1..N /\ (i - 1) + 1 = i
    BY <1>2
  <2>8. ParentLinked(p, i)
    <3>1. CASE i > 1
      BY <1>3, <1>5, <2>3, <2>6, <2>7, <3>1 DEF ParentLinked
    <3>2. CASE ~(i > 1)
      <4>1. i = 1
        BY <1>2, <3>2
      <4> QED BY <1>3, <1>5, <2>3, <3>2, <4>1 DEF ParentLinked
    <3> QED BY <3>1, <3>2
  <2>9. HasBase(p, i) => HasBase(h, i + 1) /\ BaseOf(p, i) = BaseOf(h, i + 1)
    <3> SUFFICES ASSUME HasBase(p, i)
                 PROVE  HasBase(h, i + 1) /\ BaseOf(p, i) = BaseOf(h, i + 1)
      OBVIOUS
    <3>1. i > 1
      BY <1>7 DEF HasBase
    <3>2. p.versions[i - 1] = h.versions[i] /\ h.versions[i] \in Range(kept)
      <4>1. i - 1 \in 1..N /\ (i - 1) + 1 = i
        BY <2>7, <3>1
      <4>2. kept[i - 1] = h.versions[i] /\ kept[i - 1] \in Range(kept)
        BY <1>5, <1>6, <4>1
      <4> QED BY <1>3, <4>2
    <3>3. h.versions[i].snapshotObjectId \in DOMAIN p.snapshots
      BY <1>3, <2>2, <3>2 DEF CommitSound, VersionResolves
    <3>4. HasBase(h, i + 1)
      BY <2>1 DEF HasBase
    <3>5. BaseOf(p, i) = p.snapshots[p.versions[i - 1].snapshotObjectId]
      BY <3>1 DEF BaseOf
    <3>6. BaseOf(h, i + 1) = h.snapshots[h.versions[i].snapshotObjectId]
      BY <2>1 DEF BaseOf
    <3>7. p.snapshots[h.versions[i].snapshotObjectId]
            = h.snapshots[h.versions[i].snapshotObjectId]
      BY <1>8, <3>3
    <3> QED BY <3>2, <3>4, <3>5, <3>6, <3>7
  <2> QED BY <1>8, <2>2, <2>3, <2>4, <2>5, <2>8, <2>9 DEF CommitSound
<1>11. BoundaryDeclared(p)
  <2>1. p.shallowBoundaryParentObjectId = h.versions[1].objectId
    <3>1. kept[1] = h.versions[2] /\ 1 \in 1..N + 1 /\ 2 > 1 /\ 2 - 1 = 1
      BY <1>2, <1>5
    <3>2. ParentLinked(h, 2)
      BY <1>1, <1>2 DEF Linked, CommitSound
    <3> QED BY <1>3, <3>1, <3>2 DEF ParentLinked
  <2>2. 1 \in 1..N + 1
    BY <1>2
  <2>3. h.versions[1].objectId = versionObjectId(h.versions[1])
    BY <1>1, <2>2 DEF Linked, CommitSound, VersionResolves
  <2>4. h.versions[1].objectId # NoObject
    BY <2>3 DEF versionObjectId, hashObject, NoObject
  <2> QED BY <1>7, <2>1, <2>4 DEF BoundaryDeclared
<1>12. SnapshotsSound(p)
  BY <1>1, <1>3, <1>8 DEF Linked, SnapshotsSound
<1>13. DiffsSound(p)
  BY <1>1, <1>3, <1>8 DEF Linked, DiffsSound
<1>14. Sound(p)
  BY <1>3, <1>5, <1>6, <1>9, <1>10, <1>11, <1>12, <1>13 DEF Sound, Linked
<1> QED BY <1>3, <1>5, <1>7, <1>8, <1>14 DEF p

-----------------------------------------------------------------------------
(* A recording that returns. *)
LEMMA RecordedSound ==
  ASSUME NEW h, Sound(h), Len(h.versions) <= maximumVersionCount, canRecord(h),
         NEW m \in Metadata, NEW b \in Html,
         NEW label \in Label, NEW time \in Timestamp
  PROVE  LET new == recorded(h, m, b, label, time)
             pruned == new.prunedVersionCount - h.prunedVersionCount
         IN /\ Sound(new)
            /\ Len(new.versions) <= maximumVersionCount
            /\ pruned \in 0..1
            /\ pruned = 1 => Len(h.versions) = maximumVersionCount
            /\ Len(new.versions) + pruned = Len(h.versions) + 1
            /\ \A i \in pruned + 1..Len(h.versions) :
                 new.versions[i - pruned] = h.versions[i]
            /\ \A id \in DOMAIN h.snapshots \cap DOMAIN new.snapshots :
                 new.snapshots[id] = h.snapshots[id]
            /\ \A id \in DOMAIN h.diffs \cap DOMAIN new.diffs :
                 new.diffs[id] = h.diffs[id]
            /\ GivesBack(new, new.versions[Len(new.versions)], m, b, label, time)
<1> DEFINE a == appended(h, makeSnapshotFromContent(m, b), label, time)
           new == recorded(h, m, b, label, time)
           pruned == new.prunedVersionCount - h.prunedVersionCount
           N == Len(h.versions)
<1>1. /\ Sound(a)
      /\ Len(a.versions) = N + 1
      /\ a.prunedVersionCount = h.prunedVersionCount
      /\ \A i \in 1..N : a.versions[i] = h.versions[i]
      /\ \A id \in DOMAIN h.snapshots :
           id \in DOMAIN a.snapshots /\ a.snapshots[id] = h.snapshots[id]
      /\ \A id \in DOMAIN h.diffs :
           id \in DOMAIN a.diffs /\ a.diffs[id] = h.diffs[id]
      /\ GivesBack(a, a.versions[N + 1], m, b, label, time)
  BY AppendedSound
<1>2. new = pruneOldestVersions(a)
  BY DEF recorded
<1>3. N \in Nat /\ maximumVersionCount \in Nat /\ h.prunedVersionCount \in Nat
  BY Commits, LimitAssumption DEF Sound, WellFormed
<1> HIDE DEF a, new
<1>4. CASE N < maximumVersionCount
  <2>1. Len(a.versions) - maximumVersionCount <= 0
    BY <1>1, <1>3, <1>4
  <2>2. new = a
    BY <1>2, <2>1, Zenon DEF pruneOldestVersions
  <2>3. pruned = 0
    BY <1>1, <1>3, <2>2
  <2>4. \A i \in 1..N : i - 0 = i /\ 0 + 1 = 1
    OBVIOUS
  <2> QED BY <1>1, <1>3, <1>4, <2>2, <2>3, <2>4 DEF new
<1>5. CASE N = maximumVersionCount
  <2>1. Len(a.versions) = maximumVersionCount + 1
    BY <1>1, <1>5
  <2>2. a.prunedVersionCount # MaxPrunedCount
    BY <1>1, <1>3, <1>5 DEF canRecord
  <2>3. /\ Sound(new)
        /\ Len(new.versions) = maximumVersionCount
        /\ new.prunedVersionCount = a.prunedVersionCount + 1
        /\ \A i \in 1..maximumVersionCount : new.versions[i] = a.versions[i + 1]
        /\ \A id \in DOMAIN new.snapshots :
             id \in DOMAIN a.snapshots /\ new.snapshots[id] = a.snapshots[id]
        /\ \A id \in DOMAIN new.diffs :
             id \in DOMAIN a.diffs /\ new.diffs[id] = a.diffs[id]
    BY <1>1, <1>2, <2>1, <2>2, PrunedSound
  <2>4. pruned = 1
    BY <1>1, <1>3, <2>3
  <2>5. \A i \in 2..N : new.versions[i - 1] = h.versions[i]
    <3> TAKE i \in 2..N
    <3>1. i - 1 \in 1..maximumVersionCount /\ (i - 1) + 1 = i /\ i \in 1..N
      BY <1>3, <1>5
    <3> QED BY <1>1, <2>3, <3>1
  <2>6. /\ \A id \in DOMAIN h.snapshots \cap DOMAIN new.snapshots :
             new.snapshots[id] = h.snapshots[id]
        /\ \A id \in DOMAIN h.diffs \cap DOMAIN new.diffs :
             new.diffs[id] = h.diffs[id]
    BY <1>1, <2>3
  <2>7. pruned \in 0..1 /\ Len(new.versions) + pruned = N + 1 /\ pruned + 1 = 2
    BY <1>3, <1>5, <2>3, <2>4
  <2>8. \A i \in pruned + 1..N : new.versions[i - pruned] = h.versions[i]
    BY <2>4, <2>5, <2>7
  <2>9. GivesBack(new, new.versions[Len(new.versions)], m, b, label, time)
    <3> DEFINE v == new.versions[maximumVersionCount]
    <3>1. maximumVersionCount \in 1..maximumVersionCount /\ maximumVersionCount + 1 = N + 1
      BY <1>3, <1>5, LimitAssumption
    <3>2. v = a.versions[N + 1] /\ Len(new.versions) = maximumVersionCount
      BY <2>3, <3>1
    <3>3. v.snapshotObjectId \in DOMAIN new.snapshots
      BY <2>3, <3>1 DEF Sound, Linked, CommitSound, VersionResolves
    <3> QED BY <1>1, <2>3, <3>2, <3>3 DEF GivesBack
  <2> HIDE DEF pruned
  <2> QED BY <1>3, <2>3, <2>6, <2>7, <2>8, <2>9 DEF new, pruned
<1> QED BY <1>3, <1>4, <1>5

(* A recording that throws restores the history it started from. *)
LEMMA RolledBackIsUnchanged ==
  ASSUME NEW h, WellFormed(h), NEW target, NEW stage \in {"diffs", "versions"}
  PROVE  rolledBack(h, target, stage) = h
<1> DEFINE diff == makeDiff(baseSnapshot(h), target)
           snapshots == tryEmplace(h.snapshots, target.objectId, target)
           diffs == IF stage = "versions"
                      THEN tryEmplace(h.diffs, diff.objectId, diff) ELSE h.diffs
           snapshotInserted == target.objectId \notin DOMAIN h.snapshots
           diffInserted == stage = "versions" /\ diff.objectId \notin DOMAIN h.diffs
           s == IF snapshotInserted THEN eraseKey(snapshots, target.objectId)
                                    ELSE snapshots
           d == IF diffInserted THEN eraseKey(diffs, diff.objectId) ELSE diffs
<1>1. rolledBack(h, target, stage) = [h EXCEPT !.snapshots = s, !.diffs = d]
  BY Zenon DEF rolledBack
<1>2. /\ IsHistory(h)
      /\ h.snapshots = [id \in DOMAIN h.snapshots |-> h.snapshots[id]]
      /\ h.diffs = [id \in DOMAIN h.diffs |-> h.diffs[id]]
  BY DEF WellFormed, IsHistory
<1>3. s = h.snapshots
  <2> DEFINE map == h.snapshots
             id == target.objectId
  <2>1. map = [k \in DOMAIN map |-> map[k]]
    BY <1>2
  <2> HIDE DEF map, id
  <2>2. /\ id \notin DOMAIN map => eraseKey(tryEmplace(map, id, target), id) = map
        /\ id \in DOMAIN map => tryEmplace(map, id, target) = map
    BY <2>1, EmplaceUndone
  <2> QED BY <2>2 DEF map, id
<1>4. d = h.diffs
  <2> DEFINE map == h.diffs
             id == diff.objectId
  <2>1. map = [k \in DOMAIN map |-> map[k]]
    BY <1>2
  <2> HIDE DEF map, id, diff
  <2>2. /\ id \notin DOMAIN map => eraseKey(tryEmplace(map, id, diff), id) = map
        /\ id \in DOMAIN map => tryEmplace(map, id, diff) = map
    BY <2>1, EmplaceUndone
  <2> QED BY <2>2 DEF map, id
<1> HIDE DEF s, d
<1>5. rolledBack(h, target, stage) =
        [versions |-> h.versions, snapshots |-> s, diffs |-> d,
         prunedVersionCount |-> h.prunedVersionCount,
         shallowBoundaryParentObjectId |-> h.shallowBoundaryParentObjectId]
  BY <1>1, <1>2, StoresReplaced, ZenonT(60)
<1> QED BY <1>2, <1>3, <1>4, <1>5 DEF IsHistory
=============================================================================
