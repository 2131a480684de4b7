-------------------------- MODULE MCVersionHistory --------------------------
(* A small instance: two header maps under the real encoding, three bodies *)
(* with overlapping text, and files with intact, shallow, nearly exhausted *)
(* and damaged histories.                                                  *)
EXTENDS VersionHistory

Encoding == INSTANCE CanonicalHeader

MCByte == 0..30
MCMetadata == {<<>>, [name \in {<<20>>} |-> <<21>>]}
MCEmptyMetadata == <<>>
MCencodedHeader(metadata) == Encoding!canonicalHeader(metadata)
MCHtml == {<<>>, <<25>>, <<25, 25>>}

First == recorded(EmptyHistory, MCEmptyMetadata, <<25>>, "label", "now")
Second == recorded(First, MCEmptyMetadata, <<25, 25>>, "label", "now")

(* The newest commit of a longer history, everything older pruned. *)
Shallow(h, pruned) ==
  collectUnreferencedObjects(
    [h EXCEPT !.versions = <<head(h)>>, !.prunedVersionCount = pruned,
              !.shallowBoundaryParentObjectId = head(h).parentObjectId])

Contents ==
  {Second,
   Shallow(Second, 1),
   Shallow(Second, MaxPrunedCount),
   [Second EXCEPT !.diffs = EmptyMap],
   [Second EXCEPT !.versions = Tail(@)],
   [Shallow(Second, 1) EXCEPT !.versions = <<>>, !.snapshots = EmptyMap,
                              !.diffs = EmptyMap]}

MCFileHistories == {h \in Contents : WellFormed(h)}
=============================================================================
