---------------------- MODULE MCThinkingSpaceDocument ----------------------
(* One author, two bodies, one title, and a history of at most one or two  *)
(* commits.  A header is encoded as one token: the real encoding is        *)
(* checked in CanonicalHeader.                                             *)
EXTENDS ThinkingSpaceDocument

MCText == [kind |-> "text", text |-> "paragraph"]
MCHtml == {<<>>, <<MCText>>}
MCInitialHtml == {<<MCText>>}

MCDumps ==
  [revision : 1..MaxRevision, last : Author \cup {Unattributed}]
    \cup {UnreadableDump}

MCEmptyMetadata == <<>>
MCMetadata ==
  {MCEmptyMetadata}
    \cup [{"Title"} -> Title]
    \cup [{MetadataKey} -> MCDumps]
    \cup {[k \in {"Title", MetadataKey} |-> IF k = "Title" THEN t ELSE d] :
            t \in Title, d \in MCDumps}

MCencodedHeader(metadata) == <<metadata>>

MCByte == MCMetadata \cup UNION {Range(html) : html \in Html}

(* A body in which somebody else's authorship comment stands. *)
MCCommentedHtml == {<<>>, <<MCText>>, <<AuthorshipComment(UnreadableDump)>>}
=============================================================================
