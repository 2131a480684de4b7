CONSTANTS
  Byte <- MCByte
  Metadata <- MCMetadata
  EmptyMetadata <- MCEmptyMetadata
  encodedHeader <- MCencodedHeader
  Html <- MCCommentedHtml
  InitialHtml <- MCInitialHtml
  Label = {"label"}
  Timestamp = {"now"}
  maximumVersionCount = 2
  MaxPrunedCount = 1
  Author = {"author"}
  Unattributed = "unattributed"
  Title = {"title"}
  MaxRevision = 3
SPECIFICATION Spec
INVARIANTS
  SavedFileReloads
CHECK_DEADLOCK FALSE
