CONSTANTS
  Byte <- MCByte
  Metadata <- MCMetadata
  EmptyMetadata <- MCEmptyMetadata
  encodedHeader <- MCencodedHeader
  Html <- MCHtml
  InitialHtml <- MCInitialHtml
  Label = {"label"}
  Timestamp = {"now"}
  maximumVersionCount = 2
  MaxPrunedCount = 1
  Author = {"author"}
  Unattributed = "unattributed"
  Title = {"title"}
  MaxRevision = 3
SPECIFICATION Spec
INVARIANTS
  TypeOK
  SavedFileReloads
  VersionsCaptureTheLedger
PROPERTIES
  EditsStampOnce
CHECK_DEADLOCK FALSE
