CONSTANTS
  Byte <- MCByte
  Metadata <- MCMetadata
  EmptyMetadata <- MCEmptyMetadata
  encodedHeader <- MCencodedHeader
  Html <- MCHtml
  Label = {"label"}
  Timestamp = {"now"}
  maximumVersionCount = 2
  MaxPrunedCount = 2
  FileHistories <- MCFileHistories
SPECIFICATION SpecFromAnyFile
INVARIANTS
  BoundaryIsMissingParent
CHECK_DEADLOCK FALSE
