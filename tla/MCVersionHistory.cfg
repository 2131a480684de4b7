CONSTANTS
  Byte <- MCByte
  Metadata <- MCMetadata
  EmptyMetadata <- MCEmptyMetadata
  encodedHeader <- MCencodedHeader
  Html <- MCHtml
  Label = {"label"}
  Timestamp = {"now"}
  maximumVersionCount = 2
  MaxPrunedCount = 2
  FileHistories <- MCFileHistories
SPECIFICATION Spec
INVARIANTS
  TypeOK
  Integrity
  DiffsApplyToTheirBaseOnly
PROPERTIES
  SurvivorsUntouched
  FailedRecordLeavesNoTrace
  ImplementsLog
CHECK_DEADLOCK FALSE
