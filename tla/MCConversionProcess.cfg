CONSTANTS
  captureLimit = 1
  BufferSize = 2
  PipeCapacity = 2
  MaxOutput = 3
  EndlessOutput = FALSE
  SigchldIgnored <- Either
  Hurried <- Either
SPECIFICATION Spec
INVARIANTS
  TypeOK
  LeaderOutputCaptured
  SuccessIsTheConverters
  TimeoutStopsTheGroup
PROPERTIES
  ReturnsByTheDeadline
  DrainingSuffices
CHECK_DEADLOCK FALSE
