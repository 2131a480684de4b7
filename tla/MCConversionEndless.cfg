CONSTANTS
  captureLimit = 1
  BufferSize = 2
  PipeCapacity = 2
  MaxOutput = 2
  EndlessOutput = TRUE
  SigchldIgnored <- No
  Hurried <- Yes
SPECIFICATION Spec
PROPERTIES
  ReturnsByTheDeadline
CHECK_DEADLOCK FALSE
