CONSTANTS
  Writer = {"w1", "w2", "w3"}
  Formats <- AllFormats
  Nobody = "nobody"
SPECIFICATION Spec
INVARIANTS
  TypeOK
  SuccessfulSaveIsReadable
PROPERTIES
  SavesAtomically
CHECK_DEADLOCK FALSE
