CONSTANTS
  InfoKeys = {"Title"}
  Source <- MCSource
  Text = {"y"}
  Payload = {"p", "q"}
  Degrees = {90, 360}
  MaxAuthorship = 2
  MaxPages = 2
SPECIFICATION Spec
INVARIANTS
  TypeOK
  WrittenAsModelled
  EditorsAgree
PROPERTIES
  UncountedIsUnchanged
CHECK_DEADLOCK FALSE
