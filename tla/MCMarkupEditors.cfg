CONSTANTS
  Source <- MCSource
  Fragment <- MCFragment
  MaxId = 8
  MaxRevision = 3
  XmlSource <- MCXmlSource
  XmlFragment <- MCXmlFragment
  XmlMaxId = 12
  XmlMaxRevision = 3
SPECIFICATION EditorsSpec
INVARIANTS
  DocumentsOK
  IdsNeverReturn
  EditsAreNotRefused
PROPERTIES
  BlocksKeepTheirIdentity
  EditsFollowTheHierarchy
  NodesKeepTheirPlace
CHECK_DEADLOCK FALSE
