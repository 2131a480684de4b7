CONSTANTS
  Byte = {a, b}
  MaxLength = 4
  Names <- MCNames
  Values <- MCValues
  MaximumNesting = 4
  DeepestLevel = 2
  Hexadecimal = {"c0ffee", "C0FFEE"}
  SixCharacters = {"c0ffee", "C0FFEE", "purple", "PURPLE"}
  UpperCase <- MCUpperCase
  MaximumItems = 1000
  MaximumCharacters = 1000
  MaxAuthorship = 2
  Author = {"author"}
  Unattributed = "unattributed"
  Block <- MCBlock
  MaxBlocks = 1
  Key = {"Author", "LastModifiedBy"}
  Value <- MCValue
  Section <- MCSection
SPECIFICATION ContentSpec
INVARIANTS
  DeltaReconstructsTarget
  EncodingIsLossless
  SavedFileReadsBack
  OnlyContinuedListsShareNumbers
  ExpansionIsAccounted
PROPERTIES
  EditsAreCounted
