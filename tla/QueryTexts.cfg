SPECIFICATION Spec
CONSTANTS
  NoNum = NoNum
  Fields = {"s", "tags"}
  Texts <- WordTexts
  Num <- WordNum
  Type <- WordType
  IndexType <- WordIndex
  MaxDocs = 3
  Depth = 0
  Objects <- NoObjects
INVARIANTS
  IndexAgreesWithScan
