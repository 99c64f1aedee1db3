SPECIFICATION Spec
CONSTANTS
  NoNum = NoNum
  Fields = {"n", "flag"}
  Texts <- ScalarTexts
  Num <- ScalarNum
  Type <- ScalarType
  IndexType <- ScalarIndex
  MaxDocs = 3
  Depth <- ScalarDepth
  Objects <- ScalarObjects
INVARIANTS
  TypeOK
  IndexAgreesWithScan
  OneEntryPerKey
  QueriesMeanWhatTheySay
