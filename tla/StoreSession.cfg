SPECIFICATION Spec
CONSTANTS
  NoDir = NoDir
  NoSchema = NoSchema
  NoFile = NoFile
  Dirs = {d1}
  Collections = {c1, c2}
  Fields = {}
  Values = {}
  Schemas = {s1}
  Faults = {"noData"}
  EarlyUse = FALSE
  Transfers = FALSE
  MaxId = 3
SYMMETRY StoreSymmetry
INVARIANTS
  NoDoubleFree
  CleanAgreesWithFile
PROPERTIES
  CloseIsDurable
  ImplementsSessionStore
