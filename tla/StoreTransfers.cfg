SPECIFICATION Spec
CONSTANTS
  NoDir = NoDir
  NoSchema = NoSchema
  NoFile = NoFile
  Dirs = {d1, d2}
  Collections = {c1}
  Fields = {}
  Values = {}
  Schemas = {s1}
  Faults = {"torn"}
  EarlyUse = TRUE
  Transfers = TRUE
  MaxId = 3
SYMMETRY StoreSymmetry
INVARIANTS
  IdsFresh
  DirtyOnlyIfLoaded
