SPECIFICATION Spec
CONSTANTS
  NoDir = NoDir
  NoSchema = NoSchema
  NoFile = NoFile
  Dirs = {d1}
  Collections = {c1}
  Fields = {f}
  Values = {v1}
  Schemas = {s1}
  Faults = {}
  EarlyUse = FALSE
  Transfers = FALSE
  MaxId = 2
SYMMETRY StoreSymmetry
INVARIANTS
  IndexFileUsed
