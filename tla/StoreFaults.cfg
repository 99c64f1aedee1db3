SPECIFICATION Spec
CONSTANTS
  NoDir = NoDir
  NoSchema = NoSchema
  NoFile = NoFile
  Dirs = {d1}
  Collections = {c1}
  Fields = {f}
  Values = {v1, v2}
  Schemas = {s1, s2}
  Faults = {"noData", "noIndex", "torn", "read", "key"}
  EarlyUse = FALSE
  Transfers = FALSE
  MaxId = 2
SYMMETRY StoreSymmetry
INVARIANTS
  TypeOK
  IdsFresh
  IndexSound
PROPERTIES
  SchemaKept
  IndexStaysComplete
