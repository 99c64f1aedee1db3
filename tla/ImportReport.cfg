SPECIFICATION ImportSpec
CONSTANTS
  NoDir = NoDir
  NoSchema = NoSchema
  NoFile = NoFile
  Dirs = {d1}
  Table = c1
  Collections = {c1}
  Fields = {f}
  Values = {v1}
  Schemas = {s1, s2}
  Faults = {"noData"}
  EarlyUse = FALSE
  Transfers = FALSE
  MaxId = 2
SYMMETRY ImportSymmetry
INVARIANTS
  ReportedRowsAreSaved
