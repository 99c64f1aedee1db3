SPECIFICATION Spec
CONSTANTS
  NoDir = NoDir
  Dirs = {d1}
  Isolates = {i1}
  MaxId = 2
  Named = {2}
INVARIANTS
  FindsCreated
