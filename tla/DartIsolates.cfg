SPECIFICATION FairSpec
CONSTANTS
  NoDir = NoDir
  Dirs = {d1}
  Isolates = {i1, i2}
  MaxId = 2
  Named = {}
INVARIANTS
  TypeOK
  OneOwner
  CreatedIsKept
PROPERTIES
  FailedUntilRestart
  CloseCompletes
