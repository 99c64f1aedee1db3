SPECIFICATION FairSpec
CONSTANTS
  Threads = {t1, t2}
  Blocks = {b1, b2}
  NULL = NULL
  Values <- McValues
  Int32Max = 3
  MaxIds = 2
  MaxResets = 1
INVARIANTS
  TypeOK
  IdsDistinct
  RaisesHold
  DanglesInWindow
  HandlesLive
  EndsOfItsOwn
  ReadsInWindow
PROPERTY
  RaiseEnds
