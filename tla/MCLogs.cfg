SPECIFICATION FairSpec
CONSTANTS
  Current = Current
  RotationSize = 4
  KeepFiles = 2
  TailSize = 2
  MaxEntries = 10
INVARIANTS
  TypeOK
  ClearsAll
PROPERTY
  CatchesUp
