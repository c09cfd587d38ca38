SPECIFICATION ServerSpec
CONSTANTS
  c1 = c1  old = old  None = None  Free = Free
  Clients = {c1, old}
  Outdated = {old}
  MayStop = TRUE
INVARIANTS
  TypeOK
  AtMostOnce
  ToldTheTruth
PROPERTIES
  ServesAgain
  CallReturns
  ImplementsCalls
