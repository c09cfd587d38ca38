SPECIFICATION Spec
CONSTANTS
  t1 = t1  d1 = d1  d2 = d2  d3 = d3  bad = bad  a1 = a1  a2 = a2  b1 = b1
  NoToken = NoToken  NoDashboard = NoDashboard  NoAddr = NoAddr
  NoSuccess = NoSuccess  Absent = Absent  Empty = Empty  Garbled = Garbled
  Token = {t1}
  Domain = {d1}
  ValidDomain = {d1}
  MaxDomainCount = 1
  Interval <- ShortInterval
  MinimalInterval = 5
  DefaultInterval = 5
  Dashboard = {NoDashboard}
  IPv4 = {a1}
  IPv6 = {b1}
  Faults = {"store", "halt"}
  Requests <- EditsRequests
  InitialFiles <- EditsFiles
  Edits <- EditsFiles
  ChanCapacity = 1
INVARIANTS
  TypeOK
  IntervalFloor
  LoopFollowsService
  NoStaleIpv6
CHECK_DEADLOCK FALSE
