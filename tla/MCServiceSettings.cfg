SPECIFICATION Spec
CONSTANTS
  t1 = t1  d1 = d1  d2 = d2  d3 = d3  bad = bad  a1 = a1  a2 = a2  b1 = b1
  NoToken = NoToken  NoDashboard = NoDashboard  NoAddr = NoAddr
  NoSuccess = NoSuccess  Absent = Absent  Empty = Empty  Garbled = Garbled
  Token = {t1}
  Domain = {d1, d2, d3, bad}
  ValidDomain = {d1, d2, d3}
  MaxDomainCount = 2
  Interval <- MCInterval
  MinimalInterval = 5
  DefaultInterval = 9
  Dashboard = {NoDashboard}
  IPv4 = {a1}
  IPv6 = {}
  Faults = {"lookup", "stop"}
  Requests <- SettingsRequests
  InitialFiles <- SettingsFiles
  Edits = {}
  ChanCapacity = 2
INVARIANTS
  DomainLimit
  StatusBacked
PROPERTY ImplementsSettings
