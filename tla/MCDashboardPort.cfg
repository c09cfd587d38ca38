SPECIFICATION Spec
CONSTANTS
  p0 = p0  p1 = p1  s1 = s1  s2 = s2  c1 = c1  t1 = t1  t2 = t2
  NoPort = NoPort  Empty = Empty  Garbled = Garbled
  Ports = {p0, p1}
  Default = p0
  Taken = {}
  Settings = {s1, s2}
  Commands = {c1}
  Trays = {t1}
INVARIANT PortStays
