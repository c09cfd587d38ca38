SPECIFICATION FairSpec
CONSTANTS
  c1 = c1  c2 = c2  t1 = t1
  Consoles = {c1, c2}
  Menus = {t1}
INVARIANTS
  OneRemoval
  Doomed
PROPERTIES
  Removes
  CommandReturns
