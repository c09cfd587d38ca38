SPECIFICATION FairSpec
CONSTANTS
  d1 = d1  timer = timer  button = button
  Free = Free  None = None  Other = Other
  Domains = {d1}
  Fetches = {timer, button}
INVARIANT TypeOK
PROPERTIES
  Settles
  ShowsTheTruth
