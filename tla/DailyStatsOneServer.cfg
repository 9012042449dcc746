CONSTANTS
  s1 = s1
  c1 = c1
  c2 = c2
  Servers = {s1}
  Csps = {c1, c2}
  MaxBlock = 2
  MaxDay = 3
  MaxFaults = 2
SPECIFICATION FairSpec
PROPERTY UnreportedDayEnds
