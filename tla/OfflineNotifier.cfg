CONSTANTS
  s1 = s1
  s2 = s2
  o1 = o1
  n1 = n1
  n2 = n2
  n3 = n3
  Servers = {s1, s2}
  Owners = {o1}
  Nodes = {n1, n2, n3}
  OwnerOf <- Links
  Reports <- OracleReports
  Threshold = 86400
  Interval = 4
  Second = 2
  MaxTime = 8
  MaxRuns = 4
SPECIFICATION Spec
SYMMETRY Symmetry
INVARIANTS
  MailsSpaced
  SilencedWereMailed
\* Every behaviour ends at the bounds of the clock and of the runs.
CHECK_DEADLOCK FALSE
