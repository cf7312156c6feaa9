SPECIFICATION Spec
CONSTANTS
  m1 = m1
  m2 = m2
  eu = eu
  i1 = i1
  i2 = i2
  c1 = c1
  c2 = c2
  fast = fast
  slow = slow
  Never = Never
  Monitors = {m1, m2}
  RegionsOf <- TwoMonitors
  Instances = {i1, i2}
  Conns = {c1}
  Cadences = {fast}
  Period <- Fast
  Window <- FastWindow
  MaxHold = 2
  Lookahead = 1
  WorkTimeout = 1
  Horizon = 3
  MaxFaults = 0
INVARIANT OnlyOneSchedules
