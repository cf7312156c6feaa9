SPECIFICATION Spec
CONSTANTS
  m1 = m1
  m2 = m2
  eu = eu
  i1 = i1
  i2 = i2
  c1 = c1
  c2 = c2
  fast = fast
  slow = slow
  Never = Never
  Monitors = {m1}
  RegionsOf <- OneRegion
  Instances = {i1, i2}
  Conns = {c1}
  Cadences = {fast, slow}
  Period <- Periods
  Window <- Windows
  MaxHold = 2
  Lookahead = 1
  WorkTimeout = 2
  Horizon = 6
  MaxFaults = 2
INVARIANTS TypeOK CadenceKept PendingNeverCollides 
PROPERTY JobsOnlyForLiveMonitors
SYMMETRY InstanceSymmetry
