SPECIFICATION FairSpec
CONSTANTS
  r1 = r1
  r2 = r2
  m1 = m1
  m2 = m2
  w1 = w1
  w2 = w2
  eu = eu
  us = us
  Global = Global
  NoWorker = NoWorker
  Runs = {r1, r2}
  Monitors = {m1, m2}
  Workers = {w1, w2}
  MonitorOf <- TwoMonitors
  RegionOf <- Regions
  WorkerRegion <- Serves
  SchedAt <- Schedule
  DedupWindow = 4
  LongRuns = {r2}
  Deletable = {m1}
  Lease = 3
  ExecTime = 2
  MaxConcurrency = 2
  MaxSends <- Retries
  MaxAttempts = 2
  MaxFaults = 1
INVARIANTS TypeOK CommitBeforeAck DoneHasHoldersResult OnTimeHoldsLease 
PROPERTIES LiveLeaseUndisturbed ImplementsLifecycle 
