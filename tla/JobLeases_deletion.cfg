SPECIFICATION Spec
CONSTANTS
  r1 = r1
  r2 = r2
  m1 = m1
  m2 = m2
  w1 = w1
  w2 = w2
  eu = eu
  us = us
  Global = Global
  NoWorker = NoWorker
  Runs = {r1}
  Monitors = {m1}
  Workers = {w1, w2}
  MonitorOf <- OneJob
  RegionOf <- GlobalJob
  WorkerRegion <- SameRegion
  SchedAt <- At0
  DedupWindow = 4
  LongRuns = {r1}
  Deletable = {m1}
  Lease = 3
  ExecTime = 2
  MaxConcurrency = 2
  MaxSends <- BothRetry
  MaxAttempts = 4
  MaxFaults = 1
PROPERTY PendingJobsDieWithMonitor
