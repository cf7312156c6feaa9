SPECIFICATION FairSpec
CONSTANTS
  r1 = r1
  r2 = r2
  r3 = r3
  e1 = e1
  e2 = e2
  e3 = e3
  None = None
  Runs = {r1, r2, r3}
  LongRuns = {r2}
  Executions = {e1, e2, e3}
  MaxConcurrency = 2
  MaxAttempts = 2
  BaseInterval = 2
  MaxInterval = 5
  MaxFaults = 1
INVARIANTS TypeOK 
PROPERTIES DroppedOnlyWhenSettled RenewedOnlyWhileExecuting RunsGetDone SlotsComeBack
CHECK_DEADLOCK FALSE
