SPECIFICATION Spec
CONSTANTS
  Items = {1, 2}
  Workers = {w1, w2}
  NStages = 1
  Input <- MCInput
  BatchSize <- MCBatchSize
  Single <- MCSingle
  Critical <- MCCritical
  MaxRetries = 0
  MaxCrashes = 0
  MaxCommitErrors = 0
  MaxAdvances = 0
  MaxFaults = 1
SYMMETRY Symmetry
INVARIANT TotalFailureFails
CHECK_DEADLOCK FALSE
