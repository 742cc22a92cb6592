SPECIFICATION FairSpec
CONSTANTS
  Items = {1, 2}
  Workers = {w1}
  NStages = 2
  Input <- MCInput
  BatchSize <- MCBatchSize
  Single <- MCSingle
  Critical <- MCCritical
  MaxRetries = 1
  MaxCrashes = 1
  MaxCommitErrors = 1
  MaxAdvances = 1
  MaxFaults = 1
INVARIANT InputIsJoined
PROPERTY RunEnds
CHECK_DEADLOCK FALSE
