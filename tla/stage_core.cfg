SPECIFICATION Spec
CONSTANTS
  Items = {1, 2, 3}
  Workers = {w1, w2}
  NStages = 3
  Input <- MCInput
  BatchSize <- MCBatchSize
  Single <- MCSingle
  Critical <- MCCritical
  MaxRetries = 1
  MaxCrashes = 0
  MaxCommitErrors = 0
  MaxAdvances = 0
  MaxFaults = 1
SYMMETRY Symmetry
INVARIANT TypeOK
INVARIANT JoinSeesFinalRows
 
INVARIANT ResultIsComplete
INVARIANT FailsOnlyOnTotalFailure
 
CHECK_DEADLOCK FALSE
