SPECIFICATION FairSpec
CONSTANTS
  Runs = {r1, r2}
  Workers = {w1, w2}
  NoRun = NoRun
  Ephemeral = {r1, r2}
  NStages = 1
  Critical <- MCCritical
  MaxQueued = 1
  MaxInFlight = 2
  MaxCancels = 1
  MaxCrashes = 0
  MaxErrors = 0
INVARIANT ActiveRunIsDriven
 
 
CHECK_DEADLOCK FALSE
