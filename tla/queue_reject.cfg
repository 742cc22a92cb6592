SPECIFICATION Spec
CONSTANTS
  Runs = {r1, r2, r3}
  Workers = {w1, w2}
  NoRun = NoRun
  Ephemeral = {r1, r2, r3}
  NStages = 2
  Critical <- MCCritical
  MaxQueued = 0
  MaxInFlight = 1
  MaxCancels = 0
  MaxCrashes = 0
  MaxErrors = 1
SYMMETRY Symmetry
 
INVARIANT ActiveRunKeepsUploads
 
CHECK_DEADLOCK FALSE
