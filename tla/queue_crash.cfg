SPECIFICATION Spec
CONSTANTS
  Runs = {r1, r2, r3}
  Workers = {w1}
  NoRun = NoRun
  Ephemeral = {r1, r2, r3}
  NStages = 1
  Critical <- MCCritical
  MaxQueued = 1
  MaxInFlight = 2
  MaxCancels = 0
  MaxCrashes = 1
  MaxErrors = 0
SYMMETRY Symmetry
INVARIANT TypeOK
INVARIANT OvershootBounded
INVARIANT NoTaskBeforeQueued
PROPERTY ImplementsRunQueue
CHECK_DEADLOCK FALSE
