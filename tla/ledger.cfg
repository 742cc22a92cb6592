SPECIFICATION Spec
CONSTANTS
  w1 = w1 w2 = w2 c1 = c1 c2 = c2 c3 = c3 f1 = f1 f2 = f2
  Workers = {w1, w2}
  Controls = {c1, c2, c3}
  FirstControls = {c1, c2}
  Fingerprints = {f1, f2}
  Cites <- MCCites
  BatchSize = 2
  JudgmentsOfLLM <- MCJudgments
  MaxBundles = 1
  UseLlmFallback = TRUE
  JobKinds = {"replace", "classify", "score", "discover"}
  Faults <- MCFaults
  MaxFaults = 1
INVARIANTS TypeOK  LinksComplete OneRowPerIssue PromotedOnce 
SYMMETRY MCSymmetry
CHECK_DEADLOCK FALSE
