SPECIFICATION Spec
CONSTANTS
  s1 = s1 s2 = s2 r1 = r1 r2 = r2
  Sessions = {s1, s2}
  Risks = {r1}
  Dims = {"process", "region"}
  Required = {"process"}
  Proposals <- MCProposals
  Selections <- MCSelections
  Postings <- Cautious
  MaxEvents = 2
PROPERTY OwnerReplacedKnowingly
SYMMETRY MCSymmetry
CHECK_DEADLOCK FALSE
