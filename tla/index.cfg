SPECIFICATION Spec
CONSTANTS
  a = a b = b k1 = k1 k2 = k2 i1 = i1 r1 = r1 x1 = x1 aggA = aggA aggB = aggB c1 = c1 c2 = c2
  Orgs = {a, b}
  Entities <- MCEntities
  OrgOf <- MCOrgOf
  TypeOf <- MCTypeOf
  Callers = {c1, c2}
  ChunksOf <- MCChunksOf
  Window = 1
  MaxEvents = 3
INVARIANTS TypeOK 
CHECK_DEADLOCK FALSE
SYMMETRY MCSymmetry
