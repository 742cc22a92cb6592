SPECIFICATION Spec
CONSTANTS
    w1 = w1
    w2 = w2
    o1 = o1
    o2 = o2
    s1 = s1
    s2 = s2
    f1 = f1
    f2 = f2
    v = v
    Workers = {w1, w2}
    Orgs = {o1, o2}
    Slugs = {s1, s2}
    Fields = {f1, f2}
    Values = {v}
    NoValue = NoValue
    MaxRequests = 5
    MaxUploads = 2
    MaxRenames = 1
    MaxMoves = 1
    MoveRenamed = FALSE
SYMMETRY Symmetry
INVARIANTS TypeOK 
  
CHECK_DEADLOCK FALSE
