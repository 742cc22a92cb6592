SPECIFICATION Spec
CONSTANTS
  Uploads = {u1, u2, u3}
  Orgs = {o1, o2}
  x = x
  Contents <- MCContents
  Requests <- MCRequests
  NoPath = NoPath
  NoRow = NoRow
  MaxInFlight = 1
  MaxErrors = 1
SYMMETRY Symmetry
INVARIANT TypeOK
INVARIANT RunFindsItsFiles
INVARIANT RunKeepsItsControls
 
CHECK_DEADLOCK FALSE
