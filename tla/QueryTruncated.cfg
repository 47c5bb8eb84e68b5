SPECIFICATION Spec
CONSTANTS
  c1 = c1
  c2 = c2
  Cursors <- MCCursors
  MaxFid = 2
  Tables <- MCTables
  Requests <- MCRequests
  CursorRequests <- MCCursorRequests
  MaxSize = 5
  GenerationModulus = 3
  MaxOpens = 2
SYMMETRY MCSymmetry
CHECK_DEADLOCK FALSE

INVARIANT
  OkResultIsComplete
