CONSTANTS
  Items <- MCMainItems
  MaxItems = 2
  MayCrash = FALSE
  p1 = p1
  p2 = p2
  Paths <- MCPaths
  MaxArgs = 3
  Missing = Missing

SYMMETRY MCSymmetry

SPECIFICATION MainSpec

\* The script ends: an exited state has no successor.
CHECK_DEADLOCK FALSE

INVARIANT MainTypeOK
INVARIANT ExitStatusMatchesFilesStripped
