CONSTANTS
  Items <- MCItems
  MaxItems = 3
  MayCrash = FALSE

SPECIFICATION Spec

INVARIANT StripsExactlyFfiBlocks
