CONSTANTS
  Items <- MCItems
  MaxItems = 3
  MayCrash = TRUE

SPECIFICATION Spec

INVARIANT StripsExactlyFfiBlocks
