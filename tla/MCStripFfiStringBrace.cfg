CONSTANTS
  Items <- MCItemsStringBrace
  MaxItems = 2
  MayCrash = FALSE

SPECIFICATION Spec

INVARIANT StripsExactlyFfiBlocks
