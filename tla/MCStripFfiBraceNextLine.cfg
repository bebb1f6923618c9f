CONSTANTS
  Items <- MCItemsBraceNextLine
  MaxItems = 2
  MayCrash = FALSE

SPECIFICATION Spec

INVARIANT StripsExactlyFfiBlocks
