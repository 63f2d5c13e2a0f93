SPECIFICATION CarefulSpec
CONSTANTS
  MaxX = 1
  MaxY = 1
  Graph = TRUE
  HighColour = FALSE
  Chars = {"a"}
  Attrs = {1, 2}
  Outputs <- CursorOutputs
  MaxRows = 1
  InitScreens <- OneScreen
INVARIANTS CursorShownOnce
