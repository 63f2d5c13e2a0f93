SPECIFICATION Spec
CONSTANTS
  MaxX = 1
  MaxY = 2
  Graph = TRUE
  HighColour = TRUE
  Chars = {"a"}
  Attrs = {7}
  Outputs <- TypingOutputs
  MaxRows = 3
  InitScreens <- OneScreen
INVARIANTS PositionInWindow ReportIsTarget
PROPERTIES OutsideUntouched TermSpec
