SPECIFICATION Spec
CONSTANTS
  Machines <- SixMachines
  Pixvals <- FourColours
INVARIANTS
  ModeKnown
  DrawColourShown
  DefaultModeUsable
  ColourGivenBack
PROPERTY
  GccInitEnds
