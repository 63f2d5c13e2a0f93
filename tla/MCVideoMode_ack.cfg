SPECIFICATION Spec
CONSTANTS
  Machines <- AckElsewhere
  Pixvals <- OneColour
PROPERTY
  InitEnds
