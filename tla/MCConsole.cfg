SPECIFICATION ConsoleSpec
CONSTANTS
  Printing = {"x", "y"}
  Typed <- ThreeKeys
  MaxLens = {1, 3}
  PassLen = 1
  Builds = {"gcc", "elks", "ack"}
  ConTexts <- WrittenLines
INVARIANTS LineFits NothingButTheLine LineIsEdited ConsoleIsOurs AllOrEof
PROPERTY BytesInTurn
CHECK_DEADLOCK FALSE
