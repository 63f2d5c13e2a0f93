SPECIFICATION IntSpec
CONSTANTS
  Builds <- AckBorland
  Numbers <- SomeNumbers
INVARIANT OutRegsStored
CHECK_DEADLOCK FALSE
