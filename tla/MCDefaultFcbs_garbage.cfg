SPECIFICATION FcbSpec
CONSTANTS
  Tails <- ShortTails
INVARIANTS SecondFollowsFirst
CHECK_DEADLOCK FALSE
