SPECIFICATION LibrarySpec
CONSTANTS
  Builds <- GoodBuilds
  Numbers <- SomeNumbers
  Segments = {"A", "B"}
  MaxDescs = 3
  MaxBlocks = 3
  MaxMoves = 1
  MaxNest = 2
  MaxRefused = 2
  MaxMemBlocks = 2
  ExW = 6
  Addresses = {1, 10}
  ArenaParas = 4
  ParaSize = 3
  SizeWidth = 8
  Requested = {0, 4, 7}
  LibModes <- BothLibs
  Paths = {"f"}
  Patterns = {"p"}
  Buffers = {"a", "b"}
  MaxFound = 2
  W = 4
  Texts2Radix <- SomeTexts
  Octets <- SomeOctets
  Places <- SomePlaces
  Times <- SomeTimes
  SegStep = 2
  Megabyte = 16
  OffsetWidth = 8
  Pointers <- SomePointers
  Lengths = {0, 1, 3, 4, 6}
  Strings <- SomeStrings
  NearBuf = 2
  Frames <- SomeFrames
  BkColours <- SomeColours
  Outputs = {"stdout", "new", "old"}
INVARIANTS
  CallsAreTrue
  ProtectedMeansReal
  AnswersAreTrue
  ConversionsComeBack
  MoveIsCopy
  AllOrNothing
  BackgroundGivenBack
CHECK_DEADLOCK FALSE
