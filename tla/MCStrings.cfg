SPECIFICATION StringsSpec
CONSTANTS
  Size = 12
  Programs = {"dos shell", "dos shell /c", "unix shell", "other"}
  ArgVectors <- Vectors
  Tails <- ShortTails
  MaxPath = 5
  Paths <- ShortPaths
  Name <- FileName
  Tables = {"given", "null"}
  OutMax = 10
  MaxCwd = 4
  NameMax = 2
  ExtMax = 1
  Texts <- ShortTexts
  Sizes = {1, 3, 4, 6, 12}
  WholeMax = 8
  FnameMax = 3
  PartExtMax = 3
  Wholes <- SmallWholes
  PartLists <- SmallParts
  Envs <- SmallEnvs
  ExePaths <- SmallExePaths
INVARIANTS TailFits RedirQuoted WideKept WordsRecovered FcbsFollowTail PathnameFits DirectoriesInOrder FpSafe NamesThePath PartsComeBack EnvironmentArrives
CHECK_DEADLOCK FALSE
