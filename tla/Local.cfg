SPECIFICATION LocalSpec
CONSTANTS
  Requests <- MCRequests
  CopyPaths <- MCCopyPaths
  TopDir = "top"
  Files <- MCFiles
  Writes <- MCWrites
  MaxJobs = 2
  LocalTrees <- MCTrees
  LocalPaths <- MCPaths
  ContestedHere <- MCContested
  MaxInterference = 1
  MaskChars = {"a", "*", "?"}
  PathChars = {"a", "b"}
  MaxMask = 3
  MaxMasks = 1
  Chars = {"/", ".", "~", " ", "a"}
  LocalNames <- MCLocalNames
  CopyNumbers <- MCCopyNumbers
  Numerals <- MCNumerals
  Home <- MCHome
  MaxPath = 4
INVARIANTS
  PathsLandRight
  OthersKept
  RenamedStaysWhole
PROPERTIES
  MasksDecide
  CopiesKeepPromise
CHECK_DEADLOCK FALSE
