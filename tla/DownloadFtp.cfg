SPECIFICATION TransferSpec
CONSTANTS
  Kinds = {"download"}
  Policies = {"keep_existing", "replace", "keep_both"}
  Sources <- MCSources
  Name <- MCName
  Remotes <- MCRemotes
  Givens <- MCGivens
  Contested <- MCContested
  MaxOthers = 0
  Given <- S
  Locals <- MCLocals
  ContestedHere <- MCContestedHere
  Protocols = {"ftp"}
  MayMistake = TRUE
  Contents <- MCContents
  Before <- MCBefore
  NoFile = NoFile
  Directory = Directory
PROPERTY MatchingDirectoriesMerged
CHECK_DEADLOCK FALSE
