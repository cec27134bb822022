SPECIFICATION TransferSpec
CONSTANTS
  Kinds = {"sftp_upload", "ftp_upload", "scp_upload", "download"}
  Policies = {"keep_existing", "replace", "keep_both"}
  Sources <- MCSources
  Name <- MCName
  Remotes <- MCRemotes
  Givens <- MCGivens
  Contested <- MCContested
  MaxOthers = 1
  Given <- S
  Locals <- MCLocals
  ContestedHere <- MCContestedHere
  Protocols = {"sftp", "ftp", "scp"}
  MayMistake = FALSE
  Contents <- MCContents
  Before <- MCBefore
  NoFile = NoFile
  Directory = Directory
INVARIANTS
  WholeIfUndisturbed
  EntriesArriveTogether
PROPERTIES
  BytesAreCounted
  OthersEntriesKept
  ImplementsDestination
  PromiseKept
  TransfersComeToRest
CHECK_DEADLOCK FALSE
