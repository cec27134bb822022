SPECIFICATION Spec
CONSTANTS
  Protocols = {"sftp", "ftp"}
  Remotes <- MCRemotes
  Target <- MCTarget
  Contested <- MCContested
  MaxOthers = 2
INVARIANTS
  StaysInside
  GoneIfOk
PROPERTIES
  LateEntriesKept
CHECK_DEADLOCK FALSE
