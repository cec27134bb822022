SPECIFICATION Spec
CONSTANTS
  a = a
  b = b
  m = m
  n = n
  Hosts = {a, b}
  LocalPorts = {p}
  Nowhere = Nowhere
  Names = {m}
  Batches <- OneName
  MaxJobs = 1
  Answers <- OneAnswer
  Circumstances <- Unhurried
INVARIANTS
  PaneShowsItsHost
  PromptIsAboutPending
SYMMETRY HostSymmetry
CHECK_DEADLOCK FALSE
