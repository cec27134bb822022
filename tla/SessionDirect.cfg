SPECIFICATION Spec
CONSTANTS
  a = a
  b = b
  m = m
  n = n
  Hosts = {a, b}
  LocalPorts = {p}
  Nowhere = Nowhere
  Names = {m, n}
  Batches <- TwoNames
  MaxJobs = 2
  Answers <- AllAnswers
  Circumstances <- Direct
INVARIANTS
  TransfersReachTheirHost
PROPERTIES
  NothingReplacedUnasked
SYMMETRY HostSymmetry
CHECK_DEADLOCK FALSE
