SPECIFICATION Spec
CONSTANTS
  a = a
  b = b
  m = m
  n = n
  Hosts = {a, b}
  LocalPorts = {p}
  Nowhere = Nowhere
  Names = {m}
  Batches <- OneName
  MaxJobs = 2
  Answers <- AllAnswers
  Circumstances <- Overlapping
PROPERTIES
  UploadConflictsResolved
CHECK_DEADLOCK FALSE
