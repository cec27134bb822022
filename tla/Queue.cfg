SPECIFICATION Spec
CONSTANTS
  MaxJobs = 3
  ClicksBatched = FALSE
INVARIANTS
  RowIntegrity
  HelperPresent
  OutcomeTruthful
  CrashOnlyOnDisconnect
PROPERTIES
  WaitsOnlyBehindRunning
  StepsAreSerial
CHECK_DEADLOCK FALSE
