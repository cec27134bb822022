SPECIFICATION Spec
CONSTANTS
  Profiles <- MCProfiles
  LiveEnvs <- MCLiveEnvs
  Secrets <- MCSecrets
  Linked <- MCLinked
  Directory <- MCDirectory
  MaxConnects = 3
  MaxStores = 2
INVARIANTS
  SessionIsLoggedIn
  NothingLeftOpen
PROPERTIES
  FailedConnectKeepsSession
