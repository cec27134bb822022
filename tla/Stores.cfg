SPECIFICATION StoresSpec
CONSTANTS
  Processes = {"gui", "shell"}
  SessionOrder <- MCSessionOrder
  BlankNames = {" "}
  HashedNames = {"#c"}
  Profiles <- MCProfiles
  HostStores = {1, 2}
  HostOrder <- MCHostOrder
  ShownKeys <- MCKeys
  SiteNames = {"a", "b"}
  SiteData = {"old", "new"}
  RecordFields = 2
  SomeRecords <- MCRecords
  MaxCalls = 3
INVARIANTS
  SessionsAreKept
  KeysAreTrusted
  SitesActAsOne
  LinesComeBack
PROPERTY
  KeysChangeOnlyAfterPrompt
CHECK_DEADLOCK FALSE
