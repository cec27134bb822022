SPECIFICATION Spec
CONSTANTS
  Requests <- MCRequests
  Systems <- MCSystems
  Logins <- MCLogins
  Calls = 2
INVARIANTS
  AsTold
  OkIsDone
PROPERTIES
  NothingSentAfterAnswer
  CallerAnswered
