SPECIFICATION FairSpec

CONSTANTS
  r1 = r1
  r2 = r2
  r3 = r3
  Files <- MCFiles
  Environments <- MCEnvironments
  Keys = {"key-1", "key-2"}
  DatabasePassword = "postgres"
  Requests = {r1, r2, r3}
  KeyOf <- MCKeyOf
  Kind <- MCKind
  MaxRefills = 1
  MaxFaults = 1

INVARIANTS
  RequestsFindDatabase
  LoadIsRight
  EndsForCause

PROPERTIES
  GracefulStopAnswers
  ThrottledForCause
  StopsOnSignal
  ComesUp
