SPECIFICATION FairSpec

CONSTANTS
  MaxCalls = 4
  MaxFaults = 3

INVARIANTS
  CallAndReportMeet

PROPERTIES
  ShutdownGoesOn
  CallsReturn
  ImplementsContract
