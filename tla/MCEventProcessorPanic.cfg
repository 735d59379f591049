SPECIFICATION Spec
CONSTANTS
  e1 = e1
  e2 = e2
  e3 = e3
  lenient = lenient
  strict = strict
  malformed = malformed
  EventTypes <- MC_EventTypes
  Versions <- MC_Versions
  SchemaTexts = {lenient}
  Events = {e1}
  TypeOf <- MC_TypeOf
  Oversized = {}
  Malformed = {}
  Accepts <- MC_Accepts
  RetryBackoffs = {0}
  MaxFaults = 0
INVARIANTS
  AcceptedSurvives
