SPECIFICATION FairSpec

CONSTANTS
  e1 = e1
  e2 = e2
  e3 = e3
  strict = strict
  malformed = malformed
  EventTypes = {"order"}
  Versions <- MCVersions
  SchemaTexts = {strict, malformed}
  Events = {e1, e2, e3}
  TypeOf <- MCTypeOf
  Oversized = {e3}
  Malformed = {malformed}
  Accepts <- MCAccepts
  RetryBackoffs = {0, 1}
  MaxFaults = 1

INVARIANTS
  DeliveredIsValid

PROPERTIES
  ImplementsJourney
  AcceptedIsSettled
