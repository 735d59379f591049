SPECIFICATION FairSpec
CONSTANTS
  e1 = e1
  e2 = e2
  e3 = e3
  lenient = lenient
  strict = strict
  malformed = malformed
  EventTypes <- MC_EventTypes
  Versions <- MC_Versions
  SchemaTexts = {strict, malformed}
  Events = {e1, e2, e3}
  TypeOf <- MC_TypeOf
  Oversized = {e3}
  Malformed = {malformed}
  Accepts <- MC_Accepts
  RetryBackoffs = {0, 1}
  MaxFaults = 1
INVARIANTS
  ExclusiveFate
  OutboxOnlyValidated
  SchemaStaysFound
  LossIsExplained
PROPERTIES
  ImplementsFate
  EventsAreProcessed
