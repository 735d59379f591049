SPECIFICATION FairSpec
CONSTANTS
  i1 = i1
  i2 = i2
  e1 = e1
  e2 = e2
  Instances = {i1, i2}
  Events = {e1, e2}
  EventTypes <- MC_EventTypes
  RoutingConfig <- MC_KafkaRouting
  TypeOf <- MC_TypeOf
  BrokerType = "kafka"
  Exchanges = {"events"}
  Unparsable = {e2}
  BatchSize = 3
  MaxRows = 3
  RetryCap = 1
  AttemptCap = 0
  MaxFaults = 1
PROPERTIES
  SavedEventReachesBroker
  LoopKeepsPolling
