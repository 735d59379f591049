SPECIFICATION FairSpec
CONSTANTS
  i1 = i1
  i2 = i2
  e1 = e1
  e2 = e2
  Instances = {i1}
  Events = {e1}
  EventTypes <- MC_EventTypes
  RoutingConfig <- MC_RabbitRouting
  TypeOf <- MC_TypeOf
  BrokerType = "rabbitmq"
  Exchanges = {"events"}
  Unparsable = {}
  BatchSize = 1
  MaxRows = 1
  RetryCap = 1
  AttemptCap = 0
  MaxFaults = 1
PROPERTIES
  LoopKeepsPolling
