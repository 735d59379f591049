SPECIFICATION FairSpec

CONSTANTS
  loop1 = loop1
  loop2 = loop2
  other = other
  first = first
  second = second
  Instances <- MCInstances
  InstanceOf <- MCInstanceOf
  Clients <- MCClients
  KindsOf <- MCKindsOf
  Cancellable = {loop1}
  MaxOpenConns = 1
  MaxRows = 2
  MaxCounts = 2
  MaxFaults = 1

INVARIANTS
  PoolAccounted
  DraftIsCurrent
  CountsAccounted

PROPERTIES
  CallsReturn
  ImplementsTable
