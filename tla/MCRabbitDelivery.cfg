SPECIFICATION FairSpec

CONSTANTS
  s1 = s1
  s2 = s2
  Subscribers <- MCSubscribers
  MaxMessages = 2
  Expires = TRUE
  MaxFaults = 2

INVARIANTS
  MessageAccounted
  OneHolder
  RepeatsAccounted

PROPERTIES
  QueuedIsPrinted
