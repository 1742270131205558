SPECIFICATION FairSpec
CONSTANTS
  CapSets <- MCCapSets
  MaxMessages = 3
  MaxStarts = 2
  MaxCalls = 1
INVARIANTS
  DisconnectOnceAndLast
  OneStatus
  StatusAnswered
  NegotiationSound
PROPERTIES
  SessionEnds
CHECK_DEADLOCK FALSE
