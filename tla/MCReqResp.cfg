SPECIFICATION FairSpec
CONSTANTS
  c1 = c1
  d1 = d1
  d2 = d2
  Plain = Plain
  None = None
  Calls <- MCCalls
  Digests <- MCDigests
  GroupBits = 2
  WordBits = 5
  MaxLength = 20
INVARIANTS
  OneResponse
  UpdatesAgree
  VarintCorrect
PROPERTIES
  RequestReturns
  KeepsContract
CHECK_DEADLOCK FALSE
