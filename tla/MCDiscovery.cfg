SPECIFICATION FairSpec
CONSTANTS
  s1 = s1
  s2 = s2
  r1 = r1
  r2 = r2
  b1 = b1
  b2 = b2
  None = None
  Starts <- MCStarts
  Runs <- MCRuns
  BootNodes <- MCBootNodes
INVARIANTS
  StartedHasScheduler
  NeverOwnIdentity
PROPERTIES
  ListenersKept
  BootNodesUsed
CHECK_DEADLOCK FALSE
