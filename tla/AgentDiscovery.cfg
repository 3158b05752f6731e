SPECIFICATION FairDiscoverySpec
CONSTANTS
  a = a
  b = b
  c = c
  d = d
  e = e
  Urls = {a, b, c, d, e}
  Allowed = {a, b, c, e}
  Graphs <- MCGraphs
  Requests <- MCRequests
  MaxDepth = 2
  MaxAgents = 4
INVARIANT FindsAllWithin
PROPERTY DiscoveryEnds
CHECK_DEADLOCK FALSE
