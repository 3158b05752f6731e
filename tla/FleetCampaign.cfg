\* Two campaigns of three agents, at most two at a time, one of them named by its caller
\* without the prefix that marks campaigns.
SPECIFICATION FairCampaignSpec
CONSTANTS
  Requests = {r1, r2}
  Ids = {c1, c2}
  Prefixed = {c1}
  Agents = 3
  MaxConcurrency = 2
INVARIANTS
  CampaignTypeOK
  ChildrenBounded
  SummaryComplete
  CancellationSticks
PROPERTIES
  EveryCampaignCloses
CHECK_DEADLOCK FALSE
