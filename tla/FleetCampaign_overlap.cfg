SPECIFICATION CampaignSpec
CONSTANTS
  Requests = {r1, r2}
  Ids = {c1, c2}
  Prefixed = {c1, c2}
  Agents = 2
  MaxConcurrency = 1
INVARIANT FleetBounded
CHECK_DEADLOCK FALSE
