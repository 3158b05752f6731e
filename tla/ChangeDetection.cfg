\* Two detections and a dry run, over a page that changes twice.
SPECIFICATION Spec
CONSTANTS
  r1 = r1
  r2 = r2
  d1 = d1
  None = None
  Requests <- MCRequests
  Dry <- MCDry
  MaxVersion = 2
SYMMETRY Symmetry
INVARIANTS
  PromisesKept
  AnswersFounded
PROPERTIES
  DryRunsLeaveNoTrace
CHECK_DEADLOCK FALSE
