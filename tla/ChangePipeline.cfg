\* Two detections, one change of the page, two disruptions of the commit agent.
SPECIFICATION PipelineSpec
CONSTANTS
  None = None
  Requests = {r1, r2}
  Dry = {}
  MaxVersion = 1
  MaxDisruptions = 2
SYMMETRY Symmetry
INVARIANTS
  FilePassed
  FileHoldsLast
CHECK_DEADLOCK FALSE
