\* Two adapters, and four tasks: a workflow, one for the execution agent, one that is
\* refused and a message that cannot be read.
SPECIFICATION FairSpec
CONSTANTS
  Adapters = {a1, a2}
  N = 4
  Kind <- MCKind
  MaxDisruptions = 3
  None = None
INVARIANTS
  NothingSkipped
  DuplicatesBounded
PROPERTIES
  RefinesTaskQueue
  AnsweredWhileConsuming
CHECK_DEADLOCK FALSE
