\* One generation, and two reviews of what it generated.
SPECIFICATION ReviewedSpec
CONSTANTS
  GeneratorAttempts = 3
  r1 = r1
  r2 = r2
  Callers = {r1, r2}
  HighImpact = {r1}
  Task <- MCTask
  Tasks = {"suite"}
  Environments <- MCEnvironments
  Texts <- MCTexts
  MaxAttempts = 2
  None = None
  Nothing = Nothing
INVARIANTS
  FailsClosed
  OnlyGatedReviewed
PROPERTIES
  WorkRunsOut
CHECK_DEADLOCK FALSE
