SPECIFICATION Spec
CONSTANTS
  t1 = t1
  t2 = t2
  x1 = x1
  x2 = x2
  x3 = x3
  a = a
  b = b
  Tests = {t1, t2}
  Executions = {x1, x2, x3}
  Task <- TaskOf
  Target <- TargetOf
  MaxEvents = 2
  None = None
SYMMETRY Alike
INVARIANT TargetsShown
PROPERTY StatusGoesForward
CHECK_DEADLOCK FALSE
