\* Two requests for any of three tasks: two of this agent's mode whose ids share their
\* first eight characters, and one of another mode.
SPECIFICATION Spec
CONSTANTS
  Requests = {r1, r2}
  t1 = t1
  t2 = t2
  t3 = t3
  Tasks = {t1, t2, t3}
  Executable = {t1, t2}
  MaxRepairAttempts = 1
  slot = slot
  Slots <- MCSlots
  Slot <- MCSlot
  Suites = {s1}
  None = None
SYMMETRY Symmetry
INVARIANTS
  TypeOK
  RecordsWhatRan
  LinksResolve
PROPERTIES
  RefinesCatalog
  RequestsProgress
CHECK_DEADLOCK FALSE
