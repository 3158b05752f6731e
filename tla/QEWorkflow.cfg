\* One run of the workflow; runs share no state.
SPECIFICATION FairSpec
CONSTANT Workflows = {w1}
INVARIANTS
  TypeOK
  OnlyApprovedExecutes
  GenerationIsExclusive
PROPERTIES
  RefinesGate
  EveryRunSettles
CHECK_DEADLOCK FALSE
