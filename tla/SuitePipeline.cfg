\* Two runs with one fingerprint, compiled or not; four candidates and six texts are as
\* many as two runs can write.
SPECIFICATION FairSpec
CONSTANTS
  r1 = r1
  r2 = r2
  Runs = {r1, r2}
  Fingerprint <- MCFingerprint
  Contract <- MCContract
  MaxTasks = 4
  contract = contract
  MaxSources = 6
  None = None
INVARIANTS
  TypeOK
  RowsResolve
  GeneratedAsApproved
  RejectedReturnsApproved
PROPERTY RunsEnd
CHECK_DEADLOCK FALSE
