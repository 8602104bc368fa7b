\* The registry is stable, a crash or a failed call; the request may grow old and be deleted.
SPECIFICATION FairSpec
CONSTANTS
  Operators = {a, b}
  DefaultOperator = d
  s1 = s1
  s2 = s2
  Snapshots = {s1}
  None = None
  InitialLegacy <- NothingLeft
  MaxRegistry = 1
  MaxFaults = 1
  LateAdds = FALSE
  Resyncs = FALSE
  Ages = TRUE
PROPERTIES EventuallyCompleted SecretCollected
CHECK_DEADLOCK FALSE
