\* A provider becomes inactive after the others contributed.
SPECIFICATION FairSpec
CONSTANTS
  Operators = {a, b}
  DefaultOperator = d
  s1 = s1
  s2 = s2
  Snapshots = {s1}
  None = None
  InitialLegacy <- NothingLeft
  MaxRegistry = 2
  MaxFaults = 0
  LateAdds = FALSE
  Resyncs = FALSE
  Ages = FALSE
PROPERTIES InactiveDoNotBlock
CHECK_DEADLOCK FALSE
