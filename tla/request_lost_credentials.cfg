\* Two operators create the Secret at the same time.
SPECIFICATION Spec
CONSTANTS
  Operators = {a, b}
  DefaultOperator = d
  s1 = s1
  s2 = s2
  Snapshots = {s1}
  None = None
  InitialLegacy <- NothingLeft
  MaxRegistry = 1
  MaxFaults = 0
  LateAdds = FALSE
  Resyncs = FALSE
  Ages = FALSE
SYMMETRY OperatorSymmetry
INVARIANTS PublishedHasCredentials
CHECK_DEADLOCK FALSE
