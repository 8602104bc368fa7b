\* A contributor becomes inactive before the others contribute.
SPECIFICATION Spec
CONSTANTS
  Operators = {a, b, c}
  DefaultOperator = d
  s1 = s1
  s2 = s2
  Snapshots = {s1}
  None = None
  InitialLegacy <- NothingLeft
  MaxRegistry = 2
  MaxFaults = 0
  LateAdds = FALSE
  Resyncs = FALSE
  Ages = FALSE
SYMMETRY OperatorSymmetry
PROPERTIES CompletedCoversActive
CHECK_DEADLOCK FALSE
