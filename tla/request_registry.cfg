\* The registry changes twice; the Secret may be of an earlier release; informers resync.
SPECIFICATION Spec
CONSTANTS
  Operators = {a, b}
  DefaultOperator = d
  s1 = s1
  s2 = s2
  Snapshots = {s1}
  None = None
  InitialLegacy <- MaybeLeft
  MaxRegistry = 3
  MaxFaults = 0
  LateAdds = FALSE
  Resyncs = TRUE
  Ages = FALSE
SYMMETRY OperatorSymmetry
INVARIANTS CompletedJustified
PROPERTIES OnlyOverwriteLosesEntries
CHECK_DEADLOCK FALSE
