\* Two operators, two snapshots, a crash or a failed call, spurious keys.
SPECIFICATION Spec
CONSTANTS
  Operators = {a, b}
  DefaultOperator = d
  s1 = s1
  s2 = s2
  Snapshots = {s1, s2}
  None = None
  InitialLegacy <- NothingLeft
  MaxRegistry = 1
  MaxFaults = 1
  LateAdds = TRUE
  Resyncs = FALSE
  Ages = FALSE
SYMMETRY OperatorSymmetry
INVARIANTS TypeOK
PROPERTIES LifecycleSpec PublishesWhatItStored CompletedCoversActive
CHECK_DEADLOCK FALSE
