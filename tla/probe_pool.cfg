\* More clusters than workers, every way a probe can end.
SPECIFICATION FairSpec
CONSTANTS
  Inputs = 3
  MaxWorkers = 2
  Answers <- TypicalAnswers
INVARIANTS TypeOK OneProbePerCluster ResultsInOrder
PROPERTIES NoWriteAfterReturn Returns
