CONSTANTS
  NumJobs = 3
  ParallelCount = 1
  MaxSignals = 1
SPECIFICATION MCSpec
INVARIANTS NilMeansAllSucceeded ErrorHasCause NoJobOutlivesResult TokensAccounted
PROPERTIES GroupSpec Returns
