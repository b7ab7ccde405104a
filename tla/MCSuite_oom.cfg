\* A program that takes more memory than its case allows.
SPECIFICATION EngineSpec
CONSTANTS
  Executions = {e1}
  Submissions <- LargeSubmission
  Isolations = {"none", "bwrap"}
  TimeLimit = 1
  MemoryLimit = 1
  MaxTests = 2
  MaxFaults = 1
INVARIANTS
  OomIsMemoryLimit
CHECK_DEADLOCK FALSE
