\* Two executions of one run key on one host that fails once, with and without
\* a jail and cgroups.
SPECIFICATION FairEngineSpec
CONSTANTS
  Executions = {e1, e2}
  Submissions <- MCSubmissions
  Isolations = {"none", "bwrap"}
  TimeLimit = 1
  MemoryLimit = 1
  MaxTests = 2
  MaxFaults = 1
INVARIANTS
  SuiteTypeOK
  AcceptedIsEarned
  BlameIsDeserved
  LeafHasOneHolder
  CasesLeaveNothing
  ResultLostForAReason
PROPERTIES
  EveryExecutionEnds
CHECK_DEADLOCK FALSE
