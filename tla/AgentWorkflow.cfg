SPECIFICATION Spec
CONSTANTS
  Operators = {o1, o2}
  Executors = {e1}
  docs = docs
  agentResults = agentResults
  TaskDir = docs
  ResultDir = agentResults
  Plan <- MCPlan
  DirOf <- MCDirOf
  Found <- MCFound
  Companions = {TRUE}
  Pinned = {TRUE, FALSE}
  Ids = {t1}
  MaxStamps = 2
  MaxAttempts = 2
  MaxCommits = 2
  MaxFaults = 1
  None = None
INVARIANTS TypeOK TargetRestored ActiveIsWhole HandoffIsFresh
PROPERTIES OneActiveTask
CHECK_DEADLOCK FALSE
SYMMETRY MCSymmetry
