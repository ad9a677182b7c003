SPECIFICATION FairSpec
CONSTANTS
  Hosts = {h1}
  Requests = {}
  Paths = {p1, p2}
  Contents = {c1}
  Deliveries = {}
  Silent = {}
  w1 = w1
  w2 = w2
  Apart = None
  Workflows = {w1, w2}
  WorkflowOf <- MCWorkflowOf
  MaxEdits = 3
  MaxFaults = 1
  None = None
PROPERTY PendingReplayed
