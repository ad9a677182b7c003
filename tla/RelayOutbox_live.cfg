SPECIFICATION FairSpec
CONSTANTS
  Hosts = {h1, h2}
  Requests = {}
  Paths = {p1}
  Contents = {c1, c2}
  Deliveries = {}
  Silent = {}
  w1 = w1
  w2 = w2
  Apart = c2
  Workflows = {w1, w2}
  WorkflowOf <- MCWorkflowOf
  MaxEdits = 3
  MaxFaults = 1
  None = None
PROPERTY FileDispatched
