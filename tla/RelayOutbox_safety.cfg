SPECIFICATION Spec
CONSTANTS
  Hosts = {h1, h2}
  Requests = {r1}
  Paths = {p1, p2}
  Contents = {c1}
  Deliveries = {d1}
  Silent = {}
  w1 = w1
  w2 = w2
  Apart = None
  Workflows = {w1, w2}
  WorkflowOf <- MCWorkflowOf
  MaxEdits = 2
  MaxFaults = 1
  None = None
SYMMETRY HostSymmetry
INVARIANTS CursorCovers TypeOK RoutedHasJob AckedIsRouted
PROPERTIES DrainInOrder OutboxSpec
