SPECIFICATION Spec
CONSTANTS
  Workers = {w1}
  Auths = {network}
  MaxAttempts = 2
  MaxActions = 2
  Tasks = 1
  Schedules = 0
  Triggers = 0
  Keys = 0
  MaxAsked = 2
  MaxCommands = 1
  MaxCrashes = 0
  MaxStalls = 0
  None = None
PROPERTY ApprovalResumes
