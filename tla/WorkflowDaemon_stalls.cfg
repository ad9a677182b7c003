SPECIFICATION Spec
CONSTANTS
  Workers = {w1, w2}
  Auths = {}
  MaxAttempts = 1
  MaxActions = 1
  Tasks = 0
  Schedules = 1
  Triggers = 0
  Keys = 0
  MaxAsked = 0
  MaxCommands = 0
  MaxCrashes = 0
  MaxStalls = 1
  None = None
PROPERTY QueueSpec
