SPECIFICATION Spec
CONSTANTS
  Workers = {w1}
  Auths = {network}
  MaxAttempts = 3
  MaxActions = 3
  Tasks = 1
  Schedules = 0
  Triggers = 0
  Keys = 0
  MaxAsked = 2
  MaxCommands = 1
  MaxCrashes = 1
  MaxStalls = 0
  None = None
INVARIANT OneContinuation
