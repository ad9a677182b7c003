SPECIFICATION Spec
CONSTANTS
  Workers = {w1}
  Auths = {network}
  MaxAttempts = 2
  MaxActions = 2
  Tasks = 1
  Schedules = 0
  Triggers = 1
  Keys = 1
  MaxAsked = 2
  MaxCommands = 2
  MaxCrashes = 0
  MaxStalls = 0
  None = None
INVARIANT GrantOnlyNamed
