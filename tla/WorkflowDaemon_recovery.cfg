SPECIFICATION FairSpec
CONSTANTS
  Workers = {w1}
  Auths = {network}
  MaxAttempts = 2
  MaxActions = 2
  Tasks = 1
  Schedules = 0
  Triggers = 0
  Keys = 0
  MaxAsked = 2
  MaxCommands = 1
  MaxCrashes = 2
  MaxStalls = 0
  None = None
INVARIANTS TypeOK BudgetHonoured NoBlindRedispatch WaitIsAnswerable
PROPERTY AnswerWakes
