SPECIFICATION Spec
CONSTANTS
  codex = codex
  claude = claude
  Runs = {codex, claude}
  Codex = {codex}
  NPaths = 2
  Hidden = {2}
  Allowed <- MCAllowed
  Forbidden <- MCForbidden
  Destructive = {codex}
  Starts <- MCStarts
  Outputs <- MCOutputs
  MaxEdits = 1
  MaxFaults = 1
INVARIANTS TypeOK AllOrNothing OnlyDueWork
PROPERTIES ChangesKept
CHECK_DEADLOCK FALSE
