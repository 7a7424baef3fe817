SPECIFICATION Spec
CONSTANTS
  c1 = c1
  c2 = c2
  Call = {c1}
  MaxAttempts = 4
  BaseDelay = 1
  MaxDelay = 3
  MaxElapsed = 5
  AttemptTime = 1
  Slack = 0
  LastStart = 1
INVARIANTS
  RetriesWithinCap
\* Every call may have ended.
CHECK_DEADLOCK FALSE
