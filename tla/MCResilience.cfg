SPECIFICATION FairSpec
CONSTANTS
  c1 = c1
  c2 = c2
  Call = {c1, c2}
  MaxAttempts = 4
  BaseDelay = 1
  MaxDelay = 3
  MaxElapsed = 5
  AttemptTime = 1
  Slack = 1
  LastStart = 1
INVARIANTS
  TypeOK
  EndsInTime
  AttemptsAreSpread
  ShortOutagesAreSurvived
PROPERTIES
  KeepsPromise
  EveryCallEnds
\* Every call may have ended.
CHECK_DEADLOCK FALSE
