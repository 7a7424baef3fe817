SPECIFICATION ApiFairSpec
CONSTANTS
  r1 = r1
  r2 = r2
  r3 = r3
  alice = alice
  bob = bob
  a = a
  b = b
  stored = stored
  link = link
  Request = {r1, r2}
  User = {alice}
  Name = {a}
  StoredFile = {stored}
  StoredLink = {link}
  StoredExp = 0
  Unknown = Unknown
  None = None
  Ops = {"upload", "delete", "rename", "sign", "revoke", "download", "history",
         "get", "list", "links"}
  Faults = {"database"}
  LocalDisk = TRUE
  MaxAttempts = 2
  TicksPerSecond = 2
  MaxTtl = 1
  MaxTime = 4
INVARIANTS
  UrlLivesItsLifetime
  AnswersShowWhatWasTold
PROPERTIES
  EveryRequestIsAnswered
  OrphansAreReclaimed
\* Every request may have been served.
CHECK_DEADLOCK FALSE
