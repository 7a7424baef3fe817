SPECIFICATION ApiSpec
CONSTANTS
  r1 = r1
  r2 = r2
  r3 = r3
  alice = alice
  bob = bob
  a = a
  b = b
  stored = stored
  link = link
  Request = {r1, r2, r3}
  User = {alice}
  Name = {a}
  StoredFile = {stored}
  StoredLink = {link}
  StoredExp = 2
  Unknown = Unknown
  None = None
  Ops = {"sign", "revoke", "download", "delete", "links"}
  Faults = {"unacked", "storage"}
  LocalDisk = TRUE
  MaxAttempts = 2
  TicksPerSecond = 1
  MaxTtl = 1
  MaxTime = 0
SYMMETRY Symmetric
INVARIANTS
  NoServiceAfterward
  RedemptionIsAudited
  HandedOutIsRecorded
  AnswersShowWhatWasTold
\* Every request may have been served.
CHECK_DEADLOCK FALSE
