SPECIFICATION ApiSpec
CONSTANTS
  r1 = r1
  r2 = r2
  r3 = r3
  alice = alice
  bob = bob
  a = a
  b = b
  stored = stored
  link = link
  Request = {r1, r2}
  User = {alice}
  Name = {a}
  StoredFile = {stored}
  StoredLink = {link}
  StoredExp = 1
  Unknown = Unknown
  None = None
  Ops = {"revoke"}
  Faults = {"unacked"}
  LocalDisk = TRUE
  MaxAttempts = 2
  TicksPerSecond = 1
  MaxTtl = 1
  MaxTime = 1
SYMMETRY Symmetric
INVARIANTS
  RevocationIsInHistory
\* Every request may have been served.
CHECK_DEADLOCK FALSE
