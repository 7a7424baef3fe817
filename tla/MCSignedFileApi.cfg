SPECIFICATION ApiSpec
CONSTANTS
  r1 = r1
  r2 = r2
  r3 = r3
  alice = alice
  bob = bob
  a = a
  b = b
  stored = stored
  link = link
  Request = {r1, r2, r3}
  User = {alice, bob}
  Name = {a}
  StoredFile = {stored}
  StoredLink = {link}
  StoredExp = 1
  Unknown = Unknown
  None = None
  Ops = {"sign", "revoke", "download", "delete", "history"}
  Faults = {"storage", "crash"}
  LocalDisk = FALSE
  MaxAttempts = 1
  TicksPerSecond = 1
  MaxTtl = 2
  MaxTime = 0
SYMMETRY Symmetric
INVARIANTS
  ApiTypeOK
  RefusalHasCause
  SignFailsOnConflict
  LinksBelongToOwners
  OwnerKeepsHistory
  RevokedOnce
\* Every request may have been served.
CHECK_DEADLOCK FALSE
