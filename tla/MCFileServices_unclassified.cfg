SPECIFICATION Spec
CONSTANTS
  r1 = r1
  r2 = r2
  r3 = r3
  alice = alice
  bob = bob
  a = a
  b = b
  stored = stored
  Request = {r1, r2}
  User = {alice}
  Name = {a, b}
  StoredFile = {stored}
  StoredLink = {}
  StoredExp = 1
  Unknown = Unknown
  None = None
  Ops = {"delete", "rename"}
  Faults = {}
  LocalDisk = TRUE
  MaxAttempts = 2
SYMMETRY Symmetric
INVARIANTS
  EveryErrorIsClassified
\* Every request may have been served.
CHECK_DEADLOCK FALSE
