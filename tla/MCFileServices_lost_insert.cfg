SPECIFICATION Spec
CONSTANTS
  r1 = r1
  r2 = r2
  r3 = r3
  alice = alice
  bob = bob
  a = a
  b = b
  stored = stored
  Request = {r1}
  User = {alice}
  Name = {a}
  StoredFile = {stored}
  StoredLink = {}
  StoredExp = 1
  Unknown = Unknown
  None = None
  Ops = {"upload"}
  Faults = {"unacked"}
  LocalDisk = TRUE
  MaxAttempts = 2
SYMMETRY Symmetric
INVARIANTS
  LostInsert
\* Every request may have been served.
CHECK_DEADLOCK FALSE
