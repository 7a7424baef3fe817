SPECIFICATION Spec
CONSTANTS
  r1 = r1
  r2 = r2
  r3 = r3
  alice = alice
  bob = bob
  a = a
  b = b
  stored = stored
  Request = {r1, r2, r3}
  User = {alice, bob}
  Name = {a, b}
  StoredFile = {stored}
  StoredLink = {}
  StoredExp = 1
  Unknown = Unknown
  None = None
  Ops = {"upload", "delete", "rename"}
  Faults = {"database", "storage", "torn", "crash"}
  LocalDisk = TRUE
  MaxAttempts = 2
SYMMETRY Symmetric
INVARIANTS
  TypeOK
  RowHasBlob
  OrphanExplained
  DeleteIsFinal
  FailedUploadLeavesNothing
  OneEventPerRequest
  UnclassifiedErrorHasCause
  NamesAreExplained
  RefusedChangesNothing
PROPERTIES
  OnlyOwnerChanges
  ImplementsCatalog
\* Every request may have been served.
CHECK_DEADLOCK FALSE
