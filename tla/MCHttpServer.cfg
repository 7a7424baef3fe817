SPECIFICATION ServerSpec
CONSTANTS
  r1 = r1
  r2 = r2
  r3 = r3
  alice = alice
  a = a
  batch = batch
  p1 = p1
  p2 = p2
  stored = stored
  Request = {r1, r2, r3}
  User = {alice}
  Name = {a}
  StoredFile = {stored}
  StoredLink = {}
  StoredExp = 1
  Unknown = Unknown
  None = None
  Ops = {"upload", "delete"}
  Faults = {"storage", "database", "crash"}
  LocalDisk = TRUE
  MaxAttempts = 1
  Batch = {batch}
  ItemsOf <- Pair
  MaxBatchSize = 2
  Process = {p1, p2}
INVARIANTS
  ServerTypeOK
  BatchReportIsTrue
PROPERTIES
  ServesTheFileServices
  EveryBatchIsAnswered
  ShutdownEnds
\* Every request may have been served.
CHECK_DEADLOCK FALSE
