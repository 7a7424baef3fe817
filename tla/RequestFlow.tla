---------------------------- MODULE RequestFlow ----------------------------
(***************************************************************************)
(* How one HTTP request runs through a service: the awaits at which other  *)
(* requests interleave with it, what it holds in local variables across    *)
(* them, and how a repository or storage call of its own can fail.         *)
(*                                                                         *)
(* A request is at one step at a time.  A step is one call that the code   *)
(* awaits, with the synchronous code that follows it up to the next await. *)
(* makeResilient (resilience/resilient-proxy.ts) retries a failed attempt  *)
(* of that call or throws; "tries" is the number of the attempt.  How      *)
(* withRetry decides between the two is not modelled here: an attempt that *)
(* fails may be retried while attempts remain, and may always throw.       *)
(***************************************************************************)
EXTENDS Persistence

CONSTANTS
  Ops,           \* the operations the clients issue
  Faults,        \* the failures that may happen, see FaultKind
  LocalDisk,     \* STORAGE_BACKEND is "local", not "spaces"
  MaxAttempts    \* RETRY_MAX_ATTEMPTS

\* "database", "storage": an attempt fails and had no effect.
\* "unacked":  the statement is executed but its acknowledgement is lost, so
\*             the attempt fails after its effect (ECONNRESET, ETIMEDOUT).
\* "torn":     writeFile fails half way; an object of a bucket is whole or
\*             not there.
\* "crash":    the process serving the request stops.
FaultKind == {"database", "storage", "unacked", "torn", "crash"}

ASSUME FaultsAreKnown == Faults \subseteq FaultKind
ASSUME BackendIsKnown == LocalDisk \in BOOLEAN
ASSUME OnlyFilesTear == "torn" \in Faults => LocalDisk
ASSUME AttemptsArePositive == MaxAttempts \in Nat \ {0}

\* One step per awaited call.
DatabaseStep ==
  {"upload.insert",
   "delete.find", "delete.audit", "delete.drop",
   "rename.find", "rename.update", "rename.audit",
   "sign.find", "sign.insert", "sign.audit",
   "revoke.find", "revoke.update", "revoke.audit",
   "download.find", "download.redeem", "download.reject", "download.audit",
   "history.find", "history.exists", "history.list",
   "get.find", "list.select", "links.find", "links.select"}
StorageStep == {"upload.save", "upload.undo", "delete.unlink",
                "download.exists", "download.read"}
Step == DatabaseStep \cup StorageStep

Op == {"upload", "delete", "rename", "sign", "revoke", "download", "history",
       "get", "list", "links"}

\* The request as the controller hands it to the service.  "arg" is the file
\* name (None when missing or blank) or the link id; "exp" is the ttl of a
\* sign request and the expiry in the URL of a download.
Command == [op : Op, user : User \cup {None}, file : FileId,
            arg : Name \cup LinkId \cup {None}, exp : Nat]

ASSUME NoneIsNoCommand == None \notin Command

\* The error code of the response body; "ok" is a 2xx, "lost" is no response.
Code == {"none", "ok", "lost", "INTERNAL", "VALIDATION",
         "FILE_NOT_FOUND", "FORBIDDEN", "SIGNED_LINK_NOT_FOUND",
         "INVALID_SIGNED_URL", "UNKNOWN_LINK", "LINK_REVOKED", "BLOB_MISSING",
         "database", "storage"}

\* The codes of the error classes derived from HttpError, all of them 4xx;
\* database and storage errors and INTERNAL are 5xx.
HttpErrorCode == {"VALIDATION", "FILE_NOT_FOUND", "FORBIDDEN", "SIGNED_LINK_NOT_FOUND",
                  "INVALID_SIGNED_URL", "UNKNOWN_LINK", "LINK_REVOKED", "BLOB_MISSING"}

VARIABLES
  req,     \* req[r]: the command of r, or None before it arrives
  pc,      \* pc[r]: the step r is at
  tries,   \* tries[r]: the attempt the next step of r is
  seen,    \* seen[r]: the files row r read and still holds
  held,    \* held[r]: the row or link r holds besides it
  resp     \* resp[r]: the answer

flow == <<req, pc, tries, seen, held, resp>>

FlowTypeOK ==
  /\ req \in [Request -> Command \cup {None}]
  /\ pc \in [Request -> Step \cup {"idle", "done"}]
  /\ tries \in [Request -> 1 .. MaxAttempts]
  /\ seen \in [Request -> Row \cup {None}]
  /\ held \in [Request -> Row \cup Link \cup {None}]
  /\ resp \in [Request -> Code]

FlowInit ==
  /\ req = [r \in Request |-> None]
  /\ pc = [r \in Request |-> "idle"]
  /\ tries = [r \in Request |-> 1]
  /\ seen = [r \in Request |-> None]
  /\ held = [r \in Request |-> None]
  /\ resp = [r \in Request |-> "none"]

Active(r) == pc[r] \notin {"idle", "done"}

\* The file ids a client can name; any other id finds no row either, like
\* that of an upload that has not inserted yet.
DrawnIds == StoredFile \cup {q \in Request : req[q] # None /\ req[q].op = "upload"}

----------------------------------------------------------------------------
(* Variants with a plausible bug; none is part of a specification, each    *)
(* shows that a property can tell the bug.                                 *)

\* The attempt is compared before it is counted.
RetryOneTooMany(r) ==
  /\ tries[r] <= MaxAttempts
  /\ tries' = [tries EXCEPT ![r] = @ + 1]
  /\ UNCHANGED <<pc, resp>>

\* The counter starts again when it has reached its limit.
RetryForever(r) ==
  /\ tries' = [tries EXCEPT ![r] = IF @ < MaxAttempts THEN @ + 1 ELSE 1]
  /\ UNCHANGED <<pc, resp>>

\* The service looks the file up, but not whose it is.
OwnedByAnyone(r) == files[req[r].file] # None

----------------------------------------------------------------------------
(* The control of one request.  Every operator below says what becomes of  *)
(* pc, tries and resp.                                                     *)

\* The awaited call returned; the service goes on to its next one.
Goto(r, step) ==
  /\ pc' = [pc EXCEPT ![r] = step]
  /\ tries' = [tries EXCEPT ![r] = 1]
  /\ UNCHANGED resp

\* The service returned or threw, and the response is sent.
Answer(r, code) ==
  /\ pc' = [pc EXCEPT ![r] = "done"]
  /\ tries' = [tries EXCEPT ![r] = 1]
  /\ resp' = [resp EXCEPT ![r] = code]

Retry(r) ==
  /\ tries[r] < MaxAttempts
  /\ tries' = [tries EXCEPT ![r] = @ + 1]
  /\ UNCHANGED <<pc, resp>>

\* The class of a wrapped error tells which store failed (deriveLayer).
Layer(step) == IF step \in StorageStep THEN "storage" ELSE "database"

\* The call throws.  Only the upload catches, to take its blob back; every
\* other error reaches the error handler.
Throw(r) ==
  \/ /\ pc[r] = "upload.insert"
     /\ Goto(r, "upload.undo")
  \/ /\ pc[r] # "upload.insert"
     /\ Answer(r, Layer(pc[r]))

AttemptFails(r) == Retry(r) \/ Throw(r)

\* The attempt had its effect, but its caller sees it fail.
Unacked(r) == "unacked" \in Faults /\ AttemptFails(r)

\* The attempt fails without effect.  LocalBlobStorage.exists never throws:
\* any error of the disk is the answer "no such file".
Fault(r) ==
  /\ \/ "database" \in Faults /\ pc[r] \in DatabaseStep
     \/ "storage" \in Faults /\ pc[r] \in StorageStep
  /\ IF LocalDisk /\ pc[r] = "download.exists" THEN Answer(r, "BLOB_MISSING")
                                                ELSE AttemptFails(r)
  /\ UNCHANGED <<stores, req, seen, held>>

\* The process stops: what the request was about to do is not done, and
\* nothing takes it up again.
Crash(r) ==
  /\ "crash" \in Faults
  /\ Active(r)
  /\ Answer(r, "lost")
  /\ UNCHANGED <<stores, req, seen, held>>

\* The controller hands the command over; validation happens before the
\* first await, so a rejected command is answered at once.
Receive(r, command, valid, first) ==
  /\ pc[r] = "idle"
  /\ command.op \in Ops
  /\ req' = [req EXCEPT ![r] = command]
  /\ IF valid THEN Goto(r, first) ELSE Answer(r, "VALIDATION")
  /\ UNCHANGED <<stores, seen, held>>

----------------------------------------------------------------------------
(* FileAccessService, inlined in the step that awaits findById. *)

Owned(r) == /\ files[req[r].file] # None
            /\ files[req[r].file].user = req[r].user

Refuse(r) ==
  /\ ~Owned(r)
  /\ Answer(r, IF files[req[r].file] = None THEN "FILE_NOT_FOUND" ELSE "FORBIDDEN")
  /\ UNCHANGED seen

Remember(r) == seen' = [seen EXCEPT ![r] = files[req[r].file]]

GetOwned(r, next) ==
  \/ Refuse(r)
  \/ Owned(r) /\ Remember(r) /\ Goto(r, next)

\* The event the service records on behalf of its caller.
EventOf(r, type) ==
  [id |-> <<r, tries[r]>>, file |-> req[r].file, user |-> req[r].user,
   type |-> type, name |-> None, was |-> None, link |-> None, exp |-> 0]
=============================================================================
