------------------------- MODULE FileServicesProofs -------------------------
(***************************************************************************)
(* Proofs about FileServices, for any sets of requests, users, names and   *)
(* stored files and any number of attempts: its types, and what holds      *)
(* between the files table and the blob storage.                           *)
(***************************************************************************)
EXTENDS FileServices, TLAPS

UploadSteps == {"upload.save", "upload.insert", "upload.undo"}
DeleteSteps == {"delete.find", "delete.audit", "delete.drop", "delete.unlink"}
RenameSteps == {"rename.find", "rename.update", "rename.audit"}

\* The steps at which a request acts on a row that it found to be its own.
Holding == {"delete.audit", "delete.drop", "delete.unlink",
            "rename.update", "rename.audit"}

\* The strengthening of TypeOK: which command q a request r at step p has,
\* and that it holds the row it read.
ShapeAt(r, p, q, row) ==
  /\ p # "idle" => q \in Command
  /\ p \in UploadSteps => q.op = "upload" /\ q.file = r /\ q.user \in User /\ q.arg \in Name
  /\ p \in DeleteSteps => q.op = "delete" /\ q.user \in User
  /\ p \in RenameSteps => 
       q.op = "rename" /\ q.user \in User /\ q.arg \in Name \cup {None}
  /\ p \in {"rename.update", "rename.audit"} => q.arg \in Name
  /\ p \in Holding => row \in Row

Shape(r) == ShapeAt(r, pc[r], req[r], seen[r])

TypeInv == TypeOK /\ \A r \in Request : Shape(r)

LEMMA InitTypeInv == Init => TypeInv
<1> SUFFICES ASSUME Init PROVE TypeInv
  OBVIOUS
<1>1. FlowTypeOK /\ \A r \in Request : Shape(r)
  BY AttemptsArePositive DEF Init, FlowInit, FlowTypeOK, Shape, ShapeAt, Step, UploadSteps, DeleteSteps,
     RenameSteps, Holding, Code
<1>2. files \in [FileId -> Row \cup {None}] /\ blobs \in [FileId -> BlobState]
  BY DEF Init, StoresInit, BlobState
<1>3. links \subseteq Link /\ audit \subseteq Event
  <2>1. PICK at \in [StoredLink -> StoredFile] :
          /\ links = {[id |-> l, file |-> at[l], exp |-> StoredExp,
                       user |-> files[at[l]].user, revoked |-> FALSE] : l \in StoredLink}
          /\ audit = {[id |-> <<l, 1>>, file |-> at[l], user |-> files[at[l]].user,
                       type |-> "signed_link_generated", name |-> None, was |-> None,
                       link |-> None, exp |-> StoredExp] : l \in StoredLink}
    BY DEF Init, StoresInit
  <2>2. ASSUME NEW l \in StoredLink
        PROVE  at[l] \in FileId /\ files[at[l]].user \in User
    <3>1. at[l] \in FileId /\ at[l] \notin Request
      BY IdsAreDistinct DEF FileId
    <3>2. files[at[l]] \in Row
      BY <3>1, <1>2 DEF Init, StoresInit
    <3> QED BY <3>1, <3>2 DEF Row
  <2>3. ASSUME NEW k \in links
        PROVE  k \in Link
    <3>1. PICK l \in StoredLink :
            k = [id |-> l, file |-> at[l], exp |-> StoredExp,
                 user |-> files[at[l]].user, revoked |-> FALSE]
      BY <2>1
    <3> QED BY <3>1, <2>2, StoredExpIsTime DEF Link, LinkId
  <2>4. ASSUME NEW e \in audit
        PROVE  e \in Event
    <3>1. PICK l \in StoredLink :
            e = [id |-> <<l, 1>>, file |-> at[l], user |-> files[at[l]].user,
                 type |-> "signed_link_generated", name |-> None, was |-> None,
                 link |-> None, exp |-> StoredExp]
      BY <2>1
    <3> QED BY <3>1, <2>2, StoredExpIsTime DEF Event, EventType
  <2> QED BY <2>3, <2>4
<1> QED BY <1>1, <1>2, <1>3 DEF TypeInv, TypeOK, StoresTypeOK

----------------------------------------------------------------------------
(* The control operators of RequestFlow move one request to one of a few   *)
(* steps and leave the others where they are.                              *)

Moves(r, targets) ==
  \E p \in targets, t \in 1 .. MaxAttempts, c \in Code :
    /\ pc' = [pc EXCEPT ![r] = p]
    /\ tries' = [tries EXCEPT ![r] = t]
    /\ resp' = [resp EXCEPT ![r] = c]

\* Where a failing attempt of step p can lead.
FailTargets(p) == {p, "done"} \cup (IF p = "upload.insert" THEN {"upload.undo"} ELSE {})

LEMMA GotoMoves ==
  ASSUME FlowTypeOK, NEW r \in Request, NEW step, Goto(r, step)
  PROVE  Moves(r, {step})
<1>1. resp' = [resp EXCEPT ![r] = resp[r]] /\ resp[r] \in Code
  BY DEF Goto, FlowTypeOK
<1>2. 1 \in 1 .. MaxAttempts
  BY AttemptsArePositive
<1> QED BY <1>1, <1>2 DEF Goto, Moves

LEMMA AnswerMoves ==
  ASSUME FlowTypeOK, NEW r \in Request, NEW code \in Code, Answer(r, code)
  PROVE  Moves(r, {"done"})
<1>1. 1 \in 1 .. MaxAttempts
  BY AttemptsArePositive
<1> QED BY <1>1 DEF Answer, Moves

LEMMA FailMoves ==
  ASSUME FlowTypeOK, NEW r \in Request, AttemptFails(r)
  PROVE  Moves(r, FailTargets(pc[r]))
<1>1. CASE Retry(r)
  <2>1. /\ pc' = [pc EXCEPT ![r] = pc[r]]
        /\ resp' = [resp EXCEPT ![r] = resp[r]]
        /\ tries' = [tries EXCEPT ![r] = tries[r] + 1]
    BY <1>1 DEF Retry, FlowTypeOK
  <2>2. tries[r] + 1 \in 1 .. MaxAttempts /\ resp[r] \in Code
    BY <1>1, AttemptsArePositive DEF Retry, FlowTypeOK
  <2> QED BY <2>1, <2>2 DEF Moves, FailTargets
<1>2. CASE Throw(r)
  <2>1. CASE pc[r] = "upload.insert"
    <3>1. Goto(r, "upload.undo")
      BY <1>2, <2>1 DEF Throw, Layer
    <3> QED BY <2>1, <3>1, GotoMoves DEF Moves, FailTargets
  <2>2. CASE pc[r] # "upload.insert"
    <3>1. PICK code \in Code : Answer(r, code)
      BY <1>2, <2>2 DEF Throw, Layer, Code
    <3> QED BY <3>1, AnswerMoves DEF Moves, FailTargets
  <2> QED BY <2>1, <2>2
<1> QED BY <1>1, <1>2 DEF AttemptFails

LEMMA MoreTargets ==
  ASSUME NEW r, NEW S, NEW T, Moves(r, S), S \subseteq T
  PROVE  Moves(r, T)
BY DEF Moves

\* One request moves; the shape of the others does not depend on it.
LEMMA MoveKeepsShape ==
  ASSUME TypeInv, NEW r \in Request, NEW S, Moves(r, S),
         S \subseteq Step \cup {"done"},
         req'[r] \in Command, req' = [req EXCEPT ![r] = req'[r]],
         seen'[r] \in Row \cup {None}, seen' = [seen EXCEPT ![r] = seen'[r]],
         held'[r] \in Row \cup Link \cup {None}, held' = [held EXCEPT ![r] = held'[r]],
         \A p \in S : ShapeAt(r, p, req'[r], seen'[r])
  PROVE  FlowTypeOK' /\ \A s \in Request : Shape(s)'
<1> USE DEF TypeInv, TypeOK, FlowTypeOK
<1>1. PICK p \in S, t \in 1 .. MaxAttempts, c \in Code :
        /\ pc' = [pc EXCEPT ![r] = p]
        /\ tries' = [tries EXCEPT ![r] = t]
        /\ resp' = [resp EXCEPT ![r] = c]
  BY DEF Moves
<1>2. FlowTypeOK'
  BY <1>1
<1>3. ASSUME NEW s \in Request
      PROVE  ShapeAt(s, pc'[s], req'[s], seen'[s])
  <2>1. CASE s = r
    BY <1>1, <2>1
  <2>2. CASE s # r
    <3>1. pc'[s] = pc[s] /\ req'[s] = req[s] /\ seen'[s] = seen[s]
      BY <1>1, <2>2
    <3> QED BY <3>1 DEF Shape
  <2> QED BY <2>1, <2>2
<1> QED BY <1>2, <1>3 DEF Shape

\* The same when the request keeps what it holds.
LEMMA LocalMove ==
  ASSUME TypeInv, NEW r \in Request, NEW S, Moves(r, S),
         S \subseteq Step \cup {"done"}, pc[r] # "idle",
         UNCHANGED <<req, seen, held>>,
         \A p \in S : ShapeAt(r, p, req[r], seen[r])
  PROVE  FlowTypeOK' /\ \A s \in Request : Shape(s)'
<1>1. req'[r] \in Command
  BY DEF TypeInv, Shape, ShapeAt
<1>2. seen'[r] \in Row \cup {None} /\ held'[r] \in Row \cup Link \cup {None}
  BY DEF TypeInv, TypeOK, FlowTypeOK
<1>3. /\ req' = [req EXCEPT ![r] = req'[r]]
      /\ seen' = [seen EXCEPT ![r] = seen'[r]]
      /\ held' = [held EXCEPT ![r] = held'[r]]
  BY DEF TypeInv, TypeOK, FlowTypeOK
<1>4. \A p \in S : ShapeAt(r, p, req'[r], seen'[r])
  OBVIOUS
<1> QED BY <1>1, <1>2, <1>3, <1>4, MoveKeepsShape

\* A failing attempt leads nowhere the request could not be.
LEMMA FailKeepsShape ==
  ASSUME TypeInv, NEW r \in Request, pc[r] \in Step
  PROVE  /\ \A p \in FailTargets(pc[r]) : ShapeAt(r, p, req[r], seen[r])
         /\ FailTargets(pc[r]) \subseteq Step \cup {"done"}
BY DEF TypeInv, Shape, ShapeAt, FailTargets, UploadSteps, DeleteSteps, RenameSteps, Holding,
   Step, DatabaseStep, StorageStep

\* A step that goes on to "next" or fails.
LEMMA CallKeepsShape ==
  ASSUME TypeInv, NEW r \in Request, pc[r] \in Step,
         NEW next \in Step \cup {"done"}, NEW code \in Code,
         ShapeAt(r, next, req[r], seen[r]),
         \/ Goto(r, next)
         \/ next = "done" /\ Answer(r, code)
         \/ AttemptFails(r),
         UNCHANGED <<req, seen, held>>
  PROVE  FlowTypeOK' /\ \A s \in Request : Shape(s)'
<1>1. pc[r] # "idle" /\ FlowTypeOK
  BY DEF Step, DatabaseStep, StorageStep, TypeInv, TypeOK
<1>2. CASE Goto(r, next)
  <2>1. Moves(r, {next})
    BY <1>1, <1>2, GotoMoves
  <2> QED BY <1>1, <2>1, LocalMove
<1>3. CASE next = "done" /\ Answer(r, code)
  <2>1. Moves(r, {next})
    BY <1>1, <1>3, AnswerMoves
  <2> QED BY <1>1, <2>1, LocalMove
<1>4. CASE AttemptFails(r)
  <2>1. Moves(r, FailTargets(pc[r]))
    BY <1>1, <1>4, FailMoves
  <2> QED BY <1>1, <2>1, FailKeepsShape, LocalMove
<1> QED BY <1>2, <1>3, <1>4

\* Nothing but the commands' arguments goes into the tables.
LEMMA EventTyped ==
  ASSUME TypeInv, NEW r \in Request, NEW type \in EventType,
         req[r] \in Command, req[r].user \in User,
         NEW name \in Name \cup {None}, NEW was \in Name \cup {None}
  PROVE  [EventOf(r, type) EXCEPT !.name = name, !.was = was] \in Event
<1>1. tries[r] \in Nat
  BY AttemptsArePositive DEF TypeInv, TypeOK, FlowTypeOK
<1>2. req[r].file \in FileId
  BY DEF Command
<1> QED BY <1>1, <1>2 DEF EventOf, Event

----------------------------------------------------------------------------
(* Type correctness.  StoresTypeOK and the rest of TypeInv are shown apart:  *)
(* the stores change by one statement, the locals by one move.              *)

LEMMA ReceiveKeepsTypes ==
  ASSUME TypeInv, NEW r \in Request, ReceiveFileOp(r)
  PROVE  TypeInv'
<1>1. PICK command \in Command, valid \in BOOLEAN,
           first \in {"upload.save", "delete.find", "rename.find"} :
        /\ Receive(r, command, valid, first)
        /\ valid => ShapeAt(r, first, command, seen[r])
  <2>1. CASE ReceiveUpload(r)
    <3>1. PICK user \in User, name \in Name \cup {None} :
            Receive(r, [op |-> "upload", user |-> user, file |-> r, arg |-> name, exp |-> 0],
                    name # None, "upload.save")
      BY <2>1 DEF ReceiveUpload
    <3> DEFINE command == [op |-> "upload", user |-> user, file |-> r, arg |-> name, exp |-> 0]
    <3>2. command \in Command
      BY DEF Command, Op, FileId
    <3>3. name # None => ShapeAt(r, "upload.save", command, seen[r])
      BY <3>2 DEF ShapeAt, UploadSteps, DeleteSteps, RenameSteps, Holding
    <3> QED BY <3>1, <3>2, <3>3
  <2>2. CASE ReceiveDelete(r)
    <3>1. PICK user \in User, f \in DrawnIds :
            Receive(r, [op |-> "delete", user |-> user, file |-> f, arg |-> None, exp |-> 0],
                    TRUE, "delete.find")
      BY <2>2 DEF ReceiveDelete
    <3> DEFINE command == [op |-> "delete", user |-> user, file |-> f, arg |-> None, exp |-> 0]
    <3>2. command \in Command
      BY DEF Command, Op, FileId, DrawnIds
    <3>3. ShapeAt(r, "delete.find", command, seen[r])
      BY <3>2 DEF ShapeAt, UploadSteps, DeleteSteps, RenameSteps, Holding
    <3> QED BY <3>1, <3>2, <3>3
  <2>3. CASE ReceiveRename(r)
    <3>1. PICK user \in User, f \in DrawnIds, name \in Name \cup {None}, accepted \in BOOLEAN :
            Receive(r, [op |-> "rename", user |-> user, file |-> f, arg |-> name, exp |-> 0],
                    accepted, "rename.find")
      BY <2>3 DEF ReceiveRename
    <3> DEFINE command == [op |-> "rename", user |-> user, file |-> f, arg |-> name, exp |-> 0]
    <3>2. command \in Command
      BY DEF Command, Op, FileId, DrawnIds
    <3>3. ShapeAt(r, "rename.find", command, seen[r])
      BY <3>2 DEF ShapeAt, UploadSteps, DeleteSteps, RenameSteps, Holding
    <3> QED BY <3>1, <3>2, <3>3
  <2> QED BY <2>1, <2>2, <2>3 DEF ReceiveFileOp
<1>2. FlowTypeOK
  BY DEF TypeInv, TypeOK
<1> DEFINE target == IF valid THEN first ELSE "done"
<1>3. Moves(r, {target})
  <2>1. CASE valid
    BY <1>1, <1>2, <2>1, GotoMoves DEF Receive
  <2>2. CASE ~valid
    <3>1. Answer(r, "VALIDATION") /\ "VALIDATION" \in Code
      BY <1>1, <2>2 DEF Receive, Code
    <3> QED BY <1>2, <2>2, <3>1, AnswerMoves
  <2> QED BY <2>1, <2>2
<1>4. /\ req' = [req EXCEPT ![r] = req'[r]] /\ req'[r] = command
      /\ seen' = [seen EXCEPT ![r] = seen'[r]] /\ seen'[r] = seen[r]
      /\ held' = [held EXCEPT ![r] = held'[r]] /\ held'[r] = held[r]
  BY <1>1, <1>2 DEF Receive, FlowTypeOK
<1>5. /\ seen[r] \in Row \cup {None} /\ held[r] \in Row \cup Link \cup {None}
  BY <1>2 DEF FlowTypeOK
<1>6. ShapeAt(r, target, command, seen[r])
  BY <1>1 DEF ShapeAt, UploadSteps, DeleteSteps, RenameSteps, Holding
<1>7. {target} \subseteq Step \cup {"done"}
  BY DEF Step, DatabaseStep, StorageStep
<1>8. FlowTypeOK' /\ \A s \in Request : Shape(s)'
  BY <1>1, <1>3, <1>4, <1>5, <1>6, <1>7, MoveKeepsShape
<1>9. StoresTypeOK'
  BY <1>1 DEF Receive, stores, TypeInv, TypeOK, StoresTypeOK
<1> QED BY <1>8, <1>9 DEF TypeInv, TypeOK

LEMMA UploadKeepsTypes ==
  ASSUME TypeInv, NEW r \in Request, UploadStep(r)
  PROVE  TypeInv'
<1> USE DEF TypeInv, TypeOK
<1>1. pc[r] \in UploadSteps /\ UNCHANGED <<links, audit, req, seen, held>>
  BY DEF UploadStep, UploadSave, UploadSaveTorn, UploadInsert, UploadUndo, UploadSteps
<1>2. /\ req[r].op = "upload" /\ req[r].file = r /\ req[r].user \in User /\ req[r].arg \in Name
      /\ req[r] \in Command
  BY <1>1 DEF Shape, ShapeAt, UploadSteps
<1>3. r \in FileId
  BY DEF FileId
<1>4. \A p \in {"upload.insert", "upload.undo", "done"} : ShapeAt(r, p, req[r], seen[r])
  BY <1>2 DEF ShapeAt, UploadSteps, DeleteSteps, RenameSteps, Holding
<1>5. FlowTypeOK' /\ \A s \in Request : Shape(s)'
  <2>1. pc[r] \in Step /\ {"upload.insert", "upload.undo"} \subseteq Step
    BY <1>1 DEF UploadSteps, Step, DatabaseStep, StorageStep
  <2>2. "ok" \in Code /\ "database" \in Code
    BY DEF Code
  <2>3. CASE UploadSave(r)
    <3>1. Goto(r, "upload.insert") \/ AttemptFails(r)
      BY <2>3 DEF UploadSave, Unacked
    <3> QED BY <1>1, <1>4, <2>1, <2>2, <3>1, CallKeepsShape
  <2>4. CASE UploadSaveTorn(r)
    <3>1. AttemptFails(r)
      BY <2>4 DEF UploadSaveTorn
    <3> QED BY <1>1, <1>4, <2>1, <2>2, <3>1, CallKeepsShape
  <2>5. CASE UploadInsert(r)
    <3>1. Answer(r, "ok") \/ AttemptFails(r)
      BY <2>5 DEF UploadInsert, Unacked, AttemptFails
    <3> QED BY <1>1, <1>4, <2>1, <2>2, <3>1, CallKeepsShape
  <2>6. CASE UploadUndo(r)
    <3>1. Answer(r, "database") \/ AttemptFails(r)
      BY <2>6 DEF UploadUndo, Unacked
    <3> QED BY <1>1, <1>4, <2>1, <2>2, <3>1, CallKeepsShape
  <2> QED BY <2>3, <2>4, <2>5, <2>6 DEF UploadStep
<1>6. StoresTypeOK'
  <2>1. files' \in [FileId -> Row \cup {None}]
    <3>1. [user |-> req[r].user, name |-> req[r].arg] \in Row
      BY <1>2 DEF Row
    <3> QED BY <1>3, <3>1 DEF UploadStep, UploadSave, UploadSaveTorn, UploadInsert, UploadUndo,
               InsertRow, StoresTypeOK
  <2>2. blobs' \in [FileId -> BlobState]
    BY <1>3 DEF UploadStep, UploadSave, UploadSaveTorn, UploadInsert, UploadUndo,
       WriteBlob, RemoveBlob, BlobState, StoresTypeOK
  <2> QED BY <1>1, <2>1, <2>2 DEF StoresTypeOK
<1> QED BY <1>5, <1>6

\* findById with the ownership check: refused, or the row is held from now on.
LEMMA FindKeepsShape ==
  ASSUME TypeInv, NEW r \in Request, pc[r] \in Step, pc[r] # "idle",
         NEW next \in Step \cup {"done"},
         \/ Refuse(r)
         \/ Owned(r) /\ Remember(r) /\ (Goto(r, next) \/ (next = "done" /\ Answer(r, "VALIDATION"))),
         UNCHANGED <<stores, req, held>>,
         req[r] \in Command,
         \A row \in Row : ShapeAt(r, next, req[r], row),
         \A row \in Row \cup {None} : ShapeAt(r, "done", req[r], row)
  PROVE  TypeInv'
<1> USE DEF TypeInv, TypeOK
<1>1. StoresTypeOK'
  BY DEF stores, StoresTypeOK
<1>2. CASE Refuse(r)
  <2>1. "FILE_NOT_FOUND" \in Code /\ "FORBIDDEN" \in Code
    BY DEF Code
  <2>2. PICK code \in Code : Answer(r, code) /\ UNCHANGED seen
    BY <1>2, <2>1 DEF Refuse
  <2>3. seen[r] \in Row \cup {None}
    BY DEF FlowTypeOK
  <2>4. FlowTypeOK' /\ \A s \in Request : Shape(s)'
    BY <2>2, <2>3, CallKeepsShape
  <2> QED BY <1>1, <2>4
<1>3. CASE Owned(r) /\ Remember(r) /\ (Goto(r, next) \/ (next = "done" /\ Answer(r, "VALIDATION")))
  <2>1. req[r].file \in FileId
    BY DEF Command
  <2>2. files[req[r].file] \in Row
    BY <1>3, <2>1 DEF Owned, StoresTypeOK
  <2>3. /\ req' = [req EXCEPT ![r] = req'[r]] /\ req'[r] = req[r]
        /\ seen' = [seen EXCEPT ![r] = seen'[r]] /\ seen'[r] \in Row
        /\ held' = [held EXCEPT ![r] = held'[r]] /\ held'[r] \in Row \cup Link \cup {None}
    BY <1>3, <2>2 DEF Remember, FlowTypeOK
  <2>4. Moves(r, {next})
    <3>1. "VALIDATION" \in Code
      BY DEF Code
    <3> QED BY <1>3, <3>1, GotoMoves, AnswerMoves
  <2>5. \A p \in {next} : ShapeAt(r, p, req'[r], seen'[r])
    BY <2>3
  <2>6. FlowTypeOK' /\ \A s \in Request : Shape(s)'
    BY <2>3, <2>4, <2>5, MoveKeepsShape
  <2> QED BY <1>1, <2>6
<1> QED BY <1>2, <1>3

LEMMA DeleteKeepsTypes ==
  ASSUME TypeInv, NEW r \in Request, DeleteStep(r)
  PROVE  TypeInv'
<1> USE DEF TypeInv, TypeOK
<1>1. pc[r] \in DeleteSteps
  BY DEF DeleteStep, DeleteFind, DeleteAudit, DeleteDrop, DeleteUnlink, DeleteSteps
<1>2. /\ req[r] \in Command /\ req[r].op = "delete" /\ req[r].user \in User
      /\ req[r].file \in FileId
  BY <1>1 DEF Shape, ShapeAt, DeleteSteps, Command
<1>3. pc[r] \in Step /\ DeleteSteps \subseteq Step /\ "ok" \in Code
  BY <1>1 DEF DeleteSteps, Step, DatabaseStep, StorageStep, Code
<1>4. \A p \in DeleteSteps \cup {"done"}, row \in Row : ShapeAt(r, p, req[r], row)
  BY <1>2 DEF ShapeAt, UploadSteps, DeleteSteps, RenameSteps, Holding
<1>5. \A row \in Row \cup {None} : ShapeAt(r, "done", req[r], row)
  BY <1>2 DEF ShapeAt, UploadSteps, DeleteSteps, RenameSteps, Holding
<1>6. pc[r] # "delete.find" => seen[r] \in Row
  BY <1>1 DEF Shape, ShapeAt, DeleteSteps, Holding
<1>7. CASE DeleteFind(r)
  <2>1. "delete.audit" \in DeleteSteps
    BY DEF DeleteSteps
  <2>2. \/ Refuse(r)
        \/ Owned(r) /\ Remember(r) /\ Goto(r, "delete.audit")
    BY <1>7 DEF DeleteFind, GetOwned
  <2>3. pc[r] # "idle" /\ UNCHANGED <<stores, req, held>>
    BY <1>7 DEF DeleteFind
  <2> QED BY <1>2, <1>3, <1>4, <1>5, <2>1, <2>2, <2>3, FindKeepsShape
<1>8. CASE DeleteAudit(r)
  <2>1. /\ pc[r] = "delete.audit" /\ UNCHANGED <<files, links, blobs, req, seen, held>>
        /\ Goto(r, "delete.drop") \/ AttemptFails(r)
    BY <1>8 DEF DeleteAudit, Unacked
  <2>2. seen[r] \in Row /\ seen[r].name \in Name
    BY <1>6, <2>1 DEF Row
  <2>3. FlowTypeOK' /\ \A s \in Request : Shape(s)'
    <3>1. "delete.drop" \in DeleteSteps
      BY DEF DeleteSteps
    <3> QED BY <1>3, <1>4, <2>1, <2>2, <3>1, CallKeepsShape
  <2>4. [EventOf(r, "file_deleted") EXCEPT !.name = seen[r].name] \in Event
    <3>1. tries[r] \in Nat
      BY AttemptsArePositive DEF FlowTypeOK
    <3> QED BY <1>2, <2>2, <3>1 DEF EventOf, Event, EventType
  <2>5. StoresTypeOK'
    BY <1>8, <2>1, <2>4 DEF DeleteAudit, InsertEvent, StoresTypeOK
  <2> QED BY <2>3, <2>5
<1>9. CASE DeleteDrop(r)
  <2>1. /\ pc[r] = "delete.drop" /\ UNCHANGED <<audit, blobs, req, seen, held>>
        /\ Goto(r, "delete.unlink") \/ AttemptFails(r)
    BY <1>9 DEF DeleteDrop, Unacked
  <2>2. FlowTypeOK' /\ \A s \in Request : Shape(s)'
    <3>1. "delete.unlink" \in DeleteSteps
      BY DEF DeleteSteps
    <3>2. seen[r] \in Row
      BY <1>6, <2>1
    <3> QED BY <1>3, <1>4, <2>1, <3>1, <3>2, CallKeepsShape
  <2>3. StoresTypeOK'
    BY <1>2, <1>9, <2>1 DEF DeleteDrop, DeleteRow, StoresTypeOK
  <2> QED BY <2>2, <2>3
<1>10. CASE DeleteUnlink(r)
  <2>1. /\ pc[r] = "delete.unlink" /\ UNCHANGED <<files, links, audit, req, seen, held>>
        /\ Answer(r, "ok") \/ AttemptFails(r)
    BY <1>10 DEF DeleteUnlink, Unacked
  <2>2. FlowTypeOK' /\ \A s \in Request : Shape(s)'
    <3>1. seen[r] \in Row
      BY <1>6, <2>1
    <3> QED BY <1>3, <1>4, <2>1, <3>1, CallKeepsShape
  <2>3. StoresTypeOK'
    BY <1>2, <1>10, <2>1 DEF DeleteUnlink, RemoveBlob, BlobState, StoresTypeOK
  <2> QED BY <2>2, <2>3
<1> QED BY <1>7, <1>8, <1>9, <1>10 DEF DeleteStep

LEMMA RenameKeepsTypes ==
  ASSUME TypeInv, NEW r \in Request, RenameStep(r)
  PROVE  TypeInv'
<1> USE DEF TypeInv, TypeOK
<1>1. pc[r] \in RenameSteps
  BY DEF RenameStep, RenameFind, RenameUpdate, RenameAudit, RenameSteps
<1>2. /\ req[r] \in Command /\ req[r].op = "rename" /\ req[r].user \in User
      /\ req[r].arg \in Name \cup {None} /\ req[r].file \in FileId
  BY <1>1 DEF Shape, ShapeAt, RenameSteps, Command
<1>3. pc[r] \in Step /\ RenameSteps \subseteq Step /\ {"ok", "INTERNAL"} \subseteq Code
  BY <1>1 DEF RenameSteps, Step, DatabaseStep, StorageStep, Code
<1>4. \A row \in Row \cup {None} : ShapeAt(r, "done", req[r], row)
  BY <1>2 DEF ShapeAt, UploadSteps, DeleteSteps, RenameSteps, Holding
<1>5. CASE RenameFind(r)
  <2>1. pc[r] # "idle" /\ UNCHANGED <<stores, req, held>>
    BY <1>5 DEF RenameFind
  <2>2. CASE req[r].arg = None
    <3>1. \/ Refuse(r)
          \/ Owned(r) /\ Remember(r) /\ Answer(r, "VALIDATION")
      BY <1>5, <2>2 DEF RenameFind
    <3> QED BY <1>2, <1>3, <1>4, <2>1, <3>1, FindKeepsShape
  <2>3. CASE req[r].arg # None
    <3>1. \/ Refuse(r)
          \/ Owned(r) /\ Remember(r) /\ Goto(r, "rename.update")
      BY <1>5, <2>3 DEF RenameFind
    <3>2. \A row \in Row : ShapeAt(r, "rename.update", req[r], row)
      BY <1>2, <2>3 DEF ShapeAt, UploadSteps, DeleteSteps, RenameSteps, Holding
    <3>3. "rename.update" \in Step
      BY <1>3 DEF RenameSteps
    <3> QED BY <1>2, <1>3, <1>4, <2>1, <3>1, <3>2, <3>3, FindKeepsShape
  <2> QED BY <2>2, <2>3
<1>6. ASSUME pc[r] # "rename.find"
      PROVE  seen[r] \in Row /\ req[r].arg \in Name
  BY <1>1, <1>6 DEF Shape, ShapeAt, RenameSteps, Holding
<1>7. CASE RenameUpdate(r)
  <2>1. /\ pc[r] = "rename.update" /\ UNCHANGED <<links, audit, blobs, req, seen>>
        /\ RenameRow(req[r].file, req[r].arg)
    BY <1>7 DEF RenameUpdate
  <2>2. seen[r] \in Row /\ req[r].arg \in Name
    BY <1>6, <2>1
  <2>3. files' \in [FileId -> Row \cup {None}]
    <3>1. CASE files[req[r].file] = None
      BY <2>1, <3>1 DEF RenameRow, StoresTypeOK
    <3>2. CASE files[req[r].file] # None
      <4>1. files[req[r].file] \in Row
        BY <1>2, <3>2 DEF StoresTypeOK
      <4>2. [files[req[r].file] EXCEPT !.name = req[r].arg] \in Row
        BY <2>2, <4>1 DEF Row
      <4>3. files' = [files EXCEPT ![req[r].file] = [files[req[r].file] EXCEPT !.name = req[r].arg]]
        BY <2>1, <3>2 DEF RenameRow
      <4> QED BY <4>2, <4>3 DEF StoresTypeOK
    <3> QED BY <3>1, <3>2
  <2>4. StoresTypeOK'
    BY <2>1, <2>3 DEF StoresTypeOK
  <2>5. FlowTypeOK' /\ \A s \in Request : Shape(s)'
    <3>1. ShapeAt(r, "rename.audit", req[r], seen[r])
      BY <1>2, <2>2 DEF ShapeAt, UploadSteps, DeleteSteps, RenameSteps, Holding
    <3>2. "rename.audit" \in Step
      BY <1>3 DEF RenameSteps
    <3>3. CASE Goto(r, "rename.audit") /\ held' = [held EXCEPT ![r] = files'[req[r].file]]
      <4>1. /\ req' = [req EXCEPT ![r] = req'[r]] /\ req'[r] = req[r]
            /\ seen' = [seen EXCEPT ![r] = seen'[r]] /\ seen'[r] = seen[r]
            /\ held' = [held EXCEPT ![r] = held'[r]] /\ held'[r] = files'[req[r].file]
        BY <2>1, <3>3 DEF FlowTypeOK
      <4>2. held'[r] \in Row \cup Link \cup {None} /\ seen[r] \in Row \cup {None}
        BY <1>2, <2>2, <2>3, <4>1
      <4>3. Moves(r, {"rename.audit"})
        BY <3>3, GotoMoves
      <4>4. \A p \in {"rename.audit"} : ShapeAt(r, p, req'[r], seen'[r])
        BY <3>1, <4>1
      <4> QED BY <1>2, <3>2, <4>1, <4>2, <4>3, <4>4, MoveKeepsShape
    <3>4. CASE AttemptFails(r) /\ UNCHANGED held
      BY <1>3, <2>1, <3>1, <3>2, <3>4, CallKeepsShape
    <3> QED BY <1>7, <3>3, <3>4 DEF RenameUpdate, Unacked
  <2> QED BY <2>4, <2>5
<1>8. CASE RenameAudit(r)
  <2>1. /\ pc[r] = "rename.audit" /\ UNCHANGED <<files, links, blobs, req, seen, held>>
        /\ InsertEvent([EventOf(r, "file_renamed")
                          EXCEPT !.name = req[r].arg, !.was = seen[r].name])
    BY <1>8 DEF RenameAudit
  <2>2. seen[r] \in Row /\ seen[r].name \in Name /\ req[r].arg \in Name
    BY <1>6, <2>1 DEF Row
  <2>3. PICK code \in Code : Answer(r, code) \/ AttemptFails(r)
    BY <1>3, <1>8 DEF RenameAudit, Unacked
  <2>4. FlowTypeOK' /\ \A s \in Request : Shape(s)'
    BY <1>3, <1>4, <2>1, <2>2, <2>3, CallKeepsShape
  <2>5. [EventOf(r, "file_renamed") EXCEPT !.name = req[r].arg, !.was = seen[r].name] \in Event
    <3>1. tries[r] \in Nat
      BY AttemptsArePositive DEF FlowTypeOK
    <3> QED BY <1>2, <2>2, <3>1 DEF EventOf, Event, EventType
  <2>6. StoresTypeOK'
    BY <2>1, <2>5 DEF InsertEvent, StoresTypeOK
  <2> QED BY <2>4, <2>6
<1> QED BY <1>5, <1>7, <1>8 DEF RenameStep

LEMMA FailureKeepsTypes ==
  ASSUME TypeInv, NEW r \in Request, Fault(r) \/ Crash(r)
  PROVE  TypeInv'
<1> USE DEF TypeInv, TypeOK
<1>1. UNCHANGED <<stores, req, seen, held>> /\ pc[r] \in Step
  BY DEF Fault, Crash, Step, Active, FlowTypeOK
<1>2. StoresTypeOK'
  BY <1>1 DEF stores, StoresTypeOK
<1>3. PICK code \in Code : AttemptFails(r) \/ Answer(r, code)
  BY DEF Code, Fault, Crash
<1>4. ShapeAt(r, "done", req[r], seen[r])
  BY <1>1, FailKeepsShape DEF FailTargets
<1>5. FlowTypeOK' /\ \A s \in Request : Shape(s)'
  BY <1>1, <1>3, <1>4, CallKeepsShape
<1> QED BY <1>2, <1>5

\* Every step of every request keeps the invariant.
LEMMA NextKeepsTypes == TypeInv /\ [Next]_vars => TypeInv'
<1> SUFFICES ASSUME TypeInv, [Next]_vars PROVE TypeInv'
  OBVIOUS
<1>1. CASE UNCHANGED vars
  BY <1>1 DEF vars, stores, flow, TypeInv, TypeOK, StoresTypeOK, FlowTypeOK, Shape
<1>2. CASE Next
  <2>1. PICK r \in Request : FileNext(r)
    BY <1>2 DEF Next
  <2>2. CASE ReceiveFileOp(r)
    BY <2>2, ReceiveKeepsTypes
  <2>3. CASE UploadStep(r)
    BY <2>3, UploadKeepsTypes
  <2>4. CASE DeleteStep(r)
    BY <2>4, DeleteKeepsTypes
  <2>5. CASE RenameStep(r)
    BY <2>5, RenameKeepsTypes
  <2>6. CASE Fault(r) \/ Crash(r)
    BY <2>6, FailureKeepsTypes
  <2> QED BY <2>1, <2>2, <2>3, <2>4, <2>5, <2>6 DEF FileNext, FileStep
<1> QED BY <1>1, <1>2

LEMMA TypeInvHolds == Spec => []TypeInv
<1> QED BY InitTypeInv, NextKeepsTypes, PTL DEF Spec

\* Type correctness: whatever fails, the tables hold only rows of their type,
\* and every request is at a step of its service with the attempt in bounds.
THEOREM FilesTypeCorrect == Spec => []TypeOK
<1>1. TypeInv => TypeOK
  BY DEF TypeInv
<1> QED BY <1>1, TypeInvHolds, PTL

----------------------------------------------------------------------------
(* What holds between the files table and the blob storage.  The theorems  *)
(* here assume that a statement whose attempt failed had no effect         *)
(* ("unacked" is not among the faults): with lost acknowledgements they    *)
(* are false, and TLC shows how.                                           *)

\* The upload that drew the id f is over, or happened before the behaviour.
Settled(f) == f \in Request => pc[f] \notin {"idle"} \cup UploadSteps

\* The request has dropped the row of its file.
Dropped(r) == pc[r] = "delete.unlink" \/ (resp[r] = "ok" /\ req[r].op = "delete")

\* A request that is not answered yet is at a step of one of the services.
Answers ==
  \A r \in Request :
    /\ pc[r] \in {"idle", "done"} \cup UploadSteps \cup DeleteSteps \cup RenameSteps
    /\ pc[r] # "done" => resp[r] = "none"

\* Nobody but the upload touches a file whose upload is not over.
UploadIsAlone ==
  /\ \A f \in FileId : files[f] # None => Settled(f)
  /\ \A r \in Request : pc[r] \in Holding \/ Dropped(r) => Settled(req[r].file)

\* The upload inserts its row only over stored bytes.
BlobBeforeRow == \A r \in Request : pc[r] = "upload.insert" => blobs[r] = "whole"

\* A row that is gone stays gone.
DroppedStaysDropped == \A r \in Request : Dropped(r) => files[req[r].file] = None

StoresInv ==
  /\ TypeInv
  /\ Answers
  /\ UploadIsAlone
  /\ BlobBeforeRow
  /\ DroppedStaysDropped
  /\ RowHasBlob
  /\ DeleteIsFinal
  /\ FailedUploadLeavesNothing

LEMMA InitStoresInv == Init => StoresInv
<1> SUFFICES ASSUME Init PROVE StoresInv
  OBVIOUS
<1>1. TypeInv
  BY InitTypeInv
<1>2. \A r \in Request : req[r] = None /\ pc[r] = "idle" /\ resp[r] = "none"
  BY DEF Init, FlowInit
<1>3. \A f \in FileId : files[f] # None => f \notin Request /\ blobs[f] = "whole"
  BY DEF Init, StoresInit
<1> QED BY <1>1, <1>2, <1>3 DEF StoresInv, Answers, UploadIsAlone, BlobBeforeRow,
           DroppedStaysDropped, RowHasBlob, DeleteIsFinal, FailedUploadLeavesNothing,
           Uploads, Settled, Dropped, Holding, UploadSteps

----------------------------------------------------------------------------
(* What a move does to the step and the answer of the request.             *)

LEMMA GotoResult ==
  ASSUME TypeInv, NEW r \in Request, NEW step, Goto(r, step)
  PROVE  /\ pc'[r] = step /\ resp' = resp
         /\ \A s \in Request \ {r} : pc'[s] = pc[s]
BY DEF Goto, TypeInv, TypeOK, FlowTypeOK

LEMMA AnswerResult ==
  ASSUME TypeInv, NEW r \in Request, NEW code, Answer(r, code)
  PROVE  /\ pc'[r] = "done" /\ resp'[r] = code
         /\ \A s \in Request \ {r} : pc'[s] = pc[s] /\ resp'[s] = resp[s]
BY DEF Answer, TypeInv, TypeOK, FlowTypeOK

\* Only an upload at its insert goes on after a failure, to its catch block.
LEMMA FailResult ==
  ASSUME TypeInv, NEW r \in Request, AttemptFails(r)
  PROVE  /\ \A s \in Request \ {r} : pc'[s] = pc[s] /\ resp'[s] = resp[s]
         /\ \/ pc'[r] = pc[r] /\ resp'[r] = resp[r]
            \/ pc[r] = "upload.insert" /\ pc'[r] = "upload.undo" /\ resp'[r] = resp[r]
            \/ /\ pc[r] # "upload.insert" /\ pc'[r] = "done"
               /\ resp'[r] = IF pc[r] \in StorageStep THEN "storage" ELSE "database"
<1>1. CASE Retry(r)
  BY <1>1 DEF Retry
<1>2. CASE Throw(r)
  <2>1. CASE pc[r] = "upload.insert" /\ Goto(r, "upload.undo")
    BY <2>1, GotoResult
  <2>2. CASE /\ pc[r] # "upload.insert"
             /\ Answer(r, IF pc[r] \in StorageStep THEN "storage" ELSE "database")
    BY <2>2, AnswerResult
  <2> QED BY <1>2, <2>1, <2>2 DEF Throw, Layer
<1> QED BY <1>1, <1>2 DEF AttemptFails

----------------------------------------------------------------------------
(* One lemma per service: its steps keep the agreement of the two stores.  *)

LEMMA ReceiveKeepsStores ==
  ASSUME StoresInv, NEW r \in Request, ReceiveFileOp(r)
  PROVE  StoresInv'
<1> USE DEF StoresInv
<1>1. TypeInv'
  BY ReceiveKeepsTypes
<1>2. PICK command \in Command, valid \in BOOLEAN,
           first \in {"upload.save", "delete.find", "rename.find"} :
        Receive(r, command, valid, first)
  <2>1. \A user \in User, f \in FileId, n \in Name \cup {None} :
          /\ [op |-> "upload", user |-> user, file |-> f, arg |-> n, exp |-> 0] \in Command
          /\ [op |-> "delete", user |-> user, file |-> f, arg |-> n, exp |-> 0] \in Command
          /\ [op |-> "rename", user |-> user, file |-> f, arg |-> n, exp |-> 0] \in Command
    BY DEF Command, Op
  <2>2. r \in FileId /\ DrawnIds \subseteq FileId
    BY DEF FileId, DrawnIds
  <2>3. ASSUME ReceiveUpload(r) PROVE \E c \in Command, v \in BOOLEAN : Receive(r, c, v, "upload.save")
    BY <2>1, <2>2, <2>3 DEF ReceiveUpload
  <2>4. ASSUME ReceiveDelete(r) PROVE \E c \in Command, v \in BOOLEAN : Receive(r, c, v, "delete.find")
    BY <2>1, <2>2, <2>4 DEF ReceiveDelete
  <2>5. ASSUME ReceiveRename(r) PROVE \E c \in Command, v \in BOOLEAN : Receive(r, c, v, "rename.find")
    BY <2>1, <2>2, <2>5 DEF ReceiveRename
  <2> QED BY <2>3, <2>4, <2>5 DEF ReceiveFileOp
<1>3. /\ pc[r] = "idle" /\ UNCHANGED stores
      /\ pc'[r] \in {first, "done"}
      /\ pc'[r] # "done" => resp'[r] = "none"
      /\ resp'[r] \in {"none", "VALIDATION"}
      /\ \A s \in Request \ {r} : pc'[s] = pc[s] /\ resp'[s] = resp[s] /\ req'[s] = req[s]
  <2>1. resp[r] = "none" /\ pc[r] = "idle"
    BY <1>2 DEF Receive, Answers
  <2>2. CASE valid
    BY <1>2, <2>1, <2>2, GotoResult DEF Receive, TypeInv, TypeOK, FlowTypeOK
  <2>3. CASE ~valid
    BY <1>2, <2>1, <2>3, AnswerResult DEF Receive, TypeInv, TypeOK, FlowTypeOK
  <2> QED BY <2>2, <2>3
<1>4. Answers'
  BY <1>3 DEF Answers, UploadSteps, DeleteSteps, RenameSteps
<1>5. files[r] = None /\ \A s \in Request : pc[s] \in Holding \/ Dropped(s) => req[s].file # r
  BY <1>3 DEF UploadIsAlone, Settled, FileId
<1>6. ~Dropped(r)' /\ pc'[r] \notin Holding
  BY <1>3 DEF Dropped, Holding
<1>7. \A s \in Request : Dropped(s)' => s # r /\ Dropped(s)
  BY <1>3, <1>6 DEF Dropped
<1>8. UploadIsAlone'
  BY <1>3, <1>5, <1>6, <1>7 DEF UploadIsAlone, Settled, stores, Holding
<1>9. BlobBeforeRow'
  BY <1>3 DEF BlobBeforeRow, stores
<1>10. DroppedStaysDropped'
  BY <1>3, <1>7 DEF DroppedStaysDropped, stores
<1>11. RowHasBlob'
  BY <1>3 DEF RowHasBlob, stores
<1>12. DeleteIsFinal' /\ FailedUploadLeavesNothing'
  BY <1>3 DEF DeleteIsFinal, FailedUploadLeavesNothing, Uploads, stores
<1> QED BY <1>1, <1>4, <1>8, <1>9, <1>10, <1>11, <1>12

LEMMA UploadKeepsStores ==
  ASSUME StoresInv, "unacked" \notin Faults, NEW r \in Request, UploadStep(r)
  PROVE  StoresInv'
<1> USE DEF StoresInv
<1>1. TypeInv'
  BY UploadKeepsTypes
<1>2. /\ pc[r] \in UploadSteps /\ r \in FileId
      /\ req' = req /\ req[r].op = "upload" /\ req[r].file = r
      /\ req[r].user \in User /\ req[r].arg \in Name
      /\ resp[r] = "none"
  <2>1. pc[r] \in UploadSteps /\ req' = req
    BY DEF UploadStep, UploadSave, UploadSaveTorn, UploadInsert, UploadUndo, UploadSteps
  <2>2. pc[r] \notin {"idle", "done"}
    BY <2>1 DEF UploadSteps
  <2> QED BY <2>1, <2>2 DEF TypeInv, Shape, ShapeAt, Answers, FileId
\* Until the upload is over its id is nobody else's.
<1>3. /\ files[r] = None
      /\ \A s \in Request : pc[s] \in Holding \/ Dropped(s) => req[s].file # r /\ s # r
  BY <1>2 DEF UploadIsAlone, Settled, Dropped, Holding, UploadSteps
<1>4. CASE UploadSave(r) \/ UploadSaveTorn(r)
  <2>1. /\ pc[r] = "upload.save" /\ files' = files
        /\ \E state \in BlobState : blobs' = [blobs EXCEPT ![r] = state]
    BY <1>4 DEF UploadSave, UploadSaveTorn, WriteBlob, BlobState
  <2>2. /\ \A s \in Request \ {r} : pc'[s] = pc[s] /\ resp'[s] = resp[s]
        /\ \/ pc'[r] = "upload.insert" /\ resp'[r] = "none" /\ blobs'[r] = "whole"
           \/ pc'[r] = "upload.save" /\ resp'[r] = "none"
           \/ pc'[r] = "done" /\ resp'[r] = "storage"
    <3>1. CASE UploadSave(r)
      BY <1>2, <3>1, GotoResult DEF UploadSave, Unacked, WriteBlob, TypeInv, TypeOK, StoresTypeOK
    <3>2. CASE UploadSaveTorn(r)
      BY <1>2, <2>1, <3>2, FailResult DEF UploadSaveTorn, StorageStep
    <3> QED BY <1>4, <3>1, <3>2
  <2>3. \A f \in FileId \ {r} : blobs'[f] = blobs[f]
    BY <2>1 DEF TypeInv, TypeOK, StoresTypeOK
  <2>4. Answers'
    BY <2>2 DEF Answers, UploadSteps
  <2>5. \A s \in Request : Dropped(s)' => s # r /\ Dropped(s)
    BY <1>2, <2>2 DEF Dropped
  <2>6. UploadIsAlone'
    BY <1>2, <1>3, <2>1, <2>2, <2>5 DEF UploadIsAlone, Settled, Holding
  <2>7. BlobBeforeRow'
    BY <2>2, <2>3 DEF BlobBeforeRow, FileId
  <2>8. DroppedStaysDropped'
    BY <1>2, <2>1, <2>5 DEF DroppedStaysDropped
  <2>9. RowHasBlob'
    BY <1>3, <2>1, <2>3 DEF RowHasBlob
  <2>10. DeleteIsFinal'
    <3> SUFFICES ASSUME NEW s \in Request, resp'[s] = "ok", req[s].op = "delete"
                 PROVE  files[req[s].file] = None /\ blobs'[req[s].file] = "absent"
      BY <1>2, <2>1 DEF DeleteIsFinal
    <3>1. s # r /\ resp[s] = "ok"
      BY <1>2, <2>2
    <3>2. Dropped(s) /\ req[s].file # r
      BY <1>3, <3>1 DEF Dropped
    <3>3. req[s].file \in FileId
      BY <3>1 DEF TypeInv, Shape, ShapeAt, Answers, Command
    <3> QED BY <2>3, <3>1, <3>2, <3>3 DEF DeleteIsFinal
  <2>11. FailedUploadLeavesNothing'
    BY <1>2, <2>1, <2>2, <2>3 DEF FailedUploadLeavesNothing, Uploads, FileId
  <2> QED BY <1>1, <2>4, <2>6, <2>7, <2>8, <2>9, <2>10, <2>11
<1>5. CASE UploadInsert(r)
  <2>1. /\ pc[r] = "upload.insert" /\ blobs' = blobs
        /\ InsertRow(r, [user |-> req[r].user, name |-> req[r].arg])
        /\ Answer(r, "ok")
    BY <1>3, <1>5 DEF UploadInsert, CanInsertRow, Unacked
  <2>2. /\ \A s \in Request \ {r} : pc'[s] = pc[s] /\ resp'[s] = resp[s]
        /\ pc'[r] = "done" /\ resp'[r] = "ok"
    BY <2>1, AnswerResult
  <2>3. \A f \in FileId \ {r} : files'[f] = files[f]
    BY <2>1 DEF InsertRow, TypeInv, TypeOK, StoresTypeOK
  <2>4. Answers'
    BY <2>2 DEF Answers, UploadSteps
  <2>5. \A s \in Request : Dropped(s)' => s # r /\ Dropped(s) /\ req[s].file # r
    BY <1>2, <1>3, <2>2 DEF Dropped
  <2>6. UploadIsAlone'
    BY <1>2, <2>2, <2>3, <2>5 DEF UploadIsAlone, Settled, Holding, UploadSteps
  <2>7. BlobBeforeRow'
    BY <2>1, <2>2 DEF BlobBeforeRow
  <2>8. \A s \in Request : Dropped(s) => req[s].file \in FileId
    BY DEF TypeInv, Shape, ShapeAt, Answers, Command, Dropped
  <2>9. DroppedStaysDropped'
    BY <1>2, <2>3, <2>5, <2>8 DEF DroppedStaysDropped
  <2>10. RowHasBlob'
    BY <2>1, <2>3 DEF RowHasBlob, BlobBeforeRow
  <2>11. DeleteIsFinal'
    BY <1>2, <2>1, <2>2, <2>3, <2>5, <2>8 DEF DeleteIsFinal, Dropped
  <2>12. FailedUploadLeavesNothing'
    BY <1>2, <2>1, <2>2, <2>3 DEF FailedUploadLeavesNothing, Uploads, FileId
  <2> QED BY <1>1, <2>4, <2>6, <2>7, <2>9, <2>10, <2>11, <2>12
<1>6. CASE UploadUndo(r)
  <2>1. /\ pc[r] = "upload.undo" /\ files' = files
        /\ RemoveBlob(r) /\ Answer(r, "database")
    BY <1>6 DEF UploadUndo, Unacked
  <2>2. /\ \A s \in Request \ {r} : pc'[s] = pc[s] /\ resp'[s] = resp[s]
        /\ pc'[r] = "done" /\ resp'[r] = "database"
    BY <2>1, AnswerResult
  <2>3. blobs'[r] = "absent" /\ \A f \in FileId \ {r} : blobs'[f] = blobs[f]
    BY <1>2, <2>1 DEF RemoveBlob, TypeInv, TypeOK, StoresTypeOK
  <2>4. Answers'
    BY <2>2 DEF Answers, UploadSteps
  <2>5. \A s \in Request : Dropped(s)' => s # r /\ Dropped(s)
    BY <1>2, <2>2 DEF Dropped
  <2>6. UploadIsAlone'
    BY <1>2, <1>3, <2>1, <2>2, <2>5 DEF UploadIsAlone, Settled, Holding
  <2>7. BlobBeforeRow'
    BY <2>2, <2>3 DEF BlobBeforeRow, FileId
  <2>8. DroppedStaysDropped'
    BY <1>2, <2>1, <2>5 DEF DroppedStaysDropped
  <2>9. RowHasBlob'
    BY <1>3, <2>1, <2>3 DEF RowHasBlob
  <2>10. DeleteIsFinal'
    <3> SUFFICES ASSUME NEW s \in Request, resp'[s] = "ok", req[s].op = "delete"
                 PROVE  files[req[s].file] = None /\ blobs'[req[s].file] = "absent"
      BY <1>2, <2>1 DEF DeleteIsFinal
    <3>1. s # r /\ resp[s] = "ok"
      BY <1>2, <2>2
    <3>2. Dropped(s) /\ req[s].file # r
      BY <1>3, <3>1 DEF Dropped
    <3>3. req[s].file \in FileId
      BY <3>1 DEF TypeInv, Shape, ShapeAt, Answers, Command
    <3> QED BY <2>3, <3>1, <3>2, <3>3 DEF DeleteIsFinal
  <2>11. FailedUploadLeavesNothing'
    BY <1>2, <1>3, <2>1, <2>2, <2>3 DEF FailedUploadLeavesNothing, Uploads, FileId
  <2> QED BY <1>1, <2>4, <2>6, <2>7, <2>8, <2>9, <2>10, <2>11
<1> QED BY <1>4, <1>5, <1>6 DEF UploadStep

LEMMA DeleteKeepsStores ==
  ASSUME StoresInv, "unacked" \notin Faults, NEW r \in Request, DeleteStep(r)
  PROVE  StoresInv'
<1> USE DEF StoresInv
<1>1. TypeInv'
  BY DeleteKeepsTypes
<1>2. /\ pc[r] \in DeleteSteps /\ req' = req /\ req[r].op = "delete"
      /\ req[r].file \in FileId /\ resp[r] = "none"
  <2>1. pc[r] \in DeleteSteps /\ req' = req
    BY DEF DeleteStep, DeleteFind, DeleteAudit, DeleteDrop, DeleteUnlink, DeleteSteps
  <2>2. pc[r] \notin {"idle", "done"}
    BY <2>1 DEF DeleteSteps
  <2> QED BY <2>1, <2>2 DEF TypeInv, Shape, ShapeAt, Answers, Command
<1>3. ~Settled(req[r].file) => pc[r] = "delete.find"
  BY <1>2 DEF UploadIsAlone, DeleteSteps, Holding
\* Every step moves the request on, and only past its find for a row.
<1>4. /\ \A s \in Request \ {r} : pc'[s] = pc[s] /\ resp'[s] = resp[s]
      /\ pc'[r] \in DeleteSteps \cup {"done"}
      /\ pc'[r] # "done" => resp'[r] = "none"
      /\ pc'[r] \in Holding => Settled(req[r].file)
      /\ Dropped(r)' => Settled(req[r].file) /\ pc[r] \in {"delete.drop", "delete.unlink"}
      /\ resp'[r] = "ok" => pc[r] = "delete.unlink"
      /\ blobs' # blobs => pc[r] = "delete.unlink"
      /\ files' # files => pc[r] = "delete.drop"
  <2>1. CASE DeleteFind(r)
    <3>1. CASE Refuse(r)
      BY <1>2, <2>1, <3>1, AnswerResult DEF Refuse, DeleteFind, stores, Dropped, DeleteSteps, Holding
    <3>2. CASE Owned(r) /\ Goto(r, "delete.audit")
      <4>1. Settled(req[r].file)
        BY <1>2, <3>2 DEF Owned, UploadIsAlone
      <4> QED BY <1>2, <2>1, <3>2, <4>1, GotoResult
              DEF DeleteFind, stores, Dropped, DeleteSteps, Holding
    <3> QED BY <2>1, <3>1, <3>2 DEF DeleteFind, GetOwned
  <2>2. CASE DeleteAudit(r)
    BY <1>2, <1>3, <2>2, GotoResult DEF DeleteAudit, Unacked, Dropped, DeleteSteps, Holding
  <2>3. CASE DeleteDrop(r)
    BY <1>2, <1>3, <2>3, GotoResult DEF DeleteDrop, Unacked, Dropped, DeleteSteps, Holding
  <2>4. CASE DeleteUnlink(r)
    BY <1>2, <1>3, <2>4, AnswerResult DEF DeleteUnlink, Unacked, Dropped, DeleteSteps, Holding
  <2> QED BY <2>1, <2>2, <2>3, <2>4 DEF DeleteStep
\* The stores only lose what is the request's own file.
<1>5. \A f \in FileId : files'[f] # files[f] => files'[f] = None /\ f = req[r].file
  <2>1. CASE pc[r] = "delete.drop"
    <3>1. DeleteDrop(r)
      BY <2>1 DEF DeleteStep, DeleteFind, DeleteAudit, DeleteDrop, DeleteUnlink
    <3> QED BY <1>2, <3>1 DEF DeleteDrop, DeleteRow, TypeInv, TypeOK, StoresTypeOK
  <2> QED BY <1>4, <2>1
<1>6. \A f \in FileId : blobs'[f] # blobs[f] => blobs'[f] = "absent" /\ f = req[r].file
  <2>1. CASE pc[r] = "delete.unlink"
    <3>1. DeleteUnlink(r)
      BY <2>1 DEF DeleteStep, DeleteFind, DeleteAudit, DeleteDrop, DeleteUnlink
    <3> QED BY <1>2, <3>1 DEF DeleteUnlink, RemoveBlob, TypeInv, TypeOK, StoresTypeOK
  <2> QED BY <1>4, <2>1
<1>7. pc[r] = "delete.drop" => files'[req[r].file] = None
  <2> SUFFICES ASSUME pc[r] = "delete.drop" PROVE files'[req[r].file] = None
    OBVIOUS
  <2>1. DeleteDrop(r)
    BY DEF DeleteStep, DeleteFind, DeleteAudit, DeleteDrop, DeleteUnlink
  <2> QED BY <1>2, <2>1 DEF DeleteDrop, DeleteRow, TypeInv, TypeOK, StoresTypeOK
<1>8. pc[r] = "delete.unlink" => /\ files[req[r].file] = None
                                /\ files'[req[r].file] = None
                                /\ blobs'[req[r].file] = "absent"
                                /\ Settled(req[r].file)
  <2> SUFFICES ASSUME pc[r] = "delete.unlink"
               PROVE  /\ files[req[r].file] = None /\ files'[req[r].file] = None
                      /\ blobs'[req[r].file] = "absent" /\ Settled(req[r].file)
    OBVIOUS
  <2>1. DeleteUnlink(r)
    BY DEF DeleteStep, DeleteFind, DeleteAudit, DeleteDrop, DeleteUnlink
  <2>2. files[req[r].file] = None
    BY DEF DroppedStaysDropped, Dropped
  <2> QED BY <1>2, <1>3, <2>1, <2>2
          DEF DeleteUnlink, RemoveBlob, TypeInv, TypeOK, StoresTypeOK
<1>9. Answers'
  BY <1>4 DEF Answers
<1>10. \A f \in FileId : Settled(f) => Settled(f)'
  BY <1>2, <1>4 DEF Settled, DeleteSteps, UploadSteps
<1>11. \A s \in Request : s # r => (Dropped(s)' <=> Dropped(s))
  BY <1>2, <1>4 DEF Dropped
<1>12. \A s \in Request : pc[s] \in Holding \/ Dropped(s) => req[s].file \in FileId
  BY DEF TypeInv, Shape, ShapeAt, Answers, Command, Dropped, Holding
<1>13. UploadIsAlone'
  BY <1>2, <1>4, <1>5, <1>10, <1>11, <1>12 DEF UploadIsAlone
<1>14. BlobBeforeRow'
  <2> SUFFICES ASSUME NEW s \in Request, pc'[s] = "upload.insert"
               PROVE  blobs'[s] = "whole"
    BY DEF BlobBeforeRow
  <2>1. s # r /\ pc[s] = "upload.insert" /\ s \in FileId
    BY <1>4 DEF DeleteSteps, FileId
  <2>2. ~Settled(s)
    BY <2>1 DEF Settled, UploadSteps
  <2>3. blobs'[s] = blobs[s]
    BY <1>3, <1>4, <1>6, <2>1, <2>2
  <2> QED BY <2>1, <2>3 DEF BlobBeforeRow
<1>15. DroppedStaysDropped'
  <2> SUFFICES ASSUME NEW s \in Request, Dropped(s)'
               PROVE  files'[req[s].file] = None
    BY <1>2 DEF DroppedStaysDropped
  <2>1. CASE s = r
    BY <1>4, <1>7, <1>8, <2>1
  <2>2. CASE s # r
    BY <1>5, <1>11, <1>12, <2>2 DEF DroppedStaysDropped
  <2> QED BY <2>1, <2>2
<1>16. RowHasBlob'
  <2> SUFFICES ASSUME NEW f \in FileId, files'[f] # None PROVE blobs'[f] = "whole"
    BY DEF RowHasBlob
  <2>1. files[f] # None /\ blobs[f] = "whole"
    BY <1>5 DEF RowHasBlob
  <2>2. blobs'[f] = blobs[f]
    BY <1>4, <1>6, <1>8, <2>1
  <2> QED BY <2>1, <2>2
<1>17. DeleteIsFinal'
  <2> SUFFICES ASSUME NEW s \in Request, resp'[s] = "ok", req[s].op = "delete"
               PROVE  files'[req[s].file] = None /\ blobs'[req[s].file] = "absent"
    BY <1>2 DEF DeleteIsFinal
  <2>1. CASE s = r
    BY <1>4, <1>8, <2>1
  <2>2. CASE s # r
    <3>1. resp[s] = "ok" /\ Dropped(s)
      BY <1>4, <2>2 DEF Dropped
    <3> QED BY <1>5, <1>6, <1>12, <3>1 DEF DeleteIsFinal
  <2> QED BY <2>1, <2>2
<1>18. FailedUploadLeavesNothing'
  BY <1>2, <1>4, <1>5, <1>6 DEF FailedUploadLeavesNothing, Uploads, FileId
<1> QED BY <1>1, <1>9, <1>13, <1>14, <1>15, <1>16, <1>17, <1>18

LEMMA RenameKeepsStores ==
  ASSUME StoresInv, "unacked" \notin Faults, NEW r \in Request, RenameStep(r)
  PROVE  StoresInv'
<1> USE DEF StoresInv
<1>1. TypeInv'
  BY RenameKeepsTypes
<1>2. /\ pc[r] \in RenameSteps /\ req' = req /\ req[r].op = "rename"
      /\ req[r].file \in FileId /\ resp[r] = "none" /\ blobs' = blobs
  <2>1. pc[r] \in RenameSteps /\ req' = req /\ blobs' = blobs
    BY DEF RenameStep, RenameFind, RenameUpdate, RenameAudit, RenameSteps, stores
  <2>2. pc[r] \notin {"idle", "done"}
    BY <2>1 DEF RenameSteps
  <2> QED BY <2>1, <2>2 DEF TypeInv, Shape, ShapeAt, Answers, Command
<1>3. /\ \A s \in Request \ {r} : pc'[s] = pc[s] /\ resp'[s] = resp[s]
      /\ pc'[r] \in RenameSteps \cup {"done"}
      /\ pc'[r] # "done" => resp'[r] = "none"
      /\ pc'[r] \in Holding => Settled(req[r].file)
  <2>1. pc[r] # "rename.find" => Settled(req[r].file)
    BY <1>2 DEF UploadIsAlone, RenameSteps, Holding
  <2>2. CASE RenameFind(r)
    <3>1. CASE \E code : Answer(r, code)
      BY <1>2, <3>1, AnswerResult DEF RenameSteps, Holding
    <3>2. CASE Owned(r) /\ Goto(r, "rename.update")
      <4>1. Settled(req[r].file)
        BY <1>2, <3>2 DEF Owned, UploadIsAlone
      <4> QED BY <1>2, <3>2, <4>1, GotoResult DEF RenameSteps, Holding
    <3> QED BY <2>2, <3>1, <3>2 DEF RenameFind, Refuse
  <2>3. CASE RenameUpdate(r)
    BY <1>2, <2>1, <2>3, GotoResult DEF RenameUpdate, Unacked, RenameSteps, Holding
  <2>4. CASE RenameAudit(r)
    BY <1>2, <2>4, AnswerResult DEF RenameAudit, Unacked, RenameSteps, Holding
  <2> QED BY <2>2, <2>3, <2>4 DEF RenameStep
\* The UPDATE creates no row and removes none.
<1>4. \A f \in FileId : files'[f] = None <=> files[f] = None
  <2>1. CASE files' = files
    BY <2>1
  <2>2. CASE files' # files
    <3>1. RenameUpdate(r)
      BY <2>2 DEF RenameStep, RenameFind, RenameAudit, stores
    <3>2. /\ files[req[r].file] \in Row
          /\ files' = [files EXCEPT ![req[r].file] = [files[req[r].file] EXCEPT !.name = req[r].arg]]
      BY <1>2, <2>2, <3>1 DEF RenameUpdate, RenameRow, TypeInv, TypeOK, StoresTypeOK
    <3>3. req[r].arg \in Name
      BY <3>1 DEF RenameUpdate, TypeInv, Shape, ShapeAt
    <3>4. [files[req[r].file] EXCEPT !.name = req[r].arg] \in Row
      BY <3>2, <3>3 DEF Row
    <3>5. files[req[r].file] # None /\ files'[req[r].file] # None
      BY <1>2, <3>2, <3>4, NoneIsNoValue DEF TypeInv, TypeOK, StoresTypeOK
    <3> QED BY <1>2, <3>2, <3>5 DEF TypeInv, TypeOK, StoresTypeOK
  <2> QED BY <2>1, <2>2
<1>5. Answers'
  BY <1>3 DEF Answers
<1>6. \A f \in FileId : Settled(f) => Settled(f)'
  BY <1>2, <1>3 DEF Settled, RenameSteps, UploadSteps
<1>7. \A s \in Request : Dropped(s)' => Dropped(s)
  BY <1>2, <1>3 DEF Dropped, RenameSteps
<1>8. \A s \in Request : pc[s] \in Holding \/ Dropped(s) => req[s].file \in FileId
  BY DEF TypeInv, Shape, ShapeAt, Answers, Command, Dropped, Holding
<1>9. UploadIsAlone'
  BY <1>2, <1>3, <1>4, <1>6, <1>7, <1>8 DEF UploadIsAlone
<1>10. BlobBeforeRow'
  BY <1>2, <1>3 DEF BlobBeforeRow, RenameSteps
<1>11. DroppedStaysDropped'
  BY <1>2, <1>4, <1>7, <1>8 DEF DroppedStaysDropped
<1>12. RowHasBlob'
  BY <1>2, <1>4 DEF RowHasBlob
<1>13. DeleteIsFinal'
  BY <1>2, <1>3, <1>4, <1>8 DEF DeleteIsFinal, Dropped
<1>14. FailedUploadLeavesNothing'
  BY <1>2, <1>3, <1>4 DEF FailedUploadLeavesNothing, Uploads, FileId
<1> QED BY <1>1, <1>5, <1>9, <1>10, <1>11, <1>12, <1>13, <1>14

LEMMA FailureKeepsStores ==
  ASSUME StoresInv, NEW r \in Request, Fault(r) \/ Crash(r)
  PROVE  StoresInv'
<1> USE DEF StoresInv
<1>1. TypeInv'
  BY FailureKeepsTypes
<1>2. /\ UNCHANGED <<stores, req>> /\ pc[r] \notin {"idle", "done"} /\ resp[r] = "none"
  <2>1. pc[r] \notin {"idle", "done"}
    BY DEF Fault, Crash, Active, DatabaseStep, StorageStep
  <2> QED BY <2>1 DEF Fault, Crash, Answers
<1>3. /\ \A s \in Request \ {r} : pc'[s] = pc[s] /\ resp'[s] = resp[s]
      /\ \/ pc'[r] = pc[r] /\ resp'[r] = "none"
         \/ pc[r] = "upload.insert" /\ pc'[r] = "upload.undo" /\ resp'[r] = "none"
         \/ pc'[r] = "done" /\ resp'[r] \in {"storage", "database", "lost", "BLOB_MISSING"}
      /\ pc[r] \in UploadSteps => resp'[r] # "database"
  BY <1>2, FailResult, AnswerResult DEF Fault, Crash, UploadSteps, StorageStep
<1>4. Answers'
  BY <1>2, <1>3 DEF Answers, UploadSteps
<1>5. \A f \in FileId : Settled(f) => Settled(f)'
  BY <1>2, <1>3 DEF Settled, UploadSteps
<1>6. \A s \in Request : Dropped(s)' => Dropped(s)
  BY <1>2, <1>3 DEF Dropped
<1>7. \A s \in Request : pc'[s] \in Holding => pc[s] \in Holding
  BY <1>3 DEF Holding
<1>8. \A s \in Request : pc[s] \in Holding \/ Dropped(s) => req[s].file \in FileId
  BY DEF TypeInv, Shape, ShapeAt, Answers, Command, Dropped, Holding
<1>9. UploadIsAlone'
  BY <1>2, <1>5, <1>6, <1>7, <1>8 DEF UploadIsAlone, stores
<1>10. BlobBeforeRow'
  BY <1>2, <1>3 DEF BlobBeforeRow, stores
<1>11. DroppedStaysDropped' /\ RowHasBlob'
  BY <1>2, <1>6 DEF DroppedStaysDropped, RowHasBlob, stores
<1>12. DeleteIsFinal'
  BY <1>2, <1>3 DEF DeleteIsFinal, stores
<1>13. FailedUploadLeavesNothing'
  <2> SUFFICES ASSUME NEW s \in Request, req[s] # None, req[s].op = "upload", resp'[s] = "database"
               PROVE  files[s] = None /\ blobs[s] = "absent"
    BY <1>2 DEF FailedUploadLeavesNothing, Uploads, stores
  <2>1. CASE s = r
    <3>1. pc[r] \in UploadSteps
      BY <1>2, <2>1 DEF Answers, TypeInv, Shape, ShapeAt
    <3> QED BY <1>3, <2>1, <3>1
  <2>2. CASE s # r
    BY <1>3, <2>2 DEF FailedUploadLeavesNothing, Uploads
  <2> QED BY <2>1, <2>2
<1> QED BY <1>1, <1>4, <1>9, <1>10, <1>11, <1>12, <1>13

----------------------------------------------------------------------------
LEMMA NextKeepsStores ==
  ASSUME "unacked" \notin Faults
  PROVE  StoresInv /\ [Next]_vars => StoresInv'
<1> SUFFICES ASSUME StoresInv, [Next]_vars PROVE StoresInv'
  OBVIOUS
<1>1. CASE UNCHANGED vars
  <2>1. TypeInv'
    BY <1>1, NextKeepsTypes DEF StoresInv
  <2> QED BY <1>1, <2>1 DEF vars, stores, flow, StoresInv, Answers, UploadIsAlone, BlobBeforeRow,
             DroppedStaysDropped, RowHasBlob, DeleteIsFinal, FailedUploadLeavesNothing,
             Uploads, Settled, Dropped
<1>2. CASE Next
  <2>1. PICK r \in Request : FileNext(r)
    BY <1>2 DEF Next
  <2>2. CASE ReceiveFileOp(r)
    BY <2>2, ReceiveKeepsStores
  <2>3. CASE UploadStep(r)
    BY <2>3, UploadKeepsStores
  <2>4. CASE DeleteStep(r)
    BY <2>4, DeleteKeepsStores
  <2>5. CASE RenameStep(r)
    BY <2>5, RenameKeepsStores
  <2>6. CASE Fault(r) \/ Crash(r)
    BY <2>6, FailureKeepsStores
  <2> QED BY <2>1, <2>2, <2>3, <2>4, <2>5, <2>6 DEF FileNext, FileStep
<1> QED BY <1>1, <1>2

LEMMA StoresInvHolds ==
  ASSUME "unacked" \notin Faults
  PROVE  Spec => []StoresInv
<1>1. StoresInv /\ [Next]_vars => StoresInv'
  BY NextKeepsStores
<1> QED BY <1>1, InitStoresInv, PTL DEF Spec

\* Every row has its whole bytes, in every interleaving of uploads, deletes
\* and renames, whatever fails without effect, is torn or crashes.
THEOREM RowsHaveBlobs ==
  ASSUME "unacked" \notin Faults
  PROVE  Spec => []RowHasBlob
<1>1. StoresInv => RowHasBlob
  BY DEF StoresInv
<1> QED BY <1>1, StoresInvHolds, PTL

\* After an acknowledged delete neither row nor bytes come back.
THEOREM DeletesAreFinal ==
  ASSUME "unacked" \notin Faults
  PROVE  Spec => []DeleteIsFinal
<1>1. StoresInv => DeleteIsFinal
  BY DEF StoresInv
<1> QED BY <1>1, StoresInvHolds, PTL

\* An upload that the database refused leaves neither row nor bytes.
THEOREM FailedUploadsLeaveNothing ==
  ASSUME "unacked" \notin Faults
  PROVE  Spec => []FailedUploadLeavesNothing
<1>1. StoresInv => FailedUploadLeavesNothing
  BY DEF StoresInv
<1> QED BY <1>1, StoresInvHolds, PTL
=============================================================================
