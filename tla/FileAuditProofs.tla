--------------------------- MODULE FileAuditProofs ---------------------------
(***************************************************************************)
(* What holds between the files table and the audit trail, proved for any  *)
(* number of requests and, where not said otherwise, with every kind of    *)
(* failure, lost acknowledgements among them.                              *)
(***************************************************************************)
EXTENDS FileServicesProofs, FiniteSetTheorems

----------------------------------------------------------------------------
(* What a step does, one request and one record at a time.                 *)

Others(r) ==
  \A s \in Request : s # r =>
    /\ pc'[s] = pc[s] /\ tries'[s] = tries[s] /\ resp'[s] = resp[s]
    /\ req'[s] = req[s] /\ seen'[s] = seen[s] /\ held'[s] = held[s]

Went(r, step) == pc'[r] = step /\ tries'[r] = 1 /\ resp'[r] = resp[r]

Ended(r, code) == pc'[r] = "done" /\ tries'[r] = 1 /\ resp'[r] = code

Failed(r) ==
  \/ /\ tries[r] < MaxAttempts /\ tries'[r] = tries[r] + 1
     /\ pc'[r] = pc[r] /\ resp'[r] = resp[r]
  \/ pc[r] = "upload.insert" /\ Went(r, "upload.undo")
  \/ pc[r] # "upload.insert" /\ Ended(r, Layer(pc[r]))

\* The control operators, applied.
LEMMA ControlApplied ==
  ASSUME FlowTypeOK, NEW r \in Request
  PROVE  /\ \A step : Goto(r, step) => Went(r, step)
         /\ \A code : Answer(r, code) => Ended(r, code)
         /\ AttemptFails(r) => Failed(r)
<1>1. ASSUME NEW step, Goto(r, step) PROVE Went(r, step)
  BY <1>1 DEF Goto, Went, FlowTypeOK
<1>2. ASSUME NEW code, Answer(r, code) PROVE Ended(r, code)
  BY <1>2 DEF Answer, Ended, FlowTypeOK
<1>3. ASSUME AttemptFails(r) PROVE Failed(r)
  <2>1. CASE Retry(r)
    BY <2>1 DEF Retry, Failed, FlowTypeOK
  <2>2. CASE Throw(r)
    BY <1>1, <1>2, <2>2 DEF Throw, Failed
  <2> QED BY <1>3, <2>1, <2>2 DEF AttemptFails
<1> QED BY <1>1, <1>2, <1>3

\* They move one request.
Elsewhere(r) ==
  \A s \in Request : s # r => pc'[s] = pc[s] /\ tries'[s] = tries[s] /\ resp'[s] = resp[s]

LEMMA ControlIsLocal ==
  ASSUME FlowTypeOK, NEW r \in Request
  PROVE  /\ \A step : Goto(r, step) => Elsewhere(r)
         /\ \A code : Answer(r, code) => Elsewhere(r)
         /\ AttemptFails(r) => Elsewhere(r)
<1>1. ASSUME NEW step, Goto(r, step) PROVE Elsewhere(r)
  BY <1>1 DEF Goto, Elsewhere, FlowTypeOK
<1>2. ASSUME NEW code, Answer(r, code) PROVE Elsewhere(r)
  BY <1>2 DEF Answer, Elsewhere, FlowTypeOK
<1>3. ASSUME AttemptFails(r) PROVE Elsewhere(r)
  <2>1. CASE Retry(r)
    BY <2>1 DEF Retry, Elsewhere, FlowTypeOK
  <2>2. CASE Throw(r)
    BY <1>1, <1>2, <2>2 DEF Throw
  <2> QED BY <1>3, <2>1, <2>2 DEF AttemptFails
<1> QED BY <1>1, <1>2, <1>3

----------------------------------------------------------------------------
(* One lemma per statement of the file services: the step it is at, where  *)
(* it leads, and what becomes of the tables.                               *)

LEMMA ReceiveEffect ==
  ASSUME TypeInv, NEW r \in Request, ReceiveFileOp(r)
  PROVE  /\ Others(r) /\ pc[r] = "idle" /\ UNCHANGED <<stores, seen, held>>
         /\ req'[r] \in Command /\ req'[r].op \in {"upload", "delete", "rename"}
         /\ req'[r].user \in User
         /\ IF req'[r].op = "upload" THEN req'[r].file = r ELSE req'[r].file \in DrawnIds
         /\ \/ Ended(r, "VALIDATION")
            \/ /\ req'[r].op = "upload" => req'[r].arg \in Name
               /\ Went(r, CASE req'[r].op = "upload" -> "upload.save"
                             [] req'[r].op = "delete" -> "delete.find"
                             [] req'[r].op = "rename" -> "rename.find")
<1> USE DEF TypeInv, TypeOK
<1>1. ASSUME NEW command \in Command, NEW valid, NEW first, Receive(r, command, valid, first)
      PROVE  /\ Others(r) /\ pc[r] = "idle" /\ UNCHANGED <<stores, seen, held>>
             /\ req'[r] = command
             /\ IF valid THEN Went(r, first) ELSE Ended(r, "VALIDATION")
  <2>1. /\ pc[r] = "idle" /\ UNCHANGED <<stores, seen, held>>
        /\ req'[r] = command /\ \A s \in Request : s # r => req'[s] = req[s]
    BY <1>1 DEF Receive, FlowTypeOK
  <2>2. Elsewhere(r) /\ IF valid THEN Went(r, first) ELSE Ended(r, "VALIDATION")
    BY <1>1, ControlApplied, ControlIsLocal DEF Receive
  <2> QED BY <2>1, <2>2 DEF Others, Elsewhere
<1>2. \A user \in User, f \in FileId, n \in Name \cup {None} :
        /\ [op |-> "upload", user |-> user, file |-> f, arg |-> n, exp |-> 0] \in Command
        /\ [op |-> "delete", user |-> user, file |-> f, arg |-> n, exp |-> 0] \in Command
        /\ [op |-> "rename", user |-> user, file |-> f, arg |-> n, exp |-> 0] \in Command
  BY DEF Command, Op
<1>3. r \in FileId /\ DrawnIds \subseteq FileId
  BY DEF FileId, DrawnIds
<1>4. CASE ReceiveUpload(r)
  <2>1. PICK user \in User, n \in Name \cup {None} :
          Receive(r, [op |-> "upload", user |-> user, file |-> r, arg |-> n, exp |-> 0],
                  n # None, "upload.save")
    BY <1>4 DEF ReceiveUpload
  <2> DEFINE command == [op |-> "upload", user |-> user, file |-> r, arg |-> n, exp |-> 0]
  <2>2. command \in Command
    BY <1>2, <1>3
  <2> HIDE DEF command
  <2>3. /\ Others(r) /\ pc[r] = "idle" /\ UNCHANGED <<stores, seen, held>>
        /\ req'[r] = command
        /\ IF n # None THEN Went(r, "upload.save") ELSE Ended(r, "VALIDATION")
    BY <1>1, <2>1, <2>2 DEF command
  <2> QED BY <2>2, <2>3 DEF command
<1>5. CASE ReceiveDelete(r)
  <2>1. PICK user \in User, f \in DrawnIds :
          Receive(r, [op |-> "delete", user |-> user, file |-> f, arg |-> None, exp |-> 0],
                  TRUE, "delete.find")
    BY <1>5 DEF ReceiveDelete
  <2> DEFINE command == [op |-> "delete", user |-> user, file |-> f, arg |-> None, exp |-> 0]
  <2>2. command \in Command
    BY <1>2, <1>3
  <2> HIDE DEF command
  <2>3. /\ Others(r) /\ pc[r] = "idle" /\ UNCHANGED <<stores, seen, held>>
        /\ req'[r] = command
        /\ Went(r, "delete.find")
    BY <1>1, <2>1, <2>2 DEF command
  <2> QED BY <2>2, <2>3 DEF command
<1>6. CASE ReceiveRename(r)
  <2>1. PICK user \in User, f \in DrawnIds, n \in Name \cup {None}, accepted \in BOOLEAN :
          Receive(r, [op |-> "rename", user |-> user, file |-> f, arg |-> n, exp |-> 0],
                  accepted, "rename.find")
    BY <1>6 DEF ReceiveRename
  <2> DEFINE command == [op |-> "rename", user |-> user, file |-> f, arg |-> n, exp |-> 0]
  <2>2. command \in Command
    BY <1>2, <1>3
  <2> HIDE DEF command
  <2>3. /\ Others(r) /\ pc[r] = "idle" /\ UNCHANGED <<stores, seen, held>>
        /\ req'[r] = command
        /\ IF accepted THEN Went(r, "rename.find") ELSE Ended(r, "VALIDATION")
    BY <1>1, <2>1, <2>2 DEF command
  <2> QED BY <2>2, <2>3 DEF command
<1> QED BY <1>4, <1>5, <1>6 DEF ReceiveFileOp

\* What a statement does to one cell of a table.
Sets(table, next, f, value) ==
  next[f] = value /\ \A g \in FileId : g # f => next[g] = table[g]

\* The step was acknowledged, or it was executed and looks like a failure.
Acked(r, outcome) == outcome \/ ("unacked" \in Faults /\ Failed(r))

LEMMA UploadEffect ==
  ASSUME TypeInv, NEW r \in Request, UploadStep(r)
  PROVE  /\ Others(r) /\ UNCHANGED <<req, seen, held, links, audit>>
         /\ pc[r] \in UploadSteps
         /\ req[r].op = "upload" /\ req[r].file = r
         /\ req[r].user \in User /\ req[r].arg \in Name
         /\ pc[r] = "upload.save" =>
              /\ files' = files
              /\ \/ Sets(blobs, blobs', r, "whole") /\ Acked(r, Went(r, "upload.insert"))
                 \/ /\ "torn" \in Faults
                    /\ Sets(blobs, blobs', r, "partial") /\ Failed(r)
         /\ pc[r] = "upload.insert" =>
              /\ blobs' = blobs
              /\ \/ /\ files[r] = None
                    /\ Sets(files, files', r, [user |-> req[r].user, name |-> req[r].arg])
                    /\ Acked(r, Ended(r, "ok"))
                 \/ files[r] # None /\ files' = files /\ Went(r, "upload.undo")
         /\ pc[r] = "upload.undo" =>
              /\ files' = files
              /\ Sets(blobs, blobs', r, "absent")
              /\ Acked(r, Ended(r, "database"))
<1> USE DEF TypeInv, TypeOK
<1>1. pc[r] \in UploadSteps /\ UNCHANGED <<req, seen, held, links, audit>>
  BY DEF UploadStep, UploadSave, UploadSaveTorn, UploadInsert, UploadUndo, UploadSteps
<1>2. /\ req[r].op = "upload" /\ req[r].file = r
      /\ req[r].user \in User /\ req[r].arg \in Name /\ r \in FileId
  BY <1>1 DEF Shape, ShapeAt, FileId
<1>3. Others(r)
  <2>1. Elsewhere(r)
    BY ControlIsLocal
    DEF UploadStep, UploadSave, UploadSaveTorn, UploadInsert, UploadUndo, Unacked, AttemptFails
  <2> QED BY <1>1, <2>1 DEF Others, Elsewhere
<1>4. \A state : WriteBlob(r, state) => Sets(blobs, blobs', r, state)
  BY <1>2 DEF WriteBlob, Sets, StoresTypeOK
<1>5. CASE pc[r] = "upload.save"
  BY <1>1, <1>2, <1>3, <1>4, <1>5, ControlApplied
  DEF UploadStep, UploadSave, UploadSaveTorn, UploadInsert, UploadUndo, Unacked, Acked
<1>6. CASE pc[r] = "upload.insert"
  <2>1. UploadInsert(r)
    BY <1>6 DEF UploadStep, UploadSave, UploadSaveTorn, UploadUndo
  <2>2. CASE CanInsertRow(r)
    <3>1. Sets(files, files', r, [user |-> req[r].user, name |-> req[r].arg])
      BY <1>2, <2>1, <2>2 DEF UploadInsert, InsertRow, Sets, StoresTypeOK
    <3> QED BY <1>1, <1>2, <1>3, <1>6, <2>1, <2>2, <3>1, ControlApplied
            DEF UploadInsert, CanInsertRow, Unacked, Acked
  <2>3. CASE ~CanInsertRow(r)
    BY <1>1, <1>2, <1>3, <1>6, <2>1, <2>3, ControlApplied DEF UploadInsert, CanInsertRow, Throw
  <2> QED BY <2>2, <2>3
<1>7. CASE pc[r] = "upload.undo"
  <2>1. UploadUndo(r)
    BY <1>7 DEF UploadStep, UploadSave, UploadSaveTorn, UploadInsert
  <2>2. Sets(blobs, blobs', r, "absent")
    BY <1>2, <2>1 DEF UploadUndo, RemoveBlob, Sets, StoresTypeOK
  <2> QED BY <1>1, <1>2, <1>3, <1>7, <2>1, <2>2, ControlApplied DEF UploadUndo, Unacked, Acked
<1> QED BY <1>1, <1>5, <1>6, <1>7 DEF UploadSteps

LEMMA DeleteEffect ==
  ASSUME TypeInv, NEW r \in Request, DeleteStep(r)
  PROVE  /\ Others(r) /\ UNCHANGED <<req, held>>
         /\ pc[r] \in DeleteSteps
         /\ req[r].op = "delete" /\ req[r].user \in User /\ req[r].file \in FileId
         /\ pc[r] = "delete.find" =>
              /\ UNCHANGED stores
              /\ \/ ~Owned(r) /\ Ended(r, IF files[req[r].file] = None THEN "FILE_NOT_FOUND"
                                                                     ELSE "FORBIDDEN")
                 \/ Owned(r) /\ seen'[r] = files[req[r].file] /\ Went(r, "delete.audit")
         /\ pc[r] = "delete.audit" =>
              /\ UNCHANGED <<files, blobs, links, seen>>
              /\ audit' = audit \cup {[EventOf(r, "file_deleted") EXCEPT !.name = seen[r].name]}
              /\ Acked(r, Went(r, "delete.drop"))
         /\ pc[r] = "delete.drop" =>
              /\ UNCHANGED <<blobs, audit, seen>>
              /\ Sets(files, files', req[r].file, None)
              /\ links' = {l \in links : l.file # req[r].file}
              /\ Acked(r, Went(r, "delete.unlink"))
         /\ pc[r] = "delete.unlink" =>
              /\ UNCHANGED <<files, links, audit, seen>>
              /\ Sets(blobs, blobs', req[r].file, "absent")
              /\ Acked(r, Ended(r, "ok"))
<1> USE DEF TypeInv, TypeOK
<1>1. pc[r] \in DeleteSteps /\ UNCHANGED <<req, held>>
  BY DEF DeleteStep, DeleteFind, DeleteAudit, DeleteDrop, DeleteUnlink, DeleteSteps
<1>2. req[r].op = "delete" /\ req[r].user \in User /\ req[r].file \in FileId
  BY <1>1 DEF Shape, ShapeAt, DeleteSteps, Command
<1>3. Others(r)
  <2>1. Elsewhere(r)
    BY ControlIsLocal
    DEF DeleteStep, DeleteFind, DeleteAudit, DeleteDrop, DeleteUnlink, GetOwned, Refuse, Unacked
  <2>2. \A s \in Request : s # r => seen'[s] = seen[s]
    BY DEF DeleteStep, DeleteFind, DeleteAudit, DeleteDrop, DeleteUnlink, GetOwned, Refuse,
       Remember, FlowTypeOK
  <2> QED BY <1>1, <2>1, <2>2 DEF Others, Elsewhere
<1>4. CASE pc[r] = "delete.find"
  <2>1. DeleteFind(r)
    BY <1>4 DEF DeleteStep, DeleteAudit, DeleteDrop, DeleteUnlink
  <2>2. Remember(r) => seen'[r] = files[req[r].file]
    BY DEF Remember, FlowTypeOK
  <2> QED BY <1>1, <1>2, <1>3, <1>4, <2>1, <2>2, ControlApplied DEF DeleteFind, GetOwned, Refuse
<1>5. CASE pc[r] = "delete.audit"
  <2>1. DeleteAudit(r)
    BY <1>5 DEF DeleteStep, DeleteFind, DeleteDrop, DeleteUnlink
  <2> QED BY <1>1, <1>2, <1>3, <1>5, <2>1, ControlApplied
          DEF DeleteAudit, InsertEvent, Unacked, Acked
<1>6. CASE pc[r] = "delete.drop"
  <2>1. DeleteDrop(r)
    BY <1>6 DEF DeleteStep, DeleteFind, DeleteAudit, DeleteUnlink
  <2>2. Sets(files, files', req[r].file, None)
    BY <1>2, <2>1 DEF DeleteDrop, DeleteRow, Sets, StoresTypeOK
  <2> QED BY <1>1, <1>2, <1>3, <1>6, <2>1, <2>2, ControlApplied
          DEF DeleteDrop, DeleteRow, Unacked, Acked
<1>7. CASE pc[r] = "delete.unlink"
  <2>1. DeleteUnlink(r)
    BY <1>7 DEF DeleteStep, DeleteFind, DeleteAudit, DeleteDrop
  <2>2. Sets(blobs, blobs', req[r].file, "absent")
    BY <1>2, <2>1 DEF DeleteUnlink, RemoveBlob, Sets, StoresTypeOK
  <2> QED BY <1>1, <1>2, <1>3, <1>7, <2>1, <2>2, ControlApplied DEF DeleteUnlink, Unacked, Acked
<1> QED BY <1>1, <1>4, <1>5, <1>6, <1>7 DEF DeleteSteps

LEMMA RenameEffect ==
  ASSUME TypeInv, NEW r \in Request, RenameStep(r)
  PROVE  /\ Others(r) /\ UNCHANGED <<req, links, blobs>>
         /\ pc[r] \in RenameSteps
         /\ req[r].op = "rename" /\ req[r].user \in User /\ req[r].file \in FileId
         /\ pc[r] = "rename.find" =>
              /\ UNCHANGED <<stores, held>>
              /\ \/ ~Owned(r) /\ Ended(r, IF files[req[r].file] = None THEN "FILE_NOT_FOUND"
                                                                     ELSE "FORBIDDEN")
                 \/ /\ Owned(r) /\ seen'[r] = files[req[r].file]
                    /\ IF req[r].arg = None THEN Ended(r, "VALIDATION")
                                            ELSE Went(r, "rename.update")
         /\ pc[r] = "rename.update" =>
              /\ UNCHANGED <<audit, seen>>
              /\ req[r].arg \in Name
              /\ IF files[req[r].file] = None
                   THEN files' = files
                   ELSE Sets(files, files', req[r].file,
                             [user |-> files[req[r].file].user, name |-> req[r].arg])
              /\ \/ Went(r, "rename.audit") /\ held'[r] = files'[req[r].file]
                 \/ "unacked" \in Faults /\ Failed(r) /\ held' = held
         /\ pc[r] = "rename.audit" =>
              /\ UNCHANGED <<files, seen, held>>
              /\ req[r].arg \in Name
              /\ audit' = audit \cup {[EventOf(r, "file_renamed") EXCEPT
                                        !.name = req[r].arg, !.was = seen[r].name]}
              /\ Acked(r, Ended(r, IF held[r] = None THEN "INTERNAL" ELSE "ok"))
<1> USE DEF TypeInv, TypeOK
<1>1. pc[r] \in RenameSteps /\ UNCHANGED <<req, links, blobs>>
  BY DEF RenameStep, RenameFind, RenameUpdate, RenameAudit, RenameSteps, stores
<1>2. /\ req[r].op = "rename" /\ req[r].user \in User /\ req[r].file \in FileId
      /\ pc[r] # "rename.find" => req[r].arg \in Name
  BY <1>1 DEF Shape, ShapeAt, RenameSteps, Command
<1>3. Others(r)
  <2>1. Elsewhere(r)
    BY ControlIsLocal DEF RenameStep, RenameFind, RenameUpdate, RenameAudit, Refuse, Unacked
  <2>2. \A s \in Request : s # r => seen'[s] = seen[s] /\ held'[s] = held[s]
    BY DEF RenameStep, RenameFind, RenameUpdate, RenameAudit, Refuse, Remember, FlowTypeOK
  <2> QED BY <1>1, <2>1, <2>2 DEF Others, Elsewhere
<1>4. CASE pc[r] = "rename.find"
  <2>1. RenameFind(r)
    BY <1>4 DEF RenameStep, RenameUpdate, RenameAudit
  <2>2. Remember(r) => seen'[r] = files[req[r].file]
    BY DEF Remember, FlowTypeOK
  <2> QED BY <1>1, <1>2, <1>3, <1>4, <2>1, <2>2, ControlApplied DEF RenameFind, Refuse
<1>5. CASE pc[r] = "rename.update"
  <2>1. RenameUpdate(r)
    BY <1>5 DEF RenameStep, RenameFind, RenameAudit
  <2>2. ASSUME files[req[r].file] # None
        PROVE  Sets(files, files', req[r].file,
                    [user |-> files[req[r].file].user, name |-> req[r].arg])
    <3>1. files[req[r].file] \in Row
      BY <1>2, <2>2 DEF StoresTypeOK
    <3>2. [files[req[r].file] EXCEPT !.name = req[r].arg]
            = [user |-> files[req[r].file].user, name |-> req[r].arg]
      BY <3>1 DEF Row
    <3> QED BY <1>2, <2>1, <2>2, <3>2 DEF RenameUpdate, RenameRow, Sets, StoresTypeOK
  <2>3. files[req[r].file] = None => files' = files
    BY <2>1 DEF RenameUpdate, RenameRow
  <2>4. \/ Went(r, "rename.audit") /\ held'[r] = files'[req[r].file]
        \/ "unacked" \in Faults /\ Failed(r) /\ held' = held
    BY <2>1, ControlApplied DEF RenameUpdate, Unacked, FlowTypeOK
  <2> QED BY <1>1, <1>2, <1>3, <1>5, <2>1, <2>2, <2>3, <2>4 DEF RenameUpdate
<1>6. CASE pc[r] = "rename.audit"
  <2>1. RenameAudit(r)
    BY <1>6 DEF RenameStep, RenameFind, RenameUpdate
  <2> QED BY <1>1, <1>2, <1>3, <1>6, <2>1, ControlApplied
          DEF RenameAudit, InsertEvent, Unacked, Acked
<1> QED BY <1>1, <1>4, <1>5, <1>6 DEF RenameSteps

LEMMA FailureEffect ==
  ASSUME TypeInv, NEW r \in Request, Fault(r) \/ Crash(r)
  PROVE  /\ Others(r) /\ UNCHANGED <<stores, req, seen, held>>
         /\ pc[r] \in Step
         /\ \/ Failed(r)
            \/ Ended(r, "lost")
            \/ pc[r] = "download.exists" /\ Ended(r, "BLOB_MISSING")
<1> USE DEF TypeInv, TypeOK
<1>1. UNCHANGED <<stores, req, seen, held>> /\ pc[r] \in Step
  BY DEF Fault, Crash, Active, FlowTypeOK, Step
<1>2. Elsewhere(r)
  BY ControlIsLocal DEF Fault, Crash
<1> QED BY <1>1, <1>2, ControlApplied DEF Fault, Crash, Others, Elsewhere

----------------------------------------------------------------------------
(* What any step of a request may do to the tables, by the step it is at.  *)

AuditStep == {"delete.audit", "rename.audit", "sign.audit", "revoke.audit",
              "download.audit", "download.reject"}

FlowFrame(r) ==
  /\ Others(r)
  /\ pc[r] # "done" /\ pc'[r] # "idle"
  /\ pc'[r] # "done" => resp'[r] = resp[r]
  /\ pc[r] # "idle" => req' = req
  /\ pc[r] = "idle" => UNCHANGED <<stores, seen, held>> /\ pc'[r] \notin Holding

\* The order in which the services take their steps; a retry counts.
MoveFrame(r) ==
  /\ \/ pc'[r] \in {pc[r], "done"}
     \/ pc[r] = "idle" /\ pc'[r] \in {"upload.save", "delete.find", "rename.find"}
     \/ pc[r] = "upload.save" /\ pc'[r] = "upload.insert"
     \/ pc[r] = "upload.insert" /\ pc'[r] = "upload.undo"
     \/ pc[r] = "delete.find" /\ pc'[r] = "delete.audit" /\ Owned(r) /\ files' = files
     \/ pc[r] = "delete.audit" /\ pc'[r] = "delete.drop"
     \/ pc[r] = "delete.drop" /\ pc'[r] = "delete.unlink"
     \/ pc[r] = "rename.find" /\ pc'[r] = "rename.update" /\ Owned(r) /\ files' = files
     \/ pc[r] = "rename.update" /\ pc'[r] = "rename.audit"
  /\ pc'[r] = pc[r] => tries'[r] = tries[r] + 1

RowFrame(r) ==
  \A f \in FileId : files'[f] # files[f] =>
    \/ /\ pc[r] = "upload.insert" /\ f = r /\ files[f] = None
       /\ files'[f] = [user |-> req[r].user, name |-> req[r].arg]
    \/ pc[r] = "delete.drop" /\ f = req[r].file /\ files'[f] = None
    \/ /\ pc[r] = "rename.update" /\ f = req[r].file /\ files[f] # None
       /\ files'[f] = [user |-> files[f].user, name |-> req[r].arg]

BlobFrame(r) ==
  \A f \in FileId : blobs'[f] # blobs[f] =>
    \/ pc[r] = "upload.save" /\ f = r
    \/ pc[r] = "upload.undo" /\ f = r /\ blobs'[f] = "absent"
    \/ pc[r] = "delete.unlink" /\ f = req[r].file /\ blobs'[f] = "absent"

EventFrame(r) ==
  /\ audit \subseteq audit'
  /\ \A e \in audit' : e \notin audit =>
       /\ pc[r] \in AuditStep
       /\ e.id = <<r, tries[r]>> /\ e.file = req[r].file
       /\ e.type = "file_deleted" <=> pc[r] = "delete.audit"

LEMMA FileFlowFrame ==
  ASSUME TypeInv, NEW r \in Request, FileNext(r)
  PROVE  FlowFrame(r)
<1> USE DEF FlowFrame, Went, Ended, Failed, Acked
<1>1. CASE ReceiveFileOp(r)
  BY <1>1, ReceiveEffect DEF Holding
<1>2. CASE UploadStep(r)
  BY <1>2, UploadEffect DEF UploadSteps
<1>3. CASE DeleteStep(r)
  BY <1>3, DeleteEffect DEF DeleteSteps
<1>4. CASE RenameStep(r)
  BY <1>4, RenameEffect DEF RenameSteps
<1>5. CASE Fault(r) \/ Crash(r)
  BY <1>5, FailureEffect DEF Step, DatabaseStep, StorageStep
<1> QED BY <1>1, <1>2, <1>3, <1>4, <1>5 DEF FileNext, FileStep

LEMMA FileMoveFrame ==
  ASSUME TypeInv, NEW r \in Request, FileNext(r)
  PROVE  MoveFrame(r)
<1> USE DEF MoveFrame, Went, Ended, Failed, Acked
<1>1. CASE ReceiveFileOp(r)
  BY <1>1, ReceiveEffect
<1>2. CASE UploadStep(r)
  BY <1>2, UploadEffect DEF UploadSteps
<1>3. CASE DeleteStep(r)
  BY <1>3, DeleteEffect DEF DeleteSteps, stores
<1>4. CASE RenameStep(r)
  BY <1>4, RenameEffect DEF RenameSteps, stores
<1>5. CASE Fault(r) \/ Crash(r)
  BY <1>5, FailureEffect DEF Step, DatabaseStep, StorageStep
<1> QED BY <1>1, <1>2, <1>3, <1>4, <1>5 DEF FileNext, FileStep

LEMMA FileRowFrame ==
  ASSUME TypeInv, NEW r \in Request, FileNext(r)
  PROVE  RowFrame(r)
<1> USE DEF RowFrame, Sets
<1>1. CASE ReceiveFileOp(r) \/ Fault(r) \/ Crash(r)
  BY <1>1, ReceiveEffect, FailureEffect DEF stores
<1>2. CASE UploadStep(r)
  BY <1>2, UploadEffect DEF UploadSteps
<1>3. CASE DeleteStep(r)
  BY <1>3, DeleteEffect DEF DeleteSteps, stores
<1>4. CASE RenameStep(r)
  BY <1>4, RenameEffect DEF RenameSteps, stores
<1> QED BY <1>1, <1>2, <1>3, <1>4 DEF FileNext, FileStep

LEMMA FileBlobFrame ==
  ASSUME TypeInv, NEW r \in Request, FileNext(r)
  PROVE  BlobFrame(r)
<1> USE DEF BlobFrame, Sets
<1>1. CASE ReceiveFileOp(r) \/ Fault(r) \/ Crash(r)
  BY <1>1, ReceiveEffect, FailureEffect DEF stores
<1>2. CASE UploadStep(r)
  <2>1. pc[r] = "upload.insert" => blobs' = blobs
    BY <1>2, UploadEffect
  <2>2. pc[r] = "upload.save" => \A f \in FileId : f # r => blobs'[f] = blobs[f]
    BY <1>2, UploadEffect
  <2>3. pc[r] = "upload.undo" => Sets(blobs, blobs', r, "absent")
    BY <1>2, UploadEffect
  <2> QED BY <1>2, <2>1, <2>2, <2>3, UploadEffect DEF UploadSteps
<1>3. CASE DeleteStep(r)
  BY <1>3, DeleteEffect DEF DeleteSteps, stores
<1>4. CASE RenameStep(r)
  BY <1>4, RenameEffect DEF RenameSteps, stores
<1> QED BY <1>1, <1>2, <1>3, <1>4 DEF FileNext, FileStep

\* The event that a file service records at the step r is at.
NewEvent(r) ==
  IF pc[r] = "delete.audit"
    THEN [EventOf(r, "file_deleted") EXCEPT !.name = seen[r].name]
    ELSE [EventOf(r, "file_renamed") EXCEPT !.name = req[r].arg, !.was = seen[r].name]

LEMMA NewEventFields ==
  ASSUME NEW r \in Request
  PROVE  /\ NewEvent(r).id = <<r, tries[r]>>
         /\ NewEvent(r).file = req[r].file /\ NewEvent(r).user = req[r].user
         /\ pc[r] = "delete.audit" =>
              /\ NewEvent(r).type = "file_deleted"
              /\ NewEvent(r).name = seen[r].name /\ NewEvent(r).was = None
         /\ pc[r] # "delete.audit" =>
              /\ NewEvent(r).type = "file_renamed"
              /\ NewEvent(r).name = req[r].arg /\ NewEvent(r).was = seen[r].name
BY DEF NewEvent, EventOf

\* A step records at most one event; it has, when the service goes on, and a
\* retry repeats it only if the acknowledgement was lost.
LEMMA FileEvents ==
  ASSUME TypeInv, NEW r \in Request, FileNext(r)
  PROVE  /\ \/ audit' = audit
            \/ /\ pc[r] \in {"delete.audit", "rename.audit"}
               /\ audit' = audit \cup {NewEvent(r)}
               /\ pc'[r] # pc[r] \/ "unacked" \in Faults
         /\ \/ pc[r] = "delete.audit" /\ pc'[r] = "delete.drop"
            \/ pc[r] = "rename.audit" /\ pc'[r] = "done" /\ resp'[r] \in {"ok", "INTERNAL"}
            => NewEvent(r) \in audit'
<1> USE DEF Went, Ended, Failed, Acked
<1>1. CASE ReceiveFileOp(r)
  BY <1>1, ReceiveEffect DEF stores
<1>2. CASE UploadStep(r)
  <2>1. audit' = audit /\ pc[r] \in UploadSteps
    BY <1>2, UploadEffect
  <2> QED BY <2>1 DEF UploadSteps
<1>3. CASE DeleteStep(r)
  <2>1. pc[r] # "delete.audit" => audit' = audit
    BY <1>3, DeleteEffect DEF DeleteSteps, stores
  <2>2. pc[r] = "delete.audit" =>
          audit' = audit \cup {NewEvent(r)} /\ (pc'[r] # pc[r] \/ "unacked" \in Faults)
    BY <1>3, DeleteEffect DEF NewEvent
  <2> QED BY <1>3, <2>1, <2>2, DeleteEffect DEF DeleteSteps
<1>4. CASE RenameStep(r)
  <2>1. pc[r] # "rename.audit" => audit' = audit
    BY <1>4, RenameEffect DEF RenameSteps, stores
  <2>2. pc[r] = "rename.audit" =>
          audit' = audit \cup {NewEvent(r)} /\ (pc'[r] # pc[r] \/ "unacked" \in Faults)
    BY <1>4, RenameEffect DEF NewEvent
  <2> QED BY <1>4, <2>1, <2>2, RenameEffect DEF RenameSteps
<1>5. CASE Fault(r) \/ Crash(r)
  BY <1>5, FailureEffect DEF stores, Layer
<1> QED BY <1>1, <1>2, <1>3, <1>4, <1>5 DEF FileNext, FileStep

LEMMA FileEventFrame ==
  ASSUME TypeInv, NEW r \in Request, FileNext(r)
  PROVE  EventFrame(r)
BY FileEvents, NewEventFields DEF EventFrame, AuditStep

\* Which answers the file services give, and where.
LEMMA FileAnswers ==
  ASSUME TypeInv, NEW r \in Request, FileNext(r), pc'[r] = "done"
  PROVE  \/ resp'[r] = "lost"
         \/ resp'[r] = "storage" /\ pc[r] \in StorageStep
         \/ resp'[r] = "database" /\ pc[r] \notin StorageStep /\ pc[r] # "upload.insert"
         \/ resp'[r] = "database" /\ pc[r] = "upload.undo" /\ blobs'[r] = "absent"
         \/ /\ resp'[r] = "ok" /\ pc[r] \in {"upload.insert", "delete.unlink", "rename.audit"}
            /\ pc[r] = "rename.audit" => held[r] # None
         \/ resp'[r] = "INTERNAL" /\ pc[r] = "rename.audit" /\ held[r] = None
         \/ /\ resp'[r] \in HttpErrorCode /\ UNCHANGED stores
            /\ pc[r] \in {"idle", "delete.find", "rename.find"}
         \/ resp'[r] = "BLOB_MISSING" /\ pc[r] = "download.exists"
<1> USE DEF Went, Ended, Failed, Acked, Layer, HttpErrorCode
<1>1. CASE ReceiveFileOp(r)
  BY <1>1, ReceiveEffect
<1>2. CASE UploadStep(r)
  BY <1>2, UploadEffect DEF UploadSteps, Sets, StorageStep
<1>3. CASE DeleteStep(r)
  BY <1>3, DeleteEffect DEF DeleteSteps, StorageStep
<1>4. CASE RenameStep(r)
  BY <1>4, RenameEffect DEF RenameSteps, StorageStep
<1>5. CASE Fault(r) \/ Crash(r)
  BY <1>5, FailureEffect DEF Step, DatabaseStep, StorageStep
<1> QED BY <1>1, <1>2, <1>3, <1>4, <1>5 DEF FileNext, FileStep

----------------------------------------------------------------------------
(* Whose files the requests act on. *)

\* A request has no answer before its end, and is nothing before it arrives.
Unanswered ==
  \A r \in Request :
    /\ pc[r] # "done" => resp[r] = "none"
    /\ pc[r] = "idle" => req[r] = None

\* A file that appeared belongs to who uploaded it.
RowsAreUploaders ==
  \A f \in Request : files[f] # None =>
    pc[f] # "idle" /\ req[f].op = "upload" /\ files[f].user = req[f].user

\* The file of r is its caller's, or was while it had a row; nobody else can
\* give it a row again.
CallerOwns(r) ==
  LET f == req[r].file IN
  /\ files[f] # None => files[f].user = req[r].user
  /\ f \in Request => pc[f] # "idle" /\ req[f].op = "upload" /\ req[f].user = req[r].user

\* Ownership is looked up once, and holds at every step that relies on it.
HoldersOwn == \A r \in Request : pc[r] \in Holding => CallerOwns(r)

DeletionRecorded(r) ==
  \E e \in audit : /\ e.type = "file_deleted" /\ e.file = req[r].file
                   /\ e.user = req[r].user

\* The event comes before the row is touched.
DeletesAreRecorded ==
  \A r \in Request : pc[r] \in {"delete.drop", "delete.unlink"} => DeletionRecorded(r)

OwnerInv ==
  /\ TypeInv
  /\ Unanswered
  /\ RowsAreUploaders
  /\ HoldersOwn
  /\ DeletesAreRecorded

LEMMA InitOwnerInv == Init => OwnerInv
<1> SUFFICES ASSUME Init PROVE OwnerInv
  OBVIOUS
<1>1. TypeInv
  BY InitTypeInv
<1>2. \A r \in Request : req[r] = None /\ pc[r] = "idle" /\ resp[r] = "none"
  BY DEF Init, FlowInit
<1>3. \A f \in Request : files[f] = None
  BY DEF Init, StoresInit, FileId
<1> QED BY <1>1, <1>2, <1>3 DEF OwnerInv, Unanswered, RowsAreUploaders, HoldersOwn,
           DeletesAreRecorded, Holding

LEMMA UnansweredStays ==
  ASSUME Unanswered, NEW r \in Request, FlowFrame(r)
  PROVE  Unanswered'
BY DEF Unanswered, FlowFrame, Others

LEMMA RowsAreUploadersStays ==
  ASSUME TypeInv, RowsAreUploaders, NEW r \in Request, FlowFrame(r), RowFrame(r)
  PROVE  RowsAreUploaders'
<1> SUFFICES ASSUME NEW f \in Request, files'[f] # None
             PROVE  pc'[f] # "idle" /\ req'[f].op = "upload" /\ files'[f].user = req'[f].user
  BY DEF RowsAreUploaders
<1>1. f \in FileId
  BY DEF FileId
<1>2. CASE files'[f] = files[f]
  <2>1. pc[f] # "idle" /\ req[f].op = "upload" /\ files[f].user = req[f].user
    BY <1>2 DEF RowsAreUploaders
  <2>2. pc'[f] # "idle" /\ req'[f] = req[f]
    BY <2>1 DEF FlowFrame, Others
  <2> QED BY <1>2, <2>1, <2>2
<1>3. CASE files'[f] # files[f] /\ pc[r] = "upload.insert"
  <2>1. f = r /\ files'[f].user = req[r].user /\ req' = req /\ req[r].op = "upload"
    BY <1>1, <1>3 DEF RowFrame, FlowFrame, TypeInv, Shape, ShapeAt, UploadSteps
  <2> QED BY <2>1 DEF FlowFrame
<1>4. CASE files'[f] # files[f] /\ pc[r] = "rename.update"
  <2>1. files[f] # None /\ files'[f] = [user |-> files[f].user, name |-> req[r].arg]
    BY <1>1, <1>4 DEF RowFrame
  <2>3. req' = req /\ files'[f].user = files[f].user
    BY <1>4, <2>1 DEF FlowFrame
  <2>2. pc'[f] # "idle"
    BY <2>1 DEF RowsAreUploaders, FlowFrame, Others
  <2> QED BY <2>1, <2>2, <2>3 DEF RowsAreUploaders
<1> QED BY <1>1, <1>2, <1>3, <1>4 DEF RowFrame

\* Who has found a file to be his own goes on owning it.
LEMMA CallerOwnsStays ==
  ASSUME TypeInv, Unanswered, NEW r \in Request, FlowFrame(r), RowFrame(r),
         NEW s \in Request, pc[s] # "idle", CallerOwns(s), req[s].file \in FileId
  PROVE  CallerOwns(s)'
<1> DEFINE f == req[s].file
<1>1. req'[s] = req[s]
  BY DEF FlowFrame, Others
<1>2. f \in Request => pc'[f] # "idle" /\ req'[f] = req[f]
  BY DEF CallerOwns, FlowFrame, Others
<1>3. files'[f] # None => files'[f].user = req[s].user
  <2>1. CASE files'[f] = files[f]
    BY <2>1 DEF CallerOwns
  <2>2. CASE files'[f] # files[f] /\ pc[r] = "upload.insert"
    BY <2>2 DEF CallerOwns, RowFrame
  <2>3. CASE files'[f] # files[f] /\ pc[r] = "rename.update"
    <3>1. files[f] # None /\ files'[f] = [user |-> files[f].user, name |-> req[r].arg]
      BY <2>3 DEF RowFrame
    <3> QED BY <3>1 DEF CallerOwns
  <2> QED BY <2>1, <2>2, <2>3 DEF RowFrame
<1> QED BY <1>1, <1>2, <1>3 DEF CallerOwns

\* Finding a file to be one's own.
LEMMA OwnedIsOwn ==
  ASSUME RowsAreUploaders, NEW r \in Request, Owned(r)
  PROVE  CallerOwns(r)
BY DEF Owned, CallerOwns, RowsAreUploaders

LEMMA DeletionRecordedStays ==
  ASSUME NEW r \in Request, FlowFrame(r), EventFrame(r),
         NEW s \in Request, pc[s] # "idle", DeletionRecorded(s)
  PROVE  DeletionRecorded(s)'
<1>1. req'[s] = req[s]
  BY DEF FlowFrame, Others
<1> QED BY <1>1 DEF DeletionRecorded, EventFrame

\* A request comes to rely on ownership only by finding the file its own.
HoldingFrame(r) ==
  pc'[r] \in Holding => pc[r] \in Holding \/ Owned(r)

LEMMA FileHoldingFrame ==
  ASSUME TypeInv, NEW r \in Request, FileNext(r)
  PROVE  HoldingFrame(r)
BY FileFlowFrame, FileMoveFrame DEF HoldingFrame, Holding, MoveFrame, FlowFrame

LEMMA HoldersOwnStays ==
  ASSUME TypeInv, Unanswered, RowsAreUploaders, HoldersOwn, NEW r \in Request,
         FlowFrame(r), RowFrame(r), HoldingFrame(r)
  PROVE  HoldersOwn'
<1> SUFFICES ASSUME NEW s \in Request, pc'[s] \in Holding PROVE CallerOwns(s)'
  BY DEF HoldersOwn
<1>1. pc[s] \in Holding \/ (s = r /\ Owned(r) /\ pc[r] # "idle")
  BY DEF HoldingFrame, FlowFrame, Others
<1>2. pc[s] # "idle" /\ req[s].file \in FileId
  BY <1>1 DEF Holding, TypeInv, Shape, ShapeAt, Command
<1>3. CallerOwns(s)
  BY <1>1, OwnedIsOwn DEF HoldersOwn
<1> QED BY <1>2, <1>3, CallerOwnsStays

\* A delete goes on to the row only past its event.
DropFrame(r) ==
  pc'[r] \in {"delete.drop", "delete.unlink"} =>
    pc[r] \in {"delete.drop", "delete.unlink"} \/ (pc[r] # "idle" /\ DeletionRecorded(r)')

LEMMA FileDropFrame ==
  ASSUME TypeInv, NEW r \in Request, FileNext(r)
  PROVE  DropFrame(r)
<1>1. pc[r] = "delete.audit" /\ pc'[r] = "delete.drop" => DeletionRecorded(r)'
  BY FileEvents, FileFlowFrame, NewEventFields DEF DeletionRecorded, FlowFrame
<1> QED BY <1>1, FileFlowFrame, FileMoveFrame DEF DropFrame, MoveFrame, FlowFrame

LEMMA DeletesAreRecordedStays ==
  ASSUME DeletesAreRecorded, NEW r \in Request, FlowFrame(r), EventFrame(r), DropFrame(r)
  PROVE  DeletesAreRecorded'
<1> SUFFICES ASSUME NEW s \in Request, pc'[s] \in {"delete.drop", "delete.unlink"}
             PROVE  DeletionRecorded(s)'
  BY DEF DeletesAreRecorded
<1>1. CASE pc[s] \in {"delete.drop", "delete.unlink"}
  BY <1>1, DeletionRecordedStays DEF DeletesAreRecorded
<1>2. CASE pc[s] \notin {"delete.drop", "delete.unlink"}
  BY <1>2 DEF DropFrame, FlowFrame, Others
<1> QED BY <1>1, <1>2

LEMMA NextKeepsOwnerInv == OwnerInv /\ [Next]_vars => OwnerInv'
<1> SUFFICES ASSUME OwnerInv, [Next]_vars PROVE OwnerInv'
  OBVIOUS
<1> USE DEF OwnerInv
<1>1. TypeInv'
  BY NextKeepsTypes
<1>2. CASE UNCHANGED vars
  BY <1>1, <1>2 DEF vars, stores, flow, Unanswered, RowsAreUploaders, HoldersOwn, CallerOwns,
     DeletesAreRecorded, DeletionRecorded
<1>3. CASE Next
  <2>1. PICK r \in Request : FileNext(r)
    BY <1>3 DEF Next
  <2>2. FlowFrame(r) /\ RowFrame(r) /\ EventFrame(r) /\ HoldingFrame(r) /\ DropFrame(r)
    BY <2>1, FileFlowFrame, FileRowFrame, FileEventFrame, FileHoldingFrame, FileDropFrame
  <2> QED BY <1>1, <2>2, UnansweredStays, RowsAreUploadersStays, HoldersOwnStays,
             DeletesAreRecordedStays
<1> QED BY <1>2, <1>3

LEMMA OwnerInvHolds == Spec => []OwnerInv
<1> QED BY InitOwnerInv, NextKeepsOwnerInv, PTL DEF Spec

----------------------------------------------------------------------------
(* Who changes a row, and after which event. *)

\* What a step does to the row of a file that has one.
LEMMA RowChange ==
  ASSUME OwnerInv, [Next]_vars, NEW f \in FileId, files[f] # None, files'[f] # files[f]
  PROVE  \E r \in Request :
           /\ pc[r] \in {"delete.drop", "rename.update"}
           /\ files'[f] = None => pc[r] = "delete.drop" /\ DeletionRecorded(r)
           /\ <<pc'[r], tries'[r]>> # <<pc[r], tries[r]>>
           /\ req[r].file = f
           /\ req[r].user = files[f].user
<1> USE DEF OwnerInv
<1>1. PICK r \in Request : FileNext(r)
  BY DEF Next, vars, stores
<1>2. RowFrame(r)
  BY <1>1, FileRowFrame
<1>3. /\ pc[r] \in {"delete.drop", "rename.update"} /\ req[r].file = f
      /\ pc[r] = "rename.update" => files'[f] = [user |-> files[f].user, name |-> req[r].arg]
  BY <1>2 DEF RowFrame
<1>4. files[f].user = req[r].user
  BY <1>3 DEF HoldersOwn, CallerOwns, Holding
<1>5. files'[f] = None => pc[r] = "delete.drop"
  <2>1. pc[r] = "rename.update" => files'[f] \in Row
    BY <1>3, <1>4 DEF TypeInv, Shape, ShapeAt, RenameSteps, Row
  <2> QED BY <1>3, <2>1, NoneIsNoValue
<1>6. pc[r] = "delete.drop" => DeletionRecorded(r)
  BY DEF DeletesAreRecorded
<1>7. <<pc'[r], tries'[r]>> # <<pc[r], tries[r]>>
  <2>1. tries[r] \in Nat
    BY AttemptsArePositive DEF TypeInv, TypeOK, FlowTypeOK
  <2> QED BY <1>1, <2>1, FileMoveFrame DEF MoveFrame
<1> QED BY <1>3, <1>4, <1>5, <1>6, <1>7

\* A row is changed or removed only by a step of a request of its owner,
\* although ownership was checked on a row read two awaits earlier.
THEOREM OnlyOwnersChange == Spec => OnlyOwnerChanges
<1>1. OwnerInv /\ [Next]_vars =>
        [\A f \in FileId : files[f] # None /\ files'[f] # files[f] =>
           \E r \in Request : /\ pc[r] \in {"delete.drop", "rename.update"}
                              /\ <<pc'[r], tries'[r]>> # <<pc[r], tries[r]>>
                              /\ req[r].file = f
                              /\ req[r].user = files[f].user]_vars
  BY RowChange
<1> QED BY <1>1, OwnerInvHolds, PTL DEF Spec, OnlyOwnerChanges

\* Whenever a row is removed its deletion, by its owner, is in the trail
\* already, with every kind of failure, lost acknowledgements and stops
\* among them.
THEOREM RemovalsAreRecordedFirst == Spec => RemovalIsRecordedFirst
<1>1. OwnerInv /\ [Next]_vars =>
        [\A f \in FileId : files[f] # None /\ files'[f] = None =>
           \E e \in audit : /\ e.type = "file_deleted" /\ e.file = f
                            /\ e.user = files[f].user]_vars
  <2> SUFFICES ASSUME OwnerInv, [Next]_vars, NEW f \in FileId,
                      files[f] # None, files'[f] = None
               PROVE  \E e \in audit : /\ e.type = "file_deleted" /\ e.file = f
                                       /\ e.user = files[f].user
    OBVIOUS
  <2>1. PICK r \in Request : DeletionRecorded(r) /\ req[r].file = f /\ req[r].user = files[f].user
    BY RowChange
  <2> QED BY <2>1 DEF DeletionRecorded
<1> QED BY <1>1, OwnerInvHolds, PTL DEF Spec, RemovalIsRecordedFirst

----------------------------------------------------------------------------
(* What an acknowledged upload keeps. *)

\* The row is inserted over stored bytes, unless an insert that was executed
\* is being repeated and the file has been deleted since.
BytesAreSaved == \A r \in Request : pc[r] = "upload.insert" /\ ~Deleted(r) => blobs[r] = "whole"

DurableInv == OwnerInv /\ BytesAreSaved /\ AckedUploadIsDurable

LEMMA DeletedStays ==
  ASSUME NEW r \in Request, EventFrame(r), NEW f, Deleted(f)
  PROVE  Deleted(f)'
BY DEF EventFrame, Deleted

\* The upload's own step.
LEMMA OwnUploadStaysDurable ==
  ASSUME DurableInv, NEW r \in Request, FileNext(r), ~Deleted(r)'
  PROVE  /\ pc'[r] = "upload.insert" => blobs'[r] = "whole"
         /\ r \in Uploads' /\ resp'[r] = "ok" => files'[r] # None /\ blobs'[r] = "whole"
<1> USE DEF DurableInv, OwnerInv, Went, Ended, Failed, Acked, Sets
<1>1. ~Deleted(r)
  BY FileEventFrame, DeletedStays
<1>2. pc[r] # "done" /\ resp[r] = "none" /\ (pc[r] # "idle" => req' = req)
  BY FileFlowFrame DEF FlowFrame, Unanswered
<1>3. CASE ReceiveFileOp(r)
  BY <1>2, <1>3, ReceiveEffect
<1>4. CASE UploadStep(r)
  <2>1. CASE pc[r] = "upload.save"
    BY <1>2, <1>4, <2>1, UploadEffect DEF Layer
  <2>2. CASE pc[r] = "upload.insert"
    <3>1. blobs' = blobs /\ blobs[r] = "whole"
      BY <1>1, <1>4, <2>2, UploadEffect DEF BytesAreSaved
    <3>2. resp'[r] = "ok" => files'[r] # None
      <4>1. [user |-> req[r].user, name |-> req[r].arg] \in Row
        BY <1>4, UploadEffect DEF Row
      <4> QED BY <1>2, <1>4, <2>2, <4>1, UploadEffect, NoneIsNoValue DEF Layer
    <3> QED BY <3>1, <3>2
  <2>3. CASE pc[r] = "upload.undo"
    BY <1>2, <1>4, <2>3, UploadEffect DEF Layer
  <2> QED BY <1>4, <2>1, <2>2, <2>3, UploadEffect DEF UploadSteps
<1>5. CASE DeleteStep(r) \/ RenameStep(r)
  <2>1. req[r].op # "upload" /\ req' = req /\ pc[r] # "idle"
    BY <1>2, <1>5, DeleteEffect, RenameEffect DEF DeleteSteps, RenameSteps
  <2>2. pc[r] \notin {"idle", "upload.save", "upload.insert"}
    BY <2>1 DEF TypeInv, Shape, ShapeAt, UploadSteps
  <2> QED BY <2>1, <2>2, FileMoveFrame DEF MoveFrame, Uploads
<1>6. CASE Fault(r) \/ Crash(r)
  BY <1>1, <1>2, <1>6, FailureEffect DEF stores, BytesAreSaved, Layer
<1> QED BY <1>3, <1>4, <1>5, <1>6 DEF FileNext, FileStep

\* The steps of others: only a delete takes bytes or a row, and says so first.
LEMMA OtherStepsKeepUploads ==
  ASSUME OwnerInv, NEW q \in Request, FileNext(q), NEW r \in Request, r # q, ~Deleted(r)'
  PROVE  /\ blobs[r] = "whole" => blobs'[r] = "whole"
         /\ files[r] # None => files'[r] # None
<1> USE DEF OwnerInv
<1>1. EventFrame(q) /\ RowFrame(q) /\ BlobFrame(q) /\ r \in FileId
  BY FileEventFrame, FileRowFrame, FileBlobFrame DEF FileId
<1>2. pc[q] \in {"delete.drop", "delete.unlink"} => req[q].file # r
  BY <1>1, DeletedStays DEF DeletesAreRecorded, DeletionRecorded, Deleted
<1>3. files[r] # None => files'[r] # None
  <2>1. ASSUME files'[r] = None, files[r] # None PROVE FALSE
    <3>1. [Next]_vars
      BY DEF Next
    <3>2. PICK t \in Request : DeletionRecorded(t) /\ req[t].file = r
      BY <1>1, <2>1, <3>1, RowChange
    <3> QED BY <1>1, <3>2, DeletedStays DEF DeletionRecorded, Deleted
  <2> QED BY <2>1
<1> QED BY <1>1, <1>2, <1>3 DEF BlobFrame

LEMMA NextKeepsDurableInv == DurableInv /\ [Next]_vars => DurableInv'
<1> SUFFICES ASSUME DurableInv, [Next]_vars PROVE DurableInv'
  OBVIOUS
<1>1. OwnerInv'
  BY NextKeepsOwnerInv DEF DurableInv
<1>2. CASE UNCHANGED vars
  BY <1>1, <1>2 DEF DurableInv, BytesAreSaved, AckedUploadIsDurable, Deleted, Uploads,
     vars, stores, flow
<1>3. CASE Next
  <2>1. PICK q \in Request : FileNext(q)
    BY <1>3 DEF Next
  <2>2. ASSUME NEW r \in Request, ~Deleted(r)', r # q
        PROVE  /\ pc'[r] = "upload.insert" => blobs'[r] = "whole"
               /\ r \in Uploads' /\ resp'[r] = "ok" => files'[r] # None /\ blobs'[r] = "whole"
    <3>1. ~Deleted(r)
      BY <2>1, <2>2, FileEventFrame, DeletedStays DEF DurableInv, OwnerInv
    <3>2. pc'[r] = pc[r] /\ resp'[r] = resp[r] /\ req'[r] = req[r]
      BY <2>1, <2>2, FileFlowFrame DEF FlowFrame, Others, DurableInv, OwnerInv
    <3> QED BY <2>1, <2>2, <3>1, <3>2, OtherStepsKeepUploads
            DEF DurableInv, BytesAreSaved, AckedUploadIsDurable, Uploads
  <2> QED BY <1>1, <2>1, <2>2, OwnUploadStaysDurable
          DEF DurableInv, BytesAreSaved, AckedUploadIsDurable, Uploads
<1> QED BY <1>2, <1>3

\* An acknowledged upload has its row and its whole bytes until its deletion
\* is in the trail, with every kind of failure: also when the insert was
\* repeated because its acknowledgement got lost.
THEOREM AckedUploadsAreDurable == Spec => []AckedUploadIsDurable
<1>1. Init => DurableInv
  <2>1. Init => \A r \in Request : pc[r] = "idle" /\ resp[r] = "none"
    BY DEF Init, FlowInit
  <2> QED BY <2>1, InitOwnerInv DEF DurableInv, BytesAreSaved, AckedUploadIsDurable, Uploads
<1>2. DurableInv => AckedUploadIsDurable
  BY DEF DurableInv
<1> QED BY <1>1, <1>2, NextKeepsDurableInv, PTL DEF Spec

----------------------------------------------------------------------------
(* What a refused request has not done, and how many events one can have.  *)

\* The steps before the one that records the event.
BeforeEvent == {"idle", "delete.find", "rename.find", "rename.update"} \cup UploadSteps

AtFileStep ==
  \A r \in Request : pc[r] \in {"idle", "done"} \cup UploadSteps \cup DeleteSteps \cup RenameSteps

NoEventYet == \A r \in Request : pc[r] \in BeforeEvent => EventsBy(r) = {}

\* Nobody stores bytes for an upload that has not arrived.
NoBytesYet == \A r \in Request : pc[r] = "idle" => blobs[r] = "absent"

\* The events of a request are told apart by the attempt that inserted them.
\* While it is at the step that records, the next attempt is none of them.
EventsAreNumbered ==
  \A r \in Request : \A e \in EventsBy(r) :
    /\ e.id = <<r, e.id[2]>> /\ e.id[2] \in 1 .. MaxAttempts
    /\ pc[r] \in {"delete.audit", "rename.audit"} => e.id[2] < tries[r]
    /\ \A d \in EventsBy(r) : d.id = e.id => d = e

TrailInv ==
  /\ OwnerInv
  /\ AtFileStep
  /\ NoEventYet
  /\ NoBytesYet
  /\ EventsAreNumbered
  /\ RefusedChangesNothing

\* Events of a request come from its own steps at which it records.
LEMMA EventsOfRequest ==
  ASSUME OwnerInv, NEW q \in Request, FileNext(q), NEW r \in Request
  PROVE  \/ EventsBy(r)' = EventsBy(r)
         \/ /\ r = q /\ pc[r] \in {"delete.audit", "rename.audit"}
            /\ EventsBy(r)' = EventsBy(r) \cup {NewEvent(r)}
            /\ pc'[r] # pc[r] \/ "unacked" \in Faults
<1> USE DEF OwnerInv, EventsBy
<1>1. CASE audit' = audit
  BY <1>1
<1>2. CASE audit' # audit
  <2>1. /\ audit' = audit \cup {NewEvent(q)} /\ pc[q] \in {"delete.audit", "rename.audit"}
        /\ pc'[q] # pc[q] \/ "unacked" \in Faults
    BY <1>2, FileEvents
  <2>2. NewEvent(q).id[1] = q
    BY NewEventFields
  <2> QED BY <2>1, <2>2
<1> QED BY <1>1, <1>2

LEMMA NoEventYetStays ==
  ASSUME TrailInv, NEW q \in Request, FileNext(q)
  PROVE  AtFileStep' /\ NoEventYet'
<1> USE DEF TrailInv, OwnerInv
<1>1. MoveFrame(q) /\ Others(q) /\ pc[q] # "done" /\ pc'[q] # "idle"
  BY FileMoveFrame, FileFlowFrame DEF FlowFrame
<1>2. AtFileStep'
  BY <1>1 DEF AtFileStep, MoveFrame, Others, UploadSteps, DeleteSteps, RenameSteps
<1>3. ASSUME NEW r \in Request, pc'[r] \in BeforeEvent
      PROVE  pc[r] \in BeforeEvent /\ (r = q => pc[r] \notin {"delete.audit", "rename.audit"})
  BY <1>1, <1>3 DEF MoveFrame, Others, BeforeEvent, UploadSteps, AtFileStep, DeleteSteps,
     RenameSteps
<1> QED BY <1>2, <1>3, EventsOfRequest DEF NoEventYet

LEMMA NoBytesYetStays ==
  ASSUME TrailInv, NEW q \in Request, FileNext(q)
  PROVE  NoBytesYet'
<1> SUFFICES ASSUME NEW r \in Request, pc'[r] = "idle" PROVE blobs'[r] = "absent"
  BY DEF NoBytesYet
<1>1. BlobFrame(q) /\ FlowFrame(q) /\ r \in FileId
  BY FileBlobFrame, FileFlowFrame DEF TrailInv, OwnerInv, FileId
<1>2. r # q /\ pc[r] = "idle" /\ blobs[r] = "absent"
  BY <1>1 DEF FlowFrame, Others, TrailInv, NoBytesYet
<1> QED BY <1>1, <1>2 DEF BlobFrame

LEMMA EventsAreNumberedStays ==
  ASSUME TrailInv, NEW q \in Request, FileNext(q)
  PROVE  EventsAreNumbered'
<1> USE DEF TrailInv, OwnerInv
<1> SUFFICES ASSUME NEW r \in Request, NEW e \in EventsBy(r)'
             PROVE  /\ e.id = <<r, e.id[2]>> /\ e.id[2] \in 1 .. MaxAttempts
                    /\ pc'[r] \in {"delete.audit", "rename.audit"} => e.id[2] < tries'[r]
                    /\ \A d \in EventsBy(r)' : d.id = e.id => d = e
  BY DEF EventsAreNumbered
<1>1. MoveFrame(q) /\ Others(q) /\ tries[r] \in 1 .. MaxAttempts /\ MaxAttempts \in Nat
  BY FileMoveFrame, FileFlowFrame, AttemptsArePositive
  DEF FlowFrame, TypeInv, TypeOK, FlowTypeOK
<1>2. CASE EventsBy(r)' = EventsBy(r)
  <2>1. /\ e.id = <<r, e.id[2]>> /\ e.id[2] \in 1 .. MaxAttempts
        /\ pc[r] \in {"delete.audit", "rename.audit"} => e.id[2] < tries[r]
        /\ \A d \in EventsBy(r)' : d.id = e.id => d = e
    BY <1>2 DEF EventsAreNumbered
  <2>2. ASSUME pc'[r] \in {"delete.audit", "rename.audit"} PROVE e.id[2] < tries'[r]
    <3>1. r # q => pc'[r] = pc[r] /\ tries'[r] = tries[r]
      BY <1>1 DEF Others
    <3>2. r = q => pc'[r] = pc[r] /\ tries'[r] = tries[r] + 1
      BY <1>1, <1>2, <2>2 DEF MoveFrame, NoEventYet, BeforeEvent
    <3> QED BY <1>1, <2>1, <2>2, <3>1, <3>2
  <2> QED BY <2>1, <2>2
<1>3. CASE /\ r = q /\ pc[r] \in {"delete.audit", "rename.audit"}
           /\ EventsBy(r)' = EventsBy(r) \cup {NewEvent(r)}
  <2>1. NewEvent(r).id = <<r, tries[r]>>
    BY NewEventFields
  <2>2. \A d \in EventsBy(r) : d.id = <<r, d.id[2]>> /\ d.id[2] \in 1 .. MaxAttempts
                               /\ d.id[2] < tries[r]
    BY <1>3 DEF EventsAreNumbered
  <2>3. \A d \in EventsBy(r) : d.id # NewEvent(r).id
    BY <1>1, <2>1, <2>2
  <2>4. pc'[r] \in {"delete.audit", "rename.audit"} => tries'[r] = tries[r] + 1
    BY <1>1, <1>3 DEF MoveFrame
  <2> QED BY <1>1, <1>3, <2>1, <2>2, <2>3, <2>4 DEF EventsAreNumbered
<1> QED BY <1>2, <1>3, EventsOfRequest

LEMMA RefusedChangesNothingStays ==
  ASSUME TrailInv, NEW q \in Request, FileNext(q)
  PROVE  RefusedChangesNothing'
<1> USE DEF TrailInv, OwnerInv
<1> SUFFICES ASSUME NEW r \in Request, resp'[r] \in HttpErrorCode
             PROVE  /\ EventsBy(r)' = {}
                    /\ r \in Uploads' => files'[r] = None /\ blobs'[r] = "absent"
  BY DEF RefusedChangesNothing
<1>1. r \in FileId /\ FlowFrame(q) /\ RowFrame(q) /\ BlobFrame(q)
  BY FileFlowFrame, FileRowFrame, FileBlobFrame DEF FileId
<1>2. CASE r # q
  <2>1. resp[r] \in HttpErrorCode /\ req'[r] = req[r] /\ EventsBy(r)' = EventsBy(r)
    BY <1>1, <1>2, EventsOfRequest DEF FlowFrame, Others
  <2>2. r \in Uploads' => files[r] = None /\ blobs[r] = "absent"
    BY <2>1 DEF RefusedChangesNothing, Uploads
  <2>3. r \in Uploads' => pc[r] # "idle" /\ req[r].op = "upload"
    BY <1>2, <2>1 DEF Uploads, Unanswered
  <2>4. ASSUME r \in Uploads' PROVE files'[r] = None
    BY <1>1, <1>2, <2>2, <2>4 DEF RowFrame
  <2>5. ASSUME r \in Uploads' PROVE blobs'[r] = "absent"
    BY <1>1, <1>2, <2>2, <2>5 DEF BlobFrame
  <2> QED BY <2>1, <2>4, <2>5 DEF RefusedChangesNothing
<1>3. CASE r = q
  <2>1. pc'[r] = "done" /\ resp[r] = "none" /\ pc[r] # "done"
    BY <1>1, <1>3 DEF FlowFrame, Unanswered, HttpErrorCode
  <2>2. pc[r] \in {"idle", "delete.find", "rename.find"} /\ UNCHANGED stores
    BY <1>3, <2>1, FileAnswers
    DEF HttpErrorCode, AtFileStep, UploadSteps, DeleteSteps, RenameSteps
  <2>3. EventsBy(r)' = {}
    BY <2>2 DEF NoEventYet, BeforeEvent, EventsBy, stores
  <2>4. r \in Uploads' => pc[r] = "idle"
    BY <1>1, <1>3, <2>2
    DEF FlowFrame, Uploads, TypeInv, Shape, ShapeAt, DeleteSteps, RenameSteps
  <2>5. pc[r] = "idle" => files[r] = None /\ blobs[r] = "absent"
    BY DEF NoBytesYet, RowsAreUploaders
  <2> QED BY <2>2, <2>3, <2>4, <2>5 DEF stores
<1> QED BY <1>2, <1>3

LEMMA TrailInvHolds == Spec => []TrailInv
<1>1. Init => TrailInv
  <2> SUFFICES ASSUME Init PROVE TrailInv
    OBVIOUS
  <2>1. \A r \in Request : pc[r] = "idle" /\ resp[r] = "none" /\ blobs[r] = "absent"
    BY DEF Init, FlowInit, StoresInit, FileId
  <2>2. \A e \in audit : e.id[1] \in StoredLink
    BY DEF Init, StoresInit
  <2>3. \A r \in Request : EventsBy(r) = {}
    BY <2>2, IdsAreDistinct DEF EventsBy
  <2> QED BY <2>1, <2>3, InitOwnerInv DEF TrailInv, AtFileStep, NoEventYet, NoBytesYet,
             EventsAreNumbered, RefusedChangesNothing, HttpErrorCode
<1>2. TrailInv /\ [Next]_vars => TrailInv'
  <2> SUFFICES ASSUME TrailInv, [Next]_vars PROVE TrailInv'
    OBVIOUS
  <2>1. OwnerInv'
    BY NextKeepsOwnerInv DEF TrailInv
  <2>2. CASE UNCHANGED vars
    BY <2>1, <2>2 DEF TrailInv, AtFileStep, NoEventYet, NoBytesYet, EventsAreNumbered,
       RefusedChangesNothing, EventsBy, Uploads, vars, stores, flow
  <2>3. CASE Next
    BY <2>1, <2>3, NoEventYetStays, NoBytesYetStays, EventsAreNumberedStays,
       RefusedChangesNothingStays DEF TrailInv, Next
  <2> QED BY <2>2, <2>3
<1> QED BY <1>1, <1>2, PTL DEF Spec

\* Whoever is refused has changed nothing, with every kind of failure.
THEOREM RefusalsChangeNothing == Spec => []RefusedChangesNothing
<1>1. TrailInv => RefusedChangesNothing
  BY DEF TrailInv
<1> QED BY <1>1, TrailInvHolds, PTL

\* At most one event per attempt: a lost acknowledgement can double an event,
\* and nothing can make more of it than the retry policy has attempts.
THEOREM EventsAreBounded == Spec => []EventsBounded
<1>1. ASSUME TrailInv, NEW r \in Request
      PROVE  Cardinality(EventsBy(r)) <= MaxAttempts
  <2> DEFINE number == [e \in EventsBy(r) |-> e.id[2]]
  <2>1. number \in Injection(EventsBy(r), 1 .. MaxAttempts)
    <3>1. \A e \in EventsBy(r) : number[e] \in 1 .. MaxAttempts
      BY <1>1 DEF TrailInv, EventsAreNumbered
    <3>2. \A d, e \in EventsBy(r) : number[d] = number[e] => d = e
      <4> SUFFICES ASSUME NEW d \in EventsBy(r), NEW e \in EventsBy(r), d.id[2] = e.id[2]
                   PROVE  d = e
        OBVIOUS
      <4>1. d.id = <<r, d.id[2]>> /\ e.id = <<r, e.id[2]>>
        BY <1>1 DEF TrailInv, EventsAreNumbered
      <4>2. d.id = e.id
        BY <4>1
      <4> QED BY <1>1, <4>2 DEF TrailInv, EventsAreNumbered
    <3> QED BY <3>1, <3>2 DEF Injection, IsInjective
  <2>2. IsFiniteSet(1 .. MaxAttempts) /\ Cardinality(1 .. MaxAttempts) = MaxAttempts
    BY AttemptsArePositive, FS_Interval
  <2>3. Cardinality(EventsBy(r)) <= Cardinality(1 .. MaxAttempts)
    BY <2>1, <2>2, FS_Injection
  <2> QED BY <2>2, <2>3
<1>2. TrailInv => EventsBounded
  BY <1>1 DEF EventsBounded
<1> QED BY <1>2, TrailInvHolds, PTL

----------------------------------------------------------------------------
(* The cause of the one answer that stands for no error class. *)

\* Whoever acts on a file that was his, and is gone, finds its deletion in
\* the trail; so does a rename whose UPDATE found no row.
HoldersSeeDeletion ==
  \A r \in Request : pc[r] \in Holding /\ files[req[r].file] = None => Deleted(req[r].file)

MissedIsDeleted ==
  \A r \in Request : pc[r] = "rename.audit" /\ held[r] = None => Deleted(req[r].file)

CauseInv ==
  /\ TrailInv
  /\ HoldersSeeDeletion
  /\ MissedIsDeleted
  /\ UnclassifiedErrorHasCause

LEMMA HoldersSeeDeletionStays ==
  ASSUME OwnerInv, HoldersSeeDeletion, NEW q \in Request, FileNext(q)
  PROVE  HoldersSeeDeletion'
<1> USE DEF OwnerInv
<1> SUFFICES ASSUME NEW r \in Request, pc'[r] \in Holding, files'[req'[r].file] = None
             PROVE  Deleted(req[r].file)'
  BY DEF HoldersSeeDeletion
<1>1. FlowFrame(q) /\ MoveFrame(q) /\ EventFrame(q) /\ [Next]_vars
  BY FileFlowFrame, FileMoveFrame, FileEventFrame DEF Next
<1>2. /\ pc[r] \in Holding \/ (files[req[r].file] # None /\ files' = files)
      /\ pc[r] # "idle" /\ req'[r] = req[r]
  BY <1>1 DEF FlowFrame, Others, MoveFrame, Holding, Owned
<1>3. req[r].file \in FileId
  BY <1>2 DEF TypeInv, Shape, ShapeAt, Command
<1>4. CASE files[req[r].file] = None
  BY <1>1, <1>2, <1>4, DeletedStays DEF HoldersSeeDeletion, Deleted
<1>5. CASE files[req[r].file] # None
  <2>1. PICK t \in Request : DeletionRecorded(t) /\ req[t].file = req[r].file
    BY <1>1, <1>2, <1>3, <1>5, RowChange
  <2> QED BY <1>1, <1>2, <2>1, DeletedStays DEF DeletionRecorded, Deleted
<1> QED BY <1>4, <1>5

LEMMA MissedIsDeletedStays ==
  ASSUME CauseInv, NEW q \in Request, FileNext(q)
  PROVE  MissedIsDeleted'
<1> USE DEF CauseInv, TrailInv, OwnerInv
<1> SUFFICES ASSUME NEW r \in Request, pc'[r] = "rename.audit", held'[r] = None
             PROVE  Deleted(req[r].file)'
  BY DEF MissedIsDeleted
<1>1. FlowFrame(q) /\ MoveFrame(q) /\ EventFrame(q)
  BY FileFlowFrame, FileMoveFrame, FileEventFrame
<1>2. /\ pc[r] = "rename.audit" \/ (r = q /\ pc[r] = "rename.update")
      /\ pc[r] # "idle" /\ req'[r] = req[r]
  BY <1>1 DEF FlowFrame, Others, MoveFrame
<1>3. CASE pc[r] = "rename.audit"
  <2>1. held'[r] = held[r]
    <3>1. CASE r # q
      BY <1>1, <3>1 DEF FlowFrame, Others
    <3>2. CASE r = q
      BY <1>3, <3>2, ReceiveEffect, UploadEffect, DeleteEffect, RenameEffect, FailureEffect
      DEF FileNext, FileStep, UploadSteps, DeleteSteps
    <3> QED BY <3>1, <3>2
  <2> QED BY <1>1, <1>2, <1>3, <2>1, DeletedStays DEF MissedIsDeleted, Deleted
<1>4. CASE r = q /\ pc[r] = "rename.update"
  <2>1. RenameStep(r)
    BY <1>4, ReceiveEffect, UploadEffect, DeleteEffect, FailureEffect
    DEF FileNext, FileStep, UploadSteps, DeleteSteps, Failed, Ended, Went
  <2>2. files'[req[r].file] = None
    BY <1>4, <2>1, RenameEffect DEF Failed, Ended, Went
  <2>3. HoldersSeeDeletion'
    BY <1>4, HoldersSeeDeletionStays
  <2> QED BY <1>2, <2>2, <2>3 DEF HoldersSeeDeletion, Holding
<1> QED BY <1>2, <1>3, <1>4

LEMMA CauseInvHolds == Spec => []CauseInv
<1>1. Init => HoldersSeeDeletion /\ MissedIsDeleted /\ UnclassifiedErrorHasCause
  <2>1. Init => \A r \in Request : pc[r] = "idle" /\ resp[r] = "none"
    BY DEF Init, FlowInit
  <2> QED BY <2>1 DEF HoldersSeeDeletion, MissedIsDeleted, UnclassifiedErrorHasCause, Holding
<1> DEFINE Causes == HoldersSeeDeletion /\ MissedIsDeleted /\ UnclassifiedErrorHasCause
<1>2. Causes /\ TrailInv /\ [Next]_vars => Causes'
  <2> SUFFICES ASSUME CauseInv, [Next]_vars PROVE Causes'
    BY DEF CauseInv
  <2> USE DEF CauseInv, TrailInv, OwnerInv
  <2>1. CASE UNCHANGED vars
    BY <2>1 DEF HoldersSeeDeletion, MissedIsDeleted, UnclassifiedErrorHasCause, Deleted,
       vars, stores, flow
  <2>2. ASSUME NEW q \in Request, FileNext(q) PROVE UnclassifiedErrorHasCause'
    <3> SUFFICES ASSUME NEW r \in Request, resp'[r] = "INTERNAL"
                 PROVE  req'[r].op = "rename" /\ Deleted(req[r].file)'
      BY DEF UnclassifiedErrorHasCause
    <3>1. FlowFrame(q) /\ EventFrame(q)
      BY <2>2, FileFlowFrame, FileEventFrame
    <3>2. CASE resp[r] = "INTERNAL"
      <4>1. req[r].op = "rename" /\ Deleted(req[r].file) /\ req'[r] = req[r]
        BY <3>1, <3>2 DEF UnclassifiedErrorHasCause, FlowFrame, Others, Unanswered
      <4> QED BY <3>1, <4>1, DeletedStays DEF Deleted
    <3>3. CASE resp[r] # "INTERNAL"
      <4>1. r = q /\ pc'[r] = "done"
        BY <3>1, <3>3 DEF FlowFrame, Others
      <4>2. pc[r] = "rename.audit" /\ held[r] = None
        BY <2>2, <4>1, FileAnswers DEF HttpErrorCode
      <4>3. req'[r] = req[r] /\ req[r].op = "rename" /\ Deleted(req[r].file)
        BY <3>1, <4>1, <4>2 DEF FlowFrame, MissedIsDeleted, TypeInv, Shape, ShapeAt, RenameSteps
      <4> QED BY <3>1, <4>3, DeletedStays DEF Deleted
    <3> QED BY <3>2, <3>3
  <2> QED BY <2>1, <2>2, HoldersSeeDeletionStays, MissedIsDeletedStays DEF Next
<1>3. Causes /\ TrailInv => CauseInv
  BY DEF CauseInv
<1> HIDE DEF Causes
<1>4. Init => Causes
  BY <1>1 DEF Causes
<1> QED BY <1>2, <1>3, <1>4, TrailInvHolds, PTL DEF Spec

\* A rename is told INTERNAL only when the deletion of its file is in the
\* trail; no other request is ever told so.
THEOREM UnclassifiedErrorsHaveCause == Spec => []UnclassifiedErrorHasCause
<1>1. CauseInv => UnclassifiedErrorHasCause
  BY DEF CauseInv
<1> QED BY <1>1, CauseInvHolds, PTL

----------------------------------------------------------------------------
(* What holds when every statement that was executed is acknowledged: no   *)
(* event is repeated, and every orphan has a keeper or an excuse.          *)

\* A request has no event before it has gone past the step that records one.
NoEventBefore ==
  \A r \in Request :
    pc[r] \in BeforeEvent \cup {"delete.audit", "rename.audit"} => EventsBy(r) = {}

RecordedBy(r) ==
  \E e \in EventsBy(r) :
    /\ e.type = (IF req[r].op = "delete" THEN "file_deleted" ELSE "file_renamed")
    /\ e.file = req[r].file /\ e.user = req[r].user
    /\ req[r].op = "rename" => e.name = req[r].arg

DeletesHaveRecorded ==
  \A r \in Request : pc[r] \in {"delete.drop", "delete.unlink"} => RecordedBy(r)

OnceInv == TrailInv /\ NoEventBefore /\ DeletesHaveRecorded /\ OneEventPerRequest

LEMMA OwnEventOnce ==
  ASSUME OnceInv, NEW r \in Request, FileNext(r), "unacked" \notin Faults
  PROVE  /\ pc'[r] \in BeforeEvent \cup {"delete.audit", "rename.audit"} => EventsBy(r)' = {}
         /\ pc'[r] \in {"delete.drop", "delete.unlink"} => RecordedBy(r)'
         /\ \A d, e \in EventsBy(r)' : d = e
         /\ resp'[r] = "ok" /\ req'[r].op \in {"delete", "rename"} => RecordedBy(r)'
<1> USE DEF OnceInv, TrailInv, OwnerInv
<1>1. FlowFrame(r) /\ MoveFrame(r) /\ EventFrame(r)
  BY FileFlowFrame, FileMoveFrame, FileEventFrame
<1>2. /\ pc[r] = "delete.audit" /\ pc'[r] = "delete.drop" => RecordedBy(r)'
      /\ pc[r] = "rename.audit" /\ pc'[r] = "done" /\ resp'[r] = "ok" => RecordedBy(r)'
  <2>1. NewEvent(r) \in audit' => NewEvent(r) \in EventsBy(r)'
    BY NewEventFields DEF EventsBy
  <2>2. pc[r] \in {"delete.audit", "rename.audit"} => req' = req
    BY <1>1 DEF FlowFrame
  <2>3. /\ pc[r] = "delete.audit" => req[r].op = "delete"
        /\ pc[r] = "rename.audit" => req[r].op = "rename"
    BY DEF TypeInv, Shape, ShapeAt, DeleteSteps, RenameSteps
  <2> QED BY <2>1, <2>2, <2>3, FileEvents, NewEventFields DEF RecordedBy
<1>3. pc[r] \in {"delete.drop", "delete.unlink"} => RecordedBy(r)'
  BY <1>1 DEF DeletesHaveRecorded, RecordedBy, FlowFrame, EventFrame, EventsBy
<1>4. resp'[r] = "ok" /\ req'[r].op \in {"delete", "rename"} => RecordedBy(r)'
  <2> SUFFICES ASSUME resp'[r] = "ok", req'[r].op \in {"delete", "rename"} PROVE RecordedBy(r)'
    OBVIOUS
  <2>1. pc'[r] = "done"
    BY <1>1 DEF FlowFrame, Unanswered
  <2>2. pc[r] \in {"upload.insert", "delete.unlink", "rename.audit"}
    BY <2>1, FileAnswers DEF HttpErrorCode
  <2>3. pc[r] # "upload.insert"
    BY <1>1 DEF FlowFrame, TypeInv, Shape, ShapeAt, UploadSteps
  <2> QED BY <1>2, <1>3, <2>1, <2>2, <2>3
<1>5. \/ EventsBy(r)' = EventsBy(r)
      \/ /\ pc[r] \in {"delete.audit", "rename.audit"} /\ pc'[r] # pc[r]
         /\ EventsBy(r)' = {NewEvent(r)}
  BY EventsOfRequest DEF NoEventBefore
<1>6. \A d, e \in EventsBy(r)' : d = e
  BY <1>5 DEF OneEventPerRequest
<1>7. pc'[r] \in BeforeEvent \cup {"delete.audit", "rename.audit"} =>
        /\ pc[r] \in BeforeEvent \cup {"delete.audit", "rename.audit"}
        /\ pc[r] \in {"delete.audit", "rename.audit"} => pc'[r] = pc[r]
  BY <1>1 DEF MoveFrame, FlowFrame, BeforeEvent, UploadSteps, AtFileStep, DeleteSteps, RenameSteps
<1>8. pc'[r] \in {"delete.drop", "delete.unlink"} => RecordedBy(r)'
  BY <1>1, <1>2, <1>3 DEF MoveFrame
<1> QED BY <1>4, <1>5, <1>6, <1>7, <1>8 DEF NoEventBefore

\* An acknowledged delete or rename has exactly one event, which tells what was
\* done, to which file and by whom, of a rename also the new name; and no
\* request has two.
THEOREM OneEventEach ==
  ASSUME "unacked" \notin Faults
  PROVE  Spec => []OneEventPerRequest
<1> DEFINE Once == NoEventBefore /\ DeletesHaveRecorded /\ OneEventPerRequest
<1>1. Init => Once
  <2> SUFFICES ASSUME Init PROVE Once
    OBVIOUS
  <2>1. \A r \in Request : pc[r] = "idle" /\ resp[r] = "none"
    BY DEF Init, FlowInit
  <2>2. \A e \in audit : e.id[1] \in StoredLink
    BY DEF Init, StoresInit
  <2>3. \A r \in Request : EventsBy(r) = {}
    BY <2>2, IdsAreDistinct DEF EventsBy
  <2> QED BY <2>1, <2>3 DEF NoEventBefore, DeletesHaveRecorded, OneEventPerRequest
<1>2. Once /\ TrailInv /\ [Next]_vars => Once'
  <2> SUFFICES ASSUME OnceInv, [Next]_vars PROVE Once'
    BY DEF OnceInv
  <2>1. CASE UNCHANGED vars
    BY <2>1 DEF OnceInv, NoEventBefore, DeletesHaveRecorded, OneEventPerRequest, RecordedBy,
       EventsBy, vars, stores, flow
  <2>2. CASE Next
    <3>1. PICK q \in Request : FileNext(q)
      BY <2>2 DEF Next
    <3>2. ASSUME NEW r \in Request, r # q
          PROVE  /\ pc'[r] = pc[r] /\ resp'[r] = resp[r] /\ req'[r] = req[r]
                 /\ EventsBy(r)' = EventsBy(r)
      BY <3>1, <3>2, FileFlowFrame, EventsOfRequest
      DEF OnceInv, TrailInv, OwnerInv, FlowFrame, Others
    <3>3. NoEventBefore'
      BY <3>1, <3>2, OwnEventOnce DEF OnceInv, NoEventBefore
    <3>4. DeletesHaveRecorded'
      BY <3>1, <3>2, OwnEventOnce DEF OnceInv, DeletesHaveRecorded, RecordedBy
    <3>5. OneEventPerRequest'
      BY <3>1, <3>2, OwnEventOnce DEF OnceInv, OneEventPerRequest, RecordedBy
    <3> QED BY <3>3, <3>4, <3>5
  <2> QED BY <2>1, <2>2
<1>3. Once => OneEventPerRequest
  OBVIOUS
<1> HIDE DEF Once
<1> QED BY <1>1, <1>2, <1>3, TrailInvHolds, PTL DEF Spec

\* The request that answers for bytes without a row.
Keeps(r, f) ==
  /\ req[r] # None /\ req[r].file = f /\ req[r].op \in {"upload", "delete"}
  /\ \/ pc[r] \in {"upload.save", "upload.insert", "upload.undo", "delete.unlink"}
     \/ resp[r] \in {"storage", "lost"}

\* A keeper keeps, unless its own step ends the matter.
LEMMA KeeperKeeps ==
  ASSUME TrailInv, NEW q \in Request, FileNext(q), "unacked" \notin Faults,
         NEW r \in Request, NEW f \in FileId, Keeps(r, f)
  PROVE  Keeps(r, f)' \/ blobs'[f] = "absent" \/ files'[f] # None
<1> USE DEF TrailInv, OwnerInv
<1>1. FlowFrame(q) /\ MoveFrame(q)
  BY FileFlowFrame, FileMoveFrame
<1>2. req'[r] = req[r]
  BY <1>1 DEF Keeps, FlowFrame, Others, Unanswered
<1>3. CASE r # q \/ pc[r] = "done"
  BY <1>1, <1>2, <1>3 DEF Keeps, FlowFrame, Others
<1>4. CASE r = q /\ pc[r] # "done"
  <2>1. pc[r] \in {"upload.save", "upload.insert", "upload.undo", "delete.unlink"}
    BY <1>4 DEF Keeps, Unanswered
  <2>2. CASE pc'[r] # "done"
    BY <1>1, <1>2, <1>4, <2>1, <2>2 DEF Keeps, MoveFrame, FlowFrame
  <2>3. CASE pc'[r] = "done" /\ resp'[r] \in {"storage", "lost"}
    BY <1>2, <2>3 DEF Keeps
  <2>4. CASE pc'[r] = "done" /\ resp'[r] \notin {"storage", "lost"}
    <3>1. \/ resp'[r] = "ok" /\ pc[r] \in {"upload.insert", "delete.unlink"}
          \/ pc[r] = "upload.undo" /\ blobs'[r] = "absent"
      BY <1>4, <2>1, <2>4, FileAnswers DEF StorageStep, HttpErrorCode
    <3>2. UploadStep(r) \/ DeleteStep(r) \/ pc[r] = "upload.undo"
      BY <1>4, <2>1, <2>4, <3>1, ReceiveEffect, RenameEffect, FailureEffect
      DEF FileNext, FileStep, Failed, Ended, Went, Layer, StorageStep, RenameSteps
    <3>3. CASE pc[r] = "upload.insert"
      <4>1. files'[r] = [user |-> req[r].user, name |-> req[r].arg]
        BY <2>4, <3>1, <3>2, <3>3, UploadEffect, DeleteEffect
        DEF Sets, DeleteSteps, Went, Ended, Acked
      <4>2. req[r].user \in User /\ req[r].arg \in Name /\ f = r
        BY <3>3 DEF TypeInv, Shape, ShapeAt, UploadSteps, Keeps
      <4> QED BY <4>1, <4>2, NoneIsNoValue DEF Row
    <3>4. CASE pc[r] = "delete.unlink"
      BY <3>2, <3>4, UploadEffect, DeleteEffect DEF Sets, UploadSteps, Keeps
    <3>5. CASE pc[r] = "upload.undo"
      BY <3>1, <3>5 DEF TypeInv, Shape, ShapeAt, UploadSteps, Keeps
    <3> QED BY <3>1, <3>3, <3>4, <3>5
  <2> QED BY <2>2, <2>3, <2>4
<1> QED BY <1>3, <1>4

\* Bytes come without a row, or stay behind one, only at a keeper's step.
LEMMA OrphanHasKeeper ==
  ASSUME TrailInv, NEW q \in Request, FileNext(q), "unacked" \notin Faults, NEW f \in FileId,
         blobs'[f] # "absent", files'[f] = None, blobs[f] = "absent" \/ files[f] # None
  PROVE  Keeps(q, f)'
<1> USE DEF TrailInv, OwnerInv
<1>1. FlowFrame(q) /\ MoveFrame(q) /\ RowFrame(q) /\ BlobFrame(q) /\ [Next]_vars
  BY FileFlowFrame, FileMoveFrame, FileRowFrame, FileBlobFrame DEF Next
<1>2. CASE files[f] # None
  <2>1. pc[q] = "delete.drop" /\ f = req[q].file
    <3>1. pc[q] = "rename.update" => [user |-> files[f].user, name |-> req[q].arg] \in Row
      <4>1. files[f] \in Row
        BY <1>2 DEF TypeInv, TypeOK, StoresTypeOK
      <4> QED BY <4>1 DEF TypeInv, Shape, ShapeAt, Row
    <3> QED BY <1>1, <1>2, <3>1, NoneIsNoValue DEF RowFrame
  <2>2. req' = req /\ req[q] \in Command /\ req[q].op = "delete"
    BY <1>1, <2>1 DEF FlowFrame, TypeInv, Shape, ShapeAt, DeleteSteps
  <2>3. DeleteStep(q)
    BY <1>2, <2>1, ReceiveEffect, UploadEffect, RenameEffect, FailureEffect
    DEF FileNext, FileStep, stores, UploadSteps, RenameSteps
  <2>4. pc'[q] = "delete.unlink"
    BY <2>1, <2>3, DeleteEffect DEF Acked, Went
  <2> QED BY <2>1, <2>2, <2>4, NoneIsNoCommand DEF Keeps
<1>3. CASE files[f] = None
  <2>1. pc[q] = "upload.save" /\ f = q /\ blobs'[f] # blobs[f]
    BY <1>1, <1>3 DEF BlobFrame
  <2>2. req' = req /\ req[q] \in Command /\ req[q].op = "upload" /\ req[q].file = q
    BY <1>1, <2>1 DEF FlowFrame, TypeInv, Shape, ShapeAt, UploadSteps
  <2>3. pc'[q] \in {"upload.save", "upload.insert"} \/ resp'[q] \in {"storage", "lost"}
    BY <1>1, <2>1, FileAnswers DEF MoveFrame, StorageStep
  <2> QED BY <2>1, <2>2, <2>3, NoneIsNoCommand DEF Keeps
<1> QED BY <1>2, <1>3

\* Bytes without a row are the business of a request that is at work, was
\* stopped, or told its client that the storage failed.
THEOREM OrphansAreExplained ==
  ASSUME "unacked" \notin Faults
  PROVE  Spec => []OrphanExplained
<1>1. Init => OrphanExplained
  <2>1. Init => \A f \in FileId : files[f] = None => blobs[f] = "absent"
    BY DEF Init, StoresInit
  <2> QED BY <2>1 DEF OrphanExplained
<1>2. TrailInv /\ OrphanExplained /\ [Next]_vars => OrphanExplained'
  <2> SUFFICES ASSUME TrailInv, OrphanExplained, [Next]_vars,
                      NEW f \in FileId, blobs'[f] # "absent", files'[f] = None
               PROVE  \E r \in Request : Keeps(r, f)'
    BY DEF OrphanExplained, Keeps
  <2>1. CASE UNCHANGED vars
    BY <2>1 DEF OrphanExplained, Keeps, vars, stores, flow
  <2>2. CASE Next
    <3>1. PICK q \in Request : FileNext(q)
      BY <2>2 DEF Next
    <3>2. CASE blobs[f] # "absent" /\ files[f] = None
      <4>1. PICK r \in Request : Keeps(r, f)
        BY <3>2 DEF OrphanExplained, Keeps
      <4>2. Keeps(r, f)'
        BY <3>1, <4>1, KeeperKeeps
      <4> QED BY <4>2
    <3>3. CASE blobs[f] = "absent" \/ files[f] # None
      BY <3>1, <3>3, OrphanHasKeeper
    <3> QED BY <3>2, <3>3
  <2> QED BY <2>1, <2>2
<1> QED BY <1>1, <1>2, TrailInvHolds, PTL DEF Spec

----------------------------------------------------------------------------
(* Which names a file has had. *)

RowNamesGiven == \A f \in Request : files[f] # None => files[f].name \in GivenNames(f)

\* The name in a row that was read before others renamed it.
SeenNamesGiven ==
  \A r \in Request : pc[r] \in Holding /\ req[r].file \in Request =>
    seen[r].name \in GivenNames(req[r].file)

\* No event is older than the file it tells of.
EventsOfUploads == \A e \in audit : e.file \in Request => e.file \in Uploads

\* What the UPDATE of a rename returned is held from its next step on.
HeldAfterUpdate ==
  \A r \in Request : pc[r] \notin {"rename.audit", "done"} => held[r] = None

RenamersAreBeyond ==
  \A e \in audit : e.type = "file_renamed" =>
    e.id[1] \in Request /\ pc[e.id[1]] \in {"rename.audit", "done"}

NamesInv ==
  /\ CauseInv
  /\ HeldAfterUpdate
  /\ RenamersAreBeyond
  /\ RowNamesGiven
  /\ SeenNamesGiven
  /\ EventsOfUploads
  /\ NamesAreExplained

\* Only the UPDATE of a rename changes what its request holds.
LEMMA FileHeldFrame ==
  ASSUME TypeInv, NEW r \in Request, FileNext(r)
  PROVE  \/ held'[r] = held[r]
         \/ pc[r] = "rename.update" /\ pc'[r] = "rename.audit"
<1> USE DEF Went, Ended, Failed, Acked
<1>1. CASE ReceiveFileOp(r)
  BY <1>1, ReceiveEffect
<1>2. CASE UploadStep(r)
  BY <1>2, UploadEffect DEF UploadSteps
<1>3. CASE DeleteStep(r)
  BY <1>3, DeleteEffect DEF DeleteSteps, stores
<1>4. CASE RenameStep(r)
  BY <1>4, RenameEffect DEF RenameSteps, stores
<1>5. CASE Fault(r) \/ Crash(r)
  BY <1>5, FailureEffect
<1> QED BY <1>1, <1>2, <1>3, <1>4, <1>5 DEF FileNext, FileStep

LEMMA HeldAfterUpdateStays ==
  ASSUME CauseInv, HeldAfterUpdate, NEW q \in Request, FileNext(q)
  PROVE  /\ HeldAfterUpdate'
         /\ \A r \in Request : pc[r] \in {"rename.audit", "done"} =>
              held'[r] = held[r] /\ pc'[r] \in {"rename.audit", "done"}
<1> USE DEF CauseInv, TrailInv, OwnerInv
<1>1. FlowFrame(q) /\ MoveFrame(q)
  BY FileFlowFrame, FileMoveFrame
<1>2. ASSUME NEW r \in Request, r # q
      PROVE  held'[r] = held[r] /\ pc'[r] = pc[r]
  BY <1>1, <1>2 DEF FlowFrame, Others
<1>3. /\ pc'[q] \notin {"rename.audit", "done"} => held'[q] = None
      /\ pc[q] \in {"rename.audit", "done"} =>
           held'[q] = held[q] /\ pc'[q] \in {"rename.audit", "done"}
  BY <1>1, FileHeldFrame DEF FlowFrame, MoveFrame, HeldAfterUpdate
<1> QED BY <1>2, <1>3 DEF HeldAfterUpdate

\* A rename that has changed the row stays one of those.
LEMMA RenamesStay ==
  ASSUME CauseInv, HeldAfterUpdate, NEW q \in Request, FileNext(q), NEW f \in Request,
         NEW t \in RenamesOf(f)
  PROVE  t \in RenamesOf(f)' /\ req'[t] = req[t] /\ pc[t] \in {"rename.audit", "done"}
<1>1. t \in Request /\ pc[t] \in {"rename.audit", "done"}
  BY DEF RenamesOf, HeldAfterUpdate
<1>2. req'[t] = req[t]
  BY <1>1, FileFlowFrame DEF CauseInv, TrailInv, OwnerInv, FlowFrame, Others
<1> QED BY <1>1, <1>2, HeldAfterUpdateStays DEF RenamesOf

LEMMA GivenNamesStay ==
  ASSUME CauseInv, HeldAfterUpdate, NEW q \in Request, FileNext(q), NEW f \in Request, pc[f] # "idle"
  PROVE  \A name \in GivenNames(f) : name \in GivenNames(f)'
<1>1. req'[f] = req[f]
  BY FileFlowFrame DEF CauseInv, TrailInv, OwnerInv, FlowFrame, Others
<1> QED BY <1>1, RenamesStay DEF GivenNames

\* The file a request acts on, if it was uploaded in the behaviour.
LEMMA HolderOfUpload ==
  ASSUME OwnerInv, NEW r \in Request, pc[r] \in Holding, req[r].file \in Request
  PROVE  pc[req[r].file] # "idle" /\ req[r].file \in Uploads
<1>1. pc[req[r].file] # "idle" /\ req[req[r].file].op = "upload"
  BY DEF OwnerInv, HoldersOwn, CallerOwns
<1> QED BY <1>1, NoneIsNoCommand DEF Uploads, OwnerInv, TypeInv, Shape, ShapeAt

\* A rename that changes a row goes on to record it.
LEMMA RenamedGoesOn ==
  ASSUME TypeInv, NEW q \in Request, FileNext(q), "unacked" \notin Faults,
         pc[q] = "rename.update", files' # files
  PROVE  pc'[q] = "rename.audit" /\ resp'[q] = resp[q] /\ held'[q] # None
<1>1. RenameStep(q)
  BY ReceiveEffect, UploadEffect, DeleteEffect, FailureEffect
  DEF FileNext, FileStep, stores, UploadSteps, DeleteSteps
<1>2. /\ Went(q, "rename.audit") /\ held'[q] = files'[req[q].file]
      /\ \E row \in Row : Sets(files, files', req[q].file, row) /\ req[q].file \in FileId
  <2>1. /\ Went(q, "rename.audit") /\ held'[q] = files'[req[q].file]
        /\ req[q].file \in FileId /\ req[q].arg \in Name /\ files[req[q].file] # None
        /\ Sets(files, files', req[q].file, [user |-> files[req[q].file].user, name |-> req[q].arg])
    BY <1>1, RenameEffect
  <2>2. files[req[q].file].user \in User
    BY <2>1 DEF TypeInv, TypeOK, StoresTypeOK, Row
  <2> QED BY <2>1, <2>2 DEF Row
<1>3. held'[q] \in Row
  BY <1>2 DEF Sets
<1> QED BY <1>2, <1>3, NoneIsNoValue DEF Went

LEMMA RowNamesGivenStays ==
  ASSUME NamesInv, NEW q \in Request, FileNext(q), "unacked" \notin Faults
  PROVE  RowNamesGiven'
<1> USE DEF NamesInv, CauseInv, TrailInv, OwnerInv
<1> SUFFICES ASSUME NEW f \in Request, files'[f] # None PROVE files'[f].name \in GivenNames(f)'
  BY DEF RowNamesGiven
<1>1. RowFrame(q) /\ FlowFrame(q) /\ f \in FileId
  BY FileRowFrame, FileFlowFrame DEF FileId
<1>2. CASE files'[f] = files[f]
  BY <1>2, GivenNamesStay DEF RowNamesGiven, RowsAreUploaders
<1>3. CASE files'[f] # files[f] /\ pc[q] = "upload.insert"
  <2>1. f = q /\ files'[f].name = req[f].arg /\ req' = req
    BY <1>1, <1>3 DEF RowFrame, FlowFrame
  <2> QED BY <2>1 DEF GivenNames
<1>4. CASE files'[f] # files[f] /\ pc[q] = "rename.update"
  <2>1. f = req[q].file /\ files'[f] = [user |-> files[f].user, name |-> req[q].arg] /\ req' = req
    BY <1>1, <1>4 DEF RowFrame, FlowFrame
  <2>2. req[q].op = "rename" /\ req[q] # None
    BY <1>4, NoneIsNoCommand DEF TypeInv, Shape, ShapeAt, RenameSteps
  <2>3. q \in RenamesOf(f)'
    BY <1>4, <2>1, <2>2, RenamedGoesOn DEF RenamesOf
  <2> QED BY <2>1, <2>3 DEF GivenNames
<1> QED BY <1>1, <1>2, <1>3, <1>4 DEF RowFrame

\* What a request holds is what it read when it found the file.
LEMMA FileSeenFrame ==
  ASSUME TypeInv, NEW r \in Request, FileNext(r), pc'[r] \in Holding
  PROVE  \/ pc[r] \in Holding /\ seen'[r] = seen[r]
         \/ Owned(r) /\ files' = files /\ seen'[r] = files[req[r].file] /\ pc[r] # "idle"
<1> USE DEF Holding, Went, Ended, Failed, Acked
<1>1. CASE ReceiveFileOp(r)
  BY <1>1, ReceiveEffect
<1>2. CASE UploadStep(r)
  BY <1>2, UploadEffect DEF UploadSteps
<1>3. CASE DeleteStep(r)
  BY <1>3, DeleteEffect DEF DeleteSteps, stores
<1>4. CASE RenameStep(r)
  BY <1>4, RenameEffect DEF RenameSteps, stores
<1>5. CASE Fault(r) \/ Crash(r)
  BY <1>5, FailureEffect
<1> QED BY <1>1, <1>2, <1>3, <1>4, <1>5 DEF FileNext, FileStep

LEMMA SeenNamesGivenStays ==
  ASSUME NamesInv, NEW q \in Request, FileNext(q), "unacked" \notin Faults
  PROVE  SeenNamesGiven'
<1> USE DEF NamesInv, CauseInv, TrailInv, OwnerInv
<1> SUFFICES ASSUME NEW r \in Request, pc'[r] \in Holding, req'[r].file \in Request
             PROVE  seen'[r].name \in GivenNames(req[r].file)'
  BY DEF SeenNamesGiven
<1>1. FlowFrame(q)
  BY FileFlowFrame
<1>2. \/ pc[r] \in Holding /\ seen'[r] = seen[r]
      \/ Owned(r) /\ files' = files /\ seen'[r] = files[req[r].file] /\ pc[r] # "idle"
  BY <1>1, FileSeenFrame DEF FlowFrame, Others
<1>3. req'[r] = req[r]
  BY <1>1, <1>2 DEF FlowFrame, Others, Holding
<1> DEFINE f == req[r].file
<1>4. f \in Request /\ pc[f] # "idle" /\ seen'[r].name \in GivenNames(f)
  <2>1. CASE pc[r] \in Holding /\ seen'[r] = seen[r]
    BY <1>3, <2>1, HolderOfUpload DEF SeenNamesGiven
  <2>2. CASE Owned(r) /\ seen'[r] = files[req[r].file]
    BY <1>3, <2>2 DEF RowNamesGiven, RowsAreUploaders, Owned
  <2> QED BY <1>2, <2>1, <2>2
<1>5. seen'[r].name \in GivenNames(f)' 
  <2>1. PICK g \in Request : g = f
    BY <1>4
  <2>2. seen'[r].name \in GivenNames(g)'
    BY <1>4, <2>1, GivenNamesStay
  <2> QED BY <1>3, <2>1, <2>2 DEF GivenNames, RenamesOf
<1> QED BY <1>5

\* What an event tells: names that its request was given or has read.
EventTellsGiven(e) ==
  /\ e.was \in {None} \cup GivenNames(e.file)
  /\ e.name \in {None} \cup GivenNames(e.file) \/ Phantom(e)

EventNamesGiven == \A e \in audit : e.file \in Uploads => EventTellsGiven(e)

\* Where the name in a row can be read, unless the upload gave it.
RowNamesTold ==
  \A f \in Uploads : files[f] # None /\ files[f].name # req[f].arg =>
    \/ \E e \in audit : e.type = "file_renamed" /\ e.file = f /\ e.name = files[f].name
    \/ \E q \in RenamesOf(f) : req[q].arg = files[f].name /\ resp[q] # "ok"

LEMMA NamesInTwoParts == NamesAreExplained <=> EventNamesGiven /\ RowNamesTold
BY DEF NamesAreExplained, EventNamesGiven, RowNamesTold, EventTellsGiven

LEMMA PhantomStays ==
  ASSUME NamesInv, NEW q \in Request, FileNext(q), NEW e \in audit, Phantom(e)
  PROVE  Phantom(e)'
<1> USE DEF NamesInv, CauseInv, TrailInv, OwnerInv
<1> DEFINE r == e.id[1]
<1>1. r \in Request /\ pc[r] \in {"rename.audit", "done"}
  BY DEF RenamersAreBeyond, Phantom
<1>2. FlowFrame(q) /\ EventFrame(q)
  BY FileFlowFrame, FileEventFrame
<1>3. held'[r] = None
  BY <1>1, HeldAfterUpdateStays DEF Phantom
<1>4. resp'[r] # "ok"
  BY <1>1, <1>2, FileAnswers DEF Phantom, FlowFrame, Others, HttpErrorCode
<1>5. Deleted(e.file)'
  BY <1>2, DeletedStays DEF Phantom, Deleted
<1> QED BY <1>3, <1>4, <1>5 DEF Phantom

LEMMA RenamersAreBeyondStays ==
  ASSUME NamesInv, NEW q \in Request, FileNext(q)
  PROVE  RenamersAreBeyond'
<1> USE DEF NamesInv, CauseInv, TrailInv, OwnerInv
<1> SUFFICES ASSUME NEW e \in audit', e.type = "file_renamed"
             PROVE  e.id[1] \in Request /\ pc'[e.id[1]] \in {"rename.audit", "done"}
  BY DEF RenamersAreBeyond
<1>1. CASE e \in audit
  BY <1>1, HeldAfterUpdateStays DEF RenamersAreBeyond
<1>2. CASE e \notin audit
  <2>1. e = NewEvent(q) /\ pc[q] \in {"delete.audit", "rename.audit"}
    BY <1>2, FileEvents
  <2>2. e.id[1] = q /\ pc[q] = "rename.audit"
    BY <2>1, NewEventFields
  <2> QED BY <2>2, HeldAfterUpdateStays
<1> QED BY <1>1, <1>2

\* The event a request records tells names that were given, unless it is a
\* rename whose UPDATE found no row.
LEMMA NewEventTellsGiven ==
  ASSUME NamesInv, NEW q \in Request, FileNext(q), NEW e, e = NewEvent(q), e.file \in Request,
         pc[q] \in {"delete.audit", "rename.audit"}
  PROVE  /\ e.file \in Uploads
         /\ e.was \in {None} \cup GivenNames(e.file)
         /\ e.name \in {None} \cup GivenNames(e.file) \/ Phantom(e)'
<1> USE DEF NamesInv, CauseInv, TrailInv, OwnerInv
<1>1. e.file = req[q].file /\ pc[q] \in Holding
  BY NewEventFields DEF Holding
<1>2. seen[q].name \in GivenNames(e.file)
  BY <1>1 DEF SeenNamesGiven
<1>3. e.file \in Uploads
  BY <1>1, HolderOfUpload
<1>4. CASE pc[q] = "delete.audit"
  BY <1>2, <1>3, <1>4, NewEventFields
<1>5. CASE pc[q] = "rename.audit" /\ held[q] # None
  <2>1. q \in RenamesOf(e.file)
    BY <1>1, <1>5, NoneIsNoCommand DEF RenamesOf, TypeInv, Shape, ShapeAt, RenameSteps
  <2>2. req[q].arg \in GivenNames(e.file)
    BY <2>1 DEF GivenNames
  <2> QED BY <1>2, <1>3, <1>5, <2>2, NewEventFields
<1>6. CASE pc[q] = "rename.audit" /\ held[q] = None
  <2>1. FlowFrame(q) /\ EventFrame(q)
    BY FileFlowFrame, FileEventFrame
  <2>2. held'[q] = None
    BY <1>6, HeldAfterUpdateStays
  <2>3. resp'[q] # "ok"
    BY <1>6, <2>1, FileAnswers DEF FlowFrame, Unanswered, HttpErrorCode
  <2>4. Deleted(e.file)'
    BY <1>1, <1>6, <2>1, DeletedStays DEF MissedIsDeleted, Deleted
  <2>5. Phantom(e)'
    BY <1>6, <2>2, <2>3, <2>4, NewEventFields DEF Phantom
  <2> QED BY <1>2, <1>3, <1>6, <2>5, NewEventFields
<1> QED BY <1>4, <1>5, <1>6

LEMMA EventNamesGivenStays ==
  ASSUME NamesInv, NEW q \in Request, FileNext(q)
  PROVE  EventNamesGiven' /\ EventsOfUploads'
<1> USE DEF NamesInv, CauseInv, TrailInv, OwnerInv
<1>1. FlowFrame(q)
  BY FileFlowFrame
<1>2. \A f \in Uploads : f \in Uploads' /\ pc[f] # "idle" /\ f \in Request
  BY <1>1 DEF Uploads, FlowFrame, Others, Unanswered
<1>3. ASSUME NEW e \in audit', e.file \in Request
      PROVE  /\ e.file \in Uploads
             /\ e.was \in {None} \cup GivenNames(e.file)
             /\ e.name \in {None} \cup GivenNames(e.file) \/ Phantom(e)'
  <2>1. CASE e \in audit
    BY <1>3, <2>1, NamesInTwoParts, PhantomStays DEF EventsOfUploads, EventNamesGiven, EventTellsGiven
  <2>2. CASE e \notin audit
    <3>1. e = NewEvent(q) /\ pc[q] \in {"delete.audit", "rename.audit"}
      BY <1>3, <2>2, FileEvents
    <3> QED BY <1>3, <3>1, NewEventTellsGiven
  <2> QED BY <2>1, <2>2
<1>4. EventsOfUploads'
  BY <1>2, <1>3 DEF EventsOfUploads
<1>5. ASSUME NEW e \in audit', e.file \in Uploads'
      PROVE  EventTellsGiven(e)'
  <2>1. e.file \in Request
    BY <1>5 DEF Uploads
  <2>2. \A name \in GivenNames(e.file) : name \in GivenNames(e.file)'
    BY <1>2, <1>3, <2>1, GivenNamesStay
  <2> QED BY <1>3, <2>1, <2>2 DEF EventTellsGiven
<1> QED BY <1>4, <1>5 DEF EventNamesGiven

LEMMA RowNamesToldStays ==
  ASSUME NamesInv, NEW q \in Request, FileNext(q), "unacked" \notin Faults
  PROVE  RowNamesTold'
<1> USE DEF NamesInv, CauseInv, TrailInv, OwnerInv
<1> SUFFICES ASSUME NEW f \in Uploads', files'[f] # None, files'[f].name # req'[f].arg
             PROVE  \/ \E e \in audit' : /\ e.type = "file_renamed" /\ e.file = f
                                         /\ e.name = files'[f].name
                    \/ \E t \in RenamesOf(f)' : /\ req'[t].arg = files'[f].name
                                                /\ resp'[t] # "ok"
  BY DEF RowNamesTold
<1>1. /\ FlowFrame(q) /\ MoveFrame(q) /\ RowFrame(q) /\ EventFrame(q)
      /\ f \in Request /\ f \in FileId
  BY FileFlowFrame, FileMoveFrame, FileRowFrame, FileEventFrame DEF FileId, Uploads
<1>2. CASE files'[f] = files[f]
  <2>1. f \in Uploads /\ req'[f] = req[f]
    BY <1>1, <1>2, NoneIsNoCommand
    DEF RowsAreUploaders, Uploads, FlowFrame, Others, TypeInv, Shape, ShapeAt
  <2>2. CASE \E e \in audit : e.type = "file_renamed" /\ e.file = f /\ e.name = files[f].name
    BY <1>1, <1>2, <2>2 DEF EventFrame
  <2>3. CASE \E t \in RenamesOf(f) : req[t].arg = files[f].name /\ resp[t] # "ok"
    <3>1. PICK t \in RenamesOf(f) : req[t].arg = files[f].name /\ resp[t] # "ok"
      BY <2>3
    <3>2. t \in Request /\ t \in RenamesOf(f)' /\ req'[t] = req[t]
      BY <1>1, RenamesStay DEF RenamesOf
    <3>3. CASE resp'[t] # "ok"
      BY <1>2, <3>1, <3>2, <3>3
    <3>4. CASE resp'[t] = "ok"
      <4>1. t = q /\ pc'[t] = "done" /\ pc[t] = "rename.audit"
        BY <1>1, <3>1, <3>2, <3>4, RenamesStay DEF FlowFrame, Others, RenamesOf
      <4>2. NewEvent(q) \in audit'
        BY <3>4, <4>1, FileEvents
      <4>3. /\ NewEvent(q).type = "file_renamed" /\ NewEvent(q).file = f
            /\ NewEvent(q).name = files'[f].name
        BY <1>2, <3>1, <4>1, NewEventFields DEF RenamesOf
      <4> QED BY <4>2, <4>3
    <3> QED BY <3>3, <3>4
  <2> QED BY <1>2, <2>1, <2>2, <2>3, NamesInTwoParts DEF RowNamesTold
<1>3. CASE files'[f] # files[f] /\ pc[q] = "upload.insert"
  BY <1>1, <1>3 DEF RowFrame, FlowFrame
<1>4. CASE files'[f] # files[f] /\ pc[q] = "rename.update"
  <2>1. f = req[q].file /\ files'[f] = [user |-> files[f].user, name |-> req[q].arg] /\ req' = req
    BY <1>1, <1>4 DEF RowFrame, FlowFrame
  <2>2. req[q].op = "rename" /\ req[q] # None
    BY <1>4, NoneIsNoCommand DEF TypeInv, Shape, ShapeAt, RenameSteps
  <2>3. pc'[q] = "rename.audit" /\ resp'[q] = "none" /\ held'[q] # None
    BY <1>4, RenamedGoesOn DEF Unanswered
  <2>4. q \in RenamesOf(f)'
    BY <2>1, <2>2, <2>3 DEF RenamesOf
  <2> QED BY <2>1, <2>3, <2>4
<1> QED BY <1>1, <1>2, <1>3, <1>4 DEF RowFrame

\* Every name in the trail was given to the file, but for that in the event of
\* a rename whose UPDATE found no row, which failed; and the name the file bears
\* is in the trail, or the rename that gave it is at work, stopped, or failed
\* and said so.
THEOREM NamesAreAlwaysExplained ==
  ASSUME "unacked" \notin Faults
  PROVE  Spec => []NamesAreExplained
<1> DEFINE Names == HeldAfterUpdate /\ RenamersAreBeyond /\ RowNamesGiven /\ SeenNamesGiven /\ EventsOfUploads /\ NamesAreExplained
<1>1. Init => Names
  <2> SUFFICES ASSUME Init PROVE Names
    OBVIOUS
  <2>1. \A r \in Request : pc[r] = "idle" /\ req[r] = None /\ files[r] = None /\ held[r] = None
    BY DEF Init, FlowInit, StoresInit, FileId
  <2>2. \A e \in audit : e.file \notin Request /\ e.type # "file_renamed"
    BY IdsAreDistinct DEF Init, StoresInit
  <2> QED BY <2>1, <2>2 DEF HeldAfterUpdate, RenamersAreBeyond, RowNamesGiven, SeenNamesGiven, EventsOfUploads, NamesAreExplained,
             Uploads, Holding
<1>2. Names /\ CauseInv /\ [Next]_vars => Names'
  <2> SUFFICES ASSUME NamesInv, [Next]_vars PROVE Names'
    BY DEF NamesInv
  <2>1. CASE UNCHANGED vars
    <3>1. \A f : RenamesOf(f)' = RenamesOf(f) /\ Uploads' = Uploads
      BY <2>1 DEF RenamesOf, Uploads, vars, stores, flow
    <3>2. \A f : GivenNames(f)' = GivenNames(f)
      BY <2>1, <3>1 DEF GivenNames, vars, flow
    <3>3. /\ \A e : Phantom(e)' <=> Phantom(e)
          /\ UNCHANGED <<files, audit, pc, req, seen, held, resp>>
      BY <2>1 DEF Phantom, Deleted, vars, stores, flow
    <3>4. NamesAreExplained'
      BY <3>1, <3>2, <3>3 DEF NamesInv, NamesAreExplained
    <3> QED BY <3>1, <3>2, <3>3, <3>4 DEF NamesInv, HeldAfterUpdate, RenamersAreBeyond, RowNamesGiven,
            SeenNamesGiven, EventsOfUploads
  <2>2. CASE Next
    <3>1. PICK q \in Request : FileNext(q)
      BY <2>2 DEF Next
    <3>2. (EventNamesGiven /\ RowNamesTold)'
      BY <3>1, EventNamesGivenStays, RowNamesToldStays
    <3>3. NamesAreExplained'
      BY <3>2, NamesInTwoParts, PTL
    <3>4. HeldAfterUpdate'
      BY <3>1, HeldAfterUpdateStays DEF NamesInv
    <3> QED BY <3>1, <3>3, <3>4, EventNamesGivenStays, RowNamesGivenStays, SeenNamesGivenStays,
            RenamersAreBeyondStays
  <2> QED BY <2>1, <2>2
<1>3. Names => NamesAreExplained
  OBVIOUS
<1> HIDE DEF Names
<1> QED BY <1>1, <1>2, <1>3, CauseInvHolds, PTL DEF Spec
=============================================================================
