-------------------------- MODULE FileCatalogProofs --------------------------
(***************************************************************************)
(* FileServices implements FileCatalog, proved for any number of requests  *)
(* as long as no acknowledgement is lost: every step of a request is one   *)
(* step of the same request on the catalog, or none.                       *)
(***************************************************************************)
EXTENDS FileServicesCatalog, FileAuditProofs

\* The catalog and the stages that the implementation shows.
Shown == [f \in FileId |-> VisibleFile(f)]
Stages == [r \in Request |-> Stage(r)]

\* What the simulation rests on: every row has its bytes, and who acts on a
\* row owns it.
SimInv == StoresInv /\ OwnerInv

\* With bytes under every row, the catalog is the files table.
LEMMA ShownIsFiles == StoresInv => Shown = files
<1> SUFFICES ASSUME StoresInv PROVE Shown = files
  OBVIOUS
<1>1. \A f \in FileId : VisibleFile(f) = files[f]
  BY DEF VisibleFile, StoresInv, RowHasBlob
<1> QED BY <1>1 DEF Shown, StoresInv, TypeInv, TypeOK, StoresTypeOK

LEMMA ShownIsFilesNext == StoresInv' => Shown' = files'
<1>1. (StoresInv => Shown = files)'
  BY ShownIsFiles, PTL
<1> QED BY <1>1

\* One request moves at a time.
LEMMA OneStageMoves ==
  ASSUME NEW r \in Request, FlowFrame(r)
  PROVE  Stages' = [Stages EXCEPT ![r] = Stage(r)']
<1>1. \A s \in Request : s # r => Stage(s)' = Stage(s)
  BY DEF FlowFrame, Others, Stage
<1> QED BY <1>1 DEF Stages

\* The three ways in which a step that leaves the rows alone is simulated.
LEMMA Stutters ==
  ASSUME SimInv, StoresInv', NEW r \in Request, FlowFrame(r),
         files' = files, req' = req, Stage(r)' = Stage(r)
  PROVE  UNCHANGED Catalog!catalogVars
<1>1. Shown' = Shown
  BY ShownIsFiles, ShownIsFilesNext DEF SimInv
<1>2. Stages' = Stages
  BY OneStageMoves DEF Stages
<1> QED BY <1>1, <1>2 DEF Catalog!catalogVars, Shown, Stages

LEMMA Fails ==
  ASSUME SimInv, StoresInv', NEW r \in Request, FlowFrame(r), files' = files, req' = req,
         Stage(r) \in {"open", "applied", "missed"}, Stage(r)' \in {"failed", "lost"}
  PROVE  Catalog!Fail(r)
<1>1. Shown' = Shown
  BY ShownIsFiles, ShownIsFilesNext DEF SimInv
<1>2. Stages' = [Stages EXCEPT ![r] = Stage(r)']
  BY OneStageMoves
<1>3. Stages[r] = Stage(r)
  BY DEF Stages
<1> QED BY <1>1, <1>2, <1>3 DEF Catalog!Fail, Catalog!Reach, Shown, Stages

\* An attempt that failed without effect, or a stop.
LEMMA FailuresSimulate ==
  ASSUME SimInv, StoresInv', NEW r \in Request, FlowFrame(r),
         files' = files, req' = req, held'[r] = held[r], pc[r] \notin {"idle", "done"},
         Failed(r) \/ Ended(r, "lost") \/ Ended(r, "database")
  PROVE  Catalog!Fail(r) \/ UNCHANGED Catalog!catalogVars
<1>1. Stage(r) \in {"open", "applied", "missed"}
  BY DEF Stage
<1>2. CASE pc'[r] # "done"
  <2>1. Stage(r)' = Stage(r)
    BY <1>2 DEF Stage, Failed, Went, Ended
  <2> QED BY <2>1, Stutters
<1>3. CASE pc'[r] = "done"
  <2>1. resp'[r] \in {"lost", "database", "storage"}
    BY <1>3 DEF Failed, Went, Ended, Layer
  <2>2. Stage(r)' \in {"failed", "lost"}
    BY <1>3, <2>1 DEF Stage
  <2> QED BY <1>1, <2>2, Fails
<1> QED BY <1>2, <1>3

\* The effect of a step of r on the rows and on its own stage, as the catalog
\* sees them.
LEMMA SeenByCatalog ==
  ASSUME SimInv, StoresInv', NEW r \in Request, FlowFrame(r), pc[r] # "idle"
  PROVE  /\ Shown = files /\ Shown' = files' /\ req' = req
         /\ Stages[r] = Stage(r)
         /\ Stages' = [Stages EXCEPT ![r] = Stage(r)']
BY ShownIsFiles, ShownIsFilesNext, OneStageMoves DEF SimInv, FlowFrame, Stages

LEMMA UploadSimulates ==
  ASSUME SimInv, StoresInv', "unacked" \notin Faults, NEW r \in Request, UploadStep(r)
  PROVE  Catalog!Upload(r) \/ Catalog!Fail(r) \/ UNCHANGED Catalog!catalogVars
<1> USE DEF SimInv, OwnerInv
<1>1. FlowFrame(r) /\ FileNext(r)
  BY FileFlowFrame DEF FileNext, FileStep
<1>2. /\ req' = req /\ held'[r] = held[r] /\ pc[r] \in UploadSteps
      /\ req[r].op = "upload" /\ req[r].file = r
  BY UploadEffect
<1>3. CASE Failed(r) /\ files' = files
  BY <1>1, <1>2, <1>3, FailuresSimulate DEF UploadSteps
<1>4. CASE files' = files /\ \E step \in {"upload.insert", "upload.undo"} : Went(r, step)
  <2>1. Stage(r)' = Stage(r)
    BY <1>2, <1>4 DEF Stage, Went, UploadSteps
  <2> QED BY <1>1, <1>2, <1>4, <2>1, Stutters
<1>5. CASE files' = files /\ Ended(r, "database")
  BY <1>1, <1>2, <1>5, FailuresSimulate DEF UploadSteps
<1>6. CASE /\ pc[r] = "upload.insert" /\ files[r] = None /\ Ended(r, "ok")
           /\ Sets(files, files', r, [user |-> req[r].user, name |-> req[r].arg])
  <2>1. Stage(r) = "open" /\ Stage(r)' = "ok"
    BY <1>6 DEF Stage, Ended
  <2>2. files' = [files EXCEPT ![r] = [user |-> req[r].user, name |-> req[r].arg]]
    <3>1. files \in [FileId -> Row \cup {None}] /\ files' \in [FileId -> Row \cup {None}]
      BY DEF StoresInv, TypeInv, TypeOK, StoresTypeOK
    <3> QED BY <1>6, <3>1 DEF Sets
  <2>3. /\ Shown = files /\ Shown' = files' /\ Stages[r] = Stage(r)
        /\ Stages' = [Stages EXCEPT ![r] = Stage(r)']
    BY <1>1, <1>2, SeenByCatalog DEF UploadSteps
  <2> QED BY <1>2, <1>6, <2>1, <2>2, <2>3 DEF Catalog!Upload, Catalog!Reach, Shown, Stages
<1> QED BY <1>3, <1>4, <1>5, <1>6, UploadEffect DEF UploadSteps, Acked

LEMMA DeleteSimulates ==
  ASSUME SimInv, StoresInv', "unacked" \notin Faults, NEW r \in Request, DeleteStep(r)
  PROVE  \/ Catalog!Delete(r) \/ Catalog!Confirm(r) \/ Catalog!Refuse(r)
         \/ UNCHANGED Catalog!catalogVars
<1> USE DEF SimInv, OwnerInv
<1>1. FlowFrame(r) /\ FileNext(r)
  BY FileFlowFrame DEF FileNext, FileStep
<1>2. /\ req' = req /\ pc[r] \in DeleteSteps /\ req[r].op = "delete" /\ req[r].file \in FileId
  BY DeleteEffect
<1>3. /\ Shown = files /\ Shown' = files' /\ Stages[r] = Stage(r)
      /\ Stages' = [Stages EXCEPT ![r] = Stage(r)']
  BY <1>1, <1>2, SeenByCatalog DEF DeleteSteps
<1>4. CASE pc[r] = "delete.find"
  <2>1. files' = files /\ Stage(r) = "open"
    BY <1>4, DeleteEffect DEF Stage, stores
  <2>2. CASE Owned(r) /\ Went(r, "delete.audit")
    <3>1. Stage(r)' = Stage(r)
      BY <2>1, <2>2 DEF Stage, Went
    <3> QED BY <1>1, <1>2, <2>1, <3>1, Stutters
  <2>3. CASE /\ ~Owned(r)
             /\ Ended(r, IF files[req[r].file] = None THEN "FILE_NOT_FOUND" ELSE "FORBIDDEN")
    <3>1. Stage(r)' = IF files[req[r].file] = None THEN "FILE_NOT_FOUND" ELSE "FORBIDDEN"
      BY <2>3 DEF Stage, Ended
    <3> QED BY <1>2, <1>3, <2>1, <2>3, <3>1
            DEF Catalog!Refuse, Catalog!Reach, Catalog!Gone, Catalog!Mine, Shown, Stages, Owned
  <2> QED BY <1>4, <2>2, <2>3, DeleteEffect
<1>5. CASE pc[r] = "delete.audit"
  <2>1. files' = files /\ Went(r, "delete.drop")
    BY <1>5, DeleteEffect DEF Acked
  <2>2. Stage(r)' = Stage(r)
    BY <1>5, <2>1 DEF Stage, Went
  <2> QED BY <1>1, <1>2, <2>1, <2>2, Stutters
<1>6. CASE pc[r] = "delete.drop"
  <2>1. Sets(files, files', req[r].file, None) /\ Went(r, "delete.unlink")
    BY <1>6, DeleteEffect DEF Acked
  <2>2. files' = [files EXCEPT ![req[r].file] = None]
    <3>1. files \in [FileId -> Row \cup {None}] /\ files' \in [FileId -> Row \cup {None}]
      BY DEF StoresInv, TypeInv, TypeOK, StoresTypeOK
    <3> QED BY <1>2, <2>1, <3>1 DEF Sets
  <2>3. Stage(r) = "open" /\ Stage(r)' = "applied"
    BY <1>6, <2>1 DEF Stage, Went
  <2>4. files[req[r].file] # None => files[req[r].file].user = req[r].user
    BY <1>6 DEF HoldersOwn, CallerOwns, Holding
  <2> QED BY <1>2, <1>3, <2>2, <2>3, <2>4
          DEF Catalog!Delete, Catalog!Reach, Catalog!Gone, Catalog!Mine, Shown, Stages
<1>7. CASE pc[r] = "delete.unlink"
  <2>1. files' = files /\ Ended(r, "ok")
    BY <1>7, DeleteEffect DEF Acked
  <2>2. Stage(r) = "applied" /\ Stage(r)' = "ok"
    BY <1>7, <2>1 DEF Stage, Ended
  <2> QED BY <1>2, <1>3, <2>1, <2>2 DEF Catalog!Confirm, Catalog!Reach, Shown, Stages
<1> QED BY <1>2, <1>4, <1>5, <1>6, <1>7 DEF DeleteSteps

LEMMA RenameSimulates ==
  ASSUME SimInv, StoresInv', "unacked" \notin Faults, NEW r \in Request, RenameStep(r)
  PROVE  \/ Catalog!Rename(r) \/ Catalog!Confirm(r) \/ Catalog!Refuse(r) \/ Catalog!Fail(r)
         \/ UNCHANGED Catalog!catalogVars
<1> USE DEF SimInv, OwnerInv
<1>1. FlowFrame(r) /\ FileNext(r)
  BY FileFlowFrame DEF FileNext, FileStep
<1>2. /\ req' = req /\ pc[r] \in RenameSteps /\ req[r].op = "rename" /\ req[r].file \in FileId
  BY RenameEffect
<1>3. /\ Shown = files /\ Shown' = files' /\ Stages[r] = Stage(r)
      /\ Stages' = [Stages EXCEPT ![r] = Stage(r)']
  BY <1>1, <1>2, SeenByCatalog DEF RenameSteps
<1>4. CASE pc[r] = "rename.find"
  <2>1. files' = files /\ Stage(r) = "open"
    BY <1>4, RenameEffect DEF Stage, stores
  <2>2. CASE Owned(r) /\ Went(r, "rename.update")
    <3>1. Stage(r)' = Stage(r)
      BY <2>1, <2>2 DEF Stage, Went
    <3> QED BY <1>1, <1>2, <2>1, <3>1, Stutters
  <2>3. CASE Owned(r) /\ req[r].arg = None /\ Ended(r, "VALIDATION")
    <3>1. Stage(r)' = "VALIDATION"
      BY <2>3 DEF Stage, Ended
    <3> QED BY <1>2, <1>3, <2>1, <2>3, <3>1
            DEF Catalog!Refuse, Catalog!Reach, Catalog!Gone, Catalog!Mine, Shown, Stages, Owned
  <2>4. CASE /\ ~Owned(r)
             /\ Ended(r, IF files[req[r].file] = None THEN "FILE_NOT_FOUND" ELSE "FORBIDDEN")
    <3>1. Stage(r)' = IF files[req[r].file] = None THEN "FILE_NOT_FOUND" ELSE "FORBIDDEN"
      BY <2>4 DEF Stage, Ended
    <3> QED BY <1>2, <1>3, <2>1, <2>4, <3>1
            DEF Catalog!Refuse, Catalog!Reach, Catalog!Gone, Catalog!Mine, Shown, Stages, Owned
  <2> QED BY <1>4, <2>2, <2>3, <2>4, RenameEffect
<1>5. CASE pc[r] = "rename.update"
  <2>1. Went(r, "rename.audit") /\ held'[r] = files'[req[r].file] /\ req[r].arg \in Name
    BY <1>5, RenameEffect
  <2>2. Stage(r) = "open" /\ Stage(r)' = IF files'[req[r].file] = None THEN "missed" ELSE "applied"
    BY <1>5, <2>1 DEF Stage, Went
  <2>3. CASE files[req[r].file] = None
    <3>1. files' = files
      BY <1>5, <2>3, RenameEffect
    <3> QED BY <1>2, <1>3, <2>2, <2>3, <3>1
            DEF Catalog!Rename, Catalog!Reach, Catalog!Gone, Shown, Stages
  <2>4. CASE files[req[r].file] # None
    <3>1. Sets(files, files', req[r].file, [user |-> files[req[r].file].user, name |-> req[r].arg])
      BY <1>5, <2>4, RenameEffect
    <3>2. files \in [FileId -> Row \cup {None}] /\ files' \in [FileId -> Row \cup {None}]
      BY DEF StoresInv, TypeInv, TypeOK, StoresTypeOK
    <3>3. files[req[r].file] \in Row
      BY <1>2, <2>4, <3>2
    <3>4. [files[req[r].file] EXCEPT !.name = req[r].arg]
            = [user |-> files[req[r].file].user, name |-> req[r].arg]
      BY <3>3 DEF Row
    <3>5. files' = [files EXCEPT ![req[r].file].name = req[r].arg]
      BY <1>2, <3>1, <3>2, <3>4 DEF Sets
    <3>6. files[req[r].file].user = req[r].user
      BY <1>5, <2>4 DEF HoldersOwn, CallerOwns, Holding
    <3>7. files'[req[r].file] # None
      BY <2>1, <3>1, <3>3, NoneIsNoValue DEF Sets, Row
    <3> QED BY <1>2, <1>3, <2>2, <2>4, <3>5, <3>6, <3>7
            DEF Catalog!Rename, Catalog!Reach, Catalog!Mine, Shown, Stages
  <2> QED BY <2>3, <2>4
<1>6. CASE pc[r] = "rename.audit"
  <2>1. files' = files /\ Ended(r, IF held[r] = None THEN "INTERNAL" ELSE "ok")
    BY <1>6, RenameEffect DEF Acked
  <2>2. CASE held[r] = None
    <3>1. Stage(r) = "missed" /\ Stage(r)' = "failed"
      BY <1>6, <2>1, <2>2 DEF Stage, Ended
    <3> QED BY <1>1, <1>2, <2>1, <3>1, Fails
  <2>3. CASE held[r] # None
    <3>1. Stage(r) = "applied" /\ Stage(r)' = "ok"
      BY <1>6, <2>1, <2>3 DEF Stage, Ended
    <3> QED BY <1>2, <1>3, <2>1, <3>1 DEF Catalog!Confirm, Catalog!Reach, Shown, Stages
  <2> QED BY <2>2, <2>3
<1> QED BY <1>2, <1>4, <1>5, <1>6 DEF RenameSteps

\* A request that arrives asks for something the catalog knows.
LEMMA ReceiveWish ==
  ASSUME TypeInv, NEW r \in Request, ReceiveFileOp(r)
  PROVE  /\ req'[r] \in Catalog!Wish /\ req' = [req EXCEPT ![r] = req'[r]]
         /\ req'[r].op = "upload" => req'[r].file = r
<1>1. r \in FileId /\ DrawnIds \subseteq FileId
  BY DEF FileId, DrawnIds
<1>2. \A command : req' = [req EXCEPT ![r] = command] =>
        req'[r] = command /\ req' = [req EXCEPT ![r] = req'[r]]
  BY DEF TypeInv, TypeOK, FlowTypeOK
<1>3. CASE ReceiveUpload(r)
  <2>1. PICK user \in User, n \in Name \cup {None} :
          req' = [req EXCEPT ![r] =
                    [op |-> "upload", user |-> user, file |-> r, arg |-> n, exp |-> 0]]
    BY <1>3 DEF ReceiveUpload, Receive
  <2>2. req'[r] = [op |-> "upload", user |-> user, file |-> r, arg |-> n, exp |-> 0]
    BY <1>2, <2>1
  <2>3. req'[r] \in Catalog!Wish
    BY <1>1, <2>2 DEF Catalog!Wish
  <2>4. req' = [req EXCEPT ![r] = req'[r]]
    BY <2>1, <2>2
  <2> QED BY <2>2, <2>3, <2>4
<1>4. CASE ReceiveDelete(r)
  <2>1. PICK user \in User, f \in DrawnIds :
          req' = [req EXCEPT ![r] =
                    [op |-> "delete", user |-> user, file |-> f, arg |-> None, exp |-> 0]]
    BY <1>4 DEF ReceiveDelete, Receive
  <2>2. req'[r] = [op |-> "delete", user |-> user, file |-> f, arg |-> None, exp |-> 0]
    BY <1>2, <2>1
  <2>3. req'[r] \in Catalog!Wish
    BY <1>1, <2>2 DEF Catalog!Wish
  <2>4. req' = [req EXCEPT ![r] = req'[r]]
    BY <2>1, <2>2
  <2> QED BY <2>2, <2>3, <2>4
<1>5. CASE ReceiveRename(r)
  <2>1. PICK user \in User, f \in DrawnIds, n \in Name \cup {None} :
          req' = [req EXCEPT ![r] =
                    [op |-> "rename", user |-> user, file |-> f, arg |-> n, exp |-> 0]]
    BY <1>5 DEF ReceiveRename, Receive
  <2>2. req'[r] = [op |-> "rename", user |-> user, file |-> f, arg |-> n, exp |-> 0]
    BY <1>2, <2>1
  <2>3. req'[r] \in Catalog!Wish
    BY <1>1, <2>2 DEF Catalog!Wish
  <2>4. req' = [req EXCEPT ![r] = req'[r]]
    BY <2>1, <2>2
  <2> QED BY <2>2, <2>3, <2>4
<1> QED BY <1>3, <1>4, <1>5 DEF ReceiveFileOp

LEMMA ReceiveSimulates ==
  ASSUME SimInv, StoresInv', NEW r \in Request, ReceiveFileOp(r)
  PROVE  Catalog!Ask(r)
<1> USE DEF SimInv, OwnerInv
<1>1. FlowFrame(r) /\ files' = files /\ pc[r] = "idle"
  BY FileFlowFrame, ReceiveEffect DEF FileNext, stores
<1>2. Shown' = Shown /\ Stages[r] = "idle" /\ Stages' = [Stages EXCEPT ![r] = Stage(r)']
  BY <1>1, ShownIsFiles, ShownIsFilesNext, OneStageMoves DEF Stages, Stage
<1>3. Stage(r)' \in {"open", "VALIDATION"}
  BY ReceiveEffect DEF Stage, Ended, Went
<1> QED BY <1>2, <1>3, ReceiveWish DEF Catalog!Ask, Catalog!Reach, Shown, Stages

LEMMA InitSimulates == Init => Catalog!CatalogInit
<1> SUFFICES ASSUME Init PROVE Catalog!CatalogInit
  OBVIOUS
<1>1. StoresInv
  BY InitStoresInv
<1>2. Shown = files
  BY <1>1, ShownIsFiles
<1>3. /\ files \in [FileId -> [user : User, name : Name] \cup {None}]
      /\ \A f \in FileId : f \in Request => files[f] = None
      /\ req = [r \in Request |-> None]
  BY DEF Init, StoresInit, FlowInit, Row
<1>4. Stages = [r \in Request |-> "idle"]
  BY DEF Init, FlowInit, Stages, Stage
<1> QED BY <1>2, <1>3, <1>4 DEF Catalog!CatalogInit, Shown, Stages

LEMMA StepSimulates ==
  ASSUME SimInv, StoresInv', "unacked" \notin Faults, [Next]_vars
  PROVE  [Catalog!CatalogNext]_(Catalog!catalogVars)
<1>1. CASE UNCHANGED vars
  BY <1>1 DEF vars, stores, flow, Catalog!catalogVars, VisibleFile, Stage
<1>2. CASE Next
  <2>1. PICK r \in Request : FileNext(r)
    BY <1>2 DEF Next
  <2>2. CASE ReceiveFileOp(r)
    BY <2>2, ReceiveSimulates DEF Catalog!CatalogNext
  <2>3. CASE FileStep(r)
    BY <2>3, UploadSimulates, DeleteSimulates, RenameSimulates
    DEF FileStep, Catalog!CatalogNext
  <2>4. CASE Fault(r) \/ Crash(r)
    <3>1. /\ FlowFrame(r) /\ files' = files /\ req' = req /\ held'[r] = held[r]
          /\ pc[r] \notin {"idle", "done", "download.exists"}
      BY <2>1, <2>4, FileFlowFrame, FailureEffect
      DEF SimInv, StoresInv, Answers, FlowFrame, stores, Step, DatabaseStep, StorageStep,
          UploadSteps, DeleteSteps, RenameSteps
    <3>2. Failed(r) \/ Ended(r, "lost")
      BY <2>4, <3>1, FailureEffect DEF SimInv, OwnerInv
    <3> QED BY <3>1, <3>2, FailuresSimulate DEF Catalog!CatalogNext
  <2> QED BY <2>1, <2>2, <2>3, <2>4 DEF FileNext
<1> QED BY <1>1, <1>2

\* Uploads, deletes and renames of any number of requests, each interrupted
\* at every await, failing, retried, torn or stopped, look to their clients
\* like single steps on one catalog.
THEOREM FileServicesImplementCatalog ==
  ASSUME "unacked" \notin Faults
  PROVE  Spec => ImplementsCatalog
<1>1. SimInv /\ StoresInv' /\ [Next]_vars => [Catalog!CatalogNext]_(Catalog!catalogVars)
  BY StepSimulates
<1>2. Spec => []SimInv
  BY StoresInvHolds, OwnerInvHolds, PTL DEF SimInv
<1>3. SimInv => StoresInv
  BY DEF SimInv
<1> QED BY <1>1, <1>2, <1>3, InitSimulates, PTL DEF Spec, ImplementsCatalog, Catalog!CatalogSpec
=============================================================================
