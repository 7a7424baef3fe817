---------------------------- MODULE FileServices ----------------------------
(***************************************************************************)
(* The three services that change files (src/modules/files/services):      *)
(* upload, delete and rename, any number of them running concurrently and  *)
(* each interrupted at every await.  Postgres and the blob storage are two *)
(* stores with no transaction around both, so what holds between them is   *)
(* only what the order of the steps and the compensation establish.        *)
(***************************************************************************)
EXTENDS RequestFlow

vars == <<stores, flow>>

----------------------------------------------------------------------------
(* Variants with a plausible bug, one per property: none is part of the    *)
(* specification, each shows that a property can tell the bug.             *)

\* A failed write is taken for a successful one.
UploadSaveTornIgnored(r) ==
  /\ pc[r] = "upload.save"
  /\ "torn" \in Faults
  /\ WriteBlob(r, "partial")
  /\ Goto(r, "upload.insert")
  /\ UNCHANGED <<files, links, audit, req, seen, held>>

\* The catch block swallows the error.
UploadUndoWithoutRethrow(r) ==
  /\ pc[r] = "upload.undo"
  /\ RemoveBlob(r)
  /\ Answer(r, "ok") \/ Unacked(r)
  /\ UNCHANGED <<files, links, audit, req, seen, held>>

\* The catch block only rethrows.
UploadUndoWithoutRemove(r) ==
  /\ pc[r] = "upload.undo"
  /\ Answer(r, "database")
  /\ UNCHANGED <<stores, req, seen, held>>

\* The event is left for later, and the row goes first.
DeleteFindWithoutAudit(r) ==
  /\ pc[r] = "delete.find"
  /\ GetOwned(r, "delete.drop")
  /\ UNCHANGED <<stores, req, held>>

\* The event is recorded whoever asks.
DeleteFindRecordsFirst(r) ==
  /\ pc[r] = "delete.find"
  /\ GetOwned(r, "delete.audit")
  /\ InsertEvent(EventOf(r, "file_deleted"))
  /\ UNCHANGED <<files, links, blobs, req, held>>

\* The bytes are left behind.
DeleteDropWithoutUnlink(r) ==
  /\ pc[r] = "delete.drop"
  /\ DeleteRow(req[r].file)
  /\ Answer(r, "ok") \/ Unacked(r)
  /\ UNCHANGED <<audit, blobs, req, seen, held>>

\* The event type is that of the service the code was copied from.
RenameAuditCopied(r) ==
  /\ pc[r] = "rename.audit"
  /\ InsertEvent([EventOf(r, "file_deleted") EXCEPT !.name = req[r].arg, !.was = seen[r].name])
  /\ Answer(r, IF held[r] = None THEN "INTERNAL" ELSE "ok") \/ Unacked(r)
  /\ UNCHANGED <<files, links, blobs, req, seen, held>>

\* The answer does not wait for the event.
RenameUpdateUnaudited(r) ==
  /\ pc[r] = "rename.update"
  /\ RenameRow(req[r].file, req[r].arg)
  /\ \/ /\ held' = [held EXCEPT ![r] = files'[req[r].file]]
        /\ Answer(r, IF held'[r] = None THEN "INTERNAL" ELSE "ok")
     \/ Unacked(r) /\ UNCHANGED held
  /\ UNCHANGED <<links, audit, blobs, req, seen>>

----------------------------------------------------------------------------
(* UploadFileService: save the bytes, insert the row, and take the bytes   *)
(* back when the insert throws.                                            *)

ReceiveUpload(r) ==
  \E user \in User, name \in Name \cup {None} :
    Receive(r, [op |-> "upload", user |-> user, file |-> r, arg |-> name, exp |-> 0],
            name # None, "upload.save")

UploadSave(r) ==
  /\ pc[r] = "upload.save"
  /\ WriteBlob(r, "whole")
  /\ Goto(r, "upload.insert") \/ Unacked(r)
  /\ UNCHANGED <<files, links, audit, req, seen, held>>

\* writeFile created the file and stopped before its last byte.
UploadSaveTorn(r) ==
  /\ pc[r] = "upload.save"
  /\ "torn" \in Faults
  /\ WriteBlob(r, "partial")
  /\ AttemptFails(r)
  /\ UNCHANGED <<files, links, audit, req, seen, held>>

UploadInsert(r) ==
  /\ pc[r] = "upload.insert"
  /\ \/ /\ CanInsertRow(r)
        /\ InsertRow(r, [user |-> req[r].user, name |-> req[r].arg])
        /\ Answer(r, "ok") \/ Unacked(r)
     \/ /\ ~CanInsertRow(r)
        /\ Throw(r)
        /\ UNCHANGED files
  /\ UNCHANGED <<links, audit, blobs, req, seen, held>>

\* The catch block; the insert's error is rethrown after it.
UploadUndo(r) ==
  /\ pc[r] = "upload.undo"
  /\ RemoveBlob(r)
  /\ Answer(r, "database") \/ Unacked(r)
  /\ UNCHANGED <<files, links, audit, req, seen, held>>

UploadStep(r) ==
  UploadSave(r) \/ UploadSaveTorn(r) \/ UploadInsert(r) \/ UploadUndo(r)

----------------------------------------------------------------------------
(* DeleteFileService: the audit event first, then the row, then the bytes. *)

ReceiveDelete(r) ==
  \E user \in User, f \in DrawnIds :
    Receive(r, [op |-> "delete", user |-> user, file |-> f, arg |-> None, exp |-> 0],
            TRUE, "delete.find")

DeleteFind(r) ==
  /\ pc[r] = "delete.find"
  /\ GetOwned(r, "delete.audit")
  /\ UNCHANGED <<stores, req, held>>

DeleteAudit(r) ==
  /\ pc[r] = "delete.audit"
  /\ InsertEvent([EventOf(r, "file_deleted") EXCEPT !.name = seen[r].name])
  /\ Goto(r, "delete.drop") \/ Unacked(r)
  /\ UNCHANGED <<files, links, blobs, req, seen, held>>

DeleteDrop(r) ==
  /\ pc[r] = "delete.drop"
  /\ DeleteRow(req[r].file)
  /\ Goto(r, "delete.unlink") \/ Unacked(r)
  /\ UNCHANGED <<audit, blobs, req, seen, held>>

DeleteUnlink(r) ==
  /\ pc[r] = "delete.unlink"
  /\ RemoveBlob(req[r].file)
  /\ Answer(r, "ok") \/ Unacked(r)
  /\ UNCHANGED <<files, links, audit, req, seen, held>>

DeleteStep(r) == DeleteFind(r) \/ DeleteAudit(r) \/ DeleteDrop(r) \/ DeleteUnlink(r)

----------------------------------------------------------------------------
(* UpdateFileService: the event names the file as it was when the service  *)
(* read it; the answer is the row the UPDATE returned.                     *)

\* The schema rejects an empty name at once; a missing or blank one passes it.
ReceiveRename(r) ==
  \E user \in User, f \in DrawnIds, name \in Name \cup {None}, accepted \in BOOLEAN :
    /\ name # None => accepted
    /\ Receive(r, [op |-> "rename", user |-> user, file |-> f, arg |-> name, exp |-> 0],
               accepted, "rename.find")

\* The new name is checked only once the file is known to be the caller's.
RenameFind(r) ==
  /\ pc[r] = "rename.find"
  /\ \/ Refuse(r)
     \/ /\ Owned(r)
        /\ Remember(r)
        /\ IF req[r].arg = None THEN Answer(r, "VALIDATION") ELSE Goto(r, "rename.update")
  /\ UNCHANGED <<stores, req, held>>

RenameUpdate(r) ==
  /\ pc[r] = "rename.update"
  /\ RenameRow(req[r].file, req[r].arg)
  /\ \/ Goto(r, "rename.audit") /\ held' = [held EXCEPT ![r] = files'[req[r].file]]
     \/ Unacked(r) /\ UNCHANGED held
  /\ UNCHANGED <<links, audit, blobs, req, seen>>

\* toPublicFile(undefined) throws a TypeError, which is nobody's AppError.
RenameAudit(r) ==
  /\ pc[r] = "rename.audit"
  /\ InsertEvent([EventOf(r, "file_renamed") EXCEPT !.name = req[r].arg, !.was = seen[r].name])
  /\ Answer(r, IF held[r] = None THEN "INTERNAL" ELSE "ok") \/ Unacked(r)
  /\ UNCHANGED <<files, links, blobs, req, seen, held>>

RenameStep(r) == RenameFind(r) \/ RenameUpdate(r) \/ RenameAudit(r)

----------------------------------------------------------------------------
Init == StoresInit /\ FlowInit

ReceiveFileOp(r) == ReceiveUpload(r) \/ ReceiveDelete(r) \/ ReceiveRename(r)

FileStep(r) == UploadStep(r) \/ DeleteStep(r) \/ RenameStep(r)

FileNext(r) == ReceiveFileOp(r) \/ FileStep(r) \/ Fault(r) \/ Crash(r)

Next == \E r \in Request : FileNext(r)

Spec == Init /\ [][Next]_vars

----------------------------------------------------------------------------
(* Properties. *)

\* Every variable holds what the code can put there.
TypeOK == StoresTypeOK /\ FlowTypeOK

EventsBy(r) == {e \in audit : e.id[1] = r}

Deleted(f) == \E e \in audit : e.type = "file_deleted" /\ e.file = f

Uploads == {r \in Request : req[r] # None /\ req[r].op = "upload"}

\* A file that a query can find can be served: its bytes are stored whole.
\* The upload stores them before it inserts the row and the delete removes
\* them after the row, and only failures that had no effect are compensated.
\* (Without lost acknowledgements: LostInsert says what those do.)
RowHasBlob == \A f \in FileId : files[f] # None => blobs[f] = "whole"

\* Bytes without a row are either about to be claimed or reclaimed by the
\* request that wrote or dropped them, or that request was stopped or saw the
\* storage fail.  A database failure alone never leaks bytes.
OrphanExplained ==
  \A f \in FileId : blobs[f] # "absent" /\ files[f] = None =>
    \E r \in Request :
      /\ req[r] # None /\ req[r].file = f /\ req[r].op \in {"upload", "delete"}
      /\ \/ pc[r] \in {"upload.save", "upload.insert", "upload.undo", "delete.unlink"}
         \/ resp[r] \in {"storage", "lost"}

\* A client told that its file is deleted finds neither its row nor its
\* bytes, whatever other requests on that file do before or after.
DeleteIsFinal ==
  \A r \in Request : resp[r] = "ok" /\ req[r].op = "delete" =>
    files[req[r].file] = None /\ blobs[req[r].file] = "absent"

\* A client told that the database refused its upload can send it again: the
\* compensation ran to its end, and no row and no bytes are left.
FailedUploadLeavesNothing ==
  \A r \in Uploads : resp[r] = "database" => files[r] = None /\ blobs[r] = "absent"

\* A change of a file is told once: an acknowledged delete or rename has
\* exactly one event, which tells what was done, to which file and by whom, of
\* a rename also the new name; and no request has two.
OneEventPerRequest ==
  \A r \in Request :
    /\ \A d, e \in EventsBy(r) : d = e
    /\ resp[r] = "ok" /\ req[r].op \in {"delete", "rename"} =>
         \E e \in EventsBy(r) :
           /\ e.type = (IF req[r].op = "delete" THEN "file_deleted" ELSE "file_renamed")
           /\ e.file = req[r].file /\ e.user = req[r].user
           /\ req[r].op = "rename" => e.name = req[r].arg

\* The one answer that no error class of the service stands for is that of a
\* rename whose file was deleted, by a recorded deletion, since it was found.
\* (The README of the service denies that there is any: EveryErrorIsClassified
\* below says so and is violated.)
UnclassifiedErrorHasCause ==
  \A r \in Request : resp[r] = "INTERNAL" => req[r].op = "rename" /\ Deleted(req[r].file)

\* A 4xx answer of these services is a promise that nothing was done: no event
\* was recorded, and an upload left neither a row nor bytes.
RefusedChangesNothing ==
  \A r \in Request : resp[r] \in HttpErrorCode =>
    /\ EventsBy(r) = {}
    /\ r \in Uploads => files[r] = None /\ blobs[r] = "absent"

\* The renames of f whose UPDATE returned its row.
RenamesOf(f) ==
  {q \in Request : /\ req[q] # None /\ req[q].op = "rename" /\ req[q].file = f
                   /\ held[q] # None}

\* The names f was given, by its upload or by a rename.
GivenNames(f) == {req[f].arg} \cup {req[q].arg : q \in RenamesOf(f)}

\* The event of a rename that renamed nothing: its UPDATE found no row, the
\* event was recorded all the same, and the answer is an error.
Phantom(e) == /\ e.type = "file_renamed" /\ held[e.id[1]] = None
              /\ Deleted(e.file) /\ resp[e.id[1]] # "ok"

\* The rename changes the row before it records the event, and the names in an
\* event were read before others changed them.  Still every name that the
\* trail tells of a file was given to it, but for the new name in the event of
\* a rename whose file was deleted under it and which failed; and the name a
\* file bears is in the trail unless the rename that gave it is at work, was
\* stopped, or failed to record it and said so.
NamesAreExplained ==
  \A f \in Uploads :
    /\ \A e \in {d \in audit : d.file = f} :
         /\ e.was \in {None} \cup GivenNames(f)
         /\ e.name \in {None} \cup GivenNames(f) \/ Phantom(e)
    /\ files[f] # None /\ files[f].name # req[f].arg =>
         \/ \E e \in audit : /\ e.type = "file_renamed" /\ e.file = f
                             /\ e.name = files[f].name
         \/ \E q \in RenamesOf(f) : req[q].arg = files[f].name /\ resp[q] # "ok"

\* Only a request of the file's owner changes or removes its row, although
\* ownership is checked on a row read two awaits earlier.
OnlyOwnerChanges ==
  [][\A f \in FileId : files[f] # None /\ files'[f] # files[f] =>
       \E r \in Request : /\ pc[r] \in {"delete.drop", "rename.update"}
                          /\ <<pc'[r], tries'[r]>> # <<pc[r], tries[r]>>
                          /\ req[r].file = f
                          /\ req[r].user = files[f].user]_vars

\* An acknowledged upload is durable: its row and its whole bytes are there
\* until somebody has recorded its deletion, also when acknowledgements get
\* lost, writes are torn and processes stop.
AckedUploadIsDurable ==
  \A r \in Uploads : resp[r] = "ok" /\ ~Deleted(r) =>
    files[r] # None /\ blobs[r] = "whole"

\* No file disappears unrecorded: whenever a row is removed, its deletion by
\* its owner is already in the audit trail, so a crash or a failure after any
\* step of the delete cannot lose the event.
RemovalIsRecordedFirst ==
  [][\A f \in FileId : files[f] # None /\ files'[f] = None =>
       \E e \in audit : /\ e.type = "file_deleted" /\ e.file = f
                        /\ e.user = files[f].user]_vars

\* The retries of one call draw a new event id each, so an event may be there
\* more than once, but never more often than the retry policy has attempts.
EventsBounded ==
  \A r \in Request : Cardinality(EventsBy(r)) <= MaxAttempts

\* With a storage that works, bytes without a row do not stay: either the
\* row follows or the bytes are removed.
OrphansAreReclaimed ==
  \A f \in FileId : blobs[f] # "absent" /\ files[f] = None
                      ~> blobs[f] = "absent" \/ files[f] # None

----------------------------------------------------------------------------
(* What the repository says of itself and the code does not do. *)

\* README.md: "every thrown error derives from a common `AppError` base", and
\* "nothing reaches the error handler unclassified".  An error of no class is
\* answered INTERNAL.
EveryErrorIsClassified == \A r \in Request : resp[r] # "INTERNAL"

\* tests/unit/file-services.test.ts calls the blob that the catch block of
\* the upload removes "the orphaned blob": when the insert's acknowledgement
\* was lost, the row is there and the blob is not an orphan.
LostInsert == \A r \in Uploads : resp[r] = "database" => files[r] = None

\* delete-file.service.ts keeps "a snapshot of what was removed": the row
\* that is removed is the one an earlier event of its deletion describes.
SnapshotIsOfTheRemoved ==
  [][\A f \in FileId : files[f] # None /\ files'[f] = None =>
       \E e \in audit : /\ e.type = "file_deleted" /\ e.file = f
                        /\ e.name = files[f].name]_vars
=============================================================================
