--------------------------- MODULE SignedLinkProofs ---------------------------
(***************************************************************************)
(* What holds between signed links, the files they give access to and the  *)
(* answers that clients get, for any number of requests: proved from what  *)
(* any step of any service does to one table, the frames of                *)
(* FileAuditProofs and those added here.                                   *)
(***************************************************************************)
EXTENDS SignedFileApiProofs

\* A step of one request, of whatever service.
ApiStep(r) == Arrive(r) \/ Proceed(r) \/ Stop(r)

ReceiveOther(r) ==
  \/ (ReceiveSign(r) \/ ReceiveRevoke(r) \/ ReceiveHistory(r) \/ ReceiveRead(r))
     /\ UNCHANGED signer
  \/ ReceiveDownload(r)

OtherStep(r) == (ReadStep(r) /\ UNCHANGED signer) \/ (LinkStep(r) /\ UNCHANGED listed)

LEMMA ApiCases ==
  ASSUME NEW r \in Request, ApiStep(r)
  PROVE  /\ UNCHANGED now
         /\ \/ FileNext(r) /\ UNCHANGED <<signer, listed>>
            \/ OtherStep(r)
            \/ ReceiveOther(r) /\ UNCHANGED listed
BY DEF ApiStep, Arrive, Proceed, Stop, FileNext, OtherStep, ReceiveOther, ReceiveLinkOp

\* What the services around links do when a request arrives.
LEMMA ReceiveOtherFrame ==
  ASSUME ApiTypeInv, NEW r \in Request, ReceiveOther(r)
  PROVE  /\ Others(r) /\ pc[r] = "idle" /\ UNCHANGED <<stores, seen, held>>
         /\ pc'[r] \in {"sign.find", "revoke.find", "history.find", "get.find", "links.find",
                        "list.select", "download.find", "done"}
         /\ pc'[r] # "done" => resp'[r] = resp[r]
         /\ pc'[r] = "done" => resp'[r] \in {"VALIDATION", "INVALID_SIGNED_URL"}
         /\ req'[r].op \notin {"upload", "delete", "rename"}
<1>1. FlowTypeOK /\ signer = [s \in Request |-> signer[s]]
  BY DEF ApiTypeInv, TypeInv, TypeOK
<1>2. CASE ReceiveDownload(r)
  <2>1. /\ Others(r) /\ pc[r] = "idle" /\ UNCHANGED <<stores, seen, held>>
        /\ \E url \in Presented :
              /\ req'[r] = [op |-> "download", user |-> None, file |-> url.file, arg |-> None,
                            exp |-> url.expires.number]
              /\ IF Verify(url, now) THEN Went(r, "download.find")
                                     ELSE Ended(r, "INVALID_SIGNED_URL")
    BY <1>1, <1>2, ReceiveDownloadEffect
  <2> QED BY <2>1 DEF Went, Ended
<1>3. CASE ReceiveSign(r) \/ ReceiveRevoke(r) \/ ReceiveHistory(r) \/ ReceiveRead(r)
  BY <1>1, <1>3, ReceiveOtherEffect DEF Went, Ended, FirstStep
<1> QED BY <1>2, <1>3 DEF ReceiveOther

LEMMA OtherStepFrame ==
  ASSUME ApiTypeInv, NEW r \in Request, OtherStep(r)
  PROVE  /\ Others(r) /\ UNCHANGED <<files, blobs, req>>
         /\ pc[r] \in OtherSteps /\ pc'[r] \in OtherSteps \cup {"done"}
         /\ OtherMove(r)
         /\ pc'[r] # "done" => resp'[r] = resp[r]
         /\ pc'[r] = "done" => OtherAnswer(r)
<1>1. ReadStep(r) \/ LinkStep(r)
  BY DEF OtherStep
<1>2. OtherMove(r)
  BY OtherMoves DEF OtherStep
<1>3. Others(r) /\ UNCHANGED <<files, blobs, req>> /\ pc[r] \in OtherSteps
  BY <1>1, OtherEffect
<1>4. pc'[r] \in OtherSteps \cup {"done"} /\ (pc'[r] # "done" => resp'[r] = resp[r])
  BY <1>2, <1>3
  DEF OtherMove, Went, Ended, Failed, OtherSteps, SignSteps, RevokeSteps, DownloadSteps,
      HistorySteps, ReadSteps
<1> QED BY <1>1, <1>2, <1>3, <1>4, OtherAnswers

LEMMA OtherStepsAreNotFileSteps ==
  /\ OtherSteps \cap ({"idle", "done"} \cup UploadSteps \cup DeleteSteps \cup RenameSteps) = {}
  /\ OtherSteps \cap Holding = {}
BY DEF OtherSteps, SignSteps, RevokeSteps, DownloadSteps, HistorySteps, ReadSteps, UploadSteps,
   DeleteSteps, RenameSteps, Holding

----------------------------------------------------------------------------
(* The frames that hold of the file services hold of all.                  *)

LEMMA ApiFrames ==
  ASSUME ApiTypeInv, NEW r \in Request, ApiStep(r)
  PROVE  /\ FlowFrame(r) /\ RowFrame(r) /\ BlobFrame(r) /\ EventFrame(r)
         /\ HoldingFrame(r) /\ DropFrame(r)
<1>1. CASE FileNext(r)
  BY <1>1, FileFlowFrame, FileRowFrame, FileBlobFrame, FileEventFrame, FileHoldingFrame,
     FileDropFrame DEF ApiTypeInv
<1>2. CASE OtherStep(r)
  <2>1. /\ Others(r) /\ UNCHANGED <<files, blobs, req>>
        /\ pc[r] \in OtherSteps /\ pc'[r] \in OtherSteps \cup {"done"}
        /\ pc'[r] # "done" => resp'[r] = resp[r]
    BY <1>2, OtherStepFrame
  <2>2. pc[r] \notin {"idle", "done"} /\ pc'[r] # "idle" /\ pc'[r] \notin Holding
        /\ pc'[r] \notin {"delete.drop", "delete.unlink"}
    BY <2>1, OtherStepsAreNotFileSteps DEF Holding, DeleteSteps
  <2>3. FlowFrame(r) /\ RowFrame(r) /\ BlobFrame(r) /\ HoldingFrame(r) /\ DropFrame(r)
    BY <2>1, <2>2 DEF FlowFrame, RowFrame, BlobFrame, HoldingFrame, DropFrame
  <2>4. EventFrame(r)
    <3>1. CASE UNCHANGED audit
      BY <3>1 DEF EventFrame
    <3>2. CASE pc[r] \in OtherAudit /\ audit' = audit \cup {OtherEvent(r)}
      <4>1. pc[r] \in AuditStep /\ pc[r] # "delete.audit"
        BY <3>2 DEF OtherAudit, AuditStep
      <4> QED BY <3>2, <4>1, OtherEventFields DEF EventFrame
    <3> QED BY <1>2, <3>1, <3>2, OtherEffect DEF OtherStep
  <2> QED BY <2>3, <2>4
<1>3. CASE ReceiveOther(r)
  <2>1. /\ Others(r) /\ pc[r] = "idle" /\ UNCHANGED <<stores, seen, held>>
        /\ pc'[r] \notin Holding /\ pc'[r] # "idle"
        /\ pc'[r] \notin {"delete.drop", "delete.unlink"}
        /\ pc'[r] # "done" => resp'[r] = resp[r]
    BY <1>3, ReceiveOtherFrame DEF Holding
  <2> QED BY <2>1 DEF FlowFrame, RowFrame, BlobFrame, HoldingFrame, DropFrame, EventFrame, stores
<1> QED BY <1>1, <1>2, <1>3, ApiCases

\* What a step does to the links table.
LinksFrame(r) ==
  \/ UNCHANGED links /\ (pc[r] = "delete.drop" => UNCHANGED files)
  \/ pc[r] = "sign.insert" /\ CanInsertLink(held[r]) /\ links' = links \cup {held[r]}
     /\ UNCHANGED files
  \/ pc[r] = "revoke.update" /\ RevokeLink(req[r].arg, req[r].file) /\ UNCHANGED files
  \/ pc[r] = "delete.drop" /\ links' = {l \in links : l.file # req[r].file}
     /\ files'[req[r].file] = None

LEMMA ApiLinksFrame ==
  ASSUME ApiTypeInv, NEW r \in Request, ApiStep(r)
  PROVE  LinksFrame(r)
<1> USE DEF LinksFrame
<1>1. CASE FileNext(r)
  <2>1. CASE DeleteStep(r)
    BY <2>1, DeleteEffect DEF ApiTypeInv, DeleteSteps, Sets, stores
  <2>2. CASE UploadStep(r) \/ RenameStep(r)
    BY <2>2, UploadEffect, RenameEffect DEF ApiTypeInv, UploadSteps, RenameSteps
  <2>3. CASE ReceiveFileOp(r) \/ Fault(r) \/ Crash(r)
    BY <2>3, ReceiveEffect, FailureEffect DEF ApiTypeInv, stores
  <2> QED BY <1>1, <2>1, <2>2, <2>3 DEF FileNext, FileStep
<1>2. CASE OtherStep(r)
  BY <1>2, OtherEffect DEF OtherStep
<1>3. CASE ReceiveOther(r)
  BY <1>3, ReceiveOtherFrame DEF stores
<1> QED BY <1>1, <1>2, <1>3, ApiCases

----------------------------------------------------------------------------
(* Ownership, as in FileAuditProofs, with the other services around.       *)

ApiOwnerInv ==
  /\ ApiTypeInv
  /\ RowsAreUploaders
  /\ HoldersOwn
  /\ DeletesAreRecorded

LEMMA InitApiOwnerInv == ApiInit => ApiOwnerInv
BY InitApiTypeInv, InitOwnerInv DEF ApiInit, ApiOwnerInv, OwnerInv

LEMMA ApiStepKeepsOwnerInv ==
  ASSUME ApiOwnerInv, NEW r \in Request, ApiStep(r)
  PROVE  ApiOwnerInv'
<1>1. ApiTypeInv'
  BY ApiNextKeepsTypes DEF ApiOwnerInv, ApiNext, ApiStep
<1>2. FlowFrame(r) /\ RowFrame(r) /\ EventFrame(r) /\ HoldingFrame(r) /\ DropFrame(r)
  BY ApiFrames DEF ApiOwnerInv
<1>3. TypeInv /\ Unanswered
  BY DEF ApiOwnerInv, ApiTypeInv
<1> QED BY <1>1, <1>2, <1>3, RowsAreUploadersStays, HoldersOwnStays, DeletesAreRecordedStays
        DEF ApiOwnerInv

\* A step of the API is a step of a request, or changes nothing that the
\* properties speak of but the clock.
Still == UNCHANGED <<stores, flow, signer, listed, before>>

LEMMA ApiNextCases ==
  ASSUME [ApiNext]_apiVars
  PROVE  Still \/ \E r \in Request : ApiStep(r)
BY DEF ApiNext, ApiStep, Wait, Still, apiVars

LEMMA ApiNextKeepsOwnerInv == ApiOwnerInv /\ [ApiNext]_apiVars => ApiOwnerInv'
<1> SUFFICES ASSUME ApiOwnerInv, [ApiNext]_apiVars PROVE ApiOwnerInv'
  OBVIOUS
<1>1. CASE Still
  <2>1. ApiTypeInv'
    BY ApiNextKeepsTypes DEF ApiOwnerInv
  <2> QED BY <1>1, <2>1 DEF Still, stores, flow, ApiOwnerInv, RowsAreUploaders, HoldersOwn,
             CallerOwns, DeletesAreRecorded, DeletionRecorded
<1> QED BY <1>1, ApiStepKeepsOwnerInv, ApiNextCases

LEMMA ApiOwnerInvHolds == ApiSpec => []ApiOwnerInv
BY InitApiOwnerInv, ApiNextKeepsOwnerInv, PTL DEF ApiSpec

----------------------------------------------------------------------------
(* How a request of these services comes to a step, and to an answer.      *)

Arrivals == {"sign.find", "revoke.find", "history.find", "get.find", "links.find",
             "list.select", "download.find"}

LEMMA FaultsElsewhere ==
  ASSUME ApiTypeInv, NEW r \in Request, FileNext(r), pc[r] \in OtherSteps
  PROVE  /\ Others(r) /\ UNCHANGED <<stores, req, seen, held>>
         /\ \/ Failed(r)
            \/ Ended(r, "lost")
            \/ /\ pc[r] = "download.exists" /\ Ended(r, "BLOB_MISSING")
               /\ LocalDisk /\ "storage" \in Faults
         /\ Failed(r) => pc'[r] = pc[r] \/ Ended(r, Layer(pc[r]))
<1>1. pc[r] # "idle" /\ pc[r] \notin UploadSteps \cup DeleteSteps \cup RenameSteps
  BY OtherStepsAreNotFileSteps
<1>2. TypeInv /\ FlowTypeOK
  BY DEF ApiTypeInv, TypeInv, TypeOK
<1>3. Fault(r) \/ Crash(r)
  BY <1>1, <1>2, ReceiveEffect, UploadEffect, DeleteEffect, RenameEffect DEF FileNext, FileStep
<1>4. Others(r) /\ UNCHANGED <<stores, req, seen, held>>
  BY <1>2, <1>3, FailureEffect
<1>5. CASE Crash(r)
  BY <1>2, <1>4, <1>5, ControlApplied DEF Crash, Failed, Ended, Went, UploadSteps
<1>6. CASE Fault(r)
  <2>1. pc[r] = "download.exists" => pc[r] \notin DatabaseStep
    BY DEF DatabaseStep
  <2>2. \/ AttemptFails(r)
        \/ /\ pc[r] = "download.exists" /\ Answer(r, "BLOB_MISSING")
           /\ LocalDisk /\ "storage" \in Faults
    BY <1>6, <2>1 DEF Fault
  <2>3. pc[r] # "upload.insert"
    BY <1>1 DEF UploadSteps
  <2> QED BY <1>2, <1>4, <2>2, <2>3, ControlApplied DEF Failed, Ended, Went
<1> QED BY <1>3, <1>5, <1>6, <1>4, <1>1 DEF Failed, Ended, Went, UploadSteps

LEMMA WayToStep ==
  ASSUME ApiTypeInv, NEW r \in Request, ApiStep(r), pc'[r] \in OtherSteps
  PROVE  \/ pc'[r] = pc[r] /\ UNCHANGED <<req, held, signer>> /\ resp'[r] = resp[r]
         \/ OtherStep(r) /\ OtherMove(r) /\ UNCHANGED req /\ pc[r] \in OtherSteps
         \/ ReceiveOther(r) /\ pc[r] = "idle" /\ pc'[r] \in Arrivals
<1>1. CASE FileNext(r) /\ UNCHANGED signer
  <2>1. pc[r] \in OtherSteps
    BY <1>1, FileMoveFrame, OtherStepsAreNotFileSteps
    DEF MoveFrame, ApiTypeInv, UploadSteps, DeleteSteps, RenameSteps
  <2>2. pc'[r] # "done"
    BY OtherStepsAreNotFileSteps
  <2> QED BY <1>1, <2>1, <2>2, FaultsElsewhere DEF Failed, Ended, Went
<1>2. CASE OtherStep(r)
  BY <1>2, OtherStepFrame
<1>3. CASE ReceiveOther(r)
  BY <1>3, ReceiveOtherFrame, OtherStepsAreNotFileSteps DEF Arrivals
<1> QED BY <1>1, <1>2, <1>3, ApiCases

LEMMA WayToAnswer ==
  ASSUME ApiTypeInv, NEW r \in Request, ApiStep(r), pc'[r] = "done"
  PROVE  \/ resp'[r] \in {"lost", "database", "storage", "VALIDATION", "INVALID_SIGNED_URL"}
         \/ req[r].op \in {"upload", "delete", "rename"} /\ UNCHANGED req /\ FileNext(r)
         \/ OtherStep(r) /\ OtherAnswer(r) /\ UNCHANGED req
         \/ /\ pc[r] = "download.exists" /\ resp'[r] = "BLOB_MISSING" /\ UNCHANGED <<req, stores>>
            /\ LocalDisk /\ "storage" \in Faults
<1>1. CASE FileNext(r)
  <2>1. CASE pc[r] \in OtherSteps
    <3>1. pc[r] # "done"
      BY <2>1, OtherStepsAreNotFileSteps
    <3>2. Ended(r, "lost") \/ Ended(r, Layer(pc[r])) \/ Ended(r, "BLOB_MISSING")
      BY <1>1, <2>1, <3>1, FaultsElsewhere
    <3> QED BY <1>1, <2>1, <3>1, <3>2, FaultsElsewhere DEF Ended, Layer
  <2>2. CASE pc[r] \in UploadSteps \cup DeleteSteps \cup RenameSteps
    <3>1. req[r].op \in {"upload", "delete", "rename"}
      BY <2>2 DEF ApiTypeInv, TypeInv, Shape, ShapeAt
    <3>2. UNCHANGED req
      BY <1>1, <2>2, FileFlowFrame
      DEF ApiTypeInv, FlowFrame, UploadSteps, DeleteSteps, RenameSteps
    <3> QED BY <1>1, <3>1, <3>2
  <2>3. CASE pc[r] = "idle"
    <3>1. ReceiveFileOp(r)
      BY <1>1, <2>3, UploadEffect, DeleteEffect, RenameEffect, FailureEffect
      DEF FileNext, FileStep, ApiTypeInv, UploadSteps, DeleteSteps, RenameSteps, Step,
          DatabaseStep, StorageStep
    <3> QED BY <3>1, ReceiveEffect DEF ApiTypeInv, Ended, Went
  <2>4. pc[r] \in Step \cup {"idle", "done"} /\ pc[r] # "done"
    BY <1>1, FileFlowFrame DEF ApiTypeInv, TypeInv, TypeOK, FlowTypeOK, FlowFrame
  <2> QED BY <2>1, <2>2, <2>3, <2>4
      DEF Step, DatabaseStep, StorageStep, OtherSteps, SignSteps, RevokeSteps, DownloadSteps,
          HistorySteps, ReadSteps, UploadSteps, DeleteSteps, RenameSteps
<1>2. CASE OtherStep(r)
  BY <1>2, OtherStepFrame
<1>3. CASE ReceiveOther(r)
  BY <1>3, ReceiveOtherFrame
<1> QED BY <1>1, <1>2, <1>3, ApiCases

\* What the others hold and were told is not touched.
LEMMA OthersStay ==
  ASSUME ApiTypeInv, NEW r \in Request, ApiStep(r), NEW s \in Request, s # r
  PROVE  /\ pc'[s] = pc[s] /\ resp'[s] = resp[s] /\ req'[s] = req[s]
         /\ held'[s] = held[s] /\ signer'[s] = signer[s] /\ listed'[s] = listed[s]
<1>1. Others(r)
  BY ApiFrames DEF FlowFrame
<1>2. signer'[s] = signer[s]
  <2>1. CASE OtherStep(r)
    <3>1. OtherMove(r)
      BY <2>1, OtherStepFrame
    <3> QED BY <3>1, SignedLinkTyped DEF OtherMove, ApiTypeInv, Went
  <2>2. CASE ReceiveDownload(r)
    <3>1. \E url \in Presented : signer' = [signer EXCEPT ![r] = [url |-> url, at |-> now]]
      BY <2>2 DEF ReceiveDownload
    <3> QED BY <3>1 DEF ApiTypeInv
  <2> QED BY <2>1, <2>2, ApiCases DEF ReceiveOther
<1>3. listed'[s] = listed[s]
  <2>1. CASE ReadStep(r)
    BY <2>1, ReadEffect DEF ApiTypeInv, TypeInv, TypeOK
  <2> QED BY <2>1, ApiCases DEF OtherStep
<1> QED BY <1>1, <1>2, <1>3 DEF Others

\* When a request has been answered nothing about it changes, except that
\* it may be told of to later ones.
LEMMA DoneStays ==
  ASSUME ApiTypeInv, NEW r \in Request, ApiStep(r), NEW s \in Request, pc[s] = "done"
  PROVE  /\ pc'[s] = "done" /\ resp'[s] = resp[s] /\ req'[s] = req[s]
         /\ held'[s] = held[s] /\ signer'[s] = signer[s] /\ listed'[s] = listed[s]
         /\ s # r
<1>1. pc[r] # "done"
  BY ApiFrames DEF FlowFrame
<1> QED BY <1>1, OthersStay

----------------------------------------------------------------------------
(* Links, the files they are of and the users they belong to.              *)

\* Rows of one link: revoking it changes nothing else.
SameLink(k, l) == k.id = l.id /\ k.file = l.file /\ k.exp = l.exp /\ k.user = l.user

\* A link in the table was there, or is being inserted; and it stays, unless
\* its file goes.
LEMMA LinksComeAndGo ==
  ASSUME ApiTypeInv, NEW r \in Request, LinksFrame(r)
  PROVE  /\ \A l \in links' :
              \/ /\ \E k \in links : SameLink(k, l) /\ (k.revoked => l.revoked)
                                     /\ (l.revoked => k.revoked \/ pc[r] = "revoke.update")
                 /\ pc[r] = "delete.drop" => UNCHANGED files \/ l.file # req[r].file
              \/ pc[r] = "sign.insert" /\ l = held[r] /\ CanInsertLink(l) /\ UNCHANGED files
         /\ \A k \in links :
              \/ \E l \in links' : SameLink(k, l) /\ (k.revoked => l.revoked)
              \/ pc[r] = "delete.drop" /\ k.file = req[r].file /\ files'[k.file] = None
<1>1. \A k \in Link : SameLink(k, [k EXCEPT !.revoked = TRUE]) /\ [k EXCEPT !.revoked = TRUE].revoked
  BY DEF SameLink, Link
<1>2. links \subseteq Link /\ \A k \in Link : SameLink(k, k)
  BY DEF ApiTypeInv, TypeInv, TypeOK, StoresTypeOK, SameLink
<1>3. CASE UNCHANGED links /\ (pc[r] = "delete.drop" => UNCHANGED files)
  BY <1>2, <1>3
<1>4. CASE pc[r] = "sign.insert" /\ CanInsertLink(held[r]) /\ links' = links \cup {held[r]}
           /\ UNCHANGED files
  BY <1>2, <1>4
<1>5. CASE pc[r] = "revoke.update" /\ RevokeLink(req[r].arg, req[r].file)
  BY <1>1, <1>2, <1>5 DEF RevokeLink, Revocable
<1>6. CASE pc[r] = "delete.drop" /\ links' = {l \in links : l.file # req[r].file}
           /\ files'[req[r].file] = None
  BY <1>2, <1>6
<1> QED BY <1>3, <1>4, <1>5, <1>6 DEF LinksFrame

\* Who inserts a link owns its file, or did while it had a row.
SignersOwn == \A r \in Request : pc[r] = "sign.insert" => CallerOwns(r)

\* A link bears the name of the sign request that made it, which still holds it.
LinksAreSigned ==
  \A l \in links : l.id \in Request =>
    /\ pc[l.id] \in {"sign.insert", "sign.audit", "done"} /\ req[l.id].op = "sign"
    /\ held[l.id] # None /\ SameLink(l, held[l.id])

LinkIdsAreUnique == \A k, l \in links : k.id = l.id => k = l

LinkInv ==
  /\ ApiOwnerInv
  /\ SignersOwn
  /\ LinksBelongToOwners
  /\ LinksAreSigned
  /\ LinkIdsAreUnique

\* What a request holds when it inserts a link, and after.
LEMMA HeldLink ==
  ASSUME ApiTypeInv, NEW r \in Request, pc[r] \in {"sign.insert", "sign.audit"}
  PROVE  /\ held[r] \in Link /\ held[r].id = r /\ held[r].file = req[r].file
         /\ held[r].user = req[r].user /\ ~held[r].revoked
         /\ held[r].exp = signer[r].url.expires.number
         /\ req[r] \in Command /\ req[r].op = "sign" /\ req[r].file \in FileId
<1>1. held[r] \in Link /\ req[r].op = "sign" /\ req[r] \in Command
  BY DEF ApiTypeInv, ApiShape, ApiShapeAt, SignSteps, TypeInv, Shape, ShapeAt
<1>2. SignedAs(r)
  BY <1>1, NoneIsNoCommand, NoneIsNoValue DEF ApiTypeInv, SignersSign, Signing
<1> QED BY <1>1, <1>2 DEF SignedAs, Command

LEMMA SignersOwnStays ==
  ASSUME ApiOwnerInv, SignersOwn, NEW r \in Request, ApiStep(r)
  PROVE  SignersOwn'
<1> SUFFICES ASSUME NEW s \in Request, pc'[s] = "sign.insert" PROVE CallerOwns(s)'
  BY DEF SignersOwn
<1> USE DEF ApiOwnerInv
<1>1. FlowFrame(r) /\ RowFrame(r) /\ TypeInv /\ Unanswered
  BY ApiFrames DEF ApiTypeInv
<1>2. CASE s # r \/ pc[s] = "sign.insert"
  <2>1. pc[s] = "sign.insert"
    BY <1>1, <1>2 DEF FlowFrame, Others
  <2> QED BY <1>1, <2>1, HeldLink, CallerOwnsStays DEF SignersOwn
<1>3. CASE s = r /\ pc[s] # "sign.insert"
  <2>1. pc[r] = "sign.find" /\ Owned(r)
    BY <1>3, WayToStep DEF OtherSteps, SignSteps, OtherMove, Arrivals, Went, Ended, Failed
  <2>2. req[r].file \in FileId
    BY <1>1, <2>1 DEF TypeInv, Shape, ShapeAt, Command
  <2>3. CallerOwns(r)
    BY <2>1, OwnedIsOwn
  <2> QED BY <1>1, <1>3, <2>1, <2>2, <2>3, CallerOwnsStays
<1> QED BY <1>2, <1>3

LEMMA LinksBelongToOwnersStays ==
  ASSUME LinkInv, NEW r \in Request, ApiStep(r)
  PROVE  LinksBelongToOwners'
<1> USE DEF LinkInv, ApiOwnerInv
<1> SUFFICES ASSUME NEW l \in links'
             PROVE  files'[l.file] # None /\ files'[l.file].user = l.user
  BY DEF LinksBelongToOwners
<1>1. LinksFrame(r) /\ RowFrame(r) /\ FlowFrame(r)
  BY ApiLinksFrame, ApiFrames
<1>2. CASE pc[r] = "sign.insert" /\ l = held[r] /\ CanInsertLink(l) /\ UNCHANGED files
  BY <1>2, HeldLink DEF SignersOwn, CallerOwns, CanInsertLink
<1>3. CASE /\ \E k \in links : SameLink(k, l)
           /\ pc[r] = "delete.drop" => UNCHANGED files \/ l.file # req[r].file
  <2>1. files[l.file] # None /\ files[l.file].user = l.user
    BY <1>3 DEF LinksBelongToOwners, SameLink
  <2>2. l.file \in FileId
    BY <1>3 DEF ApiTypeInv, TypeInv, TypeOK, StoresTypeOK, Link, SameLink
  <2>3. CASE files'[l.file] = files[l.file]
    BY <2>1, <2>3
  <2>4. CASE pc[r] = "rename.update" /\ files'[l.file] # files[l.file]
    <3>1. files'[l.file] = [user |-> files[l.file].user, name |-> req[r].arg]
      BY <1>1, <2>2, <2>4 DEF RowFrame
    <3>2. files'[l.file] \in Row
      <4>1. files[l.file] \in Row /\ req[r].arg \in Name
        BY <2>1, <2>2, <2>4 
        DEF ApiTypeInv, TypeInv, TypeOK, StoresTypeOK, Shape, ShapeAt
      <4> QED BY <3>1, <4>1 DEF Row
    <3> QED BY <2>1, <3>1, <3>2, NoneIsNoValue
  <2>5. CASE pc[r] = "delete.drop" /\ files'[l.file] # files[l.file]
    BY <1>1, <1>3, <2>2, <2>5 DEF RowFrame
  <2> QED BY <1>1, <2>1, <2>2, <2>3, <2>4, <2>5 DEF RowFrame
<1> QED BY <1>1, <1>2, <1>3, LinksComeAndGo

\* Who made a link goes on holding it.
LEMMA SignerHolds ==
  ASSUME ApiTypeInv, NEW r \in Request, ApiStep(r), NEW s \in Request,
         pc[s] \in {"sign.insert", "sign.audit", "done"}, req[s].op = "sign"
  PROVE  /\ pc'[s] \in {"sign.insert", "sign.audit", "done"} /\ req'[s] = req[s]
         /\ held'[s] = held[s]
<1>1. CASE s # r \/ pc[s] = "done"
  BY <1>1, OthersStay, DoneStays
<1>2. CASE s = r /\ pc[s] \in {"sign.insert", "sign.audit"}
  <2>1. pc[r] \in OtherSteps /\ pc[r] # "idle" /\ pc[r] \notin RenameSteps
    BY <1>2 DEF OtherSteps, SignSteps, RenameSteps
  <2>2. CASE FileNext(r)
    BY <1>2, <2>1, <2>2, FaultsElsewhere DEF Failed, Ended, Went
  <2>3. CASE OtherStep(r)
    BY <1>2, <2>3, OtherStepFrame DEF OtherMove, Failed, Ended, Went
  <2>4. CASE ReceiveOther(r)
    BY <2>1, <2>4, ReceiveOtherFrame
  <2> QED BY <2>2, <2>3, <2>4, ApiCases
<1> QED BY <1>1, <1>2

LEMMA LinksAreSignedStays ==
  ASSUME LinkInv, NEW r \in Request, ApiStep(r)
  PROVE  LinksAreSigned' /\ LinkIdsAreUnique'
<1> USE DEF LinkInv, ApiOwnerInv
<1>1. LinksFrame(r) /\ FlowFrame(r) /\ links \subseteq Link
  BY ApiLinksFrame, ApiFrames DEF ApiTypeInv, TypeInv, TypeOK, StoresTypeOK
<1>2. pc[r] = "sign.insert" => held[r].id = r
  BY HeldLink
<1>3. LinksAreSigned'
  <2> SUFFICES ASSUME NEW l \in links', l.id \in Request
               PROVE  /\ pc'[l.id] \in {"sign.insert", "sign.audit", "done"}
                      /\ req'[l.id].op = "sign"
                      /\ held'[l.id] # None /\ SameLink(l, held'[l.id])
    BY DEF LinksAreSigned
  <2>1. /\ pc[l.id] \in {"sign.insert", "sign.audit", "done"} /\ req[l.id].op = "sign"
        /\ held[l.id] # None /\ SameLink(l, held[l.id])
    <3>1. CASE pc[r] = "sign.insert" /\ l = held[r]
      BY <3>1, HeldLink, NoneIsNoValue DEF SameLink
    <3>2. CASE \E k \in links : SameLink(k, l)
      BY <3>2 DEF LinksAreSigned, SameLink
    <3> QED BY <1>1, <3>1, <3>2, LinksComeAndGo
  <2> QED BY <2>1, SignerHolds
<1>4. LinkIdsAreUnique'
  <2> SUFFICES ASSUME NEW k \in links', NEW l \in links', k.id = l.id PROVE k = l
    BY DEF LinkIdsAreUnique
  <2>1. CASE UNCHANGED links \/ links' = {m \in links : m.file # req[r].file}
    BY <2>1 DEF LinkIdsAreUnique
  <2>2. CASE CanInsertLink(held[r]) /\ links' = links \cup {held[r]}
    BY <2>2 DEF LinkIdsAreUnique, CanInsertLink
  <2>3. CASE RevokeLink(req[r].arg, req[r].file)
    <3>1. ASSUME NEW m \in links'
          PROVE  \E n \in links : /\ n.id = m.id
                                  /\ IF n \in Revocable(req[r].arg, req[r].file)
                                       THEN m = [n EXCEPT !.revoked = TRUE] ELSE m = n
      BY <1>1, <2>3, <3>1 DEF RevokeLink, Revocable, Link
    <3> QED BY <3>1 DEF LinkIdsAreUnique
  <2> QED BY <1>1, <2>1, <2>2, <2>3 DEF LinksFrame
<1> QED BY <1>3, <1>4

LEMMA LinkInvHolds == ApiSpec => []LinkInv
<1>1. ApiInit => LinkInv
  <2> SUFFICES ASSUME ApiInit PROVE LinkInv
    OBVIOUS
  <2>1. ApiOwnerInv /\ \A r \in Request : pc[r] = "idle"
    BY InitApiOwnerInv DEF ApiInit, Init, FlowInit
  <2>2. PICK at \in [StoredLink -> StoredFile] :
          links = {[id |-> l, file |-> at[l], exp |-> StoredExp,
                    user |-> files[at[l]].user, revoked |-> FALSE] : l \in StoredLink}
    BY DEF ApiInit, Init, StoresInit
  <2>3. ASSUME NEW k \in StoredLink
        PROVE  at[k] \in FileId /\ at[k] \notin Request /\ k \notin Request
    BY IdsAreDistinct DEF FileId
  <2>4. LinksBelongToOwners
    BY <2>2, <2>3 DEF LinksBelongToOwners, ApiInit, Init, StoresInit
  <2>5. LinksAreSigned /\ LinkIdsAreUnique
    <3>1. \A l \in links : \E k \in StoredLink :
            l = [id |-> k, file |-> at[k], exp |-> StoredExp, user |-> files[at[k]].user,
                 revoked |-> FALSE]
      BY <2>2
    <3>2. \A l \in links : l.id \notin Request
      BY <2>3, <3>1
    <3>3. ASSUME NEW k \in links, NEW l \in links, k.id = l.id PROVE k = l
      <4>1. PICK a \in StoredLink : k = [id |-> a, file |-> at[a], exp |-> StoredExp,
                                         user |-> files[at[a]].user, revoked |-> FALSE]
        BY <3>1
      <4>2. PICK b \in StoredLink : l = [id |-> b, file |-> at[b], exp |-> StoredExp,
                                         user |-> files[at[b]].user, revoked |-> FALSE]
        BY <3>1
      <4>3. a = b
        BY <3>3, <4>1, <4>2
      <4> QED BY <4>1, <4>2, <4>3
    <3> QED BY <3>2, <3>3 DEF LinksAreSigned, LinkIdsAreUnique
  <2> QED BY <2>1, <2>4, <2>5 DEF LinkInv, SignersOwn
<1>2. LinkInv /\ [ApiNext]_apiVars => LinkInv'
  <2> SUFFICES ASSUME LinkInv, [ApiNext]_apiVars PROVE LinkInv'
    OBVIOUS
  <2>1. ApiOwnerInv'
    BY ApiNextKeepsOwnerInv DEF LinkInv
  <2>2. CASE Still
    BY <2>1, <2>2 DEF LinkInv, SignersOwn, CallerOwns, LinksBelongToOwners, LinksAreSigned,
       LinkIdsAreUnique, SameLink, Still, stores, flow
  <2> QED BY <2>1, <2>2, ApiNextCases, SignersOwnStays, LinksBelongToOwnersStays,
             LinksAreSignedStays DEF LinkInv
<1> QED BY <1>1, <1>2, PTL DEF ApiSpec

\* A link in the table is of a file that has a row, and belongs to that file's
\* owner: no interleaving of deletes, uploads and sign requests and no failure
\* leaves a link behind or gives one to somebody else.
THEOREM LinksBelong == ApiSpec => []LinksBelongToOwners
<1>1. LinkInv => LinksBelongToOwners
  BY DEF LinkInv
<1> QED BY <1>1, LinkInvHolds, PTL

----------------------------------------------------------------------------
(* What is in the trail when a URL or the bytes of a file are given away.  *)

LEMMA AnsweredIsDone ==
  ASSUME ApiTypeInv, NEW r \in Request, resp[r] # "none"
  PROVE  pc[r] = "done" /\ req[r] \in Command /\ req[r] # None
BY NoneIsNoCommand DEF ApiTypeInv, Unanswered, TypeInv, Shape, ShapeAt

LinkKept(r) ==
  \/ \E l \in links : l.id = r /\ l.file = held[r].file /\ l.exp = held[r].exp
  \/ Deleted(req[r].file)

Generated(r) ==
  \E e \in EventsBy(r) : e.type = "signed_link_generated" /\ e.exp = held[r].exp

Redeemed(r) ==
  \E e \in EventsBy(r) : /\ e.type = "signed_link_downloaded"
                        /\ e.link = held[r].id /\ e.user = held[r].user

Rejected(r) == \E e \in EventsBy(r) : e.type = "signed_link_download_rejected"

\* A URL is handed out for a link that was inserted, and its event recorded.
SignsAreKept ==
  \A r \in Request :
    /\ pc[r] = "sign.audit" \/ Answered(r, "sign", "ok") => LinkKept(r)
    /\ Answered(r, "sign", "ok") => Generated(r)

\* The bytes are looked up only for a redemption that was recorded.
RedemptionsAreKept ==
  \A r \in Request :
    /\ \/ pc[r] \in {"download.exists", "download.read"}
       \/ Answered(r, "download", "ok") \/ Answered(r, "download", "BLOB_MISSING")
       => Redeemed(r)
    /\ Answered(r, "download", "LINK_REVOKED") \/ Answered(r, "download", "UNKNOWN_LINK")
       => Rejected(r)

GivenInv == LinkInv /\ SignsAreKept /\ RedemptionsAreKept

LEMMA EventsStay ==
  ASSUME NEW r \in Request, EventFrame(r), NEW s \in Request, held'[s] = held[s]
  PROVE  /\ Generated(s) => Generated(s)'
         /\ Redeemed(s) => Redeemed(s)'
         /\ Rejected(s) => Rejected(s)'
BY DEF EventFrame, Generated, Redeemed, Rejected, EventsBy

LEMMA LinkKeptStays ==
  ASSUME LinkInv, NEW r \in Request, ApiStep(r), NEW s \in Request, LinkKept(s),
         pc[s] \in {"sign.audit", "done"}, req[s].op = "sign",
         held[s].file = req[s].file
  PROVE  LinkKept(s)'
<1> USE DEF LinkInv, ApiOwnerInv
<1>1. req'[s] = req[s] /\ held'[s] = held[s]
  BY SignerHolds
<1>2. EventFrame(r) /\ LinksFrame(r) /\ FlowFrame(r)
  BY ApiFrames, ApiLinksFrame
<1>3. CASE Deleted(req[s].file)
  BY <1>1, <1>2, <1>3, DeletedStays DEF LinkKept
<1>4. CASE \E k \in links : k.id = s /\ k.file = held[s].file /\ k.exp = held[s].exp
  <2>1. PICK k \in links : k.id = s /\ k.file = held[s].file /\ k.exp = held[s].exp
    BY <1>4
  <2>2. CASE \E l \in links' : SameLink(k, l)
    BY <1>1, <2>1, <2>2 DEF LinkKept, SameLink
  <2>3. CASE pc[r] = "delete.drop" /\ k.file = req[r].file
    <3>1. Deleted(req[s].file)
      BY <2>1, <2>3 DEF DeletesAreRecorded, DeletionRecorded, Deleted
    <3> QED BY <1>1, <1>2, <3>1, DeletedStays DEF LinkKept
  <2> QED BY <1>2, <2>2, <2>3, LinksComeAndGo
<1> QED BY <1>3, <1>4 DEF LinkKept

LEMMA AnswerKeepsHeld ==
  ASSUME ApiTypeInv, NEW r \in Request, ApiStep(r), pc'[r] = "done", pc[r] \in OtherSteps
  PROVE  UNCHANGED held
<1>1. CASE FileNext(r)
  BY <1>1, FaultsElsewhere
<1>2. CASE OtherStep(r)
  <2>1. OtherMove(r)
    BY <1>2, OtherStepFrame
  <2> QED BY <2>1 DEF OtherMove, Went
<1>3. CASE ReceiveOther(r)
  BY <1>3, ReceiveOtherFrame
<1> QED BY <1>1, <1>2, <1>3, ApiCases

\* The answers of these services come from one step each.
LEMMA WhereAnswered ==
  ASSUME ApiTypeInv, NEW r \in Request, ApiStep(r), pc'[r] = "done"
  PROVE  LET op == req'[r].op IN
         /\ op = "sign" /\ resp'[r] = "ok" =>
              OtherStep(r) /\ pc[r] = "sign.audit" /\ OtherEvent(r) \in audit'
         /\ op = "revoke" /\ resp'[r] = "ok" =>
              OtherStep(r) /\ pc[r] = "revoke.audit" /\ OtherEvent(r) \in audit'
         /\ op = "download" /\ resp'[r] = "ok" =>
              OtherStep(r) /\ pc[r] = "download.read" /\ HasBlob(req[r].file)
         /\ op = "download" /\ resp'[r] = "BLOB_MISSING" =>
              pc[r] = "download.exists" /\ UNCHANGED held
              /\ (~HasBlob(req[r].file) \/ (LocalDisk /\ "storage" \in Faults))
         /\ op = "download" /\ resp'[r] = "FILE_NOT_FOUND" =>
              OtherStep(r) /\ pc[r] = "download.find" /\ files[req[r].file] = None
         /\ op = "download" /\ resp'[r] \in {"LINK_REVOKED", "UNKNOWN_LINK"} =>
              /\ OtherStep(r) /\ pc[r] = "download.reject" /\ OtherEvent(r) \in audit'
              /\ resp'[r] = "UNKNOWN_LINK" <=> held[r] = None
<1> DEFINE op == req'[r].op
<1>1. CASE resp'[r] \in {"lost", "database", "storage", "VALIDATION", "INVALID_SIGNED_URL"}
  BY <1>1
<1>2. CASE req[r].op \in {"upload", "delete", "rename"} /\ UNCHANGED req
  BY <1>2
<1>3. CASE OtherStep(r) /\ OtherAnswer(r) /\ UNCHANGED req
  <2>1. ApiShape(r)
    BY DEF ApiTypeInv
  <2>2. UNCHANGED held
    BY <1>3, OtherStepFrame, AnswerKeepsHeld
  <2> QED BY <1>3, <2>1, <2>2
      DEF OtherAnswer, ApiShape, ApiShapeAt, SignSteps, RevokeSteps, DownloadSteps, HistorySteps,
          ReadSteps
<1>4. CASE /\ pc[r] = "download.exists" /\ resp'[r] = "BLOB_MISSING" /\ UNCHANGED req
           /\ LocalDisk /\ "storage" \in Faults
  <2>1. UNCHANGED held
    BY <1>4, AnswerKeepsHeld DEF OtherSteps, DownloadSteps
  <2> QED BY <1>4, <2>1
<1> QED BY <1>1, <1>2, <1>3, <1>4, WayToAnswer

LEMMA SignsAreKeptStays ==
  ASSUME GivenInv, NEW r \in Request, ApiStep(r)
  PROVE  SignsAreKept'
<1> USE DEF GivenInv, LinkInv, ApiOwnerInv
<1>1. EventFrame(r) /\ FlowFrame(r)
  BY ApiFrames
<1>2. ASSUME NEW s \in Request, pc[s] = "sign.audit" \/ Answered(s, "sign", "ok")
      PROVE  /\ pc[s] \in {"sign.audit", "done"} /\ req[s].op = "sign"
             /\ held[s].file = req[s].file
  <2>1. CASE pc[s] = "sign.audit"
    BY <2>1, HeldLink
  <2>2. CASE Answered(s, "sign", "ok")
    <3>1. pc[s] = "done" /\ req[s] # None
      BY <2>2, AnsweredIsDone DEF Answered
    <3>2. SignedAs(s)
      BY <2>2, <3>1 DEF ApiTypeInv, SignersSign, Signing, Answered
    <3> QED BY <2>2, <3>1, <3>2 DEF SignedAs, Answered
  <2> QED BY <1>2, <2>1, <2>2
<1>3. ASSUME NEW s \in Request, pc'[s] = "sign.audit"
      PROVE  LinkKept(s)'
  <2>1. CASE pc[s] = "sign.audit"
    BY <1>2, <2>1, LinkKeptStays DEF SignsAreKept
  <2>2. CASE s = r /\ pc[r] = "sign.insert"
    <3>1. OtherStep(r) /\ OtherMove(r)
      BY <1>3, <2>2, WayToStep DEF OtherSteps, SignSteps
    <3>2. held[r] \in links' /\ UNCHANGED held
      BY <1>3, <2>2, <3>1 DEF OtherMove, Went, Ended, Failed
    <3> QED BY <2>2, <3>2, HeldLink DEF LinkKept
  <2>3. CASE s = r /\ pc[r] \notin {"sign.insert", "sign.audit"}
    BY <1>3, <2>3, WayToStep DEF OtherSteps, SignSteps, OtherMove, Went, Ended, Failed, Arrivals
  <2> QED BY <1>3, <2>1, <2>2, <2>3, OthersStay
<1>4. ASSUME NEW s \in Request, Answered(s, "sign", "ok")'
      PROVE  LinkKept(s)' /\ Generated(s)'
  <2>1. CASE Answered(s, "sign", "ok")
    <3>1. pc[s] = "done"
      BY <2>1, AnsweredIsDone DEF Answered
    <3>2. held'[s] = held[s]
      BY <3>1, DoneStays
    <3> QED BY <1>1, <1>2, <2>1, <3>2, LinkKeptStays, EventsStay DEF SignsAreKept
  <2>2. CASE ~Answered(s, "sign", "ok")
    <3>1. s = r /\ pc'[r] = "done"
      BY <1>1, <1>4, <2>2, OthersStay DEF Answered, FlowFrame, ApiTypeInv, Unanswered
    <3>2. pc[r] = "sign.audit" /\ OtherEvent(r) \in audit'
      BY <1>4, <3>1, WhereAnswered DEF Answered
    <3>3. UNCHANGED held
      BY <3>1, <3>2, AnswerKeepsHeld DEF OtherSteps, SignSteps
    <3>4. /\ OtherEvent(r).id = <<r, tries[r]>> /\ OtherEvent(r).type = "signed_link_generated"
          /\ OtherEvent(r).exp = held[r].exp
      BY <3>2, OtherEventFields DEF OtherAudit
    <3>5. Generated(r)'
      BY <3>2, <3>3, <3>4 DEF Generated, EventsBy
    <3> QED BY <1>2, <3>1, <3>2, <3>5, LinkKeptStays DEF SignsAreKept
  <2> QED BY <2>1, <2>2
<1> QED BY <1>3, <1>4 DEF SignsAreKept

LEMMA RedemptionsAreKeptStays ==
  ASSUME GivenInv, NEW r \in Request, ApiStep(r)
  PROVE  RedemptionsAreKept'
<1> USE DEF GivenInv, LinkInv, ApiOwnerInv
<1>1. EventFrame(r) /\ FlowFrame(r)
  BY ApiFrames
<1>2. ASSUME NEW s \in Request, pc'[s] \in {"download.exists", "download.read"}
      PROVE  Redeemed(s)'
  <2>1. CASE s # r
    BY <1>1, <1>2, <2>1, OthersStay, EventsStay DEF RedemptionsAreKept
  <2>2. CASE s = r /\ pc'[r] = pc[r] /\ UNCHANGED held
    BY <1>1, <1>2, <2>2, EventsStay DEF RedemptionsAreKept
  <2>3. CASE s = r /\ OtherStep(r) /\ OtherMove(r) /\ pc'[r] # pc[r]
    <3>1. CASE pc[r] = "download.exists" /\ UNCHANGED held
      BY <1>1, <2>3, <3>1, EventsStay DEF RedemptionsAreKept
    <3>2. CASE pc[r] = "download.audit" /\ OtherEvent(r) \in audit' /\ UNCHANGED held
      <4>1. held[r] \in Link /\ held[r] # None
        BY <3>2, NoneIsNoValue DEF ApiTypeInv, ApiShape, ApiShapeAt
      <4> QED BY <2>3, <3>2, <4>1, OtherEventFields DEF Redeemed, EventsBy, OtherAudit
    <3> QED BY <1>2, <2>3, <3>1, <3>2 DEF OtherMove, Went, Ended, Failed
  <2>4. CASE s = r /\ OtherStep(r) /\ OtherMove(r) /\ pc'[r] = pc[r]
    BY <1>2, <2>2, <2>4 DEF OtherMove, Went, Ended, Failed
  <2> QED BY <1>2, <2>1, <2>2, <2>3, <2>4, WayToStep DEF OtherSteps, DownloadSteps, Arrivals
<1>3. ASSUME NEW s \in Request, pc'[s] = "done", pc[s] # "done"
      PROVE  /\ Answered(s, "download", "ok")' \/ Answered(s, "download", "BLOB_MISSING")'
                => Redeemed(s)'
             /\ Answered(s, "download", "LINK_REVOKED")' \/ Answered(s, "download", "UNKNOWN_LINK")'
                => Rejected(s)'
  <2>1. s = r
    BY <1>3, OthersStay
  <2>2. ASSUME Answered(s, "download", "ok")' \/ Answered(s, "download", "BLOB_MISSING")'
        PROVE  Redeemed(s)'
    <3>1. pc[r] \in {"download.exists", "download.read"}
      BY <1>3, <2>1, <2>2, WhereAnswered DEF Answered
    <3>2. UNCHANGED held
      BY <1>3, <2>1, <3>1, AnswerKeepsHeld DEF OtherSteps, DownloadSteps
    <3> QED BY <1>1, <2>1, <3>1, <3>2, EventsStay DEF RedemptionsAreKept
  <2>3. ASSUME Answered(s, "download", "LINK_REVOKED")' \/ Answered(s, "download", "UNKNOWN_LINK")'
        PROVE  Rejected(s)'
    <3>1. pc[r] = "download.reject" /\ OtherEvent(r) \in audit'
      BY <1>3, <2>1, <2>3, WhereAnswered DEF Answered
    <3> QED BY <2>1, <3>1, OtherEventFields DEF Rejected, EventsBy, OtherAudit
  <2> QED BY <2>2, <2>3
<1>4. ASSUME NEW s \in Request, pc[s] = "done"
      PROVE  /\ Answered(s, "download", "ok")' \/ Answered(s, "download", "BLOB_MISSING")'
                => Redeemed(s)'
             /\ Answered(s, "download", "LINK_REVOKED")' \/ Answered(s, "download", "UNKNOWN_LINK")'
                => Rejected(s)'
  <2>1. resp'[s] = resp[s] /\ req'[s] = req[s] /\ held'[s] = held[s]
    BY <1>4, DoneStays
  <2> QED BY <1>1, <2>1, EventsStay DEF RedemptionsAreKept, Answered
<1>5. ASSUME NEW s \in Request, pc'[s] # "done"
      PROVE  resp'[s] = "none"
  BY <1>1, <1>5, OthersStay DEF FlowFrame, ApiTypeInv, Unanswered
<1>6. ASSUME NEW s \in Request
      PROVE  /\ Answered(s, "download", "ok")' \/ Answered(s, "download", "BLOB_MISSING")'
                => Redeemed(s)'
             /\ Answered(s, "download", "LINK_REVOKED")' \/ Answered(s, "download", "UNKNOWN_LINK")'
                => Rejected(s)'
  BY <1>3, <1>4, <1>5 DEF Answered
<1> QED BY <1>2, <1>6 DEF RedemptionsAreKept

LEMMA GivenInvHolds == ApiSpec => []GivenInv
<1>1. ApiInit => SignsAreKept /\ RedemptionsAreKept
  BY DEF ApiInit, Init, FlowInit, SignsAreKept, RedemptionsAreKept, Answered
<1>2. LinkInv' /\ GivenInv /\ [ApiNext]_apiVars => GivenInv'
  <2> SUFFICES ASSUME LinkInv', GivenInv, [ApiNext]_apiVars PROVE GivenInv'
    OBVIOUS
  <2>1. CASE Still
    BY <2>1 DEF GivenInv, SignsAreKept, RedemptionsAreKept, Answered, LinkKept, Generated,
       Redeemed, Rejected, EventsBy, Deleted, Still, stores, flow
  <2> QED BY <2>1, ApiNextCases, SignsAreKeptStays, RedemptionsAreKeptStays DEF GivenInv
<1> QED BY <1>1, <1>2, LinkInvHolds, PTL DEF ApiSpec, GivenInv

\* A URL that a client holds can be listed and revoked, and its generation is
\* in the trail, until the deletion of its file is recorded: the answer waits
\* for both, and nothing but the deletion takes the link away.
THEOREM URLsAreRecorded == ApiSpec => []HandedOutIsRecorded
<1>1. GivenInv => HandedOutIsRecorded
  BY DEF GivenInv, SignsAreKept, HandedOutIsRecorded, Generated, LinkKept
<1> QED BY <1>1, GivenInvHolds, PTL

\* Nobody gets the bytes of a file, or learns that the link does not entitle
\* him to them, without an event that says so, for the owner of the link.
THEOREM RedemptionsAreAudited == ApiSpec => []RedemptionIsAudited
<1>1. GivenInv => RedemptionIsAudited
  BY DEF GivenInv, RedemptionsAreKept, RedemptionIsAudited, Answered, Redeemed, Rejected
<1> QED BY <1>1, GivenInvHolds, PTL
=============================================================================
