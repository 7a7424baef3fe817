-------------------------- MODULE SignedAnswerProofs --------------------------
(***************************************************************************)
(* What clients of the whole service are told, after what they were told   *)
(* before, for any number of requests: proved over the frames and the      *)
(* invariants of SignedLinkProofs.                                         *)
(***************************************************************************)
EXTENDS SignedLinkProofs

----------------------------------------------------------------------------
(* "After": the requests answered before another one arrived.              *)

BeforeIsDone == \A r \in Request : \A q \in before[r] : pc[q] = "done"

LEMMA BeforeFrame ==
  ASSUME ApiTypeInv, NEW r \in Request, ApiStep(r)
  PROVE  IF pc[r] = "idle"
           THEN before' = [before EXCEPT ![r] = {q \in Request : pc[q] = "done"}]
           ELSE UNCHANGED before
<1>1. CASE Arrive(r)
  <2>1. pc[r] = "idle"
    BY <1>1, ReceiveEffect, ReceiveOtherFrame
    DEF Arrive, ReceiveLinkOp, ReceiveOther, ApiTypeInv
  <2> QED BY <1>1, <2>1 DEF Arrive
<1>2. CASE Proceed(r) \/ Stop(r)
  <2>1. UNCHANGED before
    BY <1>2 DEF Proceed, Stop
  <2>2. pc[r] # "idle"
    <3>1. CASE LinkStep(r) \/ ReadStep(r)
      BY <3>1, OtherEffect, OtherStepsAreNotFileSteps
    <3>2. CASE FileStep(r) \/ Fault(r) \/ Crash(r)
      BY <3>2, UploadEffect, DeleteEffect, RenameEffect, FailureEffect
      DEF FileStep, ApiTypeInv, UploadSteps, DeleteSteps, RenameSteps, Step, DatabaseStep,
          StorageStep
    <3> QED BY <1>2, <3>1, <3>2 DEF Proceed, Stop
  <2> QED BY <2>1, <2>2
<1> QED BY <1>1, <1>2 DEF ApiStep

\* Of whom it was told of before it arrived does not change any more.
LEMMA DoneBeforeStays ==
  ASSUME ApiTypeInv, BeforeIsDone, NEW r \in Request, ApiStep(r),
         NEW s \in Request, pc[s] # "idle"
  PROVE  /\ before'[s] = before[s]
         /\ \A op : DoneBefore(s, op)' = DoneBefore(s, op)
         /\ \A q \in before[s] :
              /\ q \in Request /\ pc[q] = "done" /\ req'[q] = req[q] /\ held'[q] = held[q]
<1>1. before'[s] = before[s]
  BY BeforeFrame DEF ApiTypeInv
<1>2. \A q \in before[s] : q \in Request /\ pc[q] = "done"
  BY DEF BeforeIsDone, ApiTypeInv
<1>3. \A q \in before[s] : resp'[q] = resp[q] /\ req'[q] = req[q] /\ held'[q] = held[q]
  BY <1>2, DoneStays
<1> QED BY <1>1, <1>2, <1>3 DEF DoneBefore, Answered

LEMMA BeforeIsDoneStays ==
  ASSUME ApiTypeInv, BeforeIsDone, NEW r \in Request, ApiStep(r)
  PROVE  BeforeIsDone'
<1> SUFFICES ASSUME NEW s \in Request, NEW q \in before'[s] PROVE pc'[q] = "done"
  BY DEF BeforeIsDone
<1>1. q \in Request /\ pc[q] = "done"
  BY BeforeFrame DEF BeforeIsDone, ApiTypeInv
<1> QED BY <1>1, DoneStays

----------------------------------------------------------------------------
(* Uploads and deletes that were acknowledged.                             *)

\* An upload names its file itself.
UploadsNameTheirs ==
  \A r \in Request : req[r] # None /\ req[r].op = "upload" => req[r].file = r

\* Only who uploaded a file is on record for deleting it.
DeletersOwn ==
  \A e \in audit : e.type = "file_deleted" /\ e.file \in Request =>
    pc[e.file] # "idle" /\ req[e.file].op = "upload" /\ e.user = req[e.file].user

AckedDeletesAreRecorded ==
  \A r \in Request : Answered(r, "delete", "ok") => DeletionRecorded(r)

ToldInv ==
  /\ GivenInv
  /\ BeforeIsDone
  /\ UploadsNameTheirs
  /\ BytesAreSaved
  /\ AckedUploadIsDurable
  /\ DeletersOwn
  /\ AckedDeletesAreRecorded

LEMMA WhereFilesAnswer ==
  ASSUME ApiTypeInv, NEW r \in Request, ApiStep(r), pc'[r] = "done", resp'[r] = "ok"
  PROVE  /\ req'[r].op = "upload" => FileNext(r) /\ pc[r] = "upload.insert"
         /\ req'[r].op = "delete" => FileNext(r) /\ pc[r] = "delete.unlink"
<1>1. CASE FileNext(r)
  <2>1. pc[r] \in {"upload.insert", "delete.unlink", "rename.audit"}
    BY <1>1, FileAnswers DEF ApiTypeInv, HttpErrorCode
  <2>2. Shape(r) /\ UNCHANGED req
    BY <1>1, <2>1, FileFlowFrame DEF ApiTypeInv, TypeInv, FlowFrame
  <2> QED BY <1>1, <2>1, <2>2 DEF Shape, ShapeAt, UploadSteps, DeleteSteps, RenameSteps
<1>2. CASE OtherStep(r)
  <2>1. UNCHANGED req /\ pc[r] \in OtherSteps
    BY <1>2, OtherStepFrame
  <2> QED BY <2>1 DEF ApiTypeInv, ApiShape, ApiShapeAt, OtherSteps, SignSteps, RevokeSteps,
             DownloadSteps, HistorySteps, ReadSteps
<1>3. CASE ReceiveOther(r)
  BY <1>3, ReceiveOtherFrame
<1> QED BY <1>1, <1>2, <1>3, ApiCases

LEMMA UploadsNameTheirsStays ==
  ASSUME ApiTypeInv, UploadsNameTheirs, NEW r \in Request, ApiStep(r)
  PROVE  UploadsNameTheirs'
<1> SUFFICES ASSUME NEW s \in Request, req'[s] # None, req'[s].op = "upload"
             PROVE  req'[s].file = s
  BY DEF UploadsNameTheirs
<1>1. CASE req'[s] = req[s]
  BY <1>1 DEF UploadsNameTheirs
<1>2. CASE req'[s] # req[s]
  <2>1. s = r /\ pc[r] = "idle"
    BY <1>2, ApiFrames DEF FlowFrame, Others
  <2>2. CASE ReceiveOther(r)
    BY <2>1, <2>2, ReceiveOtherFrame
  <2>3. CASE OtherStep(r)
    BY <2>1, <2>3, OtherStepFrame, OtherStepsAreNotFileSteps
  <2>4. CASE FileNext(r)
    <3>1. ReceiveFileOp(r)
      BY <2>1, <2>4, UploadEffect, DeleteEffect, RenameEffect, FailureEffect
      DEF FileNext, FileStep, ApiTypeInv, UploadSteps, DeleteSteps, RenameSteps, Step,
          DatabaseStep, StorageStep
    <3> QED BY <2>1, <3>1, ReceiveEffect DEF ApiTypeInv
  <2> QED BY <2>2, <2>3, <2>4, ApiCases
<1> QED BY <1>1, <1>2

LEMMA UploadsStayDurable ==
  ASSUME ToldInv, NEW r \in Request, ApiStep(r)
  PROVE  BytesAreSaved' /\ AckedUploadIsDurable'
<1> USE DEF ToldInv, GivenInv, LinkInv, ApiOwnerInv
<1>1. CASE FileNext(r)
  <2>1. DurableInv /\ [Next]_vars
    BY <1>1 DEF DurableInv, OwnerInv, ApiTypeInv, Next
  <2> QED BY <2>1, NextKeepsDurableInv DEF DurableInv
<1>2. CASE OtherStep(r) \/ ReceiveOther(r)
  <2>1. EventFrame(r) /\ UNCHANGED <<files, blobs>>
    BY <1>2, ApiFrames, OtherStepFrame, ReceiveOtherFrame DEF stores
  <2>2. ASSUME NEW s \in Request
        PROVE  /\ pc'[s] = "upload.insert" => pc[s] = "upload.insert"
               /\ s \in Uploads' /\ resp'[s] = "ok" => s \in Uploads /\ resp[s] = "ok"
    <3>1. CASE s # r
      BY <3>1, OthersStay DEF Uploads
    <3>2. CASE s = r /\ OtherStep(r)
      <4>1. pc[r] \in OtherSteps /\ pc'[r] \in OtherSteps \cup {"done"} /\ req' = req
        BY <3>2, OtherStepFrame
      <4>2. req[r].op # "upload"
        BY <4>1 DEF ApiTypeInv, ApiShape, ApiShapeAt, OtherSteps
      <4> QED BY <3>2, <4>1, <4>2, OtherStepsAreNotFileSteps DEF Uploads, UploadSteps
    <3>3. CASE s = r /\ ReceiveOther(r)
      BY <3>3, ReceiveOtherFrame DEF Uploads
    <3> QED BY <1>2, <3>1, <3>2, <3>3
  <2>3. ASSUME NEW s \in Request, ~Deleted(s)'
        PROVE  /\ pc'[s] = "upload.insert" => blobs'[s] = "whole"
               /\ s \in Uploads' /\ resp'[s] = "ok" => files'[s] # None /\ blobs'[s] = "whole"
    <3>1. ~Deleted(s)
      BY <2>1, <2>3, DeletedStays
    <3> QED BY <2>1, <2>2, <3>1 DEF BytesAreSaved, AckedUploadIsDurable
  <2>4. Uploads' \subseteq Request
    BY DEF Uploads
  <2> QED BY <2>3, <2>4 DEF BytesAreSaved, AckedUploadIsDurable
<1> QED BY <1>1, <1>2, ApiCases

LEMMA DeletersOwnStays ==
  ASSUME ToldInv, NEW r \in Request, ApiStep(r)
  PROVE  DeletersOwn'
<1> USE DEF ToldInv, GivenInv, LinkInv, ApiOwnerInv
<1> SUFFICES ASSUME NEW e \in audit', e.type = "file_deleted", e.file \in Request
             PROVE  /\ pc'[e.file] # "idle" /\ req'[e.file].op = "upload"
                    /\ e.user = req'[e.file].user
  BY DEF DeletersOwn
<1>1. FlowFrame(r) /\ EventFrame(r)
  BY ApiFrames
<1>2. pc[e.file] # "idle" /\ req[e.file].op = "upload" /\ e.user = req[e.file].user
  <2>1. CASE e \in audit
    BY <2>1 DEF DeletersOwn
  <2>2. CASE e \notin audit
    <3>1. pc[r] = "delete.audit" /\ e.file = req[r].file
      BY <1>1, <2>2 DEF EventFrame
    <3>2. CallerOwns(r)
      BY <3>1 DEF HoldersOwn, Holding
    <3>3. e.user = req[r].user
      <4>1. FileNext(r)
        BY <3>1, ApiCases, OtherStepFrame, ReceiveOtherFrame, OtherStepsAreNotFileSteps
        DEF DeleteSteps
      <4> QED BY <2>2, <3>1, <4>1, FileEvents, NewEventFields DEF ApiTypeInv
    <3> QED BY <3>1, <3>2, <3>3 DEF CallerOwns
  <2> QED BY <2>1, <2>2
<1> QED BY <1>1, <1>2 DEF FlowFrame, Others

LEMMA AckedDeletesAreRecordedStays ==
  ASSUME ToldInv, NEW r \in Request, ApiStep(r)
  PROVE  AckedDeletesAreRecorded'
<1> USE DEF ToldInv, GivenInv, LinkInv, ApiOwnerInv
<1> SUFFICES ASSUME NEW s \in Request, Answered(s, "delete", "ok")'
             PROVE  DeletionRecorded(s)'
  BY DEF AckedDeletesAreRecorded
<1>1. FlowFrame(r) /\ EventFrame(r)
  BY ApiFrames
<1>2. CASE pc[s] = "done"
  BY <1>1, <1>2, DoneStays, DeletionRecordedStays DEF AckedDeletesAreRecorded, Answered
<1>3. CASE pc[s] # "done"
  <2>1. s = r /\ pc'[r] = "done"
    BY <1>1, <1>3, OthersStay DEF Answered, FlowFrame, ApiTypeInv, Unanswered
  <2>2. pc[r] = "delete.unlink"
    BY <2>1, WhereFilesAnswer DEF Answered
  <2> QED BY <1>1, <2>1, <2>2, DeletionRecordedStays DEF DeletesAreRecorded
<1> QED BY <1>2, <1>3

LEMMA ToldInvHolds == ApiSpec => []ToldInv
<1>1. ApiInit => /\ BeforeIsDone /\ UploadsNameTheirs /\ BytesAreSaved /\ AckedUploadIsDurable
                 /\ DeletersOwn /\ AckedDeletesAreRecorded
  <2> SUFFICES ASSUME ApiInit
               PROVE  /\ BeforeIsDone /\ UploadsNameTheirs /\ BytesAreSaved
                      /\ AckedUploadIsDurable /\ DeletersOwn /\ AckedDeletesAreRecorded
    OBVIOUS
  <2>1. \A r \in Request : /\ req[r] = None /\ pc[r] = "idle" /\ resp[r] = "none"
                           /\ before[r] = {}
    BY DEF ApiInit, Init, FlowInit
  <2>2. \A e \in audit : e.type = "signed_link_generated"
    BY DEF ApiInit, Init, StoresInit
  <2> QED BY <2>1, <2>2 DEF BeforeIsDone, UploadsNameTheirs, BytesAreSaved, AckedUploadIsDurable,
             Uploads, DeletersOwn, AckedDeletesAreRecorded, Answered
<1>2. GivenInv' /\ ToldInv /\ [ApiNext]_apiVars => ToldInv'
  <2> SUFFICES ASSUME GivenInv', ToldInv, [ApiNext]_apiVars PROVE ToldInv'
    OBVIOUS
  <2>1. CASE Still
    BY <2>1 DEF ToldInv, BeforeIsDone, UploadsNameTheirs, BytesAreSaved, AckedUploadIsDurable,
       Uploads, Deleted, DeletersOwn, AckedDeletesAreRecorded, DeletionRecorded, Answered,
       Still, stores, flow
  <2>2. CASE \E r \in Request : ApiStep(r)
    <3>1. PICK r \in Request : ApiStep(r)
      BY <2>2
    <3>2. ApiTypeInv
      BY DEF ToldInv, GivenInv, LinkInv, ApiOwnerInv
    <3> QED BY <3>1, <3>2, BeforeIsDoneStays, UploadsNameTheirsStays, UploadsStayDurable,
               DeletersOwnStays, AckedDeletesAreRecordedStays DEF ToldInv
  <2> QED BY <2>1, <2>2, ApiNextCases
<1> QED BY <1>1, <1>2, GivenInvHolds, PTL DEF ApiSpec, ToldInv

----------------------------------------------------------------------------
(* The history of a file.                                                  *)

\* Who looks for events because there is no row will find one, if he knew of
\* the file when he asked.
HistoryLooks ==
  \A r \in Request : pc[r] = "history.exists" =>
    \A q \in DoneBefore(r, "upload") : req[q].file = req[r].file => Deleted(q)

HistoryInv == ToldInv /\ HistoryLooks /\ OwnerKeepsHistory

LEMMA HistoryLooksStays ==
  ASSUME HistoryInv, NEW r \in Request, ApiStep(r)
  PROVE  HistoryLooks'
<1> USE DEF HistoryInv, ToldInv, GivenInv, LinkInv, ApiOwnerInv
<1> SUFFICES ASSUME NEW s \in Request, pc'[s] = "history.exists",
                    NEW q \in DoneBefore(s, "upload")', req'[q].file = req'[s].file
             PROVE  Deleted(q)'
  BY DEF HistoryLooks
<1>1. FlowFrame(r) /\ EventFrame(r)
  BY ApiFrames
<1>2. CASE s # r \/ pc'[s] = pc[s]
  <2>1. pc[s] = "history.exists"
    BY <1>2, OthersStay
  <2>2. q \in DoneBefore(s, "upload") /\ req'[q] = req[q] /\ req'[s] = req[s]
    BY <1>1, <2>1, DoneBeforeStays DEF FlowFrame, Others, DoneBefore
  <2> QED BY <1>1, <2>1, <2>2, DeletedStays DEF HistoryLooks
<1>3. CASE s = r /\ pc'[r] # pc[r]
  <2>1. pc[r] = "history.find" /\ files[req[r].file] = None /\ UNCHANGED req
    BY <1>3, WayToStep DEF OtherSteps, HistorySteps, Arrivals, OtherMove, Went, Ended, Failed
  <2>2. q \in DoneBefore(r, "upload") /\ q \in Request /\ req[q].file = req[r].file
    BY <1>3, <2>1, DoneBeforeStays DEF DoneBefore
  <2>3. req[q].file = q /\ q \in Uploads /\ resp[q] = "ok"
    BY <2>2, AnsweredIsDone DEF DoneBefore, Answered, UploadsNameTheirs, Uploads
  <2>4. Deleted(q)
    BY <2>1, <2>2, <2>3 DEF AckedUploadIsDurable
  <2> QED BY <1>1, <2>4, DeletedStays
<1> QED BY <1>2, <1>3

LEMMA OwnerKeepsHistoryStays ==
  ASSUME HistoryInv, NEW r \in Request, ApiStep(r)
  PROVE  OwnerKeepsHistory'
<1> USE DEF HistoryInv, ToldInv, GivenInv, LinkInv, ApiOwnerInv
<1> SUFFICES ASSUME NEW s \in Request, Answered(s, "history", "FILE_NOT_FOUND")',
                    NEW q \in DoneBefore(s, "upload")' \cup DoneBefore(s, "delete")',
                    req'[q].file = req'[s].file
             PROVE  req'[q].user # req'[s].user
  BY DEF OwnerKeepsHistory
<1>1. FlowFrame(r) /\ EventFrame(r)
  BY ApiFrames
<1>2. CASE pc[s] = "done"
  <2>1. resp'[s] = resp[s] /\ req'[s] = req[s]
    BY <1>2, DoneStays
  <2>2. q \in DoneBefore(s, "upload") \cup DoneBefore(s, "delete") /\ req'[q] = req[q]
    BY <1>2, DoneBeforeStays DEF DoneBefore
  <2> QED BY <2>1, <2>2 DEF OwnerKeepsHistory, Answered
<1>3. CASE pc[s] # "done"
  <2>1. s = r /\ pc'[r] = "done" /\ resp'[r] = "FILE_NOT_FOUND" /\ req'[r].op = "history"
    BY <1>1, <1>3, OthersStay DEF Answered, FlowFrame, ApiTypeInv, Unanswered
  <2>2. pc[r] = "history.exists" /\ ~HasEventBy(req[r].file, req[r].user) /\ UNCHANGED req
    <3>1. OtherStep(r) /\ OtherAnswer(r) /\ UNCHANGED req
      BY <2>1, WayToAnswer
    <3>2. ApiShape(r)
      BY DEF ApiTypeInv
    <3> QED BY <2>1, <3>1, <3>2
        DEF OtherAnswer, ApiShape, ApiShapeAt, SignSteps, RevokeSteps, DownloadSteps, HistorySteps,
            ReadSteps
  <2>3. q \in DoneBefore(r, "upload") \cup DoneBefore(r, "delete")
    BY <2>1, <2>2, DoneBeforeStays
  <2>4. q \in Request
    BY <2>3 DEF DoneBefore, ApiTypeInv
  <2>5. CASE q \in DoneBefore(r, "upload")
    <3>1. req[q].file = q /\ req[q].op = "upload"
      BY <2>4, <2>5, AnsweredIsDone DEF DoneBefore, Answered, UploadsNameTheirs
    <3>2. Deleted(q)
      BY <2>1, <2>2, <2>5 DEF HistoryLooks
    <3>3. PICK e \in audit : e.type = "file_deleted" /\ e.file = q
      BY <3>2 DEF Deleted
    <3>4. e.user = req[q].user
      BY <2>4, <3>3 DEF DeletersOwn
    <3> QED BY <2>1, <2>2, <3>1, <3>3, <3>4 DEF HasEventBy
  <2>6. CASE q \in DoneBefore(r, "delete")
    <3>1. DeletionRecorded(q)
      BY <2>4, <2>6 DEF DoneBefore, AckedDeletesAreRecorded
    <3> QED BY <2>1, <2>2, <3>1 DEF DeletionRecorded, HasEventBy
  <2> QED BY <2>3, <2>5, <2>6
<1> QED BY <1>2, <1>3

\* The owner of a file is told that there is none only if he had not been told
\* of it when he asked: before its deletion the row answers for him, and
\* after it the event, which is his.
THEOREM OwnersKeepHistory == ApiSpec => []OwnerKeepsHistory
<1>1. ApiInit => HistoryLooks /\ OwnerKeepsHistory
  BY DEF ApiInit, Init, FlowInit, HistoryLooks, OwnerKeepsHistory, Answered
<1>2. ToldInv' /\ HistoryInv /\ [ApiNext]_apiVars => HistoryInv'
  <2> SUFFICES ASSUME ToldInv', HistoryInv, [ApiNext]_apiVars PROVE HistoryInv'
    OBVIOUS
  <2>1. CASE Still
    BY <2>1 DEF HistoryInv, HistoryLooks, OwnerKeepsHistory, DoneBefore, Answered, Deleted, Still,
       stores, flow
  <2> QED BY <2>1, ApiNextCases, HistoryLooksStays, OwnerKeepsHistoryStays DEF HistoryInv
<1> QED BY <1>1, <1>2, ToldInvHolds, PTL DEF ApiSpec, HistoryInv

----------------------------------------------------------------------------
(* What is gone stays gone.                                                *)

\* Without it a delete can overtake an upload whose insert was executed, but
\* is going to be repeated because its acknowledgement got lost: then the row
\* comes back.
InsertsAreNotRepeated == "unacked" \notin Faults \/ "upload" \notin Ops

UploadsAreAsked == \A r \in Request : pc[r] \in UploadSteps => "upload" \in Ops

\* The row of f is not there, and nobody is going to insert it.
Gone(f) == files[f] = None /\ Settled(f)

GoneInv ==
  /\ ToldInv
  /\ UploadsAreAsked
  /\ UploadIsAlone
  /\ DroppedStaysDropped

LEMMA SettledStays ==
  ASSUME ApiTypeInv, NEW r \in Request, ApiStep(r), NEW f \in FileId, Settled(f)
  PROVE  Settled(f)'
<1> SUFFICES ASSUME f \in Request PROVE pc'[f] \notin {"idle"} \cup UploadSteps
  BY DEF Settled
<1>1. pc[f] \notin {"idle"} \cup UploadSteps
  BY DEF Settled
<1>2. CASE f # r
  BY <1>1, <1>2, OthersStay
<1>3. CASE f = r
  <2>1. CASE FileNext(r)
    <3>1. MoveFrame(r)
      BY <2>1, FileMoveFrame DEF ApiTypeInv
    <3> QED BY <1>1, <1>3, <3>1 DEF MoveFrame, UploadSteps
  <2>2. CASE OtherStep(r)
    BY <1>3, <2>2, OtherStepFrame, OtherStepsAreNotFileSteps DEF UploadSteps
  <2>3. CASE ReceiveOther(r)
    BY <1>1, <1>3, <2>3, ReceiveOtherFrame
  <2> QED BY <2>1, <2>2, <2>3, ApiCases
<1> QED BY <1>2, <1>3

LEMMA GoneStays ==
  ASSUME ApiTypeInv, NEW r \in Request, ApiStep(r), NEW f \in FileId, Gone(f)
  PROVE  Gone(f)'
<1>1. RowFrame(r)
  BY ApiFrames
<1>2. files'[f] = None
  BY <1>1 DEF RowFrame, Gone, Settled, UploadSteps
<1> QED BY <1>2, SettledStays DEF Gone

LEMMA UploadsAreAskedStays ==
  ASSUME ApiTypeInv, UploadsAreAsked, NEW r \in Request, ApiStep(r)
  PROVE  UploadsAreAsked'
<1> SUFFICES ASSUME NEW s \in Request, pc'[s] \in UploadSteps PROVE "upload" \in Ops
  BY DEF UploadsAreAsked
<1>1. CASE pc[s] \in UploadSteps
  BY <1>1 DEF UploadsAreAsked
<1>2. CASE pc[s] \notin UploadSteps
  <2>1. s = r
    BY <1>2, OthersStay
  <2>2. CASE OtherStep(r) \/ ReceiveOther(r)
    BY <2>1, <2>2, OtherStepFrame, ReceiveOtherFrame, OtherStepsAreNotFileSteps DEF UploadSteps
  <2>3. CASE FileNext(r)
    <3>1. pc[r] = "idle" /\ pc'[r] = "upload.save"
      BY <1>2, <2>1, <2>3, FileMoveFrame DEF ApiTypeInv, MoveFrame, UploadSteps
    <3>2. ReceiveFileOp(r)
      BY <2>3, <3>1, UploadEffect, DeleteEffect, RenameEffect, FailureEffect
      DEF FileNext, FileStep, ApiTypeInv, UploadSteps, DeleteSteps, RenameSteps, Step,
          DatabaseStep, StorageStep
    <3>3. req'[r].op = "upload"
      BY <3>1, <3>2, ReceiveEffect DEF ApiTypeInv, Went, Ended
    <3>4. req'[r].op \in Ops
      BY <3>2, ReceiveApplied
      DEF ReceiveFileOp, ReceiveUpload, ReceiveDelete, ReceiveRename, ApiTypeInv, TypeInv, TypeOK
    <3> QED BY <3>3, <3>4
  <2> QED BY <2>2, <2>3, ApiCases
<1> QED BY <1>1, <1>2

LEMMA UploadIsAloneStays ==
  ASSUME InsertsAreNotRepeated, GoneInv, NEW r \in Request, ApiStep(r)
  PROVE  UploadIsAlone'
<1> USE DEF GoneInv, ToldInv, GivenInv, LinkInv, ApiOwnerInv
<1>1. FlowFrame(r) /\ RowFrame(r) /\ HoldingFrame(r)
  BY ApiFrames
<1>2. ASSUME NEW f \in FileId, files'[f] # None PROVE Settled(f)'
  <2>1. CASE files[f] # None
    BY <2>1, SettledStays DEF UploadIsAlone
  <2>2. CASE files[f] = None
    <3>1. pc[r] = "upload.insert" /\ f = r
      BY <1>1, <1>2, <2>2 DEF RowFrame
    <3>2. FileNext(r)
      BY <3>1, ApiCases, OtherStepFrame, ReceiveOtherFrame, OtherStepsAreNotFileSteps
      DEF UploadSteps
    <3>3. "unacked" \notin Faults
      BY <3>1 DEF InsertsAreNotRepeated, UploadsAreAsked, UploadSteps
    <3>4. UploadStep(r)
      BY <1>2, <2>2, <3>1, <3>2, ReceiveEffect, DeleteEffect, RenameEffect, FailureEffect
      DEF FileNext, FileStep, ApiTypeInv, DeleteSteps, RenameSteps, stores
    <3>5. pc'[r] = "done"
      BY <1>2, <2>2, <3>1, <3>3, <3>4, UploadEffect DEF ApiTypeInv, Acked, Ended
    <3> QED BY <3>1, <3>5 DEF Settled, UploadSteps
  <2> QED BY <2>1, <2>2
<1>3. ASSUME NEW s \in Request, pc'[s] \in Holding \/ Dropped(s)' PROVE Settled(req[s].file)'
  <2>1. CASE pc[s] \in Holding \/ Dropped(s)
    <3>1. pc[s] # "idle" /\ req'[s] = req[s]
      BY <1>1, <2>1 DEF FlowFrame, Others, Dropped, Holding, ApiTypeInv, Unanswered
    <3>2. req[s].file \in FileId
      BY <3>1 DEF ApiTypeInv, TypeInv, Shape, ShapeAt, Command
    <3> QED BY <2>1, <3>1, <3>2, SettledStays DEF UploadIsAlone, Settled
  <2>2. CASE ~(pc[s] \in Holding \/ Dropped(s))
    <3>1. s = r
      BY <1>3, <2>2, OthersStay DEF Dropped
    <3>2. ~(pc'[r] = "done" /\ resp'[r] = "ok" /\ req'[r].op = "delete")
      BY <2>2, <3>1, WhereFilesAnswer DEF Holding
    <3>3. pc'[r] \in Holding
      BY <1>1, <1>3, <3>1, <3>2 DEF Dropped, Holding, FlowFrame, ApiTypeInv, Unanswered
    <3>4. Owned(r) /\ pc[r] # "idle"
      BY <1>1, <2>2, <3>1, <3>3 DEF HoldingFrame, FlowFrame
    <3>5. req[r].file \in FileId /\ req'[r] = req[r]
      BY <1>1, <3>4 DEF ApiTypeInv, TypeInv, Shape, ShapeAt, Command, FlowFrame
    <3> QED BY <3>1, <3>4, <3>5, SettledStays DEF UploadIsAlone, Owned, Settled
  <2> QED BY <2>1, <2>2
<1> QED BY <1>2, <1>3 DEF UploadIsAlone

LEMMA DroppedStaysDroppedStays ==
  ASSUME GoneInv, NEW r \in Request, ApiStep(r)
  PROVE  DroppedStaysDropped'
<1> USE DEF GoneInv, ToldInv, GivenInv, LinkInv, ApiOwnerInv
<1> SUFFICES ASSUME NEW s \in Request, Dropped(s)' PROVE files'[req'[s].file] = None
  BY DEF DroppedStaysDropped
<1>1. FlowFrame(r)
  BY ApiFrames
<1>2. CASE Dropped(s)
  <2>1. pc[s] # "idle" /\ req'[s] = req[s]
    BY <1>1, <1>2 DEF FlowFrame, Others, Dropped, ApiTypeInv, Unanswered
  <2>2. req[s].file \in FileId
    BY <2>1 DEF ApiTypeInv, TypeInv, Shape, ShapeAt, Command
  <2>3. Gone(req[s].file)
    BY <1>2 DEF Gone, DroppedStaysDropped, UploadIsAlone
  <2> QED BY <2>1, <2>2, <2>3, GoneStays DEF Gone
<1>3. CASE ~Dropped(s)
  <2>1. s = r
    BY <1>3, OthersStay DEF Dropped
  <2>2. ~(pc'[r] = "done" /\ resp'[r] = "ok" /\ req'[r].op = "delete")
    BY <1>3, <2>1, WhereFilesAnswer DEF Dropped
  <2>3. pc'[r] = "delete.unlink" /\ pc[r] # "delete.unlink"
    BY <1>1, <1>3, <2>1, <2>2 DEF Dropped, FlowFrame, ApiTypeInv, Unanswered
  <2>4. FileNext(r)
    BY <2>3, ApiCases, OtherStepFrame, ReceiveOtherFrame, OtherStepsAreNotFileSteps
    DEF DeleteSteps
  <2>5. pc[r] = "delete.drop"
    BY <2>3, <2>4, FileMoveFrame DEF MoveFrame, ApiTypeInv
  <2>6. DeleteStep(r)
    BY <2>3, <2>4, <2>5, ReceiveEffect, UploadEffect, RenameEffect, FailureEffect
    DEF FileNext, FileStep, ApiTypeInv, UploadSteps, RenameSteps, Failed, Ended
  <2>7. Sets(files, files', req[r].file, None) /\ req' = req /\ req[r].file \in FileId
    BY <2>5, <2>6, DeleteEffect DEF ApiTypeInv
  <2> QED BY <2>1, <2>7 DEF Sets
<1> QED BY <1>2, <1>3

----------------------------------------------------------------------------
(* Revocations.                                                            *)

\* The request whose UPDATE revoked its link.
Revoker(r) == pc[r] = "revoke.audit" \/ Answered(r, "revoke", "ok")

\* A link of that id is in the table, or none will be inserted any more.
Used(id) ==
  id \in Request =>
    /\ pc[id] \in {"sign.insert", "sign.audit", "done"} /\ req[id].op = "sign"
    /\ pc[id] = "sign.insert" => (\E l \in links : l.id = id) \/ Gone(req[id].file)

RevokedStayRevoked ==
  \A q \in Request : Revoker(q) =>
    /\ Used(req[q].arg)
    /\ \A l \in links : l.id = req[q].arg => l.revoked

OneRevoker ==
  \A q, r \in Request : Revoker(q) /\ Revoker(r) /\ req[q].arg = req[r].arg => q = r

RevokeInv == GoneInv /\ RevokedStayRevoked /\ OneRevoker

LEMMA UsedStays ==
  ASSUME GoneInv, NEW r \in Request, ApiStep(r), NEW id, Used(id)
  PROVE  Used(id)'
<1> USE DEF GoneInv, ToldInv, GivenInv, LinkInv, ApiOwnerInv
<1> SUFFICES ASSUME id \in Request PROVE Used(id)'
  BY DEF Used
<1>1. /\ pc'[id] \in {"sign.insert", "sign.audit", "done"} /\ req'[id] = req[id]
      /\ held'[id] = held[id] /\ req[id].op = "sign"
  BY SignerHolds DEF Used
<1>2. ASSUME pc'[id] = "sign.insert"
      PROVE  \/ \E l \in links' : l.id = id
             \/ files'[req[id].file] = None /\ Settled(req[id].file)'
  <2>1. pc[id] = "sign.insert"
    <3>1. CASE id # r \/ pc[id] = "done"
      BY <1>2, <3>1, OthersStay, DoneStays
    <3>2. CASE id = r /\ pc[id] # "done"
      <4>1. pc[r] \in {"sign.insert", "sign.audit"} /\ pc'[r] = "sign.insert"
        BY <1>2, <3>2 DEF Used
      <4>2. \/ pc'[r] = pc[r]
            \/ OtherMove(r)
            \/ pc[r] = "idle"
        BY <4>1, WayToStep DEF OtherSteps, SignSteps
      <4> QED BY <3>2, <4>1, <4>2 DEF OtherMove, Went, Ended, Failed
    <3> QED BY <3>1, <3>2
  <2>2. req[id].file \in FileId
    BY <2>1, HeldLink
  <2>3. CASE Gone(req[id].file)
    BY <1>1, <2>2, <2>3, GoneStays DEF Gone, Settled
  <2>4. CASE \E k \in links : k.id = id
    <3>1. PICK k \in links : k.id = id
      BY <2>4
    <3>2. k.file = req[id].file
      BY <2>1, <3>1, HeldLink DEF LinksAreSigned, SameLink
    <3>3. CASE \E l \in links' : SameLink(k, l)
      BY <3>1, <3>3 DEF SameLink
    <3>4. CASE pc[r] = "delete.drop" /\ k.file = req[r].file /\ files'[k.file] = None
      <4>1. Settled(req[id].file)
        BY <3>2, <3>4 DEF UploadIsAlone, Holding
      <4> QED BY <1>1, <2>2, <3>2, <3>4, <4>1, SettledStays DEF Settled
    <3> QED BY <3>3, <3>4, ApiLinksFrame, LinksComeAndGo
  <2> QED BY <2>1, <2>3, <2>4 DEF Used
<1> QED BY <1>1, <1>2 DEF Used, Gone, Settled

\* A request becomes the revoker of its link when its UPDATE finds the link.
LEMMA BecomesRevoker ==
  ASSUME RevokeInv, NEW r \in Request, ApiStep(r), NEW s \in Request, Revoker(s)'
  PROVE  /\ req'[s] = req[s]
         /\ \/ Revoker(s)
            \/ /\ s = r /\ pc[r] = "revoke.update"
               /\ RevokeLink(req[r].arg, req[r].file)
               /\ Revocable(req[r].arg, req[r].file) # {}
<1> USE DEF RevokeInv, GoneInv, ToldInv, GivenInv, LinkInv, ApiOwnerInv
<1>1. FlowFrame(r)
  BY ApiFrames
<1>2. CASE s # r \/ pc[s] = "done"
  <2>1. Revoker(s) /\ req'[s] = req[s]
    BY <1>2, OthersStay, DoneStays DEF Revoker, Answered
  <2> QED BY <2>1
<1>3. CASE s = r /\ pc[s] # "done"
  <2>1. CASE pc'[r] = "done"
    <3>1. pc[r] = "revoke.audit"
      BY <1>3, <2>1, WhereAnswered DEF Revoker, Answered
    <3> QED BY <1>1, <1>3, <3>1 DEF Revoker, FlowFrame
  <2>2. CASE pc'[r] # "done"
    <3>1. pc'[r] = "revoke.audit"
      BY <1>1, <1>3, <2>2 DEF Revoker, Answered, FlowFrame, ApiTypeInv, Unanswered
    <3>2. CASE pc[r] = "revoke.audit"
      BY <1>1, <1>3, <3>2 DEF Revoker, FlowFrame
    <3>3. CASE pc[r] # "revoke.audit"
      <4>1. OtherStep(r) /\ OtherMove(r) /\ req' = req
        BY <3>1, <3>3, WayToStep DEF OtherSteps, RevokeSteps, Arrivals
      <4>2. pc[r] = "revoke.update" /\ Revocable(req[r].arg, req[r].file) # {}
        BY <3>1, <3>3, <4>1 DEF OtherMove, Went, Ended, Failed
      <4>3. RevokeStep(r)
        <5>1. FlowTypeOK /\ ListedTypeOK
          BY DEF ApiTypeInv, TypeInv, TypeOK
        <5> QED BY <4>1, <4>2, <5>1, ReadEffect, SignEffect, DownloadEffect, HistoryEffect
            DEF OtherStep, LinkStep, ReadSteps, SignSteps, DownloadSteps, HistorySteps
      <4>4. RevokeLink(req[r].arg, req[r].file)
        BY <4>2, <4>3, RevokeEffect DEF ApiTypeInv, TypeInv, TypeOK
      <4> QED BY <1>3, <4>1, <4>2, <4>4
    <3> QED BY <3>2, <3>3
  <2> QED BY <2>1, <2>2
<1> QED BY <1>2, <1>3

LEMMA RevokedStayRevokedStays ==
  ASSUME RevokeInv, NEW r \in Request, ApiStep(r)
  PROVE  RevokedStayRevoked'
<1> USE DEF RevokeInv, GoneInv, ToldInv, GivenInv, LinkInv, ApiOwnerInv
<1> SUFFICES ASSUME NEW s \in Request, Revoker(s)'
             PROVE  /\ Used(req[s].arg)'
                    /\ \A l \in links' : l.id = req[s].arg => l.revoked
  BY BecomesRevoker DEF RevokedStayRevoked, Used
<1>1. LinksFrame(r)
  BY ApiLinksFrame
<1>2. req'[s] = req[s]
  BY BecomesRevoker
<1>3. CASE Revoker(s)
  <2>1. Used(req[s].arg)'
    BY <1>2, <1>3, UsedStays DEF RevokedStayRevoked, Used
  <2>2. ASSUME NEW l \in links', l.id = req[s].arg PROVE l.revoked
    <3>1. CASE \E k \in links : SameLink(k, l) /\ (k.revoked => l.revoked)
      BY <1>3, <2>2, <3>1 DEF RevokedStayRevoked, SameLink
    <3>2. CASE pc[r] = "sign.insert" /\ l = held[r] /\ CanInsertLink(l)
      <4>1. l.id = r /\ l.file = req[r].file
        BY <3>2, HeldLink
      <4>2. Used(r)
        BY <1>3, <2>2, <4>1 DEF RevokedStayRevoked
      <4> QED BY <3>2, <4>1, <4>2 DEF Used, Gone, CanInsertLink
    <3> QED BY <1>1, <3>1, <3>2, LinksComeAndGo
  <2> QED BY <2>1, <2>2
<1>4. CASE ~Revoker(s)
  <2>1. /\ s = r /\ pc[r] = "revoke.update" /\ RevokeLink(req[r].arg, req[r].file)
        /\ Revocable(req[r].arg, req[r].file) # {}
    BY <1>4, BecomesRevoker
  <2>2. PICK k \in links : k.id = req[r].arg /\ k.file = req[r].file /\ ~k.revoked
    BY <2>1 DEF Revocable
  <2>3. links \subseteq Link
    BY DEF ApiTypeInv, TypeInv, TypeOK, StoresTypeOK
  <2>4. ASSUME NEW l \in links', l.id = req[r].arg PROVE l.revoked
    <3>1. PICK n \in links :
            /\ n.id = l.id
            /\ n \in Revocable(req[r].arg, req[r].file) => l = [n EXCEPT !.revoked = TRUE]
      BY <2>1, <2>3 DEF RevokeLink, Revocable, Link
    <3>2. n = k
      BY <2>2, <2>4, <3>1 DEF LinkIdsAreUnique
    <3>3. n \in Revocable(req[r].arg, req[r].file)
      BY <2>2, <3>2 DEF Revocable
    <3> QED BY <2>3, <3>1, <3>3 DEF Link
  <2>5. Used(req[r].arg)'
    <3> SUFFICES ASSUME req[r].arg \in Request PROVE Used(req[r].arg)'
      BY <1>2, <2>1 DEF Used
    <3>1. pc[k.id] \in {"sign.insert", "sign.audit", "done"} /\ req[k.id].op = "sign"
      BY <2>2 DEF LinksAreSigned
    <3>2. \E l \in links' : l.id = k.id
      BY <1>1, <2>1, LinksComeAndGo DEF SameLink
    <3> QED BY <1>2, <2>1, <2>2, <3>1, <3>2, SignerHolds DEF Used
  <2> QED BY <2>1, <2>4, <2>5
<1> QED BY <1>3, <1>4

LEMMA OneRevokerStays ==
  ASSUME RevokeInv, NEW r \in Request, ApiStep(r)
  PROVE  OneRevoker'
<1> SUFFICES ASSUME NEW q \in Request, NEW s \in Request, Revoker(q)', Revoker(s)',
                    req'[q].arg = req'[s].arg
             PROVE  q = s
  BY DEF OneRevoker
<1>1. req[q].arg = req[s].arg
  BY BecomesRevoker
<1>2. CASE Revoker(q) /\ Revoker(s)
  BY <1>1, <1>2 DEF RevokeInv, OneRevoker
<1>3. ASSUME NEW t \in Request, Revoker(t), req[t].arg = req[r].arg
      PROVE  Revocable(req[r].arg, req[r].file) = {}
  BY <1>3 DEF RevokeInv, RevokedStayRevoked, Revocable
<1> QED BY <1>1, <1>2, <1>3, BecomesRevoker

LEMMA RevokeInvHolds ==
  ASSUME InsertsAreNotRepeated
  PROVE  ApiSpec => []RevokeInv
<1>1. ApiInit => /\ UploadsAreAsked /\ UploadIsAlone /\ DroppedStaysDropped
                 /\ RevokedStayRevoked /\ OneRevoker
  <2> SUFFICES ASSUME ApiInit
               PROVE  /\ UploadsAreAsked /\ UploadIsAlone /\ DroppedStaysDropped
                      /\ RevokedStayRevoked /\ OneRevoker
    OBVIOUS
  <2>1. \A r \in Request : pc[r] = "idle" /\ resp[r] = "none"
    BY DEF ApiInit, Init, FlowInit
  <2>2. \A f \in FileId : files[f] # None => f \notin Request
    BY DEF ApiInit, Init, StoresInit
  <2> QED BY <2>1, <2>2 DEF UploadsAreAsked, UploadIsAlone, DroppedStaysDropped, Dropped, Settled,
             Holding, UploadSteps, RevokedStayRevoked, OneRevoker, Revoker, Answered
<1>2. ToldInv' /\ RevokeInv /\ [ApiNext]_apiVars => RevokeInv'
  <2> SUFFICES ASSUME ToldInv', RevokeInv, [ApiNext]_apiVars PROVE RevokeInv'
    OBVIOUS
  <2>1. CASE Still
    BY <2>1 DEF RevokeInv, GoneInv, UploadsAreAsked, UploadIsAlone, DroppedStaysDropped, Dropped,
       Settled, RevokedStayRevoked, Used, Gone, OneRevoker, Revoker, Answered, Still, stores, flow
  <2>2. CASE \E r \in Request : ApiStep(r)
    <3>1. PICK r \in Request : ApiStep(r)
      BY <2>2
    <3>2. ApiTypeInv
      BY DEF RevokeInv, GoneInv, ToldInv, GivenInv, LinkInv, ApiOwnerInv
    <3> QED BY <3>1, <3>2, UploadsAreAskedStays, UploadIsAloneStays, DroppedStaysDroppedStays,
               RevokedStayRevokedStays, OneRevokerStays DEF RevokeInv, GoneInv
  <2> QED BY <2>1, <2>2, ApiNextCases
<1> QED BY <1>1, <1>2, ToldInvHolds, PTL DEF ApiSpec, RevokeInv, GoneInv

\* Two revoke requests for one link are not both told that they revoked it:
\* its row is revoked once, and no row of that id comes back.
THEOREM RevocationsAreOnce ==
  ASSUME InsertsAreNotRepeated
  PROVE  ApiSpec => []RevokedOnce
<1>1. RevokeInv => RevokedOnce
  BY DEF RevokeInv, OneRevoker, Revoker, RevokedOnce
<1> QED BY <1>1, RevokeInvHolds, PTL

----------------------------------------------------------------------------
(* Downloads that arrive after an owner was told that they are refused.    *)

\* A download that was let in by its link.
Serving(r) ==
  \/ pc[r] \in {"download.audit", "download.exists", "download.read"}
  \/ Answered(r, "download", "ok")

\* The row is read after the download arrived: it is not there if the
\* deletion was acknowledged before.
NoFileAfterward ==
  \A r \in Request : pc[r] = "download.redeem" \/ Serving(r) =>
    \A q \in DoneBefore(r, "delete") : req[q].file # req[r].file

\* So is the link: it is revoked if its revocation was acknowledged before.
NoLinkAfterward ==
  \A r \in Request : Serving(r) =>
    \A q \in DoneBefore(r, "revoke") : req[q].arg # held[r].id

ServiceInv == RevokeInv /\ NoFileAfterward /\ NoLinkAfterward

\* How a download is let in: what it found.
LEMMA BecomesServing ==
  ASSUME ApiTypeInv, NEW r \in Request, ApiStep(r), NEW s \in Request
  PROVE  /\ Serving(s)' =>
              \/ Serving(s) /\ held'[s] = held[s]
              \/ /\ s = r /\ pc[r] = "download.redeem" /\ held'[r] \in LinksGiven(r)
                 /\ ~held'[r].revoked
         /\ pc'[s] = "download.redeem" =>
              \/ pc[s] = "download.redeem"
              \/ s = r /\ pc[r] = "download.find" /\ files[req[r].file] # None
<1>1. CASE s # r \/ pc[s] = "done"
  BY <1>1, OthersStay, DoneStays DEF Serving, Answered
<1>2. CASE s = r /\ pc[s] # "done"
  <2>1. CASE pc'[r] = "done"
    <3>1. Serving(r)' => pc[r] = "download.read" /\ OtherStep(r)
      BY <2>1, WhereAnswered DEF Serving, Answered
    <3>2. pc[r] = "download.read" => UNCHANGED held
      BY <2>1, AnswerKeepsHeld DEF OtherSteps, DownloadSteps
    <3> QED BY <1>2, <2>1, <3>1, <3>2 DEF Serving
  <2>2. CASE pc'[r] # "done"
    <3>1. Serving(r)' => pc'[r] \in {"download.audit", "download.exists", "download.read"}
      <4>1. FlowFrame(r)
        BY ApiFrames
      <4> QED BY <1>2, <2>2, <4>1 DEF Serving, Answered, FlowFrame, ApiTypeInv, Unanswered
    <3>2. CASE pc'[r] \in {"download.redeem", "download.audit", "download.exists", "download.read"}
      <4>1. \/ pc'[r] = pc[r] /\ UNCHANGED held
            \/ OtherMove(r)
        BY <3>2, WayToStep DEF OtherSteps, DownloadSteps, Arrivals
      <4>2. CASE pc'[r] = pc[r] /\ UNCHANGED held
        BY <1>2, <3>1, <3>2, <4>2 DEF Serving
      <4>3. CASE OtherMove(r)
        <5>1. held = [q \in Request |-> held[q]]
          BY DEF ApiTypeInv, TypeInv, TypeOK, FlowTypeOK
        <5>2. \/ pc[r] = "download.find" /\ pc'[r] = "download.redeem" /\ files[req[r].file] # None
              \/ pc'[r] = pc[r] /\ UNCHANGED held
              \/ /\ pc[r] = "download.redeem" /\ pc'[r] # "download.redeem"
                 /\ held'[r] \in LinksGiven(r) /\ ~held'[r].revoked
              \/ /\ pc[r] \in {"download.audit", "download.exists"} /\ UNCHANGED held
                 /\ pc'[r] # "download.redeem"
          BY <2>2, <3>2, <4>3, <5>1 DEF OtherMove, Ended, Failed, Went
        <5> QED BY <1>2, <3>1, <3>2, <5>2 DEF Serving
      <4> QED BY <4>1, <4>2, <4>3
    <3> QED BY <1>2, <3>1, <3>2
  <2> QED BY <2>1, <2>2
<1> QED BY <1>1, <1>2

LEMMA NoFileAfterwardStays ==
  ASSUME ServiceInv, NEW r \in Request, ApiStep(r)
  PROVE  NoFileAfterward'
<1> USE DEF ServiceInv, RevokeInv, GoneInv, ToldInv, GivenInv, LinkInv, ApiOwnerInv
<1> SUFFICES ASSUME NEW s \in Request, (pc[s] = "download.redeem" \/ Serving(s))',
                    NEW q \in DoneBefore(s, "delete")'
             PROVE  req'[q].file # req'[s].file
  BY DEF NoFileAfterward
<1>1. FlowFrame(r)
  BY ApiFrames
<1>2. pc[s] # "idle" /\ req'[s] = req[s]
  <2>1. pc[s] # "idle"
    BY BecomesServing, AnsweredIsDone DEF Serving, Answered
  <2> QED BY <1>1, <2>1 DEF FlowFrame, Others
<1>3. q \in DoneBefore(s, "delete") /\ q \in Request /\ req'[q] = req[q]
  BY <1>2, DoneBeforeStays DEF DoneBefore
<1>4. CASE pc[s] = "download.redeem" \/ Serving(s)
  BY <1>2, <1>3, <1>4 DEF NoFileAfterward
<1>5. CASE files[req[s].file] # None
  <2>1. Dropped(q)
    BY <1>3 DEF DoneBefore, Answered, Dropped
  <2> QED BY <1>2, <1>3, <1>5, <2>1 DEF DroppedStaysDropped
<1> QED BY <1>4, <1>5, BecomesServing

LEMMA NoLinkAfterwardStays ==
  ASSUME ServiceInv, NEW r \in Request, ApiStep(r)
  PROVE  NoLinkAfterward'
<1> USE DEF ServiceInv, RevokeInv, GoneInv, ToldInv, GivenInv, LinkInv, ApiOwnerInv
<1> SUFFICES ASSUME NEW s \in Request, Serving(s)', NEW q \in DoneBefore(s, "revoke")'
             PROVE  req'[q].arg # held'[s].id
  BY DEF NoLinkAfterward
<1>1. pc[s] # "idle"
  BY BecomesServing, AnsweredIsDone DEF Serving, Answered
<1>2. q \in DoneBefore(s, "revoke") /\ q \in Request /\ req'[q] = req[q]
  BY <1>1, DoneBeforeStays DEF DoneBefore
<1>3. CASE Serving(s) /\ held'[s] = held[s]
  BY <1>2, <1>3 DEF NoLinkAfterward
<1>4. CASE s = r /\ held'[r] \in links /\ ~held'[r].revoked
  <2>1. Revoker(q)
    BY <1>2 DEF DoneBefore, Revoker
  <2> QED BY <1>2, <1>4, <2>1 DEF RevokedStayRevoked
<1> QED BY <1>3, <1>4, BecomesServing DEF LinksGiven, LinksFor

LEMMA ServiceInvHolds ==
  ASSUME InsertsAreNotRepeated
  PROVE  ApiSpec => []ServiceInv
<1>1. ApiInit => NoFileAfterward /\ NoLinkAfterward
  BY DEF ApiInit, Init, FlowInit, NoFileAfterward, NoLinkAfterward, Serving, Answered
<1>2. RevokeInv' /\ ServiceInv /\ [ApiNext]_apiVars => ServiceInv'
  <2> SUFFICES ASSUME RevokeInv', ServiceInv, [ApiNext]_apiVars PROVE ServiceInv'
    OBVIOUS
  <2>1. CASE Still
    BY <2>1 DEF ServiceInv, NoFileAfterward, NoLinkAfterward, Serving, DoneBefore, Answered, Still,
       flow
  <2> QED BY <2>1, ApiNextCases, NoFileAfterwardStays, NoLinkAfterwardStays DEF ServiceInv
<1> QED BY <1>1, <1>2, RevokeInvHolds, PTL DEF ApiSpec, ServiceInv

\* Once an owner was told that a file is deleted or a link revoked, no
\* download that arrives later gets the bytes through it, whatever else
\* fails.
THEOREM NoneIsServedAfterward ==
  ASSUME InsertsAreNotRepeated
  PROVE  ApiSpec => []NoServiceAfterward
<1>1. ServiceInv => NoServiceAfterward
  <2> SUFFICES ASSUME ServiceInv, NEW r \in Request, Answered(r, "download", "ok"),
                      NEW q \in DoneBefore(r, "revoke") \cup DoneBefore(r, "delete")
               PROVE  /\ req[q].op = "delete" => req[q].file # req[r].file
                      /\ req[q].op = "revoke" => req[q].arg # held[r].id
    BY DEF NoServiceAfterward
  <2>1. Serving(r)
    BY DEF Serving
  <2>2. CASE q \in DoneBefore(r, "delete")
    BY <2>1, <2>2 DEF ServiceInv, NoFileAfterward, DoneBefore, Answered
  <2>3. CASE q \in DoneBefore(r, "revoke")
    BY <2>1, <2>3 DEF ServiceInv, NoLinkAfterward, DoneBefore, Answered
  <2> QED BY <2>2, <2>3
<1> QED BY <1>1, ServiceInvHolds, PTL

----------------------------------------------------------------------------
(* What the reading endpoints show.                                        *)

\* The requests of the caller of r, on what r asks for, that were told of a
\* success before.
Told(r, op) ==
  {q \in DoneBefore(r, op) : /\ req[q].user = req[r].user
                             /\ req[r].op = "list" \/ req[q].file = req[r].file}

Shown(r) == listed[r] \cup {l.id : l \in listed[r] \ FileId}

Tells(r) ==
  /\ resp[r] \in {"ok", "FILE_NOT_FOUND"} =>
       \A q \in Told(r, IF req[r].op = "links" THEN "sign" ELSE "upload") :
         q \in Shown(r) \/ Deleted(req[q].file)
  /\ \A q \in Told(r, "delete") :
       IF req[r].op = "list" THEN req[q].file \notin Shown(r) ELSE resp[r] # "ok"
  /\ \A l \in listed[r] \ FileId, q \in Told(r, "revoke") : req[q].arg = l.id => l.revoked

Reading(r) == req[r] # None /\ req[r].op \in {"get", "list", "links"}

AnswersTell == \A r \in Request : Reading(r) => Tells(r)

\* Rows are shown in answers only.
OnlyAnswersList == \A r \in Request : resp[r] # "ok" => listed[r] = {}

\* The links of a file are looked up after the file itself was.
LinksFoundAfterward ==
  \A r \in Request : pc[r] = "links.select" =>
    \A q \in DoneBefore(r, "delete") : req[q].file # req[r].file

AnswerInv == RevokeInv /\ OnlyAnswersList /\ LinksFoundAfterward /\ AnswersTell

LEMMA OnlyAnswersListStays ==
  ASSUME ApiTypeInv, OnlyAnswersList, NEW r \in Request, ApiStep(r)
  PROVE  OnlyAnswersList'
<1> SUFFICES ASSUME NEW s \in Request, resp'[s] # "ok" PROVE listed'[s] = {}
  BY DEF OnlyAnswersList
<1>1. CASE s # r
  BY <1>1, OthersStay DEF OnlyAnswersList
<1>2. CASE s = r
  <2>1. resp[r] = "none"
    BY ApiFrames DEF FlowFrame, ApiTypeInv, Unanswered
  <2>2. CASE ReadStep(r)
    <3>1. FlowTypeOK /\ ListedTypeOK
      BY DEF ApiTypeInv, TypeInv, TypeOK
    <3>2. Refused(r) \/ UNCHANGED listed \/ Ended(r, "ok")
      BY <2>2, <3>1, ReadEffect DEF ReadSteps
    <3>3. Refused(r) => UNCHANGED listed
      BY <2>2, <3>1, ReadEffect DEF ReadSteps, Refused, Went, Ended
    <3> QED BY <1>2, <2>1, <3>2, <3>3 DEF OnlyAnswersList, Ended
  <2>3. CASE UNCHANGED listed
    BY <1>2, <2>1, <2>3 DEF OnlyAnswersList
  <2> QED BY <2>2, <2>3, ApiCases DEF OtherStep
<1> QED BY <1>1, <1>2

LEMMA LinksFoundAfterwardStays ==
  ASSUME GoneInv, LinksFoundAfterward, NEW r \in Request, ApiStep(r)
  PROVE  LinksFoundAfterward'
<1> USE DEF GoneInv, ToldInv, GivenInv, LinkInv, ApiOwnerInv
<1> SUFFICES ASSUME NEW s \in Request, pc'[s] = "links.select",
                    NEW q \in DoneBefore(s, "delete")'
             PROVE  req'[q].file # req'[s].file
  BY DEF LinksFoundAfterward
<1>1. FlowFrame(r)
  BY ApiFrames
<1>2. \/ pc[s] = "links.select"
      \/ s = r /\ pc[r] = "links.find" /\ Owned(r)
  <2>1. CASE s # r
    BY <2>1, OthersStay
  <2>2. CASE s = r
    BY <2>2, WayToStep DEF OtherSteps, ReadSteps, Arrivals, OtherMove, Went, Ended, Failed
  <2> QED BY <2>1, <2>2
<1>3. req'[s] = req[s]
  BY <1>1, <1>2 DEF FlowFrame, Others
<1>4. q \in DoneBefore(s, "delete") /\ q \in Request /\ req'[q] = req[q]
  BY <1>2, DoneBeforeStays DEF DoneBefore
<1>5. CASE s = r /\ Owned(r)
  <2>1. Dropped(q)
    BY <1>4 DEF DoneBefore, Answered, Dropped
  <2> QED BY <1>3, <1>4, <1>5, <2>1 DEF DroppedStaysDropped, Owned
<1> QED BY <1>2, <1>3, <1>4, <1>5 DEF LinksFoundAfterward

\* What a reading request is answered, and from which rows.
LEMMA WhereReadsAnswer ==
  ASSUME ApiTypeInv, NEW r \in Request, ApiStep(r), pc'[r] = "done",
         req'[r].op \in {"get", "list", "links"}, resp'[r] \in {"ok", "FILE_NOT_FOUND"}
  PROVE  LET f == req[r].file IN
         /\ UNCHANGED req /\ pc[r] # "idle"
         /\ resp'[r] = "FILE_NOT_FOUND" => req[r].op # "list" /\ files[f] = None
         /\ resp'[r] = "ok" =>
              \/ req[r].op = "get" /\ Owned(r) /\ listed'[r] = {f}
              \/ /\ req[r].op = "list"
                 /\ listed'[r] = {g \in FileId : files[g] # None /\ files[g].user = req[r].user}
              \/ /\ req[r].op = "links" /\ pc[r] = "links.select"
                 /\ listed'[r] = {l \in links : l.file = f}
<1>1. OtherStep(r) /\ OtherAnswer(r) /\ UNCHANGED req
  BY WayToAnswer
<1>2. ApiShape(r)
  BY DEF ApiTypeInv
<1>3. pc[r] \in OtherSteps
  BY <1>1, OtherStepFrame
<1> QED BY <1>1, <1>2, <1>3, OtherStepsAreNotFileSteps
    DEF OtherAnswer, ApiShape, ApiShapeAt, SignSteps, RevokeSteps, DownloadSteps, HistorySteps,
        ReadSteps
\* The rows a reading request finds are what it was told of.
LEMMA ReadsTell ==
  ASSUME AnswerInv, NEW r \in Request, ApiStep(r), pc'[r] = "done", Reading(r)',
         resp'[r] \in {"ok", "FILE_NOT_FOUND"}
  PROVE  Tells(r)'
<1> USE DEF AnswerInv, RevokeInv, GoneInv, ToldInv, GivenInv, LinkInv, ApiOwnerInv
<1>1. /\ UNCHANGED req /\ pc[r] # "idle" /\ Reading(r)
      /\ resp'[r] = "FILE_NOT_FOUND" => req[r].op # "list" /\ files[req[r].file] = None
      /\ resp'[r] = "ok" =>
           \/ req[r].op = "get" /\ Owned(r) /\ listed'[r] = {req[r].file}
           \/ /\ req[r].op = "list"
              /\ listed'[r] = {g \in FileId : files[g] # None /\ files[g].user = req[r].user}
           \/ /\ req[r].op = "links" /\ pc[r] = "links.select"
              /\ listed'[r] = {l \in links : l.file = req[r].file}
  BY WhereReadsAnswer DEF Reading
<1>2. \A op : Told(r, op)' = Told(r, op)
  <2>1. \A op : DoneBefore(r, op)' = DoneBefore(r, op)
    BY <1>1, DoneBeforeStays
  <2> QED BY <1>1, <2>1 DEF Told
<1>3. resp'[r] # "ok" => listed'[r] = {}
  BY OnlyAnswersListStays DEF OnlyAnswersList
<1>4. \A op : \A q \in Told(r, op) :
        /\ q \in Request /\ q \in DoneBefore(r, op) /\ Answered(q, op, "ok")
        /\ req[q].user = req[r].user /\ (req[r].op = "list" \/ req[q].file = req[r].file)
  BY DEF Told, DoneBefore, ApiTypeInv
<1>5. links \subseteq Link /\ \A l \in links : l \notin FileId
  BY LinksAreNoIds DEF ApiTypeInv, TypeInv, TypeOK, StoresTypeOK
<1>6. \A q \in Told(r, IF req[r].op = "links" THEN "sign" ELSE "upload") :
        q \in Shown(r)' \/ Deleted(req[q].file)'
  <2>1. CASE req[r].op = "links"
    <3> SUFFICES ASSUME NEW q \in Told(r, "sign"), ~Deleted(req[q].file)
                 PROVE  q \in Shown(r)'
      <4>1. \A q \in Told(r, "sign") : Deleted(req[q].file) => Deleted(req[q].file)'
        BY <1>1, ApiFrames DEF EventFrame, Deleted
      <4> QED BY <2>1, <4>1
    <3>1. q \in Request /\ Answered(q, "sign", "ok") /\ req[q].file = req[r].file
      BY <1>4, <2>1
    <3>2. PICK l \in links : l.id = q /\ l.file = held[q].file
      BY <3>1 DEF SignsAreKept, LinkKept
    <3>3. held[q].file = req[q].file
      <4>1. req[q] # None
        BY <3>1, AnsweredIsDone DEF Answered
      <4>2. SignedAs(q)
        BY <3>1, <4>1 DEF ApiTypeInv, SignersSign, Signing, Answered
      <4> QED BY <4>2 DEF SignedAs
    <3>4. files[req[r].file] # None
      BY <3>1, <3>2, <3>3 DEF LinksBelongToOwners
    <3>5. l \in listed'[r] \ FileId
      BY <1>1, <1>5, <2>1, <3>1, <3>2, <3>3, <3>4
    <3> QED BY <3>2, <3>5 DEF Shown
  <2>2. CASE req[r].op # "links"
    <3> SUFFICES ASSUME NEW q \in Told(r, "upload"), ~Deleted(req[q].file)
                 PROVE  q \in Shown(r)'
      <4>1. \A q \in Told(r, "upload") : Deleted(req[q].file) => Deleted(req[q].file)'
        BY <1>1, ApiFrames DEF EventFrame, Deleted
      <4> QED BY <2>2, <4>1
    <3>1. /\ q \in Request /\ Answered(q, "upload", "ok") /\ req[q].user = req[r].user
          /\ req[r].op = "list" \/ req[q].file = req[r].file
      BY <1>4
    <3>2. req[q].file = q /\ q \in Uploads
      BY <3>1, AnsweredIsDone DEF Answered, UploadsNameTheirs, Uploads
    <3>3. files[q] # None
      BY <3>1, <3>2 DEF AckedUploadIsDurable, Answered
    <3>4. files[q].user = req[r].user /\ q \in FileId
      BY <3>1, <3>3 DEF RowsAreUploaders, FileId
    <3>5. q \in listed'[r]
      BY <1>1, <2>2, <3>1, <3>2, <3>3, <3>4
    <3> QED BY <3>5 DEF Shown
  <2> QED BY <2>1, <2>2
<1>7. \A q \in Told(r, "delete") :
        IF req[r].op = "list" THEN req[q].file \notin Shown(r)' ELSE resp'[r] # "ok"
  <2> SUFFICES ASSUME NEW q \in Told(r, "delete"), resp'[r] = "ok"
               PROVE  req[r].op = "list" /\ req[q].file \notin Shown(r)'
    BY <1>3 DEF Shown
  <2>1. files[req[q].file] = None
    BY <1>4 DEF DroppedStaysDropped, Dropped, Answered
  <2>2. req[r].op # "list" => req[q].file = req[r].file /\ q \in DoneBefore(r, "delete")
    BY <1>4
  <2>3. req[r].op = "list"
    BY <1>1, <2>1, <2>2 DEF Owned, LinksFoundAfterward
  <2>4. listed'[r] \subseteq FileId /\ req[q].file \notin listed'[r]
    BY <1>1, <2>1, <2>3
  <2> QED BY <2>3, <2>4 DEF Shown
<1>8. \A l \in listed'[r] \ FileId, q \in Told(r, "revoke") : req[q].arg = l.id => l.revoked
  <2> SUFFICES ASSUME NEW l \in listed'[r] \ FileId, NEW q \in Told(r, "revoke"),
                      req[q].arg = l.id
               PROVE  l.revoked
    OBVIOUS
  <2>1. l \in links
    <3>1. req[r].op = "get" => req[r].file \in FileId
      BY <1>1, NoneIsNoCommand DEF Reading, ApiTypeInv, TypeInv, TypeOK, FlowTypeOK, Command
    <3> QED BY <1>1, <1>3, <3>1
  <2>2. Revoker(q) /\ q \in Request
    BY <1>4 DEF Revoker
  <2> QED BY <2>1, <2>2 DEF RevokedStayRevoked
<1> QED BY <1>1, <1>2, <1>6, <1>7, <1>8 DEF Tells

LEMMA AnswersTellStays ==
  ASSUME AnswerInv, NEW r \in Request, ApiStep(r)
  PROVE  AnswersTell'
<1> USE DEF AnswerInv, RevokeInv, GoneInv, ToldInv, GivenInv, LinkInv, ApiOwnerInv
<1> SUFFICES ASSUME NEW s \in Request, Reading(s)' PROVE Tells(s)'
  BY DEF AnswersTell
<1>1. FlowFrame(r) /\ EventFrame(r)
  BY ApiFrames
<1>2. CASE pc[s] = "done"
  <2>1. /\ resp'[s] = resp[s] /\ req'[s] = req[s] /\ listed'[s] = listed[s]
        /\ Shown(s)' = Shown(s)
    BY <1>2, DoneStays DEF Shown
  <2>2. /\ \A op : DoneBefore(s, op)' = DoneBefore(s, op)
        /\ \A op : \A q \in DoneBefore(s, op) : req'[q] = req[q]
    BY <1>2, DoneBeforeStays DEF DoneBefore
  <2>3. \A op : Told(s, op)' = Told(s, op) /\ \A q \in Told(s, op) : req'[q] = req[q]
    BY <2>1, <2>2 DEF Told
  <2>4. \A f : Deleted(f) => Deleted(f)'
    BY <1>1 DEF EventFrame, Deleted
  <2>5. Tells(s)
    BY <2>1 DEF AnswersTell, Reading
  <2>6. \A op : \A q \in Told(s, op) : Deleted(req[q].file) => Deleted(req[q].file)'
    BY <2>3, <2>4 DEF Deleted
  <2> QED BY <2>1, <2>3, <2>5, <2>6 DEF Tells
<1>3. CASE resp'[s] \notin {"ok", "FILE_NOT_FOUND"}
  <2>1. listed'[s] = {}
    BY <1>3, OnlyAnswersListStays DEF OnlyAnswersList
  <2> QED BY <1>3, <2>1 DEF Tells, Shown
<1>4. CASE pc[s] # "done" /\ resp'[s] \in {"ok", "FILE_NOT_FOUND"}
  <2>1. s = r /\ pc'[r] = "done"
    BY <1>1, <1>4, OthersStay DEF FlowFrame, ApiTypeInv, Unanswered
  <2> QED BY <1>4, <2>1, ReadsTell
<1> QED BY <1>2, <1>3, <1>4

LEMMA AnswerInvHolds ==
  ASSUME InsertsAreNotRepeated
  PROVE  ApiSpec => []AnswerInv
<1>1. ApiInit => OnlyAnswersList /\ LinksFoundAfterward /\ AnswersTell
  BY DEF ApiInit, Init, FlowInit, ListedInit, OnlyAnswersList, LinksFoundAfterward, AnswersTell,
     Reading
<1>2. RevokeInv' /\ AnswerInv /\ [ApiNext]_apiVars => AnswerInv'
  <2> SUFFICES ASSUME RevokeInv', AnswerInv, [ApiNext]_apiVars PROVE AnswerInv'
    OBVIOUS
  <2>1. CASE Still
    BY <2>1 DEF AnswerInv, OnlyAnswersList, LinksFoundAfterward, AnswersTell, Reading, Tells, Told,
       Shown, DoneBefore, Answered, Deleted, Still, stores, flow
  <2>2. CASE \E r \in Request : ApiStep(r)
    <3>1. PICK r \in Request : ApiStep(r)
      BY <2>2
    <3>2. ApiTypeInv /\ GoneInv
      BY DEF AnswerInv, RevokeInv, GoneInv, ToldInv, GivenInv, LinkInv, ApiOwnerInv
    <3> QED BY <3>1, <3>2, OnlyAnswersListStays, LinksFoundAfterwardStays, AnswersTellStays
        DEF AnswerInv
  <2> QED BY <2>1, <2>2, ApiNextCases
<1> QED BY <1>1, <1>2, RevokeInvHolds, PTL DEF ApiSpec, AnswerInv

\* Clients read what they were told: an answer shows every file and link of
\* which the caller was told before he asked, unless the deletion of the file
\* is recorded; nothing of a file whose deletion he was told; and a link that
\* he was told is revoked only as revoked.
THEOREM ReadersSeeWhatWasTold ==
  ASSUME InsertsAreNotRepeated
  PROVE  ApiSpec => []AnswersShowWhatWasTold
<1>1. AnswerInv => AnswersShowWhatWasTold
  BY DEF AnswerInv, AnswersTell, AnswersShowWhatWasTold, Reading, Tells, Told, Shown
<1> QED BY <1>1, AnswerInvHolds, PTL

----------------------------------------------------------------------------
(* The lifetime of a URL.                                                  *)

\* Whole seconds: an interval of n seconds of ticks ends n seconds later, to
\* the tick before.
LEMMA SecondsPass ==
  ASSUME NEW at \in Nat, NEW later \in Nat, NEW n \in Nat
  PROVE  /\ Seconds(at) \in Nat /\ Seconds(later) \in Nat
         /\ later - at <= n * TicksPerSecond => Seconds(later) <= Seconds(at) + n
         /\ later - at >= (n + 1) * TicksPerSecond => Seconds(later) > Seconds(at) + n
<1> DEFINE T == TicksPerSecond
           a == at \div T
           b == later \div T
<1>1. T \in Nat /\ T > 0
  BY TimeTicks
<1>2. /\ a \in Nat /\ b \in Nat
      /\ T * a <= at /\ at < T * (a + 1)
      /\ T * b <= later /\ later < T * (b + 1)
  BY <1>1
<1>3. T * (a + 1) = T * a + T /\ T * (b + 1) = T * b + T /\ (n + 1) * T = n * T + T
  BY <1>1, <1>2
<1>4. later - at <= n * T => b <= a + n
  <2> SUFFICES ASSUME later - at <= n * T, b >= a + n + 1 PROVE FALSE
    BY <1>1, <1>2
  <2>1. T * b >= T * (a + n + 1)
    BY <1>1, <1>2
  <2>2. T * (a + n + 1) = T * a + n * T + T
    BY <1>1, <1>2
  <2> QED BY <1>1, <1>2, <1>3, <2>1, <2>2
<1>5. later - at >= (n + 1) * T => b > a + n
  <2> SUFFICES ASSUME later - at >= (n + 1) * T, b <= a + n PROVE FALSE
    BY <1>1, <1>2
  <2>1. T * (b + 1) <= T * (a + n + 1)
    BY <1>1, <1>2
  <2>2. T * (a + n + 1) = T * a + n * T + T
    BY <1>1, <1>2
  <2> QED BY <1>1, <1>2, <1>3, <2>1, <2>2
<1> QED BY <1>2, <1>4, <1>5 DEF Seconds

\* URLs that were handed out stay so.
LEMMA HandedOutGrows ==
  ASSUME ApiTypeInv, NEW r \in Request, ApiStep(r)
  PROVE  HandedOut \subseteq HandedOut'
<1> SUFFICES ASSUME NEW u \in HandedOut PROVE u \in HandedOut'
  OBVIOUS
<1>1. CASE \E q \in Request : Answered(q, "sign", "ok") /\ u = signer[q].url
  <2>1. PICK q \in Request : Answered(q, "sign", "ok") /\ u = signer[q].url
    BY <1>1
  <2>2. pc[q] = "done"
    BY <2>1, AnsweredIsDone DEF Answered
  <2>3. resp'[q] = "ok" /\ req'[q].op = "sign" /\ signer'[q].url = u
    BY <2>1, <2>2, DoneStays DEF Answered
  <2> QED BY <2>3 DEF HandedOut
<1>2. CASE u \in {[file |-> e.file, expires |-> String(e.exp),
                    signature |-> ComputeSignature(e.file, e.exp)] :
                    e \in {d \in audit : d.id[1] \in StoredLink}}
  <2>1. audit \subseteq audit'
    BY ApiFrames DEF EventFrame
  <2> QED BY <1>2, <2>1 DEF HandedOut
<1> QED BY <1>1, <1>2 DEF HandedOut, Answered

\* A download is verified when it arrives.
LEMMA DownloadArrives ==
  ASSUME ApiTypeInv, NEW r \in Request, ApiStep(r), pc[r] = "idle", req'[r].op = "download"
  PROVE  \E url \in Presented :
           /\ signer'[r] = [url |-> url, at |-> now]
           /\ req'[r] = [op |-> "download", user |-> None, file |-> url.file, arg |-> None,
                         exp |-> url.expires.number]
           /\ IF Verify(url, now) THEN Went(r, "download.find") ELSE Ended(r, "INVALID_SIGNED_URL")
<1>1. CASE FileNext(r)
  <2>1. ReceiveFileOp(r)
    BY <1>1, UploadEffect, DeleteEffect, RenameEffect, FailureEffect
    DEF FileNext, FileStep, ApiTypeInv, UploadSteps, DeleteSteps, RenameSteps, Step, DatabaseStep,
        StorageStep
  <2> QED BY <2>1, ReceiveEffect DEF ApiTypeInv
<1>2. CASE OtherStep(r)
  BY <1>2, OtherStepFrame, OtherStepsAreNotFileSteps
<1>3. CASE ReceiveOther(r)
  <2>1. FlowTypeOK /\ signer = [q \in Request |-> signer[q]]
    BY DEF ApiTypeInv, TypeInv, TypeOK
  <2>2. ReceiveDownload(r)
    BY <1>3, <2>1, ReceiveOtherEffect DEF ReceiveOther
  <2>3. PICK url \in Presented :
          /\ signer' = [signer EXCEPT ![r] = [url |-> url, at |-> now]]
          /\ req'[r] = [op |-> "download", user |-> None, file |-> url.file, arg |-> None,
                        exp |-> url.expires.number]
          /\ IF Verify(url, now) THEN Went(r, "download.find") ELSE Ended(r, "INVALID_SIGNED_URL")
    BY <2>1, <2>2, ReceiveDownloadEffect
  <2>4. signer'[r] = [url |-> url, at |-> now]
    BY <2>1, <2>3
  <2> QED BY <2>3, <2>4
<1> QED BY <1>1, <1>2, <1>3, ApiCases

\* ... and the URL and the verdict stay what they are.
LEMMA DownloadStays ==
  ASSUME ApiTypeInv, NEW r \in Request, ApiStep(r), NEW s \in Request, pc[s] # "idle",
         req[s].op = "download"
  PROVE  /\ pc'[s] # "idle" /\ req'[s] = req[s] /\ signer'[s] = signer[s]
         /\ resp'[s] = "INVALID_SIGNED_URL" <=> resp[s] = "INVALID_SIGNED_URL"
         /\ pc'[s] \in DownloadSteps => pc[s] \in DownloadSteps
<1>1. FlowFrame(r)
  BY ApiFrames
<1>2. CASE s # r \/ pc[s] = "done"
  BY <1>2, OthersStay, DoneStays DEF DownloadSteps
<1>3. CASE s = r /\ pc[s] # "done"
  <2>1. pc[r] \in DownloadSteps
    <3>1. pc[r] \in Step /\ Shape(r) /\ ApiShape(r)
      BY <1>3 DEF ApiTypeInv, TypeInv, TypeOK, FlowTypeOK
    <3> QED BY <1>3, <3>1 DEF Step, DatabaseStep, StorageStep, Shape, ShapeAt, ApiShape, ApiShapeAt,
               UploadSteps, DeleteSteps, RenameSteps, SignSteps, RevokeSteps, DownloadSteps,
               HistorySteps, ReadSteps
  <2>2. pc[r] \in OtherSteps /\ resp[r] = "none"
    BY <1>3, <2>1 DEF OtherSteps, ApiTypeInv, Unanswered
  <2>3. CASE FileNext(r) /\ UNCHANGED signer
    <3>1. pc'[r] = pc[r] \/ resp'[r] \in {"database", "storage", "lost", "BLOB_MISSING"}
      BY <2>2, <2>3, FaultsElsewhere DEF Ended, Layer
    <3>2. pc'[r] = pc[r] => resp'[r] = resp[r]
      BY <1>1, <1>3 DEF FlowFrame
    <3> QED BY <1>1, <1>3, <2>1, <2>2, <2>3, <3>1, <3>2 DEF FlowFrame
  <2>4. CASE OtherStep(r)
    <3>1. OtherMove(r) /\ UNCHANGED req
      BY <2>4, OtherStepFrame
    <3>2. UNCHANGED signer
      BY <2>1, <3>1 DEF OtherMove, DownloadSteps
    <3>3. resp'[r] # "INVALID_SIGNED_URL"
      BY <1>1, <2>2, <2>4, OtherStepFrame DEF OtherAnswer
    <3> QED BY <1>1, <1>3, <2>1, <2>2, <3>1, <3>2, <3>3 DEF FlowFrame
  <2> QED BY <1>3, <2>2, <2>3, <2>4, ApiCases, ReceiveOtherFrame, OtherStepsAreNotFileSteps
<1> QED BY <1>2, <1>3

Downloading(r) == req[r] # None /\ req[r].op = "download"

\* A download was refused by the signer exactly if its URL did not verify at
\* the time it arrived, and one that was not has a URL that was handed out,
\* or one that differs from such a URL in how its signature or the moment of
\* its expiry is spelled.
DownloadsVerified ==
  \A d \in Request : Downloading(d) =>
    /\ signer[d].at \in Nat
    /\ resp[d] = "INVALID_SIGNED_URL" <=> ~Verify(signer[d].url, signer[d].at)
    /\ pc[d] \in DownloadSteps =>
         /\ req[d].exp = signer[d].url.expires.number
         /\ \E u \in HandedOut : /\ req[d].file = u.file /\ req[d].exp = u.expires.number
                                 /\ signer[d].url.signature.lower => AsSigned(signer[d].url) = u

\* The link is looked up by its signature as it is spelled; how the expiry is
\* spelled is not looked at again.
ServedUrlsWereHandedOut == \A d \in Request : Serving(d) => AsSigned(signer[d].url) \in HandedOut

LifetimeInv == ApiTypeInv /\ DownloadsVerified /\ ServedUrlsWereHandedOut

LEMMA DownloadsVerifiedStays ==
  ASSUME ApiTypeInv, DownloadsVerified, NEW r \in Request, ApiStep(r)
  PROVE  DownloadsVerified'
<1> SUFFICES ASSUME NEW d \in Request, Downloading(d)'
             PROVE  /\ signer'[d].at \in Nat
                    /\ resp'[d] = "INVALID_SIGNED_URL" <=> ~Verify(signer'[d].url, signer'[d].at)
                    /\ pc'[d] \in DownloadSteps =>
                         /\ req'[d].exp = signer'[d].url.expires.number
                         /\ \E u \in HandedOut' :
                              /\ req'[d].file = u.file /\ req'[d].exp = u.expires.number
                              /\ signer'[d].url.signature.lower => AsSigned(signer'[d].url) = u
  BY DEF DownloadsVerified, AsSigned, Verify, Seconds, HexEqual, ComputeSignature
<1>1. FlowFrame(r) /\ HandedOut \subseteq HandedOut'
  BY ApiFrames, HandedOutGrows
<1>2. CASE pc[d] # "idle"
  <2>1. req'[d] = req[d]
    BY <1>1, <1>2 DEF FlowFrame, Others
  <2>2. Downloading(d)
    BY <2>1 DEF Downloading
  <2> QED BY <1>1, <1>2, <2>1, <2>2, DownloadStays DEF DownloadsVerified, Downloading
<1>3. CASE pc[d] = "idle"
  <2>1. d = r /\ resp[r] = "none"
    BY <1>3, OthersStay DEF Downloading, ApiTypeInv, Unanswered
  <2>2. PICK url \in Presented :
          /\ signer'[r] = [url |-> url, at |-> now]
          /\ req'[r] = [op |-> "download", user |-> None, file |-> url.file, arg |-> None,
                        exp |-> url.expires.number]
          /\ IF Verify(url, now) THEN Went(r, "download.find") ELSE Ended(r, "INVALID_SIGNED_URL")
    BY <1>3, <2>1, DownloadArrives DEF Downloading
  <2>3. now \in Nat /\ signer'[r].url = url /\ signer'[r].at = now
    BY <2>2, TimesAreNatural DEF ApiTypeInv
  <2>4. resp'[r] = "INVALID_SIGNED_URL" <=> ~Verify(url, now)
    BY <2>1, <2>2 DEF Went, Ended
  <2>5. ASSUME pc'[r] \in DownloadSteps
        PROVE  /\ req'[r].exp = url.expires.number
               /\ \E u \in HandedOut : /\ req'[r].file = u.file /\ req'[r].exp = u.expires.number
                                       /\ url.signature.lower => AsSigned(url) = u
    <3>1. Verify(url, now)
      BY <2>2, <2>5 DEF Ended, DownloadSteps
    <3>2. HandedOut \subseteq {SignedUrl(f, x) : f \in FileId, x \in Nat}
      BY HandedOutIsSigned
    <3>3. PICK u \in HandedOut : /\ url.file = u.file /\ url.expires.number = u.expires.number
                                 /\ url.signature.lower => AsSigned(url) = u
      BY <3>1, <3>2, PresentedUrls
    <3> QED BY <2>2, <3>3
  <2> QED BY <1>1, <2>1, <2>3, <2>4, <2>5
<1> QED BY <1>2, <1>3

LEMMA ServedUrlsStay ==
  ASSUME LifetimeInv, NEW r \in Request, ApiStep(r)
  PROVE  ServedUrlsWereHandedOut'
<1> USE DEF LifetimeInv
<1> SUFFICES ASSUME NEW d \in Request, Serving(d)' PROVE AsSigned(signer'[d].url) \in HandedOut'
  BY DEF ServedUrlsWereHandedOut, AsSigned
<1>1. HandedOut \subseteq HandedOut'
  BY HandedOutGrows
<1>2. pc[d] # "idle"
  BY BecomesServing, AnsweredIsDone DEF Serving, Answered
<1>3. CASE Serving(d)
  <2>1. req[d].op = "download"
    BY <1>3 DEF Serving, Answered, ApiTypeInv, ApiShape, ApiShapeAt, DownloadSteps
  <2> QED BY <1>1, <1>2, <1>3, <2>1, DownloadStays DEF ServedUrlsWereHandedOut
<1>4. CASE d = r /\ pc[r] = "download.redeem" /\ held'[r] \in LinksGiven(r)
  <2>1. signer[r].url.signature.lower
    BY <1>4 DEF LinksGiven
  <2>2. Shape(r) /\ ApiShape(r)
    BY DEF ApiTypeInv, TypeInv
  <2>3. req[r].op = "download" /\ req[r] # None
    BY <1>4, <2>2, NoneIsNoCommand DEF ApiShape, ApiShapeAt, DownloadSteps, Shape, ShapeAt
  <2>4. AsSigned(signer[r].url) \in HandedOut
    BY <1>4, <2>1, <2>3 DEF DownloadsVerified, Downloading, DownloadSteps
  <2> QED BY <1>1, <1>2, <1>4, <2>3, <2>4, DownloadStays
<1> QED BY <1>3, <1>4, BecomesServing

LEMMA LifetimeInvHolds == ApiSpec => []LifetimeInv
<1>1. ApiInit => DownloadsVerified /\ ServedUrlsWereHandedOut
  BY DEF ApiInit, Init, FlowInit, DownloadsVerified, Downloading, ServedUrlsWereHandedOut, Serving,
     Answered
<1>2. ApiTypeInv' /\ LifetimeInv /\ [ApiNext]_apiVars => LifetimeInv'
  <2> SUFFICES ASSUME ApiTypeInv', LifetimeInv, [ApiNext]_apiVars PROVE LifetimeInv'
    OBVIOUS
  <2>1. CASE Still
    <3>1. HandedOut' = HandedOut
      BY <2>1 DEF HandedOut, Still, stores, flow
    <3> QED BY <2>1, <3>1 DEF LifetimeInv, DownloadsVerified, Downloading, Verify, Seconds, HexEqual,
            ComputeSignature, AsSigned, ServedUrlsWereHandedOut, Serving, Answered, Still, flow
  <2> QED BY <2>1, ApiNextCases, DownloadsVerifiedStays, ServedUrlsStay DEF LifetimeInv
<1> QED BY <1>1, <1>2, ApiTypeInvHolds, PTL DEF ApiSpec, LifetimeInv

\* What is known of a URL that is a signed one but for the spelling of its
\* expiry: the number and the signature are the same.
LEMMA AsSignedTells ==
  ASSUME NEW url, NEW f, NEW n \in Nat, AsSigned(url) = SignedUrl(f, n)
  PROVE  /\ url.file = f /\ url.expires.whole = TRUE /\ url.expires.number = n
         /\ url.signature = ComputeSignature(f, n)
<1> DEFINE text == [url.expires EXCEPT !.plain = TRUE]
<1>1. [url EXCEPT !.expires = text] = SignedUrl(f, n)
  BY DEF AsSigned
<1>2. DOMAIN url = {"file", "expires", "signature"}
  <2>1. DOMAIN [url EXCEPT !.expires = text] = DOMAIN url
    OBVIOUS
  <2> QED BY <1>1, <2>1 DEF SignedUrl
<1>3. url.file = f /\ text = String(n) /\ url.signature = ComputeSignature(f, n)
  <2> HIDE DEF text
  <2> QED BY <1>1, <1>2 DEF SignedUrl
<1>4. DOMAIN url.expires = {"whole", "number", "plain"}
  <2>1. DOMAIN text = DOMAIN url.expires
    OBVIOUS
  <2> QED BY <1>3, <2>1 DEF String
<1>5. /\ text["whole"] = url.expires["whole"] /\ text["number"] = url.expires["number"]
  BY <1>4
<1>6. text["whole"] = TRUE /\ text["number"] = n
  <2> HIDE DEF text
  <2> QED BY <1>3 DEF String
<1> QED BY <1>3, <1>5, <1>6

\* So the signer lets it in until the second that was signed is over.
LEMMA AsSignedVerifies ==
  ASSUME NEW url, NEW f, NEW n \in Nat, NEW later, AsSigned(url) = SignedUrl(f, n)
  PROVE  Verify(url, later) <=> n >= Seconds(later)
<1>1. /\ url.file = f /\ url.expires.whole = TRUE /\ url.expires.number = n
      /\ url.signature = ComputeSignature(f, n)
  BY AsSignedTells
<1> QED BY <1>1 DEF Verify, HexEqual

\* Whoever presents a URL that was handed out, in whatever way he spells the
\* moment of its expiry, is let in by the signer for the whole seconds its
\* owner asked for after it was signed, and never a second later than that;
\* bytes are given for no URL that differs from one that was handed out in
\* anything but that spelling.
THEOREM URLsLiveTheirLifetime == ApiSpec => []UrlLivesItsLifetime
<1>1. LifetimeInv => UrlLivesItsLifetime
  <2> SUFFICES ASSUME LifetimeInv, NEW d \in Request, Downloading(d)
               PROVE  /\ resp[d] = "ok" => AsSigned(signer[d].url) \in HandedOut
                      /\ \A s \in Request :
                           Answered(s, "sign", "ok") /\ signer[s].url = AsSigned(signer[d].url) =>
                             LET age == signer[d].at - signer[s].at IN
                             /\ age <= req[s].exp * TicksPerSecond
                                  => resp[d] # "INVALID_SIGNED_URL"
                             /\ age >= (req[s].exp + 1) * TicksPerSecond
                                  => resp[d] = "INVALID_SIGNED_URL"
    BY DEF UrlLivesItsLifetime, Downloading
  <2>1. resp[d] = "ok" => AsSigned(signer[d].url) \in HandedOut
    BY DEF LifetimeInv, ServedUrlsWereHandedOut, Serving, Answered, Downloading
  <2>2. ASSUME NEW s \in Request, Answered(s, "sign", "ok"),
                      signer[s].url = AsSigned(signer[d].url)
        PROVE  LET age == signer[d].at - signer[s].at IN
               /\ age <= req[s].exp * TicksPerSecond => resp[d] # "INVALID_SIGNED_URL"
               /\ age >= (req[s].exp + 1) * TicksPerSecond => resp[d] = "INVALID_SIGNED_URL"
    <3>1. req[s] \in Command /\ req[s] # None
      BY <2>2, AnsweredIsDone DEF Answered, LifetimeInv
    <3>2. SignedAs(s)
      BY <2>2, <3>1 DEF LifetimeInv, ApiTypeInv, SignersSign, Signing, Answered
    <3>3. PICK at \in 0 .. now : signer[s] = [url |-> Sign(req[s].file, req[s].exp, at), at |-> at]
      BY <3>2 DEF SignedAs
    <3> DEFINE ttl == req[s].exp
               later == signer[d].at
    <3>4. ttl \in Nat /\ at \in Nat /\ later \in Nat
      BY <3>1 DEF Command, LifetimeInv, ApiTypeInv, DownloadsVerified
    <3>5. signer[s].at = at /\ AsSigned(signer[d].url) = SignedUrl(req[s].file, Seconds(at) + ttl)
          /\ Seconds(at) + ttl \in Nat
      BY <2>2, <3>3, <3>4, SignMakesSigned
    <3>6. Verify(signer[d].url, later) <=> Seconds(at) + ttl >= Seconds(later)
      BY <3>5, AsSignedVerifies
    <3>7. resp[d] = "INVALID_SIGNED_URL" <=> Seconds(later) > Seconds(at) + ttl
      <4>1. resp[d] = "INVALID_SIGNED_URL" <=> ~Verify(signer[d].url, later)
        BY DEF LifetimeInv, DownloadsVerified
      <4> QED BY <3>4, <3>6, <4>1, SecondsPass
    <3> HIDE DEF ttl, later
    <3>8. /\ later - at <= ttl * TicksPerSecond => resp[d] # "INVALID_SIGNED_URL"
          /\ later - at >= (ttl + 1) * TicksPerSecond => resp[d] = "INVALID_SIGNED_URL"
      BY <3>4, <3>7, SecondsPass
    <3> QED BY <3>5, <3>8 DEF ttl, later
  <2> QED BY <2>1, <2>2
<1> QED BY <1>1, LifetimeInvHolds, PTL

----------------------------------------------------------------------------
(* The link of a URL.                                                      *)

\* The URL for f that expires at exp has its link, or f is being deleted.
UrlKept(f, exp) == (\E l \in links : l.file = f /\ l.exp = exp) \/ Deleted(f)

\* What was handed out before the behaviour starts, by its events.
StoredKept == \A e \in audit : e.id[1] \in StoredLink => UrlKept(e.file, e.exp)

KeptInv == GivenInv /\ LifetimeInv /\ StoredKept

LEMMA UrlKeptStays ==
  ASSUME LinkInv, NEW r \in Request, ApiStep(r), NEW f, NEW exp, UrlKept(f, exp)
  PROVE  UrlKept(f, exp)'
<1> USE DEF LinkInv, ApiOwnerInv
<1>1. EventFrame(r)
  BY ApiFrames
<1>2. CASE Deleted(f)
  BY <1>1, <1>2, DeletedStays DEF UrlKept
<1>3. CASE \E k \in links : k.file = f /\ k.exp = exp
  <2>1. PICK k \in links : k.file = f /\ k.exp = exp
    BY <1>3
  <2>2. CASE \E l \in links' : SameLink(k, l)
    BY <2>1, <2>2 DEF SameLink, UrlKept
  <2>3. CASE pc[r] = "delete.drop" /\ k.file = req[r].file
    <3>1. Deleted(f)
      BY <2>1, <2>3 DEF DeletesAreRecorded, DeletionRecorded, Deleted
    <3> QED BY <1>1, <3>1, DeletedStays DEF UrlKept
  <2> QED BY <2>1, <2>2, <2>3, ApiLinksFrame, LinksComeAndGo
<1> QED BY <1>2, <1>3 DEF UrlKept

LEMMA HandedOutIsKept ==
  ASSUME KeptInv, NEW u \in HandedOut
  PROVE  UrlKept(u.file, u.expires.number)
<1> USE DEF KeptInv, GivenInv, LinkInv, ApiOwnerInv
<1>1. CASE \E q \in Request : Answered(q, "sign", "ok") /\ u = signer[q].url
  <2>1. PICK q \in Request : Answered(q, "sign", "ok") /\ u = signer[q].url
    BY <1>1
  <2>2. req[q] # None /\ req[q] \in Command
    BY <2>1, AnsweredIsDone DEF Answered
  <2>3. SignedAs(q) /\ LinkKept(q)
    BY <2>1, <2>2 DEF ApiTypeInv, SignersSign, Signing, Answered, SignsAreKept
  <2>4. /\ held[q].file = req[q].file /\ held[q].exp = u.expires.number /\ u.file = req[q].file
    BY <2>1, <2>3 DEF SignedAs, Sign
  <2> QED BY <2>3, <2>4 DEF LinkKept, UrlKept
<1>2. CASE \E e \in audit : e.id[1] \in StoredLink /\ u = SignedUrl(e.file, e.exp)
  BY <1>2 DEF StoredKept, SignedUrl, String
<1> QED BY <1>1, <1>2 DEF HandedOut, Answered, SignedUrl

\* So a download that passed the signer is of a link, or of a file that is
\* being deleted.
LEMMA DownloadsAreOfLinks ==
  ASSUME KeptInv, NEW r \in Request, pc[r] \in DownloadSteps
  PROVE  /\ Downloading(r) /\ req[r].file \in FileId /\ UrlKept(req[r].file, req[r].exp)
         /\ files[req[r].file] = None => Deleted(req[r].file)
<1> USE DEF KeptInv, GivenInv, LinkInv, ApiOwnerInv
<1>1. Shape(r) /\ ApiShape(r)
  BY DEF ApiTypeInv, TypeInv
<1>2. Downloading(r) /\ req[r].file \in FileId
  BY <1>1, NoneIsNoCommand
  DEF ApiShape, ApiShapeAt, DownloadSteps, Shape, ShapeAt, Downloading, Command
<1>3. UrlKept(req[r].file, req[r].exp)
  BY <1>2, HandedOutIsKept DEF LifetimeInv, DownloadsVerified
<1> QED BY <1>2, <1>3 DEF UrlKept, LinksBelongToOwners

LEMMA StoredKeptStays ==
  ASSUME LinkInv, StoredKept, NEW r \in Request, ApiStep(r)
  PROVE  StoredKept'
<1> SUFFICES ASSUME NEW e \in audit', e.id[1] \in StoredLink PROVE UrlKept(e.file, e.exp)'
  BY DEF StoredKept, UrlKept, Deleted
<1>1. EventFrame(r)
  BY ApiFrames DEF LinkInv, ApiOwnerInv
<1>2. e \in audit
  BY <1>1, IdsAreDistinct DEF EventFrame
<1> QED BY <1>2, UrlKeptStays DEF StoredKept

LEMMA KeptInvHolds == ApiSpec => []KeptInv
<1>1. ApiInit => StoredKept
  <2> SUFFICES ASSUME ApiInit, NEW e \in audit, e.id[1] \in StoredLink
               PROVE  \E l \in links : l.file = e.file /\ l.exp = e.exp
    BY DEF StoredKept, UrlKept
  <2>1. PICK at \in [StoredLink -> StoredFile] :
          /\ links = {[id |-> l, file |-> at[l], exp |-> StoredExp,
                       user |-> files[at[l]].user, revoked |-> FALSE] : l \in StoredLink}
          /\ audit = {[id |-> <<l, 1>>, file |-> at[l], user |-> files[at[l]].user,
                       type |-> "signed_link_generated", name |-> None, was |-> None,
                       link |-> None, exp |-> StoredExp] : l \in StoredLink}
    BY DEF ApiInit, Init, StoresInit
  <2>2. PICK l \in StoredLink : e.file = at[l] /\ e.exp = StoredExp
    BY <2>1
  <2>3. [id |-> l, file |-> at[l], exp |-> StoredExp, user |-> files[at[l]].user,
         revoked |-> FALSE] \in links
    BY <2>1
  <2> QED BY <2>2, <2>3
<1>2. GivenInv' /\ LifetimeInv' /\ KeptInv /\ [ApiNext]_apiVars => KeptInv'
  <2> SUFFICES ASSUME GivenInv', LifetimeInv', KeptInv, [ApiNext]_apiVars PROVE KeptInv'
    OBVIOUS
  <2>1. CASE Still
    BY <2>1 DEF KeptInv, StoredKept, UrlKept, Deleted, Still, stores
  <2> QED BY <2>1, ApiNextCases, StoredKeptStays DEF KeptInv, GivenInv
<1> QED BY <1>1, <1>2, GivenInvHolds, LifetimeInvHolds, PTL DEF ApiSpec, KeptInv

----------------------------------------------------------------------------
(* Rows and bytes, with all services around.                               *)

BlobsInv == GoneInv /\ RowHasBlob /\ BlobBeforeRow

LEMMA RowHasBlobStays ==
  ASSUME BlobsInv, NEW r \in Request, ApiStep(r)
  PROVE  RowHasBlob'
<1> USE DEF BlobsInv, GoneInv, ToldInv, GivenInv, LinkInv, ApiOwnerInv
<1> SUFFICES ASSUME NEW f \in FileId, files'[f] # None PROVE blobs'[f] = "whole"
  BY DEF RowHasBlob
<1>1. RowFrame(r) /\ BlobFrame(r)
  BY ApiFrames
<1>2. CASE files[f] = None
  <2>1. pc[r] = "upload.insert" /\ f = r
    BY <1>1, <1>2 DEF RowFrame
  <2> QED BY <1>1, <2>1 DEF BlobFrame, BlobBeforeRow
<1>3. CASE files[f] # None
  <2>1. Settled(f)
    BY <1>3 DEF UploadIsAlone
  <2>2. pc[r] = "delete.unlink" => f # req[r].file
    BY <1>3 DEF DroppedStaysDropped, Dropped
  <2>3. blobs'[f] = blobs[f]
    BY <1>1, <2>1, <2>2 DEF BlobFrame, Settled, UploadSteps
  <2> QED BY <1>3, <2>3 DEF RowHasBlob
<1> QED BY <1>2, <1>3

LEMMA BlobBeforeRowStays ==
  ASSUME BlobsInv, NEW r \in Request, ApiStep(r)
  PROVE  BlobBeforeRow'
<1> USE DEF BlobsInv, GoneInv, ToldInv, GivenInv, LinkInv, ApiOwnerInv
<1> SUFFICES ASSUME NEW s \in Request, pc'[s] = "upload.insert" PROVE blobs'[s] = "whole"
  BY DEF BlobBeforeRow
<1>1. BlobFrame(r) /\ FlowFrame(r)
  BY ApiFrames
<1>2. s \in FileId
  BY DEF FileId
<1>3. CASE pc[s] = "upload.insert"
  <2>1. pc[r] = "delete.unlink" => s # req[r].file
    BY <1>3 DEF UploadIsAlone, Dropped, Settled, UploadSteps
  <2>2. blobs'[s] = blobs[s]
    BY <1>1, <1>2, <1>3, <2>1 DEF BlobFrame
  <2> QED BY <1>3, <2>2 DEF BlobBeforeRow
<1>4. CASE pc[s] # "upload.insert"
  <2>1. s = r
    BY <1>4, OthersStay
  <2>2. FileNext(r)
    BY <2>1, ApiCases, OtherStepFrame, ReceiveOtherFrame, OtherStepsAreNotFileSteps
    DEF UploadSteps
  <2>3. pc[r] = "upload.save"
    BY <1>4, <2>1, <2>2, FileMoveFrame DEF MoveFrame, ApiTypeInv
  <2>4. UploadStep(r)
    BY <1>4, <2>1, <2>2, <2>3, ReceiveEffect, DeleteEffect, RenameEffect, FailureEffect
    DEF FileNext, FileStep, ApiTypeInv, DeleteSteps, RenameSteps, Failed, Ended
  <2> QED BY <1>4, <2>1, <2>3, <2>4, UploadEffect DEF ApiTypeInv, Ended, Failed, Sets
<1> QED BY <1>3, <1>4

LEMMA BlobsInvHolds ==
  ASSUME InsertsAreNotRepeated
  PROVE  ApiSpec => []BlobsInv
<1>1. ApiInit => RowHasBlob /\ BlobBeforeRow
  BY DEF ApiInit, Init, StoresInit, FlowInit, RowHasBlob, BlobBeforeRow
<1>2. RevokeInv' /\ BlobsInv /\ [ApiNext]_apiVars => BlobsInv'
  <2> SUFFICES ASSUME RevokeInv', BlobsInv, [ApiNext]_apiVars PROVE BlobsInv'
    OBVIOUS
  <2>1. CASE Still
    BY <2>1 DEF BlobsInv, RevokeInv, RowHasBlob, BlobBeforeRow, Still, stores, flow
  <2> QED BY <2>1, ApiNextCases, RowHasBlobStays, BlobBeforeRowStays DEF BlobsInv, RevokeInv
<1>3. RevokeInv => GoneInv
  BY DEF RevokeInv
<1> QED BY <1>1, <1>2, <1>3, RevokeInvHolds, PTL DEF ApiSpec, BlobsInv
\* A row has its bytes, whatever requests for links, downloads and deletions
\* run beside it.
THEOREM ApiRowsHaveBlobs ==
  ASSUME InsertsAreNotRepeated
  PROVE  ApiSpec => []RowHasBlob
<1>1. BlobsInv => RowHasBlob
  BY DEF BlobsInv
<1> QED BY <1>1, BlobsInvHolds, PTL

----------------------------------------------------------------------------
(* Why a holder of a good URL is refused.                                  *)

\* Without it an UPDATE may be executed and its request be about to repeat it:
\* then a link is revoked that no request is known to have revoked.
AcksArrive == "unacked" \notin Faults

\* LocalBlobStorage.exists never throws: a disk that fails reads as bytes that
\* are not there.
DisksAnswer == ~(LocalDisk /\ "storage" \in Faults)

RevokedHasCause == \A l \in links : l.revoked => \E q \in RevokesOf(l) : RevokedBy(q)

\* What the rejection is going to say.
RejectionHasCause ==
  \A r \in Request : pc[r] = "download.reject" =>
    IF held[r] = None
      THEN Deleted(req[r].file) \/ ~signer[r].url.signature.lower
      ELSE \E q \in RevokesOf(held[r]) : RevokedBy(q)

RefusedInv ==
  /\ KeptInv
  /\ BlobsInv
  /\ RevokedHasCause
  /\ RejectionHasCause
  /\ RefusalHasCause

\* Who revoked a link remains who did.
LEMMA RevokedByStays ==
  ASSUME ApiTypeInv, NEW r \in Request, ApiStep(r), NEW q \in Request, RevokedBy(q), req[q] # None,
         req[q].op = "revoke"
  PROVE  RevokedBy(q)' /\ req'[q] = req[q]
<1>1. FlowFrame(r)
  BY ApiFrames
<1>2. req'[q] = req[q]
  <2>1. pc[q] # "idle"
    BY DEF ApiTypeInv, Unanswered
  <2> QED BY <1>1, <2>1 DEF FlowFrame, Others
<1>3. CASE q # r \/ pc[q] = "done"
  BY <1>2, <1>3, OthersStay, DoneStays DEF RevokedBy
<1>4. CASE q = r /\ pc[q] # "done"
  <2>1. pc[r] = "revoke.audit"
    BY <1>4 DEF RevokedBy, ApiTypeInv, Unanswered
  <2>2. pc[r] \in OtherSteps /\ pc[r] \in DatabaseStep \ StorageStep
    BY <2>1 DEF OtherSteps, RevokeSteps, DatabaseStep, StorageStep
  <2>3. CASE FileNext(r)
    BY <1>2, <1>4, <2>1, <2>2, <2>3, FaultsElsewhere DEF RevokedBy, Ended, Layer
  <2>4. CASE OtherStep(r)
    <3>1. OtherMove(r) /\ (pc'[r] = "done" => OtherAnswer(r))
      BY <2>4, OtherStepFrame
    <3>2. pc'[r] = "done" \/ pc'[r] = pc[r]
      BY <2>1, <3>1 DEF OtherMove, Ended, Failed, Went
    <3>3. pc'[r] = "done" => resp'[r] \in {"ok", "database"}
      BY <2>1, <3>1 DEF OtherAnswer
    <3> QED BY <1>2, <1>4, <2>1, <3>2, <3>3 DEF RevokedBy
  <2> QED BY <1>4, <2>1, <2>3, <2>4, ApiCases, ReceiveOtherFrame
<1> QED BY <1>3, <1>4

\* The same of a link that is the same, in the table or in somebody's hands.
LEMMA CauseStays ==
  ASSUME ApiTypeInv, NEW r \in Request, ApiStep(r), NEW k, NEW l, k.id = l.id, k.file = l.file,
         \E q \in RevokesOf(k) : RevokedBy(q)
  PROVE  \E q \in Request : /\ req'[q] # None /\ req'[q].op = "revoke"
                            /\ req'[q].arg = l.id /\ req'[q].file = l.file /\ RevokedBy(q)'
<1>1. PICK q \in RevokesOf(k) : RevokedBy(q)
  OBVIOUS
<1>2. /\ q \in Request /\ req[q] # None /\ req[q].op = "revoke"
      /\ req[q].arg = l.id /\ req[q].file = l.file
  BY <1>1 DEF RevokesOf
<1> QED BY <1>1, <1>2, RevokedByStays

LEMMA RevokedHasCauseStays ==
  ASSUME AcksArrive, RefusedInv, NEW r \in Request, ApiStep(r)
  PROVE  RevokedHasCause'
<1> USE DEF RefusedInv, KeptInv, GivenInv, LinkInv, ApiOwnerInv
<1> SUFFICES ASSUME NEW l \in links', l.revoked
             PROVE  \E q \in Request : /\ req'[q] # None /\ req'[q].op = "revoke"
                                       /\ req'[q].arg = l.id /\ req'[q].file = l.file
                                       /\ RevokedBy(q)'
  BY DEF RevokedHasCause, RevokesOf
<1>1. CASE \E k \in links : k.id = l.id /\ k.file = l.file /\ k.revoked
  BY <1>1, CauseStays DEF RevokedHasCause
<1>2. CASE ~\E k \in links : k.id = l.id /\ k.file = l.file /\ k.revoked
  <2>1. pc[r] = "revoke.update" /\ UNCHANGED files
    <3>1. ~(pc[r] = "sign.insert" /\ l = held[r])
      BY HeldLink
    <3> QED BY <1>2, <3>1, ApiLinksFrame, LinksComeAndGo DEF LinksFrame, SameLink
  <2>2. FlowTypeOK /\ ListedTypeOK /\ pc[r] \in OtherSteps
    BY <2>1 DEF ApiTypeInv, TypeInv, TypeOK, OtherSteps, RevokeSteps
  <2>3. links' # links
    BY <1>2
  <2>4. RevokeStep(r)
    <3>1. OtherStep(r)
      BY <2>2, <2>3, ApiCases, FaultsElsewhere, ReceiveOtherFrame, OtherStepsAreNotFileSteps
      DEF stores
    <3> QED BY <2>1, <2>2, <3>1, ReadEffect, SignEffect, DownloadEffect, HistoryEffect
        DEF OtherStep, LinkStep, ReadSteps, SignSteps, DownloadSteps, HistorySteps
  <2>5. /\ RevokeLink(req[r].arg, req[r].file)
        /\ Revocable(req[r].arg, req[r].file) # {} => Acked(r, Went(r, "revoke.audit"))
        /\ UNCHANGED req
    BY <2>1, <2>2, <2>4, RevokeEffect
  <2>6. PICK k \in Revocable(req[r].arg, req[r].file) : l = [k EXCEPT !.revoked = TRUE]
    BY <1>2, <2>5 DEF RevokeLink
  <2>7. l.id = req[r].arg /\ l.file = req[r].file
    <3>1. k \in Link /\ k.id = req[r].arg /\ k.file = req[r].file
      BY <2>6 DEF Revocable, ApiTypeInv, TypeInv, TypeOK, StoresTypeOK
    <3> QED BY <2>6, <3>1 DEF Link
  <2>8. pc'[r] = "revoke.audit"
    BY <2>5, <2>6 DEF AcksArrive, Acked, Went
  <2>9. req[r] # None /\ req[r].op = "revoke"
    <3>1. Shape(r) /\ ApiShape(r)
      BY DEF ApiTypeInv, TypeInv
    <3> QED BY <2>1, <3>1, NoneIsNoCommand DEF ApiShape, ApiShapeAt, RevokeSteps, Shape, ShapeAt
  <2> QED BY <2>5, <2>7, <2>8, <2>9 DEF RevokedBy
<1> QED BY <1>1, <1>2
LEMMA RejectionHasCauseStays ==
  ASSUME RefusedInv, NEW r \in Request, ApiStep(r)
  PROVE  RejectionHasCause'
<1> USE DEF RefusedInv, KeptInv, GivenInv, LinkInv, ApiOwnerInv
<1> DEFINE DeletedNext(f) == \E e \in audit' : e.type = "file_deleted" /\ e.file = f
<1> SUFFICES ASSUME NEW s \in Request, pc'[s] = "download.reject"
             PROVE  IF held'[s] = None
                      THEN DeletedNext(req'[s].file) \/ ~signer'[s].url.signature.lower
                      ELSE \E q \in Request :
                             /\ req'[q] # None /\ req'[q].op = "revoke"
                             /\ req'[q].arg = held'[s].id /\ req'[q].file = held'[s].file
                             /\ RevokedBy(q)'
  BY DEF RejectionHasCause, RevokesOf, Deleted
<1>1. \A f : Deleted(f) => DeletedNext(f)
  BY ApiFrames DEF EventFrame, Deleted
<1> HIDE DEF DeletedNext
<1>2. CASE \/ s # r
           \/ pc'[r] = pc[r] /\ UNCHANGED <<req, held, signer>>
           \/ pc[r] = "download.reject" /\ OtherMove(r) /\ UNCHANGED req
  <2>1. /\ pc[s] = "download.reject" /\ req'[s] = req[s] /\ held'[s] = held[s]
        /\ signer'[s] = signer[s]
    BY <1>2, OthersStay DEF OtherMove
  <2>2. CASE held[s] = None
    <3>1. Deleted(req[s].file) \/ ~signer[s].url.signature.lower
      BY <2>1, <2>2 DEF RejectionHasCause
    <3> QED BY <1>1, <2>1, <2>2, <3>1
  <2>3. CASE held[s] # None
    <3>1. PICK l : l = held[s]
      OBVIOUS
    <3>2. \E q \in RevokesOf(l) : RevokedBy(q)
      BY <2>1, <2>3, <3>1 DEF RejectionHasCause
    <3> QED BY <2>1, <2>3, <3>1, <3>2, CauseStays
  <2> QED BY <2>2, <2>3
<1>3. CASE s = r /\ pc[r] = "download.redeem" /\ OtherMove(r) /\ UNCHANGED req
  <2>1. pc[r] \in DownloadSteps /\ held[r] = None /\ UNCHANGED signer
    BY <1>3 DEF DownloadSteps, ApiTypeInv, ApiShape, ApiShapeAt, OtherMove
  <2>2. \/ LinksGiven(r) = {} /\ UNCHANGED held
        \/ \E l \in LinksGiven(r) : held' = [held EXCEPT ![r] = l] /\ l.revoked
    BY <1>3 DEF OtherMove, Went, Ended, Failed
  <2>3. CASE LinksGiven(r) = {} /\ UNCHANGED held
    <3>1. UrlKept(req[r].file, req[r].exp)
      BY <2>1, DownloadsAreOfLinks
    <3>2. Deleted(req[r].file) \/ ~signer[r].url.signature.lower
      BY <2>3, <3>1 DEF UrlKept, LinksGiven, LinksFor
    <3> QED BY <1>1, <1>3, <2>1, <2>3, <3>2
  <2>4. ASSUME NEW l \in LinksGiven(r), held' = [held EXCEPT ![r] = l], l.revoked
        PROVE  /\ held'[r] = l /\ l # None
               /\ \E q \in Request : /\ req'[q] # None /\ req'[q].op = "revoke"
                                     /\ req'[q].arg = l.id /\ req'[q].file = l.file
                                     /\ RevokedBy(q)'
    <3>1. l \in links
      BY DEF LinksGiven, LinksFor
    <3>2. held'[r] = l
      BY <2>4 DEF ApiTypeInv, TypeInv, TypeOK, FlowTypeOK
    <3>3. l # None
      BY <3>1, NoneIsNoValue DEF ApiTypeInv, TypeInv, TypeOK, StoresTypeOK
    <3>4. \E q \in RevokesOf(l) : RevokedBy(q)
      BY <2>4, <3>1 DEF RevokedHasCause
    <3> QED BY <3>2, <3>3, <3>4, CauseStays
  <2> QED BY <1>3, <2>2, <2>3, <2>4
<1>4. \/ s # r
      \/ pc'[r] = pc[r] /\ UNCHANGED <<req, held, signer>>
      \/ OtherMove(r) /\ UNCHANGED req /\ pc[r] \in {"download.reject", "download.redeem"}
  <2>1. CASE s = r
    <3>1. \/ pc'[r] = pc[r] /\ UNCHANGED <<req, held, signer>>
          \/ OtherMove(r) /\ UNCHANGED req
      BY <2>1, WayToStep DEF OtherSteps, DownloadSteps, Arrivals
    <3>2. OtherMove(r) => pc[r] \in {"download.reject", "download.redeem"}
      BY <2>1 DEF OtherMove, Went, Ended, Failed
    <3> QED BY <3>1, <3>2
  <2> QED BY <2>1
<1> QED BY <1>2, <1>3, <1>4

LEMMA RefusalHasCauseStays ==
  ASSUME DisksAnswer, RefusedInv, NEW r \in Request, ApiStep(r)
  PROVE  RefusalHasCause'
<1> USE DEF RefusedInv, KeptInv, GivenInv, LinkInv, ApiOwnerInv
<1> DEFINE DeletedNext(f) == \E e \in audit' : e.type = "file_deleted" /\ e.file = f
<1> SUFFICES ASSUME NEW s \in Request, Downloading(s)'
             PROVE  /\ resp'[s] \in {"FILE_NOT_FOUND", "BLOB_MISSING"} => DeletedNext(req'[s].file)
                    /\ resp'[s] = "UNKNOWN_LINK" =>
                         DeletedNext(req'[s].file) \/ ~signer'[s].url.signature.lower
                    /\ resp'[s] = "LINK_REVOKED" =>
                         \E q \in Request : /\ req'[q] # None /\ req'[q].op = "revoke"
                                            /\ req'[q].arg = held'[s].id
                                            /\ req'[q].file = held'[s].file /\ RevokedBy(q)'
  BY DEF RefusalHasCause, RevokesOf, Deleted, Downloading
<1>1. \A f : Deleted(f) => DeletedNext(f)
  BY ApiFrames DEF EventFrame, Deleted
<1> HIDE DEF DeletedNext
<1>2. CASE pc[s] = "done"
  <2>1. /\ resp'[s] = resp[s] /\ req'[s] = req[s] /\ held'[s] = held[s]
        /\ signer'[s] = signer[s]
    BY <1>2, DoneStays
  <2>2. Downloading(s)
    BY <2>1 DEF Downloading
  <2>3. /\ resp[s] \in {"FILE_NOT_FOUND", "BLOB_MISSING"} => Deleted(req[s].file)
        /\ resp[s] = "UNKNOWN_LINK" => Deleted(req[s].file) \/ ~signer[s].url.signature.lower
    BY <2>2 DEF RefusalHasCause, Downloading
  <2>4. PICK l : l = held[s]
    OBVIOUS
  <2>5. resp[s] = "LINK_REVOKED" => \E q \in RevokesOf(l) : RevokedBy(q)
    BY <2>2, <2>4 DEF RefusalHasCause, Downloading
  <2>6. resp[s] = "LINK_REVOKED" =>
          \E q \in Request : /\ req'[q] # None /\ req'[q].op = "revoke" /\ req'[q].arg = l.id
                             /\ req'[q].file = l.file /\ RevokedBy(q)'
    BY <2>5, CauseStays
  <2> QED BY <1>1, <2>1, <2>3, <2>4, <2>6
<1>3. CASE pc[s] # "done" /\ resp'[s] \in {"FILE_NOT_FOUND", "BLOB_MISSING", "UNKNOWN_LINK",
                                            "LINK_REVOKED"}
  <2>1. s = r /\ pc'[r] = "done" /\ req'[r].op = "download"
    BY <1>3, ApiFrames, OthersStay DEF FlowFrame, ApiTypeInv, Unanswered, Downloading
  <2>2. /\ resp'[r] = "FILE_NOT_FOUND" => pc[r] = "download.find" /\ files[req[r].file] = None
        /\ resp'[r] = "BLOB_MISSING" =>
             pc[r] = "download.exists" /\ ~HasBlob(req[r].file)
        /\ resp'[r] \in {"LINK_REVOKED", "UNKNOWN_LINK"} =>
             pc[r] = "download.reject" /\ (resp'[r] = "UNKNOWN_LINK" <=> held[r] = None)
    BY <2>1, WhereAnswered DEF DisksAnswer
  <2>3. pc[r] \in DownloadSteps /\ pc[r] \in OtherSteps /\ pc[r] # "idle"
    BY <1>3, <2>1, <2>2 DEF DownloadSteps, OtherSteps
  <2>4. UNCHANGED held /\ req'[r] = req[r] /\ signer'[r] = signer[r]
    BY <2>1, <2>3, AnswerKeepsHeld, DownloadStays, DownloadsAreOfLinks DEF Downloading
  <2>5. /\ req[r].file \in FileId
        /\ files[req[r].file] = None => Deleted(req[r].file)
    BY <2>3, DownloadsAreOfLinks
  <2>6. ~HasBlob(req[r].file) => files[req[r].file] = None
    BY <2>5 DEF HasBlob, BlobsInv, RowHasBlob
  <2>7. resp'[r] \in {"FILE_NOT_FOUND", "BLOB_MISSING"} => Deleted(req[r].file)
    BY <2>2, <2>5, <2>6
  <2>8. resp'[r] = "UNKNOWN_LINK" => Deleted(req[r].file) \/ ~signer[r].url.signature.lower
    BY <2>2 DEF RejectionHasCause
  <2>9. PICK l : l = held[r]
    OBVIOUS
  <2>10. resp'[r] = "LINK_REVOKED" => \E q \in RevokesOf(l) : RevokedBy(q)
    BY <2>2, <2>9 DEF RejectionHasCause
  <2>11. resp'[r] = "LINK_REVOKED" =>
           \E q \in Request : /\ req'[q] # None /\ req'[q].op = "revoke" /\ req'[q].arg = l.id
                              /\ req'[q].file = l.file /\ RevokedBy(q)'
    BY <2>10, CauseStays
  <2> QED BY <1>1, <2>1, <2>4, <2>7, <2>8, <2>9, <2>11
<1> QED BY <1>2, <1>3

LEMMA RefusedInvHolds ==
  ASSUME AcksArrive, DisksAnswer
  PROVE  ApiSpec => []RefusedInv
<1>1. ApiInit => RevokedHasCause /\ RejectionHasCause /\ RefusalHasCause
  <2> SUFFICES ASSUME ApiInit PROVE RevokedHasCause /\ RejectionHasCause /\ RefusalHasCause
    OBVIOUS
  <2>1. \A r \in Request : pc[r] = "idle" /\ req[r] = None
    BY DEF ApiInit, Init, FlowInit
  <2>2. \A l \in links : ~l.revoked
    BY DEF ApiInit, Init, StoresInit
  <2> QED BY <2>1, <2>2 DEF RevokedHasCause, RejectionHasCause, RefusalHasCause
<1>2. KeptInv' /\ BlobsInv' /\ RefusedInv /\ [ApiNext]_apiVars => RefusedInv'
  <2> SUFFICES ASSUME KeptInv', BlobsInv', RefusedInv, [ApiNext]_apiVars PROVE RefusedInv'
    OBVIOUS
  <2>1. CASE Still
    BY <2>1 DEF RefusedInv, RevokedHasCause, RejectionHasCause, RefusalHasCause, RevokesOf, RevokedBy,
       Deleted, Still, stores, flow
  <2> QED BY <2>1, ApiNextCases, RevokedHasCauseStays, RejectionHasCauseStays,
             RefusalHasCauseStays DEF RefusedInv
<1>3. InsertsAreNotRepeated
  BY DEF AcksArrive, InsertsAreNotRepeated
<1> QED BY <1>1, <1>2, <1>3, KeptInvHolds, BlobsInvHolds, PTL DEF ApiSpec, RefusedInv

\* The holder of a good URL is refused only when somebody caused it: nothing is
\* missing before its deletion is in the trail, and nothing is revoked that no
\* revoke request named; only who spells the signature otherwise passes the
\* signer and is unknown to the table.
THEOREM RefusalsHaveCause ==
  ASSUME AcksArrive, DisksAnswer
  PROVE  ApiSpec => []RefusalHasCause
<1>1. RefusedInv => RefusalHasCause
  BY DEF RefusedInv
<1> QED BY <1>1, RefusedInvHolds, PTL

----------------------------------------------------------------------------
(* Why signing fails.                                                      *)

\* What keeps a link of r's file and expiry from being inserted.
Conflict(r) ==
  \/ Deleted(req[r].file)
  \/ \E e \in audit : /\ e.type = "signed_link_generated" /\ e.id[1] # r
                      /\ e.file = req[r].file /\ e.exp = held[r].exp
  \/ \E q \in Request \ {r} : /\ req[q] # None /\ req[q].op = "sign"
                             /\ held[q] # None /\ held[q].file = req[r].file
                             /\ held[q].exp = held[r].exp

\* The links that are there from the start have their events.
StoredAreGenerated ==
  \A l \in links : l.id \in StoredLink =>
    \E e \in audit : /\ e.type = "signed_link_generated" /\ e.id[1] = l.id
                     /\ e.file = l.file /\ e.exp = l.exp

\* An id is drawn once, and its link inserted once.
InsertsAreFresh ==
  \A r \in Request : pc[r] = "sign.insert" =>
    /\ \A l \in links : l.id # r
    /\ files[req[r].file] = None => Deleted(req[r].file)

ConflictInv ==
  /\ KeptInv
  /\ StoredAreGenerated
  /\ InsertsAreFresh
  /\ SignFailsOnConflict

\* A sign request that drew a link keeps it.
LEMMA ConflictStays ==
  ASSUME ApiTypeInv, NEW r \in Request, ApiStep(r), NEW s \in Request, Conflict(s),
         req'[s] = req[s], held'[s] = held[s]
  PROVE  Conflict(s)'
<1>1. audit \subseteq audit'
  BY ApiFrames DEF EventFrame
<1>2. ASSUME NEW q \in Request, req[q] # None, req[q].op = "sign", held[q] # None
      PROVE  req'[q] = req[q] /\ held'[q] = held[q]
  <2>1. pc[q] \in {"sign.insert", "sign.audit", "done"}
    <3>1. pc[q] \in Step \cup {"idle", "done"} /\ Shape(q) /\ ApiShape(q)
      BY DEF ApiTypeInv, TypeInv, TypeOK, FlowTypeOK
    <3>2. pc[q] # "idle"
      BY <1>2 DEF ApiTypeInv, Unanswered
    <3> QED BY <1>2, <3>1, <3>2
        DEF Step, DatabaseStep, StorageStep, Shape, ShapeAt, ApiShape, ApiShapeAt,
            UploadSteps, DeleteSteps, RenameSteps, SignSteps, RevokeSteps, DownloadSteps,
            HistorySteps, ReadSteps
  <2> QED BY <1>2, <2>1, SignerHolds
<1> QED BY <1>1, <1>2 DEF Conflict, Deleted

LEMMA StoredAreGeneratedStays ==
  ASSUME ConflictInv, NEW r \in Request, ApiStep(r)
  PROVE  StoredAreGenerated'
<1> USE DEF ConflictInv, KeptInv, GivenInv, LinkInv, ApiOwnerInv
<1> SUFFICES ASSUME NEW l \in links', l.id \in StoredLink
             PROVE  \E e \in audit' : /\ e.type = "signed_link_generated" /\ e.id[1] = l.id
                                      /\ e.file = l.file /\ e.exp = l.exp
  BY DEF StoredAreGenerated
<1>1. audit \subseteq audit'
  BY ApiFrames DEF EventFrame
<1>2. ~(pc[r] = "sign.insert" /\ l = held[r])
  BY HeldLink, IdsAreDistinct
<1>3. PICK k \in links : SameLink(k, l)
  BY <1>2, ApiLinksFrame, LinksComeAndGo
<1> QED BY <1>1, <1>3 DEF StoredAreGenerated, SameLink

LEMMA InsertsAreFreshStays ==
  ASSUME AcksArrive, ConflictInv, NEW r \in Request, ApiStep(r)
  PROVE  InsertsAreFresh'
<1> USE DEF ConflictInv, KeptInv, GivenInv, LinkInv, ApiOwnerInv
<1> SUFFICES ASSUME NEW s \in Request, pc'[s] = "sign.insert"
             PROVE  /\ \A l \in links' : l.id # s
                    /\ files'[req'[s].file] = None => Deleted(req[s].file)' /\ req'[s] = req[s]
  BY DEF InsertsAreFresh, Deleted
<1>1. FlowFrame(r) /\ RowFrame(r) /\ EventFrame(r)
  BY ApiFrames
<1>2. \/ pc[s] = "sign.insert"
      \/ s = r /\ pc[r] = "sign.find" /\ Owned(r) /\ OtherStep(r)
  <2>1. CASE s # r
    BY <2>1, OthersStay
  <2>2. CASE s = r
    BY <2>2, WayToStep DEF OtherSteps, SignSteps, Arrivals, OtherMove, Went, Ended, Failed
  <2> QED BY <2>1, <2>2
<1>3. req'[s] = req[s] /\ req[s].file \in FileId
  <2>1. Shape(s)
    BY DEF ApiTypeInv, TypeInv
  <2> QED BY <1>1, <1>2, <2>1 DEF FlowFrame, Others, Shape, ShapeAt, Command
<1>4. \A l \in links : l.id # s
  BY <1>2 DEF InsertsAreFresh, LinksAreSigned
<1>5. ASSUME NEW l \in links', l.id = s PROVE FALSE
  <2>1. ~\E k \in links : SameLink(k, l)
    BY <1>4, <1>5 DEF SameLink
  <2>2. pc[r] = "sign.insert" /\ l = held[r]
    BY <2>1, ApiLinksFrame, LinksComeAndGo
  <2>3. s = r
    BY <1>5, <2>2, HeldLink
  <2>4. FlowTypeOK /\ ListedTypeOK /\ pc[r] \in OtherSteps
    BY <2>2 DEF ApiTypeInv, TypeInv, TypeOK, OtherSteps, SignSteps
  <2>5. links' # links
    BY <1>4, <1>5
  <2>6. OtherStep(r)
    BY <2>4, <2>5, ApiCases, FaultsElsewhere, ReceiveOtherFrame, OtherStepsAreNotFileSteps
    DEF stores
  <2>7. SignFind(r) \/ ((SignInsert(r) \/ SignAudit(r)) /\ UNCHANGED signer)
    BY <2>2, <2>4, <2>6, ReadEffect, RevokeEffect, DownloadEffect, HistoryEffect
    DEF OtherStep, LinkStep, ReadSteps, RevokeSteps, DownloadSteps, HistorySteps
  <2>8. Acked(r, Went(r, "sign.audit")) \/ links' = links
    BY <2>2, <2>4, <2>7, SignEffect
  <2> QED BY <2>3, <2>5, <2>8 DEF AcksArrive, Acked, Went
<1>6. ASSUME files'[req[s].file] = None PROVE Deleted(req[s].file)'
  <2>1. CASE files[req[s].file] = None
    <3>1. Deleted(req[s].file)
      BY <1>2, <2>1 DEF InsertsAreFresh, Owned
    <3> QED BY <1>1, <1>3, <3>1 DEF EventFrame, Deleted
  <2>2. CASE files[req[s].file] # None
    <3>1. pc[r] = "delete.drop" /\ req[r].file = req[s].file
      <4>1. pc[r] = "rename.update" =>
              [user |-> files[req[s].file].user, name |-> req[r].arg] \in Row
        <5>1. Shape(r) /\ files[req[s].file] \in Row
          BY <1>3, <2>2 DEF ApiTypeInv, TypeInv, TypeOK, StoresTypeOK
        <5> QED BY <5>1 DEF Shape, ShapeAt, Row
      <4> QED BY <1>1, <1>3, <1>6, <2>2, <4>1, NoneIsNoValue DEF RowFrame
    <3>2. Deleted(req[s].file)
      BY <3>1 DEF DeletesAreRecorded, DeletionRecorded, Deleted
    <3> QED BY <1>1, <1>3, <3>2 DEF EventFrame, Deleted
  <2> QED BY <2>1, <2>2
<1> QED BY <1>3, <1>5, <1>6

\* An attempt fails of itself only by a fault of the store it calls.
LEMMA DatabaseFails ==
  ASSUME ApiTypeInv, NEW r \in Request, FileNext(r), pc[r] \in OtherSteps,
         pc'[r] = "done", resp'[r] = "database"
  PROVE  "database" \in Faults
<1>1. pc[r] # "idle" /\ pc[r] \notin UploadSteps \cup DeleteSteps \cup RenameSteps
  BY OtherStepsAreNotFileSteps
<1>2. TypeInv /\ FlowTypeOK
  BY DEF ApiTypeInv, TypeInv, TypeOK
<1>3. Fault(r) \/ Crash(r)
  BY <1>1, <1>2, ReceiveEffect, UploadEffect, DeleteEffect, RenameEffect DEF FileNext, FileStep
<1>4. CASE Crash(r)
  BY <1>2, <1>4, ControlApplied DEF Crash, Ended
<1>5. CASE Fault(r) /\ pc[r] \in StorageStep
  <2>1. pc[r] # "upload.insert" /\ resp[r] = "none"
    BY <1>1, <1>5 DEF UploadSteps, ApiTypeInv, Unanswered, StorageStep
  <2>2. Answer(r, "BLOB_MISSING") \/ AttemptFails(r)
    BY <1>5 DEF Fault
  <2>3. Answer(r, "BLOB_MISSING") => resp'[r] = "BLOB_MISSING"
    BY <1>2 DEF Answer, FlowTypeOK
  <2>4. AttemptFails(r) => resp'[r] \in {"none", "storage"}
    BY <1>2, <1>5, <2>1 DEF AttemptFails, Retry, Throw, Answer, Layer, FlowTypeOK
  <2> QED BY <2>2, <2>3, <2>4
<1> QED BY <1>3, <1>4, <1>5 DEF Fault

LEMMA SignFailsOnConflictStays ==
  ASSUME AcksArrive, "database" \notin Faults, ConflictInv, NEW r \in Request, ApiStep(r)
  PROVE  SignFailsOnConflict'
<1> USE DEF ConflictInv, KeptInv, GivenInv, LinkInv, ApiOwnerInv
<1> SUFFICES ASSUME NEW s \in Request, Answered(s, "sign", "database")' PROVE Conflict(s)'
  BY DEF SignFailsOnConflict, Conflict
<1>1. CASE pc[s] = "done"
  <2>1. resp'[s] = resp[s] /\ req'[s] = req[s] /\ held'[s] = held[s]
    BY <1>1, DoneStays
  <2>2. Conflict(s)
    BY <2>1 DEF SignFailsOnConflict, Conflict, Answered
  <2> QED BY <2>1, <2>2, ConflictStays
<1>2. CASE pc[s] # "done"
  <2>1. s = r /\ pc'[r] = "done" /\ resp'[r] = "database" /\ req'[r].op = "sign"
    BY <1>2, ApiFrames, OthersStay DEF Answered, FlowFrame, ApiTypeInv, Unanswered
  <2>2. ~FileNext(r)
    <3> SUFFICES ASSUME FileNext(r) PROVE FALSE
      OBVIOUS
    <3>1. FlowFrame(r) /\ pc[r] \in Step \cup {"idle", "done"} /\ Shape(r) /\ ApiShape(r)
      BY ApiFrames DEF ApiTypeInv, TypeInv, TypeOK, FlowTypeOK
    <3>2. pc[r] # "idle"
      BY <2>1, ReceiveEffect, UploadEffect, DeleteEffect, RenameEffect, FailureEffect
      DEF FileNext, FileStep, ApiTypeInv, UploadSteps, DeleteSteps, RenameSteps, Step,
          DatabaseStep, StorageStep
    <3>3. pc[r] \in OtherSteps
      BY <1>2, <2>1, <3>1, <3>2
      DEF FlowFrame, Step, DatabaseStep, StorageStep, Shape, ShapeAt, OtherSteps,
          UploadSteps, DeleteSteps, RenameSteps, SignSteps, RevokeSteps, DownloadSteps,
          HistorySteps, ReadSteps
    <3> QED BY <2>1, <3>3, DatabaseFails
  <2>3. OtherStep(r) /\ OtherAnswer(r) /\ UNCHANGED req /\ pc[r] \in OtherSteps
    BY <2>1, <2>2, ApiCases, ReceiveOtherFrame, OtherStepFrame
  <2>4. pc[r] = "sign.insert" /\ ~CanInsertLink(held[r])
    <3>1. ApiShape(r)
      BY DEF ApiTypeInv
    <3> QED BY <2>1, <2>3, <3>1
        DEF OtherAnswer, AcksArrive, ApiShape, ApiShapeAt, SignSteps, RevokeSteps, DownloadSteps,
            HistorySteps, ReadSteps
  <2>5. UNCHANGED held
    BY <2>1, <2>3, AnswerKeepsHeld
  <2>6. held[r].id = r /\ held[r].file = req[r].file
    BY <2>4, HeldLink
  <2>7. Conflict(r)
    <3>1. CASE files[req[r].file] = None
      BY <2>4, <3>1 DEF InsertsAreFresh, Conflict
    <3>2. CASE files[req[r].file] # None
      <4>1. PICK l \in links : l.id = r \/ (l.file = req[r].file /\ l.exp = held[r].exp)
        BY <2>4, <2>6, <3>2 DEF CanInsertLink
      <4>2. l.id # r /\ l.id \in LinkId
        BY <2>4 DEF InsertsAreFresh, ApiTypeInv, TypeInv, TypeOK, StoresTypeOK, Link
      <4>3. CASE l.id \in StoredLink
        BY <4>1, <4>2, <4>3 DEF StoredAreGenerated, Conflict
      <4>4. CASE l.id \in Request
        <5>1. req[l.id].op = "sign" /\ held[l.id] # None /\ SameLink(l, held[l.id])
          BY <4>4 DEF LinksAreSigned
        <5>2. req[l.id] # None
          <6>1. Shape(l.id) /\ pc[l.id] # "idle"
            BY <4>4 DEF LinksAreSigned, ApiTypeInv, TypeInv
          <6> QED BY <6>1, NoneIsNoCommand DEF Shape, ShapeAt
        <5> QED BY <4>1, <4>2, <4>4, <5>1, <5>2 DEF Conflict, SameLink
      <4> QED BY <4>2, <4>3, <4>4 DEF LinkId
    <3> QED BY <3>1, <3>2
  <2> QED BY <2>1, <2>3, <2>5, <2>7, ConflictStays
<1> QED BY <1>1, <1>2

\* With a database that works, signing fails only because the file is being
\* deleted, or because another request signed the same expiry for it.
THEOREM SigningFailsOnConflict ==
  ASSUME AcksArrive, "database" \notin Faults
  PROVE  ApiSpec => []SignFailsOnConflict
<1>1. ApiInit => StoredAreGenerated /\ InsertsAreFresh /\ SignFailsOnConflict
  <2> SUFFICES ASSUME ApiInit PROVE StoredAreGenerated /\ InsertsAreFresh /\ SignFailsOnConflict
    OBVIOUS
  <2>1. \A r \in Request : pc[r] = "idle" /\ resp[r] = "none"
    BY DEF ApiInit, Init, FlowInit
  <2>2. ASSUME NEW l \in links
        PROVE  \E e \in audit : /\ e.type = "signed_link_generated" /\ e.id[1] = l.id
                                /\ e.file = l.file /\ e.exp = l.exp
    <3>1. PICK at \in [StoredLink -> StoredFile] :
            /\ links = {[id |-> k, file |-> at[k], exp |-> StoredExp,
                         user |-> files[at[k]].user, revoked |-> FALSE] : k \in StoredLink}
            /\ audit = {[id |-> <<k, 1>>, file |-> at[k], user |-> files[at[k]].user,
                         type |-> "signed_link_generated", name |-> None, was |-> None,
                         link |-> None, exp |-> StoredExp] : k \in StoredLink}
      BY DEF ApiInit, Init, StoresInit
    <3>2. PICK k \in StoredLink : l.id = k /\ l.file = at[k] /\ l.exp = StoredExp
      BY <3>1
    <3>3. [id |-> <<k, 1>>, file |-> at[k], user |-> files[at[k]].user,
           type |-> "signed_link_generated", name |-> None, was |-> None,
           link |-> None, exp |-> StoredExp] \in audit
      BY <3>1
    <3> QED BY <3>2, <3>3
  <2> QED BY <2>1, <2>2 DEF StoredAreGenerated, InsertsAreFresh, SignFailsOnConflict, Answered
<1>2. KeptInv' /\ ConflictInv /\ [ApiNext]_apiVars => ConflictInv'
  <2> SUFFICES ASSUME KeptInv', ConflictInv, [ApiNext]_apiVars PROVE ConflictInv'
    OBVIOUS
  <2>1. CASE Still
    BY <2>1 DEF ConflictInv, StoredAreGenerated, InsertsAreFresh, SignFailsOnConflict, Answered,
       Deleted, Still, stores, flow
  <2> QED BY <2>1, ApiNextCases, StoredAreGeneratedStays, InsertsAreFreshStays,
             SignFailsOnConflictStays DEF ConflictInv
<1>3. ConflictInv => SignFailsOnConflict
  BY DEF ConflictInv
<1> QED BY <1>1, <1>2, <1>3, KeptInvHolds, PTL DEF ApiSpec, ConflictInv
=============================================================================
