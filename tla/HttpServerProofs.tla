-------------------------- MODULE HttpServerProofs --------------------------
(***************************************************************************)
(* Proofs about HttpServer, for any number of processes, batches and       *)
(* requests: the server adds nothing to what FileServices allows, so the   *)
(* theorems about FileServices hold of every process that serves it.       *)
(***************************************************************************)
EXTENDS HttpServer, FileAuditProofs

LEMMA ItemsAreRequests ==
  ASSUME NEW b \in Batch, NEW i \in 1 .. MaxBatchSize
  PROVE  ItemsOf[b][i] \in Request
<1>1. ItemsOf \in [Batch -> [1 .. MaxBatchSize -> Request]]
  BY ItemsAreTheBatchs
<1>2. ItemsOf[b] \in [1 .. MaxBatchSize -> Request]
  BY <1>1, Zenon
<1> QED BY <1>2, Zenon

\* A batch that is being served has passed assertBatchSize, so all the items
\* that its loop comes to are runs of a service.
BatchInv ==
  /\ BatchTypeOK
  /\ \A b \in Batch : Serving(b) => order[b].size \in 1 .. MaxBatchSize

LEMMA InitBatchInv == ServerInit => BatchInv
<1> QED BY DEF ServerInit, BatchInit, BatchInv, BatchTypeOK, Serving

\* Only three actions touch what a batch asks for and what it is answered.
LEMMA ServerStepOfBatches ==
  ASSUME ServerNext
  PROVE  \/ UNCHANGED batchVars
         \/ \E b \in Batch : ReceiveBatch(b) \/ AnswerBatch(b) \/ LoseBatch(b)
<1>1. ASSUME NEW p \in Process, Start(p) \/ Signal(p) \/ PoolEnded(p) \/ Die(p)
      PROVE  UNCHANGED batchVars
  BY <1>1 DEF Start, Signal, PoolEnded, Die
<1>2. ASSUME NEW p \in Process, Lose(p)
      PROVE  UNCHANGED batchVars \/ \E b \in Batch : LoseBatch(b)
  BY <1>2 DEF Lose, BatchesAt
<1>3. ASSUME NEW p \in Process, NEW r \in Request, ArriveSingle(p, r)
      PROVE  UNCHANGED batchVars
  BY <1>3 DEF ArriveSingle
<1>4. ASSUME NEW p \in Process, NEW b \in Batch, ArriveBatch(p, b)
      PROVE  ReceiveBatch(b)
  BY <1>4 DEF ArriveBatch
<1>5. ASSUME NEW r \in Request, Serve(r)
      PROVE  UNCHANGED batchVars
  BY <1>5 DEF Serve, ServeStep, PoolRefuses
<1>6. ASSUME NEW b \in Batch, ServeBatch(b)
      PROVE  UNCHANGED batchVars \/ AnswerBatch(b)
  BY <1>6 DEF ServeBatch, BatchStep, BeginItem
<1> QED BY <1>1, <1>2, <1>3, <1>4, <1>5, <1>6 DEF ServerNext

LEMMA NextKeepsBatchInv == BatchInv /\ [ServerNext]_serverVars => BatchInv'
<1> SUFFICES ASSUME BatchInv, [ServerNext]_serverVars PROVE BatchInv'
  OBVIOUS
<1> USE DEF BatchInv, BatchTypeOK, Serving
<1>1. CASE UNCHANGED batchVars
  BY <1>1 DEF batchVars
<1>2. CASE \E b \in Batch : ReceiveBatch(b)
  BY <1>2 DEF ReceiveBatch
<1>3. CASE \E b \in Batch : AnswerBatch(b) \/ LoseBatch(b)
  BY <1>3 DEF AnswerBatch, LoseBatch
<1> QED BY <1>1, <1>2, <1>3, ServerStepOfBatches DEF serverVars

LEMMA BatchInvHolds == ServerSpec => []BatchInv
<1> QED BY InitBatchInv, NextKeepsBatchInv, PTL DEF ServerSpec

----------------------------------------------------------------------------
(* Every step of the server is a step of one request, or no step of any.   *)

LEMMA BeginItemIsReceive ==
  ASSUME BatchInv, NEW b \in Batch, BeginItem(b)
  PROVE  Next
<1>1. PICK i \in 1 .. order[b].size : ReceiveItem(b, ItemsOf[b][i])
  BY DEF BeginItem
<1>2. i \in 1 .. MaxBatchSize
  BY BatchSizeIsPositive DEF BeginItem, BatchInv
<1>3. ItemsOf[b][i] \in Request
  BY <1>2, ItemsAreRequests
<1> QED BY <1>1, <1>3 DEF ReceiveItem, ReceiveFileOp, FileNext, Next

\* The statement that an ending pool refuses is one that failed for good.
LEMMA RefusalIsFault ==
  ASSUME NEW r \in Request, PoolRefuses(r)
  PROVE  Fault(r)
<1>1. "database" \in Faults /\ pc[r] \in DatabaseStep
  BY ServerFaults DEF PoolRefuses
<1>2. pc[r] # "download.exists"
  BY <1>1 DEF DatabaseStep
<1> QED BY <1>1, <1>2 DEF PoolRefuses, Fault, AttemptFails

LEMMA NextImplementsFileServices ==
  BatchInv /\ [ServerNext]_serverVars => [Next]_vars
<1> SUFFICES ASSUME BatchInv, [ServerNext]_serverVars PROVE [Next]_vars
  OBVIOUS
<1>1. ASSUME NEW p \in Process, Start(p) \/ Signal(p) \/ PoolEnded(p) \/ Die(p)
      PROVE  UNCHANGED vars
  BY <1>1 DEF Start, Signal, PoolEnded, Die
<1>2. ASSUME NEW p \in Process, Lose(p)
      PROVE  [Next]_vars
  <2>1. ASSUME NEW r \in RequestsAt(p), Crash(r)
        PROVE  Next
    BY <2>1 DEF RequestsAt, FileNext, Next
  <2>2. ASSUME NEW b \in BatchesAt(p), LoseBatch(b)
        PROVE  UNCHANGED vars
    BY <2>2 DEF LoseBatch
  <2> QED BY <1>2, <2>1, <2>2 DEF Lose
<1>3. ASSUME NEW p \in Process, NEW r \in Request, ArriveSingle(p, r)
      PROVE  Next
  BY <1>3 DEF ArriveSingle, FileNext, Next
<1>4. ASSUME NEW p \in Process, NEW b \in Batch, ArriveBatch(p, b)
      PROVE  UNCHANGED vars
  BY <1>4 DEF ArriveBatch, ReceiveBatch
<1>5. ASSUME NEW r \in Request, Serve(r)
      PROVE  Next
  <2>1. CASE PoolRefuses(r)
    BY <2>1, RefusalIsFault DEF FileNext, Next
  <2>2. CASE ServeStep(r)
    BY <2>2 DEF ServeStep, FileNext, Next
  <2> QED BY <1>5, <2>1, <2>2 DEF Serve
<1>6. ASSUME NEW b \in Batch, ServeBatch(b)
      PROVE  [Next]_vars
  BY <1>6, BeginItemIsReceive DEF ServeBatch, BatchStep, AnswerBatch
<1>7. CASE UNCHANGED serverVars
  BY <1>7 DEF serverVars
<1> QED BY <1>1, <1>2, <1>3, <1>4, <1>5, <1>6, <1>7 DEF ServerNext

\* The refinement: batches, closing pools, exits and restarts never do to a
\* store or a request what the services by themselves could not do.
THEOREM ServerImplementsFileServices == ServerSpec => ServesTheFileServices
<1>1. ServerInit => Init
  BY DEF ServerInit
<1> QED BY <1>1, BatchInvHolds, NextImplementsFileServices, PTL
        DEF ServerSpec, ServesTheFileServices, Spec

\* Every row of the shared database has its bytes, however many processes
\* serve, whenever they are stopped and whatever batches they run, unless
\* acknowledgements get lost.
THEOREM ServedRowsHaveBlobs ==
  ASSUME "unacked" \notin Faults
  PROVE  ServerSpec => []RowHasBlob
<1> QED BY ServerImplementsFileServices, RowsHaveBlobs, PTL DEF ServesTheFileServices

----------------------------------------------------------------------------
(* Type correctness of the server. *)

\* FileServices moves nothing but the request that takes the step.
LEMMA FileStepMovesOne ==
  ASSUME FlowTypeOK, NEW r \in Request, FileNext(r), NEW s \in Request, s # r
  PROVE  pc'[s] = pc[s]
<1>1. ASSUME NEW step, Goto(r, step) PROVE pc'[s] = pc[s]
  BY <1>1 DEF Goto, FlowTypeOK
<1>2. ASSUME NEW code, Answer(r, code) PROVE pc'[s] = pc[s]
  BY <1>2 DEF Answer, FlowTypeOK
<1>3. AttemptFails(r) => pc'[s] = pc[s]
  BY <1>1, <1>2 DEF AttemptFails, Retry, Throw
<1>4. CASE ReceiveFileOp(r)
  BY <1>1, <1>2, <1>4 DEF ReceiveFileOp, ReceiveUpload, ReceiveDelete, ReceiveRename, Receive
<1>5. CASE UploadStep(r)
  BY <1>1, <1>2, <1>3, <1>5
  DEF UploadStep, UploadSave, UploadSaveTorn, UploadInsert, UploadUndo, Unacked, AttemptFails
<1>6. CASE DeleteStep(r)
  BY <1>1, <1>2, <1>3, <1>6
  DEF DeleteStep, DeleteFind, DeleteAudit, DeleteDrop, DeleteUnlink, GetOwned, Refuse, Unacked
<1>7. CASE RenameStep(r)
  BY <1>1, <1>2, <1>3, <1>7 DEF RenameStep, RenameFind, RenameUpdate, RenameAudit, Refuse, Unacked
<1>8. CASE Fault(r) \/ Crash(r)
  BY <1>2, <1>3, <1>8 DEF Fault, Crash
<1> QED BY <1>4, <1>5, <1>6, <1>7, <1>8 DEF FileNext, FileStep

\* An active request is not one that has yet to be received.
LEMMA WhoSteps ==
  ASSUME NEW r \in Request
  PROVE  /\ ReceiveFileOp(r) => pc[r] = "idle"
         /\ FileStep(r) \/ Fault(r) \/ Crash(r) => Active(r)
<1>1. ReceiveFileOp(r) => pc[r] = "idle"
  BY DEF ReceiveFileOp, ReceiveUpload, ReceiveDelete, ReceiveRename, Receive
<1>2. FileStep(r) => Active(r)
  BY DEF FileStep, UploadStep, UploadSave, UploadSaveTorn, UploadInsert, UploadUndo,
     DeleteStep, DeleteFind, DeleteAudit, DeleteDrop, DeleteUnlink,
     RenameStep, RenameFind, RenameUpdate, RenameAudit, Active
<1>3. Fault(r) \/ Crash(r) => Active(r)
  BY DEF Fault, Crash, Active, DatabaseStep, StorageStep
<1> QED BY <1>1, <1>2, <1>3

LEMMA BatchOfItem ==
  ASSUME NEW b \in Batch, NEW i \in 1 .. MaxBatchSize
  PROVE  ItemsOf[b][i] \in Items /\ BatchOf[ItemsOf[b][i]] = b
<1> DEFINE r == ItemsOf[b][i]
           Has(c) == \E j \in 1 .. MaxBatchSize : ItemsOf[c][j] = r
<1>1. r \in Items
  BY DEF Items
<1>2. Has(b)
  OBVIOUS
<1>3. \A c \in Batch : Has(c) => c = b
  BY ItemsAreTheBatchs, Zenon
<1>4. BatchOf[r] = CHOOSE c \in Batch : Has(c)
  BY <1>1 DEF BatchOf
<1> QED BY <1>1, <1>2, <1>3, <1>4

\* A client is checked out for a request that is under way, at a process that
\* is not down; and a batch that has not arrived has no items under way, so
\* none of them changes its home with a client in hand.
PoolInv ==
  /\ phase \in [Process -> Phase]
  /\ home \in [Single \cup Batch -> Process \cup {None}]
  /\ \A r \in checkedOut : r \in Request /\ Active(r)
  /\ \A r \in checkedOut, p \in Process : HomeOf(r) = p => phase[p] # "down"
  /\ \A b \in Batch : order[b] = None =>
       \A i \in 1 .. MaxBatchSize : pc[ItemsOf[b][i]] = "idle"

LEMMA InitPoolInv == ServerInit => PoolInv
<1> SUFFICES ASSUME ServerInit PROVE PoolInv
  OBVIOUS
<1>1. phase \in [Process -> Phase] /\ home \in [Single \cup Batch -> Process \cup {None}]
  BY DEF ServerInit, Phase
<1>2. ASSUME NEW b \in Batch, NEW i \in 1 .. MaxBatchSize
      PROVE  pc[ItemsOf[b][i]] = "idle"
  BY ItemsAreRequests DEF ServerInit, Init, FlowInit
<1> QED BY <1>1, <1>2 DEF PoolInv, ServerInit

LEMMA LifecycleKeepsPoolInv ==
  ASSUME PoolInv, NEW p \in Process, Start(p) \/ Signal(p) \/ PoolEnded(p) \/ Die(p)
  PROVE  PoolInv'
<1>1. /\ home' = home /\ pc' = pc /\ order' = order
      /\ phase' \in [Process -> Phase]
  BY DEF Start, Signal, PoolEnded, Die, Become, PoolInv, Phase, vars, flow, batchVars
<1>2. \A r : HomeOf(r)' = HomeOf(r)
  BY <1>1 DEF HomeOf
<1>3. \A r \in checkedOut' : r \in Request /\ Active(r)
  BY DEF Start, Signal, PoolEnded, Die, PoolInv, RequestsAt
<1>4. ASSUME NEW r \in checkedOut', NEW q \in Process, HomeOf(r) = q
      PROVE  phase'[q] # "down"
  <2>1. CASE Start(p)
    BY <1>4, <2>1 DEF Start, Become, PoolInv
  <2>2. CASE Signal(p)
    BY <1>4, <2>2 DEF Signal, Become, PoolInv, RequestsAt
  <2>3. CASE PoolEnded(p)
    BY <1>4, <2>3 DEF PoolEnded, Become, PoolInv, ClientsOf
  <2>4. CASE Die(p)
    BY <1>4, <2>4 DEF Die, Become, PoolInv, ClientsOf
  <2> QED BY <2>1, <2>2, <2>3, <2>4
<1> QED BY <1>1, <1>2, <1>3, <1>4 DEF PoolInv, Active

\* A request that holds no client afterwards takes a step where it is.
LEMMA StepKeepsPoolInv ==
  ASSUME PoolInv, FlowTypeOK, NEW r \in Request, FileNext(r),
         UNCHANGED <<phase, home>>, order' = order,
         checkedOut' = checkedOut \ {r},
         \A b \in Batch, i \in 1 .. MaxBatchSize :
           order[b] = None => ItemsOf[b][i] # r
  PROVE  PoolInv'
<1>1. \A s : HomeOf(s)' = HomeOf(s)
  BY DEF HomeOf
<1>2. ASSUME NEW s \in checkedOut'
      PROVE  s \in Request /\ Active(s)'
  BY FileStepMovesOne DEF PoolInv, Active
<1>3. ASSUME NEW b \in Batch, NEW i \in 1 .. MaxBatchSize, order[b] = None
      PROVE  pc'[ItemsOf[b][i]] = "idle"
  <2>1. ItemsOf[b][i] \in Request /\ ItemsOf[b][i] # r /\ pc[ItemsOf[b][i]] = "idle"
    BY <1>3, ItemsAreRequests DEF PoolInv
  <2> QED BY <2>1, FileStepMovesOne
<1>4. ASSUME NEW s \in checkedOut', NEW p \in Process, HomeOf(s) = p
      PROVE  phase'[p] # "down"
  BY <1>4 DEF PoolInv
<1> QED BY <1>1, <1>2, <1>3, <1>4 DEF PoolInv

\* Where a request is served does not depend on the home of another one.
LEMMA HomeOfOther ==
  ASSUME PoolInv, NEW p, NEW r \in Single, home' = [home EXCEPT ![r] = p],
         NEW s \in Request, s # r
  PROVE  HomeOf(s)' = HomeOf(s)
<1>1. CASE s \in Items
  <2>1. BatchOf[s] \in Batch
    BY <1>1, BatchOfItem DEF Items
  <2>2. BatchOf[s] # r
    BY <2>1, BatchesAreNoItems DEF Single
  <2> QED BY <1>1, <2>1, <2>2 DEF HomeOf, PoolInv
<1>2. CASE s \notin Items
  BY <1>2 DEF HomeOf, PoolInv, Single
<1> QED BY <1>1, <1>2

LEMMA ArriveSingleKeepsPoolInv ==
  ASSUME PoolInv, FlowTypeOK, NEW p \in Process, NEW r \in Request, ArriveSingle(p, r)
  PROVE  PoolInv'
<1>1. /\ phase' = phase /\ order' = order /\ checkedOut' = checkedOut
      /\ home' = [home EXCEPT ![r] = p] /\ r \in Single /\ FileNext(r)
  BY DEF ArriveSingle, batchVars, FileNext
<1>2. pc[r] = "idle" /\ r \notin checkedOut
  BY WhoSteps DEF ArriveSingle, PoolInv, Active
<1>3. ASSUME NEW s \in checkedOut
      PROVE  s \in Request /\ Active(s)' /\ HomeOf(s)' = HomeOf(s)
  <2>1. s \in Request /\ s # r /\ Active(s)
    BY <1>2 DEF PoolInv
  <2>2. Active(s)'
    BY <1>1, <2>1, FileStepMovesOne DEF Active
  <2> QED BY <1>1, <2>1, <2>2, HomeOfOther
<1>4. ASSUME NEW b \in Batch, NEW i \in 1 .. MaxBatchSize, order[b] = None
      PROVE  pc'[ItemsOf[b][i]] = "idle"
  <2>1. ItemsOf[b][i] \in Request /\ ItemsOf[b][i] # r /\ pc[ItemsOf[b][i]] = "idle"
    BY <1>1, <1>4, ItemsAreRequests, BatchOfItem DEF PoolInv, Single
  <2> QED BY <1>1, <2>1, FileStepMovesOne
<1>5. home' \in [Single \cup Batch -> Process \cup {None}]
  BY <1>1 DEF PoolInv
<1> QED BY <1>1, <1>3, <1>4, <1>5 DEF PoolInv

LEMMA ArriveBatchKeepsPoolInv ==
  ASSUME PoolInv, NEW p \in Process, NEW b \in Batch, ArriveBatch(p, b)
  PROVE  PoolInv'
<1>1. /\ phase' = phase /\ pc' = pc /\ checkedOut' = checkedOut
      /\ home' = [home EXCEPT ![b] = p] /\ order[b] = None
      /\ \E o \in Order : order' = [order EXCEPT ![b] = o]
  BY DEF ArriveBatch, ReceiveBatch, vars, flow
<1>2. ASSUME NEW s \in checkedOut
      PROVE  s \in Request /\ Active(s)' /\ HomeOf(s)' = HomeOf(s)
  <2>1. s \in Request /\ Active(s) /\ Active(s)'
    BY <1>1 DEF PoolInv, Active
  <2>2. CASE s \in Items
    <3>1. PICK c \in Batch, i \in 1 .. MaxBatchSize : s = ItemsOf[c][i]
      BY <2>2 DEF Items
    <3>2. c # b /\ BatchOf[s] = c
      BY <1>1, <2>1, <3>1, BatchOfItem DEF PoolInv, Active
    <3> QED BY <1>1, <2>1, <2>2, <3>2 DEF HomeOf, PoolInv
  <2>3. CASE s \notin Items
    <3>1. s # b
      BY <2>1, BatchesAreNoItems
    <3> QED BY <1>1, <2>1, <2>3, <3>1 DEF HomeOf, PoolInv, Single
  <2> QED BY <2>2, <2>3
<1>3. ASSUME NEW c \in Batch, order'[c] = None
      PROVE  order[c] = None
  BY <1>1, <1>3
<1>4. home' \in [Single \cup Batch -> Process \cup {None}]
  BY <1>1 DEF PoolInv
<1> QED BY <1>1, <1>2, <1>3, <1>4 DEF PoolInv

LEMMA ServeKeepsPoolInv ==
  ASSUME PoolInv, FlowTypeOK, NEW r \in Request, Serve(r)
  PROVE  PoolInv'
<1>1. FileNext(r) /\ Active(r)
  <2>1. CASE ServeStep(r)
    BY <2>1, WhoSteps DEF ServeStep, FileNext
  <2>2. CASE PoolRefuses(r)
    BY <2>2, RefusalIsFault, WhoSteps DEF FileNext
  <2> QED BY <2>1, <2>2 DEF Serve
<1>2. UNCHANGED <<phase, home>> /\ order' = order
  BY DEF Serve, ServeStep, PoolRefuses, batchVars
<1>3. checkedOut' = checkedOut \ {r}
  BY DEF Serve, ServeStep, PoolRefuses
<1>4. \A b \in Batch, i \in 1 .. MaxBatchSize : order[b] = None => ItemsOf[b][i] # r
  BY <1>1 DEF PoolInv, Active
<1> QED BY <1>1, <1>2, <1>3, <1>4, StepKeepsPoolInv

LEMMA ServeBatchKeepsPoolInv ==
  ASSUME PoolInv, BatchInv, FlowTypeOK, NEW b \in Batch, ServeBatch(b)
  PROVE  PoolInv'
<1>1. UNCHANGED <<phase, home, checkedOut>> /\ order' = order /\ order[b] # None
  BY DEF ServeBatch, BatchStep, BeginItem, AnswerBatch, batchVars, Serving
<1>2. CASE AnswerBatch(b)
  <2>1. UNCHANGED pc
    BY <1>2 DEF AnswerBatch, vars, flow
  <2> QED BY <1>1, <2>1 DEF PoolInv, Active, HomeOf
<1>3. CASE BeginItem(b)
  <2>1. PICK i \in 1 .. order[b].size : ReceiveItem(b, ItemsOf[b][i])
    BY <1>3 DEF BeginItem
  <2>2. i \in 1 .. MaxBatchSize
    BY <1>3, BatchSizeIsPositive DEF BeginItem, BatchInv
  <2> DEFINE r == ItemsOf[b][i]
  <2>3. r \in Request /\ ReceiveFileOp(r)
    BY <2>1, <2>2, ItemsAreRequests DEF ReceiveItem, ReceiveFileOp
  <2>4. checkedOut' = checkedOut \ {r}
    BY <1>1, <2>3, WhoSteps DEF PoolInv, Active
  <2>5. \A c \in Batch, j \in 1 .. MaxBatchSize : order[c] = None => ItemsOf[c][j] # r
    BY <1>1, <2>2, BatchOfItem
  <2> QED BY <1>1, <2>3, <2>4, <2>5, StepKeepsPoolInv DEF FileNext
<1> QED BY <1>2, <1>3 DEF ServeBatch, BatchStep

LEMMA LoseKeepsPoolInv ==
  ASSUME PoolInv, FlowTypeOK, NEW p \in Process, Lose(p)
  PROVE  PoolInv'
<1>1. UNCHANGED <<phase, home, checkedOut>> /\ phase[p] = "down" /\ order' = order
  BY DEF Lose, LoseBatch, batchVars
<1>2. CASE \E b \in BatchesAt(p) : LoseBatch(b)
  <2>1. UNCHANGED pc
    BY <1>2 DEF LoseBatch, vars, flow
  <2> QED BY <1>1, <2>1 DEF PoolInv, Active, HomeOf
<1>3. CASE \E r \in RequestsAt(p) : Crash(r)
  <2>1. PICK r \in Request : HomeOf(r) = p /\ Active(r) /\ Crash(r)
    BY <1>3 DEF RequestsAt
  <2>2. checkedOut' = checkedOut \ {r}
    BY <1>1, <2>1 DEF PoolInv
  <2>3. \A b \in Batch, i \in 1 .. MaxBatchSize : order[b] = None => ItemsOf[b][i] # r
    BY <2>1 DEF PoolInv, Active
  <2> QED BY <1>1, <2>1, <2>2, <2>3, StepKeepsPoolInv DEF FileNext
<1> QED BY <1>2, <1>3 DEF Lose

LEMMA NextKeepsPoolInv ==
  PoolInv /\ BatchInv /\ TypeInv /\ [ServerNext]_serverVars => PoolInv'
<1> SUFFICES ASSUME PoolInv, BatchInv, FlowTypeOK, [ServerNext]_serverVars PROVE PoolInv'
  BY DEF TypeInv, TypeOK
<1>1. CASE UNCHANGED serverVars
  BY <1>1 DEF serverVars, vars, flow, batchVars, PoolInv, Active, HomeOf
<1>2. CASE ServerNext
  <2>1. ASSUME NEW p \in Process, Start(p) \/ Signal(p) \/ PoolEnded(p) \/ Die(p) \/ Lose(p)
        PROVE  PoolInv'
    BY <2>1, LifecycleKeepsPoolInv, LoseKeepsPoolInv
  <2>2. ASSUME NEW p \in Process, NEW r \in Request, ArriveSingle(p, r)
        PROVE  PoolInv'
    BY <2>2, ArriveSingleKeepsPoolInv
  <2>3. ASSUME NEW p \in Process, NEW b \in Batch, ArriveBatch(p, b)
        PROVE  PoolInv'
    BY <2>3, ArriveBatchKeepsPoolInv
  <2>4. ASSUME NEW r \in Request, Serve(r)
        PROVE  PoolInv'
    BY <2>4, ServeKeepsPoolInv
  <2>5. ASSUME NEW b \in Batch, ServeBatch(b)
        PROVE  PoolInv'
    BY <2>5, ServeBatchKeepsPoolInv
  <2> QED BY <1>2, <2>1, <2>2, <2>3, <2>4, <2>5 DEF ServerNext
<1> QED BY <1>1, <1>2

\* Type correctness of the server: among the rest, nobody is ever waited for
\* by the pool of a process who is not a request under way.
THEOREM ServerTypeCorrect == ServerSpec => []ServerTypeOK
<1>1. ServerSpec => []TypeInv
  BY ServerImplementsFileServices, TypeInvHolds, PTL DEF ServesTheFileServices
<1>2. ServerSpec => []PoolInv
  BY <1>1, InitPoolInv, BatchInvHolds, NextKeepsPoolInv, PTL DEF ServerSpec
<1>3. TypeInv /\ BatchInv /\ PoolInv => ServerTypeOK
  BY DEF TypeInv, BatchInv, PoolInv, ServerTypeOK
<1> QED BY <1>1, <1>2, <1>3, BatchInvHolds, PTL

----------------------------------------------------------------------------
(* What a batch reports. *)

\* A batch is answered once it has arrived and passed assertBatchSize, its
\* items are requests for what it asks for, and "ok" means each of them.
AnswersFollowOrders ==
  \A b \in Batch : reply[b] \in {"ok", "partial"} =>
    order[b] # None /\ order[b].size \in 1 .. MaxBatchSize

ItemsFollowOrders ==
  \A b \in Batch, i \in 1 .. MaxBatchSize :
    pc[ItemsOf[b][i]] # "idle" => order[b] # None /\ req[ItemsOf[b][i]].op = order[b].op

OkMeansEveryItem ==
  \A b \in Batch : reply[b] = "ok" =>
    \A i \in 1 .. order[b].size : resp[ItemsOf[b][i]] = "ok"

ReportInv ==
  /\ BatchInv
  /\ AnswersFollowOrders
  /\ ItemsFollowOrders
  /\ OkMeansEveryItem

LEMMA InitReportInv == ServerInit => ReportInv
<1> SUFFICES ASSUME ServerInit PROVE ReportInv
  OBVIOUS
<1>1. BatchInv
  BY InitBatchInv
<1>2. \A b \in Batch : order[b] = None /\ reply[b] = "none"
  BY DEF ServerInit, BatchInit
<1>3. \A b \in Batch, i \in 1 .. MaxBatchSize : pc[ItemsOf[b][i]] = "idle"
  BY ItemsAreRequests DEF ServerInit, Init, FlowInit
<1> QED BY <1>1, <1>2, <1>3 DEF ReportInv, AnswersFollowOrders, ItemsFollowOrders,
           OkMeansEveryItem

\* The command of a request that has arrived, and the answer of one that is
\* done, stay what they are.
LEMMA RequestsGoOn ==
  ASSUME TypeInv, BatchInv, [ServerNext]_serverVars, NEW r \in Request
  PROVE  /\ pc[r] # "idle" => pc'[r] # "idle" /\ req'[r] = req[r]
         /\ pc[r] = "done" => resp'[r] = resp[r]
<1>1. [Next]_vars
  BY NextImplementsFileServices
<1>2. CASE UNCHANGED vars
  BY <1>2 DEF vars, flow
<1>3. CASE Next
  <2>1. PICK q \in Request : FileNext(q)
    BY <1>3 DEF Next
  <2>2. FlowFrame(q)
    BY <2>1, FileFlowFrame
  <2> QED BY <2>2 DEF FlowFrame, Others
<1> QED BY <1>1, <1>2, <1>3

\* The loop of a batch hands over requests for what the batch asks for.
LEMMA ItemFollowsOrder ==
  ASSUME TypeInv, NEW b, NEW r \in Request, ReceiveItem(b, r)
  PROVE  req'[r].op = order[b].op
<1>1. ASSUME NEW command, NEW valid, NEW first, Receive(r, command, valid, first)
      PROVE  req'[r] = command
  BY <1>1 DEF Receive, TypeInv, TypeOK, FlowTypeOK
<1>2. CASE ReceiveUpload(r) /\ order[b].op = "upload"
  <2>1. PICK user \in User, n \in Name \cup {None} :
          req'[r] = [op |-> "upload", user |-> user, file |-> r, arg |-> n, exp |-> 0]
    BY <1>1, <1>2 DEF ReceiveUpload
  <2> QED BY <1>2, <2>1
<1>3. CASE ReceiveDelete(r) /\ order[b].op = "delete"
  <2>1. PICK user \in User, f \in DrawnIds :
          req'[r] = [op |-> "delete", user |-> user, file |-> f, arg |-> None, exp |-> 0]
    BY <1>1, <1>3 DEF ReceiveDelete
  <2> QED BY <1>3, <2>1
<1> QED BY <1>2, <1>3 DEF ReceiveItem

\* Nothing but the loop of its batch begins an item.
LEMMA ItemsBegin ==
  ASSUME TypeInv, BatchInv, ServerNext, NEW b \in Batch, NEW i \in 1 .. MaxBatchSize,
         pc[ItemsOf[b][i]] = "idle", pc'[ItemsOf[b][i]] # "idle"
  PROVE  order[b] # None /\ order' = order /\ req'[ItemsOf[b][i]].op = order[b].op
<1> DEFINE r == ItemsOf[b][i]
<1>1. r \in Request /\ r \in Items
  BY ItemsAreRequests, BatchOfItem
<1>2. ~UNCHANGED pc
  OBVIOUS
<1>3. \A q \in Request : FileNext(q) => q = r
  BY <1>1, FileStepMovesOne DEF TypeInv, TypeOK
<1>4. PICK c \in Batch : ServeBatch(c)
  <2>1. ASSUME NEW p \in Process, Start(p) \/ Signal(p) \/ PoolEnded(p) \/ Die(p)
        PROVE  FALSE
    BY <1>2, <2>1 DEF Start, Signal, PoolEnded, Die, vars, flow
  <2>2. ASSUME NEW p \in Process, Lose(p)
        PROVE  FALSE
    <3>1. CASE \E q \in RequestsAt(p) : Crash(q)
      BY <1>1, <1>3, <3>1 DEF RequestsAt, FileNext, Active
    <3>2. CASE \E c \in BatchesAt(p) : LoseBatch(c)
      BY <1>2, <3>2 DEF LoseBatch, vars, flow
    <3> QED BY <2>2, <3>1, <3>2 DEF Lose
  <2>3. ASSUME NEW p \in Process, NEW q \in Request, ArriveSingle(p, q)
        PROVE  FALSE
    BY <1>1, <1>3, <2>3 DEF ArriveSingle, FileNext, Single
  <2>4. ASSUME NEW p \in Process, NEW c \in Batch, ArriveBatch(p, c)
        PROVE  FALSE
    BY <1>2, <2>4 DEF ArriveBatch, ReceiveBatch, vars, flow
  <2>5. ASSUME NEW q \in Request, Serve(q)
        PROVE  FALSE
    <3>1. FileNext(q) /\ Active(q)
      BY <2>5, WhoSteps, RefusalIsFault DEF Serve, ServeStep, FileNext
    <3> QED BY <1>1, <1>3, <3>1 DEF Active
  <2> QED BY <2>1, <2>2, <2>3, <2>4, <2>5 DEF ServerNext
<1>5. BeginItem(c)
  BY <1>2, <1>4 DEF ServeBatch, BatchStep, AnswerBatch, vars, flow
<1>6. PICK j \in 1 .. order[c].size : ReceiveItem(c, ItemsOf[c][j])
  BY <1>5 DEF BeginItem
<1>7. j \in 1 .. MaxBatchSize
  BY <1>5, BatchSizeIsPositive DEF BeginItem, BatchInv
<1>8. ItemsOf[c][j] = r
  BY <1>3, <1>6, <1>7, ItemsAreRequests DEF ReceiveItem, ReceiveFileOp, FileNext
<1>9. c = b
  BY <1>7, <1>8, BatchOfItem
<1>10. req'[r].op = order[b].op
  BY <1>1, <1>6, <1>8, <1>9, ItemFollowsOrder
<1> QED BY <1>5, <1>9, <1>10 DEF BeginItem, Serving, batchVars

LEMMA NextKeepsReportInv ==
  ReportInv /\ OwnerInv /\ [ServerNext]_serverVars => ReportInv'
<1> SUFFICES ASSUME ReportInv, OwnerInv, [ServerNext]_serverVars PROVE ReportInv'
  OBVIOUS
<1> USE DEF ReportInv
<1>1. BatchInv' /\ TypeInv
  BY NextKeepsBatchInv DEF OwnerInv
<1>2. \/ UNCHANGED batchVars
      \/ \E b \in Batch : ReceiveBatch(b) \/ AnswerBatch(b) \/ LoseBatch(b)
  BY ServerStepOfBatches DEF serverVars
<1>3. AnswersFollowOrders'
  <2>1. CASE UNCHANGED batchVars
    BY <2>1 DEF batchVars, AnswersFollowOrders
  <2>2. ASSUME NEW b \in Batch, ReceiveBatch(b)
        PROVE  AnswersFollowOrders'
    BY <2>2 DEF ReceiveBatch, AnswersFollowOrders, BatchInv, BatchTypeOK
  <2>3. ASSUME NEW b \in Batch, AnswerBatch(b) \/ LoseBatch(b)
        PROVE  AnswersFollowOrders'
    BY <2>3 DEF AnswerBatch, LoseBatch, Serving, AnswersFollowOrders, BatchInv, BatchTypeOK
  <2> QED BY <1>2, <2>1, <2>2, <2>3
<1>4. ItemsFollowOrders'
  <2> SUFFICES ASSUME NEW b \in Batch, NEW i \in 1 .. MaxBatchSize, pc'[ItemsOf[b][i]] # "idle"
               PROVE  order'[b] # None /\ req'[ItemsOf[b][i]].op = order'[b].op
    BY DEF ItemsFollowOrders
  <2> DEFINE r == ItemsOf[b][i]
  <2>1. r \in Request
    BY ItemsAreRequests
  <2>2. CASE pc[r] # "idle"
    <3>1. order[b] # None /\ req[r].op = order[b].op /\ req'[r] = req[r]
      BY <1>1, <2>1, <2>2, RequestsGoOn DEF ItemsFollowOrders
    <3>2. order'[b] = order[b]
      BY <1>2, <3>1 DEF batchVars, ReceiveBatch, AnswerBatch, LoseBatch, BatchInv, BatchTypeOK
    <3> QED BY <3>1, <3>2
  <2>3. CASE pc[r] = "idle"
    <3>1. ServerNext
      BY <2>3 DEF serverVars, vars, flow
    <3> QED BY <1>1, <2>3, <3>1, ItemsBegin
  <2> QED BY <2>2, <2>3
<1>5. OkMeansEveryItem'
  <2> SUFFICES ASSUME NEW b \in Batch, reply'[b] = "ok", NEW i \in 1 .. order'[b].size
               PROVE  resp'[ItemsOf[b][i]] = "ok"
    BY DEF OkMeansEveryItem
  <2> DEFINE r == ItemsOf[b][i]
  <2>1. order'[b] = order[b] /\ order[b].size \in 1 .. MaxBatchSize /\ resp[r] = "ok"
    <3>1. CASE UNCHANGED batchVars
      BY <3>1 DEF batchVars, AnswersFollowOrders, OkMeansEveryItem
    <3>2. ASSUME NEW c \in Batch, ReceiveBatch(c)
          PROVE  order'[b] = order[b] /\ reply[b] = "ok"
      BY <3>2 DEF ReceiveBatch, AnswersFollowOrders, BatchInv, BatchTypeOK
    <3>3. ASSUME NEW c \in Batch, AnswerBatch(c)
          PROVE  order'[b] = order[b] /\ order[b].size \in 1 .. MaxBatchSize /\ resp[r] = "ok"
      <4>1. CASE b # c
        BY <3>3, <4>1 DEF AnswerBatch, AnswersFollowOrders, OkMeansEveryItem, BatchInv, BatchTypeOK
      <4>2. CASE b = c
        <5>1. order' = order /\ order[b].size \in 1 .. MaxBatchSize /\ r \in ItemsIn(b)
          BY <3>3, <4>2 DEF AnswerBatch, BatchInv, ItemsIn
        <5>2. Succeeded(b) = ItemsIn(b)
          BY <3>3, <4>2 DEF AnswerBatch, BatchInv, BatchTypeOK
        <5> QED BY <5>1, <5>2 DEF Succeeded
      <4> QED BY <4>1, <4>2
    <3>4. ASSUME NEW c \in Batch, LoseBatch(c)
          PROVE  order'[b] = order[b] /\ reply[b] = "ok"
      BY <3>4 DEF LoseBatch, BatchInv, BatchTypeOK
    <3> QED BY <1>2, <3>1, <3>2, <3>3, <3>4 DEF AnswersFollowOrders, OkMeansEveryItem
  <2>2. r \in Request
    BY <2>1, BatchSizeIsPositive, ItemsAreRequests
  <2>3. pc[r] = "done"
    BY <2>1, <2>2 DEF OwnerInv, Unanswered
  <2> QED BY <1>1, <2>1, <2>2, <2>3, RequestsGoOn
<1> QED BY <1>1, <1>3, <1>4, <1>5

LEMMA ReportInvHolds == ServerSpec => []ReportInv
<1>1. ServerSpec => []OwnerInv
  BY ServerImplementsFileServices, OwnerInvHolds, PTL DEF ServesTheFileServices
<1> QED BY <1>1, InitReportInv, NextKeepsReportInv, PTL DEF ServerSpec

\* The report of a batch tells the truth, for batches of any size, whatever
\* other requests and batches do to its files meanwhile and whenever processes
\* stop, unless acknowledgements get lost (then the retry of an insert can
\* bring back a row that a delete removed meanwhile).
THEOREM BatchReportsAreTrue ==
  ASSUME "unacked" \notin Faults
  PROVE  ServerSpec => []BatchReportIsTrue
<1>1. ASSUME ReportInv, OwnerInv, DeleteIsFinal, AckedUploadIsDurable, RefusedChangesNothing
      PROVE  BatchReportIsTrue
  <2> SUFFICES ASSUME NEW b \in Batch, reply[b] \in {"ok", "partial"}
               PROVE  /\ \A r \in IF reply[b] = "ok" THEN ItemsIn(b) ELSE Succeeded(b) :
                           IF order[b].op = "delete"
                             THEN files[req[r].file] = None /\ blobs[req[r].file] = "absent"
                             ELSE Deleted(r) \/ (files[r] # None /\ blobs[r] = "whole")
                      /\ \A r \in Coded(b) :
                           EventsBy(r) = {} /\ (req[r].op = "upload" => blobs[r] = "absent")
    BY DEF BatchReportIsTrue
  <2> USE <1>1
  <2>1. ASSUME NEW r \in ItemsIn(b), resp[r] # "none"
        PROVE  r \in Request /\ req[r] # None /\ req[r].op = order[b].op
    <3>1. PICK i \in 1 .. order[b].size : r = ItemsOf[b][i]
      BY DEF ItemsIn
    <3>2. i \in 1 .. MaxBatchSize
      BY BatchSizeIsPositive DEF ReportInv, AnswersFollowOrders
    <3>3. r \in Request /\ pc[r] # "idle"
      BY <2>1, <3>1, <3>2, ItemsAreRequests DEF OwnerInv, Unanswered
    <3>4. req[r].op = order[b].op
      BY <3>1, <3>2, <3>3 DEF ReportInv, ItemsFollowOrders
    <3>5. req[r] # None
      BY <3>3, NoneIsNoCommand DEF OwnerInv, TypeInv, Shape, ShapeAt
    <3> QED BY <3>3, <3>4, <3>5
  <2>2. order[b] # None
    BY DEF ReportInv, AnswersFollowOrders
  <2>3. order[b].op \in {"upload", "delete"}
    BY <2>2 DEF ReportInv, BatchInv, BatchTypeOK, Order
  <2>4. ASSUME NEW r \in IF reply[b] = "ok" THEN ItemsIn(b) ELSE Succeeded(b)
        PROVE  IF order[b].op = "delete"
                 THEN files[req[r].file] = None /\ blobs[req[r].file] = "absent"
                 ELSE Deleted(r) \/ (files[r] # None /\ blobs[r] = "whole")
    <3>1. r \in ItemsIn(b) /\ resp[r] = "ok"
      BY DEF ItemsIn, Succeeded, ReportInv, OkMeansEveryItem
    <3>2. r \in Request /\ req[r] # None /\ req[r].op = order[b].op
      BY <2>1, <3>1
    <3>3. CASE order[b].op = "delete"
      BY <3>1, <3>2, <3>3 DEF DeleteIsFinal
    <3>4. CASE order[b].op = "upload"
      BY <3>1, <3>2, <3>4 DEF AckedUploadIsDurable, Uploads
    <3> QED BY <2>3, <3>3, <3>4
  <2>5. ASSUME NEW r \in Coded(b)
        PROVE  EventsBy(r) = {} /\ (req[r].op = "upload" => blobs[r] = "absent")
    <3>1. r \in ItemsIn(b) /\ resp[r] \in HttpErrorCode /\ resp[r] # "none"
      BY DEF Coded, HttpErrorCode
    <3>2. r \in Request /\ req[r] # None
      BY <2>1, <3>1
    <3> QED BY <3>1, <3>2 DEF RefusedChangesNothing, Uploads
  <2> QED BY <2>4, <2>5
<1>2. ServerSpec => [](OwnerInv /\ DeleteIsFinal /\ AckedUploadIsDurable /\ RefusedChangesNothing)
  BY ServerImplementsFileServices, OwnerInvHolds, DeletesAreFinal, AckedUploadsAreDurable,
     RefusalsChangeNothing, PTL DEF ServesTheFileServices
<1> QED BY <1>1, <1>2, ReportInvHolds, PTL
=============================================================================
