---------------------------- MODULE BatchServices ----------------------------
(***************************************************************************)
(* The batch endpoints: one HTTP request that runs the upload or the       *)
(* delete service once per item, one item after the other, catches what an *)
(* item throws, and reports every item in its answer.                      *)
(*                                                                         *)
(* Every run of a service for an item is a request of FileServices of its  *)
(* own: "resp" is what the service returned or threw.                      *)
(***************************************************************************)
EXTENDS FileServices, Sequences

CONSTANTS
  Batch,          \* requests to the batch endpoints
  ItemsOf,        \* ItemsOf[b]: the runs of a service for the items of b
  MaxBatchSize    \* MAX_BATCH_SIZE

ASSUME BatchSizeIsPositive == MaxBatchSize \in Nat \ {0}

ASSUME ItemsAreTheBatchs ==
  /\ ItemsOf \in [Batch -> [1 .. MaxBatchSize -> Request]]
  /\ \A b, c \in Batch : \A i, j \in 1 .. MaxBatchSize :
       ItemsOf[b][i] = ItemsOf[c][j] => b = c /\ i = j

VARIABLES
  order,   \* order[b]: what b asks for and for how many items, or None
  reply    \* reply[b]: "ok" (200 or 201), "partial" (207), "VALIDATION",
           \* "lost", or "none" before it is answered

batchVars == <<order, reply>>

Items == {ItemsOf[b][i] : b \in Batch, i \in 1 .. MaxBatchSize}

BatchOf == [r \in Items |-> CHOOSE b \in Batch : \E i \in 1 .. MaxBatchSize : ItemsOf[b][i] = r]

Order == [op : {"upload", "delete"}, user : User, size : 0 .. MaxBatchSize + 1]

BatchTypeOK ==
  /\ order \in [Batch -> Order \cup {None}]
  /\ reply \in [Batch -> {"none", "ok", "partial", "VALIDATION", "lost"}]

BatchInit ==
  /\ order = [b \in Batch |-> None]
  /\ reply = [b \in Batch |-> "none"]

Serving(b) == order[b] # None /\ reply[b] = "none"

ItemsIn(b) == {ItemsOf[b][i] : i \in 1 .. order[b].size}

Succeeded(b) == {r \in ItemsIn(b) : resp[r] = "ok"}

\* The name or the id of an item is in the body of the request; it is chosen
\* when the item's turn comes.
ReceiveItem(b, r) ==
  /\ \/ order[b].op = "upload" /\ ReceiveUpload(r)
     \/ order[b].op = "delete" /\ ReceiveDelete(r)
  /\ req'[r].user = order[b].user

----------------------------------------------------------------------------
(* Variants with a plausible bug; none is part of a specification.         *)

\* The loop has no try: what an item throws ends it.
BeginItemUnlessFailed(b) ==
  /\ Serving(b)
  /\ \E i \in 1 .. order[b].size :
       LET r == ItemsOf[b][i] IN
       /\ pc[r] = "idle"
       /\ \A j \in 1 .. i - 1 : resp[ItemsOf[b][j]] = "ok"
       /\ ReceiveItem(b, r)
  /\ UNCHANGED batchVars

\* The status is that of the last item.
AnswerBatchByLast(b) ==
  /\ Serving(b)
  /\ \A r \in ItemsIn(b) : pc[r] = "done" /\ resp[r] # "lost"
  /\ reply' = [reply EXCEPT ![b] =
                 IF resp[ItemsOf[b][order[b].size]] = "ok" THEN "ok" ELSE "partial"]
  /\ UNCHANGED <<vars, order>>

----------------------------------------------------------------------------
(* The controllers and assertBatchSize, before the first await. *)
ReceiveBatch(b) ==
  /\ order[b] = None
  /\ \E o \in Order :
       /\ o.op \in Ops
       /\ order' = [order EXCEPT ![b] = o]
       /\ reply' = IF o.size \in 1 .. MaxBatchSize
                     THEN reply ELSE [reply EXCEPT ![b] = "VALIDATION"]
  /\ UNCHANGED vars

\* The next item, once the one before has returned or thrown.
BeginItem(b) ==
  /\ Serving(b)
  /\ \E i \in 1 .. order[b].size :
       LET r == ItemsOf[b][i] IN
       /\ pc[r] = "idle"
       /\ \A j \in 1 .. i - 1 : pc[ItemsOf[b][j]] = "done"
       /\ ReceiveItem(b, r)
  /\ UNCHANGED batchVars

AnswerBatch(b) ==
  /\ Serving(b)
  /\ \A r \in ItemsIn(b) : pc[r] = "done" /\ resp[r] # "lost"
  /\ reply' = [reply EXCEPT ![b] = IF Succeeded(b) = ItemsIn(b) THEN "ok" ELSE "partial"]
  /\ UNCHANGED <<vars, order>>

\* The process stops: nobody goes on with the loop.
LoseBatch(b) ==
  /\ "crash" \in Faults
  /\ Serving(b)
  /\ reply' = [reply EXCEPT ![b] = "lost"]
  /\ UNCHANGED <<vars, order>>

BatchStep(b) == BeginItem(b) \/ AnswerBatch(b)

\* The failed items of the report that carry a code: those that failed with
\* an HttpError.
Coded(b) == {r \in ItemsIn(b) : resp[r] \in HttpErrorCode}
=============================================================================
