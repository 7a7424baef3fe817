----------------------------- MODULE HttpServer -----------------------------
(***************************************************************************)
(* The life of the processes that serve the requests (src/index.ts): the   *)
(* migrations before the first request, the signal that closes the server  *)
(* and ends the pool, the exit that does not wait for the requests, and    *)
(* the supervisor that starts a process again.                             *)
(*                                                                         *)
(* pool.end() refuses new clients and waits for those that are checked     *)
(* out.  So a statement that is under way when the signal comes is the     *)
(* last one its request can make.                                          *)
(***************************************************************************)
EXTENDS BatchServices

CONSTANT Process   \* the instances that share the database and the storage

ASSUME ServerFaults == {"database", "crash"} \subseteq Faults
ASSUME BatchesAreNoItems == Batch \cap Request = {}

VARIABLES
  phase,      \* phase[p]: "down", "listening" or "closing"
  home,       \* home[x]: the process that serves the request or batch x
  checkedOut  \* the requests that hold a client of a pool that is ending

serverVars == <<vars, batchVars, phase, home, checkedOut>>

Phase == {"down", "listening", "closing"}

Single == Request \ Items

ServerTypeOK ==
  /\ TypeOK
  /\ BatchTypeOK
  /\ phase \in [Process -> Phase]
  /\ home \in [Single \cup Batch -> Process \cup {None}]
  /\ checkedOut \subseteq {r \in Request : Active(r)}

ServerInit ==
  /\ Init
  /\ BatchInit
  /\ phase = [p \in Process |-> "down"]
  /\ home = [x \in Single \cup Batch |-> None]
  /\ checkedOut = {}

HomeOf(r) == IF r \in Items THEN home[BatchOf[r]] ELSE home[r]

\* What p is serving.
RequestsAt(p) == {r \in Request : Active(r) /\ HomeOf(r) = p}
BatchesAt(p) == {b \in Batch : Serving(b) /\ home[b] = p}

\* The clients that the ending pool of p waits for.
ClientsOf(p) == {r \in checkedOut : HomeOf(r) = p}

PhaseAt(place) == IF place = None THEN "down" ELSE phase[place]

Become(p, next) == phase' = [phase EXCEPT ![p] = next]

----------------------------------------------------------------------------
(* Variants with a plausible bug; none is part of the specification.       *)

\* The client of a statement that failed is not released.
StepWithoutRelease(r) ==
  /\ \/ PhaseAt(HomeOf(r)) = "listening"
     \/ PhaseAt(HomeOf(r)) = "closing" /\ (pc[r] \in StorageStep \/ r \in checkedOut)
  /\ \/ FileStep(r) /\ checkedOut' = checkedOut \ {r}
     \/ Fault(r) /\ UNCHANGED checkedOut
  /\ UNCHANGED <<batchVars, phase, home>>

\* The answer is sent where the statement is refused, not where its error is
\* caught.
PoolRefusesAtOnce(r) ==
  /\ pc[r] \in DatabaseStep
  /\ PhaseAt(HomeOf(r)) = "closing"
  /\ r \notin checkedOut
  /\ Answer(r, "database")
  /\ UNCHANGED <<stores, req, seen, held, batchVars, phase, home, checkedOut>>

----------------------------------------------------------------------------
(* Starting: connectDatabase runs the migrations, then the server listens. *)
(* CREATE TABLE IF NOT EXISTS leaves the stores as they are; a migration   *)
(* that fails makes the process exit, so it stays down.                    *)

Start(p) ==
  /\ phase[p] = "down"
  /\ RequestsAt(p) = {} /\ BatchesAt(p) = {}
  /\ Become(p, "listening")
  /\ UNCHANGED <<vars, batchVars, home, checkedOut>>

----------------------------------------------------------------------------
(* Serving.  A connection that is kept open may deliver a request to a     *)
(* server that is closing.                                                 *)

ArriveSingle(p, r) ==
  /\ phase[p] \in {"listening", "closing"}
  /\ r \in Single
  /\ ReceiveFileOp(r)
  /\ home' = [home EXCEPT ![r] = p]
  /\ UNCHANGED <<batchVars, phase, checkedOut>>

ArriveBatch(p, b) ==
  /\ phase[p] \in {"listening", "closing"}
  /\ ReceiveBatch(b)
  /\ home' = [home EXCEPT ![b] = p]
  /\ UNCHANGED <<phase, checkedOut>>

\* A step of a request; its client goes back to the pool.
ServeStep(r) ==
  /\ \/ PhaseAt(HomeOf(r)) = "listening"
     \/ PhaseAt(HomeOf(r)) = "closing" /\ (pc[r] \in StorageStep \/ r \in checkedOut)
  /\ FileStep(r) \/ Fault(r)
  /\ checkedOut' = checkedOut \ {r}
  /\ UNCHANGED <<batchVars, phase, home>>

\* "Cannot use a pool after calling end on the pool" is not retryable.
PoolRefuses(r) ==
  /\ pc[r] \in DatabaseStep
  /\ PhaseAt(HomeOf(r)) = "closing"
  /\ r \notin checkedOut
  /\ Throw(r)
  /\ UNCHANGED <<stores, req, seen, held, batchVars, phase, home, checkedOut>>

ServeBatch(b) ==
  /\ PhaseAt(home[b]) \in {"listening", "closing"}
  /\ BatchStep(b)
  /\ UNCHANGED <<phase, home, checkedOut>>

----------------------------------------------------------------------------
(* Stopping. *)

\* shutdown(): a request at a statement holds a client, unless it sleeps
\* before its next attempt.
Signal(p) ==
  /\ phase[p] = "listening"
  /\ Become(p, "closing")
  /\ \E holding \in SUBSET {r \in RequestsAt(p) : pc[r] \in DatabaseStep} :
       checkedOut' = checkedOut \cup holding
  /\ UNCHANGED <<vars, batchVars, home>>

\* pool.end() resolves when the last client is back; process.exit(0) follows.
PoolEnded(p) ==
  /\ phase[p] = "closing"
  /\ ClientsOf(p) = {}
  /\ Become(p, "down")
  /\ UNCHANGED <<vars, batchVars, home, checkedOut>>

\* An uncaught exception, or the machine.
Die(p) ==
  /\ phase[p] # "down"
  /\ Become(p, "down")
  /\ checkedOut' = checkedOut \ ClientsOf(p)
  /\ UNCHANGED <<vars, batchVars, home>>

\* What a process was serving when it stopped is lost, one by one.
Lose(p) ==
  /\ phase[p] = "down"
  /\ \/ \E r \in RequestsAt(p) : Crash(r) /\ UNCHANGED batchVars
     \/ \E b \in BatchesAt(p) : LoseBatch(b)
  /\ UNCHANGED <<phase, home, checkedOut>>

----------------------------------------------------------------------------
Serve(r) == ServeStep(r) \/ PoolRefuses(r)

ServerNext ==
  \/ \E p \in Process :
       \/ Start(p) \/ Signal(p) \/ PoolEnded(p) \/ Die(p) \/ Lose(p)
       \/ \E r \in Request : ArriveSingle(p, r)
       \/ \E b \in Batch : ArriveBatch(p, b)
  \/ \E r \in Request : Serve(r)
  \/ \E b \in Batch : ServeBatch(b)

\* What p does by itself once somebody has asked for something.
WorkAt(p) ==
  \/ \E r \in RequestsAt(p) : Serve(r)
  \/ \E b \in BatchesAt(p) : ServeBatch(b)
  \/ PoolEnded(p)
  \/ Lose(p)

\* Calls settle, so the event loop of a process that has work gets on with
\* some of it, in any order.  Nobody has to send a request or a signal, and
\* no process has to be started.
ServerSpec ==
  /\ ServerInit /\ [][ServerNext]_serverVars
  /\ \A p \in Process : WF_serverVars(WorkAt(p))

----------------------------------------------------------------------------
(* Properties. *)

\* The batches, the pool that ends under the requests, the exit and the
\* restarts are nothing new to the services: what is checked and proved of
\* FileServices holds in every process that serves them.
ServesTheFileServices == Spec

\* A batch tells the truth, whatever happens to its files while the loop
\* goes on: after a 200 or 201 every file is gone, or is there until its
\* deletion is recorded, and an item that was refused with a code changed
\* nothing.
BatchReportIsTrue ==
  \A b \in Batch : reply[b] \in {"ok", "partial"} =>
    /\ \A r \in IF reply[b] = "ok" THEN ItemsIn(b) ELSE Succeeded(b) :
         IF order[b].op = "delete"
           THEN files[req[r].file] = None /\ blobs[req[r].file] = "absent"
           ELSE Deleted(r) \/ (files[r] # None /\ blobs[r] = "whole")
    /\ \A r \in Coded(b) : EventsBy(r) = {} /\ (req[r].op = "upload" => blobs[r] = "absent")

\* The items of a batch do not stop each other: unless its process stops,
\* every batch comes to its answer.
EveryBatchIsAnswered == \A b \in Batch : Serving(b) ~> reply[b] # "none"

\* A signal ends the process, although requests keep arriving and the ones
\* that are being served keep asking for clients.
ShutdownEnds == \A p \in Process : phase[p] = "closing" ~> phase[p] = "down"
=============================================================================
