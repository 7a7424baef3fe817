# A formal model of the signed-file API

The service stores files for its users, hands out signed links that expire and
can be revoked, serves downloads for them, and keeps an audit trail. Its state
is in two stores, Postgres and a blob storage, and no transaction spans both:
every statement commits on its own, any other request may run at each `await`,
a call may fail before or after its effect, and every call is retried. What the
service promises therefore rests on the order of its steps, on one
compensation, and on the retry layer. These modules model those, and say what
follows and what does not.

## 1. Inventory

| part of the system | state it keeps | operations | what is hard | what makes it correct |
|---|---|---|---|---|
| Postgres (`migrations.ts`, three repositories) | `files`, `signed_links`, `audit_events` | one statement each | constraints, the cascade, statements executed but not acknowledged | rows reference rows, the trail only grows |
| blob storage (`LocalBlobStorage`, `SpacesBlobStorage`) | bytes under a location | `save`, `exists`, `read`, `remove` | torn writes, errors taken for absence | a row has its bytes, bytes have a row |
| upload | - | save, insert, on error remove | the compensation, a process stop between two steps | all or nothing, and what was acknowledged stays |
| delete | - | check, audit, row (+ links), bytes | concurrent deletes, renames and uploads; stops half way | final, recorded, by the owner |
| rename | - | check, UPDATE, audit | a row that went away, names read earlier | by the owner, recorded once |
| sign, revoke | - | check, INSERT / UPDATE, audit | equal signatures, a file deleted meanwhile, lost acknowledgements | what was handed out can be revoked; a revoke happens once |
| download | - | verify, find, redeem, exists, read | four awaits between check and use | no service after a revoke or a delete; everything in the trail |
| audit history | - | row or earlier event, list | a deleted file's owner | the owner keeps the history |
| retry layer (`with-retry.ts`, `resilient-proxy.ts`) | attempt, start time | attempt, sleep, give up | two budgets at once, jitter, late timers | bounded in number and in time, and never given up early |
| URL signer (`url-signer.ts`) | - | sign, verify | whole seconds, the boundary of the expiry, an expiry that is read by `Number()`, two ways to compare a signature | what is signed is good for the lifetime asked for, and nothing else is |
| reading endpoints | - | get, list, list links | two queries with a delete between them | clients see what they were told |
| batch endpoints | partial results | loop over upload / delete | one item failing, ids given twice, a stop half way | one bad item does not stop the rest; the report is true |
| error boundary (`common/errors`) | error counters | map an error to an answer | errors nobody classified | a refused request changed nothing |
| startup, shutdown (`index.ts`, `pool.ts`) | pool, server | migrate, listen; close, end, exit | requests in flight when the pool ends, several processes | the services never see anything they would not see from a failing database; shutdown ends |

Services call the repositories and the storage through the proxy of
`makeResilient`, built in `container.ts`; they share state only through the two
stores. The clock is read when a link is signed and when one is verified.

## 2. Modules

| module | models | uses |
|---|---|---|
| `Persistence` | the tables, their constraints, the storage; one operator per statement | - |
| `RequestFlow` | how a request runs: steps, local variables, retries, failures, ownership | `Persistence` |
| `FileServices` | upload, delete and rename; their specification and properties | `RequestFlow` |
| `FileCatalog` | what the clients of the file services are promised (abstract): one catalog, every change in one step | - |
| `FileServicesCatalog` | how `FileServices` implements `FileCatalog` | `FileServices`, `INSTANCE FileCatalog` |
| `UrlSigner` | sign and verify as operators over claims and a clock | - |
| `LinkServices` | sign, revoke, download, history; the clock | `RequestFlow`, `UrlSigner` |
| `ReadServices` | get, list files, list links | `RequestFlow` |
| `SignedFileApi` | all services together | `FileServices`, `LinkServices`, `ReadServices` |
| `BatchServices` | the two batch endpoints as loops over the services | `FileServices` |
| `HttpServer` | the processes: start, serve, signal, end of the pool, exit, death, restart; implements `FileServices` | `BatchServices` |
| `ResilientCall` | what a resilient call promises (abstract) | - |
| `Resilience` | `withRetry` with its clock and backoff; implements `ResilientCall` | `INSTANCE ResilientCall` |
| `FileServicesProofs`, `FileAuditProofs` | theorems about `FileServices`: types, the two stores; owners, the trail, names | `FileServices` |
| `FileCatalogProofs` | the refinement of the catalog | `FileServicesCatalog`, `FileAuditProofs` |
| `HttpServerProofs` | theorems about the processes and batches | `HttpServer`, `FileCatalogProofs` |
| `SignedFileApiProofs`, `SignedLinkProofs`, `SignedAnswerProofs` | theorems about the whole API: types; links and their events; what clients are told | `SignedFileApi`, each the one before |
| `ResilienceProofs` | theorems about the retry layer | `Resilience` |
| `MCFileServices`, `MCSignedFileApi`, `MCHttpServer`, `MCResilience` | instances for TLC | |

### How the code becomes state and actions

A request `r` is at a step `pc[r]`, one per awaited call; an action is that call
with the code that follows it up to the next `await`. So `DeleteDrop` is
`files.deleteById`, with the cascade in the same statement, and the next thing
another request sees. `req[r]` is what the controller passed, `seen[r]` and
`held[r]` are the local variables that survive an `await` (the file row; the
updated row, the new link, or the redeemed link), `resp[r]` is the answer's
code. `tries[r]` is the number of the attempt of the current call.

A call of a repository or of the storage, at each attempt,

* succeeds (the action of the step);
* fails without an effect (`Fault`, kinds `database` and `storage`);
* has its effect and is reported as failed (`Unacked`): the error codes the
  code retries include ECONNRESET and ETIMEDOUT, which say nothing of whether
  the statement was executed;
* writes half a file (`UploadSaveTorn`), on the local disk.

After a failure it is tried again or throws (`AttemptFails`). `Throw` goes to
the catch block of the upload, or to the answer. `Crash(r)` ends a request at
any step.

An id drawn by `randomUUID()` is the name of what drew it, so ids are distinct
by construction: the file of an upload and the link of a sign request are
called like the request, an event is called after the request and the attempt,
because `audit.repository.ts` draws a new id in every attempt. In a row of
`signed_links` the pair of file and expiry stands for the signature.

`signer[r]` is the URL that a request had signed or presented, and the time it
read from the clock. A URL is its claims and a signature; a signature is the
claims it was computed from and whether it is spelled as `digest("hex")` spells
it, because the signer compares decoded bytes and the table compares text. The
expiry is a text too, and the code goes by what `Number()` makes of it: whether
that is an integer, which one, and whether the text is the one `String()` makes
of it. Another text of the same integer (`1700000000.0`, `1.7e9`, a blank before
it) has the same HMAC, and the link is looked up by the signature alone, so such
a URL is served. An empty or missing expiry is the number 0 (`Blank`), and a text
that is no integer is refused (`NoInteger`). A download presents a URL that was
handed out, its expiry or its signature spelled otherwise, or one with another's
or no expiry or signature (`Presented`). `listed[r]` is what a reading request
was shown.

A batch `b` has `order[b]` (what it asks for, for how many items) and `reply[b]`
(the status of its answer). Each run of a service for an item is a request of
`FileServices`, so `resp` of an item is what its service returned or threw, and
what the loop catches. The items of a batch run one after the other, in order.

A process `p` is in `phase[p]`: down, listening or closing; `home[x]` is the
process that serves a request or a batch. `Signal` is `shutdown` up to its
`await`: `server.close()` and `pool.end()`. From then on the pool of `p` hands
out no client, so a request of `p` can end the statement it holds a client for
(`checkedOut`) and every later one is refused with an error that is not
retried (`PoolRefuses`); calls to the storage go on. When the last client is
back, the process exits (`PoolEnded`) and what it was serving is lost (`Lose`).

### What the model leaves out, on purpose

* Retrying is nondeterministic in `RequestFlow`: a failure may be retried while
  attempts remain, and may always throw. The code decides by the error and by
  time; every decision it can take is among these. `Resilience` models how it
  decides and is shown to implement `ResilientCall`, which is this promise.
* An attempt that failed is over: a statement is not executed after its client
  has given it up. (With a driver that loses a connection, Postgres may execute
  it a little later; the next step might then overtake it.)
* A process that stops ends all its requests; `Crash` ends any of them, which
  allows these behaviours and more. `HttpServer` models the processes, and is
  shown to implement `FileServices`.
* `resp[r]` = "ok" means that the service has answered; whether the bytes of the
  answer reach the client is not modelled.
* A connection that is kept open may deliver requests to a process that is
  closing, as Node allows. A second signal does nothing (its `pool.end()`
  rejects, which is logged). The names and ids of a batch's items are chosen
  when their turn comes, which allows every body the client may have sent. The
  queue of requests that wait for a client of the pool is the step they wait at.
* The migrations are part of `Start`: on a database that has the tables they
  change nothing, and a process whose migrations fail stays down. Two instances
  that create the tables at the same moment may make one of them fail; that is
  decided inside Postgres and not modelled further.
* File sizes, content types, names as strings, the location under which a file
  is stored, the text of errors; requests that are rejected before a service
  sees them (header, JSON, id format).
* Timestamps other than the expiry of links, and with them the order of listings.

## 3. What the runs check

TLC, deadlock check off in every run: once all requests are served, nothing is
left to do.

| run | instance | shows |
|---|---|---|
| `files` | 3 requests, 2 users, 2 names, 1 stored file, 2 attempts; failing calls, torn writes, stops | a row has its whole bytes (`RowHasBlob`); bytes without a row have an explanation that is not a mere database error (`OrphanExplained`); an acknowledged delete is final (`DeleteIsFinal`); a refused upload left nothing (`FailedUploadLeavesNothing`), and a 4xx answer never hides an effect (`RefusedChangesNothing`); exactly one event for each acknowledged change, of its type and with what it did (`OneEventPerRequest`); an unclassified 500 is a rename that lost the race with a recorded deletion (`UnclassifiedErrorHasCause`); every name in the trail was given by somebody, but for the new name in the event of a rename that renamed nothing and failed, and the name in a row is in the trail unless its rename failed (`NamesAreExplained`); only the owner changes a row (`OnlyOwnerChanges`); the two stores look like one (`ImplementsCatalog`) |
| `files_lost_acks` | 3 requests, 1 user, 1 name; lost acknowledgements as well | an acknowledged upload stays until its deletion is recorded (`AckedUploadIsDurable`); no row goes unrecorded (`RemovalIsRecordedFirst`); retries do not multiply events beyond the policy (`EventsBounded`) |
| `api` | 3 requests, 2 users, a stored file with a link, two lifetimes, a clock that stands still, remote storage that fails, stops; 1 attempt | a refusal has a cause (`RefusalHasCause`; one of them is a signature spelled otherwise, which the signer accepts and the table does not know), so has a failing sign (`SignFailsOnConflict`); links belong to the owner of a file that exists (`LinksBelongToOwners`); the owner keeps the history (`OwnerKeepsHistory`: here of a file whose deletion he was told of, since nothing is uploaded in this run; the theorem covers uploads as well); a link is revoked once (`RevokedOnce`) |
| `api_lost_acks` | 3 requests, a clock that stands still, local disk that fails, lost acknowledgements, 2 attempts | nothing is served after an acknowledged revoke or delete (`NoServiceAfterward`); redemptions and generated links are recorded (`RedemptionIsAudited`, `HandedOutIsRecorded`); a listing of links shows those that were handed out, and a revoked one as revoked (`AnswersShowWhatWasTold`) |
| `api_live` | 2 requests of all ten kinds, failing database, 2 ticks to a second, fairness | a URL is good for the lifetime asked for, to the second, however its expiry is spelled, and bytes go to no URL that names another file, moment or signature than one handed out (`UrlLivesItsLifetime`); uploads and deletes that were told are seen by get and list (`AnswersShowWhatWasTold`); every request is answered (`EveryRequestIsAnswered`); bytes without a row do not stay (`OrphansAreReclaimed`) |
| `server` | 2 processes, a batch of up to 2 items (its limit) and one request beside it, failing database and storage, deaths, signals | the report of a batch is true (`BatchReportIsTrue`); batches, the ending pool, exits and restarts are behaviours of `FileServices` (`ServesTheFileServices`), so its invariants and theorems hold in them; a batch is answered unless its process stops (`EveryBatchIsAnswered`); a signal ends the process (`ShutdownEnds`) |
| `retry` | 2 calls, 4 attempts, delays 1 to 3, a budget of 5, attempts of 0 or 1, timers 0 or 1 late | the time a call can take (`EndsInTime`), the spread of its attempts (`AttemptsAreSpread`), that no call throws RETRY_EXHAUSTED before one of the two budgets is used (`ShortOutagesAreSurvived`), `KeepsPromise` (it implements `ResilientCall`), `EveryCallEnds` |

### Where the repository promises more than the code does

Each of these runs ends with a counterexample.

| run | what is said | what happens |
|---|---|---|
| `lost_insert` | the compensation of the upload removes an orphaned blob | if the INSERT was executed and its acknowledgement lost, it throws (at once or after a retry), and the blob has a row; it is removed and the file can never be downloaded |
| `snapshot` | a deletion event is a snapshot of what was removed | a rename between the audit and the DELETE makes it one of what was there before |
| `unclassified` | every error derives from `AppError`, and none reaches the error handler unclassified | a rename whose file is deleted before its UPDATE records an event of a rename that renamed nothing, and then throws a TypeError |
| `revocation` | the history holds the revocations | a revoke whose acknowledgement is lost is answered with an error (with 404 after a retry) and never recorded |
| `retry_cap` | the elapsed-time budget caps the time spent retrying | it is compared before the sleep, and a retry begins after its end |

Other divergences were read in the code and need no run:

* docs/architecture.md:29 says that every attempt to download writes an audit
  event. One that the signer rejects, or for a file without a row, returns
  before anything is recorded (download-file.service.ts:28, :33).
* metrics.ts:70 calls `retry_exhausted_total` the times "the retry budget was
  exhausted", and with-retry.ts:15 says that the final give-up is recorded as a
  metric. The code (with-retry.ts:54) counts every throw after a retry, also of
  a permanent error, and no give-up at the first attempt.
* backoff.ts:1 says "full jitter"; the code and backoff.test.ts have half of the
  delay fixed and half random. `Delays` is what the code does.

### Bounds

Three requests let two operations interfere with a third that was there before
or comes after (an upload, its deletion and a rename; a sign, a revoke and a
download); no property speaks of more than two of them and a row. Two users
tell the owner from anybody else; runs with one user are about failures, not
about ownership. Two attempts give one retry, which is enough to repeat a
statement that was executed; `api` has one, since its faults have no effect
that a retry could repeat. In `api` and `api_lost_acks` the clock stands still
(`MaxTime` = 0): what they check is who interferes with whom, and time decides
there only which expiries are equal. `api` has two lifetimes (`MaxTtl` = 2), one
of which gives the expiry of the stored link, so that signatures conflict and
differ. In `api_live` a second has two ticks and the clock goes to the fourth:
the stored link is in its last second at the start and over afterwards, and a
URL is signed at the start and in the middle of a second and lives for `ttl` + 1
seconds, or for `ttl` and a half. In
`server` a batch has 0, 1, 2 or 3 items under a limit of 2, its items run beside
a single request on the same file, and a second process serves while the first
closes. Symmetric requests, users and names
are exchanged freely in the safety runs: the modules only compare them. In
`retry` the fourth attempt is reached as well as the end of the time budget.

### Fairness

`ApiFairSpec` assumes that a call to Postgres or to the storage settles, well or
badly. It does not assume that a client sends a request, that a retry succeeds,
or that the clock moves. `ServerSpec` assumes the same for each process as a
whole (`WorkAt`): a process that has work gets on with some of it, which is less
than fairness for every request; no process has to be started and no signal has
to come. `Resilience!FairSpec` assumes that attempts settle and
timers fire. The code cannot guarantee the first: the pool has neither a
statement nor a connection timeout, and a driver call that never settles keeps
its request for ever.

## 4. What is proved

By TLAPS, for every value of the constants: any sets of requests, users, names,
files and processes, any number of attempts. Every invariant, every action
property and all three refinements that the runs check are theorems; only
liveness is not.

### Assumptions

Besides the ranges of the configuration, the constants satisfy: ids, names,
users, `None` and `Unknown` are different things (`IdsAreDistinct`,
`NoneIsNoValue`, `NoneIsNoCommand`; a link is a row and no id, `LinksAreNoIds`);
there is at least one attempt, one tick a second, one item a batch may have.
`PowersAreNatural` says that the ten powers of two that the backoff can need are
natural numbers: the provers know nothing of exponentiation, TLC evaluates it.

Some theorems assume in addition that a kind of failure does not occur. None
of them holds without that: TLC finds a counterexample to each property when
the failure is added to an instance with the requests named here (up to five
of them for `NoServiceAfterward`).

| assumption | theorems | without it |
|---|---|---|
| `"unacked" \notin Faults` | `RowsHaveBlobs`, `FailedUploadsLeaveNothing`, `DeletesAreFinal`, `OneEventEach`, `OrphansAreExplained`, `NamesAreAlwaysExplained`, `FileServicesImplementCatalog`, `ServedRowsHaveBlobs`, `BatchReportsAreTrue` | run `lost_insert`: the compensation removes the bytes of a row that exists. And a delete between an insert that was executed and its repetition: the repetition inserts the row again, upload and delete both succeed, and the row is there without bytes. A repeated insert of an event doubles it; a rename whose UPDATE was executed may still be about to repeat it, and the name is there without one that is past its UPDATE |
| `InsertsAreNotRepeated`: acknowledgements are not lost, or there are no uploads | `RevocationsAreOnce`, `NoneIsServedAfterward`, `ReadersSeeWhatWasTold`, `ApiRowsHaveBlobs` | the row of a deleted file comes back in the same way; with it a link of that file whose insert is repeated too, which by then was revoked, and which is good again |
| `AcksArrive`: acknowledgements are not lost | `RefusalsHaveCause`, `SigningFailsOnConflict` | a revoke whose UPDATE was executed is told that there is no such link, and the link is revoked all the same; the repeated insert of a link conflicts with itself |
| `DisksAnswer`: the local disk does not fail | `RefusalsHaveCause` | `LocalBlobStorage.exists` takes any error for a missing file |
| `"database" \notin Faults` | `SigningFailsOnConflict` | signing fails because the database does |

All other theorems hold with every kind of failure.

### The arguments

*Frames first.* `FlowFrame`, `MoveFrame`, `EventFrame`, `LinksFrame` and their
like say once, for any step of a request, what it leaves alone: the other
requests, rows of other files, the events that are there. Each invariant is then
shown for the few steps that touch it.

`FileServices`

* `FilesTypeCorrect`: the inductive invariant `TypeInv` adds to `TypeOK` what a
  request at a step knows of its command and of the row it holds (`ShapeAt`),
  since an event can only be built from a row that was read.
* `RowsHaveBlobs`, `DeletesAreFinal`, `FailedUploadsLeaveNothing`: `StoresInv`
  follows the bytes and the row of a file through the steps of the upload that
  writes them and of the deletes that remove them: before its insert an upload
  has no row, from then on nobody can insert it again, and who is past the
  DELETE finds the row gone for ever.
* `OnlyOwnersChange`, `RemovalsAreRecordedFirst`: `OwnerInv`. Ownership is
  decided on a row that may change before it is used, so the invariant says
  that a row always belongs to its uploader (`RowsAreUploaders`), and that who
  holds one is that user (`HoldersOwn`); then a row that was read long ago is
  still good for the decision.
* `AckedUploadsAreDurable`: `DurableInv` adds that the row is inserted over
  whole bytes, unless the file has been deleted since an insert that is being
  repeated.
* `RefusalsChangeNothing`, `EventsAreBounded`: `TrailInv`. Nothing is recorded
  before the step that records, and the events of a request are numbered by its
  attempts, so there are at most `MaxAttempts`, by counting.
* `UnclassifiedErrorsHaveCause`, `OneEventEach`, `OrphansAreExplained`,
  `NamesAreAlwaysExplained`: clauses on `TrailInv` that carry the cause from
  the step where it arises (`HoldersSeeDeletion`, `DeletesHaveRecorded`,
  `SeenNamesGiven`) to the answer that needs it. A rename has given its name
  only if its UPDATE returned the row, which it holds from then on
  (`HeldAfterUpdate`); one that holds none found the row gone, so its event is
  of a file with a recorded deletion and its answer is an error.
* `FileServicesImplementCatalog`: under `StoresInv` the catalog that clients
  see is the files table, and under `OwnerInv` each step is a step of the same
  request on the catalog, or a stutter.

`HttpServer`

* `ServerImplementsFileServices`, by the identity. A statement that the ending
  pool refuses is a statement that fails for good, a request that is lost is one
  that crashes, and every item of a batch is a request. The last needs
  `BatchInv`: a batch that is being served has passed `assertBatchSize`. So the
  theorems above hold of the server; `ServedRowsHaveBlobs` says it of one.
* `ServerTypeCorrect`: `PoolInv` adds that the process of a request at work is
  not down and that a batch that has not arrived has no item under way:
  otherwise its arrival could move a checked-out client to another process.
* `BatchReportsAreTrue`: `ReportInv` ties the answer to the answers of the
  items; that those are true is what `DeletesAreFinal`, `AckedUploadsAreDurable`
  and `RefusalsChangeNothing` say, which hold of the server by the refinement.

`SignedFileApi`

* `ApiTypesAreCorrect`: `ApiTypeInv` extends the shapes to the other services
  and the URL in hand (`SignersSign`).
* `LinksBelong`: `LinkInv`. A link in the table is the one its sign request
  drew and still holds (`LinksAreSigned`), and the cascade and the foreign key
  keep it with the row of its file.
* `URLsAreRecorded`, `RedemptionsAreAudited`: `GivenInv` says the same of the
  requests that are between the effect and its event.
* `OwnersKeepHistory`: `ToldInv` collects what earlier answers said
  (`before`, `AckedDeletesAreRecorded`), `HistoryInv` what the request has
  looked at; between its two queries the row may go, and the event of its
  deletion is the owner's (`DeletersOwn`).
* `RevocationsAreOnce`, `NoneIsServedAfterward`, `ReadersSeeWhatWasTold`: what
  is gone stays gone (`GoneInv`), a revoked id is either in the table as revoked
  or can never be inserted again (`RevokedStayRevoked`), and therefore a request
  that arrived after the answer finds it so at each of its awaits (`ServiceInv`,
  `AnswerInv`).
* `URLsLiveTheirLifetime`: `LifetimeInv` says that the verdict of a download is
  `Verify` at the time of its arrival, and that who is past it holds a URL of
  which only the spelling of the expiry may differ from one handed out
  (`AsSigned`); the rest is arithmetic of whole seconds (`SecondsPass`), for any
  number of ticks in a second and any lifetime.
* `ApiRowsHaveBlobs`: `RowHasBlob` again, with all services around
  (`BlobsInv`).
* `RefusalsHaveCause`: `KeptInv` says that a URL that was handed out has its
  link until its file's deletion is recorded, `RevokedHasCause` that a revoked
  link has a request that revoked it. The case that is left is the signature
  spelled otherwise.
* `SigningFailsOnConflict`: `ConflictInv`. An id is inserted once, so the only
  row in its way is another request's, with the same file and expiry.

`Resilience`

* `ResilienceTypeCorrect`, `CallsEndInTime`: `Timely` says that a running
  attempt began within budget, delay and lateness, and that a sleeping call
  failed within the budget.
* `RetryKeepsPromise`: `Resilience` implements `ResilientCall`, by the mapping
  that counts a sleeping call as already at its next attempt.
* `BackoffSpreadsAttempts`: `SpreadAt` carries the sum of the shortest delays
  along, from the failure over the sleep to the next attempt. The sum is a
  recursive function; that it satisfies its equation is shown by writing out
  its ten values (`LeastWaitUnfolds`).
* `OutagesAreOutlasted`: `OutlastedAt` carries what a call that gave up had
  waited; the wait before its last attempt is the one that `SpreadAt` gives for
  that attempt, and time goes only forward.

### What is only model-checked

Liveness: `EveryRequestIsAnswered`, `OrphansAreReclaimed`, `EveryBatchIsAnswered`,
`ShutdownEnds`, `EveryCallEnds`. The prover does not reason about fairness and
ENABLED. The counterexamples of section 3 are behaviours;
there is nothing to prove.

## 5. Not modelled

* Health, logging and the API document: output that nothing reads back.
* Metrics: request counts, latencies, `service_errors_total`, the two retry
  counters and the text format. (README.md:182 calls the error
  handler "the one place guaranteed to see every failure, from any layer". The
  failures of a batch's items are caught by the loop, as `BatchServices` has it,
  and reach neither the handler nor its counter.)
* The text of answers and their exact statuses: 4xx and 5xx are told apart by
  `HttpErrorCode`, the failing store by `Layer`. (README.md:79 promises a batch
  the status 201 when every item succeeds and a `code` for each failed one; a
  batch delete answers 200, and an item that failed with a database or storage
  error has no code. `Coded` is the set of those that have.)
* Requests that end before any state is touched: no `X-User-Id`, malformed JSON
  or ids, unknown routes. The model has them as commands that are not valid.
* The parsing of the configuration; the ranges of the retry policy are the
  assumptions of `Resilience`. Nothing else of it is read after the start.
* Cryptography: a signature cannot be forged and differs for different claims.
* What happens inside Postgres and the driver: locking, the pool's queue, DDL
  that two instances run at once, a statement that never settles.

## 6. Plan

The model covers the service, and every safety property that is checked is
proved. What could be added:

1. `SignedFileApi` with its file operations implements `FileCatalog` as well; the
   proof would follow `FileCatalogProofs` with the links around.
2. The theorems that assume `InsertsAreNotRepeated`, for requests whose file was
   acknowledged before a delete of it arrived: the assumption is needed only for
   uploads that are still under way.
3. The metrics of the error boundary, should they be given a meaning that the
   code is meant to keep.
