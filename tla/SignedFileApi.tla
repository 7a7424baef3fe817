---------------------------- MODULE SignedFileApi ----------------------------
(***************************************************************************)
(* The service as its clients see it: the file services, the link services *)
(* and the reading endpoints over one database and one blob storage, with  *)
(* the clock.                                                              *)
(***************************************************************************)
EXTENDS FileServices, LinkServices, ReadServices

\* before[r]: the requests that had been answered when r arrived.  The code
\* has no such variable; it lets the properties say "after".
VARIABLE before

apiVars == <<stores, flow, now, signer, listed, before>>

ApiInit ==
  /\ Init
  /\ now = 0
  /\ signer = [r \in Request |-> None]
  /\ ListedInit
  /\ before = [r \in Request |-> {}]

Arrive(r) ==
  /\ \/ (ReceiveFileOp(r) \/ ReceiveRead(r)) /\ UNCHANGED signer
     \/ ReceiveLinkOp(r)
  /\ before' = [before EXCEPT ![r] = {q \in Request : pc[q] = "done"}]
  /\ UNCHANGED <<now, listed>>

Proceed(r) ==
  /\ \/ (FileStep(r) \/ Fault(r)) /\ UNCHANGED <<signer, listed>>
     \/ LinkStep(r) /\ UNCHANGED listed
     \/ ReadStep(r) /\ UNCHANGED signer
  /\ UNCHANGED <<now, before>>

Stop(r) == Crash(r) /\ UNCHANGED <<now, signer, listed, before>>

Wait == Tick /\ UNCHANGED <<stores, flow, signer, listed, before>>

ApiNext == Wait \/ \E r \in Request : Arrive(r) \/ Proceed(r) \/ Stop(r)

ApiSpec == ApiInit /\ [][ApiNext]_apiVars

\* Every call to Postgres and to the storage settles, well or badly, so a
\* request that has arrived keeps moving.  Nothing obliges a client to send
\* one, nothing makes a retry succeed, and the clock need not move.
ApiFairSpec == ApiSpec /\ \A r \in Request : WF_apiVars(Proceed(r))

ApiTypeOK ==
  /\ TypeOK
  /\ now \in 0 .. MaxTime
  /\ \A r \in Request : signer[r] # None =>
       /\ signer[r].at \in 0 .. now
       /\ signer[r].url.file \in FileId
  /\ ListedTypeOK
  /\ before \in [Request -> SUBSET Request]

----------------------------------------------------------------------------
(* Properties. *)

Answered(r, op, code) == resp[r] = code /\ req[r].op = op

\* Requests that were told of a success before r arrived.
DoneBefore(r, op) == {q \in before[r] : Answered(q, op, "ok")}

RevokesOf(link) == {q \in Request : /\ req[q] # None /\ req[q].op = "revoke"
                                   /\ req[q].arg = link.id /\ req[q].file = link.file}

\* A revoke reached the row of the link: it was told so, or is about to
\* record it, or failed on the way.
RevokedBy(q) == \/ pc[q] = "revoke.audit"
                \/ resp[q] \in {"ok", "lost", "database", "SIGNED_LINK_NOT_FOUND"}

\* Once an owner was told that a link is revoked, or that its file is
\* deleted, no download that arrives later is served, though acknowledgements
\* are lost and statements repeated (but for the INSERT of a file, whose
\* repetition would bring a deleted row back).
NoServiceAfterward ==
  \A r \in Request : Answered(r, "download", "ok") =>
    \A q \in DoneBefore(r, "revoke") \cup DoneBefore(r, "delete") :
      /\ req[q].op = "delete" => req[q].file # req[r].file
      /\ req[q].op = "revoke" => req[q].arg # held[r].id \/ req[q].file # req[r].file

\* Whoever gets bytes, or is told that the link does not entitle him to them,
\* is in the audit trail, under the user the link belongs to.
RedemptionIsAudited ==
  \A r \in Request : req[r] # None /\ req[r].op = "download" =>
    /\ resp[r] \in {"ok", "BLOB_MISSING"} =>
         \E e \in EventsBy(r) : /\ e.type = "signed_link_downloaded"
                               /\ e.link = held[r].id /\ e.user = held[r].user
    /\ resp[r] \in {"LINK_REVOKED", "UNKNOWN_LINK"} =>
         \E e \in EventsBy(r) : e.type = "signed_link_download_rejected"

\* A URL that was handed out has its row, so it can be listed and revoked,
\* until its file is being deleted, and its generation is in the trail.
HandedOutIsRecorded ==
  \A r \in Request : Answered(r, "sign", "ok") =>
    /\ \E e \in EventsBy(r) : e.type = "signed_link_generated" /\ e.exp = held[r].exp
    /\ \/ \E l \in links : l.id = r /\ l.file = held[r].file /\ l.exp = held[r].exp
       \/ Deleted(req[r].file)

\* Two revokes of one link cannot both succeed.
RevokedOnce ==
  \A q, r \in Request :
    Answered(q, "revoke", "ok") /\ Answered(r, "revoke", "ok") /\ req[q].arg = req[r].arg
      => q = r

\* A link gives access to a file of the user who made it: deleting a file
\* takes its links along, and no link is inserted for a file that is gone.
LinksBelongToOwners ==
  \A l \in links : files[l.file] # None /\ files[l.file].user = l.user

\* A holder of a good URL is refused only when somebody caused it: nothing
\* is missing before its deletion is in the trail, and nothing is revoked
\* that no revoke request named.  Only who spells the signature otherwise
\* passes the signer and is unknown to the table.
RefusalHasCause ==
  \A r \in Request : req[r] # None /\ req[r].op = "download" =>
    /\ resp[r] \in {"FILE_NOT_FOUND", "BLOB_MISSING"} => Deleted(req[r].file)
    /\ resp[r] = "UNKNOWN_LINK" => Deleted(req[r].file) \/ ~signer[r].url.signature.lower
    /\ resp[r] = "LINK_REVOKED" => \E q \in RevokesOf(held[r]) : RevokedBy(q)

\* With a database that works, signing fails only because the row went away
\* meanwhile or because the same expiry is already signed for the file.
SignFailsOnConflict ==
  \A r \in Request : Answered(r, "sign", "database") =>
    \/ Deleted(req[r].file)
    \/ \E e \in audit : /\ e.type = "signed_link_generated" /\ e.id[1] # r
                        /\ e.file = req[r].file /\ e.exp = held[r].exp
    \/ \E q \in Request \ {r} : /\ req[q] # None /\ req[q].op = "sign"
                               /\ held[q] # None /\ held[q].file = req[r].file
                               /\ held[q].exp = held[r].exp

\* A URL serves for the lifetime its owner asked for: whoever presents it is let
\* in for ttl whole seconds after it was signed, and never a second later than
\* that, in whatever way he spells the moment of its expiry; and nobody is
\* served whose URL names another file, another moment or another signature
\* than one that was handed out.
UrlLivesItsLifetime ==
  \A d \in Request : req[d] # None /\ req[d].op = "download" =>
    LET refused == resp[d] = "INVALID_SIGNED_URL" IN
    /\ resp[d] = "ok" => AsSigned(signer[d].url) \in HandedOut
    /\ \A s \in Request : Answered(s, "sign", "ok") /\ signer[s].url = AsSigned(signer[d].url) =>
         LET age == signer[d].at - signer[s].at IN
         /\ age <= req[s].exp * TicksPerSecond => ~refused
         /\ age >= (req[s].exp + 1) * TicksPerSecond => refused

\* Clients read what they were told.  An answer shows every file and every
\* link of which the caller was told before he asked, unless the deletion of
\* the file is recorded; nothing of a file he was told is deleted; and a link
\* he was told is revoked only as revoked.
AnswersShowWhatWasTold ==
  \A r \in Request : req[r] # None /\ req[r].op \in {"get", "list", "links"} =>
    LET told(op) == {q \in DoneBefore(r, op) : /\ req[q].user = req[r].user
                                               /\ req[r].op = "list" \/ req[q].file = req[r].file}
        shown == listed[r] \cup {l.id : l \in listed[r] \ FileId}
    IN
    /\ resp[r] \in {"ok", "FILE_NOT_FOUND"} =>
         \A q \in told(IF req[r].op = "links" THEN "sign" ELSE "upload") :
           q \in shown \/ Deleted(req[q].file)
    /\ \A q \in told("delete") :
         IF req[r].op = "list" THEN req[q].file \notin shown ELSE resp[r] # "ok"
    /\ \A l \in listed[r] \ FileId, q \in told("revoke") : req[q].arg = l.id => l.revoked

\* The owner of a file reads its history, before and after its deletion: he
\* is told that there is no such file only if it was not there when he asked.
OwnerKeepsHistory ==
  \A r \in Request : Answered(r, "history", "FILE_NOT_FOUND") =>
    \A q \in DoneBefore(r, "upload") \cup DoneBefore(r, "delete") :
      req[q].file = req[r].file => req[q].user # req[r].user

\* Every request is answered, of whatever kind, whatever fails in the database
\* and however often it is retried, as long as the drivers' calls settle.
EveryRequestIsAnswered == \A r \in Request : req[r] # None ~> pc[r] = "done"

----------------------------------------------------------------------------
(* What the repository says of itself and the code does not do. *)

\* docs/architecture.md on the audit: it "returns the full event history:
\* generation, [...] revocations": a revoked link has its event once no
\* revoke request is at work any more.
RevocationIsInHistory ==
  \A l \in links : l.revoked =>
    \/ \E e \in audit : e.type = "signed_link_revoked" /\ e.link = l.id
    \/ \E q \in RevokesOf(l) : Active(q)
=============================================================================
