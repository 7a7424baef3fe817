---------------------------- MODULE LinkServices ----------------------------
(***************************************************************************)
(* The services around signed links: creating one, revoking one, serving a *)
(* download for one (src/modules/signed-links, src/modules/downloads), and *)
(* the audit history (src/modules/audit).  Only these read the clock.      *)
(***************************************************************************)
EXTENDS RequestFlow, UrlSigner

CONSTANTS
  MaxTtl,    \* MAX_TTL_SECONDS
  MaxTime    \* bound on the clock, in ticks

ASSUME TimesAreNatural == MaxTtl \in Nat /\ MaxTime \in Nat

VARIABLES
  now,     \* Date.now()
  signer   \* signer[r]: the URL that r's call of the UrlSigner made or was
           \* given, and the time it read; None before the call

\* The URLs clients hold: the response of a sign request hands one out.
HandedOut ==
  {signer[q].url : q \in {p \in Request : resp[p] = "ok" /\ req[p].op = "sign"}}
  \cup
  {[file |-> e.file, expires |-> String(e.exp), signature |-> ComputeSignature(e.file, e.exp)] :
     e \in {d \in audit : d.id[1] \in StoredLink}}

\* findByFileAndSignature compares the text of the signature.
LinksGiven(r) ==
  {l \in LinksFor(req[r].file, req[r].exp) : signer[r].url.signature.lower}

\* The link ids a client can name in a revoke request.
DrawnLinks == StoredLink \cup {q \in Request : req[q] # None /\ req[q].op = "sign"}

----------------------------------------------------------------------------
(* Variants with a plausible bug; none is part of a specification.         *)

\* The URL is handed out without a row that could be revoked.
SignFindWithoutInsert(r) ==
  /\ pc[r] = "sign.find"
  /\ \/ Refuse(r) /\ UNCHANGED <<held, signer>>
     \/ /\ Owned(r)
        /\ Remember(r)
        /\ Goto(r, "sign.audit")
        /\ signer' = [signer EXCEPT ![r] =
                        [url |-> Sign(req[r].file, req[r].exp, now), at |-> now]]
        /\ held' = [held EXCEPT ![r] =
                      [id |-> r, file |-> req[r].file, exp |-> signer'[r].url.expires.number,
                       user |-> req[r].user, revoked |-> FALSE]]
  /\ UNCHANGED <<stores, req>>

\* revoked_at is not looked at.
DownloadRedeemRevoked(r) ==
  /\ pc[r] = "download.redeem"
  /\ \/ /\ LinksGiven(r) = {}
        /\ Goto(r, "download.reject")
        /\ UNCHANGED held
     \/ \E link \in LinksGiven(r) :
          /\ Goto(r, "download.audit")
          /\ held' = [held EXCEPT ![r] = link]
  /\ UNCHANGED <<stores, req, seen>>

\* The redemption is not awaited before the bytes are looked up.
DownloadRedeemUnaudited(r) ==
  /\ pc[r] = "download.redeem"
  /\ \/ /\ LinksGiven(r) = {}
        /\ Goto(r, "download.reject")
        /\ UNCHANGED held
     \/ \E link \in LinksGiven(r) :
          /\ Goto(r, IF link.revoked THEN "download.reject" ELSE "download.exists")
          /\ held' = [held EXCEPT ![r] = link]
  /\ UNCHANGED <<stores, req, seen>>

\* Without a row there is no file and no history.
HistoryFindOnlyFiles(r) ==
  /\ pc[r] = "history.find"
  /\ \/ Owned(r) /\ Goto(r, "history.list")
     \/ files[req[r].file] = None /\ Answer(r, "FILE_NOT_FOUND")
     \/ files[req[r].file] # None /\ ~Owned(r) /\ Answer(r, "FORBIDDEN")
  /\ UNCHANGED <<stores, req, seen, held>>

----------------------------------------------------------------------------
(* CreateSignedLinkService *)

ReceiveSign(r) ==
  \E user \in User, f \in DrawnIds, ttl \in 0 .. MaxTtl :
    Receive(r, [op |-> "sign", user |-> user, file |-> f, arg |-> None, exp |-> ttl],
            ttl >= 1, "sign.find")

\* The row read, the expiry is computed from the clock, and the link's id is
\* drawn, once for all attempts of the insert.
SignFind(r) ==
  /\ pc[r] = "sign.find"
  /\ \/ Refuse(r) /\ UNCHANGED <<held, signer>>
     \/ /\ Owned(r)
        /\ Remember(r)
        /\ Goto(r, "sign.insert")
        /\ signer' = [signer EXCEPT ![r] =
                        [url |-> Sign(req[r].file, req[r].exp, now), at |-> now]]
        /\ held' = [held EXCEPT ![r] =
                      [id |-> r, file |-> req[r].file, exp |-> signer'[r].url.expires.number,
                       user |-> req[r].user, revoked |-> FALSE]]
  /\ UNCHANGED <<stores, req>>

SignInsert(r) ==
  /\ pc[r] = "sign.insert"
  /\ \/ /\ CanInsertLink(held[r])
        /\ InsertLink(held[r])
        /\ Goto(r, "sign.audit") \/ Unacked(r)
     \/ /\ ~CanInsertLink(held[r])
        /\ Throw(r)
        /\ UNCHANGED links
  /\ UNCHANGED <<files, audit, blobs, req, seen, held>>

SignAudit(r) ==
  /\ pc[r] = "sign.audit"
  /\ InsertEvent([EventOf(r, "signed_link_generated") EXCEPT !.exp = held[r].exp])
  /\ Answer(r, "ok") \/ Unacked(r)
  /\ UNCHANGED <<files, links, blobs, req, seen, held>>

----------------------------------------------------------------------------
(* RevokeSignedLinkService *)

\* None is a link id that is no UUID.
ReceiveRevoke(r) ==
  \E user \in User, f \in DrawnIds, id \in DrawnLinks \cup {None} :
    Receive(r, [op |-> "revoke", user |-> user, file |-> f, arg |-> id, exp |-> 0],
            TRUE, "revoke.find")

\* Like the name of a rename, the link id is checked after the ownership.
RevokeFind(r) ==
  /\ pc[r] = "revoke.find"
  /\ \/ Refuse(r)
     \/ /\ Owned(r)
        /\ Remember(r)
        /\ IF req[r].arg = None THEN Answer(r, "VALIDATION") ELSE Goto(r, "revoke.update")
  /\ UNCHANGED <<stores, req, held>>

\* The UPDATE tells by its row count whether there was anything to revoke.
RevokeUpdate(r) ==
  /\ pc[r] = "revoke.update"
  /\ \/ /\ Revocable(req[r].arg, req[r].file) # {}
        /\ Goto(r, "revoke.audit") \/ Unacked(r)
     \/ /\ Revocable(req[r].arg, req[r].file) = {}
        /\ Answer(r, "SIGNED_LINK_NOT_FOUND")
  /\ RevokeLink(req[r].arg, req[r].file)
  /\ UNCHANGED <<files, audit, blobs, req, seen, held>>

RevokeAudit(r) ==
  /\ pc[r] = "revoke.audit"
  /\ InsertEvent([EventOf(r, "signed_link_revoked") EXCEPT !.link = req[r].arg])
  /\ Answer(r, "ok") \/ Unacked(r)
  /\ UNCHANGED <<files, links, blobs, req, seen, held>>

RevokeStep(r) == RevokeFind(r) \/ RevokeUpdate(r) \/ RevokeAudit(r)

----------------------------------------------------------------------------
(* DownloadFileService and RedeemSignedLinkService *)

\* The query of the request: a URL as it was handed out, one whose signature or
\* expiry is spelled otherwise, or one whose expiry or signature is that of
\* another, or missing, or an expiry that is no integer.
Presented ==
  HandedOut
  \cup {[u EXCEPT !.signature.lower = FALSE] : u \in HandedOut}
  \cup {[u EXCEPT !.expires = Respelled(u.expires)] : u \in HandedOut}
  \cup {[u EXCEPT !.expires = e] :
          u \in HandedOut,
          e \in {v.expires : v \in HandedOut} \cup {Blank, NoInteger}}
  \cup {[u EXCEPT !.signature = s] :
          u \in HandedOut, s \in {v.signature : v \in HandedOut} \cup {NoSignature}}

\* The URL is verified before the first await.
ReceiveDownload(r) ==
  /\ pc[r] = "idle"
  /\ "download" \in Ops
  /\ \E url \in Presented :
       /\ signer' = [signer EXCEPT ![r] = [url |-> url, at |-> now]]
       /\ req' = [req EXCEPT ![r] = [op |-> "download", user |-> None, file |-> url.file,
                                     arg |-> None, exp |-> url.expires.number]]
       /\ IF Verify(url, now) THEN Goto(r, "download.find") ELSE Answer(r, "INVALID_SIGNED_URL")
  /\ UNCHANGED <<stores, seen, held>>

\* getById: whoever has the link need not own the file.
DownloadFind(r) ==
  /\ pc[r] = "download.find"
  /\ \/ files[req[r].file] # None /\ Remember(r) /\ Goto(r, "download.redeem")
     \/ files[req[r].file] = None /\ Answer(r, "FILE_NOT_FOUND") /\ UNCHANGED seen
  /\ UNCHANGED <<stores, req, held>>

DownloadRedeem(r) ==
  /\ pc[r] = "download.redeem"
  /\ \/ /\ LinksGiven(r) = {}
        /\ Goto(r, "download.reject")
        /\ UNCHANGED held
     \/ \E link \in LinksGiven(r) :
          /\ Goto(r, IF link.revoked THEN "download.reject" ELSE "download.audit")
          /\ held' = [held EXCEPT ![r] = link]
  /\ UNCHANGED <<stores, req, seen>>

\* The event of a redemption is recorded for the user the link belongs to.
RedeemEvent(r, type) ==
  IF held[r] = None
    THEN [EventOf(r, type) EXCEPT !.user = Unknown]
    ELSE [EventOf(r, type) EXCEPT !.user = held[r].user, !.link = held[r].id,
                                  !.exp = held[r].exp]

DownloadReject(r) ==
  /\ pc[r] = "download.reject"
  /\ InsertEvent(RedeemEvent(r, "signed_link_download_rejected"))
  /\ Answer(r, IF held[r] = None THEN "UNKNOWN_LINK" ELSE "LINK_REVOKED") \/ Unacked(r)
  /\ UNCHANGED <<files, links, blobs, req, seen, held>>

DownloadAudit(r) ==
  /\ pc[r] = "download.audit"
  /\ InsertEvent(RedeemEvent(r, "signed_link_downloaded"))
  /\ Goto(r, "download.exists") \/ Unacked(r)
  /\ UNCHANGED <<files, links, blobs, req, seen, held>>

DownloadExists(r) ==
  /\ pc[r] = "download.exists"
  /\ IF HasBlob(req[r].file) THEN Goto(r, "download.read")
                             ELSE Answer(r, "BLOB_MISSING")
  /\ UNCHANGED <<stores, req, seen, held>>

\* The bytes may be gone since; then the read throws.
DownloadRead(r) ==
  /\ pc[r] = "download.read"
  /\ IF HasBlob(req[r].file) THEN Answer(r, "ok") ELSE Throw(r)
  /\ UNCHANGED <<stores, req, seen, held>>

DownloadStep(r) ==
  \/ DownloadFind(r) \/ DownloadRedeem(r) \/ DownloadReject(r)
  \/ DownloadAudit(r) \/ DownloadExists(r) \/ DownloadRead(r)

----------------------------------------------------------------------------
(* ListAuditEventsService *)

ReceiveHistory(r) ==
  \E user \in User, f \in DrawnIds :
    Receive(r, [op |-> "history", user |-> user, file |-> f, arg |-> None, exp |-> 0],
            TRUE, "history.find")

HistoryFind(r) ==
  /\ pc[r] = "history.find"
  /\ \/ Owned(r) /\ Goto(r, "history.list")
     \/ files[req[r].file] = None /\ Goto(r, "history.exists")
     \/ files[req[r].file] # None /\ ~Owned(r) /\ Answer(r, "FORBIDDEN")
  /\ UNCHANGED <<stores, req, seen, held>>

HistoryExists(r) ==
  /\ pc[r] = "history.exists"
  /\ IF HasEventBy(req[r].file, req[r].user) THEN Goto(r, "history.list")
                                             ELSE Answer(r, "FILE_NOT_FOUND")
  /\ UNCHANGED <<stores, req, seen, held>>

HistoryList(r) ==
  /\ pc[r] = "history.list"
  /\ Answer(r, "ok")
  /\ UNCHANGED <<stores, req, seen, held>>

HistoryStep(r) == HistoryFind(r) \/ HistoryExists(r) \/ HistoryList(r)

----------------------------------------------------------------------------
ReceiveLinkOp(r) ==
  \/ ReceiveDownload(r)
  \/ (ReceiveSign(r) \/ ReceiveRevoke(r) \/ ReceiveHistory(r)) /\ UNCHANGED signer

LinkStep(r) ==
  \/ SignFind(r)
  \/ /\ \/ SignInsert(r) \/ SignAudit(r)
        \/ RevokeStep(r) \/ DownloadStep(r) \/ HistoryStep(r)
     /\ UNCHANGED signer

Tick == /\ now < MaxTime
        /\ now' = now + 1
=============================================================================
