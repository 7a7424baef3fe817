------------------------- MODULE SignedFileApiProofs -------------------------
(***************************************************************************)
(* Proofs about SignedFileApi: the file services, the link services and    *)
(* the reading endpoints together, for any number of requests.  What the   *)
(* file services do is known from FileAuditProofs, step by step; here are  *)
(* the steps of the other services, and what holds between the tables, the *)
(* URLs and the answers.                                                   *)
(***************************************************************************)
EXTENDS SignedFileApi, FileAuditProofs

SignSteps == {"sign.find", "sign.insert", "sign.audit"}
RevokeSteps == {"revoke.find", "revoke.update", "revoke.audit"}
DownloadSteps == {"download.find", "download.redeem", "download.reject",
                  "download.audit", "download.exists", "download.read"}
HistorySteps == {"history.find", "history.exists", "history.list"}
ReadSteps == {"get.find", "list.select", "links.find", "links.select"}

----------------------------------------------------------------------------
(* One lemma per service: the step it is at, where it leads, and what      *)
(* becomes of the tables.                                                  *)

Refused(r) ==
  ~Owned(r) /\ Ended(r, IF files[req[r].file] = None THEN "FILE_NOT_FOUND" ELSE "FORBIDDEN")

LEMMA SignEffect ==
  ASSUME FlowTypeOK, NEW r \in Request,
         SignFind(r) \/ ((SignInsert(r) \/ SignAudit(r)) /\ UNCHANGED signer)
  PROVE  /\ Others(r) /\ UNCHANGED <<files, blobs, req>>
         /\ pc[r] \in SignSteps
         /\ pc[r] = "sign.find" =>
              /\ UNCHANGED stores
              /\ \/ Refused(r) /\ UNCHANGED <<seen, held, signer>>
                 \/ /\ Owned(r) /\ Went(r, "sign.insert")
                    /\ seen' = [seen EXCEPT ![r] = files[req[r].file]]
                    /\ signer' = [signer EXCEPT ![r] =
                                    [url |-> Sign(req[r].file, req[r].exp, now), at |-> now]]
                    /\ held' = [held EXCEPT ![r] =
                                  [id |-> r, file |-> req[r].file, exp |-> signer'[r].url.expires.number,
                                   user |-> req[r].user, revoked |-> FALSE]]
         /\ pc[r] = "sign.insert" =>
              /\ UNCHANGED <<audit, seen, held, signer>>
              /\ \/ /\ CanInsertLink(held[r]) /\ links' = links \cup {held[r]}
                    /\ Acked(r, Went(r, "sign.audit"))
                 \/ ~CanInsertLink(held[r]) /\ links' = links /\ Ended(r, "database")
         /\ pc[r] = "sign.audit" =>
              /\ UNCHANGED <<links, seen, held, signer>>
              /\ audit' = audit \cup {[EventOf(r, "signed_link_generated") EXCEPT !.exp = held[r].exp]}
              /\ Acked(r, Ended(r, "ok"))
<1>1. CASE SignFind(r)
  <2>1. Elsewhere(r)
    BY <1>1, ControlIsLocal DEF SignFind, Refuse
  <2>2. Others(r)
    BY <1>1, <2>1 DEF SignFind, Refuse, Remember, Others, Elsewhere, FlowTypeOK
  <2>3. UNCHANGED <<files, blobs, req>> /\ UNCHANGED stores /\ pc[r] = "sign.find"
    BY <1>1 DEF SignFind, stores
  <2>4. CASE Refuse(r) /\ UNCHANGED <<held, signer>>
    BY <2>2, <2>3, <2>4, ControlApplied DEF Refuse, Refused, SignSteps
  <2>5. CASE ~(Refuse(r) /\ UNCHANGED <<held, signer>>)
    BY <1>1, <2>2, <2>3, <2>5, ControlApplied DEF SignFind, Remember, SignSteps
  <2> QED BY <2>4, <2>5
<1>2. CASE SignInsert(r) /\ UNCHANGED signer
  <2>1. Elsewhere(r)
    BY <1>2, ControlIsLocal DEF SignInsert, Unacked, AttemptFails
  <2>2. Others(r)
    BY <1>2, <2>1 DEF SignInsert, Others, Elsewhere
  <2>3. CASE CanInsertLink(held[r])
    BY <1>2, <2>2, <2>3, ControlApplied DEF SignInsert, InsertLink, Unacked, Acked, SignSteps
  <2>4. CASE ~CanInsertLink(held[r])
    <3>1. pc[r] = "sign.insert" /\ Answer(r, "database")
      BY <1>2, <2>4 DEF SignInsert, Throw, Layer, StorageStep
    <3> QED BY <1>2, <2>2, <2>4, <3>1, ControlApplied DEF SignInsert, SignSteps
  <2> QED BY <2>3, <2>4
<1>3. CASE SignAudit(r) /\ UNCHANGED signer
  <2>1. Elsewhere(r)
    BY <1>3, ControlIsLocal DEF SignAudit, Unacked
  <2>2. Others(r)
    BY <1>3, <2>1 DEF SignAudit, Others, Elsewhere
  <2> QED BY <1>3, <2>2, ControlApplied DEF SignAudit, InsertEvent, Unacked, Acked, SignSteps
<1> QED BY <1>1, <1>2, <1>3

LEMMA RevokeEffect ==
  ASSUME FlowTypeOK, NEW r \in Request, RevokeStep(r)
  PROVE  /\ Others(r) /\ UNCHANGED <<files, blobs, req, held>>
         /\ pc[r] \in RevokeSteps
         /\ pc[r] = "revoke.find" =>
              /\ UNCHANGED stores
              /\ \/ Refused(r) /\ UNCHANGED seen
                 \/ /\ Owned(r)
                    /\ IF req[r].arg = None THEN Ended(r, "VALIDATION") ELSE Went(r, "revoke.update")
                    /\ seen' = [seen EXCEPT ![r] = files[req[r].file]]
         /\ pc[r] = "revoke.update" =>
              /\ UNCHANGED <<audit, seen>>
              /\ RevokeLink(req[r].arg, req[r].file)
              /\ \/ /\ Revocable(req[r].arg, req[r].file) # {}
                    /\ Acked(r, Went(r, "revoke.audit"))
                 \/ /\ Revocable(req[r].arg, req[r].file) = {}
                    /\ Ended(r, "SIGNED_LINK_NOT_FOUND")
         /\ pc[r] = "revoke.audit" =>
              /\ UNCHANGED <<links, seen>>
              /\ audit' = audit \cup {[EventOf(r, "signed_link_revoked") EXCEPT !.link = req[r].arg]}
              /\ Acked(r, Ended(r, "ok"))
<1>1. CASE RevokeFind(r)
  <2>1. Elsewhere(r)
    BY <1>1, ControlIsLocal DEF RevokeFind, GetOwned, Refuse
  <2>2. Others(r)
    BY <1>1, <2>1 DEF RevokeFind, GetOwned, Refuse, Remember, Others, Elsewhere, FlowTypeOK
  <2> QED BY <1>1, <2>2, ControlApplied
          DEF RevokeFind, GetOwned, Refuse, Refused, Remember, RevokeSteps, stores
<1>2. CASE RevokeUpdate(r)
  <2>1. Elsewhere(r)
    BY <1>2, ControlIsLocal DEF RevokeUpdate, Unacked
  <2>2. Others(r)
    BY <1>2, <2>1 DEF RevokeUpdate, Others, Elsewhere
  <2> QED BY <1>2, <2>2, ControlApplied DEF RevokeUpdate, Unacked, Acked, RevokeSteps
<1>3. CASE RevokeAudit(r)
  <2>1. Elsewhere(r)
    BY <1>3, ControlIsLocal DEF RevokeAudit, Unacked
  <2>2. Others(r)
    BY <1>3, <2>1 DEF RevokeAudit, Others, Elsewhere
  <2> QED BY <1>3, <2>2, ControlApplied DEF RevokeAudit, InsertEvent, Unacked, Acked, RevokeSteps
<1> QED BY <1>1, <1>2, <1>3 DEF RevokeStep

LEMMA DownloadEffect ==
  ASSUME FlowTypeOK, NEW r \in Request, DownloadStep(r)
  PROVE  /\ Others(r) /\ UNCHANGED <<files, blobs, links, req>>
         /\ pc[r] \in DownloadSteps
         /\ pc[r] = "download.find" =>
              /\ UNCHANGED <<stores, held>>
              /\ \/ files[req[r].file] = None /\ Ended(r, "FILE_NOT_FOUND") /\ UNCHANGED seen
                 \/ /\ files[req[r].file] # None /\ Went(r, "download.redeem")
                    /\ seen' = [seen EXCEPT ![r] = files[req[r].file]]
         /\ pc[r] = "download.redeem" =>
              /\ UNCHANGED <<stores, seen>>
              /\ \/ LinksGiven(r) = {} /\ UNCHANGED held /\ Went(r, "download.reject")
                 \/ \E link \in LinksGiven(r) :
                      /\ held' = [held EXCEPT ![r] = link]
                      /\ Went(r, IF link.revoked THEN "download.reject" ELSE "download.audit")
         /\ pc[r] = "download.reject" =>
              /\ UNCHANGED <<seen, held>>
              /\ audit' = audit \cup {RedeemEvent(r, "signed_link_download_rejected")}
              /\ Acked(r, Ended(r, IF held[r] = None THEN "UNKNOWN_LINK" ELSE "LINK_REVOKED"))
         /\ pc[r] = "download.audit" =>
              /\ UNCHANGED <<seen, held>>
              /\ audit' = audit \cup {RedeemEvent(r, "signed_link_downloaded")}
              /\ Acked(r, Went(r, "download.exists"))
         /\ pc[r] = "download.exists" =>
              /\ UNCHANGED <<stores, seen, held>>
              /\ IF HasBlob(req[r].file) THEN Went(r, "download.read")
                                         ELSE Ended(r, "BLOB_MISSING")
         /\ pc[r] = "download.read" =>
              /\ UNCHANGED <<stores, seen, held>>
              /\ IF HasBlob(req[r].file) THEN Ended(r, "ok") ELSE Ended(r, "storage")
<1>1. CASE DownloadFind(r)
  <2>1. Elsewhere(r)
    BY <1>1, ControlIsLocal DEF DownloadFind
  <2>2. Others(r)
    BY <1>1, <2>1 DEF DownloadFind, Remember, Others, Elsewhere, FlowTypeOK
  <2> QED BY <1>1, <2>2, ControlApplied DEF DownloadFind, Remember, DownloadSteps, stores
<1>2. CASE DownloadRedeem(r)
  <2>1. Elsewhere(r)
    BY <1>2, ControlIsLocal DEF DownloadRedeem
  <2>2. Others(r)
    BY <1>2, <2>1 DEF DownloadRedeem, Others, Elsewhere, FlowTypeOK
  <2> QED BY <1>2, <2>2, ControlApplied DEF DownloadRedeem, DownloadSteps, stores
<1>3. CASE DownloadReject(r)
  <2>1. Elsewhere(r)
    BY <1>3, ControlIsLocal DEF DownloadReject, Unacked
  <2>2. Others(r)
    BY <1>3, <2>1 DEF DownloadReject, Others, Elsewhere
  <2> QED BY <1>3, <2>2, ControlApplied DEF DownloadReject, InsertEvent, Unacked, Acked, DownloadSteps
<1>4. CASE DownloadAudit(r)
  <2>1. Elsewhere(r)
    BY <1>4, ControlIsLocal DEF DownloadAudit, Unacked
  <2>2. Others(r)
    BY <1>4, <2>1 DEF DownloadAudit, Others, Elsewhere
  <2> QED BY <1>4, <2>2, ControlApplied DEF DownloadAudit, InsertEvent, Unacked, Acked, DownloadSteps
<1>5. CASE DownloadExists(r)
  <2>1. Elsewhere(r)
    BY <1>5, ControlIsLocal DEF DownloadExists
  <2>2. Others(r)
    BY <1>5, <2>1 DEF DownloadExists, Others, Elsewhere
  <2> QED BY <1>5, <2>2, ControlApplied DEF DownloadExists, DownloadSteps, stores
<1>6. CASE DownloadRead(r)
  <2>1. pc[r] = "download.read" /\ ~HasBlob(req[r].file) => Answer(r, "storage")
    BY <1>6 DEF DownloadRead, Throw, Layer, StorageStep
  <2>2. Elsewhere(r)
    BY <1>6, <2>1, ControlIsLocal DEF DownloadRead
  <2>3. Others(r)
    BY <1>6, <2>2 DEF DownloadRead, Others, Elsewhere
  <2> QED BY <1>6, <2>1, <2>3, ControlApplied DEF DownloadRead, DownloadSteps, stores
<1> QED BY <1>1, <1>2, <1>3, <1>4, <1>5, <1>6 DEF DownloadStep

LEMMA HistoryEffect ==
  ASSUME FlowTypeOK, NEW r \in Request, HistoryStep(r)
  PROVE  /\ Others(r) /\ UNCHANGED <<stores, req, seen, held>>
         /\ pc[r] \in HistorySteps
         /\ pc[r] = "history.find" =>
              \/ Owned(r) /\ Went(r, "history.list")
              \/ files[req[r].file] = None /\ Went(r, "history.exists")
              \/ files[req[r].file] # None /\ ~Owned(r) /\ Ended(r, "FORBIDDEN")
         /\ pc[r] = "history.exists" =>
              IF HasEventBy(req[r].file, req[r].user) THEN Went(r, "history.list")
                                                      ELSE Ended(r, "FILE_NOT_FOUND")
         /\ pc[r] = "history.list" => Ended(r, "ok")
<1>1. UNCHANGED <<stores, req, seen, held>>
  BY DEF HistoryStep, HistoryFind, HistoryExists, HistoryList
<1>2. Elsewhere(r)
  BY ControlIsLocal DEF HistoryStep, HistoryFind, HistoryExists, HistoryList
<1>3. Others(r)
  BY <1>1, <1>2 DEF Others, Elsewhere
<1> QED BY <1>1, <1>3, ControlApplied
        DEF HistoryStep, HistoryFind, HistoryExists, HistoryList, HistorySteps

LEMMA ReadEffect ==
  ASSUME FlowTypeOK, ListedTypeOK, NEW r \in Request, ReadStep(r)
  PROVE  /\ Others(r) /\ UNCHANGED <<stores, req, held>>
         /\ \A s \in Request : s # r => listed'[s] = listed[s]
         /\ pc[r] \in ReadSteps
         /\ pc[r] = "get.find" =>
              \/ Refused(r) /\ UNCHANGED <<seen, listed>>
              \/ /\ Owned(r) /\ Ended(r, "ok")
                 /\ seen' = [seen EXCEPT ![r] = files[req[r].file]]
                 /\ listed'[r] = {req[r].file}
         /\ pc[r] = "list.select" =>
              /\ UNCHANGED seen /\ Ended(r, "ok")
              /\ listed'[r] = {f \in FileId : files[f] # None /\ files[f].user = req[r].user}
         /\ pc[r] = "links.find" =>
              /\ UNCHANGED listed
              /\ \/ Refused(r) /\ UNCHANGED seen
                 \/ /\ Owned(r) /\ Went(r, "links.select")
                    /\ seen' = [seen EXCEPT ![r] = files[req[r].file]]
         /\ pc[r] = "links.select" =>
              /\ UNCHANGED seen /\ Ended(r, "ok")
              /\ listed'[r] = {l \in links : l.file = req[r].file}
<1> USE DEF ListedTypeOK
<1>1. UNCHANGED <<stores, req, held>>
  BY DEF ReadStep, GetFind, ListSelect, LinksFind, LinksSelect
<1>2. Elsewhere(r)
  BY ControlIsLocal DEF ReadStep, GetFind, ListSelect, LinksFind, LinksSelect, GetOwned, Refuse, Show
<1>3. Others(r)
  BY <1>1, <1>2 DEF Others, Elsewhere, ReadStep, GetFind, ListSelect, LinksFind, LinksSelect,
     GetOwned, Refuse, Remember, FlowTypeOK
<1>4. CASE GetFind(r)
  BY <1>1, <1>3, <1>4, ControlApplied DEF GetFind, Refuse, Refused, Remember, Show, ReadSteps
<1>5. CASE ListSelect(r)
  BY <1>1, <1>3, <1>5, ControlApplied DEF ListSelect, Show, ReadSteps
<1>6. CASE LinksFind(r)
  BY <1>1, <1>3, <1>6, ControlApplied DEF LinksFind, GetOwned, Refuse, Refused, Remember, ReadSteps
<1>7. CASE LinksSelect(r)
  BY <1>1, <1>3, <1>7, ControlApplied DEF LinksSelect, Show, ReadSteps
<1> QED BY <1>4, <1>5, <1>6, <1>7 DEF ReadStep

\* The first step of the services that are not file services.
FirstStep(op) ==
  CASE op = "sign" -> "sign.find"
    [] op = "revoke" -> "revoke.find"
    [] op = "history" -> "history.find"
    [] op = "get" -> "get.find"
    [] op = "links" -> "links.find"
    [] op = "list" -> "list.select"

LEMMA ReceiveApplied ==
  ASSUME FlowTypeOK, NEW r \in Request, NEW command, NEW valid, NEW first,
         Receive(r, command, valid, first)
  PROVE  /\ Others(r) /\ pc[r] = "idle" /\ UNCHANGED <<stores, seen, held>>
         /\ req' = [req EXCEPT ![r] = command] /\ req'[r] = command
         /\ command.op \in Ops
         /\ IF valid THEN Went(r, first) ELSE Ended(r, "VALIDATION")
<1>1. /\ pc[r] = "idle" /\ UNCHANGED <<stores, seen, held>>
      /\ req' = [req EXCEPT ![r] = command] /\ req'[r] = command /\ command.op \in Ops
      /\ \A s \in Request : s # r => req'[s] = req[s]
  BY DEF Receive, FlowTypeOK
<1>2. Elsewhere(r) /\ IF valid THEN Went(r, first) ELSE Ended(r, "VALIDATION")
  BY ControlApplied, ControlIsLocal DEF Receive
<1> QED BY <1>1, <1>2 DEF Others, Elsewhere

LEMMA ReceiveOtherEffect ==
  ASSUME FlowTypeOK, NEW r \in Request,
         ReceiveSign(r) \/ ReceiveRevoke(r) \/ ReceiveHistory(r) \/ ReceiveRead(r)
  PROVE  /\ Others(r) /\ pc[r] = "idle" /\ UNCHANGED <<stores, seen, held>>
         /\ req' = [req EXCEPT ![r] = req'[r]]
         /\ req'[r] \in Command /\ req'[r].user \in User
         /\ req'[r].op \in {"sign", "revoke", "history", "get", "list", "links"}
         /\ req'[r].op = "revoke" => req'[r].arg \in LinkId \cup {None}
         /\ \/ Ended(r, "VALIDATION")
            \/ Went(r, FirstStep(req'[r].op))
<1>1. DrawnIds \subseteq FileId /\ DrawnLinks \subseteq LinkId /\ r \in FileId
  BY DEF DrawnIds, FileId, DrawnLinks, LinkId
<1>2. ASSUME NEW op \in Op, NEW user \in User, NEW f \in FileId, NEW arg \in LinkId \cup {None},
             NEW exp \in Nat
      PROVE  [op |-> op, user |-> user, file |-> f, arg |-> arg, exp |-> exp] \in Command
  BY DEF Command
<1>3. ASSUME NEW command \in Command, NEW valid, NEW first,
             Receive(r, command, valid, first), command.user \in User,
             command.op \in {"sign", "revoke", "history", "get", "list", "links"},
             first = FirstStep(command.op), command.op = "revoke" => command.arg \in LinkId \cup {None}
      PROVE  /\ Others(r) /\ pc[r] = "idle" /\ UNCHANGED <<stores, seen, held>>
             /\ req' = [req EXCEPT ![r] = req'[r]]
             /\ req'[r] \in Command /\ req'[r].user \in User
             /\ req'[r].op \in {"sign", "revoke", "history", "get", "list", "links"}
             /\ req'[r].op = "revoke" => req'[r].arg \in LinkId \cup {None}
             /\ Ended(r, "VALIDATION") \/ Went(r, FirstStep(req'[r].op))
  BY <1>3, ReceiveApplied
<1>4. CASE ReceiveSign(r)
  <2>1. PICK user \in User, f \in DrawnIds, ttl \in 0 .. MaxTtl :
          Receive(r, [op |-> "sign", user |-> user, file |-> f, arg |-> None, exp |-> ttl],
                  ttl >= 1, "sign.find")
    BY <1>4 DEF ReceiveSign
  <2> DEFINE command == [op |-> "sign", user |-> user, file |-> f, arg |-> None, exp |-> ttl]
  <2>2. command \in Command
    BY <1>1, <1>2, TimesAreNatural DEF Op
  <2> QED BY <1>3, <2>1, <2>2 DEF FirstStep
<1>5. CASE ReceiveRevoke(r)
  <2>1. PICK user \in User, f \in DrawnIds, id \in DrawnLinks \cup {None} :
          Receive(r, [op |-> "revoke", user |-> user, file |-> f, arg |-> id, exp |-> 0],
                  TRUE, "revoke.find")
    BY <1>5 DEF ReceiveRevoke
  <2> DEFINE command == [op |-> "revoke", user |-> user, file |-> f, arg |-> id, exp |-> 0]
  <2>2. command \in Command
    BY <1>1, <1>2 DEF Op
  <2> QED BY <1>1, <1>3, <2>1, <2>2 DEF FirstStep
<1>6. CASE ReceiveHistory(r)
  <2>1. PICK user \in User, f \in DrawnIds :
          Receive(r, [op |-> "history", user |-> user, file |-> f, arg |-> None, exp |-> 0],
                  TRUE, "history.find")
    BY <1>6 DEF ReceiveHistory
  <2> DEFINE command == [op |-> "history", user |-> user, file |-> f, arg |-> None, exp |-> 0]
  <2>2. command \in Command
    BY <1>1, <1>2 DEF Op
  <2> QED BY <1>3, <2>1, <2>2 DEF FirstStep
<1>7. CASE ReceiveRead(r)
  <2>1. PICK user \in User, f \in FileId, op \in {"get", "links", "list"} :
          Receive(r, [op |-> op, user |-> user, file |-> f, arg |-> None, exp |-> 0],
                  TRUE, FirstStep(op))
    BY <1>1, <1>7 DEF ReceiveRead, FirstStep
  <2> DEFINE command == [op |-> op, user |-> user, file |-> f, arg |-> None, exp |-> 0]
  <2>2. command \in Command
    BY <1>2 DEF Op
  <2> QED BY <1>3, <2>1, <2>2
<1> QED BY <1>4, <1>5, <1>6, <1>7

\* A download names a URL; it is verified at once.
LEMMA ReceiveDownloadEffect ==
  ASSUME FlowTypeOK, signer = [r \in Request |-> signer[r]], NEW r \in Request, ReceiveDownload(r)
  PROVE  /\ Others(r) /\ pc[r] = "idle" /\ UNCHANGED <<stores, seen, held>>
         /\ req' = [req EXCEPT ![r] = req'[r]]
         /\ \E url \in Presented :
              /\ signer' = [signer EXCEPT ![r] = [url |-> url, at |-> now]]
              /\ req'[r] = [op |-> "download", user |-> None, file |-> url.file, arg |-> None,
                            exp |-> url.expires.number]
              /\ IF Verify(url, now) THEN Went(r, "download.find")
                                     ELSE Ended(r, "INVALID_SIGNED_URL")
<1>1. PICK url \in Presented :
        /\ signer' = [signer EXCEPT ![r] = [url |-> url, at |-> now]]
        /\ req' = [req EXCEPT ![r] = [op |-> "download", user |-> None, file |-> url.file,
                                      arg |-> None,
                                      exp |-> url.expires.number]]
        /\ IF Verify(url, now) THEN Goto(r, "download.find") ELSE Answer(r, "INVALID_SIGNED_URL")
  BY DEF ReceiveDownload
<1>2. pc[r] = "idle" /\ UNCHANGED <<stores, seen, held>>
  BY DEF ReceiveDownload
<1>3. Elsewhere(r)
  BY <1>1, ControlIsLocal
<1>4. /\ req' = [req EXCEPT ![r] = req'[r]]
      /\ req'[r] = [op |-> "download", user |-> None, file |-> url.file, arg |-> None,
                    exp |-> url.expires.number]
      /\ \A s \in Request : s # r => req'[s] = req[s]
  BY <1>1 DEF FlowTypeOK
<1>5. Others(r)
  BY <1>2, <1>3, <1>4 DEF Others, Elsewhere
<1>6. IF Verify(url, now) THEN Went(r, "download.find") ELSE Ended(r, "INVALID_SIGNED_URL")
  BY <1>1, ControlApplied
<1> QED BY <1>1, <1>2, <1>4, <1>5, <1>6

----------------------------------------------------------------------------
(* The URLs that are in the hands of clients. *)

\* What UrlSigner makes: the claims are signed.
SignedUrl(f, exp) ==
  [file |-> f, expires |-> String(exp), signature |-> ComputeSignature(f, exp)]

LEMMA SignMakesSigned ==
  ASSUME NEW f, NEW ttl \in Nat, NEW at \in Nat
  PROVE  /\ Seconds(at) \in Nat
         /\ Seconds(at) + ttl \in Nat
         /\ Sign(f, ttl, at) = SignedUrl(f, Seconds(at) + ttl)
<1>1. Seconds(at) \in Nat
  BY TimeTicks DEF Seconds
<1> QED BY <1>1 DEF Sign, SignedUrl

\* The text of an expiry, as a client may spell it.
Text == [whole : BOOLEAN, number : Nat, plain : BOOLEAN]

LEMMA Texts ==
  ASSUME NEW n \in Nat
  PROVE  String(n) \in Text /\ Respelled(String(n)) \in Text /\ Blank \in Text /\ NoInteger \in Text
BY DEF Text, String, Respelled, Blank, NoInteger

\* How the expiry was spelled is forgotten.
LEMMA AsSignedApplied ==
  ASSUME NEW f, NEW t \in Text, t.whole, NEW s
  PROVE  AsSigned([file |-> f, expires |-> t, signature |-> s])
           = [file |-> f, expires |-> String(t.number), signature |-> s]
<1> DEFINE url == [file |-> f, expires |-> t, signature |-> s]
<1>1. PICK n \in Nat, p \in BOOLEAN : t = [whole |-> TRUE, number |-> n, plain |-> p]
  <2>1. t = [whole |-> TRUE, number |-> t.number, plain |-> t.plain]
    BY DEF Text
  <2> QED BY <2>1 DEF Text
<1>2. [t EXCEPT !.plain = TRUE] = String(t.number)
  <2>1. \A w, x, y : [[whole |-> w, number |-> n, plain |-> x] EXCEPT !.plain = y]
                       = [whole |-> w, number |-> n, plain |-> y]
    OBVIOUS
  <2> QED BY <1>1, <2>1 DEF String
<1>3. AsSigned(url) = [url EXCEPT !.expires = [t EXCEPT !.plain = TRUE]]
  BY DEF AsSigned
<1> QED BY <1>2, <1>3

\* A URL that passes the signer was handed out, as it is or with its signature
\* or its expiry spelled otherwise: altering anything else is noticed.
LEMMA PresentedUrls ==
  ASSUME HandedOut \subseteq {SignedUrl(f, x) : f \in FileId, x \in Nat}, NEW url \in Presented
  PROVE  /\ url.file \in FileId /\ url.expires.number \in Nat
         /\ \A at : Verify(url, at) =>
              \E u \in HandedOut : /\ url.file = u.file
                                   /\ url.expires.number = u.expires.number
                                   /\ url.signature.lower => AsSigned(url) = u
<1>1. ASSUME NEW u \in HandedOut
      PROVE  /\ u.file \in FileId /\ u.expires.number \in Nat
             /\ u.expires = String(u.expires.number) /\ u.expires \in Text
             /\ u.signature = [claims |-> <<u.file, u.expires.number>>, lower |-> TRUE]
             /\ u = SignedUrl(u.file, u.expires.number)
             /\ AsSigned(u) = u
  <2>1. PICK f \in FileId, x \in Nat : u = SignedUrl(f, x)
    OBVIOUS
  <2>2. /\ u.file = f /\ u.expires = String(x) /\ String(x).number = x /\ String(x).whole
        /\ u.signature = [claims |-> <<f, x>>, lower |-> TRUE]
        /\ u = [file |-> f, expires |-> String(x), signature |-> u.signature]
    BY <2>1 DEF SignedUrl, ComputeSignature, String
  <2>3. u.expires.number = x /\ u.expires \in Text /\ u.expires.whole
    BY <2>2, Texts
  <2>4. AsSigned(u) = u
    BY <2>2, <2>3, AsSignedApplied
  <2>5. u = SignedUrl(u.file, u.expires.number)
    BY <2>1, <2>2, <2>3
  <2> QED BY <2>2, <2>3, <2>4, <2>5
<1>2. CASE url \in HandedOut
  BY <1>1, <1>2
<1>3. CASE \E u \in HandedOut : url = [u EXCEPT !.signature.lower = FALSE]
  <2>1. PICK u \in HandedOut : url = [u EXCEPT !.signature.lower = FALSE]
    BY <1>3
  <2> DEFINE old == [claims |-> <<u.file, u.expires.number>>, lower |-> TRUE]
  <2>2. url = [u EXCEPT !.signature = [old EXCEPT !.lower = FALSE]]
    BY <1>1, <2>1
  <2>3. ~[old EXCEPT !.lower = FALSE].lower
    OBVIOUS
  <2>4. /\ url.file = u.file /\ url.expires = u.expires
        /\ url.signature = [old EXCEPT !.lower = FALSE]
    <3> HIDE DEF old
    <3> QED BY <1>1, <2>2
  <2> QED BY <1>1, <2>3, <2>4
<1>4. CASE \E u \in HandedOut, e \in Text : url = [u EXCEPT !.expires = e]
  <2>1. PICK u \in HandedOut, e \in Text : url = [u EXCEPT !.expires = e]
    BY <1>4
  <2>2. url = [file |-> u.file, expires |-> e, signature |-> u.signature]
    BY <1>1, <2>1 DEF SignedUrl
  <2>3. ASSUME NEW at, Verify(url, at)
        PROVE  e.number = u.expires.number /\ AsSigned(url) = u
    <3>1. e.whole /\ <<u.file, e.number>> = <<u.file, u.expires.number>>
      <4>1. e.whole /\ ComputeSignature(u.file, e.number).claims = u.signature.claims
        BY <2>2, <2>3 DEF Verify, HexEqual
      <4>2. ComputeSignature(u.file, e.number).claims = <<u.file, e.number>>
        BY DEF ComputeSignature
      <4>3. u.signature.claims = <<u.file, u.expires.number>>
        <5>1. \A c, x : [claims |-> c, lower |-> x].claims = c
          OBVIOUS
        <5> QED BY <1>1, <5>1, Zenon
      <4> QED BY <4>1, <4>2, <4>3
    <3>2. e.number = u.expires.number
      BY <3>1
    <3>3. AsSigned(url) = SignedUrl(u.file, u.expires.number)
      <4>1. u.signature = ComputeSignature(u.file, u.expires.number)
        BY <1>1 DEF ComputeSignature
      <4> QED BY <2>2, <3>1, <3>2, <4>1, AsSignedApplied DEF SignedUrl
    <3> QED BY <1>1, <3>2, <3>3
  <2>4. e.number \in Nat
    BY DEF Text
  <2> QED BY <1>1, <2>2, <2>3, <2>4
<1>5. CASE \E u \in HandedOut, s \in {v.signature : v \in HandedOut} \cup {NoSignature} :
             url = [u EXCEPT !.signature = s]
  <2>1. PICK u \in HandedOut, s \in {v.signature : v \in HandedOut} \cup {NoSignature} :
          url = [u EXCEPT !.signature = s]
    BY <1>5
  <2>2. url = [file |-> u.file, expires |-> u.expires, signature |-> s]
    BY <1>1, <2>1 DEF SignedUrl
  <2>3. ASSUME NEW at, Verify(url, at) PROVE s = u.signature
    <3>1. s.claims = <<u.file, u.expires.number>>
      BY <2>2, <2>3 DEF Verify, HexEqual, ComputeSignature
    <3>2. CASE s = NoSignature
      BY <3>1, <3>2 DEF NoSignature
    <3>3. CASE \E v \in HandedOut : s = v.signature
      <4>1. PICK v \in HandedOut : s = v.signature
        BY <3>3
      <4>2. s = [claims |-> <<v.file, v.expires.number>>, lower |-> TRUE]
        BY <1>1, <4>1
      <4>3. v.file = u.file /\ v.expires.number = u.expires.number
        BY <3>1, <4>2
      <4> QED BY <1>1, <4>2, <4>3
    <3> QED BY <2>1, <3>2, <3>3
  <2>4. ASSUME NEW at, Verify(url, at) PROVE AsSigned(url) = u
    <3>1. s = u.signature
      BY <2>3, <2>4
    <3>2. url = u
      BY <1>1, <2>1, <3>1 DEF SignedUrl
    <3> QED BY <1>1, <3>2
  <2> QED BY <1>1, <2>2, <2>4
<1>6. ASSUME NEW u \in HandedOut,
             NEW e \in {v.expires : v \in HandedOut} \cup {Respelled(u.expires), Blank, NoInteger}
      PROVE  e \in Text
  BY <1>1, <1>6, Texts
<1>7. \/ url \in HandedOut
      \/ \E u \in HandedOut : url = [u EXCEPT !.signature.lower = FALSE]
      \/ \E u \in HandedOut, e \in Text : url = [u EXCEPT !.expires = e]
      \/ \E u \in HandedOut, s \in {v.signature : v \in HandedOut} \cup {NoSignature} :
           url = [u EXCEPT !.signature = s]
  <2>1. CASE url \in {[u EXCEPT !.expires = Respelled(u.expires)] : u \in HandedOut}
    BY <1>6, <2>1
  <2>2. CASE \E u \in HandedOut, e \in {v.expires : v \in HandedOut} \cup {Blank, NoInteger} :
               url = [u EXCEPT !.expires = e]
    <3>1. PICK u \in HandedOut, e \in {v.expires : v \in HandedOut} \cup {Blank, NoInteger} :
            url = [u EXCEPT !.expires = e]
      BY <2>2
    <3> QED BY <1>6, <3>1
  <2>3. \/ url \in HandedOut
        \/ \E u \in HandedOut : url = [u EXCEPT !.signature.lower = FALSE]
        \/ url \in {[u EXCEPT !.expires = Respelled(u.expires)] : u \in HandedOut}
        \/ \E u \in HandedOut, e \in {v.expires : v \in HandedOut} \cup {Blank, NoInteger} :
             url = [u EXCEPT !.expires = e]
        \/ \E u \in HandedOut, s \in {v.signature : v \in HandedOut} \cup {NoSignature} :
             url = [u EXCEPT !.signature = s]
    BY DEF Presented
  <2> QED BY <2>1, <2>2, <2>3
<1> QED BY <1>2, <1>3, <1>4, <1>5, <1>7

----------------------------------------------------------------------------
(* Type correctness. *)

OtherSteps == SignSteps \cup RevokeSteps \cup DownloadSteps \cup HistorySteps \cup ReadSteps

\* Which command q a request r at step p of these services has, and which
\* link h it holds.
ApiShapeAt(p, q, h) ==
  /\ p \in SignSteps => q.op = "sign" /\ q.user \in User
  /\ p \in RevokeSteps => q.op = "revoke" /\ q.user \in User /\ q.arg \in LinkId \cup {None}
  /\ p \in {"revoke.update", "revoke.audit"} => q.arg \in LinkId
  /\ p \in DownloadSteps => q.op = "download"
  /\ p \in HistorySteps => q.op = "history" /\ q.user \in User
  /\ p \in ReadSteps => q.op \in {"get", "list", "links"} /\ q.user \in User
  /\ p = "get.find" => q.op = "get"
  /\ p = "list.select" => q.op = "list"
  /\ p \in {"links.find", "links.select"} => q.op = "links"
  /\ p \in {"idle", "sign.find", "download.find", "download.redeem"} => h = None
  /\ p \in {"sign.insert", "sign.audit", "download.audit", "download.exists", "download.read"} =>
       h \in Link
  /\ p = "download.reject" => h \in Link \cup {None}

ApiShape(r) == ApiShapeAt(pc[r], req[r], held[r])

\* The link that a sign request has made, for the URL that it hands out.
Signing(r) == req[r] # None /\ req[r].op = "sign" /\ held[r] # None

SignedAs(r) ==
  \E at \in 0 .. now :
    /\ signer[r] = [url |-> Sign(req[r].file, req[r].exp, at), at |-> at]
    /\ held[r] = [id |-> r, file |-> req[r].file, exp |-> signer[r].url.expires.number,
                  user |-> req[r].user, revoked |-> FALSE]

SignersSign ==
  \A r \in Request :
    /\ Signing(r) => SignedAs(r)
    /\ Answered(r, "sign", "ok") => held[r] # None

SignerTyped ==
  \A r \in Request : signer[r] # None => signer[r].at \in 0 .. now /\ signer[r].url.file \in FileId

ApiTypeInv ==
  /\ TypeInv
  /\ now \in 0 .. MaxTime
  /\ signer = [r \in Request |-> signer[r]]
  /\ ListedTypeOK
  /\ before \in [Request -> SUBSET Request]
  /\ Unanswered
  /\ \A r \in Request : ApiShape(r)
  /\ SignersSign
  /\ SignerTyped

\* Every URL that was handed out is one the signer made.
LEMMA HandedOutIsSigned ==
  ASSUME ApiTypeInv
  PROVE  HandedOut \subseteq {SignedUrl(f, x) : f \in FileId, x \in Nat}
<1>1. ASSUME NEW q \in Request, resp[q] = "ok", req[q].op = "sign"
      PROVE  \E f \in FileId, x \in Nat : signer[q].url = SignedUrl(f, x)
  <2>1. req[q] \in Command /\ SignedAs(q)
    <3>1. pc[q] = "done"
      BY <1>1 DEF ApiTypeInv, Unanswered
    <3>2. req[q] \in Command
      BY <3>1 DEF ApiTypeInv, TypeInv, Shape, ShapeAt
    <3> QED BY <1>1, <3>2, NoneIsNoCommand DEF ApiTypeInv, SignersSign, Signing, Answered
  <2>2. PICK at \in 0 .. now : signer[q].url = Sign(req[q].file, req[q].exp, at)
    BY <2>1 DEF SignedAs
  <2>3. at \in Nat /\ req[q].file \in FileId /\ req[q].exp \in Nat
    BY <2>1, TimesAreNatural DEF ApiTypeInv, Command
  <2> QED BY <2>2, <2>3, SignMakesSigned
<1>2. ASSUME NEW e \in audit
      PROVE  /\ e.file \in FileId /\ e.exp \in Nat
             /\ [file |-> e.file, expires |-> String(e.exp), signature |-> ComputeSignature(e.file, e.exp)]
                  = SignedUrl(e.file, e.exp)
  BY DEF ApiTypeInv, TypeInv, TypeOK, StoresTypeOK, Event, SignedUrl
<1>3. ASSUME NEW u \in HandedOut
      PROVE  \E f \in FileId, x \in Nat : u = SignedUrl(f, x)
  <2>1. CASE \E q \in Request : resp[q] = "ok" /\ req[q].op = "sign" /\ u = signer[q].url
    BY <1>1, <2>1
  <2>2. CASE \E e \in audit : u = [file |-> e.file, expires |-> String(e.exp),
                                   signature |-> ComputeSignature(e.file, e.exp)]
    BY <1>2, <2>2
  <2> QED BY <2>1, <2>2 DEF HandedOut
<1> QED BY <1>3

LEMMA InitApiTypeInv == ApiInit => ApiTypeInv
<1> SUFFICES ASSUME ApiInit PROVE ApiTypeInv
  OBVIOUS
<1>1. TypeInv
  BY InitTypeInv DEF ApiInit
<1>2. \A r \in Request : /\ req[r] = None /\ pc[r] = "idle" /\ resp[r] = "none"
                         /\ held[r] = None /\ signer[r] = None
  BY DEF ApiInit, Init, FlowInit
<1>3. now \in 0 .. MaxTime
  BY TimesAreNatural DEF ApiInit
<1>4. /\ signer = [r \in Request |-> signer[r]] /\ ListedTypeOK
      /\ before \in [Request -> SUBSET Request]
  BY DEF ApiInit, ListedInit, ListedTypeOK
<1>5. ASSUME NEW r \in Request PROVE ApiShape(r)
  BY <1>2 DEF ApiShape, ApiShapeAt, SignSteps, RevokeSteps, DownloadSteps, HistorySteps, ReadSteps
<1>6. Unanswered /\ SignersSign /\ SignerTyped
  BY <1>2 DEF Unanswered, SignersSign, SignerTyped, Signing, Answered
<1> QED BY <1>1, <1>3, <1>4, <1>5, <1>6 DEF ApiTypeInv

\* The event that these services record at the step r is at.
OtherEvent(r) ==
  CASE pc[r] = "sign.audit" -> [EventOf(r, "signed_link_generated") EXCEPT !.exp = held[r].exp]
    [] pc[r] = "revoke.audit" -> [EventOf(r, "signed_link_revoked") EXCEPT !.link = req[r].arg]
    [] pc[r] = "download.reject" -> RedeemEvent(r, "signed_link_download_rejected")
    [] pc[r] = "download.audit" -> RedeemEvent(r, "signed_link_downloaded")

OtherAudit == {"sign.audit", "revoke.audit", "download.reject", "download.audit"}

LEMMA OtherEventFields ==
  ASSUME NEW r \in Request, pc[r] \in OtherAudit
  PROVE  /\ OtherEvent(r).id = <<r, tries[r]>> /\ OtherEvent(r).file = req[r].file
         /\ OtherEvent(r).type # "file_deleted" /\ OtherEvent(r).type # "file_renamed"
         /\ OtherEvent(r).name = None /\ OtherEvent(r).was = None
         /\ pc[r] = "sign.audit" =>
              /\ OtherEvent(r).type = "signed_link_generated"
              /\ OtherEvent(r).exp = held[r].exp /\ OtherEvent(r).user = req[r].user
              /\ OtherEvent(r).link = None
         /\ pc[r] = "revoke.audit" =>
              /\ OtherEvent(r).type = "signed_link_revoked"
              /\ OtherEvent(r).link = req[r].arg /\ OtherEvent(r).user = req[r].user
              /\ OtherEvent(r).exp = 0
         /\ pc[r] \in {"download.reject", "download.audit"} =>
              /\ OtherEvent(r).type = IF pc[r] = "download.reject"
                                        THEN "signed_link_download_rejected"
                                        ELSE "signed_link_downloaded"
              /\ OtherEvent(r).user = IF held[r] = None THEN Unknown ELSE held[r].user
              /\ OtherEvent(r).link = IF held[r] = None THEN None ELSE held[r].id
              /\ OtherEvent(r).exp = IF held[r] = None THEN 0 ELSE held[r].exp
BY DEF OtherEvent, EventOf, RedeemEvent, OtherAudit

LEMMA OtherEventTyped ==
  ASSUME ApiTypeInv, NEW r \in Request, pc[r] \in OtherAudit
  PROVE  OtherEvent(r) \in Event
<1>1. req[r] \in Command /\ tries[r] \in Nat /\ req[r].file \in FileId
  BY AttemptsArePositive
  DEF ApiTypeInv, TypeInv, TypeOK, FlowTypeOK, Shape, ShapeAt, OtherAudit, Command
<1>2. /\ pc[r] \in {"sign.audit", "download.audit"} => held[r] \in Link
      /\ pc[r] = "download.reject" => held[r] \in Link \cup {None}
      /\ pc[r] \in {"sign.audit", "revoke.audit"} => req[r].user \in User
      /\ pc[r] = "revoke.audit" => req[r].arg \in LinkId
  BY DEF ApiTypeInv, ApiShape, ApiShapeAt, SignSteps, RevokeSteps
<1>3. ASSUME NEW l \in Link PROVE l.exp \in Nat /\ l.user \in User /\ l.id \in LinkId
  BY <1>3 DEF Link
<1> DEFINE e == OtherEvent(r)
<1>4. ASSUME NEW type \in EventType, NEW user \in User \cup {Unknown},
             NEW link \in LinkId \cup {None}, NEW exp \in Nat
      PROVE  [id |-> <<r, tries[r]>>, file |-> req[r].file, user |-> user, type |-> type,
              name |-> None, was |-> None, link |-> link, exp |-> exp] \in Event
  BY <1>1 DEF Event
<1>5. CASE pc[r] = "sign.audit"
  <2>1. e = [id |-> <<r, tries[r]>>, file |-> req[r].file, user |-> req[r].user,
             type |-> "signed_link_generated", name |-> None, was |-> None,
             link |-> None, exp |-> held[r].exp]
    BY <1>5 DEF OtherEvent, EventOf
  <2> QED BY <1>2, <1>3, <1>4, <1>5, <2>1 DEF EventType
<1>6. CASE pc[r] = "revoke.audit"
  <2>1. e = [id |-> <<r, tries[r]>>, file |-> req[r].file, user |-> req[r].user,
             type |-> "signed_link_revoked", name |-> None, was |-> None,
             link |-> req[r].arg, exp |-> 0]
    BY <1>6 DEF OtherEvent, EventOf
  <2> QED BY <1>2, <1>4, <1>6, <2>1 DEF EventType
<1>7. CASE pc[r] \in {"download.reject", "download.audit"}
  <2> DEFINE type == IF pc[r] = "download.reject" THEN "signed_link_download_rejected"
                                                  ELSE "signed_link_downloaded"
  <2>1. e = RedeemEvent(r, type)
    BY <1>7 DEF OtherEvent
  <2>2. type \in EventType
    BY DEF EventType
  <2>3. CASE held[r] = None
    <3>1. e = [id |-> <<r, tries[r]>>, file |-> req[r].file, user |-> Unknown, type |-> type,
               name |-> None, was |-> None, link |-> None, exp |-> 0]
      BY <2>1, <2>3 DEF RedeemEvent, EventOf
    <3> QED BY <1>4, <2>2, <3>1
  <2>4. CASE held[r] # None
    <3>1. e = [id |-> <<r, tries[r]>>, file |-> req[r].file, user |-> held[r].user, type |-> type,
               name |-> None, was |-> None, link |-> held[r].id, exp |-> held[r].exp]
      BY <2>1, <2>4 DEF RedeemEvent, EventOf
    <3>2. held[r] \in Link
      BY <1>2, <1>7, <2>4
    <3> QED BY <1>3, <1>4, <2>2, <3>1, <3>2
  <2> QED BY <2>3, <2>4
<1> QED BY <1>5, <1>6, <1>7 DEF OtherAudit

\* What these services do to the tables and to the locals of the request.
LEMMA OtherEffect ==
  ASSUME ApiTypeInv, NEW r \in Request, ReadStep(r) \/ LinkStep(r)
  PROVE  /\ Others(r) /\ UNCHANGED <<files, blobs, req>> /\ pc[r] \in OtherSteps
         /\ \/ UNCHANGED seen
            \/ seen' = [seen EXCEPT ![r] = files[req[r].file]]
         /\ \/ UNCHANGED held
            \/ pc[r] = "sign.find" \/ pc[r] = "download.redeem"
         /\ \/ UNCHANGED links
            \/ /\ pc[r] = "sign.insert" /\ CanInsertLink(held[r])
               /\ links' = links \cup {held[r]}
            \/ pc[r] = "revoke.update" /\ RevokeLink(req[r].arg, req[r].file)
         /\ \/ UNCHANGED audit
            \/ pc[r] \in OtherAudit /\ audit' = audit \cup {OtherEvent(r)}
<1> USE DEF ApiTypeInv, TypeInv, TypeOK, OtherSteps, OtherAudit
<1>1. CASE ReadStep(r)
  BY <1>1, ReadEffect DEF ReadSteps, stores
<1>2. CASE SignFind(r) \/ ((SignInsert(r) \/ SignAudit(r)) /\ UNCHANGED signer)
  <2>1. Others(r) /\ UNCHANGED <<files, blobs, req>> /\ pc[r] \in SignSteps
    BY <1>2, SignEffect
  <2>2. CASE pc[r] = "sign.find"
    BY <1>2, <2>1, <2>2, SignEffect DEF stores
  <2>3. CASE pc[r] = "sign.insert"
    BY <1>2, <2>1, <2>3, SignEffect
  <2>4. CASE pc[r] = "sign.audit"
    BY <1>2, <2>1, <2>4, SignEffect DEF OtherEvent
  <2> QED BY <2>1, <2>2, <2>3, <2>4 DEF SignSteps
<1>3. CASE RevokeStep(r)
  <2>1. Others(r) /\ UNCHANGED <<files, blobs, req, held>> /\ pc[r] \in RevokeSteps
    BY <1>3, RevokeEffect
  <2>2. CASE pc[r] = "revoke.find"
    BY <1>3, <2>1, <2>2, RevokeEffect DEF stores
  <2>3. CASE pc[r] = "revoke.update"
    BY <1>3, <2>1, <2>3, RevokeEffect
  <2>4. CASE pc[r] = "revoke.audit"
    BY <1>3, <2>1, <2>4, RevokeEffect DEF OtherEvent
  <2> QED BY <2>1, <2>2, <2>3, <2>4 DEF RevokeSteps
<1>4. CASE DownloadStep(r)
  <2>1. Others(r) /\ UNCHANGED <<files, blobs, links, req>> /\ pc[r] \in DownloadSteps
    BY <1>4, DownloadEffect
  <2>2. CASE pc[r] \in {"download.find", "download.redeem", "download.exists", "download.read"}
    BY <1>4, <2>1, <2>2, DownloadEffect DEF stores
  <2>3. CASE pc[r] \in {"download.reject", "download.audit"}
    BY <1>4, <2>1, <2>3, DownloadEffect DEF OtherEvent
  <2> QED BY <2>1, <2>2, <2>3 DEF DownloadSteps
<1>5. CASE HistoryStep(r)
  BY <1>5, HistoryEffect DEF stores
<1> QED BY <1>1, <1>2, <1>3, <1>4, <1>5 DEF LinkStep

\* The order in which these services take their steps, and what r knows when
\* it goes on.
OtherMove(r) ==
  \/ Ended(r, resp'[r]) /\ UNCHANGED <<held, signer>>
  \/ Failed(r) /\ "unacked" \in Faults /\ pc[r] # "sign.find" /\ UNCHANGED <<held, signer>>
  \/ /\ pc[r] = "sign.find" /\ Went(r, "sign.insert") /\ Owned(r)
     /\ signer' = [signer EXCEPT ![r] = [url |-> Sign(req[r].file, req[r].exp, now), at |-> now]]
     /\ held' = [held EXCEPT ![r] =
                   [id |-> r, file |-> req[r].file, exp |-> signer'[r].url.expires.number,
                    user |-> req[r].user, revoked |-> FALSE]]
  \/ /\ pc[r] = "download.redeem" /\ LinksGiven(r) = {} /\ Went(r, "download.reject")
     /\ UNCHANGED <<held, signer>>
  \/ /\ pc[r] = "download.redeem" /\ UNCHANGED signer
     /\ \E link \in LinksGiven(r) :
          /\ held' = [held EXCEPT ![r] = link]
          /\ Went(r, IF link.revoked THEN "download.reject" ELSE "download.audit")
  \/ /\ UNCHANGED <<held, signer>>
     /\ \/ pc[r] = "sign.insert" /\ Went(r, "sign.audit") /\ held[r] \in links'
        \/ pc[r] = "revoke.find" /\ Went(r, "revoke.update") /\ Owned(r) /\ req[r].arg # None
        \/ /\ pc[r] = "revoke.update" /\ Went(r, "revoke.audit")
           /\ Revocable(req[r].arg, req[r].file) # {}
        \/ pc[r] = "download.find" /\ Went(r, "download.redeem") /\ files[req[r].file] # None
        \/ pc[r] = "download.audit" /\ Went(r, "download.exists") /\ OtherEvent(r) \in audit'
        \/ pc[r] = "download.exists" /\ Went(r, "download.read") /\ HasBlob(req[r].file)
        \/ pc[r] = "history.find" /\ Went(r, "history.list") /\ Owned(r)
        \/ pc[r] = "history.find" /\ Went(r, "history.exists") /\ files[req[r].file] = None
        \/ /\ pc[r] = "history.exists" /\ Went(r, "history.list")
           /\ HasEventBy(req[r].file, req[r].user)
        \/ pc[r] = "links.find" /\ Went(r, "links.select") /\ Owned(r)

LEMMA OtherMoves ==
  ASSUME ApiTypeInv, NEW r \in Request, (ReadStep(r) /\ UNCHANGED signer) \/ LinkStep(r)
  PROVE  OtherMove(r)
<1> USE DEF ApiTypeInv, TypeInv, TypeOK, OtherMove
<1>1. CASE ReadStep(r) /\ UNCHANGED signer
  BY <1>1, ReadEffect DEF ReadSteps, Refused, Went, Ended
<1>2. CASE SignFind(r) \/ ((SignInsert(r) \/ SignAudit(r)) /\ UNCHANGED signer)
  <2>1. Others(r) /\ UNCHANGED <<files, blobs, req>> /\ pc[r] \in SignSteps
    BY <1>2, SignEffect
  <2>2. CASE pc[r] = "sign.find"
    BY <1>2, <2>1, <2>2, SignEffect DEF Refused, Ended
  <2>3. CASE pc[r] = "sign.insert"
    BY <1>2, <2>1, <2>3, SignEffect DEF Acked, Ended
  <2>4. CASE pc[r] = "sign.audit"
    BY <1>2, <2>1, <2>4, SignEffect DEF Acked, Ended
  <2> QED BY <2>1, <2>2, <2>3, <2>4 DEF SignSteps
<1>3. CASE RevokeStep(r) /\ UNCHANGED signer
  <2>1. UNCHANGED held /\ pc[r] \in RevokeSteps
    BY <1>3, RevokeEffect
  <2>2. CASE pc[r] = "revoke.find"
    BY <1>3, <2>1, <2>2, RevokeEffect DEF Refused, Ended
  <2>3. CASE pc[r] = "revoke.update"
    BY <1>3, <2>1, <2>3, RevokeEffect DEF Acked, Ended
  <2>4. CASE pc[r] = "revoke.audit"
    BY <1>3, <2>1, <2>4, RevokeEffect DEF Acked, Ended
  <2> QED BY <2>1, <2>2, <2>3, <2>4 DEF RevokeSteps
<1>4. CASE DownloadStep(r) /\ UNCHANGED signer
  <2>1. pc[r] \in DownloadSteps
    BY <1>4, DownloadEffect
  <2>2. CASE pc[r] = "download.find"
    BY <1>4, <2>2, DownloadEffect DEF Ended
  <2>3. CASE pc[r] = "download.redeem"
    BY <1>4, <2>3, DownloadEffect
  <2>4. CASE pc[r] = "download.reject"
    BY <1>4, <2>4, DownloadEffect DEF Acked, Ended
  <2>5. CASE pc[r] = "download.audit"
    BY <1>4, <2>5, DownloadEffect DEF Acked, OtherEvent
  <2>6. CASE pc[r] \in {"download.exists", "download.read"}
    BY <1>4, <2>6, DownloadEffect DEF Ended
  <2> QED BY <2>1, <2>2, <2>3, <2>4, <2>5, <2>6 DEF DownloadSteps
<1>5. CASE HistoryStep(r) /\ UNCHANGED signer
  BY <1>5, HistoryEffect DEF HistorySteps, Ended
<1> QED BY <1>1, <1>2, <1>3, <1>4, <1>5 DEF LinkStep

\* Such a step moves r by the control operators.
LEMMA OtherControl ==
  ASSUME NEW r \in Request, ReadStep(r) \/ LinkStep(r)
  PROVE  \/ \E step \in OtherSteps : Goto(r, step)
         \/ \E code \in Code : Answer(r, code)
         \/ AttemptFails(r) /\ pc[r] # "upload.insert"
<1> USE DEF OtherSteps, SignSteps, RevokeSteps, DownloadSteps, HistorySteps, ReadSteps, Code
<1>1. CASE ReadStep(r)
  BY <1>1 DEF ReadStep, GetFind, ListSelect, LinksFind, LinksSelect, GetOwned, Refuse, Show
<1>2. CASE SignFind(r) \/ SignInsert(r) \/ SignAudit(r)
  BY <1>2 DEF SignFind, SignInsert, SignAudit, Refuse, Unacked, AttemptFails
<1>3. CASE RevokeStep(r)
  BY <1>3 DEF RevokeStep, RevokeFind, RevokeUpdate, RevokeAudit, GetOwned, Refuse, Unacked
<1>4. CASE DownloadFind(r) \/ DownloadRedeem(r) \/ DownloadReject(r)
  BY <1>4 DEF DownloadFind, DownloadRedeem, DownloadReject, Unacked
<1>5. CASE DownloadAudit(r) \/ DownloadExists(r) \/ DownloadRead(r)
  BY <1>5 DEF DownloadAudit, DownloadExists, DownloadRead, Unacked, AttemptFails
<1>6. CASE HistoryStep(r)
  BY <1>6 DEF HistoryStep, HistoryFind, HistoryExists, HistoryList
<1> QED BY <1>1, <1>2, <1>3, <1>4, <1>5, <1>6 DEF LinkStep, DownloadStep

\* The link of a sign request, from the row it read and the clock.
LEMMA SignedLinkTyped ==
  ASSUME ApiTypeInv, NEW r \in Request, pc[r] = "sign.find", OtherMove(r), pc'[r] = "sign.insert"
  PROVE  /\ held'[r] \in Link /\ held' = [held EXCEPT ![r] = held'[r]]
         /\ signer' = [signer EXCEPT ![r] = signer'[r]]
         /\ signer'[r] = [url |-> Sign(req[r].file, req[r].exp, now), at |-> now]
         /\ signer'[r].url.file = req[r].file
         /\ held'[r] = [id |-> r, file |-> req[r].file, exp |-> signer'[r].url.expires.number,
                        user |-> req[r].user, revoked |-> FALSE]
<1> USE DEF ApiTypeInv, TypeInv, TypeOK, FlowTypeOK
<1>1. /\ signer' = [signer EXCEPT ![r] = [url |-> Sign(req[r].file, req[r].exp, now), at |-> now]]
      /\ held' = [held EXCEPT ![r] =
                    [id |-> r, file |-> req[r].file, exp |-> signer'[r].url.expires.number,
                     user |-> req[r].user, revoked |-> FALSE]]
  BY DEF OtherMove, Ended, Failed, Went
<1>2. req[r] \in Command /\ req[r].user \in User
  BY DEF Shape, ShapeAt, ApiShape, ApiShapeAt, SignSteps
<1>3. req[r].file \in FileId /\ req[r].exp \in Nat /\ now \in Nat /\ r \in LinkId
  BY <1>2, TimesAreNatural DEF Command, LinkId
<1>4. signer'[r] = [url |-> Sign(req[r].file, req[r].exp, now), at |-> now]
  <2>1. signer = [s \in Request |-> signer[s]]
    OBVIOUS
  <2> QED BY <1>1, <2>1
<1>5. Sign(req[r].file, req[r].exp, now) = SignedUrl(req[r].file, Seconds(now) + req[r].exp)
      /\ Seconds(now) + req[r].exp \in Nat
  BY <1>3, SignMakesSigned
<1>6. signer'[r].url.expires.number \in Nat /\ signer'[r].url.file = req[r].file
  BY <1>4, <1>5 DEF SignedUrl, String
<1>7. held'[r] = [id |-> r, file |-> req[r].file, exp |-> signer'[r].url.expires.number,
                  user |-> req[r].user, revoked |-> FALSE]
  BY <1>1
<1>8. held'[r] \in Link
  BY <1>2, <1>3, <1>6, <1>7 DEF Link
<1> QED BY <1>1, <1>4, <1>6, <1>7, <1>8

LEMMA OtherHeldTyped ==
  ASSUME ApiTypeInv, NEW r \in Request, pc[r] \in OtherSteps, OtherMove(r)
  PROVE  /\ held'[r] \in Row \cup Link \cup {None} /\ held' = [held EXCEPT ![r] = held'[r]]
         /\ held'[r] # held[r] => held'[r] \in Link
<1> USE DEF ApiTypeInv, TypeInv, TypeOK, FlowTypeOK
<1>1. CASE held' = held
  BY <1>1
<1>2. CASE pc[r] = "sign.find" /\ Went(r, "sign.insert")
  BY <1>2, SignedLinkTyped DEF Went
<1>3. CASE \E link \in LinksGiven(r) : held' = [held EXCEPT ![r] = link]
  <2>1. LinksGiven(r) \subseteq Link
    BY DEF LinksGiven, LinksFor, StoresTypeOK
  <2> QED BY <1>3, <2>1
<1> QED BY <1>1, <1>2, <1>3 DEF OtherMove

LEMMA OtherKeepsFlow ==
  ASSUME ApiTypeInv, NEW r \in Request, (ReadStep(r) /\ UNCHANGED signer) \/ LinkStep(r)
  PROVE  FlowTypeOK' /\ \A s \in Request : Shape(s)'
<1>1. TypeInv /\ FlowTypeOK
  BY DEF ApiTypeInv, TypeInv, TypeOK
<1>2. /\ UNCHANGED req /\ pc[r] \in OtherSteps
      /\ UNCHANGED seen \/ seen' = [seen EXCEPT ![r] = files[req[r].file]]
  BY OtherEffect
<1>3. held'[r] \in Row \cup Link \cup {None} /\ held' = [held EXCEPT ![r] = held'[r]]
  BY <1>2, OtherMoves, OtherHeldTyped
<1> USE DEF OtherSteps, SignSteps, RevokeSteps, DownloadSteps, HistorySteps, ReadSteps
<1>4. req[r] \in Command /\ req' = [req EXCEPT ![r] = req'[r]] /\ req'[r] \in Command
  BY <1>1, <1>2 DEF TypeInv, Shape, ShapeAt, FlowTypeOK
<1>5. files[req[r].file] \in Row \cup {None}
  BY <1>1, <1>4 DEF Command, TypeInv, TypeOK, StoresTypeOK
<1>6. seen'[r] \in Row \cup {None} /\ seen' = [seen EXCEPT ![r] = seen'[r]]
  BY <1>1, <1>2, <1>5 DEF FlowTypeOK
<1>7. \A p \in OtherSteps \cup {"done"} : ShapeAt(r, p, req'[r], seen'[r])
  BY <1>4 DEF ShapeAt, UploadSteps, DeleteSteps, RenameSteps, Holding
<1>8. OtherSteps \cup {"done"} \subseteq Step \cup {"done"}
  BY DEF Step, DatabaseStep, StorageStep
<1>9. Moves(r, OtherSteps \cup {"done"})
  <2> HIDE DEF OtherSteps, SignSteps, RevokeSteps, DownloadSteps, HistorySteps, ReadSteps
  <2>1. CASE \E step \in OtherSteps : Goto(r, step)
    <3>1. PICK step \in OtherSteps : Goto(r, step)
      BY <2>1
    <3>2. Moves(r, {step})
      BY <1>1, <3>1, GotoMoves
    <3> QED BY <3>2, MoreTargets
  <2>2. CASE \E code \in Code : Answer(r, code)
    <3>1. Moves(r, {"done"})
      BY <1>1, <2>2, AnswerMoves
    <3> QED BY <3>1, MoreTargets
  <2>3. CASE AttemptFails(r) /\ pc[r] # "upload.insert"
    <3>1. Moves(r, FailTargets(pc[r]))
      BY <1>1, <2>3, FailMoves
    <3>2. FailTargets(pc[r]) \subseteq OtherSteps \cup {"done"}
      BY <1>2, <2>3 DEF FailTargets
    <3> QED BY <3>1, <3>2, MoreTargets
  <2> QED BY <2>1, <2>2, <2>3, OtherControl
<1> HIDE DEF OtherSteps
<1> QED BY <1>1, <1>3, <1>4, <1>6, <1>7, <1>8, <1>9, MoveKeepsShape

LEMMA OtherKeepsStores ==
  ASSUME ApiTypeInv, NEW r \in Request, ReadStep(r) \/ LinkStep(r)
  PROVE  StoresTypeOK'
<1>1. StoresTypeOK
  BY DEF ApiTypeInv, TypeInv, TypeOK
<1>2. UNCHANGED <<files, blobs>>
  BY OtherEffect
<1>3. audit' \subseteq Event
  BY <1>1, OtherEffect, OtherEventTyped DEF StoresTypeOK
<1>4. links' \subseteq Link
  <2>1. CASE UNCHANGED links
    BY <1>1, <2>1 DEF StoresTypeOK
  <2>2. CASE pc[r] = "sign.insert" /\ links' = links \cup {held[r]}
    <3>1. held[r] \in Link
      BY <2>2 DEF ApiTypeInv, ApiShape, ApiShapeAt
    <3> QED BY <1>1, <2>2, <3>1 DEF StoresTypeOK
  <2>3. CASE RevokeLink(req[r].arg, req[r].file)
    <3>1. \A l \in Link : [l EXCEPT !.revoked = TRUE] \in Link
      BY DEF Link
    <3>2. Revocable(req[r].arg, req[r].file) \subseteq Link
      BY <1>1 DEF Revocable, StoresTypeOK
    <3> QED BY <1>1, <2>3, <3>1, <3>2 DEF RevokeLink, StoresTypeOK
  <2> QED BY <2>1, <2>2, <2>3, OtherEffect
<1> QED BY <1>1, <1>2, <1>3, <1>4 DEF StoresTypeOK

LEMMA ReadKeepsListed ==
  ASSUME ApiTypeInv, NEW r \in Request, ReadStep(r)
  PROVE  ListedTypeOK'
<1>1. /\ UNCHANGED listed
      \/ \E rows \in SUBSET (FileId \cup Link) : listed' = [listed EXCEPT ![r] = rows]
  <2>1. links \subseteq Link
    BY DEF ApiTypeInv, TypeInv, TypeOK, StoresTypeOK
  <2>2. pc[r] = "get.find" => req[r].file \in FileId
    BY DEF ApiTypeInv, TypeInv, Shape, ShapeAt, Command
  <2> QED BY <2>1, <2>2 DEF ReadStep, GetFind, ListSelect, LinksFind, LinksSelect, Show
<1> QED BY <1>1 DEF ApiTypeInv, ListedTypeOK

LEMMA OtherKeepsApiShape ==
  ASSUME ApiTypeInv, NEW r \in Request, (ReadStep(r) /\ UNCHANGED signer) \/ LinkStep(r)
  PROVE  \A s \in Request : ApiShape(s)'
<1>1. /\ UNCHANGED req /\ pc[r] \in OtherSteps /\ Others(r)
  BY OtherEffect
<1>2. OtherMove(r) /\ ApiShape(r)
  BY OtherMoves DEF ApiTypeInv
<1>3. /\ pc'[r] = "sign.insert" /\ pc[r] = "sign.find" => held'[r] \in Link
      /\ LinksGiven(r) \subseteq Link
      /\ \A link \in LinksGiven(r) : held' = [held EXCEPT ![r] = link] => held'[r] = link
  BY <1>2, SignedLinkTyped
  DEF LinksGiven, LinksFor, ApiTypeInv, TypeInv, TypeOK, StoresTypeOK, FlowTypeOK
<1>4. ApiShapeAt(pc'[r], req[r], held'[r])
  BY <1>1, <1>2, <1>3
  DEF OtherMove, Went, Ended, Failed, ApiShape, ApiShapeAt, OtherSteps, SignSteps, RevokeSteps,
      DownloadSteps, HistorySteps, ReadSteps
<1> QED BY <1>1, <1>4 DEF ApiTypeInv, ApiShape, Others

\* Which answers these services give, where, and what they know then.
OtherAnswer(r) ==
  LET f == req[r].file
      Ends(step, code) == pc[r] = step /\ resp'[r] = code
  IN
  \/ "unacked" \in Faults /\ resp'[r] = "database" /\ pc[r] \in DatabaseStep
  \/ /\ pc[r] \in {"sign.find", "revoke.find", "get.find", "links.find"}
     /\ ~Owned(r) /\ resp'[r] = IF files[f] = None THEN "FILE_NOT_FOUND" ELSE "FORBIDDEN"
  \/ Ends("sign.insert", "database") /\ ~CanInsertLink(held[r])
  \/ Ends("sign.audit", "ok") /\ OtherEvent(r) \in audit'
  \/ Ends("revoke.find", "VALIDATION") /\ req[r].arg = None
  \/ Ends("revoke.update", "SIGNED_LINK_NOT_FOUND") /\ Revocable(req[r].arg, f) = {}
  \/ Ends("revoke.audit", "ok") /\ OtherEvent(r) \in audit'
  \/ Ends("download.find", "FILE_NOT_FOUND") /\ files[f] = None
  \/ /\ Ends("download.reject", IF held[r] = None THEN "UNKNOWN_LINK" ELSE "LINK_REVOKED")
     /\ OtherEvent(r) \in audit'
  \/ Ends("download.exists", "BLOB_MISSING") /\ ~HasBlob(f)
  \/ Ends("download.read", "storage") /\ ~HasBlob(f)
  \/ Ends("download.read", "ok") /\ HasBlob(f)
  \/ Ends("history.find", "FORBIDDEN") /\ files[f] # None /\ ~Owned(r)
  \/ Ends("history.exists", "FILE_NOT_FOUND") /\ ~HasEventBy(f, req[r].user)
  \/ Ends("history.list", "ok")
  \/ Ends("get.find", "ok") /\ Owned(r) /\ listed'[r] = {f}
  \/ /\ Ends("list.select", "ok")
     /\ listed'[r] = {g \in FileId : files[g] # None /\ files[g].user = req[r].user}
  \/ Ends("links.select", "ok") /\ listed'[r] = {l \in links : l.file = f}

LEMMA OtherAnswers ==
  ASSUME ApiTypeInv, NEW r \in Request, ReadStep(r) \/ LinkStep(r), pc'[r] = "done"
  PROVE  OtherAnswer(r)
<1> USE DEF ApiTypeInv, TypeInv, TypeOK, OtherAnswer, Ended, Went, Failed, Acked
<1>1. pc[r] \in OtherSteps => pc[r] \in DatabaseStep \/ pc[r] \in {"download.exists", "download.read"}
  BY DEF OtherSteps, SignSteps, RevokeSteps, DownloadSteps, HistorySteps, ReadSteps, DatabaseStep
<1>2. pc[r] \in DatabaseStep => Layer(pc[r]) = "database"
  BY DEF DatabaseStep, StorageStep, Layer
<1>3. CASE ReadStep(r)
  BY <1>3, ReadEffect DEF ReadSteps, Refused
<1>4. CASE SignFind(r) \/ ((SignInsert(r) \/ SignAudit(r)) /\ UNCHANGED signer)
  <2>1. pc[r] \in SignSteps
    BY <1>4, SignEffect
  <2>2. CASE pc[r] = "sign.find"
    BY <1>4, <2>2, SignEffect DEF Refused
  <2>3. CASE pc[r] = "sign.insert"
    BY <1>2, <1>4, <2>3, SignEffect DEF DatabaseStep
  <2>4. CASE pc[r] = "sign.audit"
    <3>1. OtherEvent(r) \in audit'
      BY <1>4, <2>4, SignEffect DEF OtherEvent
    <3> QED BY <1>2, <1>4, <2>4, <3>1, SignEffect DEF DatabaseStep
  <2> QED BY <2>1, <2>2, <2>3, <2>4 DEF SignSteps
<1>5. CASE RevokeStep(r)
  <2>1. pc[r] \in RevokeSteps
    BY <1>5, RevokeEffect
  <2>2. CASE pc[r] = "revoke.find"
    BY <1>5, <2>2, RevokeEffect DEF Refused
  <2>3. CASE pc[r] = "revoke.update"
    BY <1>2, <1>5, <2>3, RevokeEffect DEF DatabaseStep
  <2>4. CASE pc[r] = "revoke.audit"
    <3>1. OtherEvent(r) \in audit'
      BY <1>5, <2>4, RevokeEffect DEF OtherEvent
    <3> QED BY <1>2, <1>5, <2>4, <3>1, RevokeEffect DEF DatabaseStep
  <2> QED BY <2>1, <2>2, <2>3, <2>4 DEF RevokeSteps
<1>6. CASE DownloadStep(r)
  <2>1. pc[r] \in DownloadSteps
    BY <1>6, DownloadEffect
  <2>2. CASE pc[r] \in {"download.find", "download.redeem"}
    BY <1>6, <2>2, DownloadEffect
  <2>3. CASE pc[r] \in {"download.reject", "download.audit"}
    <3>1. OtherEvent(r) \in audit'
      BY <1>6, <2>3, DownloadEffect DEF OtherEvent
    <3> QED BY <1>2, <1>6, <2>3, <3>1, DownloadEffect DEF DatabaseStep
  <2>4. CASE pc[r] \in {"download.exists", "download.read"}
    BY <1>6, <2>4, DownloadEffect
  <2> QED BY <2>1, <2>2, <2>3, <2>4 DEF DownloadSteps
<1>7. CASE HistoryStep(r)
  BY <1>7, HistoryEffect DEF HistorySteps
<1> QED BY <1>3, <1>4, <1>5, <1>6, <1>7 DEF LinkStep

LEMMA OtherKeepsSigners ==
  ASSUME ApiTypeInv, NEW r \in Request, (ReadStep(r) /\ UNCHANGED signer) \/ LinkStep(r),
         UNCHANGED now
  PROVE  /\ SignersSign' /\ SignerTyped'
         /\ signer' = [s \in Request |-> signer'[s]]
<1>1. UNCHANGED req /\ pc[r] \in OtherSteps /\ Others(r)
  BY OtherEffect
<1>2. OtherMove(r) /\ ApiShape(r)
  BY OtherMoves DEF ApiTypeInv
<1>3. pc[r] = "sign.find" /\ pc'[r] = "sign.insert" =>
        /\ signer' = [signer EXCEPT ![r] = signer'[r]]
        /\ signer'[r] = [url |-> Sign(req[r].file, req[r].exp, now), at |-> now]
        /\ signer'[r].url.file = req[r].file
        /\ held'[r] = [id |-> r, file |-> req[r].file, exp |-> signer'[r].url.expires.number,
                       user |-> req[r].user, revoked |-> FALSE]
        /\ held'[r] \in Link
  BY <1>2, SignedLinkTyped
<1>4. \/ pc[r] = "sign.find" /\ pc'[r] = "sign.insert"
      \/ UNCHANGED signer /\ (held'[r] = held[r] \/ pc[r] = "download.redeem")
  BY <1>2 DEF OtherMove, Went
<1>5. \A s \in Request : s # r => signer'[s] = signer[s]
  BY <1>3, <1>4 DEF ApiTypeInv
<1>6. signer' = [s \in Request |-> signer'[s]]
  BY <1>3, <1>4 DEF ApiTypeInv
<1>7. now \in 0 .. now /\ Unanswered
  BY TimesAreNatural DEF ApiTypeInv
<1>8. resp'[r] = "ok" /\ req[r].op = "sign" => pc[r] = "sign.audit" /\ UNCHANGED <<held, signer>>
  <2>1. resp'[r] = "ok" => pc'[r] = "done"
    BY <1>1, <1>2, <1>7 
    DEF OtherMove, Went, Ended, Failed, Unanswered, OtherSteps, SignSteps, RevokeSteps,
        DownloadSteps, HistorySteps, ReadSteps
  <2>2. resp'[r] = "ok" => OtherAnswer(r)
    BY <2>1, OtherAnswers
  <2>3. resp'[r] = "ok" /\ req[r].op = "sign" => pc[r] = "sign.audit"
    BY <1>2, <2>2 DEF OtherAnswer, ApiShape, ApiShapeAt, DownloadSteps, RevokeSteps, HistorySteps,
       ReadSteps
  <2> QED BY <1>2, <2>1, <2>3 DEF OtherMove, Went
<1>9. ASSUME NEW s \in Request
      PROVE  /\ (Signing(s) => SignedAs(s))'
             /\ (Answered(s, "sign", "ok") => held[s] # None)'
             /\ (signer[s] # None => signer[s].at \in 0 .. now /\ signer[s].url.file \in FileId)'
  <2>1. CASE s # r
    <3>1. /\ req'[s] = req[s] /\ resp'[s] = resp[s] /\ held'[s] = held[s]
          /\ signer'[s] = signer[s]
      BY <1>1, <1>5, <2>1 DEF Others
    <3> QED BY <3>1 DEF ApiTypeInv, SignersSign, SignerTyped, Signing, SignedAs, Answered
  <2>2. CASE s = r /\ pc[r] = "sign.find" /\ pc'[r] = "sign.insert"
    <3>1. SignedAs(r)' /\ held'[r] # None
      BY <1>1, <1>3, <1>7, <2>2, NoneIsNoValue DEF SignedAs
    <3>2. signer'[r].at = now /\ signer'[r].url.file \in FileId
      <4>1. req[r].file \in FileId
        BY <1>1 DEF ApiTypeInv, TypeInv, Shape, ShapeAt, Command, OtherSteps, SignSteps,
           RevokeSteps, DownloadSteps, HistorySteps, ReadSteps
      <4> QED BY <1>3, <2>2, <4>1
    <3> QED BY <1>7, <2>2, <3>1, <3>2
  <2>3. CASE s = r /\ UNCHANGED signer /\ (held'[r] = held[r] \/ pc[r] = "download.redeem")
    <3>1. (Signing(s) => SignedAs(s))'
      BY <1>1, <1>2, <2>3
      DEF ApiTypeInv, SignersSign, Signing, SignedAs, ApiShape, ApiShapeAt, DownloadSteps
    <3>2. (Answered(s, "sign", "ok") => held[s] # None)'
      <4>1. pc[r] = "sign.audit" => held[r] \in Link
        BY <1>2 DEF ApiShape, ApiShapeAt
      <4> QED BY <1>1, <1>8, <2>3, <4>1, NoneIsNoValue DEF Answered
    <3> QED BY <2>3, <3>1, <3>2 DEF ApiTypeInv, SignerTyped
  <2> QED BY <1>4, <2>1, <2>2, <2>3
<1> QED BY <1>6, <1>9 DEF SignersSign, SignerTyped

LEMMA OtherKeepsTypes ==
  ASSUME ApiTypeInv, NEW r \in Request, UNCHANGED <<now, before>>,
         \/ ReadStep(r) /\ UNCHANGED signer
         \/ LinkStep(r) /\ UNCHANGED listed
  PROVE  ApiTypeInv'
<1>1. FlowTypeOK' /\ (\A s \in Request : Shape(s)') /\ StoresTypeOK'
  BY OtherKeepsFlow, OtherKeepsStores
<1>2. ListedTypeOK'
  BY ReadKeepsListed DEF ApiTypeInv, ListedTypeOK
<1>3. \A s \in Request : ApiShape(s)'
  BY OtherKeepsApiShape
<1>4. SignersSign' /\ SignerTyped' /\ signer' = [s \in Request |-> signer'[s]]
  BY OtherKeepsSigners
<1>5. Unanswered'
  <2>1. Others(r) /\ UNCHANGED req /\ pc[r] \in OtherSteps
    BY OtherEffect
  <2>2. OtherMove(r)
    BY OtherMoves
  <2>3. (pc'[r] # "done" => resp'[r] = resp[r]) /\ pc'[r] # "idle"
    BY <2>1, <2>2
    DEF OtherMove, Went, Ended, Failed, OtherSteps, SignSteps, RevokeSteps, DownloadSteps,
        HistorySteps, ReadSteps
  <2>4. pc[r] # "done" /\ pc[r] # "idle"
    BY <2>1 DEF OtherSteps, SignSteps, RevokeSteps, DownloadSteps, HistorySteps, ReadSteps
  <2> QED BY <2>1, <2>3, <2>4 DEF Others, Unanswered, ApiTypeInv
<1> QED BY <1>1, <1>2, <1>3, <1>4, <1>5 DEF ApiTypeInv, TypeInv, TypeOK

\* The other services' requests arrive; a download's URL was handed out, or
\* is one that was tampered with.
LEMMA ReceiveOtherKeepsTypes ==
  ASSUME ApiTypeInv, NEW r \in Request, UNCHANGED <<now, listed>>,
         before' \in [Request -> SUBSET Request],
         \/ (ReceiveSign(r) \/ ReceiveRevoke(r) \/ ReceiveHistory(r) \/ ReceiveRead(r))
            /\ UNCHANGED signer
         \/ ReceiveDownload(r)
  PROVE  ApiTypeInv'
<1>1. /\ TypeInv /\ FlowTypeOK /\ Unanswered /\ ApiShape(r)
      /\ signer = [s \in Request |-> signer[s]]
  BY DEF ApiTypeInv, TypeInv, TypeOK
<1>2. /\ Others(r) /\ pc[r] = "idle" /\ UNCHANGED <<stores, seen, held>>
      /\ req' = [req EXCEPT ![r] = req'[r]]
      /\ req'[r] \in Command
      /\ pc'[r] \in {"sign.find", "revoke.find", "history.find", "get.find", "links.find",
                     "list.select", "download.find", "done"}
      /\ ApiShapeAt(pc'[r], req'[r], held[r])
      /\ pc'[r] # "done" => resp'[r] = resp[r]
      /\ resp'[r] # "ok"
      /\ req'[r].op = "sign" => UNCHANGED signer
      /\ signer' = [s \in Request |-> signer'[s]]
      /\ \A s \in Request : s # r => signer'[s] = signer[s]
      /\ \/ UNCHANGED signer
         \/ signer'[r].at = now /\ signer'[r].url.file \in FileId
  <2> USE DEF Went, Ended
  <2>1. held[r] = None /\ resp[r] = "none"
    <3>1. pc[r] = "idle"
      BY DEF ReceiveSign, ReceiveRevoke, ReceiveHistory, ReceiveRead, ReceiveDownload, Receive
    <3> QED BY <1>1, <3>1 DEF ApiShape, ApiShapeAt, Unanswered
  <2> USE DEF SignSteps, RevokeSteps, DownloadSteps, HistorySteps, ReadSteps
  <2>2. CASE (ReceiveSign(r) \/ ReceiveRevoke(r) \/ ReceiveHistory(r) \/ ReceiveRead(r))
             /\ UNCHANGED signer
    <3>1. /\ Others(r) /\ pc[r] = "idle" /\ UNCHANGED <<stores, seen, held>>
          /\ req' = [req EXCEPT ![r] = req'[r]]
          /\ req'[r] \in Command /\ req'[r].user \in User
          /\ req'[r].op \in {"sign", "revoke", "history", "get", "list", "links"}
          /\ req'[r].op = "revoke" => req'[r].arg \in LinkId \cup {None}
          /\ Ended(r, "VALIDATION") \/ Went(r, FirstStep(req'[r].op))
      BY <1>1, <2>2, ReceiveOtherEffect
    <3>2. CASE Ended(r, "VALIDATION")
      BY <1>1, <2>1, <2>2, <3>1, <3>2 DEF ApiShapeAt
    <3>3. CASE Went(r, FirstStep(req'[r].op))
      <4>1. /\ pc'[r] \in {"sign.find", "revoke.find", "history.find", "get.find", "links.find",
                           "list.select"}
            /\ ApiShapeAt(pc'[r], req'[r], held[r])
        BY <2>1, <3>1, <3>3 DEF FirstStep, ApiShapeAt
      <4> QED BY <1>1, <2>1, <2>2, <3>1, <3>3, <4>1
    <3> QED BY <3>1, <3>2, <3>3
  <2>3. CASE ReceiveDownload(r)
    <3>1. /\ Others(r) /\ pc[r] = "idle" /\ UNCHANGED <<stores, seen, held>>
          /\ req' = [req EXCEPT ![r] = req'[r]]
      BY <1>1, <2>3, ReceiveDownloadEffect
    <3>2. PICK url \in Presented :
            /\ signer' = [signer EXCEPT ![r] = [url |-> url, at |-> now]]
            /\ req'[r] = [op |-> "download", user |-> None, file |-> url.file, arg |-> None,
                          exp |-> url.expires.number]
            /\ IF Verify(url, now) THEN Went(r, "download.find")
                                   ELSE Ended(r, "INVALID_SIGNED_URL")
      BY <1>1, <2>3, ReceiveDownloadEffect
    <3>3. url.file \in FileId /\ url.expires.number \in Nat
      BY HandedOutIsSigned, PresentedUrls
    <3>4. req'[r] \in Command
      <4>1. [op |-> "download", user |-> None, file |-> url.file, arg |-> None,
             exp |-> url.expires.number] \in Command
        BY <3>3 DEF Command, Op
      <4> QED BY <3>2, <4>1
    <3>5. req'[r].op = "download"
      BY <3>2
    <3>6. /\ signer' = [s \in Request |-> signer'[s]]
          /\ \A s \in Request : s # r => signer'[s] = signer[s]
          /\ signer'[r].at = now /\ signer'[r].url.file \in FileId
      BY <1>1, <3>2, <3>3
    <3>7. /\ pc'[r] \in {"download.find", "done"} /\ (pc'[r] # "done" => resp'[r] = resp[r])
          /\ resp'[r] # "ok"
      BY <2>1, <3>2
    <3>8. ApiShapeAt(pc'[r], req'[r], held[r])
      BY <2>1, <3>5, <3>7 DEF ApiShapeAt
    <3> QED BY <3>1, <3>4, <3>5, <3>6, <3>7, <3>8
  <2> QED BY <2>2, <2>3
<1>3. FlowTypeOK' /\ \A s \in Request : Shape(s)'
  <2>1. Moves(r, {"sign.find", "revoke.find", "history.find", "get.find", "links.find",
                  "list.select", "download.find", "done"})
    <3>1. ASSUME NEW command, NEW valid, NEW first, Receive(r, command, valid, first)
          PROVE  Moves(r, {first, "done"})
      <4>1. CASE valid
        <5>1. Moves(r, {first})
          BY <1>1, <3>1, <4>1, GotoMoves DEF Receive
        <5> QED BY <5>1, MoreTargets
      <4>2. CASE ~valid
        <5>1. Answer(r, "VALIDATION") /\ "VALIDATION" \in Code
          BY <3>1, <4>2 DEF Receive, Code
        <5>2. Moves(r, {"done"})
          BY <1>1, <5>1, AnswerMoves
        <5> QED BY <5>2, MoreTargets
      <4> QED BY <4>1, <4>2
    <3>2. CASE ReceiveDownload(r)
      <4>1. Goto(r, "download.find") \/ Answer(r, "INVALID_SIGNED_URL")
        BY <3>2 DEF ReceiveDownload
      <4>2. Moves(r, {"download.find"}) \/ Moves(r, {"done"})
        BY <1>1, <4>1, GotoMoves, AnswerMoves DEF Code
      <4> QED BY <4>2, MoreTargets
    <3>3. CASE ReceiveSign(r) \/ ReceiveRevoke(r) \/ ReceiveHistory(r) \/ ReceiveRead(r)
      <4>1. \E first \in {"sign.find", "revoke.find", "history.find", "get.find", "links.find",
                          "list.select"} : \E command, valid : Receive(r, command, valid, first)
        <5>1. CASE ReceiveSign(r)
          BY <5>1 DEF ReceiveSign
        <5>2. CASE ReceiveRevoke(r)
          BY <5>2 DEF ReceiveRevoke
        <5>3. CASE ReceiveHistory(r)
          BY <5>3 DEF ReceiveHistory
        <5>4. CASE ReceiveRead(r)
          BY <5>4 DEF ReceiveRead
        <5> QED BY <3>3, <5>1, <5>2, <5>3, <5>4
      <4>2. \E first \in {"sign.find", "revoke.find", "history.find", "get.find", "links.find",
                          "list.select"} : Moves(r, {first, "done"})
        BY <3>1, <4>1
      <4> QED BY <4>2, MoreTargets
    <3> QED BY <3>2, <3>3
  <2>2. /\ seen'[r] \in Row \cup {None} /\ seen' = [seen EXCEPT ![r] = seen'[r]]
        /\ held'[r] \in Row \cup Link \cup {None} /\ held' = [held EXCEPT ![r] = held'[r]]
    BY <1>1, <1>2 DEF FlowTypeOK
  <2>3. \A p \in {"sign.find", "revoke.find", "history.find", "get.find", "links.find",
                  "list.select", "download.find", "done"} : ShapeAt(r, p, req'[r], seen'[r])
    BY <1>2 DEF ShapeAt, UploadSteps, DeleteSteps, RenameSteps, Holding
  <2>4. {"sign.find", "revoke.find", "history.find", "get.find", "links.find",
         "list.select", "download.find", "done"} \subseteq Step \cup {"done"}
    BY DEF Step, DatabaseStep
  <2> QED BY <1>1, <1>2, <2>1, <2>2, <2>3, <2>4, MoveKeepsShape
<1>4. StoresTypeOK' /\ ListedTypeOK'
  BY <1>2 DEF ApiTypeInv, TypeInv, TypeOK, StoresTypeOK, ListedTypeOK, stores
<1>5. Unanswered'
  BY <1>1, <1>2 DEF Others, Unanswered
<1>6. \A s \in Request : ApiShape(s)'
  BY <1>2 DEF ApiTypeInv, ApiShape, Others
<1>7. SignersSign'
  <2> SUFFICES ASSUME NEW s \in Request
               PROVE  /\ (Signing(s) => SignedAs(s))'
                      /\ (Answered(s, "sign", "ok") => held[s] # None)'
    BY DEF SignersSign
  <2>1. CASE s # r
    <3>1. /\ req'[s] = req[s] /\ resp'[s] = resp[s] /\ held'[s] = held[s]
          /\ signer'[s] = signer[s]
      BY <1>2, <2>1 DEF Others
    <3> QED BY <3>1 DEF ApiTypeInv, SignersSign, Signing, SignedAs, Answered
  <2>2. CASE s = r
    BY <1>1, <1>2, <2>2 DEF Signing, Answered, ApiShape, ApiShapeAt
  <2> QED BY <2>1, <2>2
<1>8. SignerTyped'
  <2>1. now \in 0 .. now
    BY TimesAreNatural DEF ApiTypeInv
  <2> QED BY <1>2, <2>1 DEF SignerTyped, ApiTypeInv
<1> QED BY <1>2, <1>3, <1>4, <1>5, <1>6, <1>7, <1>8 DEF ApiTypeInv, TypeInv, TypeOK

\* What this module adds to TypeInv does not depend on what the file services
\* do: they change neither the URLs nor the links in a request's hands.
LEMMA FileKeepsApiTypes ==
  ASSUME ApiTypeInv, NEW r \in Request, FileNext(r), UNCHANGED <<now, signer, listed>>,
         before' \in [Request -> SUBSET Request]
  PROVE  ApiTypeInv'
<1>1. TypeInv /\ Unanswered /\ ApiShape(r)
  BY DEF ApiTypeInv
<1>2. TypeInv'
  BY <1>1, NextKeepsTypes DEF Next
<1>3. FlowFrame(r) /\ MoveFrame(r)
  BY <1>1, FileFlowFrame, FileMoveFrame
<1>4. Unanswered'
  BY <1>1, <1>3, UnansweredStays
<1>5. /\ \/ pc[r] = "idle" /\ held'[r] = None /\ req'[r].op # "sign"
         \/ pc[r] \in RenameSteps /\ req'[r] = req[r] /\ req[r].op = "rename"
         \/ pc[r] # "idle" /\ req'[r] = req[r] /\ held'[r] = held[r]
      /\ resp'[r] = "ok" => req'[r].op # "sign"
  <2>1. CASE ReceiveFileOp(r)
    BY <1>1, <2>1, ReceiveEffect DEF ApiShape, ApiShapeAt, Unanswered, Ended, Went
  <2>2. CASE UploadStep(r)
    BY <1>1, <2>2, UploadEffect DEF UploadSteps
  <2>3. CASE DeleteStep(r)
    BY <1>1, <2>3, DeleteEffect DEF DeleteSteps
  <2>4. CASE RenameStep(r)
    BY <1>1, <2>4, RenameEffect
  <2>5. CASE Fault(r) \/ Crash(r)
    <3>1. UNCHANGED <<req, held>> /\ pc[r] \in Step /\ resp[r] = "none"
      BY <1>1, <2>5, FailureEffect DEF Unanswered, Step, DatabaseStep, StorageStep
    <3>2. resp'[r] # "ok"
      BY <1>1, <2>5, <3>1, FailureEffect DEF Failed, Ended, Went, Layer
    <3> QED BY <3>1, <3>2 DEF Step, DatabaseStep, StorageStep
  <2> QED BY <2>1, <2>2, <2>3, <2>4, <2>5 DEF FileNext, FileStep
<1>6. \A s \in Request : ApiShape(s)'
  <2> USE DEF SignSteps, RevokeSteps, DownloadSteps, HistorySteps, ReadSteps
  <2>1. ApiShapeAt(pc'[r], req'[r], held'[r])
    <3>1. pc'[r] # "idle"
      BY <1>3 DEF FlowFrame
    <3>2. CASE pc'[r] = pc[r]
      BY <1>1, <1>5, <3>1, <3>2 DEF ApiShape, ApiShapeAt, RenameSteps
    <3>3. CASE pc'[r] # pc[r]
      BY <1>3, <3>1, <3>3 DEF MoveFrame, ApiShapeAt
    <3> QED BY <3>2, <3>3
  <2> QED BY <1>3, <2>1 DEF FlowFrame, Others, ApiTypeInv, ApiShape
<1>7. SignersSign'
  <2> SUFFICES ASSUME NEW s \in Request
               PROVE  /\ (Signing(s) => SignedAs(s))'
                      /\ (Answered(s, "sign", "ok") => held[s] # None)'
    BY DEF SignersSign
  <2>1. CASE s # r \/ (req'[r] = req[r] /\ held'[r] = held[r])
    <3>1. req'[s] = req[s] /\ held'[s] = held[s]
      BY <1>3, <2>1 DEF FlowFrame, Others
    <3>2. s # r => resp'[s] = resp[s]
      BY <1>3 DEF FlowFrame, Others
    <3> QED BY <1>5, <3>1, <3>2 DEF ApiTypeInv, SignersSign, Signing, SignedAs, Answered
  <2>2. CASE s = r /\ req'[r].op # "sign"
    BY <2>2 DEF Signing, Answered
  <2> QED BY <1>5, <2>1, <2>2
<1>8. ListedTypeOK' /\ SignerTyped'
  BY DEF ApiTypeInv, ListedTypeOK, SignerTyped
<1> QED BY <1>2, <1>4, <1>6, <1>7, <1>8 DEF ApiTypeInv

\* A second passes, or nothing.
LEMMA WaitKeepsApiTypes ==
  ASSUME ApiTypeInv, Wait \/ UNCHANGED apiVars
  PROVE  ApiTypeInv'
<1>1. UNCHANGED <<stores, flow, signer, listed, before>> /\ now' \in 0 .. MaxTime /\ now <= now'
  BY TimesAreNatural DEF ApiTypeInv, Wait, Tick, apiVars
<1>2. UNCHANGED vars
  BY <1>1 DEF vars
<1>3. TypeInv'
  BY <1>2, NextKeepsTypes DEF ApiTypeInv
<1>4. UNCHANGED <<req, pc, resp, held>>
  BY <1>1 DEF flow
<1>5. Unanswered' /\ \A r \in Request : ApiShape(r)'
  BY <1>4 DEF ApiTypeInv, Unanswered, ApiShape
<1>6. 0 .. now \subseteq 0 .. now'
  BY <1>1, TimesAreNatural DEF ApiTypeInv
<1>7. SignersSign'
  BY <1>1, <1>4, <1>6 DEF ApiTypeInv, SignersSign, Signing, SignedAs, Answered
<1>8. SignerTyped' /\ ListedTypeOK'
  BY <1>1, <1>6 DEF ApiTypeInv, SignerTyped, ListedTypeOK
<1> QED BY <1>1, <1>3, <1>5, <1>7, <1>8 DEF ApiTypeInv

LEMMA ApiNextKeepsTypes ==
  ASSUME ApiTypeInv, [ApiNext]_apiVars
  PROVE  ApiTypeInv'
<1>1. ASSUME NEW r \in Request, Arrive(r) PROVE ApiTypeInv'
  <2>1. before' \in [Request -> SUBSET Request] /\ UNCHANGED <<now, listed>>
    BY <1>1 DEF Arrive, ApiTypeInv
  <2> QED BY <1>1, <2>1, ReceiveOtherKeepsTypes, FileKeepsApiTypes
          DEF Arrive, FileNext, ReceiveLinkOp
<1>2. ASSUME NEW r \in Request, Proceed(r) PROVE ApiTypeInv'
  <2>1. before' \in [Request -> SUBSET Request] /\ UNCHANGED <<now, before>>
    BY <1>2 DEF Proceed, ApiTypeInv
  <2> QED BY <1>2, <2>1, OtherKeepsTypes, FileKeepsApiTypes DEF Proceed, FileNext
<1>3. ASSUME NEW r \in Request, Stop(r) PROVE ApiTypeInv'
  <2>1. before' \in [Request -> SUBSET Request]
    BY <1>3 DEF Stop, ApiTypeInv
  <2> QED BY <1>3, <2>1, FileKeepsApiTypes DEF Stop, FileNext
<1>4. CASE Wait \/ UNCHANGED apiVars
  BY <1>4, WaitKeepsApiTypes
<1> QED BY <1>1, <1>2, <1>3, <1>4 DEF ApiNext

LEMMA ApiTypeInvHolds == ApiSpec => []ApiTypeInv
BY InitApiTypeInv, ApiNextKeepsTypes, PTL DEF ApiSpec

\* Whatever arrives, in whatever order, and whatever fails: the rows, links,
\* events, answers and locals of the requests are of their types, and a URL in
\* a request's hands names a file and a time that has passed.
THEOREM ApiTypesAreCorrect == ApiSpec => []ApiTypeOK
<1>1. ApiTypeInv => ApiTypeOK
  BY DEF ApiTypeInv, ApiTypeOK, TypeInv, SignerTyped
<1> QED BY <1>1, ApiTypeInvHolds, PTL
=============================================================================
