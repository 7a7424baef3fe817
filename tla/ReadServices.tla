---------------------------- MODULE ReadServices ----------------------------
(***************************************************************************)
(* The endpoints that only read: one file, the caller's files, and the     *)
(* signed links of a file.  The first two are one query; the third is two, *)
(* and the file may be deleted between them.                               *)
(***************************************************************************)
EXTENDS RequestFlow

\* listed[r]: the rows in the answer to r, files by their id
VARIABLE listed

ListedTypeOK == listed \in [Request -> SUBSET (FileId \cup Link)]
ListedInit == listed = [r \in Request |-> {}]

\* The query's rows become the answer.
Show(r, rows) ==
  /\ listed' = [listed EXCEPT ![r] = rows]
  /\ Answer(r, "ok")

----------------------------------------------------------------------------
\* Listing names no file; r stands in its place.
ReceiveRead(r) ==
  \/ \E user \in User, f \in DrawnIds :
       \/ Receive(r, [op |-> "get", user |-> user, file |-> f, arg |-> None, exp |-> 0],
                  TRUE, "get.find")
       \/ Receive(r, [op |-> "links", user |-> user, file |-> f, arg |-> None, exp |-> 0],
                  TRUE, "links.find")
  \/ \E user \in User :
       Receive(r, [op |-> "list", user |-> user, file |-> r, arg |-> None, exp |-> 0],
               TRUE, "list.select")

\* GetFileService
GetFind(r) ==
  /\ pc[r] = "get.find"
  /\ \/ Refuse(r) /\ UNCHANGED listed
     \/ Owned(r) /\ Remember(r) /\ Show(r, {req[r].file})
  /\ UNCHANGED <<stores, req, held>>

\* ListFilesService: SELECT ... WHERE user_id
ListSelect(r) ==
  /\ pc[r] = "list.select"
  /\ Show(r, {f \in FileId : files[f] # None /\ files[f].user = req[r].user})
  /\ UNCHANGED <<stores, req, seen, held>>

\* ListSignedLinksService: SELECT ... WHERE file_id, once the file is found.
LinksFind(r) ==
  /\ pc[r] = "links.find"
  /\ GetOwned(r, "links.select")
  /\ UNCHANGED <<stores, req, held, listed>>

LinksSelect(r) ==
  /\ pc[r] = "links.select"
  /\ Show(r, {l \in links : l.file = req[r].file})
  /\ UNCHANGED <<stores, req, seen, held>>

ReadStep(r) == GetFind(r) \/ ListSelect(r) \/ LinksFind(r) \/ LinksSelect(r)
=============================================================================
