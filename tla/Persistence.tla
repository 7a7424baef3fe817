---------------------------- MODULE Persistence ----------------------------
(***************************************************************************)
(* The shared state of the service and the statements it runs on it: the  *)
(* three Postgres tables (infrastructure/database/migrations.ts) and the   *)
(* blob storage behind the BlobStorage interface.                          *)
(*                                                                         *)
(* The pool runs every statement in autocommit mode, so one operator below *)
(* is one atomic statement; nothing in the service groups two of them.     *)
(*                                                                         *)
(* Identifiers.  randomUUID() is modelled by naming a record after what    *)
(* drew its id: the file an upload creates and the link a sign request     *)
(* creates carry the request's name, and an audit event carries the        *)
(* request and the number of the attempt that inserted it, because         *)
(* audit.repository.ts draws a new id in every attempt.                    *)
(***************************************************************************)
EXTENDS Naturals, FiniteSets

CONSTANTS
  Request,      \* HTTP requests; each is served once
  User,         \* values of the X-User-Id header
  Name,         \* file names
  StoredFile,   \* files uploaded before the behaviour starts
  StoredLink,   \* signed links generated before the behaviour starts
  StoredExp,    \* the expiry of those links, in seconds
  Unknown,      \* the user id "unknown" of a rejected download's event
  None          \* null, undefined, or no row

ASSUME IdsAreDistinct ==
  /\ Request \cap StoredFile = {}
  /\ Request \cap StoredLink = {}

ASSUME StoredExpIsTime == StoredExp \in Nat

FileId == Request \cup StoredFile
LinkId == Request \cup StoredLink

\* What the code reads of a files row; size and content type are never
\* updated, and storage_path is a function of the id.
Row == [user : User, name : Name]

\* A signed_links row.  The signature is an HMAC of (file, exp), so the pair
\* stands for it; ttl_seconds is not read back by any decision.
Link == [id : LinkId, file : FileId, exp : Nat, user : User, revoked : BOOLEAN]

EventType == {"signed_link_generated", "signed_link_revoked",
              "signed_link_downloaded", "signed_link_download_rejected",
              "file_renamed", "file_deleted"}

\* An audit_events row.  "name", "was" and "link" are the metadata fields
\* filename, previousFilename and signedLinkId.
Event == [id   : (Request \cup StoredLink) \X Nat,
          file : FileId,
          user : User \cup {Unknown},
          type : EventType,
          name : Name \cup {None},
          was  : Name \cup {None},
          link : LinkId \cup {None},
          exp  : Nat]

\* The bytes under a file's storage location.  "partial" is what an
\* interrupted writeFile leaves on the local disk.
BlobState == {"absent", "partial", "whole"}

ASSUME NoneIsNoValue ==
  /\ None \notin Row
  /\ None \notin Link
  /\ None \notin Name
  /\ None \notin LinkId
  /\ None \notin User

\* Ids are strings and rows are objects.
ASSUME LinksAreNoIds == \A f \in FileId : f \notin Link

VARIABLES
  files,   \* files[f]: the row of f, or None
  links,   \* the signed_links table
  audit,   \* the audit_events table
  blobs    \* blobs[f]: the bytes stored for f

stores == <<files, links, audit, blobs>>

StoresTypeOK ==
  /\ files \in [FileId -> Row \cup {None}]
  /\ links \subseteq Link
  /\ audit \subseteq Event
  /\ blobs \in [FileId -> BlobState]

\* What earlier requests left behind: every stored file has a row and its
\* bytes, every stored link belongs to the owner of its file, and its
\* generation was audited.
StoresInit ==
  /\ files \in [FileId -> Row \cup {None}]
  /\ \A f \in FileId : files[f] = None <=> f \in Request
  /\ blobs = [f \in FileId |-> IF f \in Request THEN "absent" ELSE "whole"]
  /\ \E at \in [StoredLink -> StoredFile] :
       /\ \A k, l \in StoredLink : at[k] = at[l] => k = l
       /\ links = {[id |-> l, file |-> at[l], exp |-> StoredExp,
                    user |-> files[at[l]].user, revoked |-> FALSE] : l \in StoredLink}
       /\ audit = {[id |-> <<l, 1>>, file |-> at[l], user |-> files[at[l]].user,
                    type |-> "signed_link_generated", name |-> None, was |-> None,
                    link |-> None, exp |-> StoredExp] : l \in StoredLink}

----------------------------------------------------------------------------
(* Variants with a plausible bug; none is part of a specification.         *)

\* UNIQUE (file_id) instead of UNIQUE (signature).
CanInsertOneLink(link) ==
  files[link.file] # None /\ \A l \in links : l.file # link.file

\* WHERE id AND file_id, without AND revoked_at IS NULL.
RevocableAgain(id, f) == {l \in links : l.id = id /\ l.file = f}

----------------------------------------------------------------------------
(* The files table. *)

\* INSERT INTO files: the primary key rejects an id that has a row.
CanInsertRow(f) == files[f] = None
InsertRow(f, row) == files' = [files EXCEPT ![f] = row]

\* UPDATE files SET original_filename ... RETURNING: no row, no effect.
RenameRow(f, name) ==
  files' = IF files[f] = None THEN files
                              ELSE [files EXCEPT ![f].name = name]

\* DELETE FROM files, and the links that reference the row (ON DELETE
\* CASCADE).  Deleting an id that has no row is not an error.
DeleteRow(f) ==
  /\ files' = [files EXCEPT ![f] = None]
  /\ links' = {l \in links : l.file # f}

----------------------------------------------------------------------------
(* The signed_links table. *)

\* INSERT INTO signed_links: the foreign key, the primary key and the UNIQUE
\* constraint on the signature.
CanInsertLink(link) ==
  /\ files[link.file] # None
  /\ \A l \in links : l.id # link.id /\ <<l.file, l.exp>> # <<link.file, link.exp>>
InsertLink(link) == links' = links \cup {link}

\* SELECT ... WHERE file_id AND signature: UNIQUE, so at most one row.
LinksFor(f, exp) == {l \in links : l.file = f /\ l.exp = exp}

\* UPDATE signed_links SET revoked_at ... WHERE id AND file_id AND
\* revoked_at IS NULL: the rows it would touch, and the statement.
Revocable(id, f) == {l \in links : l.id = id /\ l.file = f /\ ~l.revoked}
RevokeLink(id, f) ==
  links' = (links \ Revocable(id, f))
             \cup {[l EXCEPT !.revoked = TRUE] : l \in Revocable(id, f)}

----------------------------------------------------------------------------
(* The audit_events table (append only) and the blob storage. *)

InsertEvent(event) == audit' = audit \cup {event}

\* SELECT 1 FROM audit_events WHERE file_id AND user_id.
HasEventBy(f, user) == \E e \in audit : e.file = f /\ e.user = user

WriteBlob(f, state) == blobs' = [blobs EXCEPT ![f] = state]

\* access, HeadObject: by the location alone, whole or not.
HasBlob(f) == blobs[f] # "absent"

\* rm with force, DeleteObject: removing what is not there is no error.
RemoveBlob(f) == blobs' = [blobs EXCEPT ![f] = "absent"]
=============================================================================
