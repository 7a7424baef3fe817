----------------------------- MODULE FileCatalog -----------------------------
(***************************************************************************)
(* What the clients of the file services are promised: one catalog of the  *)
(* files that can be fetched, in which every upload, delete and rename     *)
(* takes effect in one step, at most once, and between its arrival and its *)
(* answer; a request that is told "ok" has had its effect, one that is     *)
(* refused had a reason when it was refused, and one that failed may or    *)
(* may not have had it, except that a failed upload had none.              *)
(* FileServices, with a row and its bytes in different stores, implements  *)
(* this as long as no acknowledgement is lost.                             *)
(***************************************************************************)
CONSTANTS Request, User, Name, File, None

VARIABLES
  catalog,  \* catalog[f]: the owner and the name of f, or None
  wish,     \* wish[r]: what r asks for
  stage     \* stage[r]: how far r is, and how it ended

catalogVars == <<catalog, wish, stage>>

Wish == [op : {"upload", "delete", "rename"}, user : User, file : File,
         arg : Name \cup {None}, exp : {0}]

CatalogInit ==
  /\ catalog \in [File -> [user : User, name : Name] \cup {None}]
  /\ \A f \in File : f \in Request => catalog[f] = None
  /\ wish = [r \in Request |-> None]
  /\ stage = [r \in Request |-> "idle"]

Reach(r, next) == stage' = [stage EXCEPT ![r] = next]

Mine(r) == catalog[wish[r].file] # None /\ catalog[wish[r].file].user = wish[r].user

Gone(r) == catalog[wish[r].file] = None

Ask(r) ==
  /\ stage[r] = "idle"
  /\ wish'[r] \in Wish
  /\ wish'[r].op = "upload" => wish'[r].file = r
  /\ wish' = [wish EXCEPT ![r] = wish'[r]]
  /\ Reach(r, "open") \/ Reach(r, "VALIDATION")
  /\ UNCHANGED catalog

\* A new file becomes visible in the step that says so.
Upload(r) ==
  /\ stage[r] = "open"
  /\ wish[r].op = "upload"
  /\ catalog[r] = None
  /\ catalog' = [catalog EXCEPT ![r] = [user |-> wish[r].user, name |-> wish[r].arg]]
  /\ Reach(r, "ok")
  /\ UNCHANGED wish

\* Somebody else may have deleted the file first; that is what r wanted.
Delete(r) ==
  /\ stage[r] = "open"
  /\ wish[r].op = "delete"
  /\ Mine(r) \/ Gone(r)
  /\ catalog' = [catalog EXCEPT ![wish[r].file] = None]
  /\ Reach(r, "applied")
  /\ UNCHANGED wish

Rename(r) ==
  /\ stage[r] = "open"
  /\ wish[r].op = "rename"
  /\ \/ /\ Mine(r)
        /\ catalog' = [catalog EXCEPT ![wish[r].file].name = wish[r].arg]
        /\ Reach(r, "applied")
     \/ /\ Gone(r)
        /\ Reach(r, "missed")
        /\ UNCHANGED catalog
  /\ UNCHANGED wish

Confirm(r) ==
  /\ stage[r] = "applied"
  /\ Reach(r, "ok")
  /\ UNCHANGED <<catalog, wish>>

Refuse(r) ==
  /\ stage[r] = "open"
  /\ wish[r].op # "upload"
  /\ \/ Gone(r) /\ Reach(r, "FILE_NOT_FOUND")
     \/ ~Gone(r) /\ ~Mine(r) /\ Reach(r, "FORBIDDEN")
     \/ Mine(r) /\ wish[r].arg = None /\ Reach(r, "VALIDATION")
  /\ UNCHANGED <<catalog, wish>>

Fail(r) ==
  /\ stage[r] \in {"open", "applied", "missed"}
  /\ Reach(r, "failed") \/ Reach(r, "lost")
  /\ UNCHANGED <<catalog, wish>>

CatalogNext ==
  \E r \in Request :
    Ask(r) \/ Upload(r) \/ Delete(r) \/ Rename(r) \/ Confirm(r) \/ Refuse(r) \/ Fail(r)

CatalogSpec == CatalogInit /\ [][CatalogNext]_catalogVars
=============================================================================
