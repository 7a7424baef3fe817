------------------------- MODULE FileServicesCatalog -------------------------
(***************************************************************************)
(* How the file services implement FileCatalog.  A file is in the catalog  *)
(* when it has a row and its whole bytes.  A delete takes effect when it   *)
(* drops the row, a rename at its UPDATE, an upload at its INSERT, which   *)
(* is also the last call it awaits.                                        *)
(***************************************************************************)
EXTENDS FileServices

VisibleFile(f) == IF files[f] # None /\ blobs[f] = "whole" THEN files[f] ELSE None

Stage(r) ==
  CASE pc[r] = "idle" -> "idle"
    [] pc[r] = "delete.unlink" -> "applied"
    [] pc[r] = "rename.audit" -> IF held[r] = None THEN "missed" ELSE "applied"
    [] pc[r] = "done" -> IF resp[r] \in {"database", "storage", "INTERNAL"}
                           THEN "failed" ELSE resp[r]
    [] OTHER -> "open"

Catalog == INSTANCE FileCatalog WITH
  File    <- FileId,
  catalog <- [f \in FileId |-> VisibleFile(f)],
  wish    <- req,
  stage   <- [r \in Request |-> Stage(r)]

\* Two stores without a transaction look like one: as long as every statement
\* that was executed is also acknowledged, all interleavings, failures, torn
\* writes and stops of the services are runs of the catalog.
ImplementsCatalog == Catalog!CatalogSpec
=============================================================================
