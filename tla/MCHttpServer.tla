---------------------------- MODULE MCHttpServer ----------------------------
(* Instances of HttpServer for TLC. *)
EXTENDS HttpServer, TLC

CONSTANTS r1, r2, r3, alice, a, batch, p1, p2, stored

\* The first two requests serve the items of the batch.
Pair == batch :> <<r1, r2>>
=============================================================================
