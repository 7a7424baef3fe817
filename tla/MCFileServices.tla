--------------------------- MODULE MCFileServices ---------------------------
(* Instances of FileServices for TLC. *)
EXTENDS FileServicesCatalog, TLC

CONSTANTS r1, r2, r3, alice, bob, a, b, stored

\* Requests, users and names are only ever compared.
Symmetric == Permutations(Request) \cup Permutations(User) \cup Permutations(Name)
=============================================================================
