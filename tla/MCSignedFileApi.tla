--------------------------- MODULE MCSignedFileApi ---------------------------
(* Instances of SignedFileApi for TLC. *)
EXTENDS SignedFileApi, TLC

CONSTANTS r1, r2, r3, alice, bob, a, b, stored, link

Symmetric == Permutations(Request) \cup Permutations(User) \cup Permutations(Name)
=============================================================================
