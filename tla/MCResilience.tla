---------------------------- MODULE MCResilience ----------------------------
(* Instances of Resilience for TLC. *)
EXTENDS Resilience

CONSTANTS c1, c2
=============================================================================
