--------------------------- MODULE ResilientCall ---------------------------
(***************************************************************************)
(* What makeResilient promises of a call to a repository or to the blob    *)
(* storage: it tries, tries again at most MaxAttempts times in all, and    *)
(* then has either returned or thrown.  RequestFlow builds every step of a *)
(* request on this promise; Resilience shows that withRetry keeps it.      *)
(***************************************************************************)
EXTENDS Naturals

CONSTANTS Call, MaxAttempts

VARIABLES
  phase,   \* phase[c]: "idle", "trying", "returned" or "threw"
  tries    \* tries[c]: the attempt c is at

callVars == <<phase, tries>>

Init == /\ phase = [c \in Call |-> "idle"]
        /\ tries = [c \in Call |-> 0]

Begin(c) == /\ phase[c] = "idle"
            /\ phase' = [phase EXCEPT ![c] = "trying"]
            /\ tries' = [tries EXCEPT ![c] = 1]

Again(c) == /\ phase[c] = "trying"
            /\ tries[c] < MaxAttempts
            /\ tries' = [tries EXCEPT ![c] = @ + 1]
            /\ UNCHANGED phase

Settle(c) == /\ phase[c] = "trying"
             /\ \E end \in {"returned", "threw"} : phase' = [phase EXCEPT ![c] = end]
             /\ UNCHANGED tries

Next == \E c \in Call : Begin(c) \/ Again(c) \/ Settle(c)

Spec == Init /\ [][Next]_callVars
=============================================================================
