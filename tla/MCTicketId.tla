----------------------------- MODULE MCTicketId -----------------------------
(* Four calls in one process: small instances of TicketId for TLC. *)
EXTENDS TicketId, TLC

CONSTANTS r1, r2, r3, r4, a

OneNode == [r \in Request |-> a]

\* Calls of one process are interchangeable.
Calls == Permutations(Request)
=============================================================================
