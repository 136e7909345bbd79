-------------------------- MODULE MCTicketIdRaces --------------------------
(* Calls of one process beside a call of another: instances for TLC. *)
EXTENDS TicketIdRaces

CONSTANTS r1, r2, r3, r4, a, b

TwoNodes == [r \in Request |-> IF r = r4 THEN b ELSE a]
=============================================================================
