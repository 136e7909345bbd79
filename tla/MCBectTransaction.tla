-------------------------- MODULE MCBectTransaction --------------------------
(* Small instances of BectTransaction for TLC. *)
EXTENDS BectTransaction, TLC

CONSTANTS in1, in2, ci1, re1, re2, ex1, a, b

\* The vehicle enters at node b; its exit is first handled by node a.
TwoNodes == [c \in Call |-> IF c \in {re1, ex1} THEN a ELSE b]

\* The check-ins are on one node and alike.
Alike == Permutations(Checkin)
=============================================================================
