---------------------------- MODULE MCEtdrRetry ----------------------------
(* Small instances of EtdrRetry for TLC. *)
EXTENDS EtdrRetry

CONSTANTS a, b

Bounds(ns, cs, f) == [nodes |-> ns, checkin |-> {a}, commit |-> cs, faults |-> f]

\* Two nodes with faults enough to give an ETDR up, and for that to fail; two nodes
\* with a commit on either; one node with commit, and faults one upon the other.
\* Nodes are alike, so that the one check-in may as well be on a.
MCLimits == {Bounds({a, b}, {}, 4), Bounds({a, b}, {a, b}, 1), Bounds({a}, {a}, 3)}

OneFault == {Bounds({a}, {a}, 1)}
=============================================================================
