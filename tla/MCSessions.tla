---------------------------- MODULE MCSessions ----------------------------
(* Session id 1 was used before; id 2 can come from the sequence and, when *)
(* the sequence fails, from connection 2; id 3 lets one connection         *)
(* overflow the buffer.                                                    *)
EXTENDS Sessions

Bounds(n, m, f, ks, r, h) ==
    [conns |-> n, connects |-> m, faults |-> f, kinds |-> ks, removals |-> r,
     handshake |-> h]

\* Two connections with one session id; one connection that overflows the
\* buffer; one whose session several parties remove; two around a restart.
MCLimits == {Bounds(2, 2, 1, {"db", "panic"}, 0, FALSE),
             Bounds(1, 2, 3, {"db", "keydb"}, 0, FALSE),
             Bounds(1, 1, 1, {"db", "keydb", "restart"}, 1, TRUE),
             Bounds(2, 1, 1, {"restart"}, 0, TRUE)}
===========================================================================
