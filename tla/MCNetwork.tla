----------------------------- MODULE MCNetwork -----------------------------
EXTENDS Network

Bounds(cs, fs, ks, f, t) ==
    [conns |-> cs, frames |-> fs, kinds |-> ks, faults |-> f, timeouts |-> t]

\* Three commands on one connection, and a TERMINATE among two; pings and damaged
\* frames; retries of a request that may not be saved; refused logins; two
\* connections; connections that fail.
MCLimits == {Bounds(1, 3, {"query"}, 0, 0),
             Bounds(1, 2, {"query", "terminate"}, 0, 0),
             Bounds(1, 3, {"ping"}, 0, 0),
             Bounds(1, 2, {"connect", "ping"}, 0, 1),
             Bounds(1, 3, {"length"}, 0, 0),
             Bounds(1, 2, {"connect", "length"}, 0, 0),
             Bounds(1, 2, {"connect", "undecryptable", "short"}, 0, 0),
             Bounds(1, 2, {"business", "unknown"}, 1, 0),
             Bounds(1, 2, {"refused", "misconnect", "connect"}, 1, 0),
             Bounds(2, 2, {"query"}, 0, 0),
             Bounds(3, 0, {}, 1, 1)}
============================================================================
