------------------------------ MODULE TicketId ------------------------------
(***************************************************************************)
(* TicketIdService (src/services/ticket_id_service.rs): ticket numbers are *)
(* cut from blocks.  A block is one value of the database sequence (the    *)
(* prefix) with the suffixes 1..SuffixMax.  Four relaxed atomics per node  *)
(* hold the block in use and the prefetched one; no lock protects them, so *)
(* every atomic access and every await is a step of its own here.  Loads,  *)
(* stores and read-modify-writes take effect in program order, which is    *)
(* what the x86-64 build gives these accesses.                             *)
(*                                                                         *)
(* A request is one call of get_next_ticket_id_for_checkin.  Its retry     *)
(* loop and ensure_non_zero_ticket_id never act: every path through        *)
(* get_next_ticket_id_once returns a number other than 0 (NonZeroTicket).  *)
(***************************************************************************)
EXTENDS Integers

CONSTANTS
    Request,            \* calls of get_next_ticket_id_for_checkin
    Node,               \* processes that share the database sequence
    NodeOf,             \* the process a call runs in
    SuffixMax,          \* TICKET_ID_SUFFIX_MAX after clamp(1, 9)
    PrefetchThreshold,  \* TICKET_ID_PREFETCH_THRESHOLD after clamp(1, SuffixMax)
    MaxSeq              \* bound: the sequence answers at most this many NEXTVALs

ASSUME TicketIdAssumption ==
    /\ NodeOf \in [Request -> Node]
    /\ SuffixMax \in 1..9
    /\ PrefetchThreshold \in 1..SuffixMax
    /\ MaxSeq \in Nat

VARIABLES
    dbSeq,              \* last value TRANSPORT_TRANS_STAGE_SEQ.NEXTVAL returned
    localSeq,           \* number of local (UUID hash) ids drawn so far
    currentPrefix, counter, nextPrefix, prefetchRequested,  \* the atomics, by node
    pc,                 \* where each call stands
    prefix,             \* the prefix a call works with: loaded, or to be installed
    suffix,             \* the suffix a call drew
    fetched,            \* the sequence value a prefetching call holds
    ticket              \* the number a call returned, 0 before

atomics == <<currentPrefix, counter, nextPrefix, prefetchRequested>>
vars == <<dbSeq, localSeq, atomics, pc, prefix, suffix, fetched, ticket>>

-----------------------------------------------------------------------------
(* Ticket numbers *)

\* 10^(digits of suffix_max), and suffix_max has one digit.
SuffixMultiplier == 10

\* append_last_digit_1 on prefix * multiplier + suffix.
BlockTicket(p, s) == (p * SuffixMultiplier + s) * 10 + 1

\* generate_ticket_id_local sets the top bit of a UUID's hash: a negative i64,
\* taken to be fresh on every draw.  append_last_digit_1 keeps it below 0: most
\* products overflow, and then the number is left as it is.
LocalTicket(n) == -n

-----------------------------------------------------------------------------
(* Where a call can stand.  Changing: it found that a new block is needed   *)
(* and has not yet restarted the counter for it.                            *)
Changing ==
    {"fetchFirst", "poll", "fetchNext",
     "installFirst", "countFirst", "install", "clearNext", "count"}

PC == {"idle", "bump", "clearFlag", "prefetch", "nextval", "storeNext", "done"}
          \cup Changing

Init ==
    /\ dbSeq = 0
    /\ localSeq = 0
    /\ currentPrefix = [n \in Node |-> 0]
    /\ counter = [n \in Node |-> 0]
    /\ nextPrefix = [n \in Node |-> 0]
    /\ prefetchRequested = [n \in Node |-> FALSE]
    /\ pc = [r \in Request |-> "idle"]
    /\ prefix = [r \in Request |-> 0]
    /\ suffix = [r \in Request |-> 0]
    /\ fetched = [r \in Request |-> 0]
    /\ ticket = [r \in Request |-> 0]

Goto(r, label) == pc' = [pc EXCEPT ![r] = label]

-----------------------------------------------------------------------------
(* get_next_ticket_id_once *)

\* current_prefix.load; 0 means that no block was ever fetched.
LoadPrefix(r) ==
    LET p == currentPrefix[NodeOf[r]] IN
    /\ pc[r] = "idle"
    /\ prefix' = [prefix EXCEPT ![r] = p]
    /\ Goto(r, IF p = 0 THEN "fetchFirst" ELSE "bump")
    /\ UNCHANGED <<dbSeq, localSeq, atomics, suffix, fetched, ticket>>

\* Mutant of FetchSeq: the sequence is read without being advanced.
FetchCurrval(r) ==
    /\ pc[r] \in {"fetchFirst", "fetchNext"}
    /\ dbSeq < MaxSeq
    /\ prefix' = [prefix EXCEPT ![r] = dbSeq + 1]
    /\ Goto(r, IF pc[r] = "fetchFirst" THEN "installFirst" ELSE "install")
    /\ UNCHANGED <<dbSeq, localSeq, atomics, suffix, fetched, ticket>>

\* NEXTVAL answers: the call now holds a sequence value nobody else has.
FetchSeq(r) ==
    /\ pc[r] \in {"fetchFirst", "fetchNext"}
    /\ dbSeq < MaxSeq
    /\ dbSeq' = dbSeq + 1
    /\ prefix' = [prefix EXCEPT ![r] = dbSeq + 1]
    /\ Goto(r, IF pc[r] = "fetchFirst" THEN "installFirst" ELSE "install")
    /\ UNCHANGED <<localSeq, atomics, suffix, fetched, ticket>>

\* NEXTVAL fails: the call returns a local id and leaves the atomics alone.
FetchFails(r) ==
    /\ pc[r] \in {"fetchFirst", "fetchNext"}
    /\ localSeq' = localSeq + 1
    /\ ticket' = [ticket EXCEPT ![r] = LocalTicket(localSeq + 1)]
    /\ Goto(r, "done")
    /\ UNCHANGED <<dbSeq, atomics, prefix, suffix, fetched>>

\* First block, current_prefix.store(seq).
InstallFirst(r) ==
    /\ pc[r] = "installFirst"
    /\ currentPrefix' = [currentPrefix EXCEPT ![NodeOf[r]] = prefix[r]]
    /\ Goto(r, "countFirst")
    /\ UNCHANGED <<dbSeq, localSeq, counter, nextPrefix, prefetchRequested,
                   prefix, suffix, fetched, ticket>>

\* First block, counter.store(1): the call keeps suffix 1 for itself.
CountFirst(r) ==
    /\ pc[r] = "countFirst"
    /\ counter' = [counter EXCEPT ![NodeOf[r]] = 1]
    /\ suffix' = [suffix EXCEPT ![r] = 1]
    /\ Goto(r, "prefetch")
    /\ UNCHANGED <<dbSeq, localSeq, currentPrefix, nextPrefix, prefetchRequested,
                   prefix, fetched, ticket>>

\* Mutant of Bump: the test for the end of the block is off by one.
BumpPastEnd(r) ==
    LET s == counter[NodeOf[r]] + 1 IN
    /\ pc[r] = "bump"
    /\ counter' = [counter EXCEPT ![NodeOf[r]] = s]
    /\ suffix' = [suffix EXCEPT ![r] = s]
    /\ Goto(r, IF s > SuffixMax + 1 THEN "poll" ELSE "prefetch")
    /\ UNCHANGED <<dbSeq, localSeq, currentPrefix, nextPrefix, prefetchRequested,
                   prefix, fetched, ticket>>

\* counter.fetch_add(1).
Bump(r) ==
    LET s == counter[NodeOf[r]] + 1 IN
    /\ pc[r] = "bump"
    /\ counter' = [counter EXCEPT ![NodeOf[r]] = s]
    /\ suffix' = [suffix EXCEPT ![r] = s]
    /\ Goto(r, IF s > SuffixMax THEN "poll" ELSE "prefetch")
    /\ UNCHANGED <<dbSeq, localSeq, currentPrefix, nextPrefix, prefetchRequested,
                   prefix, fetched, ticket>>

\* wait_or_fetch_next_prefix finds a prefetched block ...
PollHit(r) ==
    LET next == nextPrefix[NodeOf[r]] IN
    /\ pc[r] = "poll"
    /\ next # 0
    /\ prefix' = [prefix EXCEPT ![r] = next]
    /\ Goto(r, "install")
    /\ UNCHANGED <<dbSeq, localSeq, atomics, suffix, fetched, ticket>>

\* Mutant of PollTimeout: without a limit on the polls, a call waits on.
PollForever(r) ==
    /\ pc[r] = "poll"
    /\ nextPrefix[NodeOf[r]] = 0
    /\ UNCHANGED vars

\* ... or polls fifty times in vain and asks the database itself.
PollTimeout(r) ==
    /\ pc[r] = "poll"
    /\ nextPrefix[NodeOf[r]] = 0
    /\ Goto(r, "fetchNext")
    /\ UNCHANGED <<dbSeq, localSeq, atomics, prefix, suffix, fetched, ticket>>

\* New block: current_prefix.store(next) ...
Install(r) ==
    /\ pc[r] = "install"
    /\ currentPrefix' = [currentPrefix EXCEPT ![NodeOf[r]] = prefix[r]]
    /\ Goto(r, "clearNext")
    /\ UNCHANGED <<dbSeq, localSeq, counter, nextPrefix, prefetchRequested,
                   prefix, suffix, fetched, ticket>>

\* ... next_prefix.store(0) ...
ClearNext(r) ==
    /\ pc[r] = "clearNext"
    /\ nextPrefix' = [nextPrefix EXCEPT ![NodeOf[r]] = 0]
    /\ Goto(r, "count")
    /\ UNCHANGED <<dbSeq, localSeq, currentPrefix, counter, prefetchRequested,
                   prefix, suffix, fetched, ticket>>

\* ... counter.store(1), suffix 1 being the call's own ...
Count(r) ==
    /\ pc[r] = "count"
    /\ counter' = [counter EXCEPT ![NodeOf[r]] = 1]
    /\ suffix' = [suffix EXCEPT ![r] = 1]
    /\ Goto(r, "clearFlag")
    /\ UNCHANGED <<dbSeq, localSeq, currentPrefix, nextPrefix, prefetchRequested,
                   prefix, fetched, ticket>>

\* ... prefetch_requested.store(false).
ClearFlag(r) ==
    /\ pc[r] = "clearFlag"
    /\ prefetchRequested' = [prefetchRequested EXCEPT ![NodeOf[r]] = FALSE]
    /\ Goto(r, "prefetch")
    /\ UNCHANGED <<dbSeq, localSeq, currentPrefix, counter, nextPrefix,
                   prefix, suffix, fetched, ticket>>

-----------------------------------------------------------------------------
(* maybe_trigger_prefetch, which the call awaits before it returns *)

\* Below the threshold, or the compare_exchange loses: return the number.
SkipPrefetch(r) ==
    /\ pc[r] = "prefetch"
    /\ suffix[r] < PrefetchThreshold \/ prefetchRequested[NodeOf[r]]
    /\ ticket' = [ticket EXCEPT ![r] = BlockTicket(prefix[r], suffix[r])]
    /\ Goto(r, "done")
    /\ UNCHANGED <<dbSeq, localSeq, atomics, prefix, suffix, fetched>>

\* The compare_exchange wins.
ClaimPrefetch(r) ==
    /\ pc[r] = "prefetch"
    /\ suffix[r] >= PrefetchThreshold
    /\ ~prefetchRequested[NodeOf[r]]
    /\ prefetchRequested' = [prefetchRequested EXCEPT ![NodeOf[r]] = TRUE]
    /\ Goto(r, "nextval")
    /\ UNCHANGED <<dbSeq, localSeq, currentPrefix, counter, nextPrefix,
                   prefix, suffix, fetched, ticket>>

PrefetchSeq(r) ==
    /\ pc[r] = "nextval"
    /\ dbSeq < MaxSeq
    /\ dbSeq' = dbSeq + 1
    /\ fetched' = [fetched EXCEPT ![r] = dbSeq + 1]
    /\ Goto(r, "storeNext")
    /\ UNCHANGED <<localSeq, atomics, prefix, suffix, ticket>>

\* A failed prefetch leaves prefetch_requested set: this block asks no more.
PrefetchFails(r) ==
    /\ pc[r] = "nextval"
    /\ ticket' = [ticket EXCEPT ![r] = BlockTicket(prefix[r], suffix[r])]
    /\ Goto(r, "done")
    /\ UNCHANGED <<dbSeq, localSeq, atomics, prefix, suffix, fetched>>

\* next_prefix.store(s), however late, and return the number.
StoreNext(r) ==
    /\ pc[r] = "storeNext"
    /\ nextPrefix' = [nextPrefix EXCEPT ![NodeOf[r]] = fetched[r]]
    /\ ticket' = [ticket EXCEPT ![r] = BlockTicket(prefix[r], suffix[r])]
    /\ Goto(r, "done")
    /\ UNCHANGED <<dbSeq, localSeq, currentPrefix, counter, prefetchRequested,
                   prefix, suffix, fetched>>

-----------------------------------------------------------------------------
Step(r) ==
    \/ LoadPrefix(r)    \/ FetchSeq(r)      \/ FetchFails(r)
    \/ InstallFirst(r)  \/ CountFirst(r)    \/ Bump(r)
    \/ PollHit(r)       \/ PollTimeout(r)   \/ Install(r)
    \/ ClearNext(r)     \/ Count(r)         \/ ClearFlag(r)
    \/ SkipPrefetch(r)  \/ ClaimPrefetch(r) \/ PrefetchSeq(r)
    \/ PrefetchFails(r) \/ StoreNext(r)

Next == \E r \in Request : Step(r)

Spec == Init /\ [][Next]_vars

-----------------------------------------------------------------------------
\* The atomics and the calls' locals keep their types, and every prefix around is
\* one the sequence can have answered: the counter never leaves the naturals.
TypeOK ==
    /\ dbSeq \in 0..MaxSeq
    /\ localSeq \in Nat
    /\ currentPrefix \in [Node -> 0..MaxSeq]
    /\ counter \in [Node -> Nat]
    /\ nextPrefix \in [Node -> 0..MaxSeq]
    /\ prefetchRequested \in [Node -> BOOLEAN]
    /\ pc \in [Request -> PC]
    /\ prefix \in [Request -> 0..MaxSeq]
    /\ suffix \in [Request -> Nat]
    /\ fetched \in [Request -> 0..MaxSeq]
    /\ ticket \in [Request -> Int]

Done(r) == pc[r] = "done"

\* A finished call never returns 0, which the callers read as "no ticket"
\* (transport_trans_id = 0), and a number from a block shows in its last
\* digits a suffix of that block and the digit 1 that marks block numbers.
NonZeroTicket ==
    \A r \in Request : Done(r) =>
        \/ ticket[r] < 0
        \/ /\ ticket[r] > 0
           /\ ticket[r] % 10 = 1
           /\ (ticket[r] \div 10) % SuffixMultiplier \in 1..SuffixMax

\* No two calls get the same ticket number.
UniqueTickets ==
    \A r1, r2 \in Request :
        Done(r1) /\ Done(r2) /\ ticket[r1] = ticket[r2] => r1 = r2
=============================================================================
