--------------------------- MODULE TicketIdRaces ---------------------------
(***************************************************************************)
(* The atomics of TicketIdService are read and written one by one, and     *)
(* UniqueTickets does not survive that.  This module says exactly when it  *)
(* does: a history variable collects the nodes on which two calls met at a *)
(* change of block, and only there can a number be given twice.            *)
(***************************************************************************)
EXTENDS TicketId

VARIABLE raced      \* nodes on which calls met at a change of block

\* A call loaded a prefix that is in use no more, and has yet to draw a suffix.
HoldsStalePrefix(r) == pc[r] = "bump" /\ prefix[r] # currentPrefix[NodeOf[r]]

\* Two calls both bring in a new block, or a call is about to draw a suffix
\* under a prefix whose counter is not, or no more, its own.
Meeting(n) ==
    \E r1, r2 \in Request :
        /\ NodeOf[r1] = n
        /\ NodeOf[r2] = n
        /\ \/ r1 # r2 /\ pc[r1] \in Changing /\ pc[r2] \in Changing
           \/ HoldsStalePrefix(r1)
           \/ pc[r1] = "bump" /\ pc[r2] = "countFirst"

InitR == Init /\ raced = {}

NextR == Next /\ raced' = raced \cup {n \in Node : Meeting(n)'}

varsR == <<vars, raced>>

SpecR == InitR /\ [][NextR]_varsR

\* The runtime polls every started call until it completes; whether a call is
\* ever made is up to the clients.
FairSpecR ==
    SpecR /\ \A r \in Request : WF_varsR(pc[r] # "idle" /\ NextR /\ Step(r))

\* A number is given twice only by one process, and only after two of its calls
\* met at a change of block (ticket_id_service.rs:118-170): calls that do not
\* overlap, calls that share a block, prefetches that finish late and calls on
\* different processes never cause a duplicate.
UniqueUnlessRaced ==
    \A r1, r2 \in Request :
        Done(r1) /\ Done(r2) /\ ticket[r1] = ticket[r2] =>
            r1 = r2 \/ (NodeOf[r1] = NodeOf[r2] /\ NodeOf[r1] \in raced)

\* Every call that started ends with a number, although it may have to wait for a
\* prefetch that never comes (ticket_id_service.rs:196-213).
EveryCallReturns == <>[](\A r \in Request : pc[r] = "idle" \/ Done(r))

-----------------------------------------------------------------------------
(* The inductive invariant behind UniqueUnlessRaced, in named parts. *)

\* The call owns the number (prefix, suffix): drawn, about to be returned or returned.
Holding(r) ==
    \/ pc[r] \in {"clearFlag", "prefetch", "nextval", "storeNext"}
    \/ Done(r) /\ ticket[r] > 0

\* The call holds a block that it has yet to put in use.
Installing == {"installFirst", "countFirst", "install", "clearNext", "count"}

\* Every sequence value around was returned by NEXTVAL.
FromSequence ==
    /\ \A n \in Node : currentPrefix[n] <= dbSeq /\ nextPrefix[n] <= dbSeq
    /\ \A r \in Request : prefix[r] <= dbSeq /\ fetched[r] <= dbSeq

\* What a call knows at each point, and what a finished call returned.
CallsSound ==
    \A r \in Request :
        /\ pc[r] \in Installing \cup {"bump"} => prefix[r] # 0
        /\ Holding(r) => prefix[r] # 0 /\ suffix[r] \in 1..SuffixMax
        /\ Done(r) => \/ ticket[r] = BlockTicket(prefix[r], suffix[r])
                      \/ ticket[r] < 0
        /\ Done(r) => ticket[r] # 0
        /\ ticket[r] >= -localSeq

LocalsDistinct ==
    \A r1, r2 \in Request :
        Done(r1) /\ Done(r2) /\ ticket[r1] < 0 /\ ticket[r1] = ticket[r2] => r1 = r2

\* A value a prefetch holds is nowhere else until it is stored.
PrefetchFresh ==
    \A q \in Request : pc[q] = "storeNext" =>
        /\ fetched[q] # 0
        /\ \A n \in Node : fetched[q] # currentPrefix[n] /\ fetched[q] # nextPrefix[n]
        /\ \A r \in Request : fetched[q] # prefix[r]
        /\ \A r \in Request : pc[r] = "storeNext" /\ fetched[r] = fetched[q] => r = q

\* A sequence value is known to one process only.
KnownTo(p, n) ==
    \/ currentPrefix[n] = p
    \/ nextPrefix[n] = p
    \/ \E r \in Request :
          NodeOf[r] = n /\ (prefix[r] = p \/ (pc[r] = "storeNext" /\ fetched[r] = p))

Owned ==
    \A p \in 1..MaxSeq, n1, n2 \in Node : KnownTo(p, n1) /\ KnownTo(p, n2) => n1 = n2

\* While no calls met at a change of block on n: the block in use has given out
\* the suffixes up to the counter, and the block that comes next none.
ChangeSound(n) ==
    \A q \in Request : NodeOf[q] = n =>
        /\ pc[q] \in {"fetchFirst", "installFirst"} => currentPrefix[n] = 0
        /\ pc[q] \in {"poll", "fetchNext", "install", "clearNext", "count"} =>
              counter[n] > SuffixMax
        /\ pc[q] \in {"countFirst", "clearNext", "count"} => prefix[q] = currentPrefix[n]
        /\ pc[q] \in {"installFirst", "countFirst", "count"} => prefix[q] # nextPrefix[n]
        /\ pc[q] \in Installing =>
              \A r \in Request : NodeOf[r] = n /\ Holding(r) => prefix[r] # prefix[q]

NextFresh(n) ==
    nextPrefix[n] # 0 =>
        /\ \A r \in Request : NodeOf[r] = n /\ Holding(r) => prefix[r] # nextPrefix[n]
        /\ nextPrefix[n] = currentPrefix[n] =>
              \E q \in Request : NodeOf[q] = n /\ pc[q] = "clearNext"

DrawnBelowCounter(n) ==
    \A r \in Request :
        NodeOf[r] = n /\ Holding(r) /\ prefix[r] = currentPrefix[n] => suffix[r] <= counter[n]

DrawnOnce(n) ==
    \A r1, r2 \in Request :
        /\ NodeOf[r1] = n /\ NodeOf[r2] = n
        /\ Holding(r1) /\ Holding(r2)
        /\ prefix[r1] = prefix[r2] /\ suffix[r1] = suffix[r2]
        => r1 = r2

Calm(n) ==
    /\ ~Meeting(n)
    /\ ChangeSound(n)
    /\ NextFresh(n)
    /\ DrawnBelowCounter(n)
    /\ DrawnOnce(n)

IInv ==
    /\ TypeOK
    /\ raced \in SUBSET Node
    /\ FromSequence
    /\ CallsSound
    /\ LocalsDistinct
    /\ PrefetchFresh
    /\ Owned
    /\ \A n \in Node \ raced : Calm(n)
=============================================================================
