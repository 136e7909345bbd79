-------------------------------- MODULE Outbox --------------------------------
(***************************************************************************)
(* What the Kafka producer promises of the events it is given, without its *)
(* queues, batches, lists and tasks: an event is accepted once, is kept    *)
(* until it is published or dropped for lack of room, and never comes back *)
(* after that.  Only a send that failed can publish an event that is still *)
(* kept, and so more than once; only a fault of the store or of the        *)
(* process can lose one.                                                   *)
(***************************************************************************)
EXTENDS Naturals

CONSTANT Event

VARIABLES
    accepted,   \* events that were handed over
    kept,       \* events on their way
    published,  \* events that the topic has
    dropped,    \* events for which there was no room
    unsure,     \* sends that failed, with some events published or none
    faults      \* failures of the store, and crashes

vars == <<accepted, kept, published, dropped, unsure, faults>>

Init ==
    /\ accepted = {} /\ kept = {} /\ published = {} /\ dropped = {}
    /\ unsure = 0 /\ faults = 0

\* An event comes in, and pushes out at most one other.
Accept(e) ==
    /\ e \in Event \ accepted
    /\ accepted' = accepted \cup {e}
    /\ \E D \in SUBSET kept :
          /\ \A c, d \in D : c = d
          /\ kept' = (kept \ D) \cup {e}
          /\ dropped' = dropped \cup D
    /\ UNCHANGED <<published, unsure, faults>>

Publish ==
    /\ \E S \in SUBSET kept : kept' = kept \ S /\ published' = published \cup S
    /\ UNCHANGED <<accepted, dropped, unsure, faults>>

\* The answer is an error: some events may be published, and all of them are kept.
PublishUnsure ==
    /\ unsure' = unsure + 1
    /\ \E S \in SUBSET kept : published' = published \cup S
    /\ UNCHANGED <<accepted, kept, dropped, faults>>

Overflow ==
    /\ \E D \in SUBSET kept : kept' = kept \ D /\ dropped' = dropped \cup D
    /\ UNCHANGED <<accepted, published, unsure, faults>>

\* Events on their way, or about to be accepted, may be lost.
Fault ==
    /\ faults' = faults + 1
    /\ kept' \in SUBSET kept
    /\ accepted' \in SUBSET Event /\ accepted \subseteq accepted'
    /\ UNCHANGED <<published, dropped, unsure>>

Next ==
    \/ \E e \in Event : Accept(e)
    \/ Publish \/ PublishUnsure \/ Overflow \/ Fault

Spec == Init /\ [][Next]_vars
=============================================================================
