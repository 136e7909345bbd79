--------------------------- MODULE EtdrRetryProofs ---------------------------
(***************************************************************************)
(* For every set of nodes and tickets: the keys of SET NX keep the retry   *)
(* tasks apart until one of them expires.                                  *)
(***************************************************************************)
EXTENDS EtdrRetry, WellFoundedInduction, TLAPS

-----------------------------------------------------------------------------
(* Types, and the limit of ETDR_MAX_DB_SAVE_RETRIES                          *)

\* Counts below the limit have a largest one.
LEMMA LargestCount ==
    ASSUME NEW S \in SUBSET (0..(MaxRetries - 1)), S # {}
    PROVE  Max(S) \in S
<1> DEFINE T == {MaxRetries - x : x \in S}
<1>1. MaxRetries \in Nat
    BY RetryAssumption
<1>2. T \subseteq Nat /\ T # {}
    <2>1. \A x \in S : MaxRetries - x \in Nat
        BY <1>1
    <2> QED BY <2>1
<1>3. IsWellFoundedOn(OpToRel(<, Nat), Nat)
    BY NatLessThanWellFounded, Zenon
<1>4. PICK m \in T : \A y \in T : ~(<<y, m>> \in OpToRel(<, Nat))
    <2> HIDE DEF T
    <2> QED BY <1>2, <1>3, WFMin
<1>5. \A y \in T : ~(y < m)
    BY <1>2, <1>4 DEF OpToRel
<1>6. PICK x \in S : m = MaxRetries - x
    BY <1>4
<1>7. \A y \in S : x >= y
    <2> SUFFICES ASSUME NEW y \in S PROVE x >= y
        OBVIOUS
    <2>1. ~(MaxRetries - y < MaxRetries - x)
        BY <1>5, <1>6
    <2> QED BY <1>1, <2>1
<1> QED BY <1>7 DEF Max

\* merge_etdr_same_ticket_id and dedupe_by_ticket_id keep the counts below the limit.
LEMMA MergeType ==
    ASSUME NEW t \in Ticket, NEW es \in SUBSET Etdr, es # {}
    PROVE  MergeSameTicket(t, es) \in Etdr
<1> DEFINE S == {e.tries : e \in es}
<1>1. S \in SUBSET (0..(MaxRetries - 1)) /\ S # {}
    BY DEF Etdr
<1> HIDE DEF S
<1>2. Max(S) \in 0..(MaxRetries - 1)
    BY <1>1, LargestCount
<1>3. (\E e \in es : e.committed) \in BOOLEAN
    OBVIOUS
<1>4. MergeSameTicket(t, es) = [ticket |-> t, committed |-> \E e \in es : e.committed,
                                saved |-> FALSE, tries |-> Max(S)]
    BY DEF MergeSameTicket, S
<1> QED BY <1>2, <1>3, <1>4 DEF Etdr

LEMMA DedupeType ==
    ASSUME NEW es \in SUBSET Etdr
    PROVE  Dedupe(es) \subseteq Etdr
<1> SUFFICES ASSUME NEW d \in es PROVE MergeSameTicket(d.ticket, {e \in es : e.ticket = d.ticket}) \in Etdr
    BY DEF Dedupe
<1>1. d.ticket \in Ticket
    BY DEF Etdr
<1>2. {e \in es : e.ticket = d.ticket} \in SUBSET Etdr /\ {e \in es : e.ticket = d.ticket} # {}
    OBVIOUS
<1> QED BY <1>1, <1>2, MergeType

LEMMA StoreTypes ==
    ASSUME NEW store \in SUBSET Etdr, NEW e \in Etdr, NEW t
    PROVE  Put(store, e) \subseteq Etdr /\ Drop(store, t) \subseteq Etdr /\ Unsaved(store) \subseteq Etdr
BY DEF Put, Drop, Unsaved

LEMMA SaveTypes ==
    ASSUME TypeOK, NEW n \in Node, NEW e \in Etdr, SaveEtdr(n, e)
    PROVE  mem' \in [Node -> SUBSET Etdr] /\ writes' \subseteq Write
<1>1. Put(mem[n], e) \subseteq Etdr /\ mem \in [Node -> SUBSET Etdr]
    BY StoreTypes DEF TypeOK
<1>2. mem' = [mem EXCEPT ![n] = Put(mem[n], e)]
    BY DEF SaveEtdr
<1>3. [node |-> n, at |-> IF e.saved THEN "tag" ELSE "look", etdr |-> e, merged |-> e] \in Write
    BY DEF Write
<1> QED BY <1>1, <1>2, <1>3 DEF SaveEtdr, TypeOK

LEMMA FaultTypes ==
    ASSUME TypeOK
    PROVE  /\ Fails \/ Works => limit' \in Limits /\ faults' \in 0..limit'.faults
           /\ limit.nodes \subseteq Node
           /\ limit.checkin \subseteq Node /\ limit.commit \subseteq Node
<1>1. limit \in [nodes: SUBSET Node, checkin: SUBSET Node, commit: SUBSET Node, faults: Nat]
    BY RetryAssumption DEF TypeOK
<1>2. ASSUME Fails PROVE limit' \in Limits /\ faults' \in 0..limit'.faults
    BY <1>1, <1>2 DEF TypeOK, Fails
<1>3. ASSUME Works PROVE limit' \in Limits /\ faults' \in 0..limit'.faults
    BY <1>1, <1>3 DEF TypeOK, Works, bounds
<1> QED BY <1>1, <1>2, <1>3

\* Of an ETDR: marked as committed, as saved, or counted once more.
LEMMA EtdrChanges ==
    ASSUME NEW e \in Etdr
    PROVE  /\ [e EXCEPT !.committed = TRUE, !.saved = TRUE] \in Etdr
           /\ [e EXCEPT !.committed = TRUE] \in Etdr
           /\ Done(e) \in Etdr
           /\ TriesLeft(e) => [e EXCEPT !.tries = @ + 1] \in Etdr
<1>1. e.tries \in Nat /\ MaxRetries \in Nat
    BY RetryAssumption DEF Etdr
<1>2. TriesLeft(e) => e.tries + 1 \in 0..(MaxRetries - 1)
    BY <1>1 DEF TriesLeft
<1>3. TriesLeft(e) => [e EXCEPT !.tries = @ + 1] \in Etdr
    BY <1>2 DEF Etdr
<1> QED BY <1>3 DEF Etdr, Done

LEMMA NewEtdrs ==
    ASSUME NEW t \in Ticket, NEW b \in BOOLEAN
    PROVE  /\ [ticket |-> t, committed |-> FALSE, saved |-> b, tries |-> 0] \in Etdr
           /\ [ticket |-> t, committed |-> FALSE, saved |-> b, tries |-> 1] \in Etdr
BY RetryAssumption DEF Etdr

LEMMA CheckinTypes ==
    ASSUME TypeOK, NEW n \in Node, NEW t \in Ticket, CheckinSaved(n, t) \/ CheckinUnsaved(n, t)
    PROVE  TypeOK'
<1>1. CASE CheckinSaved(n, t)
    <2> DEFINE e == [ticket |-> t, committed |-> FALSE, saved |-> TRUE, tries |-> 0]
    <2>1. SaveEtdr(n, e) /\ e \in Etdr
        BY <1>1, NewEtdrs DEF CheckinSaved
    <2> HIDE DEF e
    <2>2. mem' \in [Node -> SUBSET Etdr] /\ writes' \subseteq Write
        BY <2>1, SaveTypes
    <2>3. row' \in [Ticket -> Row] /\ started' \subseteq Ticket
        BY <1>1 DEF CheckinSaved, TypeOK, Row
    <2> QED BY <1>1, <2>2, <2>3 DEF CheckinSaved, TypeOK, keydb, task, bounds
<1>2. CASE CheckinUnsaved(n, t)
    <2> DEFINE e == [ticket |-> t, committed |-> FALSE, saved |-> FALSE, tries |-> 1]
    <2>1. SaveEtdr(n, e) /\ e \in Etdr
        BY <1>2, NewEtdrs DEF CheckinUnsaved
    <2> HIDE DEF e
    <2>2. mem' \in [Node -> SUBSET Etdr] /\ writes' \subseteq Write
        BY <2>1, SaveTypes
    <2>3. row' \in [Ticket -> Row] /\ started' \subseteq Ticket
        BY <1>2 DEF CheckinUnsaved, TypeOK, Row
    <2>4. limit' \in Limits /\ faults' \in 0..limit'.faults
        BY <1>2, FaultTypes DEF CheckinUnsaved
    <2> QED BY <1>2, <2>2, <2>3, <2>4 DEF CheckinUnsaved, TypeOK, keydb, task
<1> QED BY <1>1, <1>2

LEMMA CommitFindTypes ==
    ASSUME TypeOK, NEW n \in Node, NEW t \in Ticket, CommitFind(n, t)
    PROVE  TypeOK'
<1> DEFINE found == [ticket |-> t, committed |-> FALSE, saved |-> TRUE, tries |-> 0]
<1>1. /\ SaveEtdr(n, found) /\ found \in Etdr
      /\ \E e \in {found} \cup {c \in mem[n] : c.ticket = t} :
            committing' = committing \cup {[node |-> n, etdr |-> e]}
    BY NewEtdrs DEF CommitFind
<1> HIDE DEF found
<1>2. mem' \in [Node -> SUBSET Etdr] /\ writes' \subseteq Write
    BY <1>1, SaveTypes
<1>3. committing' \subseteq [node: Node, etdr: Etdr]
    <2>1. PICK e \in {found} \cup {c \in mem[n] : c.ticket = t} :
              committing' = committing \cup {[node |-> n, etdr |-> e]}
        BY <1>1
    <2>2. e \in Etdr
        BY <1>1 DEF TypeOK
    <2> QED BY <2>1, <2>2 DEF TypeOK
<1> QED BY <1>2, <1>3 DEF CommitFind, TypeOK, keydb, task, bounds

LEMMA CommitWriteTypes ==
    ASSUME TypeOK, NEW c \in committing, CommitWrite(c)
    PROVE  TypeOK'
<1> DEFINE r == [row EXCEPT ![c.etdr.ticket] = "committed"]
<1>1. c.node \in Node /\ c.etdr \in Etdr /\ r \in [Ticket -> Row]
    BY DEF TypeOK, Row
<1>2. \E e \in Etdr : SaveEtdr(c.node, e)
    BY <1>1, EtdrChanges DEF CommitWrite
<1>3. mem' \in [Node -> SUBSET Etdr] /\ writes' \subseteq Write
    BY <1>1, <1>2, SaveTypes
<1>4. row' \in [Ticket -> Row]
    BY <1>1 DEF CommitWrite, TypeOK
<1>5. limit' \in Limits /\ faults' \in 0..limit'.faults
    BY FaultTypes DEF CommitWrite
<1> QED BY <1>3, <1>4, <1>5 DEF CommitWrite, TypeOK, keydb, task

LEMMA WriteTypes ==
    ASSUME TypeOK, NEW w \in writes, WriteLook(w) \/ WriteRetry(w) \/ WriteTag(w)
    PROVE  TypeOK'
<1>1. /\ w \in Write /\ w.etdr \in Etdr /\ w.merged \in Etdr /\ w.etdr.ticket \in Ticket
      /\ writes \subseteq Write /\ retries \subseteq Etdr
    BY DEF TypeOK, Write, Etdr
<1>2. CASE WriteLook(w)
    <2> DEFINE there == {e \in retries : e.ticket = w.etdr.ticket}
    <2>0. PICK found \in {there, {}} :
              /\ found # there => Fails
              /\ found = there => Works
              /\ writes' = (writes \ {w}) \cup
                    {[w EXCEPT !.at = "retry",
                               !.merged = MergeSameTicket(w.etdr.ticket, found \cup {w.etdr})]}
        BY <1>2 DEF WriteLook
    <2>6. limit' \in Limits /\ faults' \in 0..limit'.faults
        BY <2>0, FaultTypes
    <2> DEFINE es == found \cup {w.etdr}
    <2>1. es \in SUBSET Etdr /\ es # {}
        BY <1>1, <2>0
    <2>2. writes' = (writes \ {w}) \cup
              {[w EXCEPT !.at = "retry", !.merged = MergeSameTicket(w.etdr.ticket, es)]}
        BY <2>0
    <2> HIDE DEF es
    <2>3. MergeSameTicket(w.etdr.ticket, es) \in Etdr
        BY <1>1, <2>1, MergeType
    <2>4. [w EXCEPT !.at = "retry", !.merged = MergeSameTicket(w.etdr.ticket, es)] \in Write
        BY <1>1, <2>3 DEF Write
    <2>5. writes' \subseteq Write
        BY <1>1, <2>2, <2>4
    <2> QED BY <1>2, <2>5, <2>6 DEF WriteLook, TypeOK, keydb, handlers, task
<1>3. CASE WriteRetry(w)
    <2>1. [w EXCEPT !.at = "tag", !.merged = w.etdr] \in Write
        BY <1>1 DEF Write
    <2>2. writes' \subseteq Write
        BY <1>1, <1>3, <2>1 DEF WriteRetry
    <2>3. retries' \subseteq Etdr
        BY <1>1, <1>3, StoreTypes DEF WriteRetry
    <2>4. limit' \in Limits /\ faults' \in 0..limit'.faults
        BY <1>3, FaultTypes DEF WriteRetry
    <2> QED BY <1>3, <2>2, <2>3, <2>4 DEF WriteRetry, TypeOK, handlers, task
<1>4. CASE WriteTag(w)
    <2>1. writes' \subseteq Write /\ latest' \subseteq Etdr
        BY <1>1, <1>4 DEF WriteTag, TypeOK
    <2>2. limit' \in Limits /\ faults' \in 0..limit'.faults
        BY <1>4, FaultTypes DEF WriteTag
    <2> QED BY <1>4, <2>1, <2>2 DEF WriteTag, TypeOK, handlers, task
<1> QED BY <1>2, <1>3, <1>4

LEMMA CollectTypes ==
    ASSUME TypeOK, NEW n \in Node, Collect(n)
    PROVE  TypeOK'
<1>1. PICK keys \in {retries \cup latest, retries, {}} :
          /\ keys # retries \cup latest => Fails
          /\ keys = retries \cup latest => Works
          /\ list' = [list EXCEPT ![n] = Dedupe(Unsaved(keys \cup mem[n]))]
    BY DEF Collect
<1>2. Unsaved(keys \cup mem[n]) \in SUBSET Etdr
    BY DEF TypeOK, Unsaved
<1>3. Dedupe(Unsaved(keys \cup mem[n])) \subseteq Etdr
    BY <1>2, DedupeType
<1>4. list' \in [Node -> SUBSET Etdr]
    BY <1>1, <1>3 DEF TypeOK
<1>5. limit' \in Limits /\ faults' \in 0..limit'.faults
    BY <1>1, FaultTypes
<1>6. at' \in [Node -> TaskStage]
    BY DEF Collect, TypeOK, TaskStage
<1> QED BY <1>4, <1>5, <1>6 DEF Collect, TypeOK, keydb, handlers

LEMMA PickTypes ==
    ASSUME TypeOK, NEW n \in Node, NEW e \in list[n], PickLocks(n, e) \/ PickSkips(n, e)
    PROVE  TypeOK'
<1>1. e \in Etdr /\ e.ticket \in Ticket
    BY DEF TypeOK, Etdr
<1>2. CASE PickLocks(n, e)
    <2>1. lock' \subseteq Ticket
        BY <1>1, <1>2 DEF PickLocks, TypeOK
    <2>2. work' \in [Node -> SUBSET Etdr] /\ list' \in [Node -> SUBSET Etdr]
        BY <1>1, <1>2 DEF PickLocks, TypeOK
    <2>3. at' \in [Node -> TaskStage]
        BY <1>2 DEF PickLocks, TypeOK, TaskStage
    <2> QED BY <1>2, <2>1, <2>2, <2>3 DEF PickLocks, TypeOK, handlers, bounds
<1>3. CASE PickSkips(n, e)
    <2>1. lock' \subseteq Ticket
        BY <1>1, <1>3 DEF PickSkips, TypeOK
    <2>2. list' \in [Node -> SUBSET Etdr]
        BY <1>3 DEF PickSkips, TypeOK
    <2>3. at' \in [Node -> TaskStage]
        BY <1>3 DEF PickSkips, TypeOK, TaskStage
    <2>4. limit' \in Limits /\ faults' \in 0..limit'.faults
        BY <1>3, FaultTypes DEF PickSkips
    <2> QED BY <1>3, <2>1, <2>2, <2>3, <2>4 DEF PickSkips, TypeOK, handlers
<1> QED BY <1>2, <1>3

LEMMA RowTypes ==
    ASSUME TypeOK, NEW n \in Node,
           ReadRow(n) \/ SkipInsert(n) \/ UpdateRow(n) \/ UpdateFails(n)
    PROVE  TypeOK'
<1>1. \A e \in work[n] : e.ticket \in Ticket
    BY DEF TypeOK, Etdr
<1>2. at' \in [Node -> TaskStage]
    BY DEF ReadRow, SkipInsert, UpdateRow, UpdateFails, TypeOK, TaskStage
<1>3. seen' \in [Node -> Row]
    BY <1>1 DEF ReadRow, SkipInsert, UpdateRow, UpdateFails, TypeOK, Row
<1>4. row' \in [Ticket -> Row]
    <2>1. \A e \in work[n] : [row EXCEPT ![e.ticket] = seen[n]] \in [Ticket -> Row]
        BY <1>1 DEF TypeOK
    <2>2. row' = row \/ \E e \in work[n] : row' = [row EXCEPT ![e.ticket] = seen[n]]
        BY DEF ReadRow, SkipInsert, UpdateRow, UpdateFails
    <2>3. row \in [Ticket -> Row]
        BY DEF TypeOK
    <2> QED BY <2>1, <2>2, <2>3
<1>5. limit' \in Limits /\ faults' \in 0..limit'.faults
    BY FaultTypes DEF ReadRow, SkipInsert, UpdateRow, UpdateFails, Works
<1>6. /\ UNCHANGED <<mem, keydb, writes, handlers, list, work, expired>>
    BY DEF ReadRow, SkipInsert, UpdateRow, UpdateFails
<1> QED BY <1>2, <1>3, <1>4, <1>5, <1>6 DEF TypeOK, keydb, handlers

LEMMA OutcomeTypes ==
    ASSUME TypeOK, NEW n \in Node,
           \/ DropRetry(n) \/ MarkKey(n) \/ MarkSaved(n)
           \/ CountFailure(n) \/ GiveUp(n) \/ Forget(n)
    PROVE  TypeOK'
<1>1. \A e \in work[n] : /\ e \in Etdr /\ Done(e) \in Etdr
                         /\ TriesLeft(e) => [e EXCEPT !.tries = @ + 1] \in Etdr
    BY EtdrChanges DEF TypeOK
<1>2. at' \in [Node -> TaskStage]
    BY DEF DropRetry, MarkKey, MarkSaved, CountFailure, GiveUp, Forget, TypeOK, TaskStage
<1>3. retries' \subseteq Etdr
    <2>1. CASE DropRetry(n) \/ GiveUp(n)
        BY <2>1 DEF DropRetry, GiveUp, TypeOK, Drop
    <2>2. CASE CountFailure(n)
        BY <1>1, <2>2 DEF CountFailure, TypeOK, Put, Drop
    <2>3. CASE MarkKey(n) \/ MarkSaved(n) \/ Forget(n)
        BY <2>3 DEF MarkKey, MarkSaved, Forget, TypeOK, keydb
    <2> QED BY <2>1, <2>2, <2>3
<1>4. latest' \subseteq Etdr
    <2>1. latest' = latest \/ \E e \in work[n] : latest' = {Done(e)}
        BY DEF DropRetry, MarkKey, MarkSaved, CountFailure, GiveUp, Forget, keydb
    <2>2. latest \subseteq Etdr
        BY DEF TypeOK
    <2> QED BY <1>1, <2>1, <2>2
<1>5. mem' \in [Node -> SUBSET Etdr]
    <2>1. CASE MarkSaved(n)
        <3>1. PICK e \in work[n] : mem' = [mem EXCEPT ![n] = Put(mem[n], Done(e))]
            BY <2>1 DEF MarkSaved
        <3>2. Put(mem[n], Done(e)) \subseteq Etdr
            BY <1>1, StoreTypes DEF TypeOK
        <3> QED BY <3>1, <3>2 DEF TypeOK
    <2>2. CASE Forget(n)
        <3>1. PICK e \in work[n] : mem' = [mem EXCEPT ![n] = Drop(mem[n], e.ticket)]
            BY <2>2 DEF Forget
        <3>2. Drop(mem[n], e.ticket) \subseteq Etdr
            BY DEF TypeOK, Drop
        <3> QED BY <3>1, <3>2 DEF TypeOK
    <2>3. CASE DropRetry(n) \/ MarkKey(n) \/ CountFailure(n) \/ GiveUp(n)
        BY <2>3 DEF DropRetry, MarkKey, CountFailure, GiveUp, TypeOK
    <2> QED BY <2>1, <2>2, <2>3
<1>6. limit' \in Limits /\ faults' \in 0..limit'.faults
    BY FaultTypes DEF DropRetry, MarkKey, MarkSaved, CountFailure, GiveUp, Forget, Works
<1>7. UNCHANGED <<row, lock, writes, handlers, list, work, seen, expired>>
    BY DEF DropRetry, MarkKey, MarkSaved, CountFailure, GiveUp, Forget, keydb
<1> QED BY <1>2, <1>3, <1>4, <1>5, <1>6, <1>7 DEF TypeOK, handlers

LEMMA ReleaseTypes ==
    ASSUME TypeOK, NEW n \in Node, Release(n)
    PROVE  TypeOK'
<1>1. at' \in [Node -> TaskStage]
    BY DEF Release, TypeOK, TaskStage
<1>2. work' \in [Node -> SUBSET Etdr] /\ lock' \subseteq Ticket
    BY DEF Release, TypeOK, NoWork
<1>3. limit' \in Limits /\ faults' \in 0..limit'.faults
    BY FaultTypes DEF Release
<1>4. UNCHANGED <<row, mem, retries, latest, writes, handlers, list, seen, expired>>
    BY DEF Release
<1> QED BY <1>1, <1>2, <1>3, <1>4 DEF TypeOK, handlers

LEMMA EnvironmentTypes ==
    ASSUME TypeOK, (\E n \in Node : Crash(n)) \/ (\E t \in Ticket : LockExpires(t))
    PROVE  TypeOK'
<1>1. ASSUME NEW n \in Node, Crash(n) PROVE TypeOK'
    <2>1. limit' \in Limits /\ faults' \in 0..limit'.faults
        BY <1>1, FaultTypes DEF Crash
    <2>2. /\ mem' \in [Node -> SUBSET Etdr] /\ list' \in [Node -> SUBSET Etdr]
          /\ work' \in [Node -> SUBSET Etdr]
        BY <1>1 DEF Crash, TypeOK, NoWork
    <2>3. at' \in [Node -> TaskStage]
        BY <1>1 DEF Crash, TypeOK, TaskStage
    <2>4. seen' \in [Node -> Row]
        BY <1>1 DEF Crash, TypeOK, Row
    <2>5. writes' \subseteq Write /\ committing' \subseteq [node: Node, etdr: Etdr]
        BY <1>1 DEF Crash, TypeOK
    <2> QED BY <1>1, <2>1, <2>2, <2>3, <2>4, <2>5 DEF Crash, TypeOK, keydb
<1>2. ASSUME NEW t \in Ticket, LockExpires(t) PROVE TypeOK'
    BY <1>2 DEF LockExpires, TypeOK, handlers, task, bounds
<1> QED BY <1>1, <1>2

LEMMA NextTypes ==
    ASSUME TypeOK, Next
    PROVE  TypeOK'
<1>1. CASE HandlerStep
    BY <1>1, FaultTypes, CheckinTypes, CommitFindTypes, CommitWriteTypes DEF HandlerStep
<1>2. CASE WriteStep
    BY <1>2, WriteTypes DEF WriteStep
<1>3. ASSUME NEW n \in Node, TaskStep(n) PROVE TypeOK'
    BY <1>3, CollectTypes, PickTypes, RowTypes, OutcomeTypes, ReleaseTypes DEF TaskStep
<1> QED BY <1>1, <1>2, <1>3, FaultTypes, EnvironmentTypes DEF Next

\* No ETDR in any memory, key, list or spawned write ever counts
\* ETDR_MAX_DB_SAVE_RETRIES failures (retry.rs: at the limit it is given up), whatever
\* is merged with what; and everything has its type.
THEOREM RetryTypes == Spec => []TypeOK
<1>1. Init => TypeOK
    <2> SUFFICES ASSUME Init PROVE TypeOK
        OBVIOUS
    <2>1. limit \in Limits /\ faults \in 0..limit.faults
        BY RetryAssumption DEF Init
    <2>2. row \in [Ticket -> Row] /\ seen \in [Node -> Row]
        BY DEF Init, Row
    <2>3. /\ mem \in [Node -> SUBSET Etdr] /\ list \in [Node -> SUBSET Etdr]
          /\ work \in [Node -> SUBSET Etdr]
        BY DEF Init, NoWork
    <2>4. at \in [Node -> TaskStage]
        BY DEF Init, TaskStage
    <2> QED BY <2>1, <2>2, <2>3, <2>4 DEF Init, TypeOK
<1>2. TypeOK /\ [Next]_vars => TypeOK'
    <2>1. ASSUME TypeOK, UNCHANGED vars PROVE TypeOK'
        BY <2>1 DEF vars, keydb, handlers, task, bounds, TypeOK
    <2> QED BY <2>1, NextTypes
<1> QED BY <1>1, <1>2, PTL DEF Spec

-----------------------------------------------------------------------------
(* The locks                                                                 *)

\* Whoever works on a ticket holds its key, unless a key of it has expired.  This
\* is what makes OneWorkerPerTicket inductive.
WorkersHoldKeys ==
    \A n \in Node : \A e \in work[n] : e.ticket \in lock \cup expired

IInv ==
    /\ DOMAIN work = Node
    /\ WorkersHoldKeys
    /\ OneWorkerPerTicket

\* Steps that leave the lock, its history and the tasks' work alone.
LEMMA Untouched ==
    ASSUME IInv, UNCHANGED <<work, lock, expired>>
    PROVE  IInv'
BY DEF IInv, WorkersHoldKeys, OneWorkerPerTicket

\* The handlers and the writes they spawn.
LEMMA OthersKeep ==
    ASSUME IInv, HandlerStep \/ WriteStep
    PROVE  IInv'
<1>1. UNCHANGED <<work, lock, expired>>
    <2>1. CASE HandlerStep
        BY <2>1 DEF HandlerStep, CheckinSaved, CheckinUnsaved, CommitFind, CommitWrite,
                    keydb, task
    <2>2. CASE WriteStep
        BY <2>2 DEF WriteStep, WriteLook, WriteRetry, WriteTag, keydb, task
    <2>3. QED BY <2>1, <2>2
<1>2. QED BY <1>1, Untouched

\* A task takes a ticket whose key was not there: nobody else works on it, but for
\* those whose key has expired.
LEMMA PickKeeps ==
    ASSUME IInv, NEW n \in Node, NEW e \in list[n], PickLocks(n, e) \/ PickSkips(n, e)
    PROVE  IInv'
<1>1. CASE PickLocks(n, e)
    <2>1. /\ work' = [work EXCEPT ![n] = {e}]
          /\ lock' = lock \cup {e.ticket}
          /\ expired' = expired
          /\ e.ticket \notin lock
        BY <1>1 DEF PickLocks, Free
    <2>2. DOMAIN work' = Node
        BY <2>1 DEF IInv
    <2>3. \A m \in Node : work'[m] = IF m = n THEN {e} ELSE work[m]
        BY <2>1 DEF IInv
    <2>4. WorkersHoldKeys'
        BY <2>1, <2>3 DEF IInv, WorkersHoldKeys
    <2>5. OneWorkerPerTicket'
        BY <2>1, <2>3 DEF IInv, WorkersHoldKeys, OneWorkerPerTicket
    <2>6. QED BY <2>2, <2>4, <2>5 DEF IInv
<1>2. CASE PickSkips(n, e)
    <2>1. work' = work /\ expired' = expired /\ lock \subseteq lock'
        BY <1>2 DEF PickSkips
    <2>2. QED BY <2>1 DEF IInv, WorkersHoldKeys, OneWorkerPerTicket
<1>3. QED BY <1>1, <1>2

\* The key a task removes is its own, or one of somebody who works on a ticket
\* whose key has expired.
LEMMA ReleaseKeeps ==
    ASSUME IInv, NEW n \in Node, Release(n)
    PROVE  IInv'
<1>1. PICK e \in work[n] :
          /\ lock' = lock \ {e.ticket} \/ lock' = lock
          /\ work' = [work EXCEPT ![n] = NoWork]
          /\ expired' = expired
    BY DEF Release
<1>2. DOMAIN work' = Node
    BY <1>1 DEF IInv
<1>3. \A m \in Node : work'[m] = IF m = n THEN {} ELSE work[m]
    BY <1>1 DEF IInv, NoWork
<1>4. WorkersHoldKeys'
    BY <1>1, <1>3 DEF IInv, WorkersHoldKeys, OneWorkerPerTicket
<1>5. OneWorkerPerTicket'
    BY <1>1, <1>3 DEF IInv, OneWorkerPerTicket
<1>6. QED BY <1>2, <1>4, <1>5 DEF IInv

\* One step of a task: only taking and releasing a ticket touch its key.
LEMMA TaskKeeps ==
    ASSUME IInv, NEW n \in Node, TaskStep(n)
    PROVE  IInv'
<1>1. CASE \E e \in list[n] : PickLocks(n, e) \/ PickSkips(n, e)
    BY <1>1, PickKeeps
<1>2. CASE Release(n)
    BY <1>2, ReleaseKeeps
<1>3. ASSUME \/ Collect(n)   \/ ReadRow(n)   \/ SkipInsert(n)   \/ UpdateRow(n)
             \/ UpdateFails(n) \/ DropRetry(n) \/ MarkKey(n) \/ MarkSaved(n)
             \/ CountFailure(n) \/ GiveUp(n) \/ Forget(n)
      PROVE  UNCHANGED <<work, lock, expired>>
    <2>1. CASE Collect(n) \/ ReadRow(n) \/ SkipInsert(n)
        BY <2>1 DEF Collect, ReadRow, SkipInsert, keydb
    <2>2. CASE UpdateRow(n) \/ UpdateFails(n) \/ DropRetry(n)
        BY <2>2 DEF UpdateRow, UpdateFails, DropRetry, keydb
    <2>3. CASE MarkKey(n) \/ MarkSaved(n) \/ CountFailure(n) \/ GiveUp(n) \/ Forget(n)
        BY <2>3 DEF MarkKey, MarkSaved, CountFailure, GiveUp, Forget, keydb
    <2>4. QED BY <1>3, <2>1, <2>2, <2>3
<1>4. QED BY <1>1, <1>2, <1>3, Untouched DEF TaskStep

\* A crash leaves the key behind; a key that expires is remembered.
LEMMA EnvironmentKeeps ==
    ASSUME IInv, (\E n \in Node : Crash(n)) \/ (\E t \in Ticket : LockExpires(t))
    PROVE  IInv'
<1>1. ASSUME NEW n \in Node, Crash(n) PROVE IInv'
    <2>1. work' = [work EXCEPT ![n] = NoWork] /\ lock' = lock /\ expired' = expired
        BY <1>1 DEF Crash, keydb
    <2>2. DOMAIN work' = Node
        BY <2>1 DEF IInv
    <2>3. \A m \in Node : work'[m] = IF m = n THEN {} ELSE work[m]
        BY <2>1 DEF IInv, NoWork
    <2>4. QED BY <2>1, <2>2, <2>3 DEF IInv, WorkersHoldKeys, OneWorkerPerTicket
<1>2. ASSUME NEW t \in Ticket, LockExpires(t) PROVE IInv'
    <2>1. work' = work /\ lock' = lock \ {t} /\ expired' = expired \cup {t}
        BY <1>2 DEF LockExpires, task
    <2>2. QED BY <2>1 DEF IInv, WorkersHoldKeys, OneWorkerPerTicket
<1>3. QED BY <1>1, <1>2

\* The inductive invariant holds of every behaviour.
THEOREM RetryIInv == Spec => []IInv
<1>1. Init => IInv
    BY DEF Init, IInv, WorkersHoldKeys, OneWorkerPerTicket, NoWork
<1>2. TypeOK /\ IInv /\ [Next]_vars => IInv'
    <2> SUFFICES ASSUME TypeOK, IInv, [Next]_vars PROVE IInv'
        OBVIOUS
    <2>1. CASE Next
        BY <2>1, FaultTypes, OthersKeep, TaskKeeps, EnvironmentKeeps DEF Next
    <2>2. CASE UNCHANGED vars
        BY <2>2, Untouched DEF vars, keydb, task
    <2>3. QED BY <2>1, <2>2
<1>3. QED BY <1>1, <1>2, RetryTypes, PTL DEF Spec

\* As long as no key of a ticket expires, at most one node's task
\* (start_etdr_db_retry_task) works on the ticket, through crashes, lost answers
\* and locks left behind.
THEOREM OneWorkerAlways == Spec => []OneWorkerPerTicket
<1>1. IInv => OneWorkerPerTicket
    BY DEF IInv
<1>2. QED BY <1>1, RetryIInv, PTL
=============================================================================
