------------------------------ MODULE EtdrRetry ------------------------------
(***************************************************************************)
(* What becomes of an ETDR that a check-in could not save: save_etdr keeps *)
(* it in memory and writes it to KeyDB in the background                   *)
(* (models/ETDR/cache.rs), and a task on every node collects what is       *)
(* unsaved, locks a ticket, and tries again (models/ETDR/sync/task.rs,     *)
(* retry.rs).  Handlers and tasks of all nodes work on the same rows and   *)
(* the same KeyDB keys; every access to either is a step.                  *)
(*                                                                         *)
(* The tickets here belong to one tag, whose latest ETDR is at etdr:{etag}.*)
(* ETDR::from_checkin_bect always sets a ticket_in_id other than 0, and    *)
(* no row has it, because rows take the ticket itself as TICKET_IN_ID.     *)
(* Checkout phases and pending TCD rows are left out.                      *)
(***************************************************************************)
EXTENDS Integers, FiniteSets, FiniteSetsExt

CONSTANTS
    Node,
    Ticket,
    MaxRetries,     \* ETDR_MAX_DB_SAVE_RETRIES
    Limits          \* bounds, one of which holds for a behaviour: the nodes that run,
                    \* those of them that handle check-ins and commits, and how many
                    \* accesses to the database and KeyDB fail or nodes crash

ASSUME RetryAssumption ==
    /\ MaxRetries \in Nat \ {0, 1}
    /\ Limits \subseteq [nodes: SUBSET Node, checkin: SUBSET Node, commit: SUBSET Node,
                         faults: Nat]
    /\ \A l \in Limits : l.checkin \cup l.commit \subseteq l.nodes

VARIABLES
    row,        \* by ticket: the row of TRANSPORT_TRANSACTION_STAGE
    mem,        \* by node: the ETDRs in memory
    retries,    \* KeyDB: the ETDRs at etdr_retry:{ticket_id}
    latest,     \* KeyDB: the ETDR at etdr:{etag}, if any
    lock,       \* KeyDB: tickets with a key lock:etdr_retry:{ticket_id}
    writes,     \* KeyDB writes that save_etdr has spawned
    committing, \* commit handlers between their queries and their update
    started, tried,             \* tickets with a check-in, with a commit (one each)
    at, list, work, seen,       \* by node: the retry task and its locals
    limit, faults,              \* the bounds, and the failures and crashes so far
    expired                     \* history: tickets on which a lock ran out

task == <<at, list, work, seen>>
keydb == <<retries, latest, lock>>
handlers == <<committing, started, tried>>
bounds == <<limit, faults>>
vars == <<row, mem, keydb, writes, handlers, task, bounds, expired>>

-----------------------------------------------------------------------------
\* Rows: missing, checked in, or checked in and committed.
Row == {"none", "entered", "committed"}

Etdr == [ticket: Ticket, committed: BOOLEAN, saved: BOOLEAN, tries: 0..(MaxRetries - 1)]

\* A write that save_etdr spawned: an unsaved ETDR goes to both keys, a saved one
\* to etdr:{etag} only.
Write == [node: Node, at: {"look", "retry", "tag"}, etdr: Etdr, merged: Etdr]

Drop(store, t) == {e \in store : e.ticket # t}

Put(store, e) == Drop(store, e.ticket) \cup {e}

Unsaved(store) == {e \in store : ~e.saved}

\* merge_etdr_same_ticket_id, for a non-empty set of unsaved ETDRs of one ticket.
MergeSameTicket(t, es) ==
    [ticket |-> t, committed |-> \E e \in es : e.committed, saved |-> FALSE,
     tries |-> Max({e.tries : e \in es})]

\* dedupe_by_ticket_id
Dedupe(es) == {MergeSameTicket(t, {e \in es : e.ticket = t}) : t \in {e.ticket : e \in es}}

NoWork == {}

\* Where the retry task of a node is.
TaskStage == {"wait", "pick", "read", "update", "failed", "given up", "drop", "mark", "marked",
              "free"}

\* save_etdr: to memory now, to KeyDB by a task of its own.
SaveEtdr(n, e) ==
    /\ mem' = [mem EXCEPT ![n] = Put(@, e)]
    /\ writes' = writes \cup
          {[node |-> n, at |-> IF e.saved THEN "tag" ELSE "look", etdr |-> e, merged |-> e]}

Fails == faults < limit.faults /\ faults' = faults + 1 /\ UNCHANGED limit

Works == UNCHANGED bounds

Init ==
    /\ row = [t \in Ticket |-> "none"]
    /\ mem = [n \in Node |-> {}]
    /\ retries = {} /\ latest = {} /\ lock = {}
    /\ writes = {}
    /\ committing = {} /\ started = {} /\ tried = {}
    /\ at = [n \in Node |-> "wait"]
    /\ list = [n \in Node |-> {}]
    /\ work = [n \in Node |-> NoWork]
    /\ seen = [n \in Node |-> "none"]
    /\ limit \in Limits /\ faults = 0
    /\ expired = {}

-----------------------------------------------------------------------------
(* The handlers, as far as they matter here *)

\* process_checkin with its row saved ...
CheckinSaved(n, t) ==
    /\ t \notin started
    /\ started' = started \cup {t}
    /\ row' = [row EXCEPT ![t] = "entered"]
    /\ SaveEtdr(n, [ticket |-> t, committed |-> FALSE, saved |-> TRUE, tries |-> 0])
    /\ UNCHANGED <<keydb, committing, tried, task, bounds, expired>>

\* ... and with save failing, be it that the row is there or not.
CheckinUnsaved(n, t) ==
    /\ t \notin started
    /\ started' = started \cup {t}
    /\ Fails
    /\ \E r \in {"none", "entered"} : row' = [row EXCEPT ![t] = r]
    /\ SaveEtdr(n, [ticket |-> t, committed |-> FALSE, saved |-> FALSE, tries |-> 1])
    /\ UNCHANGED <<keydb, committing, tried, task, expired>>

\* process_commit finds the row, which goes to the cache, and works on with the
\* row's ETDR or with the cached one.
CommitFind(n, t) ==
    LET found == [ticket |-> t, committed |-> FALSE, saved |-> TRUE, tries |-> 0] IN
    /\ t \notin tried
    /\ tried' = tried \cup {t}
    /\ row[t] = "entered"
    /\ \E e \in {found} \cup {c \in mem[n] : c.ticket = t} :
          committing' = committing \cup {[node |-> n, etdr |-> e]}
    /\ SaveEtdr(n, found)
    /\ UNCHANGED <<row, keydb, started, task, bounds, expired>>

\* update_checkin_commit, and the ETDR is saved as committed.
CommitWrite(c) ==
    /\ c \in committing
    /\ committing' = committing \ {c}
    /\ \/ /\ row' = [row EXCEPT ![c.etdr.ticket] = "committed"]
          /\ SaveEtdr(c.node, [c.etdr EXCEPT !.committed = TRUE, !.saved = TRUE])
          /\ Works
       \/ /\ Fails
          /\ row' \in {row, [row EXCEPT ![c.etdr.ticket] = "committed"]}
          /\ SaveEtdr(c.node, [c.etdr EXCEPT !.committed = TRUE])
    /\ UNCHANGED <<keydb, started, tried, task, expired>>

-----------------------------------------------------------------------------
(* The writes of save_etdr *)

\* What is at etdr_retry:{ticket_id} is read and merged, an error counting as
\* nothing there ...
WriteLook(w) ==
    LET there == {e \in retries : e.ticket = w.etdr.ticket} IN
    /\ w \in writes
    /\ w.at = "look"
    /\ \E found \in {there, {}} :
          /\ found # there => Fails
          /\ found = there => Works
          /\ writes' = (writes \ {w}) \cup
                {[w EXCEPT !.at = "retry",
                           !.merged = MergeSameTicket(w.etdr.ticket, found \cup {w.etdr})]}
    /\ UNCHANGED <<row, mem, keydb, handlers, task, expired>>

\* ... and written back; an error is ignored.
WriteRetry(w) ==
    /\ w \in writes
    /\ w.at = "retry"
    /\ writes' = (writes \ {w}) \cup {[w EXCEPT !.at = "tag", !.merged = w.etdr]}
    /\ \/ retries' = Put(retries, w.merged) /\ Works
       \/ Fails /\ UNCHANGED retries
    /\ UNCHANGED <<row, mem, latest, lock, handlers, task, expired>>

WriteTag(w) ==
    /\ w \in writes
    /\ w.at = "tag"
    /\ writes' = writes \ {w}
    /\ \/ latest' = {w.etdr} /\ Works
       \/ Fails /\ UNCHANGED latest
    /\ UNCHANGED <<row, mem, retries, lock, handlers, task, expired>>

-----------------------------------------------------------------------------
(* start_etdr_db_retry_task: one round of the loop on node n *)

\* collect_unsaved_etdrs; memory alone when KeyDB does not answer, memory and the
\* retries when only the second list of keys fails.  With nothing to do the task
\* sleeps.
Collect(n) ==
    /\ at[n] = "wait"
    /\ \E keys \in {retries \cup latest, retries, {}} :
          /\ keys # retries \cup latest => Fails
          /\ keys = retries \cup latest => Works
          /\ Unsaved(keys \cup mem[n]) # {}
          /\ list' = [list EXCEPT ![n] = Dedupe(Unsaved(keys \cup mem[n]))]
    /\ at' = [at EXCEPT ![n] = "pick"]
    /\ UNCHANGED <<row, mem, keydb, writes, handlers, work, seen, expired>>

\* Mutant of Free: SET without NX.
FreeAnyway(t) == t \in Ticket

\* SET NX answers that the key was not there.
Free(t) == t \notin lock

\* try_acquire_etdr_retry_lock (SET NX EX) succeeds: the rest of the list waits
\* for the next round.
PickLocks(n, e) ==
    /\ at[n] = "pick"
    /\ e \in list[n]
    /\ Free(e.ticket)
    /\ lock' = lock \cup {e.ticket}
    /\ work' = [work EXCEPT ![n] = {e}]
    /\ list' = [list EXCEPT ![n] = {}]
    /\ at' = [at EXCEPT ![n] = "read"]
    /\ UNCHANGED <<row, mem, retries, latest, writes, handlers, seen, bounds,
                   expired>>

\* The key is there, or KeyDB does not answer, be the key set or not: the next
\* candidate.
PickSkips(n, e) ==
    /\ at[n] = "pick"
    /\ e \in list[n]
    /\ \/ ~Free(e.ticket) /\ Works /\ UNCHANGED lock
       \/ Fails /\ lock' \in {lock, lock \cup {e.ticket}}
    /\ list' = [list EXCEPT ![n] = @ \ {e}]
    /\ at' = [at EXCEPT ![n] = IF list[n] = {e} THEN "wait" ELSE "pick"]
    /\ UNCHANGED <<row, mem, retries, latest, writes, handlers, work, seen, expired>>

\* retry_save_bect: get_by_id finds the row ...
ReadRow(n) ==
    \E e \in work[n] :
        /\ at[n] = "read"
        /\ row[e.ticket] # "none"
        /\ seen' = [seen EXCEPT ![n] = row[e.ticket]]
        /\ at' = [at EXCEPT ![n] = "update"]
        /\ UNCHANGED <<row, mem, keydb, writes, handlers, list, work, bounds,
                       expired>>

\* ... or there is none, or the query fails; nor has any row its ticket_in_id.
\* As the ETDR has a ticket_in_id, the insert is skipped, which counts as success.
SkipInsert(n) ==
    \E e \in work[n] :
        /\ at[n] = "read"
        /\ \/ row[e.ticket] = "none" /\ Works
           \/ Fails
        /\ at' = [at EXCEPT ![n] = "drop"]
        /\ UNCHANGED <<row, mem, keydb, writes, handlers, list, work, seen, expired>>

\* merge_etdr_into_transport_stage takes the commit from the row that was read, and
\* update writes every column.
UpdateRow(n) ==
    \E e \in work[n] :
        /\ at[n] = "update"
        /\ row' = [row EXCEPT ![e.ticket] = seen[n]]
        /\ at' = [at EXCEPT ![n] = "drop"]
        /\ seen' = [seen EXCEPT ![n] = "none"]
        /\ UNCHANGED <<mem, keydb, writes, handlers, list, work, bounds,
                       expired>>

\* The answer of the database is an error, be the row written or not.
UpdateFails(n) ==
    \E e \in work[n] :
        /\ at[n] = "update"
        /\ Fails
        /\ row' \in {row, [row EXCEPT ![e.ticket] = seen[n]]}
        /\ at' = [at EXCEPT ![n] = "failed"]
        /\ seen' = [seen EXCEPT ![n] = "none"]
        /\ UNCHANGED <<mem, keydb, writes, handlers, list, work, expired>>

\* Success: etdr_retry:{ticket_id} is removed, an error ignored ...
DropRetry(n) ==
    \E e \in work[n] :
        /\ at[n] = "drop"
        /\ \/ retries' = Drop(retries, e.ticket) /\ Works
           \/ Fails /\ UNCHANGED retries
        /\ at' = [at EXCEPT ![n] = "mark"]
        /\ UNCHANGED <<row, mem, latest, lock, writes, handlers, list, work, seen, expired>>

\* Mutant of Done: db_saved is not set.
DoneUnmarked(e) == [e EXCEPT !.tries = 0]

Done(e) == [e EXCEPT !.saved = TRUE]

\* ... and the ETDR that was collected goes, as saved, to etdr:{etag} ...
MarkKey(n) ==
    \E e \in work[n] :
        /\ at[n] = "mark"
        /\ \/ latest' = {Done(e)} /\ Works
           \/ Fails /\ UNCHANGED latest
        /\ at' = [at EXCEPT ![n] = "marked"]
        /\ UNCHANGED <<row, mem, retries, lock, writes, handlers, list, work, seen, expired>>

\* ... and to memory.
MarkSaved(n) ==
    \E e \in work[n] :
        /\ at[n] = "marked"
        /\ mem' = [mem EXCEPT ![n] = Put(@, Done(e))]
        /\ at' = [at EXCEPT ![n] = "free"]
        /\ UNCHANGED <<row, keydb, writes, handlers, list, work, seen, bounds,
                       expired>>

\* Mutant of TriesLeft: the limit is off by one.
TriesLeftOneMore(e) == e.tries + 1 <= MaxRetries

TriesLeft(e) == e.tries + 1 < MaxRetries

\* Failure: the count is written to etdr_retry:{ticket_id} ...
CountFailure(n) ==
    \E e \in work[n] :
        /\ at[n] = "failed"
        /\ TriesLeft(e)
        /\ \/ retries' = Put(retries, [e EXCEPT !.tries = @ + 1]) /\ Works
           \/ Fails /\ UNCHANGED retries
        /\ at' = [at EXCEPT ![n] = "free"]
        /\ UNCHANGED <<row, mem, latest, lock, writes, handlers, list, work, seen, expired>>

\* ... until there were too many: the ETDR leaves that key ...
GiveUp(n) ==
    \E e \in work[n] :
        /\ at[n] = "failed"
        /\ ~TriesLeft(e)
        /\ \/ retries' = Drop(retries, e.ticket) /\ Works
           \/ Fails /\ UNCHANGED retries
        /\ at' = [at EXCEPT ![n] = "given up"]
        /\ UNCHANGED <<row, mem, latest, lock, writes, handlers, list, work, seen, expired>>

\* ... and this node's memory.
Forget(n) ==
    \E e \in work[n] :
        /\ at[n] = "given up"
        /\ mem' = [mem EXCEPT ![n] = Drop(@, e.ticket)]
        /\ at' = [at EXCEPT ![n] = "free"]
        /\ UNCHANGED <<row, keydb, writes, handlers, list, work, seen, bounds,
                       expired>>

\* release_etdr_retry_lock removes the key, whoever has set it; an error is ignored.
Release(n) ==
    \E e \in work[n] :
        /\ at[n] = "free"
        /\ \/ lock' = lock \ {e.ticket} /\ Works
           \/ Fails /\ UNCHANGED lock
        /\ work' = [work EXCEPT ![n] = NoWork]
        /\ at' = [at EXCEPT ![n] = "wait"]
        /\ UNCHANGED <<row, mem, retries, latest, writes, handlers, list, seen, expired>>

-----------------------------------------------------------------------------
(* The environment *)

\* ETDR_RETRY_LOCK_TTL_SECS have passed since the key was set.
LockExpires(t) ==
    /\ t \in lock
    /\ lock' = lock \ {t}
    /\ expired' = expired \cup {t}
    /\ UNCHANGED <<row, mem, retries, latest, writes, handlers, task, bounds>>

\* A node stops: memory, spawned writes, handlers and the task are gone.
Crash(n) ==
    /\ Fails
    /\ mem' = [mem EXCEPT ![n] = {}]
    /\ writes' = {w \in writes : w.node # n}
    /\ committing' = {c \in committing : c.node # n}
    /\ at' = [at EXCEPT ![n] = "wait"]
    /\ list' = [list EXCEPT ![n] = {}]
    /\ work' = [work EXCEPT ![n] = NoWork]
    /\ seen' = [seen EXCEPT ![n] = "none"]
    /\ UNCHANGED <<row, keydb, started, tried, expired>>

HandlerStep ==
    \/ \E n \in limit.checkin, t \in Ticket : CheckinSaved(n, t) \/ CheckinUnsaved(n, t)
    \/ \E n \in limit.commit, t \in Ticket : CommitFind(n, t)
    \/ \E c \in committing : CommitWrite(c)

WriteStep == \E w \in writes : WriteLook(w) \/ WriteRetry(w) \/ WriteTag(w)

TaskStep(n) ==
    \/ Collect(n)
    \/ \E e \in list[n] : PickLocks(n, e) \/ PickSkips(n, e)
    \/ ReadRow(n)   \/ SkipInsert(n)   \/ UpdateRow(n) \/ UpdateFails(n)
    \/ DropRetry(n) \/ MarkKey(n)      \/ MarkSaved(n)
    \/ CountFailure(n) \/ GiveUp(n)    \/ Forget(n)    \/ Release(n)

Next ==
    \/ HandlerStep
    \/ WriteStep
    \/ \E n \in limit.nodes : TaskStep(n) \/ Crash(n)
    \/ \E t \in Ticket : LockExpires(t)

Spec == Init /\ [][Next]_vars

\* The loop of the task runs for ever, the runtime finishes what was spawned, and
\* KeyDB removes a key when its TTL is over.
FairSpec ==
    /\ Spec
    /\ WF_vars(\E c \in committing : CommitWrite(c))
    /\ WF_vars(WriteStep)
    /\ \A n \in Node : WF_vars(n \in limit.nodes /\ TaskStep(n))
    /\ \A t \in Ticket : WF_vars(LockExpires(t))

-----------------------------------------------------------------------------
\* Everything has its type, and no ETDR anywhere counts ETDR_MAX_DB_SAVE_RETRIES
\* failures: at the limit it is given up instead of being stored.
TypeOK ==
    /\ row \in [Ticket -> Row]
    /\ mem \in [Node -> SUBSET Etdr]
    /\ retries \subseteq Etdr /\ latest \subseteq Etdr /\ lock \subseteq Ticket
    /\ writes \subseteq Write
    /\ committing \subseteq [node: Node, etdr: Etdr]
    /\ started \subseteq Ticket /\ tried \subseteq Ticket
    /\ at \in [Node -> TaskStage]
    /\ list \in [Node -> SUBSET Etdr]
    /\ work \in [Node -> SUBSET Etdr]
    /\ seen \in [Node -> Row]
    /\ limit \in Limits /\ faults \in 0..limit.faults
    /\ expired \subseteq Ticket

\* Only one node at a time works on a ticket (constants.rs:371), crashes and lost
\* answers notwithstanding, as long as no lock on it ran out: a release that comes
\* late would free the lock of somebody else.
OneWorkerPerTicket ==
    \A n1, n2 \in Node : \A e1 \in work[n1], e2 \in work[n2] :
        n1 # n2 /\ e1.ticket = e2.ticket => e1.ticket \in expired

\* Whatever fails for a while, the tasks come to rest: from some time on no memory
\* and no key holds an unsaved ETDR, and no lock is left behind.
Drained ==
    <>[](/\ \A n \in Node : Unsaved(mem[n]) = {} /\ at[n] = "wait"
         /\ Unsaved(retries \cup latest) = {}
         /\ lock = {} /\ writes = {})

-----------------------------------------------------------------------------
(* What the repository says of the retries, and they do not keep.            *)

\* retry_save_etdr_to_db returns "true nếu save thành công" [true if saved]
\* (retry.rs:41), and db_saved is set on it: an ETDR marked as saved has a row.
SavedMeansStored == \A n \in Node : \A e \in mem[n] : e.saved => row[e.ticket] # "none"
=============================================================================
