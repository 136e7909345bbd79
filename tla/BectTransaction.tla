--------------------------- MODULE BectTransaction ---------------------------
(***************************************************************************)
(* The life of a toll transaction of one tag, from check-in to checkout    *)
(* commit, as the four BECT handlers drive it:                             *)
(*    handlers/checkin/handler.rs           process_checkin                *)
(*    handlers/commit/handler.rs            process_commit                 *)
(*    handlers/checkout_reserve/handler.rs  process_checkout_reserve_bect  *)
(*    handlers/checkout_commit/handler.rs   process_checkout_commit_bect   *)
(* Each process (node) keeps its own ETDR memory cache; the database with  *)
(* TRANSPORT_TRANSACTION_STAGE and ACCOUNT_TRANSACTION is shared.  No lock *)
(* spans a handler: a call is cut at every database access and every       *)
(* access to the cache, and calls interleave there.  A database access may *)
(* fail, and a write may fail after it took effect.  A node may restart    *)
(* and loses its cache and its calls.                                      *)
(*                                                                         *)
(* Left out here: rows of TRANSPORT_TRANS_STAGE_SYNC (none exist for the   *)
(* tag), TCD rows, KeyDB copies, and the retry task.                       *)
(***************************************************************************)
EXTENDS Integers

CONSTANTS
    Node,
    Checkin, Commit, Reserve, Exit,  \* calls of the four handlers
    NodeOf,             \* the node a call runs on
    Ticket,             \* ticket numbers that check-ins draw, each of them once
    TicksPerSecond,     \* clock ticks in a second: the database keeps seconds only
    MaxTime,            \* bound: last tick at which a check-in may happen
    MaxAccount,         \* bound: ACCOUNT_TRANSACTION rows
    MaxLosses           \* bound: restarts and evictions

Call == Checkin \cup Commit \cup Reserve \cup Exit

ASSUME BectAssumption ==
    /\ NodeOf \in [Call -> Node]
    /\ Ticket \subseteq Int \ {0}
    /\ TicksPerSecond \in Nat \ {0}
    /\ MaxTime \in Nat
    /\ MaxAccount \in Nat
    /\ MaxLosses \in Nat

\* The calls of the four handlers are told apart.
ASSUME KindsDisjoint ==
    /\ Checkin \cap (Commit \cup Reserve \cup Exit) = {}
    /\ Commit \cap (Reserve \cup Exit) = {}
    /\ Reserve \cap Exit = {}

VARIABLES
    mem,        \* by node and ticket: the ETDR in the memory cache
    stage,      \* by ticket: the row of TRANSPORT_TRANSACTION_STAGE
    account,    \* rows of ACCOUNT_TRANSACTION by id
    accounts,   \* how many of them exist
    sent,       \* Kafka messages: <<"CHECKIN", t>> and <<"CHECKOUT", t>>
    clock,      \* time, as far as check-ins read it
    issued,     \* tickets drawn so far
    pc,         \* where each call stands
    frame,      \* the local variables of each call
    losses,     \* how often a cache lost entries
    accepted, reserved, closed  \* history: tickets that passed the checks of
                                \* commit, checkout reserve and checkout commit

history == <<accepted, reserved, closed>>
vars == <<mem, stage, account, accounts, sent, clock, issued, pc, frame, losses, history>>

-----------------------------------------------------------------------------
(* Records.  Only whether a timestamp is set matters, except for check-in.   *)

Etdr == [checkin: Nat, committed: BOOLEAN, checkout: BOOLEAN, finished: BOOLEAN]

Stage == [checkin: Nat, committed: BOOLEAN, checkout: BOOLEAN, finished: BOOLEAN,
          account: 0..MaxAccount]

Account == [ticket: Ticket \cup {0}, updates: Nat]

\* ticket and etdr: what the call works on; row and rowOf: the stage row it read
\* and its ticket; wanted: the ticket a checkout commit asks for, 0 if any;
\* charge: the ACCOUNT_TRANSACTION id it holds, 0 if none.
Frame == [ticket: Ticket \cup {0}, etdr: Etdr, row: Stage, rowOf: Ticket \cup {0},
          wanted: Ticket \cup {0}, charge: 0..MaxAccount]

NoEtdr == [checkin |-> 0, committed |-> FALSE, checkout |-> FALSE, finished |-> FALSE]

NoStage == [checkin |-> 0, committed |-> FALSE, checkout |-> FALSE, finished |-> FALSE,
            account |-> 0]

NoFrame == [ticket |-> 0, etdr |-> NoEtdr, row |-> NoStage, rowOf |-> 0,
            wanted |-> 0, charge |-> 0]

\* The database keeps "%Y-%m-%d %H:%M:%S".
Second(time) == time - (time % TicksPerSecond)

\* ETDR::from_checkin_bect
NewEtdr(now) ==
    [checkin |-> now, committed |-> FALSE, checkout |-> FALSE, finished |-> FALSE]

\* create_transport_transaction_stage_from_bect_checkin, with its own clock reading
NewStage(now) ==
    [checkin |-> Second(now), committed |-> FALSE, checkout |-> FALSE,
     finished |-> FALSE, account |-> 0]

\* ETDR::from_transport_transaction_stage
FromStage(s) ==
    [checkin |-> s.checkin, committed |-> s.committed, checkout |-> s.checkout,
     finished |-> s.finished]

-----------------------------------------------------------------------------
PC == {"idle", "insert", "verify", "unsaved",
       "cache", "stage", "merge", "touch",
       "recheck", "commitIn", "commitMem",
       "price", "account", "reserveOut",
       "lookup", "load", "balance", "charge", "commitOut", "clear",
       "done"}

Init ==
    /\ mem = [n \in Node |-> [t \in Ticket |-> NoEtdr]]
    /\ stage = [t \in Ticket |-> NoStage]
    /\ account = [i \in 1..MaxAccount |-> [ticket |-> 0, updates |-> 0]]
    /\ accounts = 0
    /\ sent = {}
    /\ clock = TicksPerSecond
    /\ issued = {}
    /\ pc = [c \in Call |-> "idle"]
    /\ frame = [c \in Call |-> NoFrame]
    /\ losses = 0
    /\ accepted = {} /\ reserved = {} /\ closed = {}

\* The call goes on at label with the locals f ...
Continue(c, label, f) ==
    /\ pc' = [pc EXCEPT ![c] = label]
    /\ frame' = [frame EXCEPT ![c] = f]

Goto(c, label) == Continue(c, label, frame[c])

\* ... or answers, and its locals are gone.
Answer(c) == Continue(c, "done", NoFrame)

\* save_etdr: put by ticket id, over whatever is there.
SaveEtdr(n, t, e) == mem' = [mem EXCEPT ![n][t] = e]

-----------------------------------------------------------------------------
(* process_checkin *)

\* Toll or lane unknown, lane of the wrong type, or balance below the minimum.
CheckinRefused(c) ==
    /\ c \in Checkin
    /\ pc[c] = "idle"
    /\ Answer(c)
    /\ UNCHANGED <<mem, stage, account, accounts, sent, clock, issued, losses, history>>

\* A ticket number is drawn and the ETDR built, with the time in ticks.
CheckinBuild(c) ==
    /\ c \in Checkin
    /\ pc[c] = "idle"
    /\ \E t \in Ticket \ issued, now \in clock..MaxTime :
          /\ clock' = now
          /\ issued' = issued \cup {t}
          /\ Continue(c, "insert", [NoFrame EXCEPT !.ticket = t, !.etdr = NewEtdr(now)])
    /\ UNCHANGED <<mem, stage, account, accounts, sent, losses, history>>

\* The stage gets its own, later, clock reading and is inserted ...
CheckinInsert(c) ==
    /\ pc[c] = "insert"
    /\ \E now \in clock..MaxTime :
          /\ clock' = now
          /\ stage' = [stage EXCEPT ![frame[c].ticket] = NewStage(now)]
    /\ \/ Goto(c, "verify")
       \/ Goto(c, "unsaved")       \* inserted, but the answer was lost
    /\ UNCHANGED <<mem, account, accounts, sent, issued, losses, history>>

\* ... or not.
CheckinInsertFails(c) ==
    /\ pc[c] = "insert"
    /\ Goto(c, "unsaved")
    /\ UNCHANGED <<mem, stage, account, accounts, sent, clock, issued, losses, history>>

\* save reads the row back.  When that fails, the entity itself goes to the
\* service's cache, where get_by_id finds it: status 0 is answered either way.
CheckinVerify(c) ==
    /\ pc[c] = "verify"
    /\ SaveEtdr(NodeOf[c], frame[c].ticket, frame[c].etdr)
    /\ Answer(c)
    /\ UNCHANGED <<stage, account, accounts, sent, clock, issued, losses, history>>

\* The insert failed: the ETDR is kept in memory only.
CheckinUnsaved(c) ==
    /\ pc[c] = "unsaved"
    /\ SaveEtdr(NodeOf[c], frame[c].ticket, frame[c].etdr)
    /\ Answer(c)
    /\ UNCHANGED <<stage, account, accounts, sent, clock, issued, losses, history>>

-----------------------------------------------------------------------------
(* Finding the transaction of the tag: memory, then database, then merge     *)

Cached(n) == {t \in Ticket : mem[n][t].checkin # 0}

Stored == {t \in Ticket : stage[t].checkin # 0}

\* get_latest_checkin_by_etag: the cached entry with the largest ticket id.
TakeCached(c, label) ==
    LET n == NodeOf[c] IN
    \/ /\ Cached(n) = {}
       /\ Continue(c, label, [frame[c] EXCEPT !.ticket = 0, !.etdr = NoEtdr])
    \/ \E t \in Cached(n) :
          /\ \A u \in Cached(n) : u <= t
          /\ Continue(c, label, [frame[c] EXCEPT !.ticket = t, !.etdr = mem[n][t]])

ReadCache(c) ==
    /\ pc[c] = "cache" \/ (pc[c] = "idle" /\ c \in Commit \cup Reserve)
    /\ TakeCached(c, "stage")
    /\ UNCHANGED <<mem, stage, account, accounts, sent, clock, issued, losses, history>>

\* get_best_pending_from_sync_or_main_bect: the latest row of the tag; a query
\* that fails counts as no row.
ReadStage(c) ==
    /\ pc[c] = "stage"
    /\ \/ \E t \in Stored :
             /\ \A u \in Stored : stage[u].checkin <= stage[t].checkin
             /\ Continue(c, "merge", [frame[c] EXCEPT !.rowOf = t, !.row = stage[t]])
       \/ Continue(c, "merge", [frame[c] EXCEPT !.rowOf = 0, !.row = NoStage])
    /\ UNCHANGED <<mem, stage, account, accounts, sent, clock, issued, losses, history>>

\* merge_latest_checkin_etdr: the later check-in wins, the database on a tie.
\* The first argument is what the cache gave, the second the row.
PrefersRow(e, s) == s.checkin # 0 /\ s.checkin >= e.checkin

\* What each handler asks of the merged ETDR.
CommitAdmits(e) == e.checkin # 0 /\ ~e.committed /\ ~e.checkout /\ ~e.finished

\* Mutant of ReserveAdmits: the check-in commit is not asked for.
ReserveAdmitsUncommitted(e) == e.checkin # 0 /\ ~e.checkout /\ ~e.finished

ReserveAdmits(e) == e.checkin # 0 /\ e.committed /\ ~e.checkout /\ ~e.finished

ExitAdmits(e) == e.committed /\ e.checkout /\ ~e.finished

\* What the call does next with its locals f, merged.
Proceed(c, f) ==
    \/ c \in Commit /\ CommitAdmits(f.etdr) /\ Continue(c, "recheck", f)
    \/ c \in Commit /\ ~CommitAdmits(f.etdr) /\ Answer(c)
    \/ c \in Reserve /\ ReserveAdmits(f.etdr) /\ Continue(c, "price", f)
    \/ c \in Reserve /\ ~ReserveAdmits(f.etdr) /\ Answer(c)
    \/ /\ c \in Exit /\ f.wanted = 0 /\ f.ticket # 0
       /\ Continue(c, "lookup", [f EXCEPT !.wanted = f.ticket])
    \/ /\ c \in Exit /\ f.wanted # 0
       /\ f.ticket = f.wanted /\ ExitAdmits(f.etdr)
       /\ Continue(c, "load", f)
    \/ /\ c \in Exit
       /\ f.ticket = 0 \/ (f.wanted # 0 /\ ~(f.ticket = f.wanted /\ ExitAdmits(f.etdr)))
       /\ Answer(c)

\* Mutant of Merge: what the row says is taken over under the cached ticket.
MergeMixesTrips(c) ==
    LET f == frame[c] IN
    /\ pc[c] = "merge"
    /\ IF f.row.checkin # 0
       THEN SaveEtdr(NodeOf[c], f.rowOf, FromStage(f.row))
       ELSE UNCHANGED mem
    /\ IF PrefersRow(f.etdr, f.row)
       THEN Proceed(c, [f EXCEPT !.ticket = IF @ = 0 THEN f.rowOf ELSE @,
                                 !.etdr = FromStage(f.row)])
       ELSE Proceed(c, f)
    /\ UNCHANGED <<stage, account, accounts, sent, clock, issued, losses, history>>

\* The row goes to the cache, over whatever the cache holds by now; then it is
\* merged with what the cache held when the call began.
Merge(c) ==
    LET f == frame[c] IN
    /\ pc[c] = "merge"
    /\ IF f.row.checkin # 0
       THEN SaveEtdr(NodeOf[c], f.rowOf, FromStage(f.row))
       ELSE UNCHANGED mem
    /\ IF PrefersRow(f.etdr, f.row)
       THEN Proceed(c, [f EXCEPT !.ticket = f.rowOf, !.etdr = FromStage(f.row)])
       ELSE Proceed(c, f)
    /\ UNCHANGED <<stage, account, accounts, sent, clock, issued, losses, history>>

-----------------------------------------------------------------------------
(* process_commit *)

\* The lane is unknown: the cached ETDR is read, stamped and written back.
CommitNoLane(c) ==
    /\ c \in Commit
    /\ pc[c] = "idle"
    /\ TakeCached(c, "touch")
    /\ UNCHANGED <<mem, stage, account, accounts, sent, clock, issued, losses, history>>

CommitTouch(c) ==
    LET f == frame[c] IN
    /\ pc[c] = "touch"
    /\ IF f.ticket # 0 THEN SaveEtdr(NodeOf[c], f.ticket, f.etdr) ELSE UNCHANGED mem
    /\ Answer(c)
    /\ UNCHANGED <<stage, account, accounts, sent, clock, issued, losses, history>>

\* get_by_id: the row must exist and be uncommitted.
CommitRecheck(c) ==
    LET t == frame[c].ticket IN
    /\ pc[c] = "recheck"
    /\ t \in Stored
    /\ ~stage[t].committed
    /\ accepted' = accepted \cup {t}
    /\ Goto(c, "commitIn")
    /\ UNCHANGED <<mem, stage, account, accounts, sent, clock, issued, losses, reserved, closed>>

\* Mutant of CommitRecheckFails: no early return when the row is not found.
CommitRecheckGoesOn(c) ==
    /\ pc[c] = "recheck"
    /\ Goto(c, "commitMem")
    /\ UNCHANGED <<mem, stage, account, accounts, sent, clock, issued, losses, history>>

\* It does not, or the query fails, or another row has its TICKET_IN_ID.
CommitRecheckFails(c) ==
    /\ pc[c] = "recheck"
    /\ Answer(c)
    /\ UNCHANGED <<mem, stage, account, accounts, sent, clock, issued, losses, history>>

\* update_checkin_commit ... WHERE CHECKIN_STATUS = '1'; the number of rows it
\* changed is not looked at, and an error changes nothing in what follows.
CommitUpdate(c) ==
    LET t == frame[c].ticket IN
    /\ pc[c] = "commitIn"
    /\ \/ ~stage[t].committed /\ stage' = [stage EXCEPT ![t].committed = TRUE]
       \/ UNCHANGED stage
    /\ Goto(c, "commitMem")
    /\ UNCHANGED <<mem, account, accounts, sent, clock, issued, losses, history>>

CommitFinish(c) ==
    LET f == frame[c] IN
    /\ pc[c] = "commitMem"
    /\ SaveEtdr(NodeOf[c], f.ticket, [f.etdr EXCEPT !.committed = TRUE])
    /\ sent' = sent \cup {<<"CHECKIN", f.ticket>>}
    /\ Answer(c)
    /\ UNCHANGED <<stage, account, accounts, clock, issued, losses, history>>

-----------------------------------------------------------------------------
(* process_checkout_reserve_bect *)

\* No price for the route, and zero fees are not allowed.
ReserveNoPrice(c) ==
    /\ pc[c] = "price"
    /\ Answer(c)
    /\ UNCHANGED <<mem, stage, account, accounts, sent, clock, issued, losses, history>>

\* The ETDR is marked as checked out in memory.  With an account to charge and a
\* fee above 0 a reservation follows; otherwise, also when the subscriber or the
\* account is missing, the stage is updated at once.
ReserveMark(c) ==
    LET e == [frame[c].etdr EXCEPT !.checkout = TRUE] IN
    /\ pc[c] = "price"
    /\ SaveEtdr(NodeOf[c], frame[c].ticket, e)
    /\ reserved' = reserved \cup {frame[c].ticket}
    /\ \E label \in {"account", "reserveOut"} :
          Continue(c, label, [frame[c] EXCEPT !.etdr = e])
    /\ UNCHANGED <<stage, account, accounts, sent, clock, issued, losses, accepted, closed>>

\* Mutant of ReserveAccount: the reservation names the row that was read, not the
\* merged transaction.
ReserveAccountOfRead(c) ==
    LET id == accounts + 1 IN
    /\ pc[c] = "account"
    /\ accounts < MaxAccount
    /\ accounts' = id
    /\ account' = [account EXCEPT ![id].ticket = frame[c].rowOf]
    /\ Continue(c, "reserveOut", [frame[c] EXCEPT !.charge = id])
    /\ UNCHANGED <<mem, stage, sent, clock, issued, losses, history>>

\* insert_account_transaction_for_bect_checkout ...
ReserveAccount(c) ==
    LET id == accounts + 1 IN
    /\ pc[c] = "account"
    /\ accounts < MaxAccount
    /\ accounts' = id
    /\ account' = [account EXCEPT ![id].ticket = frame[c].ticket]
    /\ \/ Continue(c, "reserveOut", [frame[c] EXCEPT !.charge = id])
       \/ Goto(c, "reserveOut")      \* inserted, but the answer was lost
    /\ UNCHANGED <<mem, stage, sent, clock, issued, losses, history>>

\* ... fails: the checkout goes on without a reservation.
ReserveAccountFails(c) ==
    /\ pc[c] = "account"
    /\ Goto(c, "reserveOut")
    /\ UNCHANGED <<mem, stage, account, accounts, sent, clock, issued, losses, history>>

\* update_checkout_info, unconditional, its result ignored.
ReserveUpdate(c) ==
    LET f == frame[c] IN
    /\ pc[c] = "reserveOut"
    /\ \/ /\ f.ticket \in Stored
          /\ stage' = [stage EXCEPT
                 ![f.ticket].checkout = TRUE,
                 ![f.ticket].account = IF f.charge # 0 THEN f.charge ELSE @]
       \/ UNCHANGED stage
    /\ Answer(c)
    /\ UNCHANGED <<mem, account, accounts, sent, clock, issued, losses, history>>

-----------------------------------------------------------------------------
(* process_checkout_commit_bect *)

\* The request names a ticket, or 0 for the latest transaction of the tag.
ExitBegin(c) ==
    /\ c \in Exit
    /\ pc[c] = "idle"
    /\ \/ Goto(c, "cache")
       \/ \E t \in issued : Continue(c, "lookup", [NoFrame EXCEPT !.wanted = t])
    /\ UNCHANGED <<mem, stage, account, accounts, sent, clock, issued, losses, history>>

\* get_by_ticket_id; a miss looks for the latest transaction (again).
ExitLookup(c) ==
    LET t == frame[c].wanted
        e == mem[NodeOf[c]][t]
    IN
    /\ pc[c] = "lookup"
    /\ \/ e.checkin = 0 /\ Goto(c, "cache")
       \/ /\ e.checkin # 0 /\ ExitAdmits(e)
          /\ Continue(c, "load", [frame[c] EXCEPT !.ticket = t, !.etdr = e])
       \/ e.checkin # 0 /\ ~ExitAdmits(e) /\ Answer(c)
    /\ UNCHANGED <<mem, stage, account, accounts, sent, clock, issued, losses, history>>

\* get_by_id: only the reservation is looked at, not whether the row is finished.
ExitLoad(c) ==
    LET t == frame[c].ticket IN
    /\ pc[c] = "load"
    /\ t \in Stored
    /\ closed' = closed \cup {t}
    /\ IF stage[t].account # 0
       THEN Continue(c, "balance", [frame[c] EXCEPT !.charge = stage[t].account])
       ELSE Goto(c, "commitOut")
    /\ UNCHANGED <<mem, stage, account, accounts, sent, clock, issued, losses, accepted, reserved>>

ExitLoadFails(c) ==
    /\ pc[c] = "load"
    /\ Answer(c)
    /\ UNCHANGED <<mem, stage, account, accounts, sent, clock, issued, losses, history>>

\* get_account_transaction_for_commit and allow_commit_or_rollback; a query that
\* fails leaves the reservation as it is.
ExitReadAccount(c) ==
    /\ pc[c] = "balance"
    /\ \/ account[frame[c].charge].updates = 0 /\ Goto(c, "charge")
       \/ Goto(c, "commitOut")
    /\ UNCHANGED <<mem, stage, account, accounts, sent, clock, issued, losses, history>>

\* update_account_transaction_commit_status, by id only, its result ignored.
ExitCharge(c) ==
    /\ pc[c] = "charge"
    /\ \/ account' = [account EXCEPT ![frame[c].charge].updates = @ + 1]
       \/ UNCHANGED account
    /\ Goto(c, "commitOut")
    /\ UNCHANGED <<mem, stage, accounts, sent, clock, issued, losses, history>>

\* update_checkout_commit, its result ignored.
ExitUpdate(c) ==
    /\ pc[c] = "commitOut"
    /\ \/ stage' = [stage EXCEPT ![frame[c].ticket].finished = TRUE]
       \/ UNCHANGED stage
    /\ Goto(c, "clear")
    /\ UNCHANGED <<mem, account, accounts, sent, clock, issued, losses, history>>

\* send_checkout_to_kafka and clear_etdr_after_transaction_complete.
ExitFinish(c) ==
    /\ pc[c] = "clear"
    /\ sent' = sent \cup {<<"CHECKOUT", frame[c].ticket>>}
    /\ SaveEtdr(NodeOf[c], frame[c].ticket, NoEtdr)
    /\ Answer(c)
    /\ UNCHANGED <<stage, account, accounts, clock, issued, losses, history>>

-----------------------------------------------------------------------------
(* The nodes *)

\* An entry leaves the cache: an hour after checkout, three days after check-in,
\* or because the cache is full.
Forget(n, t) ==
    /\ losses < MaxLosses
    /\ losses' = losses + 1
    /\ mem[n][t].checkin # 0
    /\ SaveEtdr(n, t, NoEtdr)
    /\ UNCHANGED <<stage, account, accounts, sent, clock, issued, pc, frame, history>>

\* A node restarts with an empty cache; its calls end without an answer.
Restart(n) ==
    LET lost == {c \in Call : NodeOf[c] = n /\ pc[c] # "idle"} IN
    /\ losses < MaxLosses
    /\ losses' = losses + 1
    /\ mem' = [mem EXCEPT ![n] = [t \in Ticket |-> NoEtdr]]
    /\ pc' = [c \in Call |-> IF c \in lost THEN "done" ELSE pc[c]]
    /\ frame' = [c \in Call |-> IF c \in lost THEN NoFrame ELSE frame[c]]
    /\ UNCHANGED <<stage, account, accounts, sent, clock, issued, history>>

-----------------------------------------------------------------------------
CheckinStep(c) ==
    \/ CheckinRefused(c)     \/ CheckinBuild(c)  \/ CheckinInsert(c)
    \/ CheckinInsertFails(c) \/ CheckinVerify(c) \/ CheckinUnsaved(c)

FindStep(c) == ReadCache(c) \/ ReadStage(c) \/ Merge(c)

CommitStep(c) ==
    \/ CommitNoLane(c)       \/ CommitTouch(c)   \/ CommitRecheck(c)
    \/ CommitRecheckFails(c) \/ CommitUpdate(c)  \/ CommitFinish(c)

ReserveStep(c) ==
    \/ ReserveNoPrice(c)      \/ ReserveMark(c)  \/ ReserveAccount(c)
    \/ ReserveAccountFails(c) \/ ReserveUpdate(c)

ExitStep(c) ==
    \/ ExitBegin(c)       \/ ExitLookup(c) \/ ExitLoad(c)   \/ ExitLoadFails(c)
    \/ ExitReadAccount(c) \/ ExitCharge(c) \/ ExitUpdate(c) \/ ExitFinish(c)

CallStep(c) ==
    CheckinStep(c) \/ FindStep(c) \/ CommitStep(c) \/ ReserveStep(c) \/ ExitStep(c)

Next ==
    \/ \E c \in Call : CallStep(c)
    \/ \E n \in Node, t \in Ticket : Forget(n, t)
    \/ \E n \in Node : Restart(n)

Spec == Init /\ [][Next]_vars

-----------------------------------------------------------------------------
\* Caches, rows and calls hold records of their kind; in particular a row or a call
\* names a reservation within the ids handed out.
TypeOK ==
    /\ mem \in [Node -> [Ticket -> Etdr]]
    /\ stage \in [Ticket -> Stage]
    /\ account \in [1..MaxAccount -> Account]
    /\ accounts \in 0..MaxAccount
    /\ sent \subseteq {"CHECKIN", "CHECKOUT"} \X Ticket
    /\ clock \in Nat
    /\ issued \subseteq Ticket
    /\ pc \in [Call -> PC]
    /\ frame \in [Call -> Frame]
    /\ losses \in 0..MaxLosses
    /\ accepted \subseteq Ticket /\ reserved \subseteq Ticket /\ closed \subseteq Ticket

\* The phases of a trip are passed in order whatever caches, nodes, lost answers
\* and restarts do: checkout reserve admits a ticket only after a check-in commit
\* of that ticket was accepted, checkout commit only after a reserve was.
PhasesInOrder == reserved \subseteq accepted /\ closed \subseteq reserved

\* An account is charged only for a trip that passed all its phases: the
\* reservation that checkout commit completes belongs to the ticket it closes.
ChargesBelongToClosedTrips ==
    \A i \in 1..MaxAccount : account[i].updates > 0 => account[i].ticket \in closed

\* Every CHECKOUT message is about a trip that was closed, every CHECKIN message
\* about one whose commit was accepted.
MessagesFollowPhases ==
    \A t \in Ticket :
        /\ <<"CHECKIN", t>> \in sent => t \in accepted
        /\ <<"CHECKOUT", t>> \in sent => t \in closed

-----------------------------------------------------------------------------
(* The inductive invariant behind the three properties above, in parts.      *)

\* What a record of ticket t says has happened did happen.
Truthful(e, t) ==
    /\ e.checkin # 0 => t \in Ticket
    /\ e.committed => t \in accepted
    /\ e.checkout => t \in reserved
    /\ e.finished => t \in closed

\* A reservation somebody holds for ticket t exists and is one of t.
Reservation(i, t) == i # 0 => i <= accounts /\ account[i].ticket = t

\* What a call at label with locals f relies on.
Sound(label, f) ==
    /\ Truthful(f.etdr, f.ticket)
    /\ Truthful(f.row, f.rowOf)
    /\ Reservation(f.charge, f.ticket)
    /\ label \notin {"reserveOut", "balance", "charge", "commitOut", "clear"} => f.charge = 0
    /\ label \in {"balance", "charge"} => f.charge # 0
    /\ label \in {"insert", "verify", "unsaved", "recheck"} => f.ticket \in Ticket
    /\ label = "lookup" => f.wanted \in Ticket
    /\ label = "price" => f.etdr.committed
    /\ label = "load" => f.etdr.checkout
    /\ label \in {"commitIn", "commitMem"} => f.ticket \in accepted
    /\ label \in {"account", "reserveOut"} => f.ticket \in reserved
    /\ label \in {"balance", "charge", "commitOut", "clear"} => f.ticket \in closed

CachesTruthful == \A n \in Node, t \in Ticket : Truthful(mem[n][t], t)

RowsTruthful == \A t \in Ticket : Truthful(stage[t], t) /\ Reservation(stage[t].account, t)

CallsSound == \A c \in Call : Sound(pc[c], frame[c])

AccountsInOrder == \A i \in 1..MaxAccount : i > accounts => account[i].ticket = 0

IInv ==
    /\ TypeOK
    /\ CachesTruthful /\ RowsTruthful /\ CallsSound /\ AccountsInOrder
    /\ PhasesInOrder /\ ChargesBelongToClosedTrips /\ MessagesFollowPhases
=============================================================================
