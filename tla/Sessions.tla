------------------------------ MODULE Sessions ------------------------------
(***************************************************************************)
(* The life of a client session: the task of a connection                  *)
(* (network/server.rs), the CONNECT and TERMINATE handlers, the session    *)
(* map with its update task and its idle cleanup (network/session.rs), the *)
(* rows of TCOC_SESSIONS, and the retry of failed saves                    *)
(* (cache/data/db_retry.rs).                                               *)
(*                                                                         *)
(* Time is left out: a timer may fire, and a session may count as idle, at *)
(* any moment, so SessionUpdate::UpdateHandshake, which only moves the     *)
(* time of the last message, has no step here.  A row is "open" while its  *)
(* LOGOUT_DATETIME is empty and "out" once it is set.                      *)
(***************************************************************************)
EXTENDS Integers, Sequences, FiniteSets

CONSTANTS
    Conn,                   \* the ids NEXT_CONN_ID hands out
    MaxSid,                 \* bound: the last session id
    Old,                    \* ids of sessions that earlier processes closed
    BUFFER_MAX_SESSIONS, FLUSH_BATCH_SIZE,
    Limits                  \* bounds, one of which holds for a behaviour: how many
                            \* connections, CONNECTs, outages and restarts (of what, and
                            \* whether inserts panic), TERMINATE messages and idle scans there are,
                            \* and whether handshake_timeout_seconds is set

Sid == 1 .. MaxSid

ASSUME SessionsAssumption ==
    /\ MaxSid \in Nat /\ Conn \subseteq Sid /\ Old \subseteq Sid
    /\ BUFFER_MAX_SESSIONS \in Nat \ {0} /\ FLUSH_BATCH_SIZE \in Nat \ {0}
    /\ Limits \subseteq [conns : Nat, connects : 0 .. MaxSid - Cardinality(Old),
                         faults : Nat, kinds : SUBSET {"db", "keydb", "restart", "panic"},
                         removals : Nat, handshake : BOOLEAN]

None == 0
NoSave == [sid |-> None, state |-> "none"]

VARIABLES
    phase,      \* where the task of each connection is
    handler,    \* handle_connect of each connection: step and session
    job,        \* blocking inserts: they go on when their handler is dropped
    timer,      \* the handshake timer of each connection
    signal,     \* connections whose close signal was sent
    seq,        \* TCOC_SESSIONS_SEQ
    row,        \* TCOC_SESSIONS
    map,        \* session_map: the connection of each session
    queue,      \* the channel of session updates
    logouts,    \* sessions with a spawned update_logout_datetime
    idle,       \* idle sessions the cleanup task still has to look at
    key,        \* KeyDB: the saves to retry
    buffer,     \* DbRetryBuffer.sessions
    retry,      \* run_db_retry_task: its step, what it took and tries
    down,       \* which of database and KeyDB cannot be reached
    limit, faults, connects, removals,
    told,       \* history: sessions whose client got a CONNECT_RESP
    dropped,    \* history: sessions whose save was given up
    stale       \* history: sessions that will never be logged out

net == <<phase, timer, signal>>
store == <<key, buffer, retry>>
mishaps == <<limit, faults, down>>
history == <<told, dropped, stale>>
vars == <<net, handler, job, seq, row, map, queue, logouts, idle, store,
          mishaps, connects, removals, history>>

Insert(s, c) == [op |-> "insert", sid |-> s, conn |-> c]
Remove(s) == [op |-> "remove", sid |-> s, conn |-> None]
RemoveByConnId(c) == [op |-> "conn", sid |-> None, conn |-> c]

Save(s, st) == [sid |-> s, state |-> st]
NoHandler == [pc |-> "idle", save |-> NoSave, result |-> "none"]
IdleTask == [pc |-> "tick", taken |-> <<>>, todo |-> {}, got |-> {}, done |-> {}]

Queued(u) == \E i \in DOMAIN queue : queue[i] = u
Send(u) == queue' = Append(queue, u)

\* A call to x, the database or KeyDB, succeeds while x is up and fails while
\* it is down.
Works(x) == x \notin down
Fails(x) == x \in down

\* Session s is still going to be logged out: it is in the map or on its way
\* there, or its logout is.
LogoutToCome(s) ==
    \/ map[s] # None
    \/ s \in logouts
    \/ \E c \in Conn : Queued(Insert(s, c))
    \/ \E c \in Conn : handler[c].pc # "idle" /\ handler[c].save = Save(s, "open")

Init ==
    /\ phase = [c \in Conn |-> "new"]
    /\ handler = [c \in Conn |-> NoHandler]
    /\ job = [c \in Conn |-> NoSave]
    /\ timer = [c \in Conn |-> "off"]
    /\ signal = {}
    /\ seq = Cardinality(Old)
    /\ row = [s \in Sid |-> IF s \in Old THEN "out" ELSE "none"]
    /\ map = [s \in Sid |-> None]
    /\ queue = <<>>
    /\ logouts = {}
    /\ idle = {}
    /\ key = [s \in Sid |-> "none"]
    /\ buffer = <<>>
    /\ retry = IdleTask
    /\ limit \in Limits /\ faults = 0 /\ connects = 0 /\ removals = 0
    /\ down = {}
    /\ told = {} /\ dropped = {} /\ stale = {}

----------------------------------------------------------------------------
(* The connection's task *)

\* A connection is accepted; connection ids count up from 1.
Accept(c) ==
    /\ phase[c] = "new" /\ \A d \in Conn : d < c => phase[d] # "new"
    /\ Cardinality({d \in Conn : phase[d] # "new"}) < limit.conns
    /\ phase' = [phase EXCEPT ![c] = "open"]
    /\ timer' = [timer EXCEPT ![c] = IF limit.handshake THEN "armed" ELSE "off"]
    /\ UNCHANGED <<handler, job, signal, seq, row, map, queue, logouts, idle,
                   store, mishaps, connects, removals, history>>

\* handle_connection returns between two messages; an armed timer is aborted.
Close(c) ==
    /\ phase[c] = "open" /\ handler[c].pc = "idle"
    /\ phase' = [phase EXCEPT ![c] = "ended"]
    /\ timer' = [timer EXCEPT ![c] = IF @ = "armed" THEN "off" ELSE @]
    /\ UNCHANGED <<handler, job, signal, seq, row, map, queue, logouts, idle,
                   store, mishaps, connects, removals, history>>

\* The close signal wins the select!: the handler is dropped where it is; an
\* insert it started goes on.
Cancel(c) ==
    /\ phase[c] = "open" /\ c \in signal
    /\ phase' = [phase EXCEPT ![c] = "ended"]
    /\ handler' = [handler EXCEPT ![c] = NoHandler]
    /\ stale' = stale \cup {s \in Sid : handler[c].pc \in {"insert", "result", "register"}
                                        /\ handler[c].save = Save(s, "open")}
    /\ UNCHANGED <<timer, signal, job, seq, row, map, queue, logouts, idle,
                   store, mishaps, connects, removals, told, dropped>>

\* Mutant: the sessions of a connection that the timer closed are left to the
\* timer's own RemoveByConnId.
CleanupSessionOnce(c) ==
    /\ phase[c] = "ended"
    /\ phase' = [phase EXCEPT ![c] = "cleanup"]
    /\ signal' = signal \ {c}
    /\ IF c \in signal THEN UNCHANGED queue ELSE Send(RemoveByConnId(c))
    /\ UNCHANGED <<timer, handler, job, seq, row, map, logouts, idle, store,
                   mishaps, connects, removals, history>>

\* The sessions of the connection are removed whatever ended it ...
CleanupSession(c) ==
    /\ phase[c] = "ended"
    /\ phase' = [phase EXCEPT ![c] = "cleanup"]
    /\ signal' = signal \ {c}
    /\ Send(RemoveByConnId(c))
    /\ UNCHANGED <<timer, handler, job, seq, row, map, logouts, idle, store,
                   mishaps, connects, connects, removals, history>>

\* ... and then the connection leaves active_conns.
CleanupConn(c) ==
    /\ phase[c] = "cleanup"
    /\ phase' = [phase EXCEPT ![c] = "gone"]
    /\ UNCHANGED <<timer, signal, handler, job, seq, row, map, queue, logouts,
                   idle, store, mishaps, connects, removals, history>>

\* The handshake timer looks for a session of the connection ...
HandshakeTimer(c) ==
    /\ timer[c] = "armed"
    /\ timer' = [timer EXCEPT ![c] = IF \E s \in Sid : map[s] = c THEN "off" ELSE "late"]
    /\ UNCHANGED <<phase, signal, handler, job, seq, row, map, queue, logouts,
                   idle, store, mishaps, connects, removals, history>>

\* ... and without one closes the connection, if it is not closed already,
\* and removes its sessions.
HandshakeLate(c) ==
    /\ timer[c] = "late"
    /\ timer' = [timer EXCEPT ![c] = "off"]
    /\ signal' = IF phase[c] \in {"open", "ended"} THEN signal \cup {c} ELSE signal
    /\ Send(RemoveByConnId(c))
    /\ UNCHANGED <<phase, handler, job, seq, row, map, logouts, idle, store,
                   mishaps, connects, connects, removals, history>>

----------------------------------------------------------------------------
(* handle_connect *)

\* The session id is the sequence's next value, or the connection id when the
\* sequence fails.
NextSid(c, s) ==
    \/ /\ s = seq + 1
       /\ seq' = seq + 1 /\ Works("db")
    \/ /\ s = c
       /\ Fails("db") /\ UNCHANGED seq

\* The user is accepted, or refused because it is not active, its password is
\* wrong, it is unknown or cannot be looked up: a refused session is saved with
\* its logout already set.
Decision == {"open", "out"}

\* handle_connect up to the insert it hands to a blocking thread.
ConnectStart(c) ==
    /\ phase[c] = "open" /\ handler[c].pc = "idle" /\ job[c] = NoSave
    /\ connects < limit.connects /\ connects' = connects + 1
    /\ \E s \in Sid, st \in Decision :
          /\ NextSid(c, s)
          /\ handler' = [handler EXCEPT ![c] =
                            [pc |-> "insert", save |-> Save(s, st), result |-> "none"]]
          /\ job' = [job EXCEPT ![c] = Save(s, st)]
    /\ UNCHANGED <<net, row, map, queue, logouts, idle, store, mishaps, removals, history>>

\* The insert runs on a blocking thread: stored, refused as a duplicate, failed
\* or ended by a panic, in which cases the row may have been stored all the same.
DbInsert(c) ==
    /\ job[c] # NoSave
    /\ job' = [job EXCEPT ![c] = NoSave]
    /\ \E result \in {"ok", "duplicate", "error", "panic"}, stored \in BOOLEAN :
          LET s == job[c].sid IN
          /\ \/ result = "ok" /\ row[s] = "none" /\ stored /\ Works("db")
             \/ result = "duplicate" /\ row[s] # "none" /\ ~stored /\ Works("db")
             \/ result = "error" /\ (stored => row[s] = "none") /\ Fails("db")
             \/ result = "panic" /\ (stored => row[s] = "none") /\ "panic" \in limit.kinds
          /\ row' = IF stored THEN [row EXCEPT ![s] = job[c].state] ELSE row
          /\ handler' = IF handler[c].pc = "insert"
                        THEN [handler EXCEPT ![c].pc = "result", ![c].result = result]
                        ELSE handler
    /\ UNCHANGED <<net, seq, map, queue, logouts, idle, store, mishaps, connects, removals, history>>

\* enqueue_tcoc_session: the save goes to KeyDB, or when KeyDB fails to the
\* buffer, which gives up its oldest entry when it is full.
Enqueue(v) ==
    \/ /\ key' = [key EXCEPT ![v.sid] = v.state]
       /\ Works("keydb") /\ UNCHANGED <<buffer, dropped>>
    \/ LET full == Len(buffer) >= BUFFER_MAX_SESSIONS
       IN  /\ buffer' = Append(IF full THEN Tail(buffer) ELSE buffer, v)
           /\ dropped' = IF full THEN dropped \cup {Head(buffer).sid} ELSE dropped
           /\ Fails("keydb") /\ UNCHANGED key

\* The rest of save: a stored or an already existing session is a success, a
\* failure is queued for the retry task, and an insert that panicked is given up;
\* the handler goes on in every case.
SaveResult(c) ==
    /\ handler[c].pc = "result"
    /\ handler' = [handler EXCEPT ![c].pc = "register"]
    /\ \/ /\ handler[c].result = "error"
          /\ Enqueue(handler[c].save)
       \/ /\ handler[c].result = "panic"
          /\ dropped' = dropped \cup {handler[c].save.sid}
          /\ UNCHANGED <<key, buffer>>
       \/ /\ handler[c].result \notin {"error", "panic"}
          /\ UNCHANGED <<key, buffer, dropped>>
    /\ UNCHANGED <<net, job, seq, row, map, queue, logouts, idle, retry,
                   mishaps, connects, removals, told, stale>>

\* An accepted session is announced to the map and answered; a refused one is
\* only answered.
Register(c) ==
    /\ handler[c].pc = "register"
    /\ handler' = [handler EXCEPT ![c] = NoHandler]
    /\ LET v == handler[c].save IN
          IF v.state = "open" THEN /\ Send(Insert(v.sid, c))
                                   /\ told' = told \cup {v.sid}
                              ELSE UNCHANGED <<queue, told>>
    /\ UNCHANGED <<net, job, seq, row, map, logouts, idle, store, mishaps, connects,
                   removals, dropped, stale>>

\* handle_terminate removes the session the message names.
Terminate(c) ==
    /\ phase[c] = "open" /\ handler[c].pc = "idle"
    /\ removals < limit.removals /\ removals' = removals + 1
    /\ \E s \in Sid : Send(Remove(s))
    /\ UNCHANGED <<net, handler, job, seq, row, map, logouts, idle, store,
                   mishaps, connects, history>>

----------------------------------------------------------------------------
(* The session map *)

\* The sessions an update removes from the map, and those it logs out.
Removed(u) ==
    IF u.op = "remove" THEN {u.sid}
    ELSE IF u.op = "conn" THEN {s \in Sid : map[s] = u.conn}
    ELSE {}

\* Mutant: closing a connection empties the map without logging out.
ProcessQuiet ==
    /\ queue # <<>>
    /\ queue' = Tail(queue)
    /\ LET u == Head(queue) IN
          /\ map' = [s \in Sid |->
                        IF s \in Removed(u) THEN None
                        ELSE IF u.op = "insert" /\ s = u.sid THEN u.conn
                        ELSE map[s]]
          /\ logouts' = IF u.op = "conn" THEN logouts ELSE logouts \cup Removed(u)
    /\ UNCHANGED <<net, handler, job, seq, row, idle, store, mishaps, connects, removals,
                   history>>

\* spawn_session_update_processor applies the updates in the order of the
\* channel; the logouts run in tasks of their own.
Process ==
    /\ queue # <<>>
    /\ queue' = Tail(queue)
    /\ LET u == Head(queue) IN
          /\ map' = [s \in Sid |->
                        IF s \in Removed(u) THEN None
                        ELSE IF u.op = "insert" /\ s = u.sid THEN u.conn
                        ELSE map[s]]
          /\ logouts' = logouts \cup Removed(u)
    /\ UNCHANGED <<net, handler, job, seq, row, idle, store, mishaps, connects, removals,
                   history>>

\* update_logout_datetime: an UPDATE that finds no row is a success too, and
\* a failure is only logged.
Logout(s) ==
    /\ s \in logouts
    /\ logouts' = logouts \ {s}
    /\ \/ /\ row' = IF row[s] = "none" THEN row ELSE [row EXCEPT ![s] = "out"]
          /\ Works("db") /\ UNCHANGED stale
       \/ /\ stale' = stale \cup {s}
          /\ Fails("db") /\ UNCHANGED row
    /\ UNCHANGED <<net, handler, job, seq, map, queue, idle, store, mishaps, connects, removals,
                   told, dropped>>

\* spawn_session_idle_cleanup notes the idle sessions, and then removes those
\* whose connection is no longer active.
IdleScan ==
    /\ idle = {}
    /\ removals < limit.removals /\ removals' = removals + 1
    /\ idle' = {<<s, map[s]>> : s \in {t \in Sid : map[t] # None}}
    /\ idle' # {}
    /\ UNCHANGED <<net, handler, job, seq, row, map, queue, logouts, store,
                   mishaps, connects, history>>

IdleCheck ==
    /\ \E e \in idle :
          /\ idle' = idle \ {e}
          /\ IF phase[e[2]] \in {"new", "gone"} THEN Send(Remove(e[1])) ELSE UNCHANGED queue
    /\ UNCHANGED <<net, handler, job, seq, row, map, logouts, store, mishaps, connects,
                   removals, history>>

----------------------------------------------------------------------------
(* run_db_retry_task *)

\* Mutant: a tick looks at the keys only.
RetryTickKeys ==
    /\ retry.pc = "tick"
    /\ buffer # <<>> \/ \E s \in Sid : key[s] # "none"
    /\ retry' = [IdleTask EXCEPT !.pc = "scan"]
    /\ UNCHANGED <<net, handler, job, seq, row, map, queue, logouts, idle, key,
                   buffer, mishaps, connects, removals, history>>

\* A tick: with KeyDB connected the whole buffer is taken to be flushed.
RetryTick ==
    /\ retry.pc = "tick"
    /\ buffer # <<>> \/ \E s \in Sid : key[s] # "none"
    /\ \/ /\ retry' = [IdleTask EXCEPT !.pc = "flush", !.taken = buffer]
          /\ buffer' = <<>> /\ Works("keydb")
       \/ /\ retry' = [IdleTask EXCEPT !.pc = "scan"]
          /\ Fails("keydb") /\ UNCHANGED buffer
    /\ UNCHANGED <<net, handler, job, seq, row, map, queue, logouts, idle, key,
                   mishaps, connects, connects, removals, history>>

Chunk == SubSeq(retry.taken, 1, IF Len(retry.taken) < FLUSH_BATCH_SIZE
                                THEN Len(retry.taken) ELSE FLUSH_BATCH_SIZE)

\* Mutant: a chunk that cannot be written is forgotten.
FlushForgets ==
    /\ retry.pc = "flush" /\ retry.taken # <<>>
    /\ retry' = [retry EXCEPT !.taken = SubSeq(@, Len(Chunk) + 1, Len(@))]
    /\ key' = [s \in Sid |->
                  IF Works("keydb") /\ \E i \in DOMAIN Chunk : Chunk[i].sid = s
                  THEN Chunk[CHOOSE i \in DOMAIN Chunk : Chunk[i].sid = s].state
                  ELSE key[s]]
    /\ UNCHANGED <<net, handler, job, seq, row, map, queue, logouts, idle, buffer,
                   mishaps, connects, removals, history>>

\* A chunk that cannot be written goes back to the buffer as far as it fits.
Flush ==
    /\ retry.pc = "flush" /\ retry.taken # <<>>
    /\ retry' = [retry EXCEPT !.taken = SubSeq(@, Len(Chunk) + 1, Len(@))]
    /\ \/ /\ key' = [s \in Sid |->
                        IF \E i \in DOMAIN Chunk : Chunk[i].sid = s
                        THEN Chunk[CHOOSE i \in DOMAIN Chunk :
                                /\ Chunk[i].sid = s
                                /\ \A j \in DOMAIN Chunk : Chunk[j].sid = s => j <= i].state
                        ELSE key[s]]
          /\ Works("keydb") /\ UNCHANGED <<buffer, dropped>>
       \/ LET room == BUFFER_MAX_SESSIONS - Len(buffer)
              back == IF room < Len(Chunk) THEN room ELSE Len(Chunk)
          IN  /\ buffer' = buffer \o SubSeq(Chunk, 1, back)
              /\ dropped' = dropped \cup {Chunk[i].sid : i \in back + 1 .. Len(Chunk)}
              /\ Fails("keydb") /\ UNCHANGED key
    /\ UNCHANGED <<net, handler, job, seq, row, map, queue, logouts, idle,
                   mishaps, connects, removals, told, stale>>

Flushed ==
    /\ retry.pc = "flush" /\ retry.taken = <<>>
    /\ retry' = [retry EXCEPT !.pc = "scan"]
    /\ UNCHANGED <<net, handler, job, seq, row, map, queue, logouts, idle, key,
                   buffer, mishaps, connects, removals, history>>

\* The keys of the cycle; without KeyDB, or without a pool, the cycle ends.
Scan ==
    /\ retry.pc = "scan"
    /\ \/ /\ retry' = [retry EXCEPT !.pc = "keys", !.todo = {s \in Sid : key[s] # "none"}]
          /\ Works("keydb")
       \/ retry' = IdleTask /\ (Fails("keydb") \/ Fails("db"))
    /\ UNCHANGED <<net, handler, job, seq, row, map, queue, logouts, idle, key,
                   buffer, mishaps, connects, removals, history>>

\* The task of one key reads the save ...
RetryGet(s) ==
    /\ retry.pc = "keys" /\ s \in retry.todo
    /\ \/ /\ key[s] # "none" /\ Works("keydb")
          /\ retry' = [retry EXCEPT !.todo = @ \ {s}, !.got = @ \cup {Save(s, key[s])}]
       \/ /\ key[s] = "none" \/ Fails("keydb")
          /\ retry' = [retry EXCEPT !.todo = @ \ {s}]
    /\ UNCHANGED <<net, handler, job, seq, row, map, queue, logouts, idle, key,
                   buffer, mishaps, connects, removals, history>>

\* ... and inserts the session as it was saved; a failure of any kind, also one
\* that stored the row all the same, leaves the key for the next cycle.
RetryInsert(v) ==
    /\ retry.pc = "keys" /\ v \in retry.got
    /\ \/ /\ row[v.sid] = "none"
          /\ row' = [row EXCEPT ![v.sid] = v.state]
          /\ retry' = [retry EXCEPT !.got = @ \ {v},
                                    !.done = IF Works("db") THEN @ \cup {v.sid} ELSE @]
          /\ stale' = IF v.state = "open" /\ ~LogoutToCome(v.sid) THEN stale \cup {v.sid}
                      ELSE stale
       \/ /\ row[v.sid] # "none" \/ Fails("db")
          /\ retry' = [retry EXCEPT !.got = @ \ {v}]
          /\ UNCHANGED <<row, stale>>
    /\ UNCHANGED <<net, handler, job, seq, map, queue, logouts, idle, key,
                   buffer, mishaps, connects, removals, told, dropped>>

\* The key of a stored session is removed; a failure is ignored.
RetryRemove(s) ==
    /\ retry.pc = "keys" /\ s \in retry.done
    /\ retry' = [retry EXCEPT !.done = @ \ {s}]
    /\ \/ key' = [key EXCEPT ![s] = "none"] /\ Works("keydb")
       \/ UNCHANGED key /\ Fails("keydb")
    /\ UNCHANGED <<net, handler, job, seq, row, map, queue, logouts, idle,
                   buffer, mishaps, connects, removals, history>>

RetryDone ==
    /\ retry.pc = "keys" /\ retry.todo = {} /\ retry.got = {} /\ retry.done = {}
    /\ retry' = IdleTask
    /\ UNCHANGED <<net, handler, job, seq, row, map, queue, logouts, idle, key,
                   buffer, mishaps, connects, removals, history>>

----------------------------------------------------------------------------

\* The process is restarted: only the database and KeyDB remain, and
\* connection ids start again at 1.
Restart ==
    /\ "restart" \in limit.kinds
    /\ faults < limit.faults /\ faults' = faults + 1
    /\ phase' = [c \in Conn |-> "new"]
    /\ handler' = [c \in Conn |-> NoHandler]
    /\ job' = [c \in Conn |-> NoSave]
    /\ timer' = [c \in Conn |-> "off"]
    /\ signal' = {} /\ queue' = <<>> /\ logouts' = {} /\ idle' = {}
    /\ map' = [s \in Sid |-> None]
    /\ buffer' = <<>> /\ retry' = IdleTask
    /\ stale' = stale \cup {s \in Sid : row[s] = "open"}
    /\ dropped' = dropped \cup {buffer[i].sid : i \in DOMAIN buffer}
                          \cup {retry.taken[i].sid : i \in DOMAIN retry.taken}
    /\ UNCHANGED <<seq, row, key, limit, down, connects, removals, told>>

\* The database or KeyDB can no longer be reached, and comes back.
Outage ==
    /\ faults < limit.faults /\ faults' = faults + 1
    /\ \E x \in ({"db", "keydb"} \cap limit.kinds) \ down : down' = down \cup {x}
    /\ UNCHANGED <<net, handler, job, seq, row, map, queue, logouts, idle, store,
                   limit, connects, removals, history>>

Recovery ==
    /\ \E x \in down : down' = down \ {x}
    /\ UNCHANGED <<net, handler, job, seq, row, map, queue, logouts, idle, store,
                   limit, faults, connects, removals, history>>

ConnStep(c) == CleanupSession(c) \/ CleanupConn(c) \/ HandshakeLate(c) \/ Cancel(c)
ConnectStep(c) == DbInsert(c) \/ SaveResult(c) \/ Register(c)
RetryTask == RetryTick \/ Flush \/ Flushed \/ Scan \/ RetryDone
                \/ (\E s \in Sid : RetryGet(s) \/ RetryRemove(s))
                \/ (\E v \in retry.got : RetryInsert(v))

Next ==
    \/ \E c \in Conn : \/ Accept(c) \/ Close(c) \/ HandshakeTimer(c) \/ ConnStep(c)
                       \/ ConnectStart(c) \/ ConnectStep(c) \/ Terminate(c)
    \/ Process \/ IdleScan \/ IdleCheck
    \/ \E s \in Sid : Logout(s)
    \/ RetryTask
    \/ Restart \/ Outage \/ Recovery

Spec == Init /\ [][Next]_vars

\* Tasks that are not waiting for a client or a timer go on, the retry task
\* ticks for ever, and an outage ends.
FairSpec ==
    /\ Spec
    /\ \A c \in Conn : WF_vars(ConnStep(c) \/ ConnectStep(c))
    /\ WF_vars(Process)
    /\ WF_vars(RetryTask)
    /\ WF_vars(Recovery)

----------------------------------------------------------------------------

\* A session of a connection whose task has ended stays in the map only while
\* a RemoveByConnId of that connection is in the channel: no order of CONNECT,
\* handshake timer and closing puts a session back after the last removal
\* (network/server.rs, network/session.rs).
MapFollowsConnections ==
    \A s \in Sid : map[s] # None =>
        \/ phase[map[s]] \in {"open", "ended"}
        \/ Queued(RemoveByConnId(map[s]))

\* Session s has its row, or its save waits in KeyDB, in the buffer or with the
\* retry task.
Kept(s) ==
    \/ row[s] # "none"
    \/ key[s] # "none"
    \/ \E i \in DOMAIN buffer : buffer[i].sid = s
    \/ \E i \in DOMAIN retry.taken : retry.taken[i].sid = s

\* A session whose client was told that CONNECT succeeded has its row, or its
\* save waits in KeyDB, in the buffer or with the retry task, unless the buffer
\* was full, the insert panicked or the process restarted (TcocSessionService::save, db_retry.rs).
SavesKept == \A s \in told \ dropped : Kept(s)

\* A row without a logout belongs to a session that is going to be logged
\* out, save for four reasons: the handler was dropped between its insert and
\* its registration, the logout UPDATE failed, the retry stored the session
\* after it had ended, or the process restarted.
OpenRowsHaveAnEnd ==
    \A s \in Sid : row[s] = "open" => LogoutToCome(s) \/ s \in stale

\* Liveness: a session answered with success is stored in the end, unless its
\* save was given up, and the map forgets the sessions of closed connections.
EventuallySettled ==
    <>[](/\ \A s \in told \ dropped : row[s] # "none"
         /\ \A s \in Sid : map[s] # None => phase[map[s]] = "open")

----------------------------------------------------------------------------
(* The inductive invariant of the proofs *)

Saved == [sid : Sid, state : Decision]
Update == {Insert(s, c) : s \in Sid, c \in Conn} \cup {Remove(s) : s \in Sid}
            \cup {RemoveByConnId(c) : c \in Conn}

TypeOK ==
    /\ phase \in [Conn -> {"new", "open", "ended", "cleanup", "gone"}]
    /\ handler \in [Conn -> [pc : {"idle", "insert", "result", "register"},
                             save : Saved \cup {NoSave},
                             result : {"none", "ok", "duplicate", "error", "panic"}]]
    /\ job \in [Conn -> Saved \cup {NoSave}]
    /\ row \in [Sid -> {"none", "open", "out"}] /\ key \in [Sid -> {"none", "open", "out"}]
    /\ map \in [Sid -> Conn \cup {None}]
    /\ queue \in Seq(Update)
    /\ buffer \in Seq(Saved) /\ Len(buffer) <= BUFFER_MAX_SESSIONS
    /\ retry \in [pc : {"tick", "flush", "scan", "keys"}, taken : Seq(Saved),
                  todo : SUBSET Sid, got : SUBSET Saved, done : SUBSET Sid]
    /\ told \subseteq Sid /\ idle \subseteq Sid \X Conn

\* A handler runs while its connection is open.  Its insert is under way, or ended
\* with a row or an error; an error was queued before the session is registered.  An
\* insert without its handler is of a session that counts as stale.
HandlerSound(c) ==
    LET h == handler[c]
    IN  /\ h.pc # "idle" => phase[c] = "open" /\ h.save \in Saved
        /\ h.pc = "insert" => job[c] = h.save
        /\ h.pc = "result" /\ h.result \notin {"error", "panic"} => row[h.save.sid] # "none"
        /\ h.pc = "register" => Kept(h.save.sid) \/ h.save.sid \in dropped
        /\ job[c] # NoSave => h.pc = "insert" \/ (job[c].state = "open" => job[c].sid \in stale)

\* An insertion in the channel of a connection that has ended is followed by a removal.
QueueSound ==
    \A i \in DOMAIN queue : queue[i].op = "insert" =>
        \/ phase[queue[i].conn] \in {"open", "ended"}
        \/ \E j \in DOMAIN queue : i < j /\ queue[j] = RemoveByConnId(queue[i].conn)

\* Only a flush has taken entries, and a key that is removed has its row.
RetrySound ==
    /\ retry.pc # "flush" => retry.taken = <<>>
    /\ \A s \in retry.done : row[s] # "none"

IInv ==
    /\ TypeOK
    /\ \A c \in Conn : HandlerSound(c)
    /\ QueueSound /\ MapFollowsConnections
    /\ RetrySound /\ SavesKept
    /\ OpenRowsHaveAnEnd
=============================================================================
