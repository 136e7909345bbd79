------------------------------ MODULE Network ------------------------------
(***************************************************************************)
(* Frames and replies of client connections: the accept loop with its IP   *)
(* blocking (network/server.rs, services/ip_block_service.rs), the task of *)
(* a connection (network/connection.rs), process_request with its audit    *)
(* rows (handlers/processor.rs), the reply channels and the router         *)
(* (logic/handler.rs, network/router.rs).                                  *)
(*                                                                         *)
(* Frame number n is the n-th a client sent; a pong, a reply and an error  *)
(* are named by the frame they answer.  Bytes are left out: a read gives   *)
(* whole frames, and a part of a frame is a frame not read yet.  What the  *)
(* handlers of the commands do is the matter of other modules; here they   *)
(* end with a reply or an error.                                           *)
(***************************************************************************)
EXTENDS Integers, Sequences, FiniteSets, SequencesExt

CONSTANTS
    Conn,               \* connection ids, handed out from 1
    RequestId,          \* the request ids clients use, again for a retry
    CHANNEL,            \* frames the write channel of a connection holds
    reply_in_flight_limit, reply_send_max_concurrent,
    MAX_CONSECUTIVE_ERRORS, MAX_CLOSED_CONN_IDS,
    ip_block_failure_threshold, ip_block_duration,
    Limits              \* bounds, one of which holds for a behaviour: how many
                        \* connections, frames, of which kinds, failing calls
                        \* and read timeouts there are

\* "business" stands for CHECKIN, COMMIT and ROLLBACK, whose request row gets
\* its tolls afterwards; "query" for SHAKE and the commands of other back ends;
\* "refused" for a request that is too short or names a foreign toll, "misconnect"
\* for a CONNECT of that kind.
Commands == {"connect", "query", "business", "terminate", "refused", "misconnect", "unknown"}
\* "length" is a byte where no length begins, "short" a message of less than 8
\* bytes.
Kinds == Commands \cup {"ping", "length", "undecryptable", "short"}

ASSUME NetworkAssumption ==
    /\ Conn \subseteq Nat \ {0} /\ IsFiniteSet(Conn)
    /\ CHANNEL \in Nat \ {0} /\ reply_in_flight_limit \in Nat \ {0}
    /\ reply_send_max_concurrent \in Nat \ {0} /\ MAX_CONSECUTIVE_ERRORS \in Nat \ {0}
    /\ MAX_CLOSED_CONN_IDS \in Nat /\ ip_block_failure_threshold \in Nat \ {0}
    /\ ip_block_duration \in Nat \ {0}
    /\ Limits \subseteq [conns : Nat, frames : Nat, kinds : SUBSET Kinds,
                         faults : Nat, timeouts : Nat]

VARIABLES
    phase,      \* of a connection: new, preauth, main, closing, closed
    at,         \* step of its task and the frame it is about
    failed,     \* connections that ended in failure
    frame,      \* the frames sent so far
    socket,     \* sent and not read
    buf,        \* read and not processed
    pending,    \* pending_command of each connection
    errors,     \* consecutive_errors
    keyed,      \* connections whose key is in encryption_keys
    session,    \* connections that have a session
    active,     \* active_conns
    out,        \* the write channel of each connection
    terms,      \* spawned send_terminate_resp_on_close
    requests, replies,          \* the two reply channels
    closing, closed, sending,   \* router: closed ids told, known, sends spawned
    row,        \* TCOC_REQUEST: the rows, whether their save told their id, and
                \* whose tolls they hold
    answered,   \* TCOC_RESPONSE: the frames that have a row
    post,       \* spawned writes of tolls and responses
    fails, until, recording,    \* IP block: counter, time left, spawned failures
    removing,   \* the accept loop is about to remove an expired block
    limit, faults, timeouts,
    wire,       \* history: what was written to each client
    made,       \* history: frames that were answered with a reply
    dropped,    \* history: replies the router gave up, and why
    overlap,    \* history: pairs of replies that were being sent at one time
    blocks, failures            \* history: blocks written, failed connections

task == <<phase, at, failed, pending, errors, keyed, session>>
input == <<frame, socket, buf>>
router == <<requests, replies, closing, closed, sending>>
audit == <<row, answered, post>>
ip == <<fails, until, recording, removing, blocks, failures>>
bounds == <<limit, faults, timeouts>>
history == <<wire, made, dropped, overlap>>
vars == <<task, input, active, out, terms, router, audit, ip, bounds, history>>

None == "none"
NoRow == 0
NoKey == -1         \* no block in KeyDB; one with no time left has expired
Open(c) == phase[c] \in {"preauth", "main"}
At(pc, n) == [pc |-> pc, n |-> n]
Item(what, n) == [what |-> what, n |-> n]
Owner(n) == frame[n].conn
Kind(n) == frame[n].kind
Frames == DOMAIN frame
\* The write channel has room; the frame that is being written has left it.
InHand(c) == IF at[c].pc = "writing" THEN 1 ELSE 0
Room(c) == Len(out[c]) < CHANNEL + InHand(c)
Permits == Cardinality({c \in Conn : at[c].pc \in {"save", "handle", "give", "error"}})

Init ==
    /\ phase = [c \in Conn |-> "new"]
    /\ at = [c \in Conn |-> At("start", 0)]
    /\ failed = {} /\ keyed = {} /\ session = {} /\ active = {}
    /\ frame = <<>>
    /\ socket = [c \in Conn |-> <<>>] /\ buf = [c \in Conn |-> <<>>]
    /\ pending = [c \in Conn |-> None]
    /\ errors = [c \in Conn |-> 0]
    /\ out = [c \in Conn |-> <<>>] /\ terms = {}
    /\ requests = <<>> /\ replies = <<>> /\ closing = <<>> /\ closed = {} /\ sending = {}
    /\ row = <<>> /\ answered = {} /\ post = {}
    /\ fails = 0 /\ until = NoKey /\ recording = 0 /\ removing = FALSE
    /\ blocks = 0 /\ failures = 0
    /\ limit \in Limits /\ faults = 0 /\ timeouts = 0
    /\ wire = [c \in Conn |-> <<>>]
    /\ made = {} /\ dropped = {} /\ overlap = {}

\* One more failing call, or one more read timeout, is within the bounds.
Fault == faults < limit.faults /\ faults' = faults + 1 /\ UNCHANGED <<limit, timeouts>>
Timeout == timeouts < limit.timeouts /\ timeouts' = timeouts + 1 /\ UNCHANGED <<limit, faults>>

Goto(c, pc, n) == at' = [at EXCEPT ![c] = At(pc, n)]

\* handle_connection returns or is dropped: the key is removed with it.
End(c, bad) ==
    /\ phase' = [phase EXCEPT ![c] = "closing"]
    /\ at' = [at EXCEPT ![c] = At("active", 0)]
    /\ failed' = IF bad THEN failed \cup {c} ELSE failed
    /\ keyed' = keyed \ {c}

----------------------------------------------------------------------------
(* The client, the accept loop and the block of an address *)

SendFrame(c) ==
    /\ Open(c) /\ Len(frame) < limit.frames
    /\ \E k \in limit.kinds, r \in RequestId :
          frame' = Append(frame, [kind |-> k, conn |-> c, rid |-> r])
    /\ socket' = [socket EXCEPT ![c] = Append(@, Len(frame) + 1)]
    /\ UNCHANGED <<task, buf, active, out, terms, router, audit, ip, bounds, history>>

\* The accept loop takes the connections in turn.
Arrives(c) ==
    /\ phase[c] = "new"
    /\ \A d \in Conn : d < c => phase[d] # "new"
    /\ Cardinality({d \in Conn : phase[d] # "new"}) < limit.conns

\* is_blocked: a connection from a blocked address is refused and starts the
\* time of the block again.
Refuse ==
    /\ until > 0 /\ until < ip_block_duration /\ ~removing
    /\ \E c \in Conn : phase[c] = "new"
    /\ until' = ip_block_duration
    /\ UNCHANGED <<task, input, active, out, terms, router, audit, fails, recording,
                   removing, blocks, failures, bounds, history>>

\* is_blocked reads a block that has expired.
FindExpired ==
    /\ until = 0 /\ ~removing
    /\ \E c \in Conn : Arrives(c)
    /\ removing' = TRUE
    /\ UNCHANGED <<task, input, active, out, terms, router, audit, fails, until,
                   recording, blocks, failures, bounds, history>>

\* is_blocked lets a connection pass: there is no block, or KeyDB does not answer,
\* or the expired one, or what was written in its place meanwhile, is removed.
Passes ==
    \/ ~removing /\ until = NoKey /\ UNCHANGED <<until, removing, bounds>>
    \/ ~removing /\ until # NoKey /\ Fault /\ UNCHANGED <<until, removing>>
    \/ removing /\ removing' = FALSE /\ until' = NoKey /\ UNCHANGED bounds

\* Mutant: the accept loop does not put the connection into active_conns.
AcceptUnlisted(c) ==
    /\ Arrives(c) /\ Passes
    /\ phase' = [phase EXCEPT ![c] = "preauth"]
    /\ UNCHANGED active
    /\ UNCHANGED <<at, failed, pending, errors, keyed, session, input, out, terms,
                   router, audit, fails, recording, blocks, failures, history>>

Accept(c) ==
    /\ Arrives(c) /\ Passes
    /\ phase' = [phase EXCEPT ![c] = "preauth"]
    /\ active' = active \cup {c}
    /\ UNCHANGED <<at, failed, pending, errors, keyed, session, input, out, terms,
                   router, audit, fails, recording, blocks, failures, history>>

\* The closing task: the connection leaves active_conns, then the router is told
\* and the end is counted for the address.
LeaveActive(c) ==
    /\ at[c].pc = "active"
    /\ Goto(c, "tell", 0)
    /\ active' = active \ {c}
    /\ UNCHANGED <<phase, failed, pending, errors, keyed, session, input, out, terms,
                   router, audit, ip, bounds, history>>

TellRouter(c) ==
    /\ at[c].pc = "tell"
    /\ Goto(c, "done", 0)
    /\ phase' = [phase EXCEPT ![c] = "closed"]
    /\ closing' = Append(closing, c)
    /\ IF c \in failed THEN /\ recording' = recording + 1
                            /\ failures' = failures + 1
                            /\ UNCHANGED fails
                       ELSE /\ fails' = 0
                            /\ UNCHANGED <<recording, failures>>
    /\ UNCHANGED <<failed, pending, errors, keyed, session, input, active, out, terms,
                   requests, replies, closed, sending, audit, until, removing, blocks,
                   bounds, history>>

\* Mutant: the counter is not removed when the address is blocked.
RecordFailureKeeps ==
    /\ recording > 0
    /\ recording' = recording - 1
    /\ IF fails + 1 >= ip_block_failure_threshold
       THEN fails' = fails + 1 /\ until' = ip_block_duration /\ blocks' = blocks + 1
       ELSE fails' = fails + 1 /\ UNCHANGED <<until, blocks>>
    /\ UNCHANGED <<task, input, active, out, terms, router, audit, removing, failures,
                   bounds, history>>

\* record_failure: the counter starts again when it reaches the threshold, and
\* the block is written to KeyDB, which may fail.
RecordFailure ==
    /\ recording > 0
    /\ recording' = recording - 1
    /\ \/ /\ fails + 1 >= ip_block_failure_threshold
          /\ fails' = 0 /\ until' = ip_block_duration /\ blocks' = blocks + 1
          /\ UNCHANGED bounds
       \/ /\ fails + 1 >= ip_block_failure_threshold
          /\ fails' = 0 /\ Fault /\ UNCHANGED <<until, blocks>>
       \/ /\ fails + 1 < ip_block_failure_threshold
          /\ fails' = fails + 1 /\ UNCHANGED <<until, blocks, bounds>>
    /\ UNCHANGED <<task, input, active, out, terms, router, audit, removing, failures,
                   history>>

Tick ==
    /\ until > 0
    /\ until' = until - 1
    /\ UNCHANGED <<task, input, active, out, terms, router, audit, fails, recording,
                   removing, blocks, failures, bounds, history>>

\* The handshake timer of a connection without a session drops its task; the
\* TERMINATE_RESP it asks for needs a session and is never sent.
HandshakeTimeout(c) ==
    /\ Open(c) /\ c \notin session
    /\ End(c, TRUE)
    /\ UNCHANGED <<pending, errors, session, input, active, out, terms, router, audit,
                   ip, bounds, history>>

----------------------------------------------------------------------------
(* handle_connection *)

\* The connection fails at once and leaves active_conns before anything else.
FailAtOnce(c) ==
    /\ Fault
    /\ End(c, TRUE)
    /\ active' = active \ {c}

\* setup_keepalive.
Setup(c) ==
    /\ phase[c] = "preauth" /\ at[c].pc = "start"
    /\ \/ Goto(c, "read", 0) /\ UNCHANGED <<phase, failed, keyed, active, bounds>>
       \/ FailAtOnce(c)
    /\ UNCHANGED <<pending, errors, session, input, out, terms, router, audit, ip,
                   history>>

\* A read gives any number of whole frames.
Read(c) ==
    \E k \in 1 .. Len(socket[c]) :
        /\ buf' = [buf EXCEPT ![c] = @ \o SubSeq(socket[c], 1, k)]
        /\ socket' = [socket EXCEPT ![c] = SubSeq(@, k + 1, Len(@))]
        /\ UNCHANGED frame

\* Before the address is looked up every read takes one ping from the front of
\* the buffer; the first other data, or a timeout, ends this stage.
PreRead(c) ==
    /\ phase[c] = "preauth" /\ at[c].pc = "read"
    /\ Read(c)
    /\ Goto(c, "front", 0)
    /\ UNCHANGED <<phase, failed, pending, errors, keyed, session, active, out, terms,
                   router, audit, ip, bounds, history>>

PreFront(c) ==
    /\ phase[c] = "preauth" /\ at[c].pc = "front"
    /\ IF Kind(Head(buf[c])) = "ping"
       THEN /\ Goto(c, "pong", Head(buf[c]))
            /\ buf' = [buf EXCEPT ![c] = Tail(@)]
       ELSE Goto(c, "config", 0) /\ UNCHANGED buf
    /\ UNCHANGED <<phase, failed, pending, errors, keyed, session, frame, socket,
                   active, out, terms, router, audit, ip, bounds, history>>

PreTimeout(c) ==
    /\ phase[c] = "preauth" /\ at[c].pc = "read"
    /\ Timeout
    /\ Goto(c, "config", 0)
    /\ UNCHANGED <<phase, failed, pending, errors, keyed, session, input, active, out,
                   terms, router, audit, ip, history>>

\* Mutant: what the first stage left in the buffer waits for the next read.
ConfigReads(c) ==
    /\ at[c].pc = "config"
    /\ \/ /\ phase' = [phase EXCEPT ![c] = "main"]
          /\ Goto(c, "read", 0)
          /\ UNCHANGED <<failed, keyed, active, bounds>>
       \/ FailAtOnce(c)
    /\ UNCHANGED <<pending, errors, session, input, out, terms, router, audit, ip,
                   history>>

\* load_server_config: a connection without a key fails.
Config(c) ==
    /\ at[c].pc = "config"
    /\ \/ /\ phase' = [phase EXCEPT ![c] = "main"]
          /\ Goto(c, "take", 0)
          /\ UNCHANGED <<failed, keyed, active, bounds>>
       \/ FailAtOnce(c)
    /\ UNCHANGED <<pending, errors, session, input, out, terms, router, audit, ip,
                   history>>

\* A pong waits for room in the connection's own write channel.
Pong(c) ==
    /\ at[c].pc = "pong" /\ Len(out[c]) < CHANNEL
    /\ out' = [out EXCEPT ![c] = Append(@, Item("pong", at[c].n))]
    /\ Goto(c, IF phase[c] = "preauth" THEN "read" ELSE "take", 0)
    /\ UNCHANGED <<phase, failed, pending, errors, keyed, session, input, active, terms,
                   router, audit, ip, bounds, history>>

\* The select! of the main loop: data, a timeout, or a frame to write.
MainRead(c) ==
    /\ phase[c] = "main" /\ at[c].pc = "read"
    /\ Read(c)
    /\ Goto(c, "take", 0)
    /\ UNCHANGED <<phase, failed, pending, errors, keyed, session, active, out, terms,
                   router, audit, ip, bounds, history>>

MainTimeout(c) ==
    /\ phase[c] = "main" /\ at[c].pc = "read"
    /\ Timeout
    /\ terms' = terms \cup {<<c, 0>>}
    /\ UNCHANGED <<task, input, active, out, router, audit, ip, history>>

\* The client closes, or reading or writing fails.
Eof(c) ==
    /\ Open(c) /\ at[c].pc \in {"read", "writing"}
    /\ End(c, FALSE)
    /\ UNCHANGED <<pending, errors, session, input, active, out, terms, router, audit,
                   ip, bounds, history>>

\* The task takes a frame to write and waits for the client to read it.
StartWrite(c) ==
    /\ phase[c] = "main" /\ at[c].pc = "read" /\ out[c] # <<>>
    /\ Goto(c, "writing", 0)
    /\ UNCHANGED <<phase, failed, pending, errors, keyed, session, input, active, out,
                   terms, router, audit, ip, bounds, history>>

\* After a frame the connection closes when the command it remembers is
\* TERMINATE, otherwise it remembers nothing.
Written(c) ==
    IF pending[c] = "terminate" THEN End(c, FALSE) /\ UNCHANGED pending
    ELSE /\ pending' = [pending EXCEPT ![c] = None]
         /\ Goto(c, "read", 0)
         /\ UNCHANGED <<phase, failed, keyed>>

\* Mutant: the newest frame of the channel is written first.
WriteNewest(c) ==
    /\ phase[c] = "main" /\ at[c].pc = "writing" /\ out[c] # <<>>
    /\ out' = [out EXCEPT ![c] = Front(@)]
    /\ wire' = [wire EXCEPT ![c] = Append(@, Last(out[c]))]
    /\ Written(c)
    /\ UNCHANGED <<errors, session, input, active, terms, router, audit, ip, bounds,
                   made, dropped, overlap>>

\* Mutant: the command is forgotten before it is looked at.
WriteForgets(c) ==
    /\ phase[c] = "main" /\ at[c].pc = "writing" /\ out[c] # <<>>
    /\ out' = [out EXCEPT ![c] = Tail(@)]
    /\ wire' = [wire EXCEPT ![c] = Append(@, Head(out[c]))]
    /\ pending' = [pending EXCEPT ![c] = None]
    /\ Goto(c, "read", 0)
    /\ UNCHANGED <<phase, failed, keyed>>
    /\ UNCHANGED <<errors, session, input, active, terms, router, audit, ip, bounds,
                   made, dropped, overlap>>

\* write_all and flush end when the client has read enough; nothing limits the
\* time this takes.
Write(c) ==
    /\ phase[c] = "main" /\ at[c].pc = "writing" /\ out[c] # <<>>
    /\ out' = [out EXCEPT ![c] = Tail(@)]
    /\ wire' = [wire EXCEPT ![c] = Append(@, Head(out[c]))]
    /\ Written(c)
    /\ UNCHANGED <<errors, session, input, active, terms, router, audit, ip, bounds,
                   made, dropped, overlap>>

----------------------------------------------------------------------------
(* process_message_buffer *)

\* The frame at the front leaves the buffer.
TakeFront(c) == buf' = [buf EXCEPT ![c] = Tail(@)] /\ UNCHANGED <<frame, socket>>

BufferDone(c) ==
    /\ at[c].pc = "take" /\ buf[c] = <<>>
    /\ Goto(c, "read", 0)
    /\ errors' = [errors EXCEPT ![c] = 0]
    /\ UNCHANGED <<phase, failed, pending, keyed, session, input, active, out, terms,
                   router, audit, ip, bounds, history>>

TakePing(c) ==
    /\ at[c].pc = "take" /\ buf[c] # <<>> /\ Kind(Head(buf[c])) = "ping"
    /\ TakeFront(c)
    /\ Goto(c, "pong", Head(buf[c]))
    /\ UNCHANGED <<phase, failed, pending, errors, keyed, session, active, out, terms,
                   router, audit, ip, bounds, history>>

\* A wrong length: after MAX_CONSECUTIVE_ERRORS of them the connection closes.
TakeLength(c) ==
    /\ at[c].pc = "take" /\ buf[c] # <<>> /\ Kind(Head(buf[c])) = "length"
    /\ errors' = [errors EXCEPT ![c] = @ + 1]
    /\ IF errors[c] + 1 >= MAX_CONSECUTIVE_ERRORS
       THEN /\ terms' = terms \cup {<<c, Head(buf[c])>>}
            /\ buf' = [buf EXCEPT ![c] = <<>>] /\ UNCHANGED <<frame, socket>>
            /\ End(c, FALSE)
       ELSE TakeFront(c) /\ UNCHANGED <<terms, phase, at, failed, keyed>>
    /\ UNCHANGED <<pending, session, active, out, router, audit, ip, bounds, history>>

\* A frame no key opens makes a TERMINATE_RESP; a short message nothing at all.
TakeUnusable(c) ==
    /\ at[c].pc = "take" /\ buf[c] # <<>>
    /\ Kind(Head(buf[c])) \in {"undecryptable", "short"}
    /\ TakeFront(c)
    /\ errors' = [errors EXCEPT ![c] = 0]
    /\ IF Kind(Head(buf[c])) = "short"
       THEN keyed' = keyed \cup {c} /\ UNCHANGED terms
       ELSE terms' = terms \cup {<<c, Head(buf[c])>>} /\ UNCHANGED keyed
    /\ UNCHANGED <<phase, at, failed, pending, session, active, out, router, audit, ip,
                   bounds, history>>

\* A command is remembered, and waits for a permit.
TakeCommand(c) ==
    /\ at[c].pc = "take" /\ buf[c] # <<>> /\ Kind(Head(buf[c])) \in Commands
    /\ TakeFront(c)
    /\ Goto(c, "permit", Head(buf[c]))
    /\ errors' = [errors EXCEPT ![c] = 0]
    /\ keyed' = keyed \cup {c}
    /\ pending' = [pending EXCEPT ![c] = Kind(Head(buf[c]))]
    /\ UNCHANGED <<phase, failed, session, active, out, terms, router, audit, ip,
                   bounds, history>>

Acquire(c) ==
    /\ at[c].pc = "permit" /\ Permits < reply_in_flight_limit
    /\ Goto(c, "save", at[c].n)
    /\ UNCHANGED <<phase, failed, pending, errors, keyed, session, input, active, out,
                   terms, router, audit, ip, bounds, history>>

\* save_request: the tolls of a row are set later.
NewRow(n, told) == [n |-> n, told |-> told, tolls |-> NoRow]

\* A save that reports an error has stored the row or not.
SaveFails(n) == Fault /\ (UNCHANGED row \/ row' = Append(row, NewRow(n, FALSE)))

\* process_request saves a command it does not know, with its answer if the
\* request could be saved, and ends with an error.
SaveUnknown(c, n) ==
    /\ at[c] = At("save", n) /\ Kind(n) = "unknown"
    /\ Goto(c, "error", n)
    /\ \/ /\ row' = Append(row, NewRow(n, TRUE))
          /\ post' = post \cup {<<n, "response">>}
          /\ UNCHANGED bounds
       \/ SaveFails(n) /\ UNCHANGED post
    /\ UNCHANGED <<phase, failed, pending, errors, keyed, session, input, active, out,
                   terms, router, answered, ip, history>>

\* A request that is too short or names a foreign toll is not saved.
Reject(c, n) ==
    /\ at[c] = At("save", n) /\ Kind(n) \in {"refused", "misconnect"}
    /\ Goto(c, "error", n)
    /\ UNCHANGED <<phase, failed, pending, errors, keyed, session, input, active, out,
                   terms, router, audit, ip, bounds, history>>

\* Any other request is saved and handled, also when it cannot be saved.
SaveRequest(c, n) ==
    /\ at[c] = At("save", n) /\ Kind(n) \notin {"unknown", "refused", "misconnect"}
    /\ Goto(c, "handle", n)
    /\ \/ row' = Append(row, NewRow(n, TRUE)) /\ UNCHANGED bounds
       \/ SaveFails(n)
    /\ UNCHANGED <<phase, failed, pending, errors, keyed, session, input, active, out,
                   terms, router, answered, post, ip, history>>

\* The handler has the reply of frame n: its audit rows are written by tasks of
\* their own.
Answer(c, n, rows) ==
    /\ at[c] = At("handle", n)
    /\ Goto(c, "give", n)
    /\ made' = made \cup {n}
    /\ post' = post \cup {<<n, what>> : what \in rows}
    /\ UNCHANGED <<phase, failed, pending, errors, keyed, input, active, out, terms,
                   router, row, answered, ip, bounds, wire, dropped, overlap>>

\* A login that is refused is answered as well, and makes no session.
HandleConnect(c, n) ==
    /\ Kind(n) = "connect" /\ Answer(c, n, {"response"})
    /\ session' = session \cup {c} \/ UNCHANGED session

HandleTerminate(c, n) ==
    /\ Kind(n) = "terminate" /\ Answer(c, n, {"response"})
    /\ session' = session \ {c}

\* CHECKIN, COMMIT, ROLLBACK: the tolls of the request row are updated too.
HandleBusiness(c, n) ==
    /\ Kind(n) = "business" /\ Answer(c, n, {"tolls", "response"})
    /\ UNCHANGED session

HandleOther(c, n) ==
    /\ Kind(n) = "query" /\ Answer(c, n, {"response"})
    /\ UNCHANGED session

\* The handler returns an error.
HandlerFails(c) ==
    /\ at[c].pc = "handle"
    /\ Fault
    /\ Goto(c, "error", at[c].n)
    /\ UNCHANGED <<phase, failed, pending, errors, keyed, session, input, active, out,
                   terms, router, audit, ip, history>>

ProcessRequest(c) ==
    \/ \E n \in Frames : \/ SaveUnknown(c, n) \/ Reject(c, n) \/ SaveRequest(c, n)
                         \/ HandleConnect(c, n) \/ HandleTerminate(c, n)
                         \/ HandleBusiness(c, n) \/ HandleOther(c, n)
    \/ HandlerFails(c)

\* An error forgets the command; only CONNECT is answered, if it is not too short.
HandleError(c) ==
    /\ at[c].pc = "error"
    /\ pending' = [pending EXCEPT ![c] = None]
    /\ \/ Kind(at[c].n) \in {"connect", "misconnect"} /\ Goto(c, "give", at[c].n)
       \/ Kind(at[c].n) # "connect" /\ Goto(c, "take", at[c].n)
    /\ UNCHANGED <<phase, failed, errors, keyed, session, input, active, out, terms,
                   router, audit, ip, bounds, history>>

\* The reply is put into the first channel and the permit given back.
Give(c) ==
    /\ at[c].pc = "give" /\ Len(requests) < reply_in_flight_limit
    /\ requests' = Append(requests, Item("reply", at[c].n))
    /\ Goto(c, "take", 0)
    /\ UNCHANGED <<phase, failed, pending, errors, keyed, session, input, active, out,
                   terms, replies, closing, closed, sending, audit, ip, bounds, history>>

\* Mutant: the row is always looked up by the request id.
TollRowLatest(n) ==
    LET same == {i \in DOMAIN row : frame[row[i].n].rid = frame[n].rid}
        found == same
    IN  IF found = {} THEN NoRow ELSE CHOOSE i \in found : \A j \in found : j <= i

\* update_toll_in_toll_out_by_request_id: the row of this request, or when its
\* save did not tell the latest row with its request id.
TollRow(n) ==
    LET own == {i \in DOMAIN row : row[i].n = n /\ row[i].told}
        same == {i \in DOMAIN row : frame[row[i].n].rid = frame[n].rid}
        found == IF own # {} THEN own ELSE same
    IN  IF found = {} THEN NoRow ELSE CHOOSE i \in found : \A j \in found : j <= i

\* An update that fails is given up.
UpdateTolls(n) ==
    /\ <<n, "tolls">> \in post
    /\ post' = post \ {<<n, "tolls">>}
    /\ \/ /\ row' = IF TollRow(n) = NoRow THEN row
                    ELSE [row EXCEPT ![TollRow(n)].tolls = n]
          /\ UNCHANGED bounds
       \/ Fault /\ UNCHANGED row
    /\ UNCHANGED <<task, input, active, out, terms, router, answered, ip, history>>

\* save_response: a row that cannot be saved is given up.
SaveResponse(n) ==
    /\ <<n, "response">> \in post
    /\ post' = post \ {<<n, "response">>}
    /\ \/ answered' = answered \cup {n} /\ UNCHANGED bounds
       \/ Fault /\ UNCHANGED answered
    /\ UNCHANGED <<task, input, active, out, terms, router, row, ip, history>>

----------------------------------------------------------------------------
(* Replies *)

\* run_logic_handler hands the replies on in their order.
Forward ==
    /\ requests # <<>> /\ Len(replies) < reply_in_flight_limit
    /\ requests' = Tail(requests)
    /\ replies' = Append(replies, Head(requests))
    /\ UNCHANGED <<task, input, active, out, terms, closing, closed, sending, audit, ip,
                   bounds, history>>

\* The router learns of a closed connection; it forgets all of them when there
\* are too many.
RouteClosed ==
    /\ closing # <<>>
    /\ closing' = Tail(closing)
    /\ LET known == closed \cup {Head(closing)}
       IN  closed' = IF Cardinality(known) > MAX_CLOSED_CONN_IDS THEN {} ELSE known
    /\ UNCHANGED <<task, input, active, out, terms, requests, replies, sending, audit,
                   ip, bounds, history>>

\* A reply of a closed connection is dropped, also one that is found closed
\* only now; so is one above the limit of concurrent sends.
RouteReply ==
    /\ replies # <<>>
    /\ replies' = Tail(replies)
    /\ LET n == Head(replies).n
           c == Owner(n)
       IN  \/ /\ c \in closed \/ c \notin active
              /\ closed' = closed \cup {c}
              /\ dropped' = dropped \cup {<<n, "closed">>}
              /\ UNCHANGED <<sending, overlap>>
           \/ /\ c \notin closed /\ c \in active
              /\ Cardinality(sending) >= reply_send_max_concurrent
              /\ dropped' = dropped \cup {<<n, "limit">>}
              /\ UNCHANGED <<sending, overlap, closed>>
           \/ /\ c \notin closed /\ c \in active
              /\ Cardinality(sending) < reply_send_max_concurrent
              /\ sending' = sending \cup {n}
              /\ overlap' = overlap \cup {{n, m} : m \in sending}
              /\ UNCHANGED <<dropped, closed>>
    /\ UNCHANGED <<task, input, active, out, terms, requests, closing, audit, ip,
                   bounds, wire, made>>

\* Mutant: the write channel has no capacity.
SendReplyUnbounded(n) ==
    /\ n \in sending
    /\ sending' = sending \ {n}
    /\ LET c == Owner(n) IN
          \/ /\ Open(c)
             /\ out' = [out EXCEPT ![c] = Append(@, Item("reply", n))]
             /\ UNCHANGED dropped
          \/ /\ ~Open(c)
             /\ dropped' = dropped \cup {<<n, "closed">>} /\ UNCHANGED out
          \/ /\ Open(c) /\ Len(out[c]) = CHANNEL
             /\ dropped' = dropped \cup {<<n, "timeout">>} /\ UNCHANGED out
    /\ UNCHANGED <<task, input, active, terms, requests, replies, closing, closed,
                   audit, ip, bounds, wire, made, overlap>>

\* send_with_timeout of one reply: it waits for room and may give up; the
\* channel of a connection that ended refuses it.
SendReply(n) ==
    /\ n \in sending
    /\ sending' = sending \ {n}
    /\ LET c == Owner(n) IN
          \/ /\ Open(c) /\ Room(c)
             /\ out' = [out EXCEPT ![c] = Append(@, Item("reply", n))]
             /\ UNCHANGED dropped
          \/ /\ ~Open(c)
             /\ dropped' = dropped \cup {<<n, "closed">>} /\ UNCHANGED out
          \/ /\ Open(c) /\ ~Room(c)
             /\ dropped' = dropped \cup {<<n, "timeout">>} /\ UNCHANGED out
    /\ UNCHANGED <<task, input, active, terms, requests, replies, closing, closed,
                   audit, ip, bounds, wire, made, overlap>>

\* send_terminate_resp_on_close says nothing without a session, a key or an
\* active connection, and otherwise waits for room.
SendTerminate(e) ==
    /\ e \in terms
    /\ terms' = terms \ {e}
    /\ LET c == e[1] IN
          \/ /\ c \in session \cap keyed \cap active /\ Open(c) /\ Room(c)
             /\ out' = [out EXCEPT ![c] = Append(@, Item("terminate", e[2]))]
          \/ /\ c \notin session \cap keyed \cap active \/ ~Open(c)
             /\ UNCHANGED out
    /\ UNCHANGED <<task, input, active, router, audit, ip, bounds, history>>

----------------------------------------------------------------------------

\* The steps of a connection's task that wait for nobody else.
TaskStep(c) ==
    \/ Setup(c) \/ PreRead(c) \/ PreFront(c) \/ Config(c) \/ Pong(c) \/ MainRead(c)
    \/ StartWrite(c) \/ BufferDone(c) \/ TakePing(c) \/ TakeLength(c) \/ TakeUnusable(c)
    \/ TakeCommand(c) \/ Acquire(c) \/ ProcessRequest(c) \/ HandleError(c)
    \/ Give(c) \/ LeaveActive(c) \/ TellRouter(c)

RouterStep == RouteClosed \/ RouteReply
SpawnedStep == \/ RecordFailure
               \/ \E n \in Frames : UpdateTolls(n) \/ SaveResponse(n) \/ SendReply(n)
               \/ \E e \in terms : SendTerminate(e)

Next ==
    \/ \E c \in Conn : \/ SendFrame(c) \/ Accept(c) \/ TaskStep(c) \/ Write(c) \/ Eof(c)
                       \/ PreTimeout(c) \/ MainTimeout(c) \/ HandshakeTimeout(c)
    \/ Forward \/ RouterStep \/ SpawnedStep \/ Refuse \/ FindExpired \/ Tick

Spec == Init /\ [][Next]_vars

\* Every task that can go on goes on; clients, which may stop reading, timers and
\* the time of a block are left to themselves.
FairSpec ==
    /\ Spec
    /\ \A c \in Conn : WF_vars(TaskStep(c))
    /\ WF_vars(Forward) /\ WF_vars(RouterStep) /\ WF_vars(SpawnedStep)

----------------------------------------------------------------------------

\* Types; no channel holds more than its capacity.
TypeOK ==
    /\ phase \in [Conn -> {"new", "preauth", "main", "closing", "closed"}]
    /\ \A c \in Conn : at[c].pc \in {"start", "read", "front", "config", "pong", "take",
                                     "permit", "save", "handle", "error", "give",
                                     "writing", "active", "tell", "done"}
    /\ failed \cup keyed \cup session \cup active \cup closed \subseteq Conn
    /\ pending \in [Conn -> Kinds \cup {None}]
    /\ \A c \in Conn : /\ errors[c] \in 0 .. MAX_CONSECUTIVE_ERRORS
                       /\ Open(c) => Len(out[c]) <= CHANNEL + InHand(c)
    /\ Len(requests) <= reply_in_flight_limit /\ Len(replies) <= reply_in_flight_limit
    /\ Permits <= reply_in_flight_limit
    /\ Cardinality(sending) <= reply_send_max_concurrent
    /\ fails \in 0 .. ip_block_failure_threshold - 1 /\ until \in NoKey .. ip_block_duration
    /\ recording \in Nat /\ removing \in BOOLEAN

\* The router never takes an open connection for a closed one: a reply is
\* dropped as closed only after the connection's task ended (router.rs, and the
\* order of the cleanup in server.rs).
OpenNotDropped ==
    \A n \in Frames : <<n, "closed">> \in dropped => ~Open(Owner(n))

\* Item a, which comes first, is the reply of a later frame than item b.
OutOfOrder(a, b) == a.what = "reply" /\ b.what = "reply" /\ a.n > b.n

\* Replies of one connection are written in the order of its requests, save two
\* that were being sent at the same time (router.rs spawns a task per reply).
SwapsOnlyWhenSentTogether ==
    \A c \in Conn : \A i, j \in DOMAIN wire[c] :
        i < j /\ OutOfOrder(wire[c][i], wire[c][j]) =>
            {wire[c][i].n, wire[c][j].n} \in overlap

Replies(q) == {i \in DOMAIN q : q[i].what = "reply"}

\* A request is answered at most once, and on the connection it came from.
AnsweredOnce ==
    \A c \in Conn : \A i \in Replies(wire[c]) :
        /\ wire[c][i].n \in Frames /\ Owner(wire[c][i].n) = c
        /\ \A j \in Replies(wire[c]) : wire[c][i].n = wire[c][j].n => i = j

\* What a client reads are answers to its own requests, one for each at most, in
\* the order of the requests but for two that were being sent at the same time:
\* channels, router and sending tasks together keep each reply in one place.
RepliesMatchRequests == AnsweredOnce /\ SwapsOnlyWhenSentTogether

\* The frames of connection c that its task has not taken yet.
Waiting(c) == ToSet(buf[c]) \cup ToSet(socket[c])

\* A later command of the connection of frame n was taken.
Overtaken(n) == \E m \in Frames : /\ m > n /\ Owner(m) = Owner(n) /\ Kind(m) \in Commands
                                  /\ m \notin Waiting(Owner(n))

\* A connection that has written the reply to a TERMINATE is closed, unless a
\* later command took the one place where the command is remembered
\* (connection.rs, pending_command).
TerminateCloses ==
    \A c \in Conn : \A i \in DOMAIN wire[c] :
        LET n == wire[c][i].n IN
        (wire[c][i].what = "reply" /\ Kind(n) = "terminate" /\ n \in made /\ Open(c))
            => Overtaken(n)

\* The tolls in a request row are those of the same request, or of one with the
\* same request id whose own save reported an error (processor.rs,
\* update_toll_in_toll_out_by_request_id).
TollsInTheirRow ==
    \A i \in DOMAIN row : row[i].tolls # NoRow =>
        \/ row[i].tolls = row[i].n
        \/ /\ frame[row[i].tolls].rid = frame[row[i].n].rid
           /\ \A j \in DOMAIN row : row[j].n = row[i].tolls => ~row[j].told

\* Every block of an address stands for that many failed connections
\* (ip_block_service.rs), however their records interleave.
BlocksEarned == blocks * ip_block_failure_threshold + fails + recording <= failures

\* Liveness: a connection comes back to wait for its client with every frame
\* handled, every reply written or given up and, when no call failed, its
\* TCOC_RESPONSE row saved, unless its own client holds it: the client does not read
\* what is being written to it, or the task waits to put a pong into its own full
\* channel, which only it empties (connection.rs).  A client that stops reading so
\* holds up nobody else, though permits, reply channels and router are shared.
Served ==
    <>[](\A c \in Conn : Open(c) =>
            \/ /\ at[c].pc = "read" /\ socket[c] = <<>>
               /\ phase[c] = "preauth" \/ buf[c] = <<>>
               /\ \A n \in made : Owner(n) = c => n \in answered \/ faults > 0
               /\ \A n \in made : Owner(n) = c =>
                     \/ \E i \in DOMAIN wire[c] : wire[c][i] = Item("reply", n)
                     \/ <<n, "limit">> \in dropped \/ <<n, "timeout">> \in dropped
            \/ at[c].pc = "writing"
            \/ at[c].pc = "pong" /\ Len(out[c]) = CHANNEL)

----------------------------------------------------------------------------
(* The inductive invariant of the proofs *)

StepsOf(p) == CASE p = "new" -> {"start"}
                [] p = "preauth" -> {"start", "read", "front", "config", "pong"}
                [] p = "main" -> {"read", "writing", "take", "pong", "permit", "save", "handle", "error", "give"}
                [] p = "closing" -> {"active", "tell"}
                [] p = "closed" -> {"done"}

Items == [what : {"pong", "reply", "terminate"}, n : Nat]
Steps == {"start", "read", "front", "config", "pong", "take", "permit", "save", "handle",
          "error", "give", "writing", "active", "tell", "done"}
Phases == {"new", "preauth", "main", "closing", "closed"}

\* A connection that has ended never opens again.
Ended(c) == phase[c] \in {"closing", "closed"}

Places ==
    /\ phase \in [Conn -> Phases] /\ at \in [Conn -> [pc : Steps, n : Nat]]
    /\ \A c \in Conn : at[c].pc \in StepsOf(phase[c])

TaskTypes ==
    /\ failed \subseteq Conn /\ keyed \subseteq Conn /\ session \subseteq Conn
    /\ active \subseteq Conn /\ terms \subseteq Conn \X Nat
    /\ pending \in [Conn -> Kinds \cup {None}] /\ errors \in [Conn -> Nat]
    /\ \A c \in Conn : /\ errors[c] <= MAX_CONSECUTIVE_ERRORS
                       /\ ~Ended(c) => errors[c] < MAX_CONSECUTIVE_ERRORS

InputTypes ==
    /\ frame \in Seq([kind : Kinds, conn : Conn, rid : RequestId])
    /\ socket \in [Conn -> Seq(Nat)] /\ buf \in [Conn -> Seq(Nat)]
    /\ \A c \in Conn : at[c].pc = "front" => buf[c] # <<>>
    /\ limit \in Limits

ReplyTypes ==
    /\ out \in [Conn -> Seq(Items)] /\ wire \in [Conn -> Seq(Items)]
    /\ requests \in Seq(Items) /\ replies \in Seq(Items)
    /\ closing \in Seq(Conn) /\ closed \subseteq Conn /\ sending \subseteq Nat
    /\ \A i \in DOMAIN requests : requests[i].what = "reply"
    /\ \A i \in DOMAIN replies : replies[i].what = "reply"

AuditTypes ==
    /\ row \in Seq([n : Nat, told : BOOLEAN, tolls : Nat])
    /\ post \subseteq Nat \X {"tolls", "response"} /\ made \subseteq Nat

BlockTypes ==
    /\ fails \in Nat /\ fails < ip_block_failure_threshold
    /\ until \in Int /\ NoKey <= until /\ until <= ip_block_duration
    /\ removing \in BOOLEAN /\ recording \in Nat /\ blocks \in Nat /\ failures \in Nat

\* No channel and no set of spawned tasks passes its limit.
Capacities ==
    /\ \A c \in Conn : ~Ended(c) => Len(out[c]) <= CHANNEL + InHand(c)
    /\ Len(requests) <= reply_in_flight_limit /\ Len(replies) <= reply_in_flight_limit
    /\ Permits <= reply_in_flight_limit
    /\ IsFiniteSet(sending) /\ Cardinality(sending) <= reply_send_max_concurrent

\* An open connection is active, and whatever names a closed one is right.
LifeSound ==
    /\ \A c \in Conn : Open(c) => c \in active
    /\ \A c \in closed \cup ToSet(closing) : Ended(c)
    /\ \A n \in Frames : phase[Owner(n)] # "new"
    /\ \A e \in dropped : e[2] = "closed" => e[1] \in Frames /\ Ended(Owner(e[1]))

Rising(q) == \A i, j \in DOMAIN q : i < j => q[i] < q[j]

\* A connection's frames wait in the order in which they were sent, and follow the one
\* its task is about.
InputSound ==
    \A c \in Conn :
        /\ Waiting(c) \subseteq {n \in Frames : Owner(n) = c}
        /\ Rising(buf[c]) /\ Rising(socket[c])
        /\ \A m \in ToSet(buf[c]), n \in ToSet(socket[c]) : m < n
        /\ at[c].pc \in {"permit", "save", "handle", "error", "give"} =>
              /\ at[c].n \in Frames /\ Owner(at[c].n) = c /\ Kind(at[c].n) \in Commands
              /\ \A m \in Waiting(c) : at[c].n < m

\* The frames of c that are not answered yet, and those whose reply was not handed over.
Unanswered(c) == Waiting(c) \cup
    {n \in {at[c].n} : at[c].pc \in {"permit", "save", "handle", "error"}}
Ungiven(c) == Unanswered(c) \cup {n \in {at[c].n} : at[c].pc = "give"}

Past(n) == n \in Frames /\ \A m \in Unanswered(Owner(n)) : n < m
Gone(n) == n \in Frames /\ \A m \in Ungiven(Owner(n)) : n < m

\* Tolls are those of a request that was answered, and so never saved again.
AuditSound ==
    /\ \A i \in DOMAIN row : row[i].n \in Frames
    /\ \A i \in DOMAIN row : row[i].tolls # NoRow => Past(row[i].tolls)
    /\ \A e \in post : e[2] = "tolls" => Past(e[1])
    /\ TollsInTheirRow

\* A reply that was handed over is one of a frame its connection is done with.
RouteSound ==
    /\ \A i \in DOMAIN requests : Gone(requests[i].n)
    /\ \A i \in DOMAIN replies : Gone(replies[i].n)
    /\ \A n \in sending : Gone(n)
    /\ \A c \in Conn : \A e \in ToSet(out[c]) \cup ToSet(wire[c]) :
          e.what = "reply" => Gone(e.n) /\ Owner(e.n) = c

\* The replies of the connection of frame n that left the reply channels are earlier
\* than n.
After(n) ==
    /\ \A m \in sending : Owner(m) = Owner(n) => m < n
    /\ \A e \in ToSet(out[Owner(n)]) \cup ToSet(wire[Owner(n)]) : e.what = "reply" => e.n < n

\* The reply channels keep the order; what is sent at one time overlaps; what overtook a
\* reply that is still being sent, or already written, overlapped with it.
OrderSound ==
    /\ \A i, j \in DOMAIN requests : i < j /\ Owner(requests[i].n) = Owner(requests[j].n)
            => requests[i].n < requests[j].n
    /\ \A i, j \in DOMAIN replies : i < j /\ Owner(replies[i].n) = Owner(replies[j].n)
            => replies[i].n < replies[j].n
    /\ \A i \in DOMAIN replies, j \in DOMAIN requests :
            Owner(replies[i].n) = Owner(requests[j].n) => replies[i].n < requests[j].n
    /\ \A i \in DOMAIN requests : After(requests[i].n)
    /\ \A i \in DOMAIN replies : After(replies[i].n)
    /\ \A m, n \in sending : m # n => {m, n} \in overlap
    /\ \A c \in Conn : \A e \in ToSet(out[c]) \cup ToSet(wire[c]), m \in sending :
            e.what = "reply" /\ Owner(m) = c /\ e.n > m => {e.n, m} \in overlap
    /\ \A c \in Conn : \A i, j \in DOMAIN out[c] :
            i < j /\ OutOfOrder(out[c][i], out[c][j]) => {out[c][i].n, out[c][j].n} \in overlap
    /\ \A c \in Conn : \A a \in ToSet(wire[c]), b \in ToSet(out[c]) :
            OutOfOrder(a, b) => {a.n, b.n} \in overlap
    /\ SwapsOnlyWhenSentTogether

\* A reply is in one place: being sent, in the write channel, or written.
OnePlace ==
    \A c \in Conn :
        /\ \A e \in ToSet(out[c]) \cup ToSet(wire[c]) : e.what = "reply" => e.n \notin sending
        /\ \A i, j \in Replies(out[c]) : out[c][i].n = out[c][j].n => i = j
        /\ \A i, j \in Replies(wire[c]) : wire[c][i].n = wire[c][j].n => i = j
        /\ \A i \in Replies(out[c]), j \in Replies(wire[c]) : out[c][i].n # wire[c][j].n

\* TERMINATE is remembered until the connection ends or a later command takes its place.
PendingSound ==
    /\ \A c \in Conn : at[c].pc \in {"permit", "save", "handle"} => pending[c] = Kind(at[c].n)
    /\ \A n \in made : Past(n)
    /\ \A n \in made : Kind(n) = "terminate" /\ Open(Owner(n)) =>
            pending[Owner(n)] = "terminate" \/ Overtaken(n)
    /\ TerminateCloses

Types == Places /\ TaskTypes /\ InputTypes /\ ReplyTypes /\ AuditTypes /\ BlockTypes

IInv ==
    /\ Types /\ Capacities /\ LifeSound
    /\ InputSound /\ AuditSound /\ RouteSound /\ OrderSound /\ PendingSound
    /\ BlocksEarned
=============================================================================
