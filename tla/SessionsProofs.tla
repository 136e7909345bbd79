---------------------------- MODULE SessionsProofs ----------------------------
(***************************************************************************)
(* Proofs about Sessions, for any number of connections, sessions, outages *)
(* and restarts: the map forgets the sessions of closed connections, no    *)
(* save is lost but by the full buffer or a restart, and a row without a   *)
(* logout is accounted for.  IInv (Sessions) is inductive.                 *)
(***************************************************************************)
EXTENDS Sessions, WellFoundedInduction, TLAPS

-----------------------------------------------------------------------------
(* Sequences *)

LEMMA AppendFacts ==
  ASSUME NEW S, NEW q \in Seq(S), NEW u \in S
  PROVE  /\ Append(q, u) \in Seq(S) /\ Len(q) \in Nat /\ Len(Append(q, u)) = Len(q) + 1
         /\ DOMAIN q = 1 .. Len(q) /\ DOMAIN Append(q, u) = 1 .. Len(q) + 1
         /\ \A i \in 1 .. Len(q) : Append(q, u)[i] = q[i]
         /\ Append(q, u)[Len(q) + 1] = u
  OBVIOUS

\* What was in a sequence is in it after an append, in the same order; nothing but the
\* new element is new.
LEMMA AppendOrder ==
  ASSUME NEW S, NEW q \in Seq(S), NEW u \in S
  PROVE  /\ \A i \in DOMAIN q : i \in DOMAIN Append(q, u) /\ Append(q, u)[i] = q[i]
         /\ \E j \in DOMAIN Append(q, u) :
               Append(q, u)[j] = u /\ \A i \in DOMAIN q : i < j
         /\ \A i \in DOMAIN Append(q, u) : i \in DOMAIN q \/ Append(q, u)[i] = u
  <1>1. /\ Len(q) \in Nat /\ DOMAIN q = 1 .. Len(q) /\ DOMAIN Append(q, u) = 1 .. Len(q) + 1
        /\ \A i \in 1 .. Len(q) : Append(q, u)[i] = q[i]
        /\ Append(q, u)[Len(q) + 1] = u
    BY AppendFacts
  <1>2. \A i \in DOMAIN q : i \in DOMAIN Append(q, u) /\ Append(q, u)[i] = q[i]
    BY <1>1
  <1>3. Len(q) + 1 \in DOMAIN Append(q, u) /\ \A i \in DOMAIN q : i < Len(q) + 1
    BY <1>1
  <1>4. ASSUME NEW i \in DOMAIN Append(q, u) PROVE i \in DOMAIN q \/ Append(q, u)[i] = u
    <2>1. i \in 1 .. Len(q) \/ i = Len(q) + 1
      BY <1>1
    <2> QED BY <1>1, <2>1
  <1> QED BY <1>1, <1>2, <1>3, <1>4

\* The rest of a sequence, with its order.
LEMMA TailOrder ==
  ASSUME NEW S, NEW q \in Seq(S), q # <<>>
  PROVE  /\ Head(q) \in S /\ Tail(q) \in Seq(S)
         /\ \A i \in DOMAIN Tail(q) : i + 1 \in DOMAIN q /\ Tail(q)[i] = q[i + 1]
         /\ \A i \in DOMAIN q : i = 1 \/ (i - 1 \in DOMAIN Tail(q) /\ Tail(q)[i - 1] = q[i])
         /\ 1 \in DOMAIN q /\ Head(q) = q[1] /\ DOMAIN q \subseteq Nat /\ DOMAIN Tail(q) \subseteq Nat
         /\ Len(Tail(q)) = Len(q) - 1 /\ Len(q) \in Nat
  <1>1. /\ Tail(q) \in Seq(S) /\ Len(q) \in Nat /\ Len(q) > 0 /\ Len(Tail(q)) = Len(q) - 1
        /\ DOMAIN q = 1 .. Len(q) /\ DOMAIN Tail(q) = 1 .. Len(q) - 1
        /\ \A i \in 1 .. Len(q) - 1 : Tail(q)[i] = q[i + 1]
        /\ Head(q) = q[1]
    OBVIOUS
  <1>2. Head(q) \in S
    BY <1>1
  <1>3. \A i \in DOMAIN Tail(q) : i + 1 \in DOMAIN q /\ Tail(q)[i] = q[i + 1]
    BY <1>1
  <1>4. ASSUME NEW i \in DOMAIN q, i # 1
        PROVE  i - 1 \in DOMAIN Tail(q) /\ Tail(q)[i - 1] = q[i]
    <2>1. i - 1 \in 1 .. Len(q) - 1 /\ (i - 1) + 1 = i
      BY <1>1, <1>4
    <2> QED BY <1>1, <2>1
  <1> QED BY <1>1, <1>2, <1>3, <1>4

\* A set of numbers that does not pass n has a last element: n minus it is the least of
\* the differences.
LEMMA LastOf ==
  ASSUME NEW T \in SUBSET Nat, NEW n \in Nat, \A x \in T : x <= n, T # {}
  PROVE  \E x \in T : \A y \in T : y <= x
  <1> DEFINE D == {n - x : x \in T}
  <1>1. D \subseteq Nat /\ D # {}
    <2>1. ASSUME NEW x \in T PROVE n - x \in Nat
      BY <2>1
    <2>2. PICK x \in T : TRUE
      OBVIOUS
    <2>3. n - x \in D
      OBVIOUS
    <2> QED BY <2>1, <2>3
  <1> DEFINE R == OpToRel(<, Nat)
  <1>2. IsWellFoundedOn(R, Nat)
    BY NatLessThanWellFounded, Zenon
  <1>3. \A x, y \in Nat : x < y => <<x, y>> \in R
    BY DEF OpToRel
  <1> HIDE DEF D, R
  <1>4. PICK d \in D : \A y \in D : ~(<<y, d>> \in R)
    BY <1>1, <1>2, WFMin
  <1>5. PICK x \in T : d = n - x
    BY DEF D
  <1>6. ASSUME NEW y \in T, ~(y <= x) PROVE FALSE
    <2>1. n - y \in D /\ n - y \in Nat /\ d \in Nat /\ n - y < d
      BY <1>1, <1>5, <1>6 DEF D
    <2> QED BY <1>3, <1>4, <2>1
  <1> QED BY <1>6

-----------------------------------------------------------------------------
(* What every step does *)

\* Kept(s) after the step.
KeptNext(s) ==
  \/ row'[s] # "none"
  \/ key'[s] # "none"
  \/ \E i \in DOMAIN buffer' : buffer'[i].sid = s
  \/ \E i \in DOMAIN retry'.taken : retry'.taken[i].sid = s

\* No row is deleted; a save is kept or given up; what is stale stays so.
Monotone ==
  /\ \A s \in Sid : row[s] # "none" => row'[s] # "none"
  /\ \A s \in Sid : Kept(s) => KeptNext(s) \/ s \in dropped'
  /\ dropped \subseteq dropped' /\ stale \subseteq stale'

LEMMA StoreQuiet ==
  ASSUME UNCHANGED <<row, key, buffer, retry, dropped>>, stale \subseteq stale'
  PROVE  Monotone
  BY DEF Monotone, Kept, KeptNext

\* The ids of sessions and connections are numbers, and none of them is None.
LEMMA Ids ==
  /\ \A s \in Sid : s \in Nat /\ s # None
  /\ \A c \in Conn : c \in Sid /\ c # None
  BY SessionsAssumption DEF Sid, None

\* A handler that a step leaves alone.
LEMMA HandlerStays ==
  ASSUME IInv, Monotone, NEW c \in Conn, handler'[c] = handler[c], job'[c] = job[c],
         handler[c].pc # "idle" => phase'[c] = "open"
  PROVE  HandlerSound(c)'
  <1> DEFINE h == handler[c]
  <1>1. HandlerSound(c)
    BY DEF IInv
  <1>2. h.pc # "idle" => h.save \in Saved /\ h.save.sid \in Sid
    BY <1>1 DEF HandlerSound, Saved
  <1>3. h.pc = "result" /\ h.result \notin {"error", "panic"} => row'[h.save.sid] # "none"
    BY <1>1, <1>2 DEF HandlerSound, Monotone
  <1>4. h.pc = "register" => KeptNext(h.save.sid) \/ h.save.sid \in dropped'
    BY <1>1, <1>2 DEF HandlerSound, Monotone
  <1>5. job'[c] # NoSave => h.pc = "insert" \/ (job'[c].state = "open" => job'[c].sid \in stale')
    BY <1>1 DEF HandlerSound, Monotone
  <1>6. h.pc = "insert" => job'[c] = h.save
    BY <1>1 DEF HandlerSound
  <1> HIDE DEF h
  <1>7. handler'[c] = h /\ (h.pc # "idle" => phase'[c] = "open")
    BY DEF h
  <1> QED BY <1>2, <1>3, <1>4, <1>5, <1>6, <1>7 DEF HandlerSound, Kept, KeptNext

\* The sessions answered so far.
LEMMA ToldStays ==
  ASSUME IInv, Monotone, told' = told
  PROVE  SavesKept'
  <1>1. \A s \in told \ dropped : s \in Sid /\ Kept(s)
    BY DEF IInv, TypeOK, SavesKept
  <1>2. \A s \in told' \ dropped' : KeptNext(s)
    BY <1>1 DEF Monotone
  <1> QED BY <1>2 DEF SavesKept, Kept, KeptNext

\* The retry task is where it was.
LEMMA RetryStays ==
  ASSUME IInv, Monotone, retry' = retry
  PROVE  RetrySound'
  <1>1. RetrySound /\ retry.done \subseteq Sid
    BY DEF IInv, TypeOK
  <1> QED BY <1>1 DEF RetrySound, Monotone

\* Rows that are open: they were, or there is a logout to come.
LEMMA EndKeeps ==
  ASSUME IInv, stale \subseteq stale',
         \A s \in Sid : row'[s] = "open" =>
            row[s] = "open" \/ LogoutToCome(s)' \/ s \in stale',
         \A s \in Sid : row'[s] = "open" /\ LogoutToCome(s) => LogoutToCome(s)' \/ s \in stale'
  PROVE  OpenRowsHaveAnEnd'
  BY DEF IInv, OpenRowsHaveAnEnd

\* The channel and the map are as they were; no connection is cleaned up.
LEMMA MapStays ==
  ASSUME IInv, UNCHANGED <<map, queue>>,
         \A c \in Conn : phase[c] \in {"open", "ended"} => phase'[c] \in {"open", "ended"}
  PROVE  QueueSound' /\ MapFollowsConnections'
  <1>1. QueueSound /\ MapFollowsConnections /\ queue \in Seq(Update) /\ map \in [Sid -> Conn \cup {None}]
    BY DEF IInv, TypeOK
  <1>2. MapFollowsConnections'
    BY <1>1 DEF MapFollowsConnections, Queued
  <1>3. \A i \in DOMAIN queue : queue[i].op = "insert" => queue[i].conn \in Conn
    BY <1>1 DEF Update, Insert, Remove, RemoveByConnId
  <1>4. QueueSound'
    BY <1>1, <1>3 DEF QueueSound
  <1> QED BY <1>2, <1>4

\* An update is sent; a connection that is cleaned up sends its removal.
LEMMA SendKeeps ==
  ASSUME IInv, UNCHANGED map, NEW u \in Update, queue' = Append(queue, u),
         \A c \in Conn : phase[c] \in {"open", "ended"} =>
            phase'[c] \in {"open", "ended"} \/ u = RemoveByConnId(c),
         u.op = "insert" => phase'[u.conn] \in {"open", "ended"}
  PROVE  queue' \in Seq(Update) /\ QueueSound' /\ MapFollowsConnections'
  <1>1. QueueSound /\ MapFollowsConnections /\ queue \in Seq(Update) /\ map \in [Sid -> Conn \cup {None}]
    BY DEF IInv, TypeOK
  <1>2. queue' \in Seq(Update)
    BY <1>1, AppendFacts
  <1>3. /\ \A i \in DOMAIN queue : i \in DOMAIN queue' /\ queue'[i] = queue[i]
        /\ \E j \in DOMAIN queue' : queue'[j] = u /\ \A i \in DOMAIN queue : i < j
        /\ \A i \in DOMAIN queue' : i \in DOMAIN queue \/ queue'[i] = u
    BY <1>1, AppendOrder
  <1>4. MapFollowsConnections'
    <2> SUFFICES ASSUME NEW s \in Sid, map[s] # None
                 PROVE  phase'[map[s]] \in {"open", "ended"} \/ Queued(RemoveByConnId(map[s]))'
      BY DEF MapFollowsConnections
    <2>1. CASE phase[map[s]] \in {"open", "ended"}
      <3>1. map[s] \in Conn
        BY <1>1
      <3>2. phase'[map[s]] \in {"open", "ended"} \/ u = RemoveByConnId(map[s])
        BY <2>1, <3>1
      <3> QED BY <1>3, <3>2 DEF Queued
    <2>2. CASE Queued(RemoveByConnId(map[s]))
      <3>1. PICK i \in DOMAIN queue : queue[i] = RemoveByConnId(map[s])
        BY <2>2 DEF Queued
      <3> QED BY <1>3, <3>1 DEF Queued
    <2> QED BY <1>1, <2>1, <2>2 DEF MapFollowsConnections
  <1>5. QueueSound'
    <2> SUFFICES ASSUME NEW i \in DOMAIN queue', queue'[i].op = "insert"
                 PROVE  \/ phase'[queue'[i].conn] \in {"open", "ended"}
                        \/ \E j \in DOMAIN queue' : i < j /\ queue'[j] = RemoveByConnId(queue'[i].conn)
      BY DEF QueueSound
    <2>1. CASE i \notin DOMAIN queue
      BY <1>3, <2>1
    <2>2. CASE i \in DOMAIN queue
      <3> DEFINE c == queue[i].conn
      <3>1. queue'[i] = queue[i]
        BY <1>3, <2>2
      <3>2. c \in Conn
        BY <1>1, <2>2, <3>1 DEF Update, Insert, Remove, RemoveByConnId
      <3>3. CASE phase[c] \in {"open", "ended"}
        <4>1. phase'[c] \in {"open", "ended"} \/ u = RemoveByConnId(c)
          BY <3>2, <3>3
        <4>2. CASE u = RemoveByConnId(c)
          BY <1>3, <2>2, <3>1, <4>2
        <4> QED BY <3>1, <4>1, <4>2
      <3>4. ASSUME NEW j \in DOMAIN queue, i < j, queue[j] = RemoveByConnId(c)
            PROVE  \E k \in DOMAIN queue' : i < k /\ queue'[k] = RemoveByConnId(queue'[i].conn)
        BY <1>3, <3>1, <3>4
      <3> QED BY <1>1, <2>2, <3>1, <3>3, <3>4 DEF QueueSound
    <2> QED BY <2>1, <2>2
  <1> QED BY <1>2, <1>4, <1>5

-----------------------------------------------------------------------------
(* Connections *)

\* Nothing but phases, timers and the environment changes.
LEMMA QuietStep ==
  ASSUME IInv,
         UNCHANGED <<handler, job, row, map, queue, logouts, key, buffer, retry, told, dropped, stale>>,
         phase' \in [Conn -> {"new", "open", "ended", "cleanup", "gone"}],
         idle' \subseteq Sid \X Conn,
         \A c \in Conn : phase[c] \in {"open", "ended"} => phase'[c] \in {"open", "ended"},
         \A c \in Conn : handler[c].pc # "idle" => phase'[c] = "open"
  PROVE  IInv'
  <1>1. TypeOK'
    BY DEF IInv, TypeOK
  <1>2. Monotone
    BY StoreQuiet
  <1>3. \A c \in Conn : HandlerSound(c)'
    BY <1>2, HandlerStays
  <1>4. QueueSound' /\ MapFollowsConnections'
    BY MapStays
  <1>5. RetrySound' /\ SavesKept'
    BY <1>2, RetryStays, ToldStays
  <1>6. OpenRowsHaveAnEnd'
    BY DEF IInv, OpenRowsHaveAnEnd, LogoutToCome, Queued
  <1> QED BY <1>1, <1>3, <1>4, <1>5, <1>6 DEF IInv

\* An update that inserts no session is sent.
LEMMA SendStep ==
  ASSUME IInv,
         UNCHANGED <<handler, job, row, map, logouts, key, buffer, retry, told, dropped, stale>>,
         phase' \in [Conn -> {"new", "open", "ended", "cleanup", "gone"}],
         idle' \subseteq Sid \X Conn,
         NEW u \in Update, queue' = Append(queue, u), u.op # "insert",
         \A c \in Conn : phase[c] \in {"open", "ended"} =>
            phase'[c] \in {"open", "ended"} \/ u = RemoveByConnId(c),
         \A c \in Conn : handler[c].pc # "idle" => phase'[c] = "open"
  PROVE  IInv'
  <1>1. queue' \in Seq(Update) /\ QueueSound' /\ MapFollowsConnections'
    BY SendKeeps
  <1>2. TypeOK'
    BY <1>1 DEF IInv, TypeOK
  <1>3. Monotone
    BY StoreQuiet
  <1>4. \A c \in Conn : HandlerSound(c)'
    BY <1>3, HandlerStays
  <1>5. RetrySound' /\ SavesKept'
    BY <1>3, RetryStays, ToldStays
  <1>6. queue \in Seq(Update)
    BY DEF IInv, TypeOK
  <1>7. \A i \in DOMAIN queue : i \in DOMAIN queue' /\ queue'[i] = queue[i]
    BY <1>6, AppendOrder
  <1>8. OpenRowsHaveAnEnd'
    BY <1>7 DEF IInv, OpenRowsHaveAnEnd, LogoutToCome, Queued
  <1> QED BY <1>1, <1>2, <1>4, <1>5, <1>8 DEF IInv

\* Accept, Close, CleanupConn, HandshakeTimer, Outage, Recovery, IdleScan.
LEMMA PhaseKeeps ==
  ASSUME IInv,
         \/ \E c \in Conn : Accept(c) \/ Close(c) \/ CleanupConn(c) \/ HandshakeTimer(c)
         \/ Outage \/ Recovery \/ IdleScan
  PROVE  IInv'
  <1>0. /\ phase \in [Conn -> {"new", "open", "ended", "cleanup", "gone"}]
        /\ \A c \in Conn : handler[c].pc # "idle" => phase[c] = "open"
        /\ map \in [Sid -> Conn \cup {None}] /\ idle \subseteq Sid \X Conn
    BY DEF IInv, TypeOK, HandlerSound
  <1>9. idle' \subseteq Sid \X Conn
    <2>1. CASE IdleScan
      <3>1. idle' = {<<s, map[s]>> : s \in {t \in Sid : map[t] # None}}
        BY <2>1 DEF IdleScan
      <3> QED BY <1>0, <3>1
    <2>2. CASE ~IdleScan
      BY <1>0, <2>2 DEF Accept, Close, CleanupConn, HandshakeTimer, Outage, Recovery
    <2> QED BY <2>1, <2>2
  <1>1. UNCHANGED <<handler, job, row, map, queue, logouts, key, buffer, retry, told, dropped, stale>>
    BY DEF Accept, Close, CleanupConn, HandshakeTimer, Outage, Recovery, IdleScan, store, history
  <1>2. CASE Outage \/ Recovery \/ IdleScan
    <2>1. UNCHANGED phase
      BY <1>2 DEF Outage, Recovery, IdleScan, net
    <2> QED BY <1>0, <1>1, <1>9, <2>1, QuietStep
  <1>3. ASSUME NEW c \in Conn, HandshakeTimer(c) PROVE IInv'
    <2>1. UNCHANGED phase
      BY <1>3 DEF HandshakeTimer
    <2> QED BY <1>0, <1>1, <1>9, <2>1, QuietStep
  <1>4. ASSUME NEW c \in Conn, Accept(c) \/ Close(c) \/ CleanupConn(c) PROVE IInv'
    <2>1. \/ phase[c] = "new" /\ phase' = [phase EXCEPT ![c] = "open"]
          \/ /\ phase[c] = "open" /\ handler[c].pc = "idle"
             /\ phase' = [phase EXCEPT ![c] = "ended"]
          \/ phase[c] = "cleanup" /\ phase' = [phase EXCEPT ![c] = "gone"]
      BY <1>4 DEF Accept, Close, CleanupConn
    <2>2. phase' \in [Conn -> {"new", "open", "ended", "cleanup", "gone"}]
      BY <1>0, <2>1
    <2>3. \A d \in Conn : phase[d] \in {"open", "ended"} => phase'[d] \in {"open", "ended"}
      BY <1>0, <2>1
    <2>4. \A d \in Conn : handler[d].pc # "idle" => phase'[d] = "open"
      BY <1>0, <2>1
    <2> QED BY <1>1, <1>9, <2>2, <2>3, <2>4, QuietStep
  <1> QED BY <1>2, <1>3, <1>4

\* CleanupSession, HandshakeLate, Terminate, IdleCheck.
LEMMA RemovalKeeps ==
  ASSUME IInv,
         \/ \E c \in Conn : CleanupSession(c) \/ HandshakeLate(c) \/ Terminate(c)
         \/ IdleCheck
  PROVE  IInv'
  <1>0. /\ phase \in [Conn -> {"new", "open", "ended", "cleanup", "gone"}]
        /\ \A c \in Conn : handler[c].pc # "idle" => phase[c] = "open"
        /\ idle \subseteq Sid \X Conn
    BY DEF IInv, TypeOK, HandlerSound
  <1>9. idle' \subseteq Sid \X Conn
    BY <1>0 DEF CleanupSession, HandshakeLate, Terminate, IdleCheck
  <1>1. UNCHANGED <<handler, job, row, map, logouts, key, buffer, retry, told, dropped, stale>>
    BY DEF CleanupSession, HandshakeLate, Terminate, IdleCheck, store, history
  <1>2. /\ \A c \in Conn : RemoveByConnId(c) \in Update /\ RemoveByConnId(c).op # "insert"
        /\ \A s \in Sid : Remove(s) \in Update /\ Remove(s).op # "insert"
    BY DEF Update, RemoveByConnId, Remove
  <1>3. ASSUME NEW c \in Conn, CleanupSession(c) PROVE IInv'
    <2>1. /\ phase[c] = "ended" /\ phase' = [phase EXCEPT ![c] = "cleanup"]
          /\ queue' = Append(queue, RemoveByConnId(c))
      BY <1>3 DEF CleanupSession, Send
    <2>2. phase' \in [Conn -> {"new", "open", "ended", "cleanup", "gone"}]
      BY <1>0, <2>1
    <2>3. \A d \in Conn : phase[d] \in {"open", "ended"} =>
             phase'[d] \in {"open", "ended"} \/ RemoveByConnId(c) = RemoveByConnId(d)
      BY <1>0, <2>1
    <2>4. \A d \in Conn : handler[d].pc # "idle" => phase'[d] = "open"
      BY <1>0, <2>1
    <2> QED BY <1>1, <1>2, <1>9, <2>1, <2>2, <2>3, <2>4, SendStep
  <1>4. ASSUME UNCHANGED phase, NEW u \in Update, u.op # "insert", queue' = Append(queue, u)
        PROVE  IInv'
    BY <1>0, <1>1, <1>4, <1>9, SendStep
  <1>5. ASSUME NEW c \in Conn, HandshakeLate(c) PROVE IInv'
    <2>1. UNCHANGED phase /\ queue' = Append(queue, RemoveByConnId(c))
      BY <1>5 DEF HandshakeLate, Send
    <2> QED BY <1>2, <1>4, <2>1
  <1>6. ASSUME NEW c \in Conn, Terminate(c) PROVE IInv'
    <2>1. UNCHANGED phase /\ \E s \in Sid : queue' = Append(queue, Remove(s))
      BY <1>6 DEF Terminate, Send, net
    <2> QED BY <1>2, <1>4, <2>1
  <1>7. CASE IdleCheck
    <2>1. UNCHANGED phase
      BY <1>7 DEF IdleCheck, net
    <2>2. PICK e \in idle : queue' = Append(queue, Remove(e[1])) \/ UNCHANGED queue
      BY <1>7 DEF IdleCheck, Send
    <2>3. e[1] \in Sid
      BY <1>0
    <2>4. CASE queue' = Append(queue, Remove(e[1]))
      BY <1>2, <1>4, <2>1, <2>3, <2>4
    <2>5. CASE UNCHANGED queue
      BY <1>0, <1>1, <1>9, <2>1, <2>5, QuietStep
    <2> QED BY <2>2, <2>4, <2>5
  <1> QED BY <1>3, <1>5, <1>6, <1>7

-----------------------------------------------------------------------------
(* handle_connect *)

Handler == [pc : {"idle", "insert", "result", "register"}, save : Saved \cup {NoSave},
            result : {"none", "ok", "duplicate", "error", "panic"}]

LEMMA NoHandlerTyped == NoHandler \in Handler /\ NoHandler.pc = "idle"
  BY DEF NoHandler, Handler

\* A save is no session that there is none of.
LEMMA SavedFacts ==
  ASSUME NEW v \in Saved
  PROVE  /\ v.sid \in Sid /\ v.state \in {"open", "out"} /\ v # NoSave
         /\ v.state = "open" => v = Save(v.sid, "open")
         /\ \A s \in Sid, st \in {"open", "out"} : Save(s, st) = v => s = v.sid /\ st = v.state
  <1>1. v.sid \in Sid /\ v.state \in {"open", "out"}
    BY DEF Saved, Decision
  <1>2. v # NoSave
    BY <1>1, Ids DEF NoSave
  <1>3. v = Save(v.sid, v.state)
    BY DEF Saved, Save
  <1>4. ASSUME NEW s \in Sid, NEW st \in {"open", "out"}, Save(s, st) = v
        PROVE  s = v.sid /\ st = v.state
    BY <1>4 DEF Save
  <1> QED BY <1>1, <1>2, <1>3, <1>4

\* Cancel: the handler is gone, its session is stale.
LEMMA CancelKeeps ==
  ASSUME IInv, NEW c \in Conn, Cancel(c)
  PROVE  IInv'
  <1>1. /\ UNCHANGED <<job, row, map, queue, logouts, idle, key, buffer, retry, told, dropped>>
        /\ phase[c] = "open" /\ phase' = [phase EXCEPT ![c] = "ended"]
        /\ handler' = [handler EXCEPT ![c] = NoHandler]
        /\ stale' = stale \cup {s \in Sid : handler[c].pc \in {"insert", "result", "register"}
                                            /\ handler[c].save = Save(s, "open")}
    BY DEF Cancel, store
  <1>2. /\ phase \in [Conn -> {"new", "open", "ended", "cleanup", "gone"}]
        /\ handler \in [Conn -> Handler]
    BY DEF IInv, TypeOK, Handler
  <1>3. /\ phase' \in [Conn -> {"new", "open", "ended", "cleanup", "gone"}]
        /\ phase'[c] = "ended" /\ \A d \in Conn \ {c} : phase'[d] = phase[d]
    BY <1>1, <1>2
  <1>4. /\ handler' \in [Conn -> Handler]
        /\ handler'[c] = NoHandler /\ \A d \in Conn \ {c} : handler'[d] = handler[d]
    BY <1>1, <1>2, NoHandlerTyped
  <1>5. TypeOK'
    BY <1>1, <1>3, <1>4 DEF IInv, TypeOK, Handler
  <1>6. Monotone
    BY <1>1, StoreQuiet
  <1>7. ASSUME NEW d \in Conn PROVE HandlerSound(d)'
    <2>1. CASE d # c
      <3>1. handler[d].pc # "idle" => phase'[d] = "open"
        BY <1>3, <2>1 DEF IInv, HandlerSound
      <3> QED BY <1>1, <1>4, <1>6, <2>1, <3>1, HandlerStays
    <2>2. CASE d = c
      <3>1. HandlerSound(c) /\ job[c] \in Saved \cup {NoSave}
        BY DEF IInv, TypeOK
      <3>2. ASSUME job[c] # NoSave, job[c].state = "open" PROVE job[c].sid \in stale'
        <4>1. CASE handler[c].pc = "insert"
          <5>1. handler[c].save = job[c] /\ job[c] \in Saved
            BY <3>1, <3>2, <4>1 DEF HandlerSound
          <5>2. job[c].sid \in Sid /\ job[c] = Save(job[c].sid, "open")
            BY <3>2, <5>1, SavedFacts
          <5> QED BY <1>1, <4>1, <5>1, <5>2
        <4>2. CASE handler[c].pc # "insert"
          BY <1>1, <3>1, <3>2, <4>2 DEF HandlerSound
        <4> QED BY <4>1, <4>2
      <3>3. handler'[c].pc = "idle"
        BY <1>4, NoHandlerTyped
      <3> QED BY <1>1, <2>2, <3>2, <3>3 DEF HandlerSound
    <2> QED BY <2>1, <2>2
  <1>8. QueueSound' /\ MapFollowsConnections'
    BY <1>1, <1>2, <1>3, MapStays
  <1>9. RetrySound' /\ SavesKept'
    BY <1>1, <1>6, RetryStays, ToldStays
  <1>10. OpenRowsHaveAnEnd'
    <2>1. ASSUME NEW s \in Sid, LogoutToCome(s), s \notin stale' PROVE LogoutToCome(s)'
      <3>1. CASE \E d \in Conn : handler[d].pc # "idle" /\ handler[d].save = Save(s, "open")
        <4>1. PICK d \in Conn : handler[d].pc # "idle" /\ handler[d].save = Save(s, "open")
          BY <3>1
        <4>2. handler[d].pc \in {"insert", "result", "register"}
          BY <1>2, <4>1 DEF Handler
        <4>3. d # c
          BY <1>1, <2>1, <4>1, <4>2
        <4> QED BY <1>4, <4>1, <4>3 DEF LogoutToCome
      <3>2. CASE map[s] # None \/ s \in logouts \/ \E d \in Conn : Queued(Insert(s, d))
        BY <1>1, <3>2 DEF LogoutToCome, Queued
      <3> QED BY <2>1, <3>1, <3>2 DEF LogoutToCome
    <2> QED BY <1>1, <2>1, EndKeeps
  <1> QED BY <1>5, <1>7, <1>8, <1>9, <1>10 DEF IInv

\* ConnectStart: the insert of a new session is handed over.
LEMMA ConnectKeeps ==
  ASSUME IInv, NEW c \in Conn, ConnectStart(c)
  PROVE  IInv'
  <1>1. /\ UNCHANGED <<phase, row, map, queue, logouts, idle, key, buffer, retry, told, dropped, stale>>
        /\ phase[c] = "open" /\ handler[c].pc = "idle"
    BY DEF ConnectStart, store, net, history
  <1>2. PICK s \in Sid, st \in Decision :
              /\ handler' = [handler EXCEPT ![c] =
                                [pc |-> "insert", save |-> Save(s, st), result |-> "none"]]
              /\ job' = [job EXCEPT ![c] = Save(s, st)]
    BY DEF ConnectStart
  <1> DEFINE v == Save(s, st)
             h == [pc |-> "insert", save |-> v, result |-> "none"]
  <1>3. v \in Saved
    BY DEF Save, Saved
  <1> HIDE DEF v
  <1>4. h \in Handler /\ h.pc = "insert" /\ h.save = v
    BY <1>3 DEF Handler
  <1>5. handler' = [handler EXCEPT ![c] = h] /\ job' = [job EXCEPT ![c] = v]
    BY <1>2 DEF v
  <1> HIDE DEF h
  <1>6. handler \in [Conn -> Handler] /\ job \in [Conn -> Saved \cup {NoSave}]
    BY DEF IInv, TypeOK, Handler
  <1>7. /\ handler' \in [Conn -> Handler] /\ job' \in [Conn -> Saved \cup {NoSave}]
        /\ handler'[c] = h /\ job'[c] = v
        /\ \A d \in Conn \ {c} : handler'[d] = handler[d] /\ job'[d] = job[d]
    BY <1>3, <1>4, <1>5, <1>6
  <1>8. TypeOK'
    BY <1>1, <1>7 DEF IInv, TypeOK, Handler
  <1>9. Monotone
    BY <1>1, StoreQuiet
  <1>10. ASSUME NEW d \in Conn PROVE HandlerSound(d)'
    <2>1. CASE d # c
      <3>1. handler[d].pc # "idle" => phase'[d] = "open"
        BY <1>1 DEF IInv, HandlerSound
      <3> QED BY <1>7, <1>9, <2>1, <3>1, HandlerStays
    <2>2. CASE d = c
      BY <1>1, <1>3, <1>4, <1>7, <2>2 DEF HandlerSound
    <2> QED BY <2>1, <2>2
  <1>11. QueueSound' /\ MapFollowsConnections'
    BY <1>1, MapStays
  <1>12. RetrySound' /\ SavesKept'
    BY <1>1, <1>9, RetryStays, ToldStays
  <1>13. OpenRowsHaveAnEnd'
    <2>1. ASSUME NEW x \in Sid, LogoutToCome(x) PROVE LogoutToCome(x)'
      <3>1. ASSUME NEW d \in Conn, handler[d].pc # "idle", handler[d].save = Save(x, "open")
            PROVE  handler'[d].pc # "idle" /\ handler'[d].save = Save(x, "open")
        BY <1>1, <1>7, <3>1
      <3> QED BY <1>1, <2>1, <3>1 DEF LogoutToCome, Queued
    <2> QED BY <1>1, <2>1, EndKeeps
  <1> QED BY <1>8, <1>10, <1>11, <1>12, <1>13 DEF IInv

\* DbInsert: the insert ends, with or without its handler.
LEMMA InsertKeeps ==
  ASSUME IInv, NEW c \in Conn, DbInsert(c)
  PROVE  IInv'
  <1>1. /\ UNCHANGED <<phase, map, queue, logouts, idle, key, buffer, retry, told, dropped, stale>>
        /\ job[c] # NoSave /\ job' = [job EXCEPT ![c] = NoSave]
    BY DEF DbInsert, store, net, history
  <1> DEFINE v == job[c]
             s == v.sid
  <1>2. PICK result \in {"ok", "duplicate", "error", "panic"}, stored \in BOOLEAN :
              /\ stored => row[s] = "none"
              /\ result \notin {"error", "panic"} /\ ~stored => row[s] # "none"
              /\ row' = IF stored THEN [row EXCEPT ![s] = v.state] ELSE row
              /\ handler' = IF handler[c].pc = "insert"
                            THEN [handler EXCEPT ![c].pc = "result", ![c].result = result]
                            ELSE handler
    <2>1. PICK result \in {"ok", "duplicate", "error", "panic"}, stored \in BOOLEAN :
              /\ \/ result = "ok" /\ row[s] = "none" /\ stored /\ Works("db")
                 \/ result = "duplicate" /\ row[s] # "none" /\ ~stored /\ Works("db")
                 \/ result = "error" /\ (stored => row[s] = "none") /\ Fails("db")
                 \/ result = "panic" /\ (stored => row[s] = "none") /\ "panic" \in limit.kinds
              /\ row' = IF stored THEN [row EXCEPT ![s] = v.state] ELSE row
              /\ handler' = IF handler[c].pc = "insert"
                            THEN [handler EXCEPT ![c].pc = "result", ![c].result = result]
                            ELSE handler
      BY DEF DbInsert
    <2>2. /\ stored => row[s] = "none"
          /\ result \notin {"error", "panic"} /\ ~stored => row[s] # "none"
      BY <2>1
    <2> QED BY <2>1, <2>2
  <1>3. /\ handler \in [Conn -> Handler] /\ job \in [Conn -> Saved \cup {NoSave}]
        /\ row \in [Sid -> {"none", "open", "out"}] /\ HandlerSound(c)
    BY DEF IInv, TypeOK, Handler
  <1>4. v \in Saved /\ s \in Sid /\ v.state \in {"open", "out"}
    BY <1>1, <1>3, SavedFacts
  <1> HIDE DEF v, s
  <1>5. /\ row' \in [Sid -> {"none", "open", "out"}]
        /\ \A x \in Sid : row[x] # "none" => row'[x] = row[x]
        /\ \A x \in Sid : row'[x] = row[x] \/ (x = s /\ row'[x] = v.state)
        /\ result \notin {"error", "panic"} => row'[s] # "none"
    <2>1. CASE stored
      BY <1>2, <1>3, <1>4, <2>1
    <2>2. CASE ~stored
      BY <1>2, <1>3, <2>2
    <2> QED BY <2>1, <2>2
  <1>6. /\ job' \in [Conn -> Saved \cup {NoSave}] /\ job'[c] = NoSave
        /\ \A d \in Conn \ {c} : job'[d] = job[d]
    BY <1>1, <1>3
  <1>7. /\ handler' \in [Conn -> Handler]
        /\ \A d \in Conn \ {c} : handler'[d] = handler[d]
        /\ handler[c].pc # "insert" => handler'[c] = handler[c]
        /\ handler[c].pc = "insert" => /\ handler'[c].pc = "result" /\ handler'[c].result = result
                                       /\ handler'[c].save = handler[c].save
    <2>1. CASE handler[c].pc = "insert"
      BY <1>2, <1>3, <2>1 DEF Handler
    <2>2. CASE handler[c].pc # "insert"
      BY <1>2, <1>3, <2>2
    <2> QED BY <2>1, <2>2
  <1>8. TypeOK'
    BY <1>1, <1>5, <1>6, <1>7 DEF IInv, TypeOK, Handler
  <1>9. Monotone
    BY <1>1, <1>5 DEF Monotone, Kept, KeptNext
  <1>10. ASSUME NEW d \in Conn PROVE HandlerSound(d)'
    <2>1. CASE d # c
      <3>1. handler[d].pc # "idle" => phase'[d] = "open"
        BY <1>1 DEF IInv, HandlerSound
      <3> QED BY <1>6, <1>7, <1>9, <2>1, <3>1, HandlerStays
    <2>2. CASE d = c /\ handler[c].pc = "insert"
      <3>1. phase[c] = "open" /\ handler[c].save = v /\ handler[c].save.sid = s
        BY <1>3, <2>2 DEF HandlerSound, v, s
      <3> QED BY <1>1, <1>4, <1>5, <1>6, <1>7, <2>2, <3>1 DEF HandlerSound
    <2>3. CASE d = c /\ handler[c].pc # "insert"
      <3> DEFINE h == handler[c]
      <3>1. h.pc # "idle" => /\ phase[c] = "open" /\ h.save \in Saved /\ h.save.sid \in Sid
        BY <1>3 DEF HandlerSound, Saved
      <3>2. h.pc = "result" /\ h.result \notin {"error", "panic"} => row'[h.save.sid] # "none"
        BY <1>3, <1>9, <3>1 DEF HandlerSound, Monotone
      <3>3. h.pc = "register" => KeptNext(h.save.sid) \/ h.save.sid \in dropped'
        BY <1>3, <1>9, <3>1 DEF HandlerSound, Monotone
      <3> HIDE DEF h
      <3>4. handler'[c] = h /\ h.pc # "insert"
        BY <1>7, <2>3 DEF h
      <3> QED BY <1>1, <1>6, <2>3, <3>1, <3>2, <3>3, <3>4 DEF HandlerSound, Kept, KeptNext
    <2> QED BY <2>1, <2>2, <2>3
  <1>11. QueueSound' /\ MapFollowsConnections'
    BY <1>1, MapStays
  <1>12. RetrySound' /\ SavesKept'
    BY <1>1, <1>9, RetryStays, ToldStays
  <1>13. OpenRowsHaveAnEnd'
    <2>1. ASSUME NEW x \in Sid, LogoutToCome(x) PROVE LogoutToCome(x)'
      <3>1. ASSUME NEW d \in Conn, handler[d].pc # "idle", handler[d].save = Save(x, "open")
            PROVE  handler'[d].pc # "idle" /\ handler'[d].save = Save(x, "open")
        BY <1>7, <3>1
      <3> QED BY <1>1, <2>1, <3>1 DEF LogoutToCome, Queued
    <2>2. ASSUME NEW x \in Sid, row'[x] = "open", row[x] # "open"
          PROVE  LogoutToCome(x)' \/ x \in stale'
      <3>1. x = s /\ v.state = "open"
        BY <1>5, <2>2
      <3>2. CASE handler[c].pc = "insert"
        <4>1. handler[c].save = v /\ v = Save(x, "open")
          BY <1>3, <1>4, <3>1, <3>2, SavedFacts DEF HandlerSound, v, s
        <4> QED BY <1>7, <3>2, <4>1 DEF LogoutToCome
      <3>3. CASE handler[c].pc # "insert"
        BY <1>1, <1>3, <3>1, <3>3 DEF HandlerSound, v, s
      <3> QED BY <3>2, <3>3
    <2> QED BY <1>1, <2>1, <2>2, EndKeeps
  <1> QED BY <1>8, <1>10, <1>11, <1>12, <1>13 DEF IInv

\* enqueue_tcoc_session: the save is kept, and the one it displaces is given up.
LEMMA EnqueueKeeps ==
  ASSUME TypeOK, NEW v \in Saved, Enqueue(v), UNCHANGED <<row, retry, stale>>
  PROVE  /\ key' \in [Sid -> {"none", "open", "out"}]
         /\ buffer' \in Seq(Saved) /\ Len(buffer') <= BUFFER_MAX_SESSIONS
         /\ Monotone /\ KeptNext(v.sid)
  <1>1. /\ key \in [Sid -> {"none", "open", "out"}] /\ buffer \in Seq(Saved)
        /\ Len(buffer) <= BUFFER_MAX_SESSIONS /\ BUFFER_MAX_SESSIONS \in Nat \ {0}
        /\ v.sid \in Sid /\ v.state \in {"open", "out"}
    BY SessionsAssumption, SavedFacts DEF TypeOK
  <1>2. CASE key' = [key EXCEPT ![v.sid] = v.state] /\ UNCHANGED <<buffer, dropped>>
    <2>1. /\ key' \in [Sid -> {"none", "open", "out"}] /\ key'[v.sid] # "none"
          /\ \A s \in Sid : key[s] # "none" => key'[s] # "none"
      BY <1>1, <1>2
    <2>2. Monotone
      BY <1>2, <2>1 DEF Monotone, Kept, KeptNext
    <2> QED BY <1>1, <1>2, <2>1, <2>2 DEF KeptNext
  <1>3. CASE /\ UNCHANGED key
             /\ Len(buffer) < BUFFER_MAX_SESSIONS
             /\ buffer' = Append(buffer, v) /\ UNCHANGED dropped
    <2>1. buffer' \in Seq(Saved) /\ Len(buffer') = Len(buffer) + 1 /\ Len(buffer) \in Nat
      BY <1>1, <1>3, AppendFacts
    <2>2. /\ \A i \in DOMAIN buffer : i \in DOMAIN buffer' /\ buffer'[i] = buffer[i]
          /\ \E j \in DOMAIN buffer' : buffer'[j] = v
      BY <1>1, <1>3, AppendOrder
    <2>3. KeptNext(v.sid)
      BY <2>2 DEF KeptNext
    <2>4. Monotone
      BY <1>3, <2>2 DEF Monotone, Kept, KeptNext
    <2>5. Len(buffer') <= BUFFER_MAX_SESSIONS
      BY <1>1, <1>3, <2>1
    <2> QED BY <1>1, <1>3, <2>1, <2>3, <2>4, <2>5
  <1>4. CASE /\ UNCHANGED key
             /\ Len(buffer) >= BUFFER_MAX_SESSIONS
             /\ buffer' = Append(Tail(buffer), v) /\ dropped' = dropped \cup {Head(buffer).sid}
    <2>1. buffer # <<>>
      BY <1>1, <1>4
    <2>2. /\ Tail(buffer) \in Seq(Saved) /\ Len(Tail(buffer)) = Len(buffer) - 1
          /\ Len(buffer) \in Nat
          /\ \A i \in DOMAIN buffer :
                i = 1 \/ (i - 1 \in DOMAIN Tail(buffer) /\ Tail(buffer)[i - 1] = buffer[i])
          /\ Head(buffer) = buffer[1]
      BY <1>1, <2>1, TailOrder
    <2> DEFINE q == Tail(buffer)
    <2> HIDE DEF q
    <2>3. q \in Seq(Saved) /\ buffer' = Append(q, v)
      BY <1>4, <2>2 DEF q
    <2>4. buffer' \in Seq(Saved) /\ Len(buffer') = Len(q) + 1
      BY <2>3, AppendFacts
    <2>5. /\ \A i \in DOMAIN q : i \in DOMAIN buffer' /\ buffer'[i] = q[i]
          /\ \E j \in DOMAIN buffer' : buffer'[j] = v
      BY <2>3, AppendOrder
    <2>6. KeptNext(v.sid)
      BY <2>5 DEF KeptNext
    <2>7. ASSUME NEW i \in DOMAIN buffer
          PROVE  buffer[i].sid \in dropped' \/ \E j \in DOMAIN buffer' : buffer'[j].sid = buffer[i].sid
      <3>1. CASE i = 1
        BY <1>4, <2>2, <3>1
      <3>2. CASE i # 1
        <4>1. i - 1 \in DOMAIN q /\ q[i - 1] = buffer[i]
          BY <2>2, <3>2 DEF q
        <4> QED BY <2>5, <4>1
      <3> QED BY <3>1, <3>2
    <2>8. Monotone
      BY <1>4, <2>7 DEF Monotone, Kept, KeptNext
    <2>9. Len(buffer') <= BUFFER_MAX_SESSIONS
      BY <1>1, <2>2, <2>4 DEF q
    <2> QED BY <1>1, <1>4, <2>4, <2>6, <2>8, <2>9
  <1>5. Len(buffer) < BUFFER_MAX_SESSIONS \/ Len(buffer) >= BUFFER_MAX_SESSIONS
    BY <1>1
  <1> QED BY <1>1, <1>2, <1>3, <1>4, <1>5 DEF Enqueue

\* SaveResult: an error is queued, a panic gives the save up.
LEMMA ResultKeeps ==
  ASSUME IInv, NEW c \in Conn, SaveResult(c)
  PROVE  IInv'
  <1> DEFINE v == handler[c].save
  <1>1. /\ UNCHANGED <<phase, job, row, map, queue, logouts, idle, retry, told, stale>>
        /\ handler[c].pc = "result" /\ handler' = [handler EXCEPT ![c].pc = "register"]
        /\ \/ handler[c].result = "error" /\ Enqueue(v)
           \/ /\ handler[c].result = "panic" /\ dropped' = dropped \cup {v.sid}
              /\ UNCHANGED <<key, buffer>>
           \/ handler[c].result \notin {"error", "panic"} /\ UNCHANGED <<key, buffer, dropped>>
    BY DEF SaveResult, net
  <1>2. /\ TypeOK /\ handler \in [Conn -> Handler] /\ HandlerSound(c)
    BY DEF IInv, TypeOK, Handler
  <1>3. v \in Saved /\ v.sid \in Sid /\ phase[c] = "open"
    BY <1>1, <1>2, SavedFacts DEF HandlerSound
  <1>4. /\ handler' \in [Conn -> Handler] /\ handler'[c].pc = "register" /\ handler'[c].save = v
        /\ \A d \in Conn \ {c} : handler'[d] = handler[d]
    BY <1>1, <1>2 DEF Handler
  <1> HIDE DEF v
  <1>5. /\ key' \in [Sid -> {"none", "open", "out"}]
        /\ buffer' \in Seq(Saved) /\ Len(buffer') <= BUFFER_MAX_SESSIONS
        /\ Monotone /\ (KeptNext(v.sid) \/ v.sid \in dropped')
    <2>1. CASE Enqueue(v)
      BY <1>1, <1>2, <1>3, <2>1, EnqueueKeeps
    <2>2. CASE handler[c].result \notin {"error", "panic"} /\ UNCHANGED <<key, buffer, dropped>>
      <3>1. row[v.sid] # "none"
        BY <1>1, <1>2, <2>2 DEF HandlerSound, v
      <3>2. Monotone
        BY <1>1, <2>2, StoreQuiet
      <3> QED BY <1>1, <1>2, <2>2, <3>1, <3>2 DEF TypeOK, KeptNext
    <2>3. CASE dropped' = dropped \cup {v.sid} /\ UNCHANGED <<key, buffer>>
      <3>1. Monotone
        BY <1>1, <2>3 DEF Monotone, Kept, KeptNext
      <3> QED BY <1>1, <1>2, <2>3, <3>1 DEF TypeOK
    <2> QED BY <1>1, <2>1, <2>2, <2>3
  <1>6. TypeOK'
    BY <1>1, <1>2, <1>4, <1>5 DEF TypeOK, Handler
  <1>7. ASSUME NEW d \in Conn PROVE HandlerSound(d)'
    <2>1. CASE d # c
      <3>1. handler[d].pc # "idle" => phase'[d] = "open"
        BY <1>1 DEF IInv, HandlerSound
      <3> QED BY <1>1, <1>4, <1>5, <2>1, <3>1, HandlerStays
    <2>2. CASE d = c
      <3>1. job[c] # NoSave => (job[c].state = "open" => job[c].sid \in stale)
        BY <1>1, <1>2 DEF HandlerSound
      <3> QED BY <1>1, <1>3, <1>4, <1>5, <2>2, <3>1 DEF HandlerSound, Kept, KeptNext
    <2> QED BY <2>1, <2>2
  <1>8. QueueSound' /\ MapFollowsConnections'
    BY <1>1, MapStays
  <1>9. RetrySound' /\ SavesKept'
    BY <1>1, <1>5, RetryStays, ToldStays
  <1>10. OpenRowsHaveAnEnd'
    <2>1. ASSUME NEW x \in Sid, LogoutToCome(x) PROVE LogoutToCome(x)'
      <3>1. ASSUME NEW d \in Conn, handler[d].pc # "idle", handler[d].save = Save(x, "open")
            PROVE  handler'[d].pc # "idle" /\ handler'[d].save = Save(x, "open")
        BY <1>4, <3>1 DEF v
      <3> QED BY <1>1, <2>1, <3>1 DEF LogoutToCome, Queued
    <2> QED BY <1>1, <2>1, EndKeeps
  <1> QED BY <1>6, <1>7, <1>8, <1>9, <1>10 DEF IInv

\* Register: an accepted session is announced and answered.
LEMMA RegisterKeeps ==
  ASSUME IInv, NEW c \in Conn, Register(c)
  PROVE  IInv'
  <1> DEFINE v == handler[c].save
  <1>1. /\ UNCHANGED <<phase, job, row, map, logouts, idle, key, buffer, retry, dropped, stale>>
        /\ handler[c].pc = "register" /\ handler' = [handler EXCEPT ![c] = NoHandler]
        /\ \/ /\ v.state = "open" /\ queue' = Append(queue, Insert(v.sid, c))
              /\ told' = told \cup {v.sid}
           \/ v.state # "open" /\ UNCHANGED <<queue, told>>
    BY DEF Register, net, store, Send
  <1>2. /\ TypeOK /\ handler \in [Conn -> Handler] /\ HandlerSound(c) /\ queue \in Seq(Update)
        /\ told \subseteq Sid
    BY DEF IInv, TypeOK, Handler
  <1>3. /\ v \in Saved /\ v.sid \in Sid /\ phase[c] = "open"
        /\ Kept(v.sid) \/ v.sid \in dropped
    BY <1>1, <1>2, SavedFacts DEF HandlerSound
  <1>4. /\ handler' \in [Conn -> Handler] /\ handler'[c] = NoHandler /\ handler'[c].pc = "idle"
        /\ \A d \in Conn \ {c} : handler'[d] = handler[d]
    BY <1>1, <1>2, NoHandlerTyped
  <1> HIDE DEF v
  <1>5. queue' \in Seq(Update) /\ QueueSound' /\ MapFollowsConnections'
    <2>1. CASE UNCHANGED queue
      BY <1>1, <1>2, <2>1, MapStays
    <2>2. CASE queue' = Append(queue, Insert(v.sid, c))
      <3>1. /\ Insert(v.sid, c) \in Update /\ Insert(v.sid, c).conn = c
        BY <1>3 DEF Update, Insert
      <3>2. phase'[c] \in {"open", "ended"}
        BY <1>1, <1>3
      <3> QED BY <1>1, <2>2, <3>1, <3>2, SendKeeps
    <2> QED BY <1>1, <2>1, <2>2
  <1>6. told' \subseteq Sid /\ told' \subseteq told \cup {v.sid}
    BY <1>1, <1>2, <1>3
  <1>7. TypeOK'
    BY <1>1, <1>2, <1>4, <1>5, <1>6 DEF TypeOK, Handler
  <1>8. Monotone
    BY <1>1, StoreQuiet
  <1>9. ASSUME NEW d \in Conn PROVE HandlerSound(d)'
    <2>1. CASE d # c
      <3>1. handler[d].pc # "idle" => phase'[d] = "open"
        BY <1>1 DEF IInv, HandlerSound
      <3> QED BY <1>1, <1>4, <1>8, <2>1, <3>1, HandlerStays
    <2>2. CASE d = c
      <3>1. job[c] # NoSave => (job[c].state = "open" => job[c].sid \in stale)
        BY <1>1, <1>2 DEF HandlerSound
      <3> QED BY <1>1, <1>4, <2>2, <3>1 DEF HandlerSound
    <2> QED BY <2>1, <2>2
  <1>10. RetrySound'
    BY <1>1, <1>8, RetryStays
  <1>11. SavesKept'
    <2>1. \A s \in told' \ dropped : Kept(s)
      BY <1>3, <1>6 DEF IInv, SavesKept
    <2> QED BY <1>1, <2>1 DEF SavesKept, Kept
  <1>12. OpenRowsHaveAnEnd'
    <2>1. ASSUME NEW x \in Sid, LogoutToCome(x) PROVE LogoutToCome(x)'
      <3>1. \A i \in DOMAIN queue : i \in DOMAIN queue' /\ queue'[i] = queue[i]
        <4>1. CASE UNCHANGED queue
          BY <4>1
        <4>2. CASE queue' = Append(queue, Insert(v.sid, c))
          <5>1. Insert(v.sid, c) \in Update
            BY <1>3 DEF Update, Insert
          <5> QED BY <1>2, <4>2, <5>1, AppendOrder
        <4> QED BY <1>1, <4>1, <4>2
      <3>2. ASSUME NEW d \in Conn, handler[d].pc # "idle", handler[d].save = Save(x, "open")
            PROVE  \/ handler'[d].pc # "idle" /\ handler'[d].save = Save(x, "open")
                   \/ \E i \in DOMAIN queue' : queue'[i] = Insert(x, d)
        <4>1. CASE d # c
          BY <1>4, <3>2, <4>1
        <4>2. CASE d = c
          <5>1. v = Save(x, "open") /\ v.sid = x /\ v.state = "open"
            BY <3>2, <4>2 DEF v, Save
          <5>2. queue' = Append(queue, Insert(x, c)) /\ Insert(x, c) \in Update
            BY <1>1, <5>1 DEF Update
          <5> QED BY <1>2, <4>2, <5>2, AppendOrder
        <4> QED BY <4>1, <4>2
      <3> QED BY <1>1, <2>1, <3>1, <3>2 DEF LogoutToCome, Queued
    <2> QED BY <1>1, <2>1, EndKeeps
  <1> QED BY <1>5, <1>7, <1>9, <1>10, <1>11, <1>12 DEF IInv

-----------------------------------------------------------------------------
(* The session map *)

\* Process: the oldest update of the channel is applied.
LEMMA ProcessKeeps ==
  ASSUME IInv, Process
  PROVE  IInv'
  <1> DEFINE u == Head(queue)
  <1>1. /\ UNCHANGED <<phase, handler, job, row, idle, key, buffer, retry, told, dropped, stale>>
        /\ queue # <<>> /\ queue' = Tail(queue) /\ logouts' = logouts \cup Removed(u)
        /\ map' = [s \in Sid |-> IF s \in Removed(u) THEN None
                                 ELSE IF u.op = "insert" /\ s = u.sid THEN u.conn ELSE map[s]]
    BY DEF Process, net, store, history
  <1>2. /\ queue \in Seq(Update) /\ map \in [Sid -> Conn \cup {None}]
        /\ QueueSound /\ MapFollowsConnections
    BY DEF IInv, TypeOK
  <1>3. /\ u \in Update /\ queue' \in Seq(Update)
        /\ \A i \in DOMAIN queue' : i + 1 \in DOMAIN queue /\ queue'[i] = queue[i + 1]
        /\ \A i \in DOMAIN queue : i = 1 \/ (i - 1 \in DOMAIN queue' /\ queue'[i - 1] = queue[i])
        /\ 1 \in DOMAIN queue /\ u = queue[1]
        /\ DOMAIN queue \subseteq Nat /\ DOMAIN queue' \subseteq Nat
    BY <1>1, <1>2, TailOrder
  <1> HIDE DEF u
  <1>4. /\ u.op = "insert" => u.sid \in Sid /\ u.conn \in Conn /\ Removed(u) = {}
        /\ \A s \in Sid : u = RemoveByConnId(map[s]) => s \in Removed(u)
        /\ \A s \in Sid, c \in Conn : u = Insert(s, c) =>
              u.op = "insert" /\ u.sid = s /\ u.conn = c
    BY <1>3 DEF Update, Insert, Remove, RemoveByConnId, Removed
  <1>5. /\ map' \in [Sid -> Conn \cup {None}]
        /\ \A s \in Sid : map'[s] = None \/ map'[s] = map[s]
              \/ (u.op = "insert" /\ s = u.sid /\ map'[s] = u.conn)
        /\ \A s \in Sid : map[s] # None => map'[s] # None \/ s \in logouts'
        /\ \A s \in Removed(u) \cap Sid : map'[s] = None
    BY <1>1, <1>2, <1>4, Ids
  <1>6. TypeOK'
    BY <1>1, <1>3, <1>5 DEF IInv, TypeOK
  <1>7. Monotone
    BY <1>1, StoreQuiet
  <1>8. ASSUME NEW c \in Conn PROVE HandlerSound(c)'
    <2>1. handler[c].pc # "idle" => phase'[c] = "open"
      BY <1>1 DEF IInv, HandlerSound
    <2> QED BY <1>1, <1>7, <2>1, HandlerStays
  <1>9. MapFollowsConnections'
    <2> SUFFICES ASSUME NEW s \in Sid, map'[s] # None
                 PROVE  \/ phase[map'[s]] \in {"open", "ended"}
                        \/ \E j \in DOMAIN queue' : queue'[j] = RemoveByConnId(map'[s])
      BY <1>1 DEF MapFollowsConnections, Queued
    <2>1. CASE map'[s] = map[s]
      <3>1. \/ phase[map[s]] \in {"open", "ended"}
            \/ \E j \in DOMAIN queue : queue[j] = RemoveByConnId(map[s])
        BY <1>2, <2>1 DEF MapFollowsConnections, Queued
      <3>2. ASSUME NEW j \in DOMAIN queue, queue[j] = RemoveByConnId(map[s])
            PROVE  \E i \in DOMAIN queue' : queue'[i] = RemoveByConnId(map'[s])
        <4>1. j # 1
          <5> SUFFICES ASSUME j = 1 PROVE FALSE
            OBVIOUS
          <5>1. map[s] \in Conn /\ u = RemoveByConnId(map[s])
            BY <1>2, <1>3, <2>1, <3>2
          <5>2. s \in Removed(u)
            BY <1>4, <5>1
          <5> QED BY <1>5, <5>2
        <4> QED BY <1>3, <2>1, <3>2, <4>1
      <3> QED BY <2>1, <3>1, <3>2
    <2>2. CASE u.op = "insert" /\ map'[s] = u.conn
      <3>1. \/ phase[u.conn] \in {"open", "ended"}
            \/ \E j \in DOMAIN queue : 1 < j /\ queue[j] = RemoveByConnId(u.conn)
        BY <1>2, <1>3, <2>2 DEF QueueSound
      <3>2. ASSUME NEW j \in DOMAIN queue, 1 < j, queue[j] = RemoveByConnId(u.conn)
            PROVE  \E i \in DOMAIN queue' : queue'[i] = RemoveByConnId(map'[s])
        <4>1. j # 1
          BY <1>3, <3>2
        <4>2. j - 1 \in DOMAIN queue' /\ queue'[j - 1] = queue[j]
          BY <1>3, <4>1
        <4> QED BY <2>2, <3>2, <4>2
      <3> QED BY <2>2, <3>1, <3>2
    <2> QED BY <1>5, <2>1, <2>2
  <1>10. QueueSound'
    <2> SUFFICES ASSUME NEW i \in DOMAIN queue', queue'[i].op = "insert"
                 PROVE  \/ phase[queue'[i].conn] \in {"open", "ended"}
                        \/ \E j \in DOMAIN queue' : i < j /\ queue'[j] = RemoveByConnId(queue'[i].conn)
      BY <1>1 DEF QueueSound
    <2>1. i + 1 \in DOMAIN queue /\ queue'[i] = queue[i + 1] /\ i \in Nat
      BY <1>3
    <2>2. \/ phase[queue'[i].conn] \in {"open", "ended"}
          \/ \E j \in DOMAIN queue : i + 1 < j /\ queue[j] = RemoveByConnId(queue'[i].conn)
      BY <1>2, <2>1 DEF QueueSound
    <2>3. ASSUME NEW j \in DOMAIN queue, i + 1 < j, queue[j] = RemoveByConnId(queue'[i].conn)
          PROVE  \E k \in DOMAIN queue' : i < k /\ queue'[k] = RemoveByConnId(queue'[i].conn)
      <3>1. j \in Nat /\ j # 1 /\ i < j - 1
        BY <1>3, <2>1, <2>3
      <3>2. j - 1 \in DOMAIN queue' /\ queue'[j - 1] = queue[j]
        BY <1>3, <3>1
      <3> QED BY <2>3, <3>1, <3>2
    <2> QED BY <2>2, <2>3
  <1>11. RetrySound' /\ SavesKept'
    BY <1>1, <1>7, RetryStays, ToldStays
  <1>12. OpenRowsHaveAnEnd'
    <2>1. ASSUME NEW s \in Sid, LogoutToCome(s) PROVE LogoutToCome(s)'
      <3>1. CASE map[s] # None \/ s \in logouts
        BY <1>1, <1>5, <3>1 DEF LogoutToCome
      <3>2. ASSUME NEW c \in Conn, Queued(Insert(s, c)) PROVE LogoutToCome(s)'
        <4>1. PICK j \in DOMAIN queue : queue[j] = Insert(s, c)
          BY <3>2 DEF Queued
        <4>2. CASE j = 1
          <5>1. u.op = "insert" /\ u.sid = s /\ u.conn = c /\ c # None /\ Removed(u) = {}
            BY <1>3, <1>4, <4>1, <4>2, Ids
          <5>2. map'[s] # None
            BY <1>1, <5>1
          <5> QED BY <5>2 DEF LogoutToCome
        <4>3. CASE j # 1
          <5>1. j - 1 \in DOMAIN queue' /\ queue'[j - 1] = Insert(s, c)
            BY <1>3, <4>1, <4>3
          <5> QED BY <5>1 DEF LogoutToCome, Queued
        <4> QED BY <4>2, <4>3
      <3>3. CASE \E c \in Conn : handler[c].pc # "idle" /\ handler[c].save = Save(s, "open")
        BY <1>1, <3>3 DEF LogoutToCome
      <3> QED BY <2>1, <3>1, <3>2, <3>3 DEF LogoutToCome
    <2> QED BY <1>1, <2>1, EndKeeps
  <1> QED BY <1>6, <1>8, <1>9, <1>10, <1>11, <1>12 DEF IInv

\* Logout: the row has its logout, or the session is stale.
LEMMA LogoutKeeps ==
  ASSUME IInv, NEW s \in Sid, Logout(s)
  PROVE  IInv'
  <1>1. /\ UNCHANGED <<phase, handler, job, map, queue, idle, key, buffer, retry, told, dropped>>
        /\ logouts' = logouts \ {s}
        /\ \/ row' = (IF row[s] = "none" THEN row ELSE [row EXCEPT ![s] = "out"]) /\ UNCHANGED stale
           \/ stale' = stale \cup {s} /\ UNCHANGED row
    BY DEF Logout, net, store
  <1>2. row \in [Sid -> {"none", "open", "out"}]
    BY DEF IInv, TypeOK
  <1>3. /\ row' \in [Sid -> {"none", "open", "out"}] /\ stale \subseteq stale'
        /\ \A x \in Sid : row[x] # "none" => row'[x] # "none"
        /\ \A x \in Sid : row'[x] = "open" => row[x] = "open"
        /\ row'[s] = "open" => s \in stale'
    <2>1. CASE stale' = stale \cup {s} /\ UNCHANGED row
      BY <1>2, <2>1
    <2>2. CASE row' = (IF row[s] = "none" THEN row ELSE [row EXCEPT ![s] = "out"]) /\ UNCHANGED stale
      BY <1>2, <2>2
    <2> QED BY <1>1, <2>1, <2>2
  <1>4. TypeOK'
    BY <1>1, <1>3 DEF IInv, TypeOK
  <1>5. Monotone
    BY <1>1, <1>3 DEF Monotone, Kept, KeptNext
  <1>6. ASSUME NEW c \in Conn PROVE HandlerSound(c)'
    <2>1. handler[c].pc # "idle" => phase'[c] = "open"
      BY <1>1 DEF IInv, HandlerSound
    <2> QED BY <1>1, <1>5, <2>1, HandlerStays
  <1>7. QueueSound' /\ MapFollowsConnections'
    BY <1>1, MapStays
  <1>8. RetrySound' /\ SavesKept'
    BY <1>1, <1>5, RetryStays, ToldStays
  <1>9. OpenRowsHaveAnEnd'
    <2>1. ASSUME NEW x \in Sid, row'[x] = "open", LogoutToCome(x)
          PROVE  LogoutToCome(x)' \/ x \in stale'
      <3>1. CASE x = s
        BY <1>3, <2>1, <3>1
      <3>2. CASE x # s
        BY <1>1, <2>1, <3>2 DEF LogoutToCome, Queued
      <3> QED BY <3>1, <3>2
    <2> QED BY <1>3, <2>1, EndKeeps
  <1> QED BY <1>4, <1>6, <1>7, <1>8, <1>9 DEF IInv

-----------------------------------------------------------------------------
(* The retry task *)

\* What a step of the retry task has to show.
LEMMA RetryStep ==
  ASSUME IInv, UNCHANGED <<phase, handler, job, map, queue, logouts, idle, told>>,
         Monotone, RetrySound',
         row' \in [Sid -> {"none", "open", "out"}], key' \in [Sid -> {"none", "open", "out"}],
         buffer' \in Seq(Saved), Len(buffer') <= BUFFER_MAX_SESSIONS,
         retry' \in [pc : {"tick", "flush", "scan", "keys"}, taken : Seq(Saved),
                     todo : SUBSET Sid, got : SUBSET Saved, done : SUBSET Sid],
         \A s \in Sid : row'[s] = "open" =>
            row[s] = "open" \/ LogoutToCome(s) \/ s \in stale'
  PROVE  IInv'
  <1>1. TypeOK'
    BY DEF IInv, TypeOK
  <1>2. ASSUME NEW c \in Conn PROVE HandlerSound(c)'
    <2>1. handler[c].pc # "idle" => phase'[c] = "open"
      BY DEF IInv, HandlerSound
    <2> QED BY <2>1, HandlerStays
  <1>3. QueueSound' /\ MapFollowsConnections'
    BY MapStays
  <1>4. SavesKept'
    BY ToldStays
  <1>5. \A s \in Sid : LogoutToCome(s) => LogoutToCome(s)'
    BY DEF LogoutToCome, Queued
  <1>6. OpenRowsHaveAnEnd'
    BY <1>5, EndKeeps DEF Monotone
  <1> QED BY <1>1, <1>2, <1>3, <1>4, <1>6 DEF IInv

RetryType == [pc : {"tick", "flush", "scan", "keys"}, taken : Seq(Saved),
              todo : SUBSET Sid, got : SUBSET Saved, done : SUBSET Sid]

\* What the retry task finds.
LEMMA RetryFacts ==
  ASSUME IInv
  PROVE  /\ retry \in RetryType /\ RetrySound
         /\ row \in [Sid -> {"none", "open", "out"}] /\ key \in [Sid -> {"none", "open", "out"}]
         /\ buffer \in Seq(Saved) /\ Len(buffer) <= BUFFER_MAX_SESSIONS
  BY DEF IInv, TypeOK, RetryType

\* Nothing but the place of the task and its keys changes.
LEMMA PlaceKeeps ==
  ASSUME IInv, UNCHANGED <<phase, handler, job, map, queue, logouts, idle, told>>,
         UNCHANGED <<row, key, buffer, dropped, stale>>, retry' \in RetryType,
         retry'.taken = retry.taken, retry'.pc # "flush", retry.taken = <<>>,
         retry'.done \subseteq retry.done
  PROVE  IInv'
  <1>1. Monotone
    BY DEF Monotone, Kept, KeptNext
  <1>2. RetrySound'
    BY RetryFacts DEF RetrySound
  <1> QED BY <1>1, <1>2, RetryFacts, RetryStep DEF RetryType

LEMMA IdleTaskTyped ==
  /\ IdleTask.taken = <<>> /\ IdleTask.pc = "tick" /\ IdleTask.done = {}
  /\ IdleTask \in RetryType
  BY DEF IdleTask, RetryType

\* Flushed, Scan, RetryDone.
LEMMA ScanKeeps ==
  ASSUME IInv, Flushed \/ Scan \/ RetryDone
  PROVE  IInv'
  <1>1. UNCHANGED <<phase, handler, job, map, queue, logouts, idle, told, row, key, buffer,
                    dropped, stale>>
    BY DEF Flushed, Scan, RetryDone, net, history
  <1>2. retry \in RetryType /\ RetrySound
    BY RetryFacts
  <1>3. CASE Flushed
    <2>1. retry.taken = <<>> /\ retry' = [retry EXCEPT !.pc = "scan"]
      BY <1>3 DEF Flushed
    <2>2. /\ retry' \in RetryType /\ retry'.taken = retry.taken /\ retry'.pc = "scan"
          /\ retry'.done = retry.done
      BY <1>2, <2>1 DEF RetryType
    <2> QED BY <1>1, <2>1, <2>2, PlaceKeeps
  <1>4. CASE Scan
    <2>1. retry.taken = <<>>
      BY <1>2, <1>4 DEF Scan, RetrySound
    <2>2. CASE retry' = [retry EXCEPT !.pc = "keys", !.todo = {s \in Sid : key[s] # "none"}]
      <3>1. /\ retry' \in RetryType /\ retry'.taken = retry.taken /\ retry'.pc = "keys"
            /\ retry'.done = retry.done
        <4> DEFINE keys == {s \in Sid : key[s] # "none"}
        <4>1. keys \subseteq Sid /\ retry' = [retry EXCEPT !.pc = "keys", !.todo = keys]
          BY <2>2
        <4> HIDE DEF keys
        <4> QED BY <1>2, <4>1 DEF RetryType
      <3> QED BY <1>1, <2>1, <3>1, PlaceKeeps
    <2>3. CASE retry' = IdleTask
      BY <1>1, <2>1, <2>3, IdleTaskTyped, PlaceKeeps
    <2> QED BY <1>4, <2>2, <2>3 DEF Scan
  <1>5. CASE RetryDone
    <2>1. retry.taken = <<>> /\ retry' = IdleTask
      BY <1>2, <1>5 DEF RetryDone, RetrySound
    <2> QED BY <1>1, <2>1, IdleTaskTyped, PlaceKeeps
  <1> QED BY <1>3, <1>4, <1>5

\* RetryTick: the buffer is taken, or KeyDB is not there.
LEMMA TickKeeps ==
  ASSUME IInv, RetryTick
  PROVE  IInv'
  <1>1. /\ UNCHANGED <<phase, handler, job, map, queue, logouts, idle, told, row, key, dropped, stale>>
        /\ retry.pc = "tick"
    BY DEF RetryTick, net, history
  <1>2. retry \in RetryType /\ buffer \in Seq(Saved) /\ retry.taken = <<>>
    BY <1>1, RetryFacts DEF RetrySound
  <1>3. CASE /\ retry' = [IdleTask EXCEPT !.pc = "flush", !.taken = buffer]
             /\ buffer' = <<>>
    <2>1. /\ retry' \in RetryType /\ retry'.taken = buffer /\ retry'.pc = "flush"
          /\ retry'.done = {}
      BY <1>2, <1>3, IdleTaskTyped DEF RetryType
    <2>2. buffer' \in Seq(Saved) /\ Len(buffer') <= BUFFER_MAX_SESSIONS
      BY <1>3, SessionsAssumption
    <2>3. Monotone
      BY <1>1, <1>2, <2>1 DEF Monotone, Kept, KeptNext
    <2>4. RetrySound'
      BY <2>1 DEF RetrySound
    <2> QED BY <1>1, <2>1, <2>2, <2>3, <2>4, RetryFacts, RetryStep DEF RetryType
  <1>4. CASE retry' = [IdleTask EXCEPT !.pc = "scan"] /\ UNCHANGED buffer
    <2>1. /\ retry' \in RetryType /\ retry'.taken = <<>> /\ retry'.pc = "scan"
          /\ retry'.done = {}
      BY <1>4, IdleTaskTyped DEF RetryType
    <2> QED BY <1>1, <1>2, <1>4, <2>1, PlaceKeeps
  <1> QED BY <1>3, <1>4 DEF RetryTick

\* RetryGet: the saves that were read and those still to read change.
LEMMA RetryGetKeeps ==
  ASSUME IInv, NEW s \in Sid, RetryGet(s)
  PROVE  IInv'
  <1>1. /\ UNCHANGED <<phase, handler, job, map, queue, logouts, idle, told, key, buffer, dropped>>
        /\ UNCHANGED <<row, stale>> /\ retry.pc = "keys"
    BY DEF RetryGet, net, history
  <1>2. /\ retry \in RetryType /\ RetrySound /\ retry.taken = <<>>
        /\ key \in [Sid -> {"none", "open", "out"}]
    BY <1>1, RetryFacts DEF RetrySound
  <1>3. /\ retry' \in RetryType /\ retry'.taken = retry.taken /\ retry'.pc = "keys"
        /\ retry'.done = retry.done
    <2>1. CASE /\ key[s] # "none"
               /\ retry' = [retry EXCEPT !.todo = @ \ {s}, !.got = @ \cup {Save(s, key[s])}]
      <3>1. Save(s, key[s]) \in Saved
        BY <1>2, <2>1 DEF Save, Saved, Decision
      <3> QED BY <1>1, <1>2, <2>1, <3>1 DEF RetryType
    <2>2. CASE retry' = [retry EXCEPT !.todo = @ \ {s}]
      BY <1>1, <1>2, <2>2 DEF RetryType
    <2> QED BY <2>1, <2>2 DEF RetryGet
  <1> QED BY <1>1, <1>2, <1>3, PlaceKeeps

\* RetryInsert: the row of a session that has none is stored.
LEMMA RetryInsertKeeps ==
  ASSUME IInv, NEW v \in retry.got, RetryInsert(v)
  PROVE  IInv'
  <1> DEFINE s == v.sid
             st == v.state
  <1>1. /\ UNCHANGED <<phase, handler, job, map, queue, logouts, idle, told, key, buffer, dropped>>
        /\ retry.pc = "keys"
    BY DEF RetryInsert, net
  <1>2. /\ retry \in RetryType /\ RetrySound /\ retry.taken = <<>>
        /\ row \in [Sid -> {"none", "open", "out"}] /\ key \in [Sid -> {"none", "open", "out"}]
    BY <1>1, RetryFacts DEF RetrySound
  <1>3. s \in Sid /\ st \in {"open", "out"}
    <2>1. v \in Saved
      BY <1>2 DEF RetryType
    <2> QED BY <2>1 DEF Saved, Decision
  <1>4. \/ /\ row[s] = "none"
           /\ row' = [row EXCEPT ![s] = st]
           /\ \/ retry' = [retry EXCEPT !.got = @ \ {v}, !.done = @ \cup {s}]
              \/ retry' = [retry EXCEPT !.got = @ \ {v}, !.done = @]
           /\ stale' = IF st = "open" /\ ~LogoutToCome(s) THEN stale \cup {s} ELSE stale
        \/ retry' = [retry EXCEPT !.got = @ \ {v}] /\ UNCHANGED <<row, stale>>
    BY DEF RetryInsert
  <1> HIDE DEF s, st
  <1>5. CASE /\ row[s] = "none"
             /\ row' = [row EXCEPT ![s] = st]
             /\ \/ retry' = [retry EXCEPT !.got = @ \ {v}, !.done = @ \cup {s}]
                \/ retry' = [retry EXCEPT !.got = @ \ {v}, !.done = @]
             /\ stale' = IF st = "open" /\ ~LogoutToCome(s) THEN stale \cup {s} ELSE stale
    <2>1. /\ row' \in [Sid -> {"none", "open", "out"}] /\ row'[s] = st /\ st # "none"
          /\ \A x \in Sid \ {s} : row'[x] = row[x]
      BY <1>2, <1>3, <1>5
    <2>2. stale \subseteq stale' /\ (st = "open" => LogoutToCome(s) \/ s \in stale')
      BY <1>5
    <2>3. /\ retry' \in RetryType /\ retry'.taken = retry.taken /\ retry'.pc = "keys"
          /\ retry'.done \subseteq retry.done \cup {s}
      <3>1. CASE retry' = [retry EXCEPT !.got = @ \ {v}, !.done = @ \cup {s}]
        BY <1>1, <1>2, <1>3, <3>1 DEF RetryType
      <3>2. CASE retry' = [retry EXCEPT !.got = @ \ {v}, !.done = @]
        BY <1>1, <1>2, <3>2 DEF RetryType
      <3> QED BY <1>5, <3>1, <3>2
    <2>4. Monotone
      BY <1>1, <1>5, <2>1, <2>2, <2>3 DEF Monotone, Kept, KeptNext
    <2>5. RetrySound'
      <3>1. retry.done \subseteq Sid
        BY <1>2 DEF RetryType
      <3> QED BY <1>2, <1>5, <2>1, <2>3, <3>1 DEF RetrySound
    <2>6. \A x \in Sid : row'[x] = "open" => row[x] = "open" \/ LogoutToCome(x) \/ x \in stale'
      BY <2>1, <2>2
    <2> QED BY <1>1, <1>2, <2>1, <2>3, <2>4, <2>5, <2>6, RetryFacts, RetryStep DEF RetryType
  <1>6. CASE retry' = [retry EXCEPT !.got = @ \ {v}] /\ UNCHANGED <<row, stale>>
    <2>1. /\ retry' \in RetryType /\ retry'.taken = retry.taken /\ retry'.pc = "keys"
          /\ retry'.done = retry.done
      BY <1>1, <1>2, <1>6 DEF RetryType
    <2> QED BY <1>1, <1>2, <1>6, <2>1, PlaceKeeps
  <1> QED BY <1>4, <1>5, <1>6

\* RetryRemove: the key of a session with a row is removed.
LEMMA RetryRemoveKeeps ==
  ASSUME IInv, NEW s \in Sid, RetryRemove(s)
  PROVE  IInv'
  <1>1. /\ UNCHANGED <<phase, handler, job, map, queue, logouts, idle, told, row, buffer, dropped, stale>>
        /\ retry.pc = "keys" /\ s \in retry.done /\ retry' = [retry EXCEPT !.done = @ \ {s}]
        /\ key' = [key EXCEPT ![s] = "none"] \/ UNCHANGED key
    BY DEF RetryRemove, net, history
  <1>2. /\ retry \in RetryType /\ RetrySound /\ retry.taken = <<>> /\ row[s] # "none"
        /\ key \in [Sid -> {"none", "open", "out"}]
    BY <1>1, RetryFacts DEF RetrySound
  <1>3. /\ retry' \in RetryType /\ retry'.taken = retry.taken /\ retry'.pc = "keys"
        /\ retry'.done \subseteq retry.done
    BY <1>1, <1>2 DEF RetryType
  <1>4. key' \in [Sid -> {"none", "open", "out"}] /\ \A x \in Sid \ {s} : key'[x] = key[x]
    BY <1>1, <1>2
  <1>5. Monotone
    BY <1>1, <1>2, <1>3, <1>4 DEF Monotone, Kept, KeptNext
  <1>6. RetrySound'
    BY <1>1, <1>2, <1>3 DEF RetrySound
  <1> QED BY <1>1, <1>3, <1>4, <1>5, <1>6, RetryFacts, RetryStep DEF RetryType

\* A sequence cut in two: each of its elements is in one of the parts.
LEMMA Cut ==
  ASSUME NEW S, NEW q \in Seq(S), NEW n \in Nat, n <= Len(q)
  PROVE  /\ SubSeq(q, 1, n) \in Seq(S) /\ Len(SubSeq(q, 1, n)) = n
         /\ \A i \in 1 .. n : SubSeq(q, 1, n)[i] = q[i]
         /\ SubSeq(q, n + 1, Len(q)) \in Seq(S)
         /\ \A i \in DOMAIN q : i \in 1 .. n \/
               \E j \in DOMAIN SubSeq(q, n + 1, Len(q)) : SubSeq(q, n + 1, Len(q))[j] = q[i]
  <1>1. Len(q) \in Nat /\ DOMAIN q = 1 .. Len(q) /\ \A i \in 1 .. Len(q) : q[i] \in S
    OBVIOUS
  <1>2. /\ SubSeq(q, 1, n) \in Seq(S) /\ Len(SubSeq(q, 1, n)) = n
        /\ \A i \in 1 .. n : SubSeq(q, 1, n)[i] = q[i]
    BY <1>1
  <1> DEFINE r == SubSeq(q, n + 1, Len(q))
  <1>3. /\ r \in Seq(S) /\ Len(r) = Len(q) - n /\ DOMAIN r = 1 .. Len(q) - n
        /\ \A j \in 1 .. Len(q) - n : r[j] = q[n + j]
    <2> DEFINE m == n + 1
    <2>1. m \in Nat /\ m >= 1 /\ m <= Len(q) + 1 /\ n = m - 1 /\ r = SubSeq(q, m, Len(q))
      BY <1>1
    <2> HIDE DEF m, r
    <2>2. r \in Seq(S) /\ Len(r) = Len(q) - m + 1 /\ DOMAIN r = 1 .. Len(q) - m + 1
      BY <1>1, <2>1
    <2>3. \A j \in 1 .. Len(q) - m + 1 : r[j] = q[m + j - 1]
      BY <1>1, <2>1
    <2> QED BY <1>1, <2>1, <2>2, <2>3
  <1> HIDE DEF r
  <1>4. ASSUME NEW i \in DOMAIN q, i \notin 1 .. n
        PROVE  \E j \in DOMAIN r : r[j] = q[i]
    <2>1. i - n \in DOMAIN r /\ n + (i - n) = i
      BY <1>1, <1>3, <1>4
    <2> QED BY <1>3, <2>1
  <1> QED BY <1>2, <1>3, <1>4 DEF r

LEMMA ConcatFacts ==
  ASSUME NEW S, NEW q \in Seq(S), NEW r \in Seq(S), NEW n \in Nat, Len(r) = n
  PROVE  /\ q \o r \in Seq(S) /\ Len(q) \in Nat /\ Len(q \o r) = Len(q) + n
         /\ DOMAIN (q \o r) = 1 .. Len(q) + n
         /\ \A i \in 1 .. Len(q) : (q \o r)[i] = q[i]
         /\ \A i \in 1 .. n : (q \o r)[Len(q) + i] = r[i]
  <1>1. /\ q \o r \in Seq(S) /\ Len(q) \in Nat /\ Len(q \o r) = Len(q) + n
        /\ DOMAIN (q \o r) = 1 .. Len(q) + n
    OBVIOUS
  <1>2. \A i \in 1 .. Len(q) : (q \o r)[i] = q[i]
    BY <1>1
  <1>3. ASSUME NEW i \in 1 .. n PROVE (q \o r)[Len(q) + i] = r[i]
    BY <1>1
  <1> QED BY <1>1, <1>2, <1>3

\* A chunk is the front of what the task took, and holds at least one save.
LEMMA ChunkFacts ==
  ASSUME IInv
  PROVE  /\ Chunk \in Seq(Saved) /\ Len(Chunk) \in Nat /\ Len(Chunk) <= Len(retry.taken)
         /\ DOMAIN Chunk = 1 .. Len(Chunk)
         /\ \A i \in DOMAIN Chunk : Chunk[i] = retry.taken[i] /\ Chunk[i] \in Saved
  <1> DEFINE n == IF Len(retry.taken) < FLUSH_BATCH_SIZE THEN Len(retry.taken) ELSE FLUSH_BATCH_SIZE
  <1>1. retry.taken \in Seq(Saved) /\ Len(retry.taken) \in Nat
    BY RetryFacts DEF RetryType
  <1>2. n \in Nat /\ n <= Len(retry.taken) /\ Chunk = SubSeq(retry.taken, 1, n)
    BY <1>1, SessionsAssumption DEF Chunk
  <1> HIDE DEF n
  <1>3. Chunk \in Seq(Saved) /\ Len(Chunk) = n /\ \A i \in 1 .. n : Chunk[i] = retry.taken[i]
    BY <1>1, <1>2, Cut
  <1> QED BY <1>2, <1>3

\* The place of the last save of session s in the chunk.
LastIn(s) == CHOOSE i \in DOMAIN Chunk :
                /\ Chunk[i].sid = s
                /\ \A j \in DOMAIN Chunk : Chunk[j].sid = s => j <= i

LEMMA LastInFacts ==
  ASSUME IInv, NEW s \in Sid, \E i \in DOMAIN Chunk : Chunk[i].sid = s
  PROVE  LastIn(s) \in DOMAIN Chunk /\ Chunk[LastIn(s)].state \in Decision
  <1> DEFINE T == {i \in DOMAIN Chunk : Chunk[i].sid = s}
  <1>1. /\ Len(Chunk) \in Nat /\ DOMAIN Chunk = 1 .. Len(Chunk)
        /\ \A i \in DOMAIN Chunk : Chunk[i].state \in Decision
    BY ChunkFacts DEF Saved
  <1>2. T \in SUBSET Nat /\ T # {} /\ \A x \in T : x <= Len(Chunk)
    BY <1>1
  <1>3. PICK i \in T : \A j \in T : j <= i
    BY <1>1, <1>2, LastOf
  <1>4. /\ i \in DOMAIN Chunk /\ Chunk[i].sid = s
        /\ \A j \in DOMAIN Chunk : Chunk[j].sid = s => j <= i
    BY <1>3
  <1>5. LastIn(s) \in DOMAIN Chunk
    BY <1>4, Zenon DEF LastIn
  <1> QED BY <1>1, <1>5

\* Flush: the chunk is in KeyDB, or in the buffer as far as it fits.
LEMMA FlushKeeps ==
  ASSUME IInv, Flush
  PROVE  IInv'
  <1>1. /\ UNCHANGED <<phase, handler, job, map, queue, logouts, idle, told, row, stale>>
        /\ retry.pc = "flush"
        /\ retry' = [retry EXCEPT !.taken = SubSeq(retry.taken, Len(Chunk) + 1, Len(retry.taken))]
    BY RetryFacts DEF Flush, net, RetryType
  <1>2. /\ retry \in RetryType /\ RetrySound /\ retry.taken \in Seq(Saved)
        /\ key \in [Sid -> {"none", "open", "out"}]
        /\ buffer \in Seq(Saved) /\ Len(buffer) <= BUFFER_MAX_SESSIONS
    BY RetryFacts DEF RetryType
  <1>3. /\ Chunk \in Seq(Saved) /\ Len(Chunk) \in Nat /\ Len(Chunk) <= Len(retry.taken)
        /\ DOMAIN Chunk = 1 .. Len(Chunk)
        /\ \A i \in DOMAIN Chunk : Chunk[i] = retry.taken[i] /\ Chunk[i] \in Saved
    BY ChunkFacts
  <1> DEFINE r == SubSeq(retry.taken, Len(Chunk) + 1, Len(retry.taken))
  <1>4. /\ r \in Seq(Saved)
        /\ \A i \in DOMAIN retry.taken : i \in 1 .. Len(Chunk) \/
              \E j \in DOMAIN r : r[j] = retry.taken[i]
    BY <1>2, <1>3, Cut
  <1>5. retry' = [retry EXCEPT !.taken = r]
    BY <1>1
  <1> HIDE DEF r
  <1>6. retry' \in RetryType /\ retry'.taken = r /\ retry'.pc = "flush" /\ retry'.done = retry.done
    BY <1>1, <1>2, <1>4, <1>5 DEF RetryType
  <1>7. RetrySound'
    BY <1>1, <1>2, <1>6 DEF RetrySound
  <1>8. \A i \in DOMAIN retry.taken : i \in DOMAIN Chunk \/
            \E j \in DOMAIN retry'.taken : retry'.taken[j] = retry.taken[i]
    BY <1>3, <1>4, <1>6
  <1>9. CASE /\ UNCHANGED <<buffer, dropped>>
             /\ key' = [s \in Sid |-> IF \E i \in DOMAIN Chunk : Chunk[i].sid = s
                                      THEN Chunk[LastIn(s)].state ELSE key[s]]
    <2>1. ASSUME NEW s \in Sid
          PROVE  /\ key'[s] \in {"none", "open", "out"}
                 /\ key[s] # "none" => key'[s] # "none"
                 /\ (\E i \in DOMAIN Chunk : Chunk[i].sid = s) => key'[s] # "none"
      <3>1. CASE \E i \in DOMAIN Chunk : Chunk[i].sid = s
        <4>1. key'[s] = Chunk[LastIn(s)].state
          BY <1>9, <3>1
        <4>2. Chunk[LastIn(s)].state \in {"open", "out"}
          BY <3>1, LastInFacts DEF Decision
        <4> QED BY <4>1, <4>2
      <3>2. CASE ~\E i \in DOMAIN Chunk : Chunk[i].sid = s
        <4>1. key'[s] = key[s]
          BY <1>9, <3>2
        <4> QED BY <1>2, <3>2, <4>1
      <3> QED BY <3>1, <3>2
    <2>2. key' \in [Sid -> {"none", "open", "out"}]
      <3>1. DOMAIN key' = Sid /\ key' = [s \in Sid |-> key'[s]]
        BY <1>9
      <3> QED BY <2>1, <3>1
    <2>3. ASSUME NEW s \in Sid, Kept(s) PROVE KeptNext(s)
      <3>1. CASE \E i \in DOMAIN retry.taken : retry.taken[i].sid = s
        <4>1. PICK i \in DOMAIN retry.taken : retry.taken[i].sid = s
          BY <3>1
        <4>2. CASE i \in DOMAIN Chunk
          BY <1>3, <2>1, <4>1, <4>2 DEF KeptNext
        <4>3. CASE i \notin DOMAIN Chunk
          BY <1>8, <4>1, <4>3 DEF KeptNext
        <4> QED BY <4>2, <4>3
      <3>2. CASE ~\E i \in DOMAIN retry.taken : retry.taken[i].sid = s
        BY <1>1, <1>9, <2>1, <2>3, <3>2 DEF Kept, KeptNext
      <3> QED BY <3>1, <3>2
    <2>4. Monotone
      BY <1>1, <1>9, <2>3 DEF Monotone
    <2> QED BY <1>1, <1>2, <1>6, <1>7, <1>9, <2>2, <2>4, RetryFacts, RetryStep DEF RetryType
  <1> DEFINE room == BUFFER_MAX_SESSIONS - Len(buffer)
             back == IF room < Len(Chunk) THEN room ELSE Len(Chunk)
  <1>10. CASE /\ UNCHANGED key
              /\ buffer' = buffer \o SubSeq(Chunk, 1, back)
              /\ dropped' = dropped \cup {Chunk[i].sid : i \in back + 1 .. Len(Chunk)}
    <2>1. back \in Nat /\ back <= Len(Chunk) /\ Len(buffer) + back <= BUFFER_MAX_SESSIONS
      BY <1>2, <1>3, SessionsAssumption
    <2> DEFINE front == SubSeq(Chunk, 1, back)
    <2>2. buffer' = buffer \o front
      BY <1>10
    <2> HIDE DEF back, room
    <2>3. front \in Seq(Saved) /\ Len(front) = back /\ \A i \in 1 .. back : front[i] = Chunk[i]
      BY <1>3, <2>1, Cut
    <2> HIDE DEF front
    <2>4. /\ buffer' \in Seq(Saved) /\ Len(buffer') = Len(buffer) + back
          /\ DOMAIN buffer' = 1 .. Len(buffer) + back /\ Len(buffer) \in Nat
          /\ \A i \in 1 .. Len(buffer) : buffer'[i] = buffer[i]
          /\ \A i \in 1 .. back : buffer'[Len(buffer) + i] = front[i]
      <3>1. buffer \in Seq(Saved) /\ front \in Seq(Saved) /\ back \in Nat /\ Len(front) = back
        BY <1>2, <2>1, <2>3
      <3>2. buffer' \in Seq(Saved)
        BY <2>2, <3>1
      <3>3. Len(buffer \o front) = Len(buffer) + Len(front) /\ Len(buffer) \in Nat
        BY <3>1, SMT
      <3>4. Len(buffer') = Len(buffer) + back
        BY <2>2, <3>1, <3>3, Zenon
      <3>5. DOMAIN buffer' = 1 .. Len(buffer')
        BY <3>2
      <3>6. \A i \in 1 .. Len(buffer) : buffer'[i] = buffer[i]
        BY <2>2, <3>1
      <3>7. \A i \in 1 .. back : buffer'[Len(buffer) + i] = front[i]
        BY <2>2, <3>1, ConcatFacts
      <3> QED BY <3>2, <3>3, <3>4, <3>5, <3>6, <3>7
    <2>5. ASSUME NEW i \in DOMAIN Chunk
          PROVE  \/ \E j \in DOMAIN buffer' : buffer'[j].sid = Chunk[i].sid
                 \/ Chunk[i].sid \in dropped'
      <3>1. CASE i <= back
        <4>1. i \in 1 .. back /\ Len(buffer) + i \in DOMAIN buffer'
          BY <1>3, <2>1, <2>4, <3>1
        <4> QED BY <2>3, <2>4, <4>1
      <3>2. CASE ~(i <= back)
        <4>1. i \in back + 1 .. Len(Chunk)
          BY <1>3, <2>1, <3>2
        <4> QED BY <1>10, <4>1
      <3> QED BY <3>1, <3>2
    <2>6. \A i \in DOMAIN buffer : i \in DOMAIN buffer' /\ buffer'[i] = buffer[i]
      BY <1>2, <2>1, <2>4
    <2>7. ASSUME NEW s \in Sid, Kept(s) PROVE KeptNext(s) \/ s \in dropped'
      <3>1. CASE \E i \in DOMAIN retry.taken : retry.taken[i].sid = s
        <4>1. PICK i \in DOMAIN retry.taken : retry.taken[i].sid = s
          BY <3>1
        <4>2. CASE i \in DOMAIN Chunk
          BY <1>3, <2>5, <4>1, <4>2 DEF KeptNext
        <4>3. CASE i \notin DOMAIN Chunk
          BY <1>8, <4>1, <4>3 DEF KeptNext
        <4> QED BY <4>2, <4>3
      <3>2. CASE \E i \in DOMAIN buffer : buffer[i].sid = s
        BY <2>6, <3>2 DEF KeptNext
      <3>3. CASE row[s] # "none" \/ key[s] # "none"
        BY <1>1, <1>10, <3>3 DEF KeptNext
      <3> QED BY <2>7, <3>1, <3>2, <3>3 DEF Kept
    <2>8. Monotone
      BY <1>1, <1>10, <2>7 DEF Monotone
    <2>9. Len(buffer') <= BUFFER_MAX_SESSIONS
      BY <2>1, <2>4
    <2>10. row' \in [Sid -> {"none", "open", "out"}] /\ key' \in [Sid -> {"none", "open", "out"}]
      BY <1>1, <1>10, RetryFacts
    <2>11. \A s \in Sid : row'[s] = "open" => row[s] = "open"
      BY <1>1
    <2> QED BY <1>1, <1>6, <1>7, <2>4, <2>8, <2>9, <2>10, <2>11, RetryStep DEF RetryType
  <1> HIDE DEF room, back
  <1>11. \/ /\ UNCHANGED <<buffer, dropped>>
            /\ key' = [s \in Sid |-> IF \E i \in DOMAIN Chunk : Chunk[i].sid = s
                                     THEN Chunk[LastIn(s)].state ELSE key[s]]
         \/ /\ UNCHANGED key
            /\ buffer' = buffer \o SubSeq(Chunk, 1, back)
            /\ dropped' = dropped \cup {Chunk[i].sid : i \in back + 1 .. Len(Chunk)}
    BY DEF Flush, LastIn, room, back
  <1> QED BY <1>9, <1>10, <1>11

-----------------------------------------------------------------------------
(* Init and Restart *)

\* Nothing runs: what the rows and the keys hold is all there is.
LEMMA Asleep ==
  ASSUME phase' = [c \in Conn |-> "new"], handler' = [c \in Conn |-> NoHandler],
         job' = [c \in Conn |-> NoSave], map' = [s \in Sid |-> None], queue' = <<>>,
         idle' = {}, buffer' = <<>>, retry' = IdleTask, told' \subseteq Sid,
         row' \in [Sid -> {"none", "open", "out"}], key' \in [Sid -> {"none", "open", "out"}],
         SavesKept', \A s \in Sid : row'[s] = "open" => s \in stale'
  PROVE  IInv'
  <1>1. TypeOK'
    <2>1. buffer' \in Seq(Saved) /\ Len(buffer') <= BUFFER_MAX_SESSIONS /\ queue' \in Seq(Update)
      BY SessionsAssumption
    <2>2. handler' \in [Conn -> Handler] /\ job' \in [Conn -> Saved \cup {NoSave}]
      BY NoHandlerTyped
    <2>3. retry' \in RetryType
      BY IdleTaskTyped
    <2>4. phase' \in [Conn -> {"new", "open", "ended", "cleanup", "gone"}]
      OBVIOUS
    <2>5. map' \in [Sid -> Conn \cup {None}]
      OBVIOUS
    <2> QED BY <2>1, <2>2, <2>3, <2>4, <2>5 DEF TypeOK, Handler, RetryType
  <1>2. ASSUME NEW c \in Conn PROVE HandlerSound(c)'
    BY NoHandlerTyped DEF HandlerSound
  <1>3. QueueSound' /\ MapFollowsConnections'
    BY DEF QueueSound, MapFollowsConnections
  <1>4. RetrySound'
    BY IdleTaskTyped DEF RetrySound
  <1>5. OpenRowsHaveAnEnd'
    BY DEF OpenRowsHaveAnEnd
  <1> QED BY <1>1, <1>2, <1>3, <1>4, <1>5 DEF IInv

\* Restart: the saves in memory are given up, and the open rows are stale.
LEMMA RestartKeeps ==
  ASSUME IInv, Restart
  PROVE  IInv'
  <1>1. /\ phase' = [c \in Conn |-> "new"] /\ handler' = [c \in Conn |-> NoHandler]
        /\ job' = [c \in Conn |-> NoSave] /\ map' = [s \in Sid |-> None] /\ queue' = <<>>
        /\ idle' = {} /\ buffer' = <<>> /\ retry' = IdleTask /\ UNCHANGED <<row, key, told>>
        /\ stale' = stale \cup {s \in Sid : row[s] = "open"}
        /\ dropped' = dropped \cup {buffer[i].sid : i \in DOMAIN buffer}
                              \cup {retry.taken[i].sid : i \in DOMAIN retry.taken}
    BY DEF Restart
  <1>2. told \subseteq Sid
    BY DEF IInv, TypeOK
  <1>3. row' \in [Sid -> {"none", "open", "out"}] /\ key' \in [Sid -> {"none", "open", "out"}]
    BY <1>1, RetryFacts
  <1>4. Monotone
    <2>1. \A s \in Sid : Kept(s) => KeptNext(s) \/ s \in dropped'
      BY <1>1 DEF Kept, KeptNext
    <2> QED BY <1>1, <2>1 DEF Monotone
  <1>5. SavesKept'
    BY <1>1, <1>4, ToldStays
  <1>6. \A s \in Sid : row'[s] = "open" => s \in stale'
    BY <1>1
  <1> QED BY <1>1, <1>2, <1>3, <1>5, <1>6, Asleep

LEMMA InitSessions ==
  ASSUME Init
  PROVE  IInv
  <1>1. TypeOK
    <2>1. buffer \in Seq(Saved) /\ Len(buffer) <= BUFFER_MAX_SESSIONS /\ queue \in Seq(Update)
      BY SessionsAssumption DEF Init
    <2>2. handler \in [Conn -> Handler] /\ job \in [Conn -> Saved \cup {NoSave}]
      BY NoHandlerTyped DEF Init
    <2>3. retry \in RetryType
      BY IdleTaskTyped DEF Init
    <2>4. phase \in [Conn -> {"new", "open", "ended", "cleanup", "gone"}]
      BY DEF Init
    <2>5. map \in [Sid -> Conn \cup {None}] /\ key \in [Sid -> {"none", "open", "out"}]
      BY DEF Init
    <2>6. row \in [Sid -> {"none", "open", "out"}] /\ told \subseteq Sid /\ idle \subseteq Sid \X Conn
      BY DEF Init
    <2> QED BY <2>1, <2>2, <2>3, <2>4, <2>5, <2>6 DEF TypeOK, Handler, RetryType
  <1>2. ASSUME NEW c \in Conn PROVE HandlerSound(c)
    BY NoHandlerTyped DEF HandlerSound, Init
  <1>3. QueueSound /\ MapFollowsConnections
    BY DEF QueueSound, MapFollowsConnections, Init
  <1>4. RetrySound
    BY IdleTaskTyped DEF RetrySound, Init
  <1>5. OpenRowsHaveAnEnd
    BY DEF OpenRowsHaveAnEnd, Init
  <1>6. SavesKept
    BY DEF SavesKept, Init
  <1> QED BY <1>1, <1>2, <1>3, <1>4, <1>5, <1>6 DEF IInv

LEMMA StutterSessions ==
  ASSUME IInv, UNCHANGED vars
  PROVE  IInv'
  <1>1. UNCHANGED <<phase, handler, job, row, map, queue, logouts, idle, key, buffer, retry, told,
                    dropped, stale>>
    BY DEF vars, net, store, history
  <1>2. phase \in [Conn -> {"new", "open", "ended", "cleanup", "gone"}] /\ idle \subseteq Sid \X Conn
    BY DEF IInv, TypeOK
  <1>3. \A c \in Conn : handler[c].pc # "idle" => phase'[c] = "open"
    BY <1>1 DEF IInv, HandlerSound
  <1> QED BY <1>1, <1>2, <1>3, QuietStep

LEMMA NextSessions ==
  ASSUME IInv, Next
  PROVE  IInv'
  <1>1. ASSUME NEW c \in Conn, Accept(c) \/ Close(c) \/ CleanupConn(c) \/ HandshakeTimer(c)
        PROVE  IInv'
    BY <1>1, PhaseKeeps
  <1>2. CASE Outage \/ Recovery \/ IdleScan
    BY <1>2, PhaseKeeps
  <1>3. ASSUME NEW c \in Conn, CleanupSession(c) \/ HandshakeLate(c) \/ Terminate(c)
        PROVE  IInv'
    BY <1>3, RemovalKeeps
  <1>4. CASE IdleCheck
    BY <1>4, RemovalKeeps
  <1>5. ASSUME NEW c \in Conn, Cancel(c) \/ ConnectStart(c) \/ DbInsert(c)
        PROVE  IInv'
    BY <1>5, CancelKeeps, ConnectKeeps, InsertKeeps
  <1>6. ASSUME NEW c \in Conn, SaveResult(c) \/ Register(c)
        PROVE  IInv'
    BY <1>6, ResultKeeps, RegisterKeeps
  <1>7. CASE Process
    BY <1>7, ProcessKeeps
  <1>8. ASSUME NEW s \in Sid, Logout(s) PROVE IInv'
    BY <1>8, LogoutKeeps
  <1>9. CASE RetryTick \/ Flush \/ Flushed \/ Scan \/ RetryDone
    BY <1>9, TickKeeps, FlushKeeps, ScanKeeps
  <1>10. ASSUME NEW s \in Sid, RetryGet(s) \/ RetryRemove(s) PROVE IInv'
    BY <1>10, RetryGetKeeps, RetryRemoveKeeps
  <1>12. ASSUME NEW v \in retry.got, RetryInsert(v) PROVE IInv'
    BY <1>12, RetryInsertKeeps
  <1>11. CASE Restart
    BY <1>11, RestartKeeps
  <1> QED BY <1>1, <1>2, <1>3, <1>4, <1>5, <1>6, <1>7, <1>8, <1>9, <1>10, <1>11, <1>12
          DEF Next, ConnStep, ConnectStep, RetryTask

-----------------------------------------------------------------------------
(* The theorems *)

\* IInv is an invariant: with the properties below, a handler runs only on an open
\* connection and registers a session after its save was stored or queued
\* (handle_connect), an Insert in the channel of a connection that is gone has that
\* connection's RemoveByConnId behind it (network/server.rs), and the retry task
\* removes the key of a session only when its row exists (db_retry.rs).
THEOREM SessionsInvariant == Spec => []IInv
  <1>1. Init => IInv
    BY InitSessions
  <1>2. IInv /\ [Next]_vars => IInv'
    BY NextSessions, StutterSessions
  <1> QED BY <1>1, <1>2, PTL DEF Spec

\* A session of a connection whose task has ended stays in session_map only while a
\* RemoveByConnId of that connection is in the channel, for any number of connections,
\* CONNECTs and timers in any order (network/server.rs, network/session.rs).
THEOREM MapAlwaysFollows == Spec => []MapFollowsConnections
  <1>1. IInv => MapFollowsConnections
    BY DEF IInv
  <1> QED BY <1>1, SessionsInvariant, PTL

\* A session answered with success has its row or a save that waits, unless the buffer
\* overflowed or the process restarted, through any outages of database and KeyDB
\* (TcocSessionService::save, db_retry.rs).
THEOREM SavesAlwaysKept == Spec => []SavesKept
  <1>1. IInv => SavesKept
    BY DEF IInv
  <1> QED BY <1>1, SessionsInvariant, PTL

\* A row of TCOC_SESSIONS without a logout belongs to a session that is going to be
\* logged out, or that one of the four known gaps left behind: a dropped handler, a failed
\* UPDATE, a late retry, a restart (network/session.rs, handlers/connect).
THEOREM OpenRowsAlwaysEnd == Spec => []OpenRowsHaveAnEnd
  <1>1. IInv => OpenRowsHaveAnEnd
    BY DEF IInv
  <1> QED BY <1>1, SessionsInvariant, PTL
=============================================================================
