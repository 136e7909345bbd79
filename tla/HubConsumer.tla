---------------------------- MODULE HubConsumer ----------------------------
(***************************************************************************)
(* The consumer of check-in messages from the HUB                          *)
(* (services/kafka_consumer_service.rs): the pods compete for a leader     *)
(* lock in KeyDB; the leader starts one task per partition, and a task     *)
(* fetches a batch, applies its records in parallel, waits for them and    *)
(* saves the next offset in a file of its pod.                             *)
(*                                                                         *)
(* A hub id is named by the record that carried it, <<partition, offset>>: *)
(* row[t] and etdr[n][t] name the record last written for ticket t.        *)
(***************************************************************************)
EXTENDS Integers, Sequences, FiniteSets

CONSTANTS
    Node,               \* the pods
    Partition,
    Ticket,
    Record,             \* the messages the HUB may send
    Cached,             \* <<n, t>>: pod n has an ETDR of ticket t in memory
    Slot,               \* the consume_partition tasks a pod may start
    MAX_INIT_RETRIES,
    RECONNECT_AFTER_CONSECUTIVE_ERRORS,
    FixedPartitions,    \* topic_checkin_partition_count is configured
    MaxLog, MaxEvents   \* bounds: messages, and mishaps of any kind

None == "none"
NoOffset == -1
NoHub == <<None, NoOffset>>

ASSUME HubAssumption ==
    /\ None \notin Node
    /\ MAX_INIT_RETRIES \in Nat
    /\ RECONNECT_AFTER_CONSECUTIVE_ERRORS \in Nat \ {0}
    /\ FixedPartitions \in BOOLEAN
    /\ \A r \in Record :
        /\ r.form \in {"envelope", "minimal", "direct", "other", "garbled"}
        /\ r.ticket \in Ticket \cup {None}
    /\ MaxLog \in Nat /\ MaxEvents \in Nat

VARIABLES
    log,        \* the topic: the records of each partition
    meta,       \* the partitions the broker's metadata names
    lock,       \* KeyDB: the pod named by the leader lock, or None
    role,       \* where run_checkin_hub_consumer is on each pod
    known,      \* last_valid_partitions of each pod
    client,     \* what still works on the pod's connection to Kafka
    task,       \* the consume_partition tasks of each pod
    file,       \* the offset files of each pod
    row,        \* TRANSPORT_TRANSACTION_STAGE.HUB_ID
    etdr,       \* hub_id of the ETDRs in each pod's memory
    faults, expiries, changes,      \* mishaps so far
    began,      \* history: where each pod began without an offset file
    tried,      \* history: records whose handling ended, on each pod
    stored,     \* history: records whose row update succeeded
    together,   \* history: records that were once in one batch
    fetched,    \* history: records fetched so far
    late,       \* history: records fetched after themselves or a later one
    saved,      \* history: the highest offset each pod saved
    cut,        \* history: files emptied by a save that did not write them
    doubled     \* history: partitions that once had two readers

topic == <<log, meta>>
leader == <<lock, role, known>>
env == <<faults, expiries, changes>>
data == <<file, row, etdr>>
history == <<began, tried, stored, together, fetched, late, saved, cut>>
vars == <<topic, leader, client, task, data, env, history, doubled>>

----------------------------------------------------------------------------
(* Tasks *)

Idle == [pc |-> "none", part |-> None, next |-> NoOffset, last |-> NoOffset,
         todo |-> {}, saving |-> FALSE, errors |-> 0]

NewTask(p) == [Idle EXCEPT !.pc = "start", !.part = p]

\* The tasks of pod n that read partition p.
Readers(n, p) == {s \in Slot : task[n][s].part = p
                                /\ task[n][s].pc \in {"poll", "batch"}}

Reading(n) == \E p \in Partition : Readers(n, p) # {}

\* The three formats are tried in turn; an envelope of another event type, a
\* record without hub_id or ticket_in_id and an unreadable record are skipped.
Applies(r) ==
    /\ r.form \in {"envelope", "minimal", "direct"}
    /\ r.hub
    /\ r.ticket # None

\* The steps of a batch still to be done: for every record that applies, its
\* spawned task first updates the row, then the ETDR in memory.
Spawned(p, first, last) == {<<o, "row">> : o \in {i \in first .. last :
                                                    Applies(log[p][i + 1])}}

\* The partitions a leader starts with: those configured, or those of the metadata.
ValidPartitions == IF FixedPartitions THEN Partition ELSE meta

\* The partitions of the new metadata that get a task.
AddedPartitions(n) == meta \ known[n]

\* A second message for one ticket in one batch: their tasks run in parallel.
Pairs(p, first, last) ==
    {<<p, i, j>> : i \in first .. last, j \in first .. last}

Init ==
    /\ log = [p \in Partition |-> <<>>]
    /\ meta = Partition
    /\ lock = None
    /\ role = [n \in Node |-> "candidate"]
    /\ known = [n \in Node |-> {}]
    /\ client = [n \in Node |-> "ok"]
    /\ task = [n \in Node |-> [s \in Slot |-> Idle]]
    /\ file = [n \in Node |-> [p \in Partition |-> NoOffset]]
    /\ row = [t \in Ticket |-> NoHub]
    /\ etdr = [n \in Node |-> [t \in Ticket |-> NoHub]]
    /\ faults = 0 /\ expiries = 0 /\ changes = 0
    /\ tried = [n \in Node |-> {}]
    /\ began = [n \in Node |-> [p \in Partition |-> NoOffset]]
    /\ stored = {} /\ together = {} /\ fetched = {} /\ late = {}
    /\ saved = [n \in Node |-> [p \in Partition |-> NoOffset]] /\ cut = {}
    /\ doubled = {}

\* One more mishap of the environment is within the bound.
Mishap == faults + expiries + changes < MaxEvents

\* Every step records the partitions that have two readers after it.
Observe == doubled' = doubled \cup
    {p \in Partition :
        \E n, m \in Node, s, q \in Slot :
            /\ <<n, s>> # <<m, q>>
            /\ \A x \in {task'[n][s], task'[m][q]} :
                    x.part = p /\ x.pc \in {"poll", "batch"}}

----------------------------------------------------------------------------
(* The leader lock *)

\* Mutant: the lock is written even when another pod holds it.
AcquireAnyway(n) ==
    /\ role[n] = "candidate"
    /\ lock' = n
    /\ role' = [role EXCEPT ![n] = "leader"]
    /\ UNCHANGED <<topic, known, client, task, data, env, history, doubled>>

\* set_nx_ex: the lock is taken when nobody holds it.
Acquire(n) ==
    /\ role[n] = "candidate"
    /\ lock = None
    /\ lock' = n
    /\ role' = [role EXCEPT ![n] = "leader"]
    /\ UNCHANGED <<topic, known, client, task, data, env, history, doubled>>

\* The renewal task, started with the lock, writes it without looking at it.
Renew(n) ==
    /\ role[n] \in {"leader", "running", "returned"}
    /\ lock # n
    /\ lock' = n
    /\ UNCHANGED <<topic, role, known, client, task, data, env, history, doubled>>

\* The lock times out: its owner is not there, or could not renew it in time.
Expire ==
    /\ lock # None
    /\ \/ role[lock] = "candidate" /\ UNCHANGED expiries
       \/ role[lock] # "candidate" /\ Mishap
                                   /\ expiries' = expiries + 1
    /\ lock' = None
    /\ UNCHANGED <<topic, role, known, client, task, data, faults, changes,
                   history, doubled>>

\* One task is spawned for every partition of ps, in free slots.
SpawnTasks(n, ps) ==
    LET free == {s \in Slot : task[n][s].pc = "none"}
        places == {f \in [ps -> free] : \A p, q \in ps : f[p] = f[q] => p = q}
        first == CHOOSE f \in places : TRUE
    IN  /\ places # {}
        /\ task' = [task EXCEPT ![n] = [s \in Slot |->
               IF \E p \in ps : first[p] = s
               THEN NewTask(CHOOSE p \in ps : first[p] = s) ELSE @[s]]]
        /\ Observe

\* Mutant: the partitions that got a task are not remembered.
StartConsumersForgets(n) ==
    /\ role[n] = "leader"
    /\ ValidPartitions # {}
    /\ SpawnTasks(n, ValidPartitions)
    /\ role' = [role EXCEPT ![n] = "running"]
    /\ UNCHANGED <<topic, lock, known, client, data, env, history>>

\* build_consumer_client and the list of partitions; one task for each.
StartConsumers(n) ==
    /\ role[n] = "leader"
    /\ ValidPartitions # {}
    /\ SpawnTasks(n, ValidPartitions)
    /\ known' = [known EXCEPT ![n] = ValidPartitions]
    /\ role' = [role EXCEPT ![n] = "running"]
    /\ UNCHANGED <<topic, lock, client, data, env, history>>

\* No client or no partition: the function returns, the renewal goes on.
StartFails(n) ==
    /\ role[n] = "leader"
    /\ \/ ValidPartitions = {} /\ UNCHANGED faults
       \/ Mishap /\ faults' = faults + 1
    /\ role' = [role EXCEPT ![n] = "returned"]
    /\ UNCHANGED <<topic, lock, known, client, task, data, expiries, changes,
                   history, doubled>>

\* Every five minutes: a task for every partition that was not there before.
\* The task of a partition that went away is left to its errors.
Redetect(n) ==
    /\ role[n] = "running"
    /\ ~FixedPartitions
    /\ meta # known[n]
    /\ SpawnTasks(n, AddedPartitions(n))
    /\ known' = [known EXCEPT ![n] = meta]
    /\ UNCHANGED <<topic, lock, role, client, data, env, history>>

----------------------------------------------------------------------------
(* One consume_partition task *)

Step(n, s, t) == task' = [task EXCEPT ![n][s] = t]

Works(n, p) == client[n] = "ok" /\ p \in meta

\* partition_client fails: the connection is gone or the partition is.
NoClient(n, p) == client[n] = "no_leader" \/ p \notin meta

\* Mutant: the task begins at the end of the partition whatever its file says.
LoadOffsetLatest(n, s) ==
    LET t == task[n][s]
    IN  /\ t.pc = "start"
        /\ Works(n, t.part)
        /\ Step(n, s, [t EXCEPT !.pc = "poll", !.errors = 0, !.next = Len(log[t.part])])
        /\ began' = [began EXCEPT ![n][t.part] = Len(log[t.part])]
        /\ UNCHANGED <<topic, leader, client, data, env, tried, stored,
                       together, fetched, late, saved, cut>>
        /\ Observe

\* The file's offset, or the end of the partition when there is none.
LoadOffset(n, s) ==
    LET t == task[n][s]
    IN  /\ t.pc = "start"
        /\ file[n][t.part] # NoOffset \/ Works(n, t.part)
        /\ Step(n, s, [t EXCEPT !.pc = "poll", !.errors = 0,
                  !.next = IF file[n][t.part] # NoOffset THEN file[n][t.part]
                           ELSE Len(log[t.part])])
        /\ began' = IF file[n][t.part] # NoOffset THEN began
                    ELSE [began EXCEPT ![n][t.part] = Len(log[t.part])]
        /\ UNCHANGED <<topic, leader, client, data, env, tried, stored,
                       together, fetched, late, saved, cut>>
        /\ Observe

\* A failed initialisation is retried; at the limit a missing partition client
\* is worth one reconnection, a missing offset is not.
InitFails(n, s) ==
    LET t == task[n][s]
    IN  /\ t.pc = "start"
        /\ file[n][t.part] = NoOffset
        /\ ~Works(n, t.part)
        /\ \/ /\ t.errors < MAX_INIT_RETRIES
              /\ Step(n, s, [t EXCEPT !.errors = @ + 1])
              /\ UNCHANGED <<client, began>>
           \/ /\ t.errors = MAX_INIT_RETRIES
              /\ NoClient(n, t.part)
              /\ t.part \in meta
              /\ client' = [client EXCEPT ![n] = "ok"]
              /\ Step(n, s, [t EXCEPT !.pc = "poll", !.errors = 0,
                                      !.next = Len(log[t.part])])
              /\ began' = [began EXCEPT ![n][t.part] = Len(log[t.part])]
           \/ /\ t.errors = MAX_INIT_RETRIES
              /\ Step(n, s, [t EXCEPT !.pc = "ended"])
              /\ UNCHANGED began
              /\ \/ UNCHANGED client
                 \/ NoClient(n, t.part) /\ t.part \notin meta
                                        /\ client' = [client EXCEPT ![n] = "ok"]
        /\ UNCHANGED <<topic, leader, data, env, tried, stored, together,
                       fetched, late, saved, cut>>
        /\ Observe

\* fetch_records: the broker returns some records from next_offset on.
Fetch(n, s) ==
    LET t == task[n][s]
    IN  /\ t.pc = "poll"
        /\ Works(n, t.part)
        /\ \E last \in t.next .. Len(log[t.part]) - 1 :
            /\ Step(n, s, [t EXCEPT !.pc = "batch", !.last = last, !.errors = 0,
                                    !.todo = @ \cup Spawned(t.part, t.next, last)])
            /\ together' = together \cup Pairs(t.part, t.next, last)
            /\ LET batch == {<<t.part, o>> : o \in t.next .. last}
               IN  fetched' = fetched \cup batch
                   /\ late' = late \cup {x \in batch :
                          \E y \in fetched : y[1] = t.part /\ y[2] >= x[2]}
        /\ UNCHANGED <<topic, leader, client, data, env, began, tried, stored,
                       saved, cut, doubled>>

\* Mutant: enough errors reset the counter and nothing else.
CountErrorOnly(n, s, errors) ==
    LET t == task[n][s]
    IN  /\ Step(n, s, [t EXCEPT !.errors =
              IF errors < RECONNECT_AFTER_CONSECUTIVE_ERRORS THEN errors ELSE 0])
        /\ UNCHANGED client

\* One more error; enough of them, once the debounce time is over, reconnect,
\* which may fail.
CountError(n, s, errors) ==
    LET t == task[n][s]
    IN  \/ /\ Step(n, s, [t EXCEPT !.errors =
                 IF errors < RECONNECT_AFTER_CONSECUTIVE_ERRORS THEN errors
                 ELSE RECONNECT_AFTER_CONSECUTIVE_ERRORS])
           /\ UNCHANGED client
        \/ /\ errors >= RECONNECT_AFTER_CONSECUTIVE_ERRORS
           /\ Step(n, s, [t EXCEPT !.errors = 0])
           /\ \/ client' = [client EXCEPT ![n] = "ok"]
              \/ UNCHANGED client

\* No partition client.
NoPartitionClient(n, s) ==
    LET t == task[n][s]
    IN  /\ t.pc = "poll"
        /\ NoClient(n, t.part)
        /\ CountError(n, s, t.errors + 1)
        /\ UNCHANGED <<topic, leader, data, env, history, doubled>>

\* The number of errors a fetch that fails is counted as: the partition client
\* obtained just before it has reset the counter.
ErrorsAtFetch(t) == 0

\* fetch_records fails or times out.
FetchFails(n, s) ==
    LET t == task[n][s]
    IN  /\ t.pc = "poll"
        /\ client[n] = "no_fetch" /\ t.part \in meta
        /\ CountError(n, s, ErrorsAtFetch(t) + 1)
        /\ UNCHANGED <<topic, leader, data, env, history, doubled>>

\* The spawned task of a record updates the row, which may fail ...
UpdateRow(n, s) ==
    LET t == task[n][s]
    IN  \E o \in {i \in 0 .. MaxLog : <<i, "row">> \in t.todo} :
        LET k == log[t.part][o + 1].ticket
        IN  /\ Step(n, s, [t EXCEPT !.todo =
                     (@ \ {<<o, "row">>}) \cup {<<o, "etdr">>}])
            /\ \/ /\ row' = [row EXCEPT ![k] = <<t.part, o>>]
                  /\ stored' = stored \cup {<<t.part, o>>}
                  /\ UNCHANGED faults
               \/ /\ Mishap
                  /\ faults' = faults + 1
                  /\ UNCHANGED <<row, stored>>
            /\ UNCHANGED <<topic, leader, client, file, etdr, expiries,
                           changes, began, tried,
                           together, fetched, late, saved, cut, doubled>>

\* ... and then the ETDR in memory, whatever became of the row.
UpdateEtdr(n, s) ==
    LET t == task[n][s]
    IN  \E o \in {i \in 0 .. MaxLog : <<i, "etdr">> \in t.todo} :
        LET k == log[t.part][o + 1].ticket
        IN  /\ Step(n, s, [t EXCEPT !.todo = @ \ {<<o, "etdr">>}])
            /\ etdr' = IF <<n, k>> \in Cached
                       THEN [etdr EXCEPT ![n][k] = <<t.part, o>>] ELSE etdr
            /\ tried' = [tried EXCEPT ![n] = @ \cup {<<t.part, o>>}]
            /\ UNCHANGED <<topic, leader, client, file, row, env, began, stored,
                           together, fetched, late, saved, cut, doubled>>

\* The next offset is kept and the loop goes on.
Advanced(t) == [t EXCEPT !.pc = "poll", !.next = t.last + 1, !.last = NoOffset,
                         !.saving = FALSE]

\* Mutant: the file is opened while tasks of the batch still run.
OpenFileEarly(n, s) ==
    LET t == task[n][s]
    IN  /\ t.pc = "batch" /\ ~t.saving
        /\ Step(n, s, [t EXCEPT !.saving = TRUE])
        /\ file' = [file EXCEPT ![n][t.part] = NoOffset]
        /\ UNCHANGED <<topic, leader, client, row, etdr, env, history, doubled>>

\* All tasks of the batch are joined: fs::write opens the file, which empties it,
\* or cannot open it.
OpenFile(n, s) ==
    LET t == task[n][s]
    IN  /\ t.pc = "batch" /\ ~t.saving
        /\ t.todo = {}
        /\ \/ /\ Step(n, s, [t EXCEPT !.saving = TRUE])
              /\ file' = [file EXCEPT ![n][t.part] = NoOffset]
              /\ UNCHANGED faults
           \/ /\ Mishap
              /\ faults' = faults + 1
              /\ Step(n, s, Advanced(t))
              /\ UNCHANGED file
        /\ UNCHANGED <<topic, leader, client, row, etdr, expiries, changes,
                       history, doubled>>

\* The next offset is written to the open file, or that fails and the file stays
\* empty.
SaveOffset(n, s) ==
    LET t == task[n][s]
        p == t.part
    IN  /\ t.saving
        /\ Step(n, s, Advanced(t))
        /\ \/ /\ file' = [file EXCEPT ![n][p] = t.last + 1]
              /\ saved' = IF t.last + 1 > saved[n][p]
                          THEN [saved EXCEPT ![n][p] = t.last + 1] ELSE saved
              /\ cut' = cut \ {<<n, p>>}
              /\ UNCHANGED faults
           \/ /\ Mishap
              /\ faults' = faults + 1
              /\ cut' = cut \cup {<<n, p>>}
              /\ UNCHANGED <<file, saved>>
        /\ UNCHANGED <<topic, leader, client, row, etdr, expiries, changes,
                       began, tried, stored, together, fetched, late, doubled>>

----------------------------------------------------------------------------
(* The environment *)

Produce == \E p \in Partition, r \in Record :
    /\ Len(log[p]) < MaxLog
    /\ log' = [log EXCEPT ![p] = Append(@, r)]
    /\ UNCHANGED <<meta, leader, client, task, data, env, history, doubled>>

\* The broker drops a partition from its metadata or names it again.
ChangeMeta == \E p \in Partition :
    /\ Mishap
    /\ changes' = changes + 1
    /\ meta' = IF p \in meta THEN meta \ {p} ELSE meta \cup {p}
    /\ UNCHANGED <<log, leader, client, task, data, faults, expiries, history,
                   doubled>>

\* The connection of a pod breaks: no partition client any more, or partition
\* clients whose fetches fail.
Break(n) ==
    /\ Mishap
    /\ faults' = faults + 1
    /\ client[n] = "ok"
    /\ \E c \in {"no_leader", "no_fetch"} : client' = [client EXCEPT ![n] = c]
    /\ UNCHANGED <<topic, leader, task, data, expiries, changes, history,
                   doubled>>

\* Pod n is in the middle of saving an offset of partition p.
Saving(n, p) == \E s \in Slot : task[n][s].saving /\ task[n][s].part = p

\* A pod dies and is started again: its files, the lock and the rows stay, a file
\* that was opened and not written stays empty.
Crash(n) ==
    /\ Mishap
    /\ faults' = faults + 1
    /\ role' = [role EXCEPT ![n] = "candidate"]
    /\ known' = [known EXCEPT ![n] = {}]
    /\ client' = [client EXCEPT ![n] = "ok"]
    /\ task' = [task EXCEPT ![n] = [s \in Slot |-> Idle]]
    /\ etdr' = [etdr EXCEPT ![n] = [t \in Ticket |-> NoHub]]
    /\ cut' = cut \cup {<<n, p>> : p \in {q \in Partition : Saving(n, q)}}
    /\ UNCHANGED <<topic, lock, file, row, expiries, changes, began, tried, stored,
                   together, fetched, late, saved, doubled>>

TaskStep(n, s) ==
    \/ LoadOffset(n, s) \/ InitFails(n, s)
    \/ Fetch(n, s) \/ NoPartitionClient(n, s) \/ FetchFails(n, s)
    \/ UpdateRow(n, s) \/ UpdateEtdr(n, s)
    \/ OpenFile(n, s) \/ SaveOffset(n, s)

Next ==
    \/ Produce \/ ChangeMeta \/ Expire
    \/ \E n \in Node :
        \/ Acquire(n) \/ Renew(n) \/ StartConsumers(n) \/ StartFails(n)
        \/ Redetect(n) \/ Break(n) \/ Crash(n)
        \/ \E s \in Slot : TaskStep(n, s)

Spec == Init /\ [][Next]_vars

\* A task whose loop can go on does; of the reconnections one succeeds.
Fairness == \A n \in Node, s \in Slot :
    /\ WF_vars(TaskStep(n, s))
    /\ SF_vars(NoPartitionClient(n, s) /\ client'[n] = "ok")

FairSpec == Spec /\ Fairness

----------------------------------------------------------------------------
(* Properties *)

\* Every message of p that pod n read below offset end was handled.
Covered(n, p, end) ==
    \A o \in began[n][p] .. end - 1 :
        (o >= 0 /\ Applies(log[p][o + 1])) => <<p, o>> \in tried[n]

\* The offset file of a pod never passes a message of the HUB whose two
\* updates were not both attempted: whatever the pod read since it last began at
\* the end of the partition was handled before the offset was saved, so that a
\* crash repeats messages of the last batch.
NothingSkipped == \A n \in Node, p \in Partition : Covered(n, p, file[n][p])

\* An offset that is saved is never below one saved before, through crashes and
\* lost files, unless two tasks of the pod read the same partition, and that takes a
\* partition that left the metadata and came back: its first task was never
\* stopped.
OffsetsAdvance == [][\A n \in Node, p \in Partition :
    file'[n][p] \in 0 .. saved[n][p] - 1 => changes >= 2]_vars

\* A pod that once saved an offset begins at the end of the partition, over all that
\* was sent meanwhile, only when its last save was cut off: save_offset_to_file empties the
\* file before it writes it, so a failed write, a crash in between, or a second
\* task that starts in between finds no offset.
ResumesFromFile == [][\A n \in Node, p \in Partition :
    (saved[n][p] # NoOffset /\ began'[n][p] # began[n][p]) =>
        <<n, p>> \in cut \/ Saving(n, p)]_vars

\* Two pods read the topic at the same time only if the leader lock expired
\* while its owner was alive: the renewal does not stop the old leader.
TwoReadersNeedExpiry ==
    (\E n, m \in Node : n # m /\ Reading(n) /\ Reading(m)) => expiries > 0

\* The row and the cached ETDR of a ticket hold the hub id of the newest of
\* its messages that reached them, unless two of them were in one batch (whose
\* updates run in parallel), the older one was fetched after a later one (for
\* the second time, or by a pod that came back with an older offset file), or
\* the partition had two readers.
NewestHubIdWins ==
    \A p \in Partition \ doubled : \A i, j \in 0 .. Len(log[p]) - 1 :
        LET k == log[p][i + 1].ticket
        IN  (/\ i < j /\ k # None /\ log[p][j + 1].ticket = k
             /\ <<p, i, j>> \notin together /\ <<p, i>> \notin late) =>
            /\ row[k] = <<p, i>> => <<p, j>> \notin stored
            /\ \A n \in Node : etdr[n][k] = <<p, i>> => <<p, j>> \notin tried[n]

\* Once the HUB stops sending, every task that reads handles all there is,
\* unless its partition disappeared or its connection only fails in fetches: a
\* connection without partition clients is replaced.
CaughtUp == <>[](\A n \in Node, s \in Slot :
    LET t == task[n][s]
    IN  t.pc \in {"start", "poll", "batch"} =>
            \/ t.pc = "poll" /\ t.next = Len(log[t.part])
            \/ client[n] = "no_fetch" \/ t.part \notin meta)

----------------------------------------------------------------------------
(* The inductive invariant of the proofs *)

Task == [pc : {"none", "start", "poll", "batch", "ended"}, part : Partition \cup {None},
         next : Int, last : Int, todo : SUBSET (Int \X {"row", "etdr"}),
         saving : BOOLEAN, errors : Nat]

HubId == (Partition \cup {None}) \X Int

TypeOK ==
    /\ log \in [Partition -> Seq(Record)] /\ meta \subseteq Partition
    /\ lock \in Node \cup {None}
    /\ role \in [Node -> {"candidate", "leader", "running", "returned"}]
    /\ known \in [Node -> SUBSET Partition]
    /\ client \in [Node -> {"ok", "no_leader", "no_fetch"}]
    /\ task \in [Node -> [Slot -> Task]]
    /\ file \in [Node -> [Partition -> Int]] /\ began \in [Node -> [Partition -> Int]]
    /\ row \in [Ticket -> HubId] /\ etdr \in [Node -> [Ticket -> HubId]]
    /\ tried \in [Node -> SUBSET ((Partition \cup {None}) \X Int)]
    /\ faults \in Nat /\ expiries \in Nat /\ changes \in Nat

\* A task belongs to a pod that consumes; what lies before its offset was
\* handled, and what its batch has is handled or still to be done.
TaskSound(n, s) ==
    LET t == task[n][s]
        p == t.part
    IN  /\ t.pc # "none" => p \in Partition /\ role[n] = "running"
        /\ t.pc \in {"poll", "batch"} => t.next \in 0 .. Len(log[p]) /\ Covered(n, p, t.next)
        /\ t.pc = "batch" =>
              /\ t.last \in t.next .. Len(log[p]) - 1
              /\ \A o \in t.next .. t.last : Applies(log[p][o + 1]) =>
                    \/ <<p, o>> \in tried[n]
                    \/ <<o, "row">> \in t.todo \/ <<o, "etdr">> \in t.todo
        /\ t.saving => t.pc = "batch" /\ t.todo = {}

\* No file and no beginning lies behind the end of its partition.
FileSound(n, p) ==
    /\ file[n][p] \in NoOffset .. Len(log[p])
    /\ began[n][p] \in NoOffset .. Len(log[p])
    /\ Covered(n, p, file[n][p])

\* As long as no lock of a living pod expired, its owner is the only pod that is not
\* a candidate.
LockSound == expiries = 0 => \A n \in Node : role[n] # "candidate" => lock = n

\* Until a partition came back, a pod has one task for it, which has read at least
\* up to the saved offset.
OneReader(n) ==
    /\ role[n] = "running" => meta \subseteq known[n]
    /\ \A s, q \in Slot :
          (/\ task[n][s].pc # "none" /\ task[n][q].pc # "none"
           /\ task[n][s].part = task[n][q].part) => s = q
    /\ \A s \in Slot : task[n][s].pc \in {"poll", "batch"} =>
          file[n][task[n][s].part] <= task[n][s].next

OneReaderEach ==
    /\ changes = 0 => meta = Partition
    /\ changes < 2 => \A n \in Node : OneReader(n)

IInv ==
    /\ TypeOK
    /\ \A n \in Node, s \in Slot : TaskSound(n, s)
    /\ \A n \in Node, p \in Partition : FileSound(n, p)
    /\ LockSound
    /\ OneReaderEach

\* An offset was saved when it was within the log.  A file that was written is empty
\* only while it is saved, or because a save was cut off.
SavedSound(n, p) ==
    /\ saved[n][p] \in NoOffset .. Len(log[p])
    /\ saved[n][p] # NoOffset /\ file[n][p] = NoOffset => <<n, p>> \in cut \/ Saving(n, p)

\* Until a partition came back, a file holds the highest offset saved, or nothing, and
\* the task of the partition has read at least up to it.
SavedAhead(n) ==
    /\ \A p \in Partition : file[n][p] \in {NoOffset, saved[n][p]}
    /\ \A s \in Slot : task[n][s].pc \in {"poll", "batch"} =>
          saved[n][task[n][s].part] <= task[n][s].next

OffsetInv ==
    /\ saved \in [Node -> [Partition -> Int]]
    /\ \A n \in Node, p \in Partition : SavedSound(n, p)
    /\ changes < 2 => \A n \in Node : SavedAhead(n)

\* What was stored or handled was fetched, and what was fetched is in the log.
HistorySound ==
    /\ \A x \in fetched : x[1] \in Partition /\ x[2] \in 0 .. Len(log[x[1]]) - 1
    /\ stored \subseteq fetched
    /\ \A n \in Node : tried[n] \subseteq fetched
    /\ \A n \in Node, k \in Ticket : etdr[n][k] # NoHub => <<n, k>> \in Cached

\* Only a batch has steps to do, for records that were fetched.
TodoSound(n, s) ==
    LET t == task[n][s]
    IN  \A x \in t.todo : t.pc = "batch" /\ <<t.part, x[1]>> \in fetched

\* A partition with two readers is among the doubled ones.
DoubledSeen ==
    \A n, m \in Node, s, q \in Slot :
        (/\ <<n, s>> # <<m, q>> /\ task[n][s].part = task[m][q].part
         /\ task[n][s].pc \in {"poll", "batch"} /\ task[m][q].pc \in {"poll", "batch"}) =>
        task[n][s].part \in doubled

\* A record that is still to be done is the last one fetched of its partition, but for
\* those of its batch, unless it was late.
NewestToDo(n, s) ==
    LET t == task[n][s]
    IN  t.part \notin doubled => \A x \in t.todo, y \in fetched :
            (y[1] = t.part /\ x[1] < y[2]) =>
                <<t.part, x[1], y[2]>> \in together \/ <<t.part, x[1]>> \in late

OrderInv ==
    /\ HistorySound
    /\ DoubledSeen
    /\ \A n \in Node, s \in Slot : TodoSound(n, s) /\ NewestToDo(n, s)
    /\ NewestHubIdWins
=============================================================================
