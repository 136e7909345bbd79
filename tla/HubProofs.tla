------------------------------ MODULE HubProofs ------------------------------
(***************************************************************************)
(* Proofs about HubConsumer, for any number of pods, partitions, messages  *)
(* and mishaps: no saved offset passes a message that was not handled, two *)
(* pods read only after the lock of a living pod expired.  IInv            *)
(* (HubConsumer) is inductive; one lemma per group of actions shows that   *)
(* they keep it.  Upon it, OffsetInv is (a saved offset goes back only     *)
(* after a partition came back, and is lost only to a save that was cut    *)
(* off), and OrderInv: no older hub id overwrites a newer one, but for the *)
(* cases NewestHubIdWins names.                                            *)
(***************************************************************************)
EXTENDS HubConsumer, TLAPS

-----------------------------------------------------------------------------
(* What every step does *)

\* The log and the records handled only grow, and a pod begins further on.
Grow ==
  /\ \A p \in Partition :
        /\ Len(log[p]) <= Len(log'[p])
        /\ \A i \in 1..Len(log[p]) : log'[p][i] = log[p][i]
  /\ \A n \in Node : tried[n] \subseteq tried'[n]
  /\ \A n \in Node, p \in Partition : began[n][p] <= began'[n][p]

\* The logs are sequences of records.
LEMMA LogGrows ==
  ASSUME TypeOK, TypeOK', Grow, NEW p \in Partition
  PROVE  /\ log[p] \in Seq(Record) /\ log'[p] \in Seq(Record)
         /\ Len(log[p]) \in Nat /\ Len(log'[p]) \in Nat /\ Len(log[p]) <= Len(log'[p])
         /\ \A o \in 0 .. Len(log[p]) - 1 : log'[p][o + 1] = log[p][o + 1]
  <1>1. log[p] \in Seq(Record) /\ log'[p] \in Seq(Record)
    BY DEF TypeOK
  <1>2. /\ Len(log[p]) <= Len(log'[p])
        /\ \A i \in 1..Len(log[p]) : log'[p][i] = log[p][i]
    BY DEF Grow
  <1>3. ASSUME NEW o \in 0 .. Len(log[p]) - 1 PROVE log'[p][o + 1] = log[p][o + 1]
    <2>1. o + 1 \in 1..Len(log[p])
      BY <1>1
    <2> QED BY <1>2, <2>1
  <1> QED BY <1>1, <1>2, <1>3

\* What was handled stays so.
LEMMA CoveredStays ==
  ASSUME TypeOK, TypeOK', Grow, NEW n \in Node, NEW p \in Partition,
         NEW end \in Int, end <= Len(log[p]), Covered(n, p, end)
  PROVE  \A o \in began'[n][p] .. end - 1 :
            (o >= 0 /\ Applies(log'[p][o + 1])) => <<p, o>> \in tried'[n]
  <1> SUFFICES ASSUME NEW o \in began'[n][p] .. end - 1, o >= 0, Applies(log'[p][o + 1])
               PROVE  <<p, o>> \in tried'[n]
    OBVIOUS
  <1>1. /\ began[n][p] \in Int /\ began'[n][p] \in Int /\ began[n][p] <= began'[n][p]
    BY DEF TypeOK, Grow
  <1>2. /\ Len(log[p]) \in Nat
        /\ \A i \in 0 .. Len(log[p]) - 1 : log'[p][i + 1] = log[p][i + 1]
    BY LogGrows
  <1>3. o \in began[n][p] .. end - 1 /\ log'[p][o + 1] = log[p][o + 1]
    BY <1>1, <1>2
  <1>4. <<p, o>> \in tried[n]
    BY <1>3 DEF Covered
  <1> QED BY <1>4 DEF Grow

\* What the invariant says of one task.
LEMMA TaskOf ==
  ASSUME IInv, NEW n \in Node, NEW s \in Slot
  PROVE  TypeOK /\ task[n][s] \in Task /\ TaskSound(n, s)
  <1>1. TypeOK /\ TaskSound(n, s)
    BY DEF IInv
  <1>2. task \in [Node -> [Slot -> Task]]
    BY <1>1 DEF TypeOK
  <1> QED BY <1>1, <1>2

\* A task that a step leaves alone stays sound.
LEMMA TaskStays ==
  ASSUME IInv, TypeOK', Grow, NEW n \in Node, NEW s \in Slot,
         task'[n][s] = task[n][s], role[n] = "running" => role'[n] = "running"
  PROVE  TaskSound(n, s)'
  <1> DEFINE t == task[n][s]
             p == t.part
  <1>1. TypeOK /\ TaskSound(n, s) /\ t \in Task
    BY DEF IInv, TypeOK
  <1>2. t.pc # "none" => p \in Partition /\ role'[n] = "running"
    BY <1>1 DEF TaskSound
  <1>3. ASSUME t.pc \in {"poll", "batch"}
        PROVE  /\ t.next \in 0 .. Len(log'[p])
               /\ \A o \in began'[n][p] .. t.next - 1 :
                     (o >= 0 /\ Applies(log'[p][o + 1])) => <<p, o>> \in tried'[n]
    <2>1. p \in Partition /\ t.next \in 0 .. Len(log[p]) /\ Covered(n, p, t.next)
      BY <1>1, <1>3 DEF TaskSound
    <2> HIDE DEF t, p
    <2>2. Len(log[p]) \in Nat /\ Len(log'[p]) \in Nat /\ Len(log[p]) <= Len(log'[p])
      BY <1>1, <2>1, LogGrows
    <2>3. t.next \in Int /\ t.next <= Len(log[p])
      BY <2>1, <2>2
    <2>4. \A o \in began'[n][p] .. t.next - 1 :
             (o >= 0 /\ Applies(log'[p][o + 1])) => <<p, o>> \in tried'[n]
      BY <1>1, <2>1, <2>3, CoveredStays
    <2> QED BY <2>1, <2>2, <2>4
  <1>4. ASSUME t.pc = "batch"
        PROVE  /\ t.last \in t.next .. Len(log'[p]) - 1
               /\ \A o \in t.next .. t.last : Applies(log'[p][o + 1]) =>
                     \/ <<p, o>> \in tried'[n]
                     \/ <<o, "row">> \in t.todo \/ <<o, "etdr">> \in t.todo
    <2>1. /\ p \in Partition /\ t.next \in 0 .. Len(log[p])
          /\ t.last \in t.next .. Len(log[p]) - 1
          /\ \A o \in t.next .. t.last : Applies(log[p][o + 1]) =>
                \/ <<p, o>> \in tried[n]
                \/ <<o, "row">> \in t.todo \/ <<o, "etdr">> \in t.todo
      BY <1>1, <1>4 DEF TaskSound
    <2> HIDE DEF t, p
    <2>2. /\ Len(log[p]) \in Nat /\ Len(log'[p]) \in Nat /\ Len(log[p]) <= Len(log'[p])
          /\ \A o \in 0 .. Len(log[p]) - 1 : log'[p][o + 1] = log[p][o + 1]
      BY <1>1, <2>1, LogGrows
    <2>3. ASSUME NEW o \in t.next .. t.last PROVE log'[p][o + 1] = log[p][o + 1]
      BY <2>1, <2>2
    <2>4. tried[n] \subseteq tried'[n]
      BY DEF Grow
    <2>5. t.last \in t.next .. Len(log'[p]) - 1
      BY <2>1, <2>2
    <2>6. ASSUME NEW o \in t.next .. t.last, Applies(log'[p][o + 1])
          PROVE  \/ <<p, o>> \in tried'[n]
                 \/ <<o, "row">> \in t.todo \/ <<o, "etdr">> \in t.todo
      <3>1. Applies(log[p][o + 1])
        BY <2>3, <2>6
      <3> QED BY <2>1, <2>4, <3>1, Zenon
    <2> QED BY <2>5, <2>6
  <1>6. t.saving => t.pc = "batch" /\ t.todo = {}
    BY <1>1 DEF TaskSound
  <1> HIDE DEF t, p
  <1>5. task'[n][s] = t /\ p = t.part
    BY DEF t, p
  <1> QED BY <1>2, <1>3, <1>4, <1>5, <1>6 DEF TaskSound, Covered

\* So does a file that a step leaves alone.
LEMMA FileStays ==
  ASSUME IInv, TypeOK', Grow, NEW n \in Node, NEW p \in Partition,
         file'[n][p] = file[n][p], began'[n][p] \in NoOffset .. Len(log'[p])
  PROVE  FileSound(n, p)'
  <1>1. /\ TypeOK /\ file[n][p] \in NoOffset .. Len(log[p]) /\ Covered(n, p, file[n][p])
        /\ file[n][p] \in Int
    BY DEF IInv, FileSound, TypeOK
  <1>2. Len(log[p]) \in Nat /\ Len(log'[p]) \in Nat /\ Len(log[p]) <= Len(log'[p])
    BY <1>1, LogGrows
  <1>3. file[n][p] <= Len(log[p])
    BY <1>1, <1>2
  <1>4. \A o \in began'[n][p] .. file[n][p] - 1 :
           (o >= 0 /\ Applies(log'[p][o + 1])) => <<p, o>> \in tried'[n]
    BY <1>1, <1>3, CoveredStays
  <1>5. file'[n][p] \in NoOffset .. Len(log'[p])
    BY <1>1, <1>2 DEF NoOffset
  <1> QED BY <1>4, <1>5 DEF FileSound, Covered

\* The log, the beginnings and the records handled are as they were.
LEMMA NothingRead ==
  ASSUME TypeOK, UNCHANGED <<log, tried, began>>
  PROVE  Grow
  BY DEF Grow, TypeOK

\* A step that touches neither the log nor a task nor a file.
LEMMA QuietStep ==
  ASSUME IInv, TypeOK', UNCHANGED <<log, tried, began, file, task>>,
         \A n \in Node : role[n] = "running" => role'[n] = "running"
  PROVE  /\ \A n \in Node, s \in Slot : TaskSound(n, s)'
         /\ \A n \in Node, p \in Partition : FileSound(n, p)'
  <1>1. Grow
    BY NothingRead DEF IInv
  <1>2. ASSUME NEW n \in Node, NEW s \in Slot PROVE TaskSound(n, s)'
    BY <1>1, TaskStays
  <1>3. ASSUME NEW n \in Node, NEW p \in Partition PROVE FileSound(n, p)'
    <2>1. began'[n][p] \in NoOffset .. Len(log'[p])
      BY DEF IInv, FileSound
    <2> QED BY <1>1, <2>1, FileStays
  <1> QED BY <1>2, <1>3

-----------------------------------------------------------------------------
(* The lock, the metadata and the start of tasks *)

\* Nothing the readers depend on changes, and no pod starts to consume.
LEMMA ReadersStay ==
  ASSUME OneReaderEach, UNCHANGED <<meta, changes, known, file, task>>,
         \A n \in Node : role'[n] = "running" => role[n] = "running"
  PROVE  OneReaderEach'
  BY DEF OneReaderEach, OneReader

\* Produce: a message is appended.
LEMMA ProduceKeeps ==
  ASSUME IInv, Produce
  PROVE  IInv'
  <1>1. PICK p \in Partition, r \in Record : log' = [log EXCEPT ![p] = Append(@, r)]
    BY DEF Produce
  <1>2. /\ UNCHANGED <<meta, lock, role, known, client, task, file, row, etdr, faults,
                       expiries, changes, began, tried>>
        /\ TypeOK
    BY DEF Produce, IInv, leader, data, env, history
  <1>3. log \in [Partition -> Seq(Record)]
    BY <1>2 DEF TypeOK
  <1>4. log' \in [Partition -> Seq(Record)]
    BY <1>1, <1>3
  <1>5. TypeOK'
    BY <1>2, <1>4 DEF TypeOK
  <1>6. Grow
    <2>1. ASSUME NEW q \in Partition
          PROVE  /\ Len(log[q]) <= Len(log'[q])
                 /\ \A i \in 1..Len(log[q]) : log'[q][i] = log[q][i]
      <3>1. log[q] \in Seq(Record)
        BY <1>3
      <3>2. CASE q = p
        <4>1. log'[q] = Append(log[q], r)
          BY <1>1, <1>3, <3>2
        <4> QED BY <3>1, <4>1
      <3>3. CASE q # p
        BY <1>1, <1>3, <3>1, <3>3
      <3> QED BY <3>2, <3>3
    <2>2. \A n \in Node, q \in Partition : began[n][q] <= began'[n][q]
      BY <1>2 DEF TypeOK
    <2> QED BY <1>2, <2>1, <2>2 DEF Grow
  <1>7. ASSUME NEW n \in Node, NEW s \in Slot PROVE TaskSound(n, s)'
    BY <1>2, <1>5, <1>6, TaskStays
  <1>8. ASSUME NEW n \in Node, NEW q \in Partition PROVE FileSound(n, q)'
    <2>1. began[n][q] \in NoOffset .. Len(log[q])
      BY DEF IInv, FileSound
    <2>2. Len(log[q]) \in Nat /\ Len(log'[q]) \in Nat /\ Len(log[q]) <= Len(log'[q])
      BY <1>2, <1>5, <1>6, LogGrows
    <2>3. began'[n][q] \in NoOffset .. Len(log'[q])
      BY <1>2, <2>1, <2>2 DEF NoOffset
    <2> QED BY <1>2, <1>5, <1>6, <2>3, FileStays
  <1>9. LockSound' /\ OneReaderEach'
    BY <1>2, ReadersStay DEF IInv, LockSound
  <1> QED BY <1>5, <1>7, <1>8, <1>9 DEF IInv

\* Acquire, Renew, Expire, StartFails: the lock and who believes to have it.
LEMMA LockKeeps ==
  ASSUME IInv, Expire \/ \E n \in Node : Acquire(n) \/ Renew(n) \/ StartFails(n)
  PROVE  IInv'
  <1>1. /\ UNCHANGED <<log, meta, known, client, task, file, row, etdr, changes, began, tried>>
        /\ TypeOK
    BY DEF IInv, Expire, Acquire, Renew, StartFails, topic, data, env, history
  <1>2. None \notin Node
    BY HubAssumption
  <1>0. /\ lock \in Node \cup {None} /\ faults \in Nat /\ expiries \in Nat
        /\ role \in [Node -> {"candidate", "leader", "running", "returned"}]
    BY <1>1 DEF TypeOK
  <1>3. /\ lock' \in Node \cup {None} /\ faults' \in Nat /\ expiries' \in Nat
        /\ role' \in [Node -> {"candidate", "leader", "running", "returned"}]
    <2>1. CASE Expire
      BY <1>0, <2>1 DEF Expire
    <2>2. ASSUME NEW n \in Node, Acquire(n)
          PROVE  lock' = n /\ UNCHANGED <<faults, expiries>>
                 /\ role' = [role EXCEPT ![n] = "leader"]
      BY <2>2 DEF Acquire, env
    <2>3. ASSUME NEW n \in Node, Renew(n)
          PROVE  lock' = n /\ UNCHANGED <<faults, expiries, role>>
      BY <2>3 DEF Renew, env
    <2>4. ASSUME NEW n \in Node, StartFails(n)
          PROVE  UNCHANGED <<lock, expiries>> /\ faults' \in Nat
                 /\ role' = [role EXCEPT ![n] = "returned"]
      BY <1>0, <2>4 DEF StartFails
    <2>5. ASSUME NEW n \in Node, NEW r \in {"leader", "returned"},
                 role' = [role EXCEPT ![n] = r]
          PROVE  role' \in [Node -> {"candidate", "leader", "running", "returned"}]
      BY <1>0, <2>5
    <2> QED BY <1>0, <2>1, <2>2, <2>3, <2>4, <2>5
  <1>4. TypeOK'
    BY <1>1, <1>3 DEF TypeOK
  <1>5. \A n \in Node : role'[n] = "running" <=> role[n] = "running"
    <2>1. CASE Expire
      BY <2>1 DEF Expire
    <2>2. ASSUME NEW n \in Node, Acquire(n) \/ Renew(n) \/ StartFails(n)
          PROVE  \A m \in Node : role'[m] = "running" <=> role[m] = "running"
      BY <1>0, <2>2 DEF Acquire, Renew, StartFails
    <2> QED BY <2>1, <2>2
  <1>6. /\ \A n \in Node, s \in Slot : TaskSound(n, s)'
        /\ \A n \in Node, p \in Partition : FileSound(n, p)'
    BY <1>1, <1>4, <1>5, QuietStep
  <1>7. LockSound'
    <2>1. /\ lock \in Node \cup {None} /\ expiries \in Nat /\ LockSound
          /\ role \in [Node -> {"candidate", "leader", "running", "returned"}]
      BY DEF IInv, TypeOK
    <2>2. CASE Expire
      BY <1>2, <2>1, <2>2 DEF Expire, LockSound
    <2>3. ASSUME NEW n \in Node, Acquire(n) PROVE LockSound'
      BY <1>2, <2>1, <2>3 DEF Acquire, LockSound, env
    <2>4. ASSUME NEW n \in Node, Renew(n) PROVE LockSound'
      BY <1>2, <2>1, <2>4 DEF Renew, LockSound, env
    <2>5. ASSUME NEW n \in Node, StartFails(n) PROVE LockSound'
      BY <1>2, <2>1, <2>5 DEF StartFails, LockSound
    <2> QED BY <2>2, <2>3, <2>4, <2>5
  <1>8. OneReaderEach'
    BY <1>1, <1>5, ReadersStay DEF IInv
  <1> QED BY <1>4, <1>6, <1>7, <1>8 DEF IInv

\* ChangeMeta and Break: the broker and the connections.
LEMMA BrokerKeeps ==
  ASSUME IInv, ChangeMeta \/ \E n \in Node : Break(n)
  PROVE  IInv'
  <1>1. /\ UNCHANGED <<log, lock, role, known, task, file, row, etdr, expiries, began, tried>>
        /\ TypeOK
    BY DEF IInv, ChangeMeta, Break, topic, leader, data, history
  <1>2. /\ client' \in [Node -> {"ok", "no_leader", "no_fetch"}] /\ meta' \subseteq Partition
        /\ faults' \in Nat /\ changes' \in Nat
    <2>0. /\ client \in [Node -> {"ok", "no_leader", "no_fetch"}] /\ meta \subseteq Partition
          /\ faults \in Nat /\ changes \in Nat
      BY <1>1 DEF TypeOK
    <2>1. CASE ChangeMeta
      BY <2>0, <2>1 DEF ChangeMeta
    <2>2. ASSUME NEW n \in Node, Break(n)
          PROVE  /\ faults' = faults + 1 /\ UNCHANGED <<meta, changes>>
                 /\ \E c \in {"no_leader", "no_fetch"} : client' = [client EXCEPT ![n] = c]
      BY <2>2 DEF Break, topic
    <2>3. ASSUME NEW n \in Node, Break(n)
          PROVE  client' \in [Node -> {"ok", "no_leader", "no_fetch"}]
      <3>1. PICK c \in {"no_leader", "no_fetch"} : client' = [client EXCEPT ![n] = c]
        BY <2>2, <2>3
      <3> QED BY <2>0, <3>1
    <2> QED BY <2>0, <2>1, <2>2, <2>3
  <1>3. TypeOK'
    BY <1>1, <1>2 DEF TypeOK
  <1>4. /\ \A n \in Node, s \in Slot : TaskSound(n, s)'
        /\ \A n \in Node, p \in Partition : FileSound(n, p)'
    BY <1>1, <1>3, QuietStep
  <1>5. LockSound'
    BY <1>1 DEF IInv, LockSound
  <1>6. OneReaderEach'
    <2>1. CASE ChangeMeta
      <3>1. changes' = changes + 1 /\ changes \in Nat
        BY <2>1 DEF ChangeMeta, IInv, TypeOK
      <3>2. CASE changes = 0
        <4>1. meta' \subseteq meta /\ \A n \in Node : OneReader(n)
          <5>1. meta = Partition /\ \A n \in Node : OneReader(n)
            BY <3>2 DEF IInv, OneReaderEach
          <5>2. meta' \subseteq meta
            BY <2>1, <5>1 DEF ChangeMeta
          <5> QED BY <5>1, <5>2
        <4>2. \A n \in Node : OneReader(n)'
          BY <1>1, <4>1 DEF OneReader
        <4> QED BY <3>1, <4>2 DEF OneReaderEach
      <3>3. CASE changes # 0
        BY <3>1, <3>3 DEF OneReaderEach
      <3> QED BY <3>2, <3>3
    <2>2. CASE \E n \in Node : Break(n)
      <3>1. UNCHANGED <<meta, changes>> /\ OneReaderEach
        BY <2>2 DEF Break, IInv, topic
      <3> QED BY <1>1, <3>1, ReadersStay
    <2> QED BY <2>1, <2>2
  <1> QED BY <1>3, <1>4, <1>5, <1>6 DEF IInv

\* A new task.
LEMMA IdleTyped == Idle \in Task /\ Idle.pc = "none" /\ ~Idle.saving
  BY DEF Idle, Task, NoOffset

LEMMA NewTaskTyped ==
  ASSUME NEW p \in Partition
  PROVE  /\ NewTask(p) \in Task /\ NewTask(p).pc = "start" /\ NewTask(p).part = p
         /\ ~NewTask(p).saving
  BY IdleTyped DEF NewTask, Task

\* SpawnTasks: a slot of the pod keeps its task, or gets one for a partition of ps; two
\* slots do not get one for the same partition.
LEMMA SpawnTyped ==
  ASSUME TypeOK, NEW n \in Node, NEW ps, ps \subseteq Partition, SpawnTasks(n, ps)
  PROVE  /\ task' \in [Node -> [Slot -> Task]]
         /\ \A m \in Node \ {n} : task'[m] = task[m]
         /\ \A s \in Slot : task'[n][s] = task[n][s] \/ \E p \in ps : task'[n][s] = NewTask(p)
         /\ \A s \in Slot : task'[n][s] # task[n][s] => task[n][s].pc = "none"
         /\ \A s, q \in Slot : (/\ task'[n][s] # task[n][s] /\ task'[n][q] # task[n][q]
                                /\ task'[n][s].part = task'[n][q].part) => s = q
  <1> DEFINE free == {s \in Slot : task[n][s].pc = "none"}
             places == {f \in [ps -> free] : \A p, q \in ps : f[p] = f[q] => p = q}
             first == CHOOSE f \in places : TRUE
             After(f) == [task EXCEPT ![n] = [s \in Slot |->
                             IF \E p \in ps : f[p] = s
                             THEN NewTask(CHOOSE p \in ps : f[p] = s) ELSE @[s]]]
  <1>10. first \in places
    BY DEF SpawnTasks
  <1>11. task' = After(first)
    BY DEF SpawnTasks
  <1> HIDE DEF first, After
  <1>12. \E f \in [ps -> free] : task' = After(f)
    BY <1>10, <1>11
  <1> USE DEF After
  <1>1. PICK f \in [ps -> free] : task' = [task EXCEPT ![n] = [s \in Slot |->
                     IF \E p \in ps : f[p] = s
                     THEN NewTask(CHOOSE p \in ps : f[p] = s) ELSE @[s]]]
    BY <1>12, Zenon
  <1> HIDE DEF After
  <1>2. task \in [Node -> [Slot -> Task]]
    BY DEF TypeOK
  <1>0. DOMAIN task = Node
    BY <1>2
  <1>3. /\ \A m \in Node \ {n} : task'[m] = task[m]
        /\ task'[n] = [s \in Slot |-> IF \E p \in ps : f[p] = s
                                      THEN NewTask(CHOOSE p \in ps : f[p] = s)
                                      ELSE task[n][s]]
        /\ DOMAIN task' = Node
    BY <1>0, <1>1, Zenon
  <1>4. ASSUME NEW s \in Slot
        PROVE  \/ task'[n][s] = task[n][s]
               \/ \E p \in ps : f[p] = s /\ task'[n][s] = NewTask(p)
    <2>1. CASE \E p \in ps : f[p] = s
      <3> DEFINE c == CHOOSE p \in ps : f[p] = s
      <3>1. c \in ps /\ f[c] = s
        BY <2>1
      <3>2. task'[n][s] = NewTask(c)
        BY <1>3, <2>1
      <3> HIDE DEF c
      <3> QED BY <3>1, <3>2
    <2>2. CASE ~\E p \in ps : f[p] = s
      BY <1>3, <2>2
    <2> QED BY <2>1, <2>2
  <1>5. ASSUME NEW s \in Slot PROVE task'[n][s] \in Task
    <2>1. CASE task'[n][s] = task[n][s]
      BY <1>2, <2>1
    <2>2. ASSUME NEW p \in ps, task'[n][s] = NewTask(p) PROVE task'[n][s] \in Task
      BY <2>2, NewTaskTyped
    <2> QED BY <1>4, <2>1, <2>2
  <1>6. task'[n] \in [Slot -> Task]
    BY <1>3, <1>5
  <1>7. task' \in [Node -> [Slot -> Task]]
    <2>1. task' = [m \in Node |-> task'[m]]
      BY <1>0, <1>1, Zenon
    <2>2. \A m \in Node : task'[m] \in [Slot -> Task]
      BY <1>2, <1>3, <1>6
    <2> HIDE DEF Task
    <2> QED BY <2>1, <2>2
  <1>8. ASSUME NEW s \in Slot, NEW q \in Slot, task'[n][s] # task[n][s],
               task'[n][q] # task[n][q], task'[n][s].part = task'[n][q].part
        PROVE  s = q
    <2>1. PICK p \in ps : f[p] = s /\ task'[n][s] = NewTask(p)
      BY <1>4, <1>8
    <2>2. PICK r \in ps : f[r] = q /\ task'[n][q] = NewTask(r)
      BY <1>4, <1>8
    <2>3. p = r
      BY <1>8, <2>1, <2>2, NewTaskTyped
    <2> QED BY <2>1, <2>2, <2>3
  <1>9. \A s \in Slot : task'[n][s] = task[n][s] \/ \E p \in ps : task'[n][s] = NewTask(p)
    BY <1>4
  <1>13. ASSUME NEW s \in Slot, task'[n][s] # task[n][s] PROVE task[n][s].pc = "none"
    BY <1>1, <1>4, <1>13
  <1> QED BY <1>3, <1>7, <1>8, <1>9, <1>13

\* A pod whose tasks a step starts or keeps; no pod stops to consume.
LEMMA SpawnSound ==
  ASSUME IInv, TypeOK', Grow, NEW n \in Node, NEW s \in Slot, NEW ps, ps \subseteq Partition,
         role'[n] = "running",
         task'[n][s] = task[n][s] \/ \E p \in ps : task'[n][s] = NewTask(p)
  PROVE  TaskSound(n, s)'
  <1>1. CASE task'[n][s] = task[n][s]
    BY <1>1, TaskStays
  <1>2. ASSUME NEW p \in ps, task'[n][s] = NewTask(p) PROVE TaskSound(n, s)'
    <2>1. /\ task'[n][s].pc = "start" /\ task'[n][s].part = p /\ p \in Partition
          /\ ~task'[n][s].saving
      BY <1>2, NewTaskTyped
    <2> QED BY <2>1 DEF TaskSound
  <1> QED BY <1>1, <1>2

\* StartConsumers: the pod that has the lock starts a task per partition.
LEMMA StartKeeps ==
  ASSUME IInv, NEW n \in Node, StartConsumers(n)
  PROVE  IInv'
  <1> DEFINE ps == ValidPartitions
  <1>0. ps \subseteq Partition /\ meta \subseteq ps
    BY DEF IInv, TypeOK, ValidPartitions
  <1>1. /\ UNCHANGED <<log, meta, lock, client, file, row, etdr, faults, expiries, changes,
                       began, tried>>
        /\ TypeOK /\ role[n] = "leader" /\ SpawnTasks(n, ps)
        /\ known' = [known EXCEPT ![n] = ps] /\ role' = [role EXCEPT ![n] = "running"]
    BY DEF StartConsumers, IInv, TypeOK, topic, data, env, history
  <1> HIDE DEF ps
  <1>2. /\ role \in [Node -> {"candidate", "leader", "running", "returned"}]
        /\ known \in [Node -> SUBSET Partition]
    BY <1>1 DEF TypeOK
  <1>3. /\ role' \in [Node -> {"candidate", "leader", "running", "returned"}]
        /\ known' \in [Node -> SUBSET Partition]
        /\ \A m \in Node \ {n} : role'[m] = role[m] /\ known'[m] = known[m]
        /\ role'[n] = "running" /\ known'[n] = ps
    BY <1>0, <1>1, <1>2
  <1>4. /\ task' \in [Node -> [Slot -> Task]]
        /\ \A m \in Node \ {n} : task'[m] = task[m]
        /\ \A s \in Slot : task'[n][s] = task[n][s] \/ \E p \in ps : task'[n][s] = NewTask(p)
        /\ \A s, q \in Slot : (/\ task'[n][s] # task[n][s] /\ task'[n][q] # task[n][q]
                               /\ task'[n][s].part = task'[n][q].part) => s = q
    BY <1>0, <1>1, SpawnTyped
  <1>5. TypeOK'
    BY <1>1, <1>3, <1>4 DEF TypeOK
  <1>6. Grow
    BY <1>1, NothingRead
  <1>7. ASSUME NEW m \in Node, NEW s \in Slot PROVE TaskSound(m, s)'
    <2>1. CASE m = n
      BY <1>0, <1>1, <1>3, <1>4, <1>5, <1>6, <2>1, SpawnSound
    <2>2. CASE m # n
      BY <1>3, <1>4, <1>5, <1>6, <2>2, TaskStays
    <2> QED BY <2>1, <2>2
  <1>8. ASSUME NEW m \in Node, NEW p \in Partition PROVE FileSound(m, p)'
    <2>1. began'[m][p] \in NoOffset .. Len(log'[p])
      BY <1>1 DEF IInv, FileSound
    <2> QED BY <1>1, <1>5, <1>6, <2>1, FileStays
  <1>9. LockSound'
    BY <1>1, <1>3 DEF IInv, LockSound
  <1>10. OneReaderEach'
    <2>1. \A s \in Slot : task[n][s].pc = "none"
      BY <1>1 DEF IInv, TaskSound
    <2>2. ASSUME NEW s \in Slot, task'[n][s].pc # "none"
          PROVE  task'[n][s] # task[n][s] /\ task'[n][s].pc = "start"
      <3>1. task'[n][s] # task[n][s]
        BY <2>1, <2>2
      <3>2. PICK p \in ps : task'[n][s] = NewTask(p)
        BY <1>4, <3>1
      <3> QED BY <1>0, <1>1, <3>1, <3>2, NewTaskTyped
    <2>3. OneReader(n)'
      <3>1. \A s, q \in Slot : (/\ task'[n][s].pc # "none" /\ task'[n][q].pc # "none"
                                /\ task'[n][s].part = task'[n][q].part) => s = q
        BY <1>4, <2>2
      <3>2. \A s \in Slot : task'[n][s].pc \notin {"poll", "batch"}
        BY <2>2
      <3> QED BY <1>0, <1>1, <1>3, <3>1, <3>2 DEF OneReader
    <2>4. ASSUME NEW m \in Node \ {n}, OneReader(m) PROVE OneReader(m)'
      BY <1>1, <1>3, <1>4, <2>4 DEF OneReader
    <2> QED BY <1>1, <2>3, <2>4 DEF IInv, OneReaderEach
  <1> QED BY <1>5, <1>7, <1>8, <1>9, <1>10 DEF IInv

\* Redetect: the pod starts a task for a partition it did not know.
LEMMA RedetectKeeps ==
  ASSUME IInv, NEW n \in Node, Redetect(n)
  PROVE  IInv'
  <1> DEFINE ps == AddedPartitions(n)
  <1>1. /\ UNCHANGED <<log, meta, lock, role, client, file, row, etdr, faults, expiries, changes,
                       began, tried>>
        /\ TypeOK /\ meta \subseteq Partition /\ role[n] = "running" /\ SpawnTasks(n, ps)
        /\ known' = [known EXCEPT ![n] = meta] /\ ps = meta \ known[n]
    BY DEF Redetect, IInv, TypeOK, topic, data, env, history, AddedPartitions
  <1> HIDE DEF ps
  <1>2. known \in [Node -> SUBSET Partition] /\ ps \subseteq Partition
    BY <1>1 DEF TypeOK
  <1>3. /\ known' \in [Node -> SUBSET Partition]
        /\ \A m \in Node \ {n} : known'[m] = known[m]
        /\ known'[n] = meta
    BY <1>1, <1>2
  <1>4. /\ task' \in [Node -> [Slot -> Task]]
        /\ \A m \in Node \ {n} : task'[m] = task[m]
        /\ \A s \in Slot : task'[n][s] = task[n][s] \/ \E p \in ps : task'[n][s] = NewTask(p)
    BY <1>1, <1>2, SpawnTyped
  <1>5. TypeOK'
    BY <1>1, <1>3, <1>4 DEF TypeOK
  <1>6. Grow
    BY <1>1, NothingRead
  <1>7. ASSUME NEW m \in Node, NEW s \in Slot PROVE TaskSound(m, s)'
    <2>1. CASE m = n
      BY <1>1, <1>2, <1>4, <1>5, <1>6, <2>1, SpawnSound
    <2>2. CASE m # n
      BY <1>1, <1>4, <1>5, <1>6, <2>2, TaskStays
    <2> QED BY <2>1, <2>2
  <1>8. ASSUME NEW m \in Node, NEW p \in Partition PROVE FileSound(m, p)'
    <2>1. began'[m][p] \in NoOffset .. Len(log'[p])
      BY <1>1 DEF IInv, FileSound
    <2> QED BY <1>1, <1>5, <1>6, <2>1, FileStays
  <1>9. LockSound'
    BY <1>1 DEF IInv, LockSound
  <1>10. OneReaderEach'
    <2>1. ASSUME changes < 2, NEW m \in Node PROVE OneReader(m)'
      <3>1. OneReader(m)
        BY <2>1 DEF IInv, OneReaderEach
      <3>2. CASE m = n
        <4>1. ps = {}
          BY <1>1, <3>1, <3>2 DEF OneReader
        <4>2. \A s \in Slot : task'[n][s] = task[n][s]
          BY <1>4, <4>1
        <4>3. meta' \subseteq known'[n]
          BY <1>1, <1>3
        <4> QED BY <1>1, <3>1, <3>2, <4>2, <4>3 DEF OneReader
      <3>3. CASE m # n
        BY <1>1, <1>3, <1>4, <3>1, <3>3 DEF OneReader
      <3> QED BY <3>2, <3>3
    <2> QED BY <1>1, <2>1 DEF IInv, OneReaderEach
  <1> QED BY <1>5, <1>7, <1>8, <1>9, <1>10 DEF IInv

\* Crash: the tasks of the pod are gone, its files stay.
LEMMA CrashKeeps ==
  ASSUME IInv, NEW n \in Node, Crash(n)
  PROVE  IInv'
  <1>1. /\ UNCHANGED <<log, meta, lock, file, row, expiries, changes, began, tried>>
        /\ TypeOK /\ faults' = faults + 1
        /\ role' = [role EXCEPT ![n] = "candidate"] /\ known' = [known EXCEPT ![n] = {}]
        /\ client' = [client EXCEPT ![n] = "ok"]
        /\ task' = [task EXCEPT ![n] = [s \in Slot |-> Idle]]
        /\ etdr' = [etdr EXCEPT ![n] = [t \in Ticket |-> NoHub]]
    BY DEF Crash, IInv, topic, data, history
  <1>2. /\ role \in [Node -> {"candidate", "leader", "running", "returned"}]
        /\ known \in [Node -> SUBSET Partition] /\ faults \in Nat
        /\ client \in [Node -> {"ok", "no_leader", "no_fetch"}]
        /\ task \in [Node -> [Slot -> Task]] /\ etdr \in [Node -> [Ticket -> HubId]]
    BY <1>1 DEF TypeOK
  <1>3. /\ role' \in [Node -> {"candidate", "leader", "running", "returned"}]
        /\ role'[n] = "candidate" /\ \A m \in Node \ {n} : role'[m] = role[m]
    BY <1>1, <1>2
  <1>4. known' \in [Node -> SUBSET Partition] /\ \A m \in Node \ {n} : known'[m] = known[m]
    BY <1>1, <1>2
  <1>5. client' \in [Node -> {"ok", "no_leader", "no_fetch"}]
    BY <1>1, <1>2
  <1>6. etdr' \in [Node -> [Ticket -> HubId]]
    BY <1>1, <1>2 DEF NoHub, HubId, NoOffset
  <1>7. /\ task' \in [Node -> [Slot -> Task]]
        /\ \A s \in Slot : task'[n][s] = Idle
        /\ \A m \in Node \ {n} : task'[m] = task[m]
    BY <1>1, <1>2, IdleTyped
  <1>8. TypeOK'
    BY <1>1, <1>2, <1>3, <1>4, <1>5, <1>6, <1>7 DEF TypeOK
  <1>9. Grow
    BY <1>1, NothingRead
  <1>10. ASSUME NEW m \in Node, NEW s \in Slot PROVE TaskSound(m, s)'
    <2>1. CASE m = n
      <3>1. task'[m][s].pc = "none" /\ ~task'[m][s].saving
        BY <1>7, <2>1, IdleTyped
      <3> QED BY <3>1 DEF TaskSound
    <2>2. CASE m # n
      BY <1>3, <1>7, <1>8, <1>9, <2>2, TaskStays
    <2> QED BY <2>1, <2>2
  <1>11. ASSUME NEW m \in Node, NEW p \in Partition PROVE FileSound(m, p)'
    <2>1. began'[m][p] \in NoOffset .. Len(log'[p])
      BY <1>1 DEF IInv, FileSound
    <2> QED BY <1>1, <1>8, <1>9, <2>1, FileStays
  <1>12. LockSound'
    BY <1>1, <1>3 DEF IInv, LockSound
  <1>13. OneReaderEach'
    <2>1. OneReader(n)'
      <3>1. \A s \in Slot : task'[n][s].pc = "none"
        BY <1>7, IdleTyped
      <3> QED BY <1>3, <3>1 DEF OneReader
    <2>2. ASSUME NEW m \in Node \ {n}, OneReader(m) PROVE OneReader(m)'
      BY <1>1, <1>3, <1>4, <1>7, <2>2 DEF OneReader
    <2> QED BY <1>1, <2>1, <2>2 DEF IInv, OneReaderEach
  <1> QED BY <1>8, <1>10, <1>11, <1>12, <1>13 DEF IInv

-----------------------------------------------------------------------------
(* The steps of a task *)

\* Every other task is as it was.
Alone(n, s) == \A m \in Node, q \in Slot : m # n \/ q # s => task'[m][q] = task[m][q]

\* The lock, the roles and the metadata are as they were.
Settled == UNCHANGED <<meta, lock, role, known, expiries, changes>>

\* Step: one task changes.
LEMMA StepTyped ==
  ASSUME TypeOK, NEW n \in Node, NEW s \in Slot, NEW t \in Task, Step(n, s, t)
  PROVE  task' \in [Node -> [Slot -> Task]] /\ task'[n][s] = t /\ Alone(n, s)
  <1>1. task \in [Node -> [Slot -> Task]] /\ task' = [task EXCEPT ![n][s] = t]
    BY DEF TypeOK, Step
  <1>2. task' \in [Node -> [Slot -> Task]]
    BY <1>1
  <1>3. task'[n][s] = t
    BY <1>1
  <1>4. ASSUME NEW m \in Node, NEW q \in Slot, m # n \/ q # s
        PROVE  task'[m][q] = task[m][q]
    BY <1>1, <1>4
  <1> QED BY <1>2, <1>3, <1>4 DEF Alone

\* A task goes on with its partition, and saves no offset behind the one it reads from.
LEMMA ReaderStep ==
  ASSUME IInv, TypeOK', NEW n \in Node, NEW s \in Slot, Settled, Alone(n, s),
         task'[n][s].part = task[n][s].part,
         task[n][s].pc # "none" \/ task'[n][s].pc = "none",
         \A m \in Node, p \in Partition :
            file'[m][p] = file[m][p] \/ (m = n /\ p = task[n][s].part /\ task[n][s].pc # "none"),
         changes < 2 /\ task'[n][s].pc \in {"poll", "batch"} =>
            file'[n][task[n][s].part] <= task'[n][s].next
  PROVE  OneReaderEach'
  <1>1. UNCHANGED <<meta, role, known, changes>>
    BY DEF Settled
  <1>2. ASSUME NEW m \in Node, changes < 2 PROVE OneReader(m)'
    <2>1. OneReader(m)
      BY <1>2 DEF IInv, OneReaderEach
    <2>2. ASSUME NEW q \in Slot, task'[m][q].pc # "none"
          PROVE  task[m][q].pc # "none" /\ task'[m][q].part = task[m][q].part
      <3>1. CASE m = n /\ q = s
        BY <2>2, <3>1
      <3>2. CASE m # n \/ q # s
        BY <2>2, <3>2 DEF Alone
      <3> QED BY <3>1, <3>2
    <2>3. \A q, r \in Slot : (/\ task'[m][q].pc # "none" /\ task'[m][r].pc # "none"
                              /\ task'[m][q].part = task'[m][r].part) => q = r
      BY <2>1, <2>2 DEF OneReader
    <2>4. ASSUME NEW q \in Slot, task'[m][q].pc \in {"poll", "batch"}
          PROVE  file'[m][task'[m][q].part] <= task'[m][q].next
      <3>1. CASE m = n /\ q = s
        BY <1>2, <2>4, <3>1
      <3>2. CASE m # n \/ q # s
        <4>1. task'[m][q] = task[m][q]
          BY <3>2 DEF Alone
        <4>2. task[m][q].part \in Partition /\ task[m][q].pc # "none"
          BY <2>4, <4>1 DEF IInv, TaskSound
        <4>3. ~(m = n /\ task[m][q].part = task[n][s].part /\ task[n][s].pc # "none")
          BY <2>1, <3>2, <4>2 DEF OneReader
        <4>4. file'[m][task[m][q].part] = file[m][task[m][q].part]
          BY <4>2, <4>3
        <4> QED BY <2>1, <2>4, <4>1, <4>4 DEF OneReader
      <3> QED BY <3>1, <3>2
    <2>5. role'[m] = "running" => meta' \subseteq known'[m]
      BY <1>1, <2>1 DEF OneReader
    <2> QED BY <2>3, <2>4, <2>5 DEF OneReader
  <1> QED BY <1>1, <1>2 DEF IInv, OneReaderEach

\* What a step of a task has to show.
LEMMA TaskStepKeeps ==
  ASSUME IInv, TypeOK', Grow, NEW n \in Node, NEW s \in Slot, Settled, Alone(n, s),
         OneReaderEach', TaskSound(n, s)',
         \A m \in Node, p \in Partition : FileSound(m, p)'
  PROVE  IInv'
  <1>1. LockSound' /\ UNCHANGED role
    BY DEF IInv, LockSound, Settled
  <1>2. ASSUME NEW m \in Node, NEW q \in Slot PROVE TaskSound(m, q)'
    <2>1. CASE m = n /\ q = s
      BY <2>1
    <2>2. CASE m # n \/ q # s
      <3>1. task'[m][q] = task[m][q]
        BY <2>2 DEF Alone
      <3> QED BY <1>1, <3>1, TaskStays
    <2> QED BY <2>1, <2>2
  <1> QED BY <1>1, <1>2 DEF IInv

\* No offset is saved and nothing is begun.
LEMMA FilesStay ==
  ASSUME IInv, TypeOK', Grow, UNCHANGED <<log, file, began>>
  PROVE  \A m \in Node, p \in Partition : FileSound(m, p)'
  <1> SUFFICES ASSUME NEW m \in Node, NEW p \in Partition PROVE FileSound(m, p)'
    OBVIOUS
  <1>1. began'[m][p] \in NoOffset .. Len(log'[p])
    BY DEF IInv, FileSound
  <1> QED BY <1>1, FileStays

\* The error counter of a task moves, or the task ends.
LEMMA ErrorsKeep ==
  ASSUME IInv, NEW n \in Node, NEW s \in Slot, NEW e \in Nat, NEW pc,
         pc = task[n][s].pc \/ (task[n][s].pc = "start" /\ pc = "ended"),
         Step(n, s, [task[n][s] EXCEPT !.pc = pc, !.errors = e]), Settled,
         UNCHANGED <<log, file, row, etdr, began, tried, faults>>,
         client' \in [Node -> {"ok", "no_leader", "no_fetch"}]
  PROVE  IInv'
  <1> DEFINE t == task[n][s]
             u == [t EXCEPT !.pc = pc, !.errors = e]
  <1>1. TypeOK /\ t \in Task
    BY DEF IInv, TypeOK
  <1>2. /\ u \in Task /\ u.pc = pc /\ u.part = t.part /\ u.next = t.next /\ u.last = t.last
        /\ u.todo = t.todo /\ u.saving = t.saving
    BY <1>1 DEF Task
  <1>3. Step(n, s, u)
    OBVIOUS
  <1> HIDE DEF u
  <1>4. task' \in [Node -> [Slot -> Task]] /\ task'[n][s] = u /\ Alone(n, s)
    BY <1>1, <1>2, <1>3, StepTyped
  <1>5. TypeOK'
    BY <1>1, <1>4 DEF TypeOK, Settled
  <1>6. Grow
    BY <1>1, NothingRead
  <1>7. TaskSound(n, s)'
    <2>1. TaskSound(n, s) /\ UNCHANGED <<role, log, began, tried>>
      BY DEF IInv, Settled
    <2>2. CASE pc = t.pc
      BY <1>2, <1>4, <2>1, <2>2 DEF TaskSound, Covered
    <2>3. CASE t.pc = "start" /\ pc = "ended"
      BY <1>2, <1>4, <2>1, <2>3 DEF TaskSound
    <2> QED BY <2>2, <2>3
  <1>8. \A m \in Node, p \in Partition : FileSound(m, p)'
    BY <1>5, <1>6, FilesStay
  <1>9. OneReaderEach'
    <2>1. changes < 2 /\ u.pc \in {"poll", "batch"} => file'[n][t.part] <= u.next
      BY <1>2 DEF IInv, OneReaderEach, OneReader
    <2>2. u.part = t.part /\ (t.pc # "none" \/ u.pc = "none")
      BY <1>2
    <2> HIDE DEF t
    <2>3. t = task[n][s]
      BY Zenon DEF t
    <2> QED BY <1>4, <1>5, <2>1, <2>2, <2>3, ReaderStep
  <1> QED BY <1>4, <1>5, <1>6, <1>7, <1>8, <1>9, TaskStepKeeps

\* NoPartitionClient and FetchFails: an error is counted, the connection may be replaced.
LEMMA CountErrorKeeps ==
  ASSUME IInv, NEW n \in Node, NEW s \in Slot, NoPartitionClient(n, s) \/ FetchFails(n, s)
  PROVE  IInv'
  <1> DEFINE t == task[n][s]
  <1>1. /\ t \in Task /\ client \in [Node -> {"ok", "no_leader", "no_fetch"}]
        /\ RECONNECT_AFTER_CONSECUTIVE_ERRORS \in Nat
    BY HubAssumption DEF IInv, TypeOK
  <1>2. t.errors \in Nat
    BY <1>1 DEF Task
  <1>0. ASSUME NEW e \in Nat
        PROVE  [t EXCEPT !.errors = e] = [t EXCEPT !.pc = t.pc, !.errors = e]
    BY <1>1, Zenon DEF Task
  <1>3. Settled /\ UNCHANGED <<log, file, row, etdr, began, tried, faults>>
    BY DEF NoPartitionClient, FetchFails, Settled, topic, leader, data, env, history
  <1>4. PICK k \in Nat : CountError(n, s, k)
    <2>1. CASE NoPartitionClient(n, s)
      <3>1. t.errors + 1 \in Nat
        BY <1>2
      <3>2. CountError(n, s, t.errors + 1)
        BY <2>1 DEF NoPartitionClient
      <3> QED BY <3>1, <3>2
    <2>2. CASE FetchFails(n, s)
      BY <2>2 DEF FetchFails, ErrorsAtFetch
    <2> QED BY <2>1, <2>2
  <1>5. /\ \E e \in Nat : Step(n, s, [t EXCEPT !.errors = e])
        /\ UNCHANGED client \/ client' = [client EXCEPT ![n] = "ok"]
    <2>1. CASE Step(n, s, [t EXCEPT !.errors =
                 IF k < RECONNECT_AFTER_CONSECUTIVE_ERRORS THEN k
                 ELSE RECONNECT_AFTER_CONSECUTIVE_ERRORS]) /\ UNCHANGED client
      BY <1>1, <2>1
    <2>2. CASE /\ Step(n, s, [t EXCEPT !.errors = 0])
               /\ client' = [client EXCEPT ![n] = "ok"] \/ UNCHANGED client
      BY <2>2
    <2> QED BY <1>4, <2>1, <2>2 DEF CountError
  <1>6. client' \in [Node -> {"ok", "no_leader", "no_fetch"}]
    BY <1>1, <1>5
  <1>7. PICK e \in Nat : Step(n, s, [t EXCEPT !.pc = t.pc, !.errors = e])
    BY <1>0, <1>5, Zenon
  <1> QED BY <1>3, <1>6, <1>7, ErrorsKeep, Zenon

\* A task has its first offset: the one of its file, or the end of its partition.
LEMMA BeginKeeps ==
  ASSUME IInv, NEW n \in Node, NEW s \in Slot, NEW next, task[n][s].pc = "start",
         Step(n, s, [task[n][s] EXCEPT !.pc = "poll", !.errors = 0, !.next = next]), Settled,
         UNCHANGED <<log, file, row, etdr, tried, faults>>,
         client' \in [Node -> {"ok", "no_leader", "no_fetch"}],
         \/ /\ file[n][task[n][s].part] # NoOffset /\ next = file[n][task[n][s].part]
            /\ UNCHANGED began
         \/ /\ file[n][task[n][s].part] = NoOffset /\ next = Len(log[task[n][s].part])
            /\ began' = [began EXCEPT ![n][task[n][s].part] = next]
  PROVE  IInv'
  <1> DEFINE t == task[n][s]
             p == t.part
             u == [t EXCEPT !.pc = "poll", !.errors = 0, !.next = next]
  <1>1. TypeOK /\ t \in Task /\ p \in Partition /\ role[n] = "running"
    <2>1. TypeOK /\ t \in Task
      BY DEF IInv, TypeOK
    <2> QED BY <2>1 DEF IInv, TaskSound
  <1> HIDE DEF p
  <1>2. /\ file[n][p] \in NoOffset .. Len(log[p]) /\ Covered(n, p, file[n][p])
        /\ Len(log[p]) \in Nat /\ began \in [Node -> [Partition -> Int]]
    BY <1>1 DEF IInv, FileSound, TypeOK
  <1>3. /\ next \in 0 .. Len(log[p]) /\ file[n][p] <= next
        /\ began' \in [Node -> [Partition -> Int]]
        /\ \A m \in Node, q \in Partition : began'[m][q] = began[m][q]
              \/ (m = n /\ q = p /\ began'[m][q] = Len(log[p]))
        /\ (UNCHANGED began /\ next = file[n][p]) \/ began'[n][p] = next
    <2>1. CASE /\ file[n][p] # NoOffset /\ next = file[n][p] /\ UNCHANGED began
      BY <1>2, <2>1 DEF NoOffset
    <2>2. CASE /\ file[n][p] = NoOffset /\ next = Len(log[p])
               /\ began' = [began EXCEPT ![n][p] = next]
      BY <1>1, <1>2, <2>2 DEF NoOffset
    <2> QED BY <2>1, <2>2 DEF p
  <1>4. /\ u \in Task /\ u.pc = "poll" /\ u.part = p /\ u.next = next /\ ~u.saving
    <2>0. next \in 0 .. Len(log[p]) /\ Len(log[p]) \in Nat
      BY <1>2, <1>3, Zenon
    <2>4. next \in Int
      <3> HIDE DEF t
      <3> QED BY <2>0
    <2>1. next \in Int /\ t.part = p
      BY <2>4, Zenon DEF p
    <2>2. t \in Task /\ ~t.saving
      BY <1>1 DEF IInv, TaskSound
    <2> HIDE DEF t
    <2>3. \A x \in Task : \A i \in Int :
              LET y == [x EXCEPT !.pc = "poll", !.errors = 0, !.next = i]
              IN  y \in Task /\ y.pc = "poll" /\ y.part = x.part /\ y.next = i
      BY DEF Task
    <2>5. u \in Task /\ u.pc = "poll" /\ u.part = p /\ u.next = next
      BY <2>1, <2>2, <2>3, Zenon
    <2>6. \A x \in Task : \A i \in Int :
              [x EXCEPT !.pc = "poll", !.errors = 0, !.next = i].saving = x.saving
      BY DEF Task
    <2>7. u.saving = t.saving
      BY <2>1, <2>2, <2>6, Zenon
    <2> QED BY <2>2, <2>5, <2>7, Zenon
  <1>5. Step(n, s, u)
    OBVIOUS
  <1> HIDE DEF u
  <1>6. task' \in [Node -> [Slot -> Task]] /\ task'[n][s] = u /\ Alone(n, s)
    BY <1>1, <1>4, <1>5, StepTyped
  <1>7. TypeOK'
    BY <1>1, <1>3, <1>6 DEF TypeOK, Settled
  <1>8. \A m \in Node, q \in Partition : began[m][q] \in NoOffset .. Len(log[q])
    BY DEF IInv, FileSound
  <1>9. ASSUME NEW m \in Node, NEW q \in Partition
        PROVE  began[m][q] <= began'[m][q] /\ began'[m][q] \in NoOffset .. Len(log'[q])
    <2>1. Len(log[q]) \in Nat /\ began[m][q] \in NoOffset .. Len(log[q]) /\ UNCHANGED log
      BY <1>1, <1>8 DEF TypeOK
    <2>2. CASE began'[m][q] = began[m][q]
      BY <2>1, <2>2 DEF NoOffset
    <2>3. CASE m = n /\ q = p /\ began'[m][q] = Len(log[p])
      BY <2>1, <2>3 DEF NoOffset
    <2> QED BY <1>3, <2>2, <2>3
  <1>10. Grow
    BY <1>1, <1>9 DEF Grow, TypeOK
  <1>11. TaskSound(n, s)'
    <2>1. UNCHANGED <<log, tried, role>>
      BY DEF Settled
    <2>2. CASE UNCHANGED began /\ next = file[n][p]
      BY <1>1, <1>2, <1>3, <1>4, <1>6, <2>1, <2>2 DEF TaskSound, Covered
    <2>3. CASE began'[n][p] = next
      <3>1. began'[n][p] .. next - 1 = {}
        BY <1>3, <2>3
      <3> QED BY <1>1, <1>3, <1>4, <1>6, <2>1, <3>1 DEF TaskSound, Covered
    <2> QED BY <1>3, <2>2, <2>3
  <1>12. \A m \in Node, q \in Partition : FileSound(m, q)'
    BY <1>7, <1>9, <1>10, FileStays
  <1>13. OneReaderEach'
    <2>1. t.part = p /\ file'[n][p] <= u.next /\ t.pc # "none"
      BY <1>3, <1>4 DEF p
    <2> HIDE DEF t
    <2>2. t = task[n][s]
      BY Zenon DEF t
    <2> QED BY <1>4, <1>6, <1>7, <2>1, <2>2, ReaderStep
  <1> QED BY <1>6, <1>7, <1>10, <1>11, <1>12, <1>13, TaskStepKeeps

\* LoadOffset: the offset of the file, or the end of the partition.
LEMMA LoadKeeps ==
  ASSUME IInv, NEW n \in Node, NEW s \in Slot, LoadOffset(n, s)
  PROVE  IInv'
  <1> DEFINE t == task[n][s]
             next == IF file[n][t.part] # NoOffset THEN file[n][t.part] ELSE Len(log[t.part])
  <1>1. /\ Settled /\ UNCHANGED <<log, file, row, etdr, tried, faults, client>>
        /\ client \in [Node -> {"ok", "no_leader", "no_fetch"}]
    BY DEF LoadOffset, Settled, topic, leader, data, env, IInv, TypeOK
  <1>2. /\ t.pc = "start" /\ Step(n, s, [t EXCEPT !.pc = "poll", !.errors = 0, !.next = next])
        /\ began' = IF file[n][t.part] # NoOffset THEN began
                    ELSE [began EXCEPT ![n][t.part] = Len(log[t.part])]
    BY DEF LoadOffset
  <1>3. \/ file[n][t.part] # NoOffset /\ next = file[n][t.part] /\ UNCHANGED began
        \/ /\ file[n][t.part] = NoOffset /\ next = Len(log[t.part])
           /\ began' = [began EXCEPT ![n][t.part] = next]
    BY <1>2
  <1> HIDE DEF next
  <1> QED BY <1>1, <1>2, <1>3, BeginKeeps, Zenon

\* InitFails: another attempt, a reconnection, or the end of the task.
LEMMA InitFailsKeeps ==
  ASSUME IInv, NEW n \in Node, NEW s \in Slot, InitFails(n, s)
  PROVE  IInv'
  <1> DEFINE t == task[n][s]
  <1>1. /\ Settled /\ UNCHANGED <<log, file, row, etdr, tried, faults>>
        /\ client \in [Node -> {"ok", "no_leader", "no_fetch"}]
        /\ t \in Task /\ t.pc = "start" /\ file[n][t.part] = NoOffset
    BY DEF InitFails, Settled, topic, leader, data, env, IInv, TypeOK
  <1>2. /\ t.errors \in Nat
        /\ [t EXCEPT !.errors = t.errors + 1] = [t EXCEPT !.pc = t.pc, !.errors = t.errors + 1]
        /\ [t EXCEPT !.pc = "ended"] = [t EXCEPT !.pc = "ended", !.errors = t.errors]
    BY <1>1 DEF Task
  <1>3. client' \in [Node -> {"ok", "no_leader", "no_fetch"}]
    <2>1. UNCHANGED client \/ client' = [client EXCEPT ![n] = "ok"]
      BY DEF InitFails
    <2> QED BY <1>1, <2>1
  <1>4. CASE Step(n, s, [t EXCEPT !.errors = @ + 1]) /\ UNCHANGED began
    <2>1. Step(n, s, [t EXCEPT !.pc = t.pc, !.errors = t.errors + 1]) /\ t.errors + 1 \in Nat
      BY <1>2, <1>4
    <2> QED BY <1>1, <1>3, <1>4, <2>1, ErrorsKeep, Zenon
  <1>5. CASE /\ Step(n, s, [t EXCEPT !.pc = "poll", !.errors = 0, !.next = Len(log[t.part])])
             /\ began' = [began EXCEPT ![n][t.part] = Len(log[t.part])]
    BY <1>1, <1>3, <1>5, BeginKeeps, Zenon
  <1>6. CASE Step(n, s, [t EXCEPT !.pc = "ended"]) /\ UNCHANGED began
    <2>1. Step(n, s, [t EXCEPT !.pc = "ended", !.errors = t.errors])
      BY <1>2, <1>6
    <2> QED BY <1>1, <1>2, <1>3, <1>6, <2>1, ErrorsKeep, Zenon
  <1> QED BY <1>4, <1>5, <1>6 DEF InitFails

\* Fetch: the records of the batch that apply are to be done.
LEMMA FetchKeeps ==
  ASSUME IInv, NEW n \in Node, NEW s \in Slot, Fetch(n, s)
  PROVE  IInv'
  <1> DEFINE t == task[n][s]
             p == t.part
             U(last) == [t EXCEPT !.pc = "batch", !.last = last, !.errors = 0,
                                  !.todo = @ \cup Spawned(t.part, t.next, last)]
  <1>1. /\ Settled
        /\ UNCHANGED <<log, file, row, etdr, began, tried, faults, client>>
        /\ TypeOK /\ t \in Task /\ t.pc = "poll"
    BY DEF Fetch, Settled, topic, leader, data, env, IInv, TypeOK
  <1>2. PICK last \in t.next .. Len(log[t.part]) - 1 : Step(n, s, U(last))
    BY Zenon DEF Fetch
  <1>3. /\ p \in Partition /\ role[n] = "running"
        /\ t.next \in 0 .. Len(log[p]) /\ Covered(n, p, t.next)
    BY <1>1 DEF IInv, TaskSound
  <1>4. Len(log[p]) \in Nat /\ t.next \in Int /\ last \in Int
    BY <1>1, <1>2, <1>3 DEF TypeOK
  <1> DEFINE new == Spawned(p, t.next, last)
  <1>5. /\ new \subseteq Int \X {"row", "etdr"}
        /\ \A o \in t.next .. last : Applies(log[p][o + 1]) => <<o, "row">> \in new
    <2> HIDE DEF t, p
    <2> QED BY <1>4 DEF Spawned
  <1> HIDE DEF new
  <1> DEFINE u == [t EXCEPT !.pc = "batch", !.last = last, !.errors = 0,
                            !.todo = t.todo \cup new]
  <1>6. Step(n, s, u)
    BY <1>2 DEF new
  <1>7. /\ u \in Task /\ u.pc = "batch" /\ u.part = p /\ u.next = t.next /\ u.last = last
        /\ u.todo = t.todo \cup new /\ ~u.saving
    <2>1. ~t.saving
      BY <1>1 DEF IInv, TaskSound
    <2> QED BY <1>1, <1>4, <1>5, <2>1 DEF Task
  <1> HIDE DEF u
  <1>8. task' \in [Node -> [Slot -> Task]] /\ task'[n][s] = u /\ Alone(n, s)
    BY <1>1, <1>6, <1>7, StepTyped
  <1>9. TypeOK' /\ Grow
    <2>1. TypeOK'
      BY <1>1, <1>8 DEF TypeOK, Settled
    <2> QED BY <1>1, <2>1, NothingRead
  <1>10. UNCHANGED role
    BY <1>1 DEF Settled
  <1>11. OneReaderEach'
    <2>1. changes < 2 => file[n][p] <= u.next
      BY <1>1, <1>7 DEF IInv, OneReaderEach, OneReader
    <2>2. t.part = p /\ u.part = p /\ t.pc # "none" /\ UNCHANGED file
      BY <1>1, <1>7
    <2> HIDE DEF t
    <2>3. t = task[n][s]
      BY Zenon DEF t
    <2> QED BY <1>1, <1>8, <1>9, <2>1, <2>2, <2>3, ReaderStep
  <1>12. TaskSound(n, s)'
    <2> HIDE DEF t, p
    <2>1. last \in u.next .. Len(log[p]) - 1
      BY <1>2, <1>7 DEF p
    <2> QED BY <1>1, <1>3, <1>5, <1>7, <1>8, <1>10, <2>1 DEF TaskSound, Covered
  <1>13. \A m \in Node, q \in Partition : FileSound(m, q)'
    BY <1>1, <1>9, FilesStay
  <1> QED BY <1>1, <1>8, <1>9, <1>11, <1>12, <1>13, TaskStepKeeps

\* A record of the batch is done with one of its steps: what is left of it stays to be
\* done, or it was handled.
LEMMA WorkKeeps ==
  ASSUME IInv, TypeOK', Grow, NEW n \in Node, NEW s \in Slot, NEW todo \in SUBSET (Int \X {"row", "etdr"}),
         task[n][s].todo # {}, Step(n, s, [task[n][s] EXCEPT !.todo = todo]), Settled, UNCHANGED <<log, file, began>>,
         \A o \in Int : (<<o, "row">> \in task[n][s].todo \/ <<o, "etdr">> \in task[n][s].todo) =>
            \/ <<task[n][s].part, o>> \in tried'[n]
            \/ <<o, "row">> \in todo \/ <<o, "etdr">> \in todo
  PROVE  IInv'
  <1> DEFINE t == task[n][s]
             p == t.part
             u == [t EXCEPT !.todo = todo]
  <1>1. TypeOK /\ t \in Task /\ TaskSound(n, s)
    BY TaskOf, Zenon
  <1>2. /\ u \in Task /\ u.pc = t.pc /\ u.part = p /\ u.next = t.next /\ u.last = t.last
        /\ u.todo = todo /\ ~u.saving
    <2>1. ~t.saving
      BY <1>1 DEF TaskSound
    <2> QED BY <1>1, <2>1 DEF Task
  <1>3. Step(n, s, u)
    OBVIOUS
  <1> HIDE DEF u
  <1>4. task'[n][s] = u /\ Alone(n, s)
    BY <1>1, <1>2, <1>3, StepTyped
  <1>5. OneReaderEach'
    <2>1. changes < 2 /\ u.pc \in {"poll", "batch"} => file[n][p] <= u.next
      BY <1>2 DEF IInv, OneReaderEach, OneReader
    <2>2. t.part = p /\ u.part = p /\ (t.pc # "none" \/ u.pc = "none")
      BY <1>2
    <2> HIDE DEF t
    <2>3. t = task[n][s]
      BY Zenon DEF t
    <2> QED BY <1>4, <2>1, <2>2, <2>3, ReaderStep
  <1>6. \A m \in Node, q \in Partition : FileSound(m, q)'
    BY FilesStay
  <1>7. TaskSound(n, s)'
    <2>1. /\ t.pc # "none" => p \in Partition /\ role'[n] = "running"
          /\ UNCHANGED <<log, began>> /\ tried[n] \subseteq tried'[n]
      BY <1>1 DEF TaskSound, Settled, Grow
    <2>2. t.pc \in {"poll", "batch"} => t.next \in 0 .. Len(log[p]) /\ Covered(n, p, t.next)
      BY <1>1 DEF TaskSound
    <2>3. t.pc = "batch" =>
              /\ t.last \in t.next .. Len(log[p]) - 1
              /\ \A o \in t.next .. t.last : Applies(log[p][o + 1]) =>
                    \/ <<p, o>> \in tried[n]
                    \/ <<o, "row">> \in t.todo \/ <<o, "etdr">> \in t.todo
      BY <1>1 DEF TaskSound
    <2>4. \A o \in Int : (<<o, "row">> \in t.todo \/ <<o, "etdr">> \in t.todo) =>
            \/ <<p, o>> \in tried'[n] \/ <<o, "row">> \in todo \/ <<o, "etdr">> \in todo
      OBVIOUS
    <2>5. t.next \in Int /\ t.last \in Int
      BY <1>1 DEF Task
    <2> HIDE DEF t, p
    <2>6. ASSUME t.pc = "batch", NEW o \in t.next .. t.last, Applies(log[p][o + 1])
          PROVE  \/ <<p, o>> \in tried'[n] \/ <<o, "row">> \in todo \/ <<o, "etdr">> \in todo
      <3>1. o \in Int
        BY <2>5
      <3> QED BY <2>1, <2>3, <2>4, <2>6, <3>1, Zenon
    <2>7. t.pc \in {"poll", "batch"} => \A o \in began[n][p] .. t.next - 1 :
              (o >= 0 /\ Applies(log[p][o + 1])) => <<p, o>> \in tried'[n]
      BY <2>1, <2>2, Zenon DEF Covered
    <2> QED BY <1>2, <1>4, <2>1, <2>2, <2>3, <2>6, <2>7 DEF TaskSound, Covered
  <1> QED BY <1>4, <1>5, <1>6, <1>7, TaskStepKeeps

\* UpdateRow: the step of the ETDR takes the place of the step of the row.
LEMMA RowKeeps ==
  ASSUME IInv, NEW n \in Node, NEW s \in Slot, UpdateRow(n, s)
  PROVE  IInv'
  <1> DEFINE t == task[n][s]
  <1>1. PICK o \in 0 .. MaxLog :
              /\ <<o, "row">> \in t.todo
              /\ Step(n, s, [t EXCEPT !.todo = (@ \ {<<o, "row">>}) \cup {<<o, "etdr">>}])
              /\ \/ UNCHANGED faults /\ row' = [row EXCEPT ![log[t.part][o + 1].ticket] = <<t.part, o>>]
                 \/ faults' = faults + 1 /\ UNCHANGED row
    BY Zenon DEF UpdateRow
  <1>2. /\ Settled /\ UNCHANGED <<log, file, etdr, began, tried, client>>
        /\ TypeOK /\ t \in Task
    <2>1. TypeOK /\ t \in Task
      BY TaskOf, Zenon
    <2>2. UNCHANGED <<log, file, etdr, began, tried, client>>
      BY Zenon DEF UpdateRow, topic, leader, data, env
    <2>3. Settled
      BY ZenonT(40) DEF UpdateRow, Settled, topic, leader, env
    <2> QED BY <2>1, <2>2, <2>3
  <1> DEFINE todo == (t.todo \ {<<o, "row">>}) \cup {<<o, "etdr">>}
             u == [t EXCEPT !.todo = todo]
  <1>3. o \in Int /\ t.todo \subseteq Int \X {"row", "etdr"}
    BY <1>1, <1>2 DEF Task
  <1>4. todo \in SUBSET (Int \X {"row", "etdr"})
    BY <1>3
  <1>5. \A i \in Int : (<<i, "row">> \in t.todo \/ <<i, "etdr">> \in t.todo) =>
            \/ <<t.part, i>> \in tried'[n] \/ <<i, "row">> \in todo \/ <<i, "etdr">> \in todo
    BY <1>3
  <1>6. Step(n, s, u)
    BY <1>1, Zenon
  <1> HIDE DEF todo
  <1>7. u \in Task
    BY <1>2, <1>4 DEF Task
  <1>8. task' \in [Node -> [Slot -> Task]]
    BY <1>2, <1>6, <1>7, StepTyped, SMTT(30)
  <1>9. row' \in [Ticket -> HubId] /\ faults' \in Nat
    <2>1. row \in [Ticket -> HubId] /\ faults \in Nat
      <3> HIDE DEF t
      <3> QED BY <1>2 DEF TypeOK
    <2> DEFINE k == log[t.part][o + 1].ticket
               h == <<t.part, o>>
    <2>0. h \in HubId
      BY <1>2, <1>3 DEF HubId, Task
    <2> HIDE DEF k, h
    <2>2. UNCHANGED row \/ row' = [row EXCEPT ![k] = h]
      BY <1>1, Zenon DEF k, h
    <2>3. row' \in [Ticket -> HubId]
      BY <2>0, <2>1, <2>2
    <2>4. faults' = faults \/ faults' = faults + 1
      BY <1>1, Zenon
    <2> HIDE DEF t
    <2>5. faults' \in Nat
      BY <2>1, <2>4
    <2> QED BY <2>3, <2>5, Zenon
  <1>10. TypeOK'
    BY <1>2, <1>8, <1>9 DEF TypeOK, Settled
  <1>11. Grow
    BY <1>2, NothingRead
  <1>12. t.todo # {}
    BY <1>1
  <1> QED BY <1>2, <1>4, <1>5, <1>6, <1>10, <1>11, <1>12, WorkKeeps, Zenon

\* UpdateEtdr: the record is handled.
LEMMA EtdrKeeps ==
  ASSUME IInv, NEW n \in Node, NEW s \in Slot, UpdateEtdr(n, s)
  PROVE  IInv'
  <1> DEFINE t == task[n][s]
             K(o) == log[t.part][o + 1].ticket
  <1>1. PICK o \in 0 .. MaxLog :
              /\ <<o, "etdr">> \in t.todo
              /\ Step(n, s, [t EXCEPT !.todo = @ \ {<<o, "etdr">>}])
              /\ etdr' = IF <<n, K(o)>> \in Cached THEN [etdr EXCEPT ![n][K(o)] = <<t.part, o>>] ELSE etdr
              /\ tried' = [tried EXCEPT ![n] = @ \cup {<<t.part, o>>}]
    BY Zenon DEF UpdateEtdr
  <1>2. /\ Settled /\ UNCHANGED <<log, file, row, began, client, faults>>
        /\ TypeOK /\ t \in Task
    <2>1. TypeOK /\ t \in Task
      BY TaskOf, Zenon
    <2>2. UNCHANGED <<log, file, row, began, client, faults>>
      BY Zenon DEF UpdateEtdr, topic, leader, data, env
    <2>3. Settled
      BY Zenon DEF UpdateEtdr, Settled, topic, leader, env
    <2> QED BY <2>1, <2>2, <2>3
  <1> DEFINE todo == t.todo \ {<<o, "etdr">>}
             u == [t EXCEPT !.todo = todo]
  <1>3. o \in Int /\ t.todo \subseteq Int \X {"row", "etdr"} /\ t.part \in Partition \cup {None}
    BY <1>1, <1>2 DEF Task
  <1>4. todo \in SUBSET (Int \X {"row", "etdr"})
    BY <1>3
  <1>5. /\ tried \in [Node -> SUBSET ((Partition \cup {None}) \X Int)]
        /\ etdr \in [Node -> [Ticket -> HubId]]
    BY <1>2 DEF TypeOK
  <1>6. /\ tried' \in [Node -> SUBSET ((Partition \cup {None}) \X Int)]
        /\ <<t.part, o>> \in tried'[n] /\ \A m \in Node : tried[m] \subseteq tried'[m]
    <2> DEFINE p == t.part
    <2>1. p \in Partition \cup {None} /\ tried' = [tried EXCEPT ![n] = @ \cup {<<p, o>>}]
      BY <1>1, <1>3
    <2> HIDE DEF p
    <2>2. /\ tried' \in [Node -> SUBSET ((Partition \cup {None}) \X Int)]
          /\ <<p, o>> \in tried'[n] /\ \A m \in Node : tried[m] \subseteq tried'[m]
      BY <1>3, <1>5, <2>1
    <2> QED BY <2>2 DEF p
  <1>7. etdr' \in [Node -> [Ticket -> HubId]]
    <2> DEFINE k == log[t.part][o + 1].ticket
               h == <<t.part, o>>
    <2>1. UNCHANGED etdr \/ etdr' = [etdr EXCEPT ![n][k] = h]
      BY <1>1
    <2>2. h \in HubId
      BY <1>3 DEF HubId
    <2> HIDE DEF k, h
    <2> QED BY <1>5, <2>1, <2>2, SMTT(30)
  <1>8. \A i \in Int : (<<i, "row">> \in t.todo \/ <<i, "etdr">> \in t.todo) =>
            \/ <<t.part, i>> \in tried'[n] \/ <<i, "row">> \in todo \/ <<i, "etdr">> \in todo
    BY <1>3, <1>6
  <1>9. Step(n, s, u)
    BY <1>1
  <1> HIDE DEF todo
  <1>10. u \in Task
    BY <1>2, <1>4 DEF Task
  <1>11. task' \in [Node -> [Slot -> Task]]
    BY <1>2, <1>9, <1>10, StepTyped
  <1>12. TypeOK'
    BY <1>2, <1>6, <1>7, <1>11 DEF TypeOK, Settled
  <1>13. Grow
    BY <1>2, <1>6 DEF Grow, TypeOK
  <1>14. t.todo # {}
    BY <1>1
  <1> QED BY <1>2, <1>4, <1>8, <1>9, <1>12, <1>13, <1>14, WorkKeeps, Zenon

\* The two ways a task goes on when its batch is done: the file is opened, and so
\* emptied, or the loop goes on, with the file written or not.
Opens(n, s) ==
  /\ task[n][s].pc = "batch" /\ task[n][s].todo = {}
  /\ Step(n, s, [task[n][s] EXCEPT !.saving = TRUE])
  /\ file' = [file EXCEPT ![n][task[n][s].part] = NoOffset]
  /\ UNCHANGED <<topic, leader, client, row, etdr, env, began, tried, stored, together,
                 fetched, late, saved, cut, doubled>>

GoesOn(n, s) ==
  /\ task[n][s].pc = "batch" /\ task[n][s].todo = {}
  /\ Step(n, s, Advanced(task[n][s]))
  /\ \/ file' = [file EXCEPT ![n][task[n][s].part] = task[n][s].last + 1] /\ UNCHANGED faults
     \/ faults' = faults + 1 /\ UNCHANGED file
  /\ UNCHANGED <<topic, leader, client, row, etdr, expiries, changes, began, tried, stored,
                 together, fetched, late, doubled>>

LEMMA SaveSteps ==
  ASSUME IInv, NEW n \in Node, NEW s \in Slot, OpenFile(n, s) \/ SaveOffset(n, s)
  PROVE  Opens(n, s) \/ GoesOn(n, s)
  <1>1. CASE OpenFile(n, s)
    BY <1>1, Zenon DEF OpenFile, Opens, GoesOn, history, env
  <1>2. CASE SaveOffset(n, s)
    <2>1. task[n][s].saving
      BY <1>2, Zenon DEF SaveOffset
    <2>2. task[n][s].pc = "batch" /\ task[n][s].todo = {}
      BY <2>1 DEF IInv, TaskSound
    <2> QED BY <1>2, <2>2, Zenon DEF SaveOffset, GoesOn
  <1> QED BY <1>1, <1>2

\* What a task knows whose batch is done: all of it was handled, and the next offset lies
\* behind it.
LEMMA SaveFacts ==
  ASSUME IInv, NEW n \in Node, NEW s \in Slot, Opens(n, s) \/ GoesOn(n, s)
  PROVE  LET t == task[n][s]
             p == t.part
         IN  /\ t \in Task /\ t.pc = "batch" /\ p \in Partition /\ role[n] = "running"
             /\ t.next \in Nat /\ t.last \in Nat /\ t.next <= t.last
             /\ t.last + 1 \in 0 .. Len(log[p]) /\ Len(log[p]) \in Nat
             /\ Covered(n, p, t.last + 1)
  <1> DEFINE t == task[n][s]
             p == t.part
  <1>1. TypeOK /\ t \in Task /\ TaskSound(n, s) /\ t.pc = "batch" /\ t.todo = {}
    BY DEF Opens, GoesOn, IInv, TypeOK
  <1>2. /\ p \in Partition /\ role[n] = "running"
        /\ t.next \in 0 .. Len(log[p]) /\ Covered(n, p, t.next)
        /\ t.last \in t.next .. Len(log[p]) - 1
        /\ \A o \in t.next .. t.last : Applies(log[p][o + 1]) =>
              \/ <<p, o>> \in tried[n]
              \/ <<o, "row">> \in t.todo \/ <<o, "etdr">> \in t.todo
    BY <1>1 DEF TaskSound
  <1>3. Len(log[p]) \in Nat /\ began[n][p] \in Int
    BY <1>1, <1>2 DEF TypeOK
  <1>4. /\ t.next \in Nat /\ t.last \in Nat /\ t.next <= t.last
        /\ t.last + 1 \in 0 .. Len(log[p])
    <2> HIDE DEF t, p
    <2> QED BY <1>2, <1>3
  <1>5. \A o \in t.next .. t.last : Applies(log[p][o + 1]) => <<p, o>> \in tried[n]
    BY <1>1, <1>2
  <1>6. Covered(n, p, t.last + 1)
    <2> HIDE DEF t, p
    <2>1. ASSUME NEW o \in began[n][p] .. (t.last + 1) - 1, o >= 0, Applies(log[p][o + 1])
          PROVE  <<p, o>> \in tried[n]
      <3>1. o \in began[n][p] .. t.next - 1 \/ o \in t.next .. t.last
        BY <1>3, <1>4
      <3> QED BY <1>2, <1>5, <2>1, <3>1 DEF Covered
    <2> QED BY <2>1 DEF Covered
  <1> QED BY <1>1, <1>2, <1>3, <1>4, <1>6

\* The task goes on behind its batch.
LEMMA GoesOnKeeps ==
  ASSUME IInv, NEW n \in Node, NEW s \in Slot, GoesOn(n, s)
  PROVE  IInv'
  <1> DEFINE t == task[n][s]
             p == t.part
             end == t.last + 1
             u == Advanced(t)
  <1>1. TypeOK /\ Settled /\ UNCHANGED <<log, row, etdr, began, tried, client>>
    <2>1. TypeOK
      BY DEF IInv
    <2>2. UNCHANGED <<log, row, etdr, began, tried, client>>
      BY DEF GoesOn, topic
    <2>3. Settled
      BY DEF GoesOn, Settled, topic, leader
    <2> QED BY <2>1, <2>2, <2>3
  <1>2. /\ t \in Task /\ t.pc = "batch" /\ p \in Partition /\ role[n] = "running"
        /\ t.next \in Nat /\ t.last \in Nat /\ t.next <= t.last
        /\ end \in 0 .. Len(log[p]) /\ Len(log[p]) \in Nat /\ Covered(n, p, end)
    BY SaveFacts, Zenon
  <1>3. Step(n, s, u)
    BY DEF GoesOn
  <1>4. \/ file' = [file EXCEPT ![n][p] = end] /\ UNCHANGED faults
        \/ faults' = faults + 1 /\ UNCHANGED file
    BY DEF GoesOn
  <1> HIDE DEF end, p
  <1>5. t.part = p /\ end \in Int
    BY <1>2 DEF p
  <1>6. u \in Task /\ u.pc = "poll" /\ u.part = p /\ u.next = end /\ ~u.saving
    <2>1. NoOffset \in Int
      BY DEF NoOffset
    <2> HIDE DEF t
    <2>2. t \in Task /\ t.part = p /\ end \in Int /\ t.last + 1 = end
      BY <1>2, <1>5 DEF end
    <2> QED BY <2>1, <2>2 DEF Task, Advanced
  <1> HIDE DEF u
  <1>7. task' \in [Node -> [Slot -> Task]] /\ task'[n][s] = u /\ Alone(n, s)
    BY <1>1, <1>2, <1>3, <1>6, StepTyped
  <1>8. file \in [Node -> [Partition -> Int]] /\ faults \in Nat
    BY <1>1 DEF TypeOK
  <1>9. /\ file' \in [Node -> [Partition -> Int]] /\ faults' \in Nat
        /\ \A m \in Node, q \in Partition : file'[m][q] = file[m][q]
              \/ (m = n /\ q = p /\ file'[m][q] = end)
    <2> HIDE DEF t
    <2>1. CASE file' = [file EXCEPT ![n][p] = end] /\ UNCHANGED faults
      BY <1>2, <1>5, <1>8, <2>1
    <2>2. CASE faults' = faults + 1 /\ UNCHANGED file
      BY <1>8, <2>2
    <2> QED BY <1>4, <2>1, <2>2
  <1>10. TypeOK'
    <2> HIDE DEF t
    <2> QED BY <1>1, <1>7, <1>9 DEF TypeOK, Settled
  <1>11. Grow
    BY <1>1, NothingRead
  <1>12. TaskSound(n, s)'
    <2> HIDE DEF t
    <2>1. UNCHANGED role
      BY <1>1 DEF Settled
    <2> QED BY <1>1, <1>2, <1>6, <1>7, <2>1 DEF TaskSound, Covered
  <1>13. ASSUME NEW m \in Node, NEW q \in Partition PROVE FileSound(m, q)'
    <2> HIDE DEF t
    <2>1. began'[m][q] \in NoOffset .. Len(log'[q])
      BY <1>1 DEF IInv, FileSound
    <2>2. CASE file'[m][q] = file[m][q]
      BY <1>10, <1>11, <2>1, <2>2, FileStays
    <2>3. CASE m = n /\ q = p /\ file'[m][q] = end
      <3>1. end \in NoOffset .. Len(log[p])
        BY <1>2 DEF NoOffset
      <3> QED BY <1>1, <1>2, <2>1, <2>3, <3>1 DEF FileSound, Covered
    <2> QED BY <1>9, <2>2, <2>3
  <1>14. OneReaderEach'
    <2>1. ASSUME changes < 2 PROVE file'[n][p] <= end
      <3>1. file[n][p] <= t.next
        BY <1>2, <1>5, <2>1 DEF IInv, OneReaderEach, OneReader
      <3>2. file[n][p] \in Int
        BY <1>2, <1>8
      <3>3. end = t.last + 1
        BY DEF end
      <3> HIDE DEF t
      <3>4. file[n][p] <= end
        BY <1>2, <3>1, <3>2, <3>3
      <3>5. file'[n][p] = file[n][p] \/ file'[n][p] = end
        BY <1>2, <1>9
      <3> QED BY <1>5, <3>4, <3>5
    <2> HIDE DEF t
    <2>2. t = task[n][s] /\ t.pc # "none"
      BY <1>2, Zenon DEF t
    <2>3. \A m \in Node, q \in Partition :
            file'[m][q] = file[m][q] \/ (m = n /\ q = task[n][s].part /\ task[n][s].pc # "none")
      BY <1>5, <1>9, <2>2
    <2> QED BY <1>1, <1>5, <1>6, <1>7, <1>10, <2>1, <2>2, <2>3, ReaderStep
  <1> QED BY <1>1, <1>7, <1>10, <1>11, <1>12, <1>13, <1>14, TaskStepKeeps

\* The file is emptied; the batch stays.
LEMMA OpensKeeps ==
  ASSUME IInv, NEW n \in Node, NEW s \in Slot, Opens(n, s)
  PROVE  IInv'
  <1> DEFINE t == task[n][s]
             p == t.part
             u == [t EXCEPT !.saving = TRUE]
  <1>1. TypeOK /\ Settled /\ UNCHANGED <<log, row, etdr, began, tried, client, faults>>
    <2>1. TypeOK
      BY DEF IInv
    <2>2. UNCHANGED <<log, row, etdr, began, tried, client, faults>>
      BY DEF Opens, topic, env
    <2>3. Settled
      BY DEF Opens, Settled, topic, leader, env
    <2> QED BY <2>1, <2>2, <2>3
  <1>2. /\ t \in Task /\ t.pc = "batch" /\ p \in Partition /\ t.next \in Nat
    BY SaveFacts, Zenon
  <1>3. /\ Step(n, s, u) /\ TaskSound(n, s) /\ t.todo = {}
        /\ file' = [file EXCEPT ![n][p] = NoOffset]
    BY DEF Opens, IInv
  <1> HIDE DEF p
  <1>4. t.part = p
    BY DEF p
  <1>5. /\ u \in Task /\ u.pc = t.pc /\ u.part = t.part /\ u.next = t.next /\ u.last = t.last
        /\ u.todo = t.todo
    BY <1>2 DEF Task
  <1> HIDE DEF u
  <1>6. task' \in [Node -> [Slot -> Task]] /\ task'[n][s] = u /\ Alone(n, s)
    BY <1>1, <1>2, <1>3, <1>5, StepTyped
  <1>7. file \in [Node -> [Partition -> Int]] /\ NoOffset \in Int
    BY <1>1 DEF TypeOK, NoOffset
  <1>8. /\ file' \in [Node -> [Partition -> Int]] /\ file'[n][p] = NoOffset
        /\ \A m \in Node, q \in Partition : file'[m][q] = file[m][q] \/ (m = n /\ q = p)
    <2> HIDE DEF t
    <2> QED BY <1>2, <1>3, <1>7
  <1>9. TypeOK'
    <2> HIDE DEF t
    <2> QED BY <1>1, <1>6, <1>8 DEF TypeOK, Settled
  <1>10. Grow
    BY <1>1, NothingRead
  <1>11. TaskSound(n, s)'
    <2> HIDE DEF t
    <2>1. UNCHANGED role /\ t = task[n][s]
      BY <1>1, Zenon DEF Settled, t
    <2> QED BY <1>1, <1>2, <1>3, <1>4, <1>5, <1>6, <2>1 DEF TaskSound, Covered
  <1>12. ASSUME NEW m \in Node, NEW q \in Partition PROVE FileSound(m, q)'
    <2> HIDE DEF t
    <2>1. began'[m][q] \in NoOffset .. Len(log'[q])
      BY <1>1 DEF IInv, FileSound
    <2>2. CASE file'[m][q] = file[m][q]
      BY <1>9, <1>10, <2>1, <2>2, FileStays
    <2>3. CASE m = n /\ q = p
      <3>1. file'[m][q] = -1 /\ Len(log'[q]) \in Nat /\ began'[m][q] \in Int
        BY <1>8, <1>9, <2>3 DEF NoOffset, TypeOK
      <3> QED BY <2>1, <3>1 DEF FileSound, Covered, NoOffset
    <2> QED BY <1>8, <2>2, <2>3
  <1>13. OneReaderEach'
    <2> HIDE DEF t
    <2>1. file'[n][p] <= u.next
      BY <1>2, <1>5, <1>8 DEF NoOffset
    <2>2. t = task[n][s] /\ t.pc # "none"
      BY <1>2, Zenon DEF t
    <2>3. \A m \in Node, q \in Partition :
            file'[m][q] = file[m][q] \/ (m = n /\ q = task[n][s].part /\ task[n][s].pc # "none")
      BY <1>4, <1>8, <2>2
    <2> QED BY <1>1, <1>4, <1>5, <1>6, <1>9, <2>1, <2>2, <2>3, ReaderStep
  <1> QED BY <1>1, <1>6, <1>9, <1>10, <1>11, <1>12, <1>13, TaskStepKeeps

-----------------------------------------------------------------------------
(* The theorems *)

LEMMA InitHub == Init => IInv
  <1> SUFFICES ASSUME Init PROVE IInv
    OBVIOUS
  <1>1. /\ log = [p \in Partition |-> <<>>] /\ meta = Partition /\ lock = None
        /\ role = [n \in Node |-> "candidate"] /\ known = [n \in Node |-> {}]
        /\ client = [n \in Node |-> "ok"] /\ task = [n \in Node |-> [s \in Slot |-> Idle]]
        /\ file = [n \in Node |-> [p \in Partition |-> -1]]
        /\ row = [t \in Ticket |-> NoHub] /\ etdr = [n \in Node |-> [t \in Ticket |-> NoHub]]
        /\ faults = 0 /\ expiries = 0 /\ changes = 0
        /\ tried = [n \in Node |-> {}]
        /\ began = [n \in Node |-> [p \in Partition |-> -1]]
    BY DEF Init, NoOffset
  <1>2. /\ task \in [Node -> [Slot -> Task]]
        /\ \A n \in Node, s \in Slot : task[n][s].pc = "none" /\ ~task[n][s].saving
    BY <1>1, IdleTyped
  <1>3. /\ log \in [Partition -> Seq(Record)] /\ \A p \in Partition : Len(log[p]) = 0
    BY <1>1
  <1>4. TypeOK
    BY <1>1, <1>2, <1>3 DEF TypeOK, NoHub, HubId, NoOffset
  <1>5. \A n \in Node, s \in Slot : TaskSound(n, s)
    BY <1>2 DEF TaskSound
  <1>6. ASSUME NEW n \in Node, NEW p \in Partition PROVE FileSound(n, p)
    <2>1. file[n][p] = -1 /\ began[n][p] = -1
      BY <1>1
    <2> QED BY <1>3, <2>1 DEF FileSound, Covered, NoOffset
  <1>7. LockSound
    BY <1>1 DEF LockSound
  <1>8. OneReaderEach
    BY <1>1, <1>2 DEF OneReaderEach, OneReader
  <1> QED BY <1>4, <1>5, <1>6, <1>7, <1>8 DEF IInv

LEMMA StutterHub ==
  ASSUME IInv, UNCHANGED vars
  PROVE  IInv'
  <1>1. UNCHANGED <<log, meta, lock, role, known, client, task, file, row, etdr, faults, expiries,
                    changes, began, tried>>
    BY DEF vars, topic, leader, data, env, history
  <1>2. TypeOK'
    BY <1>1 DEF IInv, TypeOK
  <1>3. /\ \A n \in Node, s \in Slot : TaskSound(n, s)'
        /\ \A n \in Node, p \in Partition : FileSound(n, p)'
    BY <1>1, <1>2, QuietStep
  <1>4. LockSound' /\ OneReaderEach'
    BY <1>1, ReadersStay DEF IInv, LockSound
  <1> QED BY <1>2, <1>3, <1>4 DEF IInv

LEMMA NextHub ==
  ASSUME IInv, [Next]_vars
  PROVE  IInv'
  <1>1. CASE Produce
    BY <1>1, ProduceKeeps
  <1>2. CASE ChangeMeta
    BY <1>2, BrokerKeeps
  <1>3. CASE Expire
    BY <1>3, LockKeeps
  <1>4. ASSUME NEW n \in Node, Acquire(n) \/ Renew(n) \/ StartFails(n) PROVE IInv'
    BY <1>4, LockKeeps
  <1>5. ASSUME NEW n \in Node, StartConsumers(n) PROVE IInv'
    BY <1>5, StartKeeps
  <1>6. ASSUME NEW n \in Node, Redetect(n) PROVE IInv'
    BY <1>6, RedetectKeeps
  <1>7. ASSUME NEW n \in Node, Break(n) PROVE IInv'
    BY <1>7, BrokerKeeps
  <1>8. ASSUME NEW n \in Node, Crash(n) PROVE IInv'
    BY <1>8, CrashKeeps
  <1>9. ASSUME NEW n \in Node, NEW s \in Slot, TaskStep(n, s) PROVE IInv'
    BY <1>9, LoadKeeps, InitFailsKeeps, FetchKeeps, CountErrorKeeps, RowKeeps, EtdrKeeps, SaveSteps,
       GoesOnKeeps, OpensKeeps DEF TaskStep
  <1>10. CASE UNCHANGED vars
    BY <1>10, StutterHub
  <1> QED BY <1>1, <1>2, <1>3, <1>4, <1>5, <1>6, <1>7, <1>8, <1>9, <1>10 DEF Next

\* The invariant of the consumer (HubConsumer!IInv) holds in every state: what lies before
\* the offset of a task, and before a saved one, was handled (kafka_consumer_service.rs).
THEOREM HubInvariant == Spec => []IInv
  BY InitHub, NextHub, PTL DEF Spec

\* A saved offset never passes a message of the HUB whose updates were not both attempted,
\* whatever crashes, lost connections, metadata changes and second leaders there were.
THEOREM NothingEverSkipped == Spec => []NothingSkipped
  <1>1. IInv => NothingSkipped
    BY DEF IInv, FileSound, NothingSkipped
  <1> QED BY <1>1, HubInvariant, PTL

\* Two pods read the topic at the same time only if the lock of a living pod expired.
THEOREM OneLeaderReads == Spec => []TwoReadersNeedExpiry
  <1>1. ASSUME IInv PROVE TwoReadersNeedExpiry
    <2>1. ASSUME NEW n \in Node, NEW m \in Node, n # m, Reading(n), Reading(m)
          PROVE  expiries > 0
      <3>1. ASSUME NEW i \in Node, Reading(i) PROVE role[i] = "running"
        BY <1>1, <3>1 DEF Reading, Readers, IInv, TaskSound
      <3>2. role[n] = "running" /\ role[m] = "running"
        BY <2>1, <3>1
      <3>3. expiries # 0
        BY <1>1, <2>1, <3>2 DEF IInv, LockSound
      <3>4. expiries \in Nat
        BY <1>1 DEF IInv, TypeOK
      <3> QED BY <3>3, <3>4
    <2> QED BY <2>1 DEF TwoReadersNeedExpiry
  <1> QED BY <1>1, HubInvariant, PTL

-----------------------------------------------------------------------------
(* Saved offsets: OffsetInv (HubConsumer) is inductive upon IInv *)

\* What a step has to show that neither saves an offset nor empties a file.
LEMMA OffsetStays ==
  ASSUME IInv', OffsetInv, UNCHANGED <<saved, file>>, cut \subseteq cut',
         \A p \in Partition : Len(log[p]) \in Nat /\ Len(log[p]) <= Len(log'[p]),
         changes' < 2 => changes < 2,
         \A m \in Node, q \in Slot : task[m][q].saving =>
            \/ task'[m][q].saving /\ task'[m][q].part = task[m][q].part
            \/ <<m, task[m][q].part>> \in cut',
         \A m \in Node, q \in Slot : (changes < 2 /\ task'[m][q].pc \in {"poll", "batch"}) =>
            saved[m][task'[m][q].part] <= task'[m][q].next
  PROVE  OffsetInv'
  <1>1. ASSUME NEW m \in Node, NEW p \in Partition PROVE SavedSound(m, p)'
    <2>1. SavedSound(m, p) /\ Len(log'[p]) \in Nat
      BY DEF OffsetInv, IInv, TypeOK
    <2>2. saved'[m][p] \in NoOffset .. Len(log'[p])
      BY <2>1 DEF SavedSound, NoOffset
    <2>3. Saving(m, p) => Saving(m, p)' \/ <<m, p>> \in cut'
      BY DEF Saving
    <2> QED BY <2>1, <2>2, <2>3 DEF SavedSound
  <1>2. ASSUME NEW m \in Node, changes' < 2 PROVE SavedAhead(m)'
    <2>1. SavedAhead(m)
      BY <1>2 DEF OffsetInv
    <2> QED BY <1>2, <2>1 DEF SavedAhead
  <1> QED BY <1>1, <1>2 DEF OffsetInv

\* The lengths of the logs, for a step that sends nothing.
LEMMA LengthsStay ==
  ASSUME TypeOK, UNCHANGED log
  PROVE  \A p \in Partition : Len(log[p]) \in Nat /\ Len(log[p]) <= Len(log'[p])
  BY DEF TypeOK

\* The tasks do not move.
LEMMA QuietOffset ==
  ASSUME IInv, IInv', OffsetInv,
         \/ Produce \/ ChangeMeta \/ Expire \/ UNCHANGED vars
         \/ \E n \in Node : Acquire(n) \/ Renew(n) \/ StartFails(n) \/ Break(n)
  PROVE  OffsetInv'
  <1>1. UNCHANGED <<task, saved, file, cut>>
    BY Zenon DEF Produce, ChangeMeta, Expire, Acquire, Renew, StartFails, Break, vars, data, history
  <1>2. changes' < 2 => changes < 2
    <2>1. changes \in Nat
      BY DEF IInv, TypeOK
    <2>2. changes' = changes \/ changes' = changes + 1
      BY Zenon DEF Produce, ChangeMeta, Expire, Acquire, Renew, StartFails, Break, vars, env
    <2> QED BY <2>1, <2>2
  <1>3. \A p \in Partition : Len(log[p]) \in Nat /\ Len(log[p]) <= Len(log'[p])
    <2>1. TypeOK
      BY DEF IInv
    <2>2. CASE Produce
      BY <2>1, <2>2 DEF Produce, TypeOK
    <2>3. UNCHANGED log \/ Produce
      BY Zenon DEF ChangeMeta, Expire, Acquire, Renew, StartFails, Break, vars, topic
    <2> QED BY <2>1, <2>2, <2>3, LengthsStay
  <1>4. ASSUME NEW m \in Node, NEW q \in Slot, changes < 2, task'[m][q].pc \in {"poll", "batch"}
        PROVE  saved[m][task'[m][q].part] <= task'[m][q].next
    BY <1>1, <1>4 DEF OffsetInv, SavedAhead
  <1> QED BY <1>1, <1>2, <1>3, <1>4, OffsetStays

\* StartConsumers and Redetect: new tasks have not read yet.
LEMMA SpawnOffset ==
  ASSUME IInv, IInv', OffsetInv, NEW n \in Node, StartConsumers(n) \/ Redetect(n)
  PROVE  OffsetInv'
  <1>1. TypeOK /\ UNCHANGED <<log, saved, file, cut, changes>>
    BY DEF IInv, StartConsumers, Redetect, topic, data, history, env
  <1>2. PICK ps : ps \subseteq Partition /\ SpawnTasks(n, ps)
    BY <1>1 DEF StartConsumers, Redetect, ValidPartitions, AddedPartitions, TypeOK
  <1>3. ASSUME NEW m \in Node, NEW q \in Slot
        PROVE  \/ task'[m][q] = task[m][q]
               \/ /\ task[m][q].pc = "none" /\ task'[m][q].pc = "start"
    <2>1. CASE m # n
      BY <1>1, <1>2, <2>1, SpawnTyped
    <2>2. CASE m = n /\ task'[n][q] # task[n][q]
      <3>1. task[n][q].pc = "none" /\ \E p \in ps : task'[n][q] = NewTask(p)
        BY <1>1, <1>2, <2>2, SpawnTyped
      <3> QED BY <1>2, <2>2, <3>1, NewTaskTyped
    <2> QED BY <2>1, <2>2
  <1>4. ASSUME NEW m \in Node, NEW q \in Slot, task[m][q].saving
        PROVE  task'[m][q] = task[m][q]
    <2>1. TaskSound(m, q)
      BY DEF IInv
    <2> QED BY <1>3, <1>4, <2>1 DEF TaskSound
  <1>5. ASSUME NEW m \in Node, NEW q \in Slot, changes < 2, task'[m][q].pc \in {"poll", "batch"}
        PROVE  saved[m][task'[m][q].part] <= task'[m][q].next
    <2>1. task'[m][q] = task[m][q]
      BY <1>3, <1>5
    <2> QED BY <1>5, <2>1 DEF OffsetInv, SavedAhead
  <1> QED BY <1>1, <1>4, <1>5, LengthsStay, OffsetStays

\* Crash: an offset being saved is not written any more.
LEMMA CrashOffset ==
  ASSUME IInv, IInv', OffsetInv, NEW n \in Node, Crash(n)
  PROVE  OffsetInv'
  <1>1. TypeOK /\ UNCHANGED <<log, saved, file, changes>>
    BY DEF IInv, Crash, topic
  <1>2. /\ cut' = cut \cup {<<n, p>> : p \in {q \in Partition : Saving(n, q)}}
        /\ task' = [task EXCEPT ![n] = [s \in Slot |-> Idle]] /\ task \in [Node -> [Slot -> Task]]
    BY <1>1 DEF Crash, TypeOK
  <1>3. /\ \A m \in Node \ {n}, q \in Slot : task'[m][q] = task[m][q]
        /\ \A q \in Slot : task'[n][q].pc = "none"
    BY <1>2, IdleTyped
  <1>4. ASSUME NEW m \in Node, NEW q \in Slot, task[m][q].saving
        PROVE  task'[m][q] = task[m][q] \/ <<m, task[m][q].part>> \in cut'
    <2>1. task[m][q].part \in Partition
      BY <1>4 DEF IInv, TaskSound
    <2>2. CASE m = n
      BY <1>2, <1>4, <2>1, <2>2 DEF Saving
    <2> QED BY <1>3, <2>2
  <1>5. ASSUME NEW m \in Node, NEW q \in Slot, changes < 2, task'[m][q].pc \in {"poll", "batch"}
        PROVE  saved[m][task'[m][q].part] <= task'[m][q].next
    <2>1. task'[m][q] = task[m][q]
      BY <1>3, <1>5
    <2> QED BY <1>5, <2>1 DEF OffsetInv, SavedAhead
  <1>6. cut \subseteq cut'
    BY <1>2
  <1> QED BY <1>1, <1>4, <1>5, <1>6, LengthsStay, OffsetStays

\* A task moves on and saves nothing: it is not saving, or its save is cut off, and it has
\* read as far as before.
LEMMA ReadOffset ==
  ASSUME IInv, IInv', OffsetInv, NEW n \in Node, NEW s \in Slot, NEW u, Step(n, s, u),
         UNCHANGED <<log, saved, file, changes>>, cut \subseteq cut',
         task[n][s].saving => \/ u.saving /\ u.part = task[n][s].part
                              \/ <<n, task[n][s].part>> \in cut',
         (changes < 2 /\ u.pc \in {"poll", "batch"}) => saved[n][u.part] <= u.next
  PROVE  OffsetInv'
  <1>1. TypeOK
    BY DEF IInv
  <1>2. task' = [task EXCEPT ![n][s] = u] /\ task \in [Node -> [Slot -> Task]]
    BY <1>1 DEF Step, TypeOK
  <1>3. task'[n][s] = u
    BY <1>2
  <1>4. \A m \in Node, q \in Slot : task'[m][q] = task[m][q] \/ (m = n /\ q = s)
    BY <1>2
  <1>5. ASSUME NEW m \in Node, NEW q \in Slot, task[m][q].saving
        PROVE  \/ task'[m][q].saving /\ task'[m][q].part = task[m][q].part
               \/ <<m, task[m][q].part>> \in cut'
    BY <1>3, <1>4, <1>5
  <1>6. ASSUME NEW m \in Node, NEW q \in Slot, changes < 2, task'[m][q].pc \in {"poll", "batch"}
        PROVE  saved[m][task'[m][q].part] <= task'[m][q].next
    <2>1. CASE m = n /\ q = s
      BY <1>3, <1>6, <2>1
    <2>2. CASE task'[m][q] = task[m][q]
      BY <1>6, <2>2 DEF OffsetInv, SavedAhead
    <2> QED BY <1>4, <2>1, <2>2
  <1> QED BY <1>1, <1>5, <1>6, LengthsStay, OffsetStays

\* LoadOffset and InitFails: a task begins at the offset of its file, or at the end.
LEMMA BeginOffset ==
  ASSUME IInv, IInv', OffsetInv, NEW n \in Node, NEW s \in Slot, LoadOffset(n, s) \/ InitFails(n, s)
  PROVE  OffsetInv'
  <1> DEFINE t == task[n][s]
             p == t.part
  <1>1. t \in Task /\ t.pc = "start" /\ p \in Partition /\ ~t.saving
    <2>1. t.pc = "start" /\ t \in Task
      BY DEF LoadOffset, InitFails, IInv, TypeOK
    <2> QED BY <2>1 DEF IInv, TaskSound
  <1>2. UNCHANGED <<log, saved, file, changes, cut>>
    BY Zenon DEF LoadOffset, InitFails, topic, data, env
  <1>3. \/ \E b : Step(n, s, [t EXCEPT !.errors = b])
        \/ Step(n, s, [t EXCEPT !.pc = "ended"])
        \/ \E b, c : /\ Step(n, s, [t EXCEPT !.pc = "poll", !.errors = b, !.next = c])
                     /\ \/ file[n][p] # NoOffset /\ c = file[n][p]
                        \/ c = Len(log[p])
    BY Zenon DEF LoadOffset, InitFails
  <1>4. ASSUME NEW b, NEW c
        PROVE  /\ [t EXCEPT !.errors = b].pc = "start"
               /\ [t EXCEPT !.pc = "ended"].pc = "ended"
               /\ [t EXCEPT !.pc = "poll", !.errors = b, !.next = c].part = p
               /\ [t EXCEPT !.pc = "poll", !.errors = b, !.next = c].next = c
    BY <1>1 DEF Task
  <1>5. /\ changes < 2 /\ file[n][p] # NoOffset => saved[n][p] <= file[n][p]
        /\ saved[n][p] <= Len(log[p])
    <2>1. saved[n][p] \in Int /\ SavedSound(n, p)
      BY <1>1 DEF OffsetInv
    <2>2. changes < 2 /\ file[n][p] # NoOffset => file[n][p] = saved[n][p]
      BY <1>1 DEF OffsetInv, SavedAhead
    <2>3. saved[n][p] <= Len(log[p])
      <3>1. Len(log[p]) \in Nat
        BY <1>1 DEF IInv, TypeOK
      <3> HIDE DEF p
      <3> QED BY <2>1, <3>1 DEF SavedSound, NoOffset
    <2> HIDE DEF p
    <2> QED BY <2>1, <2>2, <2>3
  <1> HIDE DEF t, p
  <1>6. PICK u : /\ Step(n, s, u)
                 /\ (changes < 2 /\ u.pc \in {"poll", "batch"}) => saved[n][u.part] <= u.next
    <2>1. ASSUME NEW b, Step(n, s, [t EXCEPT !.errors = b]) \/ Step(n, s, [t EXCEPT !.pc = "ended"])
          PROVE  \E u : Step(n, s, u) /\ u.pc \notin {"poll", "batch"}
      BY <1>4, <2>1, Zenon
    <2>2. ASSUME NEW b, NEW c, Step(n, s, [t EXCEPT !.pc = "poll", !.errors = b, !.next = c]),
                 (file[n][p] # NoOffset /\ c = file[n][p]) \/ c = Len(log[p])
          PROVE  \E u : Step(n, s, u) /\ (changes < 2 => saved[n][u.part] <= u.next)
      <3>1. changes < 2 => saved[n][p] <= c
        BY <1>5, <2>2
      <3> DEFINE u == [t EXCEPT !.pc = "poll", !.errors = b, !.next = c]
      <3>2. u.part = p /\ u.next = c /\ Step(n, s, u)
        BY <1>4, <2>2
      <3> HIDE DEF u
      <3> QED BY <3>1, <3>2
    <2> QED BY <1>3, <2>1, <2>2, Zenon
  <1>7. ~task[n][s].saving
    BY <1>1 DEF t
  <1> QED BY <1>2, <1>6, <1>7, ReadOffset

\* A task that keeps its partition and its offset, or moves on from it.
LEMMA AheadOffset ==
  ASSUME IInv, IInv', OffsetInv, NEW n \in Node, NEW s \in Slot, NEW u, Step(n, s, u),
         UNCHANGED <<log, saved, file, changes>>, cut \subseteq cut',
         u.pc \in {"poll", "batch"} => task[n][s].pc \in {"poll", "batch"},
         u.part = task[n][s].part, u.next \in Int, task[n][s].next <= u.next,
         task[n][s].saving => u.saving \/ <<n, task[n][s].part>> \in cut'
  PROVE  OffsetInv'
  <1>1. ASSUME changes < 2, u.pc \in {"poll", "batch"} PROVE saved[n][u.part] <= u.next
    <2>1. task[n][s] \in Task
      BY DEF IInv, TypeOK
    <2>2. task[n][s].next \in Int
      BY <2>1 DEF Task
    <2>3. task[n][s].part \in Partition
      BY <1>1 DEF IInv, TaskSound
    <2>4. saved[n][u.part] \in Int
      BY <2>3 DEF OffsetInv
    <2>5. saved[n][u.part] <= task[n][s].next
      BY <1>1 DEF OffsetInv, SavedAhead
    <2> QED BY <2>2, <2>4, <2>5
  <1> QED BY <1>1, ReadOffset

\* Fetch, an error, and the updates of the records: the offset stays.
LEMMA WorkOffset ==
  ASSUME IInv, IInv', OffsetInv, NEW n \in Node, NEW s \in Slot,
         \/ Fetch(n, s) \/ NoPartitionClient(n, s) \/ FetchFails(n, s)
         \/ UpdateRow(n, s) \/ UpdateEtdr(n, s)
  PROVE  OffsetInv'
  <1> DEFINE t == task[n][s]
  <1>1. t \in Task /\ TaskSound(n, s)
    BY DEF IInv, TypeOK
  <1>2. UNCHANGED <<log, saved, file, changes, cut>>
    BY Zenon DEF Fetch, NoPartitionClient, FetchFails, UpdateRow, UpdateEtdr, CountError, topic, data,
                 env, history
  <1>3. \/ t.pc = "poll" \/ \E x : x \in t.todo
    BY Zenon DEF Fetch, NoPartitionClient, FetchFails, UpdateRow, UpdateEtdr
  <1>4. ~t.saving
    BY <1>1, <1>3 DEF TaskSound
  <1>5. PICK u : /\ Step(n, s, u) /\ u.part = t.part /\ u.next = t.next
                 /\ u.pc = t.pc \/ t.pc = "poll"
    <2>1. \A b, c, d :
              LET v == [t EXCEPT !.pc = "batch", !.last = b, !.errors = c, !.todo = d]
              IN  v.part = t.part /\ v.next = t.next
      BY <1>1 DEF Task
    <2>3. \A c : LET v == [t EXCEPT !.errors = c]
                 IN  v.part = t.part /\ v.next = t.next /\ v.pc = t.pc
      BY <1>1 DEF Task
    <2>4. \A d : LET v == [t EXCEPT !.todo = d]
                 IN  v.part = t.part /\ v.next = t.next /\ v.pc = t.pc
      BY <1>1 DEF Task
    <2>2. \/ /\ t.pc = "poll"
             /\ \E b, c, d : Step(n, s, [t EXCEPT !.pc = "batch", !.last = b, !.errors = c, !.todo = d])
          \/ \E c : Step(n, s, [t EXCEPT !.errors = c])
          \/ \E d : Step(n, s, [t EXCEPT !.todo = d])
      BY Zenon DEF Fetch, NoPartitionClient, FetchFails, UpdateRow, UpdateEtdr, CountError
    <2> DEFINE Ok(u) == /\ Step(n, s, u) /\ u.part = t.part /\ u.next = t.next
                        /\ u.pc = t.pc \/ t.pc = "poll"
    <2>5. ASSUME NEW c, Step(n, s, [t EXCEPT !.errors = c]) PROVE Ok([t EXCEPT !.errors = c])
      BY <2>3, <2>5, Zenon
    <2>6. ASSUME NEW d, Step(n, s, [t EXCEPT !.todo = d]) PROVE Ok([t EXCEPT !.todo = d])
      BY <2>4, <2>6, Zenon
    <2>7. ASSUME t.pc = "poll", NEW b, NEW c, NEW d,
                 Step(n, s, [t EXCEPT !.pc = "batch", !.last = b, !.errors = c, !.todo = d])
          PROVE  Ok([t EXCEPT !.pc = "batch", !.last = b, !.errors = c, !.todo = d])
      <3> DEFINE v == [t EXCEPT !.pc = "batch", !.last = b, !.errors = c, !.todo = d]
      <3>1. v.part = t.part /\ v.next = t.next /\ Step(n, s, v)
        BY <2>1, <2>7
      <3> HIDE DEF v, t
      <3>2. Ok(v)
        BY <2>7, <3>1, Zenon
      <3> QED BY <3>2 DEF v
    <2> HIDE DEF t, Ok
    <2>8. \E u : Ok(u)
      BY <2>2, <2>5, <2>6, <2>7, Zenon
    <2> QED BY <2>8 DEF Ok
  <1>6. u.next \in Int /\ t.next <= u.next
    BY <1>1, <1>5 DEF Task
  <1>7. cut \subseteq cut' /\ (u.pc \in {"poll", "batch"} => t.pc \in {"poll", "batch"})
    BY <1>2, <1>5
  <1> QED BY <1>2, <1>4, <1>5, <1>6, <1>7, AheadOffset

\* A save that fails: the task goes on, and its file is as it was, or empty and cut off.
LEMMA FailedOffset ==
  ASSUME IInv, IInv', OffsetInv, NEW n \in Node, NEW s \in Slot, GoesOn(n, s),
         UNCHANGED <<file, saved>>, cut \subseteq cut',
         task[n][s].saving => <<n, task[n][s].part>> \in cut'
  PROVE  OffsetInv'
  <1> DEFINE t == task[n][s]
             u == Advanced(t)
  <1>1. t \in Task /\ t.pc = "batch" /\ t.next \in Nat /\ t.last \in Nat /\ t.next <= t.last
    BY SaveFacts, Zenon
  <1>2. u.part = t.part /\ u.next = t.last + 1
    BY <1>1 DEF Advanced, Task
  <1>3. UNCHANGED <<log, changes>> /\ Step(n, s, u)
    BY Zenon DEF GoesOn, topic
  <1>4. u.next \in Int /\ t.next <= u.next
    <2> HIDE DEF t, u
    <2> QED BY <1>1, <1>2
  <1> HIDE DEF u
  <1> QED BY <1>1, <1>2, <1>3, <1>4, AheadOffset

\* An opened file is empty as long as it is saved.
LEMMA OpenOffset ==
  ASSUME IInv, IInv', OffsetInv, NEW n \in Node, NEW s \in Slot, Opens(n, s)
  PROVE  OffsetInv'
  <1> DEFINE t == task[n][s]
             p == t.part
             u == [t EXCEPT !.saving = TRUE]
  <1>1. t \in Task /\ t.pc = "batch" /\ p \in Partition
    BY SaveFacts, Zenon
  <1>2. u.part = p /\ u.next = t.next /\ u.saving
    BY <1>1 DEF Task
  <1>3. UNCHANGED <<log, changes, saved, cut>>
    BY Zenon DEF Opens, topic, env, history
  <1>4. task' = [task EXCEPT ![n][s] = u] /\ file' = [file EXCEPT ![n][p] = NoOffset]
    BY Zenon DEF Opens, Step
  <1>5. task \in [Node -> [Slot -> Task]] /\ file \in [Node -> [Partition -> Int]]
    BY DEF IInv, TypeOK
  <1>6. /\ task'[n][s] = u
        /\ \A m \in Node, q \in Slot : task'[m][q] = task[m][q] \/ (m = n /\ q = s)
    BY <1>4, <1>5
  <1>7. \A m \in Node, q \in Partition :
            file'[m][q] = file[m][q] \/ (m = n /\ q = p /\ file'[m][q] = NoOffset)
    <2> HIDE DEF p
    <2> QED BY <1>1, <1>4, <1>5
  <1>8. ASSUME NEW m \in Node, NEW q \in Slot
        PROVE  /\ task'[m][q].part = task[m][q].part /\ task'[m][q].next = task[m][q].next
               /\ task[m][q].saving => task'[m][q].saving
               /\ task'[m][q].pc \in {"poll", "batch"} => task[m][q].pc \in {"poll", "batch"}
    <2>1. CASE m = n /\ q = s
      BY <1>1, <1>2, <1>6, <2>1
    <2> QED BY <1>6, <2>1
  <1>9. ASSUME NEW m \in Node, NEW q \in Partition PROVE SavedSound(m, q)'
    <2>1. SavedSound(m, q)
      BY DEF OffsetInv
    <2>2. Saving(m, q) => Saving(m, q)'
      BY <1>8 DEF Saving
    <2>4. CASE m = n /\ q = p
      <3>1. Saving(m, q)'
        BY <1>2, <1>6, <2>4 DEF Saving
      <3> QED BY <1>3, <2>1, <3>1 DEF SavedSound
    <2>5. CASE file'[m][q] = file[m][q]
      BY <1>3, <2>1, <2>2, <2>5 DEF SavedSound
    <2> QED BY <1>7, <2>4, <2>5
  <1>10. ASSUME NEW m \in Node, changes' < 2 PROVE SavedAhead(m)'
    <2>1. SavedAhead(m)
      BY <1>3, <1>10 DEF OffsetInv
    <2>2. \A q \in Partition : file'[m][q] \in {NoOffset, saved'[m][q]}
      BY <1>3, <1>7, <2>1 DEF SavedAhead
    <2>3. \A q \in Slot : task'[m][q].pc \in {"poll", "batch"} =>
              saved'[m][task'[m][q].part] <= task'[m][q].next
      BY <1>3, <1>8, <2>1 DEF SavedAhead
    <2> QED BY <2>2, <2>3 DEF SavedAhead
  <1> QED BY <1>3, <1>9, <1>10 DEF OffsetInv

\* The next offset of a task is written to its file, and remembered when it is the highest.
Writes(n, s) ==
  /\ file' = [file EXCEPT ![n][task[n][s].part] = task[n][s].last + 1]
  /\ saved' = IF task[n][s].last + 1 > saved[n][task[n][s].part]
              THEN [saved EXCEPT ![n][task[n][s].part] = task[n][s].last + 1] ELSE saved

\* What a save writes: an offset behind the task's, and the highest one so far.
LEMMA WriteFacts ==
  ASSUME IInv, OffsetInv, NEW n \in Node, NEW s \in Slot, GoesOn(n, s), Writes(n, s)
  PROVE  LET t == task[n][s]
             p == t.part
         IN  /\ saved' \in [Node -> [Partition -> Int]]
             /\ \A m \in Node, q \in Partition : saved'[m][q] = saved[m][q] \/ (m = n /\ q = p)
             /\ saved'[n][p] \in NoOffset .. Len(log[p])
             /\ changes < 2 => saved[n][p] < t.last + 1 /\ saved'[n][p] = t.last + 1
  <1> DEFINE t == task[n][s]
             p == t.part
  <1>1. /\ t.pc = "batch" /\ p \in Partition /\ t.next \in Nat /\ t.last \in Nat /\ t.next <= t.last
        /\ t.last + 1 \in 0 .. Len(log[p]) /\ Len(log[p]) \in Nat
    BY SaveFacts, Zenon
  <1>2. saved \in [Node -> [Partition -> Int]] /\ SavedSound(n, p)
    BY <1>1 DEF OffsetInv
  <1>3. changes < 2 => saved[n][p] <= t.next
    BY <1>1 DEF OffsetInv, SavedAhead
  <1>4. saved' = IF t.last + 1 > saved[n][p] THEN [saved EXCEPT ![n][p] = t.last + 1] ELSE saved
    BY DEF Writes
  <1> HIDE DEF t, p
  <1>5. saved[n][p] \in NoOffset .. Len(log[p]) /\ saved[n][p] \in Int
    BY <1>1, <1>2 DEF SavedSound
  <1>8. t.last + 1 \in Int
    BY <1>1
  <1>6. CASE t.last + 1 > saved[n][p]
    <2>1. saved' = [saved EXCEPT ![n][p] = t.last + 1]
      BY <1>4, <1>6
    <2>2. /\ saved' \in [Node -> [Partition -> Int]] /\ saved'[n][p] = t.last + 1
          /\ \A m \in Node, q \in Partition : saved'[m][q] = saved[m][q] \/ (m = n /\ q = p)
      <3> DEFINE e == t.last + 1
      <3>1. e \in Int /\ saved' = [saved EXCEPT ![n][p] = e]
        BY <1>8, <2>1
      <3> HIDE DEF e
      <3>2. /\ saved' \in [Node -> [Partition -> Int]] /\ saved'[n][p] = e
            /\ \A m \in Node, q \in Partition : saved'[m][q] = saved[m][q] \/ (m = n /\ q = p)
        BY <1>1, <1>2, <3>1
      <3> QED BY <3>2 DEF e
    <2> QED BY <1>1, <1>5, <1>6, <2>2 DEF NoOffset, t, p
  <1>7. CASE ~(t.last + 1 > saved[n][p])
    <2>1. saved' = saved /\ ~(changes < 2)
      BY <1>1, <1>3, <1>4, <1>5, <1>7
    <2> QED BY <1>2, <1>5, <2>1 DEF t, p
  <1> QED BY <1>6, <1>7

\* The offset is written.
LEMMA WriteOffset ==
  ASSUME IInv, IInv', OffsetInv, NEW n \in Node, NEW s \in Slot, GoesOn(n, s),
         Writes(n, s), cut' = cut \ {<<n, task[n][s].part>>}
  PROVE  OffsetInv'
  <1> DEFINE t == task[n][s]
             p == t.part
             u == Advanced(t)
  <1>1. /\ t \in Task /\ t.pc = "batch" /\ p \in Partition /\ t.next \in Nat /\ t.last \in Nat
    BY SaveFacts, Zenon
  <1>2. u.part = p /\ u.next = t.last + 1
    BY <1>1 DEF Advanced, Task
  <1>3. UNCHANGED <<log, changes>> /\ task' = [task EXCEPT ![n][s] = u]
    BY Zenon DEF GoesOn, topic, Step
  <1>4. /\ saved' \in [Node -> [Partition -> Int]]
        /\ \A m \in Node, q \in Partition : saved'[m][q] = saved[m][q] \/ (m = n /\ q = p)
        /\ saved'[n][p] \in NoOffset .. Len(log[p])
        /\ changes < 2 => saved'[n][p] = t.last + 1
    BY WriteFacts, Zenon
  <1>5. task \in [Node -> [Slot -> Task]] /\ file \in [Node -> [Partition -> Int]]
    BY DEF IInv, TypeOK
  <1>6. /\ task'[n][s] = u
        /\ \A m \in Node, q \in Slot : task'[m][q] = task[m][q] \/ (m = n /\ q = s)
    BY <1>3, <1>5
  <1>7. /\ file'[n][p] = t.last + 1
        /\ \A m \in Node, q \in Partition : file'[m][q] = file[m][q] \/ (m = n /\ q = p)
    <2>1. file' = [file EXCEPT ![n][p] = t.last + 1]
      BY DEF Writes
    <2> HIDE DEF t, p
    <2> QED BY <1>1, <1>5, <2>1
  <1> HIDE DEF u
  <1>8. ASSUME NEW m \in Node, NEW q \in Partition PROVE SavedSound(m, q)'
    <2>1. SavedSound(m, q)
      BY DEF OffsetInv
    <2>2. CASE m = n /\ q = p
      <3>1. file'[m][q] # NoOffset
        <4> HIDE DEF t, p
        <4> QED BY <1>1, <1>7, <2>2 DEF NoOffset
      <3> QED BY <1>3, <1>4, <2>2, <3>1 DEF SavedSound
    <2>3. CASE m # n \/ q # p
      <3>1. file'[m][q] = file[m][q] /\ saved'[m][q] = saved[m][q]
        BY <1>4, <1>7, <2>3
      <3>2. <<m, q>> \in cut => <<m, q>> \in cut'
        BY <2>3
      <3>3. Saving(m, q) => Saving(m, q)'
        <4>1. ASSUME NEW r \in Slot, task[m][r].part = q PROVE task'[m][r] = task[m][r]
          BY <1>6, <2>3, <4>1
        <4> QED BY <4>1 DEF Saving
      <3> QED BY <1>3, <2>1, <3>1, <3>2, <3>3 DEF SavedSound
    <2> QED BY <2>2, <2>3
  <1>9. ASSUME NEW m \in Node, changes' < 2 PROVE SavedAhead(m)'
    <2>1. SavedAhead(m) /\ OneReader(m) /\ changes < 2
      BY <1>3, <1>9 DEF OffsetInv, IInv, OneReaderEach
    <2>2. ASSUME NEW q \in Partition PROVE file'[m][q] \in {NoOffset, saved'[m][q]}
      BY <1>4, <1>7, <2>1 DEF SavedAhead
    <2>3. ASSUME NEW q \in Slot, task'[m][q].pc \in {"poll", "batch"}
          PROVE  saved'[m][task'[m][q].part] <= task'[m][q].next
      <3>1. CASE m = n /\ q = s
        <4>1. saved'[n][p] <= t.last + 1
          <5> HIDE DEF t, p
          <5> QED BY <1>1, <1>4, <2>1
        <4> QED BY <1>2, <1>6, <3>1, <4>1
      <3>2. CASE m # n \/ q # s
        <4>1. task'[m][q] = task[m][q] /\ task[m][q].part \in Partition
          BY <1>6, <2>3, <3>2 DEF IInv, TaskSound
        <4>2. ~(m = n /\ task[m][q].part = p)
          BY <1>1, <2>1, <2>3, <3>2, <4>1 DEF OneReader
        <4>3. saved'[m][task[m][q].part] = saved[m][task[m][q].part]
          BY <1>4, <4>1, <4>2
        <4> QED BY <2>1, <2>3, <4>1, <4>3 DEF SavedAhead
      <3> QED BY <3>1, <3>2
    <2> QED BY <2>2, <2>3 DEF SavedAhead
  <1> QED BY <1>4, <1>8, <1>9 DEF OffsetInv

\* A step that saves an offset, opens a file, or leaves all files alone.
LEMMA FileSteps ==
  ASSUME IInv, [Next]_vars
  PROVE  \/ UNCHANGED file
         \/ \E n \in Node, s \in Slot : Opens(n, s)
         \/ \E n \in Node, s \in Slot : GoesOn(n, s) /\ Writes(n, s)
  <1>1. CASE Produce \/ ChangeMeta \/ Expire \/ UNCHANGED vars
    BY <1>1 DEF Produce, ChangeMeta, Expire, vars, data
  <1>2. ASSUME NEW n \in Node, Acquire(n) \/ Renew(n) \/ StartConsumers(n) \/ StartFails(n)
                               \/ Redetect(n) \/ Break(n) \/ Crash(n)
        PROVE  UNCHANGED file
    BY <1>2 DEF Acquire, Renew, StartConsumers, StartFails, Redetect, Break, Crash, data
  <1>3. ASSUME NEW n \in Node, NEW s \in Slot, TaskStep(n, s), ~SaveOffset(n, s), ~OpenFile(n, s)
        PROVE  UNCHANGED file
    BY <1>3, Zenon DEF TaskStep, LoadOffset, InitFails, Fetch, NoPartitionClient, FetchFails,
                UpdateRow, UpdateEtdr, data
  <1>4. ASSUME NEW n \in Node, NEW s \in Slot, OpenFile(n, s)
        PROVE  UNCHANGED file \/ Opens(n, s)
    BY <1>4, Zenon DEF OpenFile, Opens, history, env
  <1>5. ASSUME NEW n \in Node, NEW s \in Slot, SaveOffset(n, s)
        PROVE  \/ UNCHANGED file
               \/ GoesOn(n, s) /\ Writes(n, s)
    <2>1. task[n][s].pc = "batch" /\ task[n][s].todo = {}
      BY <1>5 DEF SaveOffset, IInv, TaskSound
    <2> QED BY <1>5, <2>1, Zenon DEF SaveOffset, GoesOn, Writes
  <1> QED BY <1>1, <1>2, <1>3, <1>4, <1>5, Zenon DEF Next

LEMMA InitOffset == Init => OffsetInv
  <1> SUFFICES ASSUME Init PROVE OffsetInv
    OBVIOUS
  <1>1. /\ saved = [n \in Node |-> [p \in Partition |-> -1]]
        /\ file = [n \in Node |-> [p \in Partition |-> -1]]
        /\ log = [p \in Partition |-> <<>>] /\ task = [n \in Node |-> [s \in Slot |-> Idle]]
    BY DEF Init, NoOffset
  <1>2. \A n \in Node, p \in Partition : saved[n][p] = -1 /\ file[n][p] = -1 /\ Len(log[p]) = 0
    BY <1>1
  <1>3. \A n \in Node, s \in Slot : task[n][s].pc = "none"
    BY <1>1, IdleTyped
  <1>4. \A n \in Node, p \in Partition : SavedSound(n, p)
    BY <1>2 DEF SavedSound, NoOffset
  <1>5. \A n \in Node : SavedAhead(n)
    BY <1>2, <1>3 DEF SavedAhead, NoOffset
  <1> QED BY <1>1, <1>4, <1>5 DEF OffsetInv

LEMMA NextOffset ==
  ASSUME IInv, OffsetInv, [Next]_vars
  PROVE  OffsetInv'
  <1>0. IInv'
    BY NextHub
  <1>1. CASE Produce \/ ChangeMeta \/ Expire \/ UNCHANGED vars
    BY <1>0, <1>1, QuietOffset
  <1>2. ASSUME NEW n \in Node, Acquire(n) \/ Renew(n) \/ StartFails(n) \/ Break(n)
        PROVE  OffsetInv'
    BY <1>0, <1>2, QuietOffset
  <1>3. ASSUME NEW n \in Node, StartConsumers(n) \/ Redetect(n) PROVE OffsetInv'
    BY <1>0, <1>3, SpawnOffset
  <1>4. ASSUME NEW n \in Node, Crash(n) PROVE OffsetInv'
    BY <1>0, <1>4, CrashOffset
  <1>5. ASSUME NEW n \in Node, NEW s \in Slot, LoadOffset(n, s) \/ InitFails(n, s) PROVE OffsetInv'
    BY <1>0, <1>5, BeginOffset
  <1>6. ASSUME NEW n \in Node, NEW s \in Slot,
               \/ Fetch(n, s) \/ NoPartitionClient(n, s) \/ FetchFails(n, s)
               \/ UpdateRow(n, s) \/ UpdateEtdr(n, s)
        PROVE  OffsetInv'
    BY <1>0, <1>6, WorkOffset
  <1>7. ASSUME NEW n \in Node, NEW s \in Slot, OpenFile(n, s) PROVE OffsetInv'
    <2>1. CASE Opens(n, s)
      BY <1>0, <2>1, OpenOffset
    <2>2. CASE GoesOn(n, s) /\ ~Opens(n, s)
      <3>1. UNCHANGED <<file, saved, cut>> /\ ~task[n][s].saving
        BY <1>7, <2>2, Zenon DEF OpenFile, Opens, history, env
      <3> QED BY <1>0, <2>2, <3>1, FailedOffset
    <2> QED BY <1>7, <2>1, <2>2, SaveSteps
  <1>8. ASSUME NEW n \in Node, NEW s \in Slot, SaveOffset(n, s) PROVE OffsetInv'
    <2>1. GoesOn(n, s)
      <3>1. task[n][s].pc = "batch" /\ task[n][s].todo = {}
        BY <1>8 DEF SaveOffset, IInv, TaskSound
      <3> QED BY <1>8, <3>1, Zenon DEF SaveOffset, GoesOn
    <2>2. \/ Writes(n, s) /\ cut' = cut \ {<<n, task[n][s].part>>}
          \/ UNCHANGED <<file, saved>> /\ cut' = cut \cup {<<n, task[n][s].part>>}
      BY <1>8, Zenon DEF SaveOffset, Writes
    <2>3. CASE UNCHANGED <<file, saved>> /\ cut' = cut \cup {<<n, task[n][s].part>>}
      BY <1>0, <2>1, <2>3, FailedOffset
    <2> QED BY <1>0, <2>1, <2>2, <2>3, WriteOffset
  <1> QED BY <1>1, <1>2, <1>3, <1>4, <1>5, <1>6, <1>7, <1>8 DEF Next, TaskStep

\* An offset that is saved is below one saved before only after the metadata changed twice
\* (save_offset_to_file writes without comparing; only a second task of the same partition
\* can be behind it): neither a crash nor a save that was cut off takes an offset back.
THEOREM OffsetsAlwaysAdvance == Spec => OffsetsAdvance
  <1> DEFINE Ahead == \A n \in Node, p \in Partition :
                         file'[n][p] \in 0 .. saved[n][p] - 1 => changes >= 2
  <1>1. ASSUME IInv, OffsetInv, [Next]_vars PROVE [Ahead]_vars
    <2> SUFFICES ASSUME NEW m \in Node, NEW q \in Partition, changes < 2,
                        file'[m][q] \in 0 .. saved[m][q] - 1
                 PROVE  FALSE
      <3>1. changes \in Nat
        BY <1>1 DEF IInv, TypeOK
      <3> QED BY <3>1
    <2>1. file[m][q] \in {-1, saved[m][q]} /\ saved[m][q] \in Int
      BY <1>1 DEF OffsetInv, SavedAhead, NoOffset
    <2>2. file'[m][q] # file[m][q] /\ file'[m][q] # -1
      BY <2>1
    <2>3. file \in [Node -> [Partition -> Int]]
      BY <1>1 DEF IInv, TypeOK
    <2>4. ASSUME NEW n \in Node, NEW s \in Slot, Opens(n, s) PROVE FALSE
      <3>1. file' = [file EXCEPT ![n][task[n][s].part] = -1]
        BY <2>4 DEF Opens, NoOffset
      <3> QED BY <2>2, <2>3, <3>1
    <2>5. ASSUME NEW n \in Node, NEW s \in Slot, GoesOn(n, s), Writes(n, s) PROVE FALSE
      <3> DEFINE p == task[n][s].part
                 e == task[n][s].last + 1
      <3>1. saved[n][p] < e
        BY <1>1, <2>5, WriteFacts
      <3>2. p \in Partition /\ task[n][s].last \in Nat
        BY <1>1, <2>5, SaveFacts, Zenon
      <3>3. e \in Int
        BY <3>2
      <3>4. file' = [file EXCEPT ![n][p] = e]
        BY <2>5 DEF Writes
      <3> HIDE DEF p, e
      <3>5. m = n /\ q = p /\ file'[n][p] = e
        BY <2>2, <2>3, <3>2, <3>3, <3>4
      <3> QED BY <2>1, <3>1, <3>3, <3>5
    <2> QED BY <1>1, <2>2, <2>4, <2>5, FileSteps
  <1> QED BY <1>1, InitHub, InitOffset, NextHub, NextOffset, PTL DEF Spec, OffsetsAdvance

\* A pod that once saved an offset begins at the end of its partition only while its file is
\* open to be saved, or after a save that was cut off (load_offset_from_file finds no number).
THEOREM AlwaysResumesFromFile == Spec => ResumesFromFile
  <1> DEFINE Resumes == \A n \in Node, p \in Partition :
                (saved[n][p] # NoOffset /\ began'[n][p] # began[n][p]) =>
                    <<n, p>> \in cut \/ Saving(n, p)
  <1>1. ASSUME IInv, OffsetInv, [Next]_vars PROVE [Resumes]_vars
    <2>1. began \in [Node -> [Partition -> Int]]
      BY <1>1 DEF IInv, TypeOK
    <2>2. ASSUME NEW n \in Node, NEW s \in Slot, file[n][task[n][s].part] = NoOffset,
                 \E e : began' = [began EXCEPT ![n][task[n][s].part] = e]
          PROVE  Resumes
      <3> SUFFICES ASSUME NEW m \in Node, NEW p \in Partition, saved[m][p] # NoOffset,
                          began'[m][p] # began[m][p]
                   PROVE  <<m, p>> \in cut \/ Saving(m, p)
        OBVIOUS
      <3>1. m = n /\ p = task[n][s].part
        BY <2>1, <2>2
      <3> QED BY <1>1, <2>2, <3>1 DEF OffsetInv, SavedSound
    <2>3. \/ UNCHANGED began
          \/ \E n \in Node, s \in Slot : /\ file[n][task[n][s].part] = NoOffset
                /\ \E e : began' = [began EXCEPT ![n][task[n][s].part] = e]
      <3>1. ASSUME Produce \/ ChangeMeta \/ Expire \/ UNCHANGED vars PROVE UNCHANGED began
        BY <3>1 DEF Produce, ChangeMeta, Expire, vars, history
      <3>2. ASSUME NEW n \in Node, Acquire(n) \/ Renew(n) \/ StartConsumers(n) \/ StartFails(n)
                                   \/ Redetect(n) \/ Break(n) \/ Crash(n)
            PROVE  UNCHANGED began
        BY <3>2 DEF Acquire, Renew, StartConsumers, StartFails, Redetect, Break, Crash, history
      <3>3. ASSUME NEW n \in Node, NEW s \in Slot, TaskStep(n, s), ~LoadOffset(n, s), ~InitFails(n, s)
            PROVE  UNCHANGED began
        BY <3>3, Zenon DEF TaskStep, Fetch, NoPartitionClient, FetchFails, UpdateRow, UpdateEtdr,
                    OpenFile, SaveOffset, history
      <3>4. ASSUME NEW n \in Node, NEW s \in Slot, LoadOffset(n, s) \/ InitFails(n, s)
            PROVE  \/ UNCHANGED began
                   \/ /\ file[n][task[n][s].part] = NoOffset
                      /\ \E e : began' = [began EXCEPT ![n][task[n][s].part] = e]
        BY <3>4, Zenon DEF LoadOffset, InitFails
      <3> DEFINE Begins(n, s) == /\ file[n][task[n][s].part] = NoOffset
                                 /\ \E e : began' = [began EXCEPT ![n][task[n][s].part] = e]
      <3>5. ASSUME NEW n \in Node, NEW s \in Slot, TaskStep(n, s) PROVE UNCHANGED began \/ Begins(n, s)
        BY <3>3, <3>4, <3>5, Zenon
      <3> HIDE DEF Begins
      <3>6. UNCHANGED began \/ \E n \in Node, s \in Slot : Begins(n, s)
        BY <1>1, <3>1, <3>2, <3>5 DEF Next
      <3> QED BY <3>6 DEF Begins
    <2>4. CASE UNCHANGED began
      BY <2>4
    <2> HIDE DEF Resumes
    <2> QED BY <2>2, <2>3, <2>4
  <1> QED BY <1>1, InitHub, InitOffset, NextHub, NextOffset, PTL DEF Spec, ResumesFromFile

-----------------------------------------------------------------------------
(* The newest hub id wins: OrderInv (HubConsumer) is inductive *)

\* A step that makes no task a reader adds none to the readers of a partition.
LEMMA ReadersSeen ==
  ASSUME DoubledSeen, doubled \subseteq doubled',
         \A n \in Node, s \in Slot : task'[n][s].pc \in {"poll", "batch"} =>
            task[n][s].pc \in {"poll", "batch"} /\ task'[n][s].part = task[n][s].part
  PROVE  DoubledSeen'
  <1> SUFFICES ASSUME NEW n \in Node, NEW m \in Node, NEW s \in Slot, NEW q \in Slot,
                      <<n, s>> # <<m, q>>, task'[n][s].part = task'[m][q].part,
                      task'[n][s].pc \in {"poll", "batch"}, task'[m][q].pc \in {"poll", "batch"}
               PROVE  task'[n][s].part \in doubled'
    BY DEF DoubledSeen
  <1>1. /\ task[n][s].pc \in {"poll", "batch"} /\ task'[n][s].part = task[n][s].part
        /\ task[m][q].pc \in {"poll", "batch"} /\ task'[m][q].part = task[m][q].part
    OBVIOUS
  <1>2. task[n][s].part = task[m][q].part
    BY <1>1
  <1>3. task[n][s].part \in doubled
    BY <1>1, <1>2, SMT DEF DoubledSeen
  <1> QED BY <1>1, <1>3

\* Observe sees every partition with two readers.
LEMMA ObserveSees ==
  ASSUME Observe, IInv'
  PROVE  DoubledSeen' /\ doubled \subseteq doubled'
  <1>1. doubled \subseteq doubled'
    BY DEF Observe
  <1>2. ASSUME NEW n \in Node, NEW m \in Node, NEW s \in Slot, NEW q \in Slot,
               <<n, s>> # <<m, q>>, task'[n][s].part = task'[m][q].part,
               task'[n][s].pc \in {"poll", "batch"}, task'[m][q].pc \in {"poll", "batch"}
        PROVE  task'[n][s].part \in doubled'
    <2> DEFINE p == task'[n][s].part
    <2>1. TaskSound(n, s)'
      BY DEF IInv
    <2>2. p \in Partition
      BY <1>2, <2>1 DEF TaskSound
    <2>3. \A x \in {task'[n][s], task'[m][q]} : x.part = p /\ x.pc \in {"poll", "batch"}
      BY <1>2
    <2> HIDE DEF p
    <2>4. p \in doubled'
      BY <1>2, <2>2, <2>3 DEF Observe
    <2> QED BY <2>4 DEF p
  <1> QED BY <1>1, <1>2 DEF DoubledSeen

\* A record of a log names a ticket, or none.
LEMMA TicketOf ==
  ASSUME NEW l \in Seq(Record), NEW i \in 0 .. Len(l) - 1
  PROVE  l[i + 1].ticket \in Ticket \cup {None}
  <1>1. l[i + 1] \in Record
    OBVIOUS
  <1> QED BY <1>1, HubAssumption DEF HubAssumption

\* The log only grows.
LogKept ==
  \A p \in Partition : /\ Len(log[p]) <= Len(log'[p])
                       /\ \A o \in 0 .. Len(log[p]) - 1 : log'[p][o + 1] = log[p][o + 1]

LEMMA LogSame ==
  ASSUME TypeOK, UNCHANGED log
  PROVE  LogKept
  BY DEF TypeOK, LogKept

\* What was fetched stays in the log, at its place.
LEMMA FetchedStays ==
  ASSUME TypeOK, TypeOK', LogKept, HistorySound, NEW p \in Partition, NEW j, <<p, j>> \in fetched
  PROVE  /\ j \in 0 .. Len(log[p]) - 1 /\ j \in 0 .. Len(log'[p]) - 1 /\ j \in Int
         /\ \A i \in 0 .. j : /\ i \in 0 .. Len(log[p]) - 1
                              /\ log'[p][i + 1] = log[p][i + 1]
  <1>1. j \in 0 .. Len(log[p]) - 1
    BY DEF HistorySound
  <1>2. /\ Len(log[p]) \in Nat /\ Len(log'[p]) \in Nat /\ Len(log[p]) <= Len(log'[p])
        /\ \A o \in 0 .. Len(log[p]) - 1 : log'[p][o + 1] = log[p][o + 1]
    BY DEF LogKept, TypeOK
  <1> QED BY <1>1, <1>2

\* NewestHubIdWins, for one ticket and two of its records.
Newest(p, i, j, k) ==
  (/\ i < j /\ k # None /\ log[p][i + 1].ticket = k /\ log[p][j + 1].ticket = k
   /\ <<p, i, j>> \notin together /\ <<p, i>> \notin late) =>
  /\ row[k] = <<p, i>> => <<p, j>> \notin stored
  /\ \A n \in Node : etdr[n][k] = <<p, i>> => <<p, j>> \notin tried[n]

LEMMA NewestOf ==
  NewestHubIdWins <=> \A p \in Partition \ doubled : \A i, j \in 0 .. Len(log[p]) - 1 :
                         Newest(p, i, j, log[p][i + 1].ticket)
  <1> DEFINE ticket(p, i) == log[p][i + 1].ticket
             newest(p, i, j) == Newest(p, i, j, ticket(p, i))
  <1>1. NewestHubIdWins <=> \A p \in Partition \ doubled : \A i, j \in 0 .. Len(log[p]) - 1 :
            (/\ i < j /\ ticket(p, i) # None /\ ticket(p, j) = ticket(p, i)
             /\ <<p, i, j>> \notin together /\ <<p, i>> \notin late) =>
            /\ row[ticket(p, i)] = <<p, i>> => <<p, j>> \notin stored
            /\ \A n \in Node : etdr[n][ticket(p, i)] = <<p, i>> => <<p, j>> \notin tried[n]
    BY DEF NewestHubIdWins
  <1>2. \A p, i, j : newest(p, i, j) <=>
            ((/\ i < j /\ ticket(p, i) # None /\ ticket(p, j) = ticket(p, i)
              /\ <<p, i, j>> \notin together /\ <<p, i>> \notin late) =>
             /\ row[ticket(p, i)] = <<p, i>> => <<p, j>> \notin stored
             /\ \A n \in Node : etdr[n][ticket(p, i)] = <<p, i>> => <<p, j>> \notin tried[n])
    BY DEF Newest
  <1> HIDE DEF newest
  <1>3. NewestHubIdWins <=> \A p \in Partition \ doubled : \A i, j \in 0 .. Len(log[p]) - 1 :
            newest(p, i, j)
    BY <1>1, <1>2
  <1> QED BY <1>3 DEF newest

\* A step that fetches, stores and handles nothing keeps the order.
LEMMA OrderStays ==
  ASSUME TypeOK, TypeOK', LogKept, OrderInv, DoubledSeen', doubled \subseteq doubled',
         UNCHANGED <<fetched, stored, tried, row, late, together>>,
         \A n \in Node, k \in Ticket : etdr'[n][k] = etdr[n][k] \/ etdr'[n][k] = NoHub,
         \A n \in Node, s \in Slot :
            \/ task'[n][s].todo = {}
            \/ /\ task'[n][s].todo = task[n][s].todo
               /\ task'[n][s].pc = task[n][s].pc /\ task'[n][s].part = task[n][s].part
  PROVE  OrderInv'
  <1>1. HistorySound /\ NewestHubIdWins /\ \A n \in Node, s \in Slot : TodoSound(n, s) /\ NewestToDo(n, s)
    BY DEF OrderInv
  <1>2. HistorySound'
    <2>1. ASSUME NEW x \in fetched PROVE x[1] \in Partition /\ x[2] \in 0 .. Len(log'[x[1]]) - 1
      <3>1. x[1] \in Partition /\ x[2] \in 0 .. Len(log[x[1]]) - 1
        BY <1>1 DEF HistorySound
      <3>2. /\ Len(log[x[1]]) \in Nat /\ Len(log'[x[1]]) \in Nat
            /\ Len(log[x[1]]) <= Len(log'[x[1]])
        <4>1. log[x[1]] \in Seq(Record) /\ log'[x[1]] \in Seq(Record)
          BY <3>1 DEF TypeOK
        <4> QED BY <3>1, <4>1 DEF LogKept
      <3> QED BY <3>1, <3>2
    <2>2. \A n \in Node, k \in Ticket : etdr'[n][k] # NoHub => <<n, k>> \in Cached
      BY <1>1 DEF HistorySound
    <2>3. stored \subseteq fetched /\ \A n \in Node : tried[n] \subseteq fetched
      BY <1>1 DEF HistorySound
    <2> QED BY <2>1, <2>2, <2>3 DEF HistorySound
  <1>3. ASSUME NEW n \in Node, NEW s \in Slot PROVE TodoSound(n, s)' /\ NewestToDo(n, s)'
    <2>1. CASE task'[n][s].todo = {}
      BY <2>1 DEF TodoSound, NewestToDo
    <2>2. CASE /\ task'[n][s].todo = task[n][s].todo
               /\ task'[n][s].pc = task[n][s].pc /\ task'[n][s].part = task[n][s].part
      <3>1. TodoSound(n, s) /\ NewestToDo(n, s)
        BY <1>1
      <3> QED BY <2>2, <3>1, Zenon DEF TodoSound, NewestToDo
    <2> QED BY <2>1, <2>2
  <1>4. NewestHubIdWins'
    <2> SUFFICES ASSUME NEW p \in Partition \ doubled', NEW i \in 0 .. Len(log'[p]) - 1,
                        NEW j \in 0 .. Len(log'[p]) - 1
                 PROVE  Newest(p, i, j, log[p][i + 1].ticket)'
      BY Zenon DEF NewestHubIdWins, Newest
    <2> DEFINE k == log'[p][i + 1].ticket
    <2> SUFFICES ASSUME i < j, k # None, log'[p][j + 1].ticket = k,
                        <<p, i, j>> \notin together, <<p, i>> \notin late
                 PROVE  /\ row[k] = <<p, i>> => <<p, j>> \notin stored
                        /\ \A n \in Node : etdr'[n][k] = <<p, i>> => <<p, j>> \notin tried[n]
      BY Zenon DEF Newest
    <2>1. k \in Ticket
      <3>1. log'[p] \in Seq(Record)
        BY DEF TypeOK
      <3>2. k \in Ticket \cup {None}
        BY <3>1, TicketOf
      <3> QED BY <3>2
    <2> HIDE DEF k
    <2>2. ASSUME <<p, j>> \in fetched
          PROVE  /\ row[k] = <<p, i>> => <<p, j>> \notin stored
                 /\ \A n \in Node : etdr[n][k] = <<p, i>> => <<p, j>> \notin tried[n]
      <3>1. /\ j \in 0 .. Len(log[p]) - 1 /\ i \in 0 .. Len(log[p]) - 1
            /\ log[p][i + 1].ticket = k /\ log[p][j + 1].ticket = k
        <4>1. /\ j \in 0 .. Len(log[p]) - 1 /\ j \in Int
              /\ \A o \in 0 .. j : o \in 0 .. Len(log[p]) - 1 /\ log'[p][o + 1] = log[p][o + 1]
          BY <1>1, <2>2, FetchedStays
        <4>2. i \in 0 .. j /\ j \in 0 .. j
          BY <4>1
        <4> QED BY <4>1, <4>2 DEF k
      <3>2. p \in Partition \ doubled
        OBVIOUS
      <3>3. Newest(p, i, j, k)
        BY <1>1, <3>1, <3>2, NewestOf
      <3> QED BY <3>1, <3>3, Zenon DEF Newest
    <2>3. stored \subseteq fetched /\ \A n \in Node : tried[n] \subseteq fetched
      BY <1>1 DEF HistorySound
    <2>4. \A n \in Node : etdr'[n][k] = <<p, i>> => etdr[n][k] = <<p, i>>
      <3>1. NoHub # <<p, i>>
        BY DEF NoHub, NoOffset
      <3> QED BY <2>1, <3>1
    <2> QED BY <2>2, <2>3, <2>4
  <1> QED BY <1>2, <1>3, <1>4 DEF OrderInv

\* So does a step that changes no partition, state or work of a task.
LEMMA QuietOrder ==
  ASSUME TypeOK, TypeOK', OrderInv,
         UNCHANGED <<log, row, etdr, fetched, stored, tried, late, together, doubled>>,
         \A n \in Node, s \in Slot :
            /\ task'[n][s].todo = task[n][s].todo
            /\ task'[n][s].pc = task[n][s].pc /\ task'[n][s].part = task[n][s].part
  PROVE  OrderInv'
  <1>1. LogKept
    BY LogSame
  <1>2. DoubledSeen
    BY DEF OrderInv
  <1>3. DoubledSeen'
    BY <1>2, ReadersSeen
  <1> QED BY <1>1, <1>3, OrderStays

\* Produce: the message that comes was not fetched.
LEMMA ProduceOrder ==
  ASSUME TypeOK, TypeOK', OrderInv, Produce
  PROVE  OrderInv'
  <1>1. PICK p \in Partition, r \in Record : log' = [log EXCEPT ![p] = Append(@, r)]
    BY Zenon DEF Produce
  <1>2. UNCHANGED <<task, row, etdr, fetched, stored, tried, late, together, doubled>>
    BY DEF Produce, data, history
  <1>3. LogKept
    <2>1. log \in [Partition -> Seq(Record)]
      BY DEF TypeOK
    <2>2. ASSUME NEW q \in Partition
          PROVE  /\ Len(log[q]) <= Len(log'[q])
                 /\ \A o \in 0 .. Len(log[q]) - 1 : log'[q][o + 1] = log[q][o + 1]
      <3>1. CASE q = p
        <4>1. log'[q] = Append(log[q], r) /\ log[q] \in Seq(Record)
          BY <1>1, <2>1, <3>1
        <4> QED BY <4>1
      <3>2. CASE q # p
        <4>1. log'[q] = log[q] /\ log[q] \in Seq(Record)
          BY <1>1, <2>1, <3>2
        <4> QED BY <4>1
      <3> QED BY <3>1, <3>2
    <2> QED BY <2>2 DEF LogKept
  <1>4. DoubledSeen
    BY DEF OrderInv
  <1>5. DoubledSeen'
    BY <1>2, <1>4, ReadersSeen
  <1> QED BY <1>2, <1>3, <1>5, OrderStays

\* The broker, the lock and the errors of a task touch no record.
LEMMA BrokerOrder ==
  ASSUME TypeOK, TypeOK', OrderInv,
         \/ ChangeMeta \/ Expire \/ UNCHANGED vars
         \/ \E n \in Node : Acquire(n) \/ Renew(n) \/ StartFails(n) \/ Break(n)
  PROVE  OrderInv'
  <1>1. UNCHANGED <<task, log, row, etdr, fetched, stored, tried, late, together, doubled>>
    BY Zenon DEF ChangeMeta, Expire, vars, Acquire, Renew, StartFails, Break, topic, data, history
  <1> QED BY <1>1, QuietOrder

LEMMA ErrorOrder ==
  ASSUME IInv, TypeOK', OrderInv, NEW n \in Node, NEW s \in Slot,
         NoPartitionClient(n, s) \/ FetchFails(n, s)
  PROVE  OrderInv'
  <1> DEFINE t == task[n][s]
  <1>1. TypeOK /\ t \in Task
    BY TaskOf, Zenon
  <1>2. UNCHANGED <<log, row, etdr, fetched, stored, tried, late, together, doubled>>
    BY DEF NoPartitionClient, FetchFails, topic, data, history
  <1>3. PICK e : Step(n, s, [t EXCEPT !.errors = e])
    <2>1. \E k : CountError(n, s, k)
      BY DEF NoPartitionClient, FetchFails
    <2> QED BY <2>1, Zenon DEF CountError
  <1>4. \A m \in Node, q \in Slot :
            /\ task'[m][q].todo = task[m][q].todo
            /\ task'[m][q].pc = task[m][q].pc /\ task'[m][q].part = task[m][q].part
    <2> DEFINE u == [t EXCEPT !.errors = e]
    <2>1. u.todo = t.todo /\ u.pc = t.pc /\ u.part = t.part
      BY <1>1 DEF Task
    <2>2. task \in [Node -> [Slot -> Task]] /\ task' = [task EXCEPT ![n][s] = u]
      BY <1>1, <1>3 DEF TypeOK, Step
    <2> HIDE DEF u
    <2>3. ASSUME NEW m \in Node, NEW q \in Slot
          PROVE  task'[m][q] = task[m][q] \/ (m = n /\ q = s /\ task'[m][q] = u)
      BY <2>2
    <2> QED BY <2>1, <2>3
  <1> QED BY <1>1, <1>2, <1>4, QuietOrder

\* StartConsumers and Redetect: the new tasks have nothing to do.
LEMMA SpawnOrder ==
  ASSUME IInv, IInv', OrderInv, NEW n \in Node, StartConsumers(n) \/ Redetect(n)
  PROVE  OrderInv'
  <1>1. TypeOK /\ TypeOK'
    BY DEF IInv
  <1>2. UNCHANGED <<log, row, etdr, fetched, stored, tried, late, together>>
    BY DEF StartConsumers, Redetect, topic, data, history
  <1>3. PICK ps : ps \subseteq Partition /\ SpawnTasks(n, ps)
    <2>1. ValidPartitions \subseteq Partition /\ AddedPartitions(n) \subseteq Partition
      BY <1>1 DEF TypeOK, AddedPartitions, ValidPartitions
    <2>2. SpawnTasks(n, ValidPartitions) \/ SpawnTasks(n, AddedPartitions(n))
      BY DEF StartConsumers, Redetect
    <2> QED BY <2>1, <2>2
  <1>4. DoubledSeen' /\ doubled \subseteq doubled'
    <2>1. Observe
      BY <1>3, Zenon DEF SpawnTasks
    <2> QED BY <2>1, ObserveSees
  <1>5. ASSUME NEW m \in Node, NEW s \in Slot
        PROVE  task'[m][s].todo = {} \/ task'[m][s] = task[m][s]
    <2>1. /\ \A i \in Node \ {n} : task'[i] = task[i]
          /\ \A q \in Slot : task'[n][q] = task[n][q] \/ \E p \in ps : task'[n][q] = NewTask(p)
      BY <1>1, <1>3, SpawnTyped
    <2>2. ASSUME NEW p, task'[m][s] = NewTask(p) PROVE task'[m][s].todo = {}
      BY <2>2 DEF NewTask, Idle
    <2> QED BY <2>1, <2>2
  <1>6. LogKept
    BY <1>1, <1>2, LogSame
  <1>7. \A m \in Node, s \in Slot :
            \/ task'[m][s].todo = {}
            \/ /\ task'[m][s].todo = task[m][s].todo
               /\ task'[m][s].pc = task[m][s].pc /\ task'[m][s].part = task[m][s].part
    BY <1>5
  <1> QED BY <1>1, <1>2, <1>4, <1>6, <1>7, OrderStays

\* LoadOffset and InitFails: a task that starts has nothing to do.
LEMMA BeginOrder ==
  ASSUME IInv, IInv', OrderInv, NEW n \in Node, NEW s \in Slot, LoadOffset(n, s) \/ InitFails(n, s)
  PROVE  OrderInv'
  <1> DEFINE t == task[n][s]
  <1>1. TypeOK /\ TypeOK' /\ t \in Task
    <2>1. TypeOK'
      BY DEF IInv
    <2> QED BY <2>1, TaskOf, Zenon
  <1>2. UNCHANGED <<log, row, etdr, fetched, stored, tried, late, together>>
    BY Zenon DEF LoadOffset, InitFails, topic, data
  <1>3. DoubledSeen' /\ doubled \subseteq doubled'
    <2>1. Observe
      BY Zenon DEF LoadOffset, InitFails
    <2> QED BY <2>1, ObserveSees
  <1>4. t.todo = {}
    <2>1. t.pc = "start"
      BY Zenon DEF LoadOffset, InitFails
    <2>2. TodoSound(n, s)
      BY DEF OrderInv
    <2> QED BY <2>1, <2>2 DEF TodoSound
  <1>5. PICK u : u.todo = {} /\ Step(n, s, u)
    <2>1. ASSUME NEW a, NEW b, NEW c
          PROVE  /\ [t EXCEPT !.pc = a, !.errors = b, !.next = c].todo = {}
                 /\ [t EXCEPT !.errors = b].todo = {} /\ [t EXCEPT !.pc = a].todo = {}
      BY <1>1, <1>4 DEF Task
    <2>2. \/ \E b : Step(n, s, [t EXCEPT !.errors = b])
          \/ \E a : Step(n, s, [t EXCEPT !.pc = a])
          \/ \E a, b, c : Step(n, s, [t EXCEPT !.pc = a, !.errors = b, !.next = c])
      BY Zenon DEF LoadOffset, InitFails
    <2> QED BY <2>1, <2>2, Zenon
  <1>6. \A m \in Node, q \in Slot :
            \/ task'[m][q].todo = {}
            \/ /\ task'[m][q].todo = task[m][q].todo
               /\ task'[m][q].pc = task[m][q].pc /\ task'[m][q].part = task[m][q].part
    <2>1. task' = [task EXCEPT ![n][s] = u] /\ task \in [Node -> [Slot -> Task]]
      BY <1>1, <1>5 DEF Step, TypeOK
    <2>2. ASSUME NEW m \in Node, NEW q \in Slot
          PROVE  task'[m][q] = task[m][q] \/ task'[m][q] = u
      BY <2>1
    <2> QED BY <1>5, <2>2
  <1>7. LogKept
    BY <1>1, <1>2, LogSame
  <1> QED BY <1>1, <1>2, <1>3, <1>6, <1>7, OrderStays

\* OpenFile and SaveOffset: all of the batch is done.
LEMMA SaveOrder ==
  ASSUME IInv, IInv', OrderInv, NEW n \in Node, NEW s \in Slot, OpenFile(n, s) \/ SaveOffset(n, s)
  PROVE  OrderInv'
  <1> DEFINE t == task[n][s]
  <1>0. Opens(n, s) \/ GoesOn(n, s)
    BY SaveSteps
  <1>1. TypeOK /\ TypeOK' /\ t \in Task
    <2>1. TypeOK'
      BY DEF IInv
    <2> QED BY <2>1, TaskOf, Zenon
  <1>2. UNCHANGED <<log, row, etdr, fetched, stored, tried, late, together, doubled>>
    BY <1>0, Zenon DEF Opens, GoesOn, topic
  <1>3. PICK u \in {Advanced(t), [t EXCEPT !.saving = TRUE]} :
          t.pc = "batch" /\ t.todo = {} /\ task' = [task EXCEPT ![n][s] = u]
    BY <1>0, Zenon DEF Opens, GoesOn, Step
  <1>4. u.todo = {} /\ u.part = t.part
    BY <1>1, <1>3 DEF Task, Advanced
  <1>5. task \in [Node -> [Slot -> Task]]
    BY <1>1 DEF TypeOK
  <1>6. ASSUME NEW m \in Node, NEW q \in Slot
        PROVE  task'[m][q] = task[m][q] \/ (m = n /\ q = s /\ task'[m][q] = u)
    BY <1>3, <1>5
  <1>7. DoubledSeen
    BY DEF OrderInv
  <1>8. DoubledSeen'
    <2>1. ASSUME NEW m \in Node, NEW q \in Slot, task'[m][q].pc \in {"poll", "batch"}
          PROVE  task[m][q].pc \in {"poll", "batch"} /\ task'[m][q].part = task[m][q].part
      BY <1>3, <1>4, <1>6, <2>1
    <2> QED BY <1>2, <1>7, <2>1, ReadersSeen
  <1>9. \A m \in Node, q \in Slot :
            \/ task'[m][q].todo = {}
            \/ /\ task'[m][q].todo = task[m][q].todo
               /\ task'[m][q].pc = task[m][q].pc /\ task'[m][q].part = task[m][q].part
    BY <1>4, <1>6
  <1>10. LogKept
    BY <1>1, <1>2, LogSame
  <1> QED BY <1>1, <1>2, <1>8, <1>9, <1>10, OrderStays

\* Crash: the tasks and the memory of the pod are gone.
LEMMA CrashOrder ==
  ASSUME TypeOK, TypeOK', OrderInv, NEW n \in Node, Crash(n)
  PROVE  OrderInv'
  <1>1. /\ UNCHANGED <<log, row, fetched, stored, tried, late, together, doubled>>
        /\ task' = [task EXCEPT ![n] = [s \in Slot |-> Idle]]
        /\ etdr' = [etdr EXCEPT ![n] = [k \in Ticket |-> NoHub]]
    BY DEF Crash, topic, history
  <1>2. task \in [Node -> [Slot -> Task]] /\ etdr \in [Node -> [Ticket -> HubId]]
    BY DEF TypeOK
  <1>3. ASSUME NEW m \in Node, NEW s \in Slot
        PROVE  task'[m][s] = task[m][s] \/ (task'[m][s].todo = {} /\ task'[m][s].pc = "none")
    <2>1. CASE m = n
      BY <1>1, <1>2, <2>1 DEF Idle
    <2>2. CASE m # n
      BY <1>1, <1>2, <2>2
    <2> QED BY <2>1, <2>2
  <1>4. \A m \in Node, k \in Ticket : etdr'[m][k] = etdr[m][k] \/ etdr'[m][k] = NoHub
    BY <1>1, <1>2
  <1>5. DoubledSeen
    BY DEF OrderInv
  <1>6. DoubledSeen'
    BY <1>1, <1>3, <1>5, ReadersSeen
  <1>7. LogKept
    BY <1>1, LogSame
  <1>8. \A m \in Node, s \in Slot :
            \/ task'[m][s].todo = {}
            \/ /\ task'[m][s].todo = task[m][s].todo
               /\ task'[m][s].pc = task[m][s].pc /\ task'[m][s].part = task[m][s].part
    BY <1>3
  <1> QED BY <1>1, <1>4, <1>6, <1>7, <1>8, OrderStays

\* What Fetch does to the task, and to what was fetched.
LEMMA FetchFacts ==
  ASSUME IInv, OrderInv, NEW n \in Node, NEW s \in Slot, Fetch(n, s)
  PROVE  LET p == task[n][s].part
         IN  \E first \in Nat, last \in Int :
                /\ p \in Partition /\ last \in first .. Len(log[p]) - 1
                /\ task[n][s].pc = "poll" /\ task'[n][s].pc = "batch" /\ task'[n][s].part = p
                /\ \A x \in task'[n][s].todo : x[1] \in first .. last
                /\ Alone(n, s)
                /\ fetched' = fetched \cup {<<p, o>> : o \in first .. last}
                /\ together' = together \cup Pairs(p, first, last)
                /\ late' = late \cup {x \in {<<p, o>> : o \in first .. last} :
                              \E y \in fetched : y[1] = p /\ y[2] >= x[2]}
  <1> DEFINE t == task[n][s]
             p == t.part
             U(last) == [t EXCEPT !.pc = "batch", !.last = last, !.errors = 0,
                                  !.todo = @ \cup Spawned(p, t.next, last)]
  <1>1. TypeOK /\ t \in Task /\ TaskSound(n, s) /\ t.pc = "poll"
    <2>1. t.pc = "poll"
      BY Zenon DEF Fetch
    <2> QED BY <2>1, TaskOf, Zenon
  <1>2. PICK last \in t.next .. Len(log[p]) - 1 :
          /\ Step(n, s, U(last))
          /\ fetched' = fetched \cup {<<p, o>> : o \in t.next .. last}
          /\ together' = together \cup Pairs(p, t.next, last)
          /\ late' = late \cup {x \in {<<p, o>> : o \in t.next .. last} :
                        \E y \in fetched : y[1] = p /\ y[2] >= x[2]}
    BY Zenon DEF Fetch
  <1>3. p \in Partition /\ t.next \in 0 .. Len(log[p])
    BY <1>1 DEF TaskSound
  <1>4. Len(log[p]) \in Nat /\ t.next \in Nat /\ last \in Int
    <2> HIDE DEF t, p
    <2> QED BY <1>1, <1>2, <1>3 DEF TypeOK
  <1>5. t.todo = {}
    <2>1. TodoSound(n, s)
      BY DEF OrderInv
    <2> QED BY <1>1, <2>1 DEF TodoSound
  <1> DEFINE new == Spawned(p, t.next, last)
             u == [t EXCEPT !.pc = "batch", !.last = last, !.errors = 0, !.todo = @ \cup new]
  <1>6. /\ new \subseteq Int \X {"row", "etdr"}
        /\ \A x \in new : x[1] \in t.next .. last
    <2> HIDE DEF t, p
    <2> QED BY <1>4 DEF Spawned
  <1>7. Step(n, s, u)
    BY <1>2, Zenon
  <1> HIDE DEF new
  <1>8. u \in Task /\ u.pc = "batch" /\ u.part = p /\ u.todo = new
    BY <1>1, <1>4, <1>5, <1>6 DEF Task
  <1> HIDE DEF u
  <1>9. task'[n][s] = u /\ Alone(n, s)
    BY <1>1, <1>7, <1>8, StepTyped
  <1>10. \A x \in task'[n][s].todo : x[1] \in t.next .. last
    BY <1>6, <1>8, <1>9
  <1>11. task'[n][s].pc = "batch" /\ task'[n][s].part = p
    BY <1>8, <1>9
  <1> HIDE DEF U
  <1>12. /\ fetched' = fetched \cup {<<p, o>> : o \in t.next .. last}
         /\ together' = together \cup Pairs(p, t.next, last)
         /\ late' = late \cup {x \in {<<p, o>> : o \in t.next .. last} :
                       \E y \in fetched : y[1] = p /\ y[2] >= x[2]}
    BY <1>2, Zenon
  <1> QED BY <1>1, <1>2, <1>3, <1>4, <1>9, <1>10, <1>11, <1>12, Zenon

\* Fetch: a record of the batch is newer than all that were fetched, or late; another task
\* with work for this partition would be a second reader.
LEMMA FetchOrder ==
  ASSUME IInv, IInv', OrderInv, NEW n \in Node, NEW s \in Slot, Fetch(n, s)
  PROVE  OrderInv'
  <1> DEFINE p == task[n][s].part
  <1>1. PICK first \in Nat, last \in Int :
                /\ p \in Partition /\ last \in first .. Len(log[p]) - 1
                /\ task[n][s].pc = "poll" /\ task'[n][s].pc = "batch" /\ task'[n][s].part = p
                /\ \A x \in task'[n][s].todo : x[1] \in first .. last
                /\ Alone(n, s)
                /\ fetched' = fetched \cup {<<p, o>> : o \in first .. last}
                /\ together' = together \cup Pairs(p, first, last)
                /\ late' = late \cup {x \in {<<p, o>> : o \in first .. last} :
                              \E y \in fetched : y[1] = p /\ y[2] >= x[2]}
    BY FetchFacts, Zenon
  <1>2. UNCHANGED <<log, row, etdr, tried, stored, doubled>> /\ TypeOK
    <2>1. UNCHANGED <<log, row, etdr, tried, stored, doubled>>
      BY Zenon DEF Fetch, topic, data
    <2> QED BY <2>1 DEF IInv
  <1>3. /\ HistorySound /\ DoubledSeen /\ NewestHubIdWins
        /\ \A m \in Node, q \in Slot : TodoSound(m, q) /\ NewestToDo(m, q)
    BY DEF OrderInv
  <1>4. p = task[n][s].part
    OBVIOUS
  <1> HIDE DEF p
  <1>5. \A o \in first .. last : o \in 0 .. Len(log[p]) - 1 /\ o \in Int
    <2>1. Len(log[p]) \in Nat
      BY <1>1, <1>2 DEF TypeOK
    <2> QED BY <1>1, <2>1
  <1>6. /\ fetched \subseteq fetched' /\ together \subseteq together' /\ late \subseteq late'
        /\ \A o \in first .. last : <<p, o>> \in fetched'
        /\ \A y \in fetched' : y \in fetched \/ (y[1] = p /\ y[2] \in first .. last)
    BY <1>1
  <1>7. HistorySound'
    <2>1. ASSUME NEW y \in fetched' PROVE y[1] \in Partition /\ y[2] \in 0 .. Len(log[y[1]]) - 1
      BY <1>1, <1>3, <1>5, <1>6 DEF HistorySound
    <2>2. /\ stored \subseteq fetched /\ \A m \in Node : tried[m] \subseteq fetched
          /\ \A m \in Node, k \in Ticket : etdr[m][k] # NoHub => <<m, k>> \in Cached
      BY <1>3 DEF HistorySound
    <2>3. /\ stored \subseteq fetched' /\ \A m \in Node : tried[m] \subseteq fetched'
      BY <1>6, <2>2
    <2> QED BY <1>2, <2>1, <2>2, <2>3 DEF HistorySound
  <1>8. \A m \in Node, q \in Slot : (m = n /\ q = s) \/ task'[m][q] = task[m][q]
    BY <1>1 DEF Alone
  <1>9. DoubledSeen'
    <2>1. ASSUME NEW m \in Node, NEW q \in Slot, task'[m][q].pc \in {"poll", "batch"}
          PROVE  task[m][q].pc \in {"poll", "batch"} /\ task'[m][q].part = task[m][q].part
      BY <1>1, <1>4, <1>8, <2>1
    <2> QED BY <1>2, <1>3, <2>1, ReadersSeen
  <1>10. ASSUME NEW m \in Node, NEW q \in Slot PROVE TodoSound(m, q)'
    <2>1. CASE m = n /\ q = s
      <3>1. ASSUME NEW x \in task'[n][s].todo
            PROVE  task'[n][s].pc = "batch" /\ <<task'[n][s].part, x[1]>> \in fetched'
        BY <1>1, <1>6
      <3> QED BY <2>1, <3>1 DEF TodoSound
    <2>2. CASE ~(m = n /\ q = s)
      <3>1. TodoSound(m, q) /\ task'[m][q] = task[m][q]
        BY <1>3, <1>8, <2>2
      <3> QED BY <1>6, <3>1 DEF TodoSound
    <2> QED BY <2>1, <2>2
  <1>11. ASSUME NEW m \in Node, NEW q \in Slot PROVE NewestToDo(m, q)'
    <2> DEFINE r == task'[m][q].part
    <2> SUFFICES ASSUME r \notin doubled, NEW x \in task'[m][q].todo, NEW y \in fetched',
                        y[1] = r, x[1] < y[2]
                 PROVE  <<r, x[1], y[2]>> \in together' \/ <<r, x[1]>> \in late'
      BY <1>2 DEF NewestToDo
    <2>1. CASE m = n /\ q = s
      <3>1. r = p /\ x[1] \in first .. last
        BY <1>1, <2>1
      <3>2. CASE y \in fetched
        <4>1. y[2] \in Int
          BY <1>3, <3>2 DEF HistorySound
        <4>2. y[2] >= x[1]
          BY <1>5, <3>1, <4>1
        <4> DEFINE b == <<p, x[1]>>
        <4>3. b \in {<<p, o>> : o \in first .. last} /\ b[2] = x[1]
          BY <3>1
        <4>4. y[1] = p /\ y[2] >= b[2]
          BY <3>1, <4>2, <4>3
        <4> HIDE DEF b
        <4>5. b \in late'
          BY <1>1, <3>2, <4>3, <4>4
        <4> QED BY <3>1, <4>5 DEF b
      <3>3. CASE y[1] = p /\ y[2] \in first .. last
        <4>1. <<p, x[1], y[2]>> \in Pairs(p, first, last)
          BY <3>1, <3>3 DEF Pairs
        <4> QED BY <1>1, <3>1, <4>1
      <3> QED BY <1>6, <3>2, <3>3
    <2>2. CASE ~(m = n /\ q = s)
      <3>1. /\ task'[m][q] = task[m][q] /\ x \in task[m][q].todo /\ r = task[m][q].part
            /\ TodoSound(m, q) /\ NewestToDo(m, q)
        BY <1>3, <1>8, <2>2
      <3>2. task[m][q].pc = "batch"
        BY <3>1 DEF TodoSound
      <3>3. r # p
        <4>1. SUFFICES ASSUME task[m][q].part = task[n][s].part PROVE FALSE
          BY <1>4, <3>1
        <4>2. <<m, q>> # <<n, s>>
          BY <2>2
        <4>3. task[m][q].part \in doubled
          BY <1>1, <1>3, <3>2, <4>1, <4>2 DEF DoubledSeen
        <4> QED BY <3>1, <4>3
      <3>4. y \in fetched
        BY <1>6, <3>3
      <3>5. <<r, x[1], y[2]>> \in together \/ <<r, x[1]>> \in late
        BY <3>1, <3>4 DEF NewestToDo
      <3> QED BY <1>6, <3>5
    <2> QED BY <2>1, <2>2
  <1>12. NewestHubIdWins'
    <2> SUFFICES ASSUME NEW r \in Partition \ doubled', NEW i \in 0 .. Len(log'[r]) - 1,
                        NEW j \in 0 .. Len(log'[r]) - 1
                 PROVE  Newest(r, i, j, log[r][i + 1].ticket)'
      BY Zenon DEF NewestHubIdWins, Newest
    <2>1. Newest(r, i, j, log[r][i + 1].ticket)
      BY <1>2, <1>3, NewestOf
    <2> QED BY <1>2, <1>6, <2>1 DEF Newest
  <1> QED BY <1>7, <1>9, <1>10, <1>11, <1>12 DEF OrderInv

\* A step of a task for one of its records leaves the readers and the work of the others.
LEMMA WorkOrder ==
  ASSUME OrderInv, NEW n \in Node, NEW s \in Slot, Alone(n, s),
         UNCHANGED <<fetched, together, late, doubled>>,
         task'[n][s].pc = task[n][s].pc, task'[n][s].part = task[n][s].part,
         \A x \in task'[n][s].todo : \E y \in task[n][s].todo : y[1] = x[1]
  PROVE  /\ DoubledSeen'
         /\ \A m \in Node, q \in Slot : TodoSound(m, q)' /\ NewestToDo(m, q)'
  <1>1. DoubledSeen /\ \A m \in Node, q \in Slot : TodoSound(m, q) /\ NewestToDo(m, q)
    BY DEF OrderInv
  <1>2. ASSUME NEW m \in Node, NEW q \in Slot
        PROVE  /\ task'[m][q].pc = task[m][q].pc /\ task'[m][q].part = task[m][q].part
               /\ \A x \in task'[m][q].todo : \E y \in task[m][q].todo : y[1] = x[1]
    <2>1. CASE m = n /\ q = s
      BY <2>1
    <2>2. CASE ~(m = n /\ q = s)
      <3>1. task'[m][q] = task[m][q]
        BY <2>2 DEF Alone
      <3> QED BY <3>1
    <2> QED BY <2>1, <2>2
  <1>3. DoubledSeen'
    BY <1>1, <1>2, ReadersSeen
  <1>4. ASSUME NEW m \in Node, NEW q \in Slot PROVE TodoSound(m, q)' /\ NewestToDo(m, q)'
    <2>1. ASSUME NEW x \in task'[m][q].todo
          PROVE  /\ task'[m][q].pc = "batch" /\ <<task'[m][q].part, x[1]>> \in fetched
                 /\ task'[m][q].part \notin doubled => \A y \in fetched :
                      (y[1] = task'[m][q].part /\ x[1] < y[2]) =>
                         \/ <<task'[m][q].part, x[1], y[2]>> \in together
                         \/ <<task'[m][q].part, x[1]>> \in late
      <3>1. PICK z \in task[m][q].todo : z[1] = x[1]
        BY <1>2
      <3>2. TodoSound(m, q) /\ NewestToDo(m, q)
        BY <1>1
      <3>3. task[m][q].pc = "batch" /\ <<task[m][q].part, z[1]>> \in fetched
        BY <3>2 DEF TodoSound
      <3>4. task[m][q].part \notin doubled => \A y \in fetched :
              (y[1] = task[m][q].part /\ z[1] < y[2]) =>
                 <<task[m][q].part, z[1], y[2]>> \in together \/ <<task[m][q].part, z[1]>> \in late
        BY <3>2, Zenon DEF NewestToDo
      <3> QED BY <1>2, <3>1, <3>3, <3>4
    <2>2. TodoSound(m, q)'
      BY <2>1 DEF TodoSound
    <2>3. NewestToDo(m, q)'
      BY <2>1, Zenon DEF NewestToDo
    <2> QED BY <2>2, <2>3
  <1> QED BY <1>3, <1>4

\* What the order says of a record that is to be done now.
LEMMA NowInOrder ==
  ASSUME IInv, OrderInv, NEW n \in Node, NEW s \in Slot, NEW w, NEW o \in Int,
         <<o, w>> \in task[n][s].todo
  PROVE  LET p == task[n][s].part
         IN  /\ p \in Partition /\ <<p, o>> \in fetched
             /\ o \in 0 .. Len(log[p]) - 1 /\ log[p][o + 1].ticket \in Ticket \cup {None}
             /\ p \notin doubled => \A j \in Int : (o < j /\ <<p, j>> \in fetched) =>
                   <<p, o, j>> \in together \/ <<p, o>> \in late
  <1> DEFINE p == task[n][s].part
             x == <<o, w>>
  <1>1. TypeOK /\ HistorySound /\ TodoSound(n, s) /\ NewestToDo(n, s)
    BY DEF IInv, OrderInv
  <1>2. x[1] = o /\ x \in task[n][s].todo
    OBVIOUS
  <1>3. <<p, o>> \in fetched
    BY <1>1, <1>2 DEF TodoSound
  <1>4. p \in Partition /\ o \in 0 .. Len(log[p]) - 1
    <2> DEFINE y == <<p, o>>
    <2>1. y \in fetched /\ y[1] = p /\ y[2] = o
      BY <1>3
    <2> HIDE DEF y, p
    <2> QED BY <1>1, <2>1 DEF HistorySound
  <1>5. log[p][o + 1].ticket \in Ticket \cup {None}
    <2>1. log[p] \in Seq(Record)
      BY <1>1, <1>4 DEF TypeOK
    <2> QED BY <1>4, <2>1, TicketOf
  <1>6. ASSUME p \notin doubled, NEW j \in Int, o < j, <<p, j>> \in fetched
        PROVE  <<p, o, j>> \in together \/ <<p, o>> \in late
    <2> DEFINE y == <<p, j>>
    <2>1. y \in fetched /\ y[1] = p /\ y[2] = j
      BY <1>6
    <2> HIDE DEF x, y
    <2>2. <<p, x[1], y[2]>> \in together \/ <<p, x[1]>> \in late
      BY <1>1, <1>2, <1>6, <2>1 DEF NewestToDo
    <2> QED BY <1>2, <2>1, <2>2
  <1> QED BY <1>3, <1>4, <1>5, <1>6

\* What a step for a record does to its task.
LEMMA TodoStep ==
  ASSUME TypeOK, NEW n \in Node, NEW s \in Slot, NEW todo \in SUBSET (Int \X {"row", "etdr"}),
         Step(n, s, [task[n][s] EXCEPT !.todo = todo])
  PROVE  /\ Alone(n, s) /\ task'[n][s].todo = todo
         /\ task'[n][s].pc = task[n][s].pc /\ task'[n][s].part = task[n][s].part
  <1> DEFINE t == task[n][s]
             u == [t EXCEPT !.todo = todo]
  <1>1. t \in Task
    BY DEF TypeOK
  <1>2. u \in Task /\ u.pc = t.pc /\ u.part = t.part /\ u.todo = todo
    BY <1>1 DEF Task
  <1>3. Step(n, s, u)
    OBVIOUS
  <1> HIDE DEF u
  <1>4. task'[n][s] = u /\ Alone(n, s)
    BY <1>2, <1>3, StepTyped
  <1> QED BY <1>2, <1>4

\* What UpdateRow does to the row, and to the work of its task.
LEMMA RowFacts ==
  ASSUME IInv, NEW n \in Node, NEW s \in Slot, UpdateRow(n, s)
  PROVE  \E o \in Int :
            /\ <<o, "row">> \in task[n][s].todo /\ Alone(n, s)
            /\ task'[n][s].pc = task[n][s].pc /\ task'[n][s].part = task[n][s].part
            /\ \A x \in task'[n][s].todo : \E y \in task[n][s].todo : y[1] = x[1]
            /\ \/ /\ row' = [row EXCEPT ![log[task[n][s].part][o + 1].ticket] =
                                        <<task[n][s].part, o>>]
                  /\ stored' = stored \cup {<<task[n][s].part, o>>}
               \/ UNCHANGED <<row, stored>>
  <1> DEFINE t == task[n][s]
             Todo(o) == (t.todo \ {<<o, "row">>}) \cup {<<o, "etdr">>}
             Written(o) ==
                \/ /\ row' = [row EXCEPT ![log[t.part][o + 1].ticket] = <<t.part, o>>]
                   /\ stored' = stored \cup {<<t.part, o>>}
                \/ UNCHANGED <<row, stored>>
  <1>1. TypeOK /\ t.todo \in SUBSET (Int \X {"row", "etdr"})
    <2>1. TypeOK /\ t \in Task
      BY TaskOf, Zenon
    <2> QED BY <2>1 DEF Task
  <1>2. \E o \in 0 .. MaxLog : /\ <<o, "row">> \in t.todo
                               /\ Step(n, s, [t EXCEPT !.todo = Todo(o)])
                               /\ Written(o)
    BY Zenon DEF UpdateRow
  <1> HIDE DEF Written
  <1>3. ASSUME NEW o \in 0 .. MaxLog, <<o, "row">> \in t.todo,
               Step(n, s, [t EXCEPT !.todo = Todo(o)]), Written(o)
        PROVE  /\ o \in Int /\ Alone(n, s)
               /\ task'[n][s].pc = t.pc /\ task'[n][s].part = t.part
               /\ \A x \in task'[n][s].todo : \E y \in t.todo : y[1] = x[1]
    <2> DEFINE todo == Todo(o)
    <2>1. todo \in SUBSET (Int \X {"row", "etdr"})
      BY <1>1, <1>3
    <2>2. \A x \in todo : \E y \in t.todo : y[1] = x[1]
      BY <1>3
    <2>3. Step(n, s, [t EXCEPT !.todo = todo])
      BY <1>3, Zenon
    <2> HIDE DEF todo
    <2>4. /\ Alone(n, s) /\ task'[n][s].todo = todo
          /\ task'[n][s].pc = t.pc /\ task'[n][s].part = t.part
      BY <1>1, <2>1, <2>3, TodoStep
    <2> QED BY <2>2, <2>4
  <1> HIDE DEF Todo
  <1> QED BY <1>2, <1>3, Zenon DEF Written

\* UpdateRow: the record that is written was the newest, or it was late or in one batch
\* with a newer one.
LEMMA RowOrder ==
  ASSUME IInv, IInv', OrderInv, NEW n \in Node, NEW s \in Slot, UpdateRow(n, s)
  PROVE  OrderInv'
  <1> DEFINE p == task[n][s].part
  <1>2. UNCHANGED <<log, etdr, tried, fetched, together, late, doubled>>
    BY Zenon DEF UpdateRow, topic
  <1>3. TypeOK /\ HistorySound /\ NewestHubIdWins
    BY DEF IInv, OrderInv
  <1>1. PICK o \in Int :
          /\ <<o, "row">> \in task[n][s].todo /\ Alone(n, s)
          /\ task'[n][s].pc = task[n][s].pc /\ task'[n][s].part = task[n][s].part
          /\ \A x \in task'[n][s].todo : \E y \in task[n][s].todo : y[1] = x[1]
          /\ \/ /\ row' = [row EXCEPT ![log[p][o + 1].ticket] = <<p, o>>]
                /\ stored' = stored \cup {<<p, o>>}
             \/ UNCHANGED <<row, stored>>
    BY RowFacts, Zenon
  <1> DEFINE k == log[p][o + 1].ticket
  <1>4. /\ p \in Partition /\ <<p, o>> \in fetched
        /\ o \in 0 .. Len(log[p]) - 1 /\ k \in Ticket \cup {None}
        /\ p \notin doubled => \A j \in Int : (o < j /\ <<p, j>> \in fetched) =>
              <<p, o, j>> \in together \/ <<p, o>> \in late
    BY <1>1, NowInOrder, ZenonT(40)
  <1>7. DoubledSeen' /\ \A m \in Node, q \in Slot : TodoSound(m, q)' /\ NewestToDo(m, q)'
    BY <1>1, <1>2, WorkOrder
  <1>9. /\ k = log[p][o + 1].ticket
        /\ \/ row' = [row EXCEPT ![k] = <<p, o>>] /\ stored' = stored \cup {<<p, o>>}
           \/ UNCHANGED <<row, stored>>
    BY <1>1, Zenon
  <1> HIDE DEF p, k
  <1>10. HistorySound'
    <2>1. stored' \subseteq fetched
      <3>1. stored \subseteq fetched
        BY <1>3 DEF HistorySound
      <3> QED BY <1>4, <1>9, <3>1
    <2> QED BY <1>2, <1>3, <2>1 DEF HistorySound
  <1>11. NewestHubIdWins'
    <2> SUFFICES ASSUME NEW r \in Partition \ doubled', NEW i \in 0 .. Len(log'[r]) - 1,
                        NEW j \in 0 .. Len(log'[r]) - 1
                 PROVE  Newest(r, i, j, log[r][i + 1].ticket)'
      BY Zenon DEF NewestHubIdWins, Newest
    <2>0. /\ r \in Partition \ doubled /\ i \in 0 .. Len(log[r]) - 1
          /\ j \in 0 .. Len(log[r]) - 1 /\ log'[r] = log[r]
      BY <1>2
    <2> DEFINE h == log'[r][i + 1].ticket
    <2> SUFFICES ASSUME i < j, h # None, log'[r][j + 1].ticket = h,
                        <<r, i, j>> \notin together, <<r, i>> \notin late
                 PROVE  /\ row'[h] = <<r, i>> => <<r, j>> \notin stored'
                        /\ \A m \in Node : etdr'[m][h] = <<r, i>> => <<r, j>> \notin tried'[m]
      BY <1>2, Zenon DEF Newest
    <2>a. h = log[r][i + 1].ticket /\ log[r][j + 1].ticket = h
      BY <2>0
    <2> HIDE DEF h
    <2>1. /\ row[h] = <<r, i>> => <<r, j>> \notin stored
          /\ \A m \in Node : etdr[m][h] = <<r, i>> => <<r, j>> \notin tried[m]
      <3>1. Newest(r, i, j, h)
        BY <1>3, <2>0, <2>a, NewestOf
      <3> QED BY <2>0, <2>a, <3>1, Zenon DEF Newest
    <2>2. CASE UNCHANGED <<row, stored>>
      BY <1>2, <2>1, <2>2
    <2>3. CASE row' = [row EXCEPT ![k] = <<p, o>>] /\ stored' = stored \cup {<<p, o>>}
      <3>1. h \in Ticket /\ row \in [Ticket -> HubId]
        <4>1. log[r] \in Seq(Record) /\ row \in [Ticket -> HubId]
          BY <1>3, <2>0 DEF TypeOK
        <4>2. h \in Ticket \cup {None}
          BY <2>0, <2>a, <4>1, TicketOf
        <4> QED BY <4>1, <4>2
      <3>2. row'[h] = IF h = k THEN <<p, o>> ELSE row[h]
        BY <2>3, <3>1
      <3>3. SUFFICES ASSUME row'[h] = <<r, i>>, <<r, j>> \in stored' PROVE FALSE
        BY <1>2, <2>1
      <3>4. CASE h = k
        <4>1. r = p /\ i = o
          BY <3>2, <3>3, <3>4
        <4>2. <<p, j>> \in stored
          BY <2>3, <3>3, <4>1
        <4>3. <<p, j>> \in fetched
          BY <1>3, <4>2 DEF HistorySound
        <4>4. j \in Int /\ o < j
          BY <2>0, <4>1
        <4> QED BY <1>4, <2>0, <4>1, <4>3, <4>4
      <3>5. CASE h # k
        <4>1. row[h] = <<r, i>>
          BY <3>2, <3>3, <3>5
        <4>2. <<r, j>> # <<p, o>>
          BY <1>9, <2>a, <3>5
        <4> QED BY <2>1, <2>3, <3>3, <4>1, <4>2
      <3> QED BY <3>4, <3>5
    <2> QED BY <1>9, <2>2, <2>3
  <1> QED BY <1>7, <1>10, <1>11 DEF OrderInv

\* What UpdateEtdr does to the memory of its pod, and to the work of its task.
LEMMA EtdrFacts ==
  ASSUME IInv, NEW n \in Node, NEW s \in Slot, UpdateEtdr(n, s)
  PROVE  \E o \in Int :
            /\ <<o, "etdr">> \in task[n][s].todo /\ Alone(n, s)
            /\ task'[n][s].pc = task[n][s].pc /\ task'[n][s].part = task[n][s].part
            /\ task'[n][s].todo \subseteq task[n][s].todo
            /\ LET k == log[task[n][s].part][o + 1].ticket
               IN  etdr' = IF <<n, k>> \in Cached
                           THEN [etdr EXCEPT ![n][k] = <<task[n][s].part, o>>] ELSE etdr
            /\ tried' = [tried EXCEPT ![n] = @ \cup {<<task[n][s].part, o>>}]
  <1> DEFINE t == task[n][s]
             Todo(o) == t.todo \ {<<o, "etdr">>}
             Written(o) ==
                /\ LET k == log[t.part][o + 1].ticket
                   IN  etdr' = IF <<n, k>> \in Cached
                               THEN [etdr EXCEPT ![n][k] = <<t.part, o>>] ELSE etdr
                /\ tried' = [tried EXCEPT ![n] = @ \cup {<<t.part, o>>}]
  <1>1. TypeOK /\ t.todo \in SUBSET (Int \X {"row", "etdr"})
    <2>1. TypeOK /\ t \in Task
      BY TaskOf, Zenon
    <2> QED BY <2>1 DEF Task
  <1>2. \E o \in 0 .. MaxLog : /\ <<o, "etdr">> \in t.todo
                               /\ Step(n, s, [t EXCEPT !.todo = Todo(o)])
                               /\ Written(o)
    BY Zenon DEF UpdateEtdr
  <1> HIDE DEF Written
  <1>3. ASSUME NEW o \in 0 .. MaxLog, Step(n, s, [t EXCEPT !.todo = Todo(o)])
        PROVE  /\ o \in Int /\ Alone(n, s)
               /\ task'[n][s].pc = t.pc /\ task'[n][s].part = t.part
               /\ task'[n][s].todo \subseteq t.todo
    <2> DEFINE todo == Todo(o)
    <2>1. todo \in SUBSET (Int \X {"row", "etdr"}) /\ todo \subseteq t.todo
      BY <1>1
    <2>2. Step(n, s, [t EXCEPT !.todo = todo])
      BY <1>3, Zenon
    <2> HIDE DEF todo
    <2>3. /\ Alone(n, s) /\ task'[n][s].todo = todo
          /\ task'[n][s].pc = t.pc /\ task'[n][s].part = t.part
      BY <1>1, <2>1, <2>2, TodoStep
    <2> QED BY <2>1, <2>3
  <1> HIDE DEF Todo
  <1> QED BY <1>2, <1>3, Zenon DEF Written

\* UpdateEtdr: as UpdateRow, for the memory of one pod.
LEMMA EtdrOrder ==
  ASSUME IInv, IInv', OrderInv, NEW n \in Node, NEW s \in Slot, UpdateEtdr(n, s)
  PROVE  OrderInv'
  <1> DEFINE p == task[n][s].part
  <1>2. UNCHANGED <<log, row, stored, fetched, together, late, doubled>>
    BY Zenon DEF UpdateEtdr, topic
  <1>3. TypeOK /\ HistorySound /\ NewestHubIdWins
    BY DEF IInv, OrderInv
  <1>1. PICK o \in Int :
          /\ <<o, "etdr">> \in task[n][s].todo /\ Alone(n, s)
          /\ task'[n][s].pc = task[n][s].pc /\ task'[n][s].part = task[n][s].part
          /\ task'[n][s].todo \subseteq task[n][s].todo
          /\ LET k == log[p][o + 1].ticket
             IN  etdr' = IF <<n, k>> \in Cached
                         THEN [etdr EXCEPT ![n][k] = <<p, o>>] ELSE etdr
          /\ tried' = [tried EXCEPT ![n] = @ \cup {<<p, o>>}]
    BY EtdrFacts, Zenon
  <1> DEFINE k == log[p][o + 1].ticket
  <1>4. /\ p \in Partition /\ <<p, o>> \in fetched
        /\ o \in 0 .. Len(log[p]) - 1 /\ k \in Ticket \cup {None}
        /\ p \notin doubled => \A j \in Int : (o < j /\ <<p, j>> \in fetched) =>
              <<p, o, j>> \in together \/ <<p, o>> \in late
    BY <1>1, NowInOrder, Zenon
  <1>5. \A x \in task'[n][s].todo : \E y \in task[n][s].todo : y[1] = x[1]
    BY <1>1
  <1>7. DoubledSeen' /\ \A m \in Node, q \in Slot : TodoSound(m, q)' /\ NewestToDo(m, q)'
    BY <1>1, <1>2, <1>5, WorkOrder
  <1>8. /\ k = log[p][o + 1].ticket
        /\ etdr' = IF <<n, k>> \in Cached THEN [etdr EXCEPT ![n][k] = <<p, o>>] ELSE etdr
        /\ tried' = [tried EXCEPT ![n] = @ \cup {<<p, o>>}]
    BY <1>1, Zenon
  <1>9. /\ etdr \in [Node -> [Ticket -> HubId]]
        /\ tried \in [Node -> SUBSET ((Partition \cup {None}) \X Int)]
    BY <1>3 DEF TypeOK
  <1> HIDE DEF p, k
  <1>12. ASSUME NEW m \in Node, NEW h \in Ticket
         PROVE  \/ etdr'[m][h] = etdr[m][h] /\ ~(m = n /\ h = k /\ <<n, k>> \in Cached)
                \/ m = n /\ h = k /\ <<n, k>> \in Cached /\ etdr'[m][h] = <<p, o>>
    <2> DEFINE v == <<p, o>>
    <2>1. etdr' = IF <<n, k>> \in Cached THEN [etdr EXCEPT ![n][k] = v] ELSE etdr
      BY <1>8
    <2> HIDE DEF v
    <2>2. \/ etdr'[m][h] = etdr[m][h] /\ ~(m = n /\ h = k /\ <<n, k>> \in Cached)
          \/ m = n /\ h = k /\ <<n, k>> \in Cached /\ etdr'[m][h] = v
      BY <1>9, <2>1
    <2> QED BY <2>2 DEF v
  <1>13. ASSUME NEW m \in Node
         PROVE  tried'[m] = tried[m] \/ (m = n /\ tried'[m] = tried[m] \cup {<<p, o>>})
    BY <1>8, <1>9
  <1>10. HistorySound'
    <2>1. ASSUME NEW m \in Node PROVE tried'[m] \subseteq fetched
      <3>1. tried[m] \subseteq fetched
        BY <1>3 DEF HistorySound
      <3> QED BY <1>4, <1>13, <3>1
    <2>2. ASSUME NEW m \in Node, NEW h \in Ticket, etdr'[m][h] # NoHub PROVE <<m, h>> \in Cached
      <3>1. etdr[m][h] # NoHub => <<m, h>> \in Cached
        BY <1>3 DEF HistorySound
      <3> QED BY <1>12, <2>2, <3>1
    <2>3. /\ stored \subseteq fetched
          /\ \A x \in fetched : x[1] \in Partition /\ x[2] \in 0 .. Len(log[x[1]]) - 1
      BY <1>3 DEF HistorySound
    <2> QED BY <1>2, <2>1, <2>2, <2>3 DEF HistorySound
  <1>11. NewestHubIdWins'
    <2> SUFFICES ASSUME NEW r \in Partition \ doubled', NEW i \in 0 .. Len(log'[r]) - 1,
                        NEW j \in 0 .. Len(log'[r]) - 1
                 PROVE  Newest(r, i, j, log[r][i + 1].ticket)'
      BY Zenon DEF NewestHubIdWins, Newest
    <2>0. /\ r \in Partition \ doubled /\ i \in 0 .. Len(log[r]) - 1
          /\ j \in 0 .. Len(log[r]) - 1 /\ log'[r] = log[r]
      BY <1>2
    <2> DEFINE h == log'[r][i + 1].ticket
    <2> SUFFICES ASSUME i < j, h # None, log'[r][j + 1].ticket = h,
                        <<r, i, j>> \notin together, <<r, i>> \notin late
                 PROVE  /\ row'[h] = <<r, i>> => <<r, j>> \notin stored'
                        /\ \A m \in Node : etdr'[m][h] = <<r, i>> => <<r, j>> \notin tried'[m]
      BY <1>2, Zenon DEF Newest
    <2>a. h = log[r][i + 1].ticket /\ log[r][j + 1].ticket = h
      BY <2>0
    <2> HIDE DEF h
    <2>1. /\ row[h] = <<r, i>> => <<r, j>> \notin stored
          /\ \A m \in Node : etdr[m][h] = <<r, i>> => <<r, j>> \notin tried[m]
      <3>1. Newest(r, i, j, h)
        BY <1>3, <2>0, <2>a, NewestOf
      <3> QED BY <2>0, <2>a, <3>1, Zenon DEF Newest
    <2>2. h \in Ticket
      <3>1. log[r] \in Seq(Record)
        BY <1>3, <2>0 DEF TypeOK
      <3>2. h \in Ticket \cup {None}
        BY <2>0, <2>a, <3>1, TicketOf
      <3> QED BY <3>2
    <2>3. ASSUME NEW m \in Node, etdr'[m][h] = <<r, i>>, <<r, j>> \in tried'[m] PROVE FALSE
      <3>1. CASE m = n /\ h = k /\ <<n, k>> \in Cached
        <4>1. r = p /\ i = o
          BY <1>12, <2>2, <2>3, <3>1
        <4>2. <<p, j>> \in tried'[m] /\ j \in Int /\ o < j
          BY <2>0, <2>3, <4>1
        <4>3. <<p, j>> \in fetched
          BY <1>10, <1>2, <4>2 DEF HistorySound
        <4> QED BY <1>4, <2>0, <4>1, <4>2, <4>3
      <3>2. CASE ~(m = n /\ h = k /\ <<n, k>> \in Cached)
        <4>1. etdr[m][h] = <<r, i>>
          BY <1>12, <2>2, <2>3, <3>2
        <4>2. <<m, h>> \in Cached
          <5>1. <<r, i>> # NoHub
            BY <2>0 DEF NoHub, NoOffset
          <5> QED BY <1>3, <2>2, <4>1, <5>1 DEF HistorySound
        <4>3. <<r, j>> \notin tried[m]
          BY <2>1, <4>1
        <4>4. m = n /\ r = p /\ j = o
          BY <1>13, <2>3, <4>3
        <4>5. h = k
          BY <1>8, <2>a, <4>4
        <4> QED BY <3>2, <4>2, <4>4, <4>5
      <3> QED BY <3>1, <3>2
    <2> QED BY <1>2, <2>1, <2>3
  <1> QED BY <1>7, <1>10, <1>11 DEF OrderInv

-----------------------------------------------------------------------------
(* The theorem about the order *)

LEMMA InitOrder == Init => OrderInv
  <1> SUFFICES ASSUME Init PROVE OrderInv
    OBVIOUS
  <1>1. /\ task = [n \in Node |-> [s \in Slot |-> Idle]] /\ tried = [n \in Node |-> {}]
        /\ etdr = [n \in Node |-> [t \in Ticket |-> NoHub]]
        /\ stored = {} /\ fetched = {}
    BY DEF Init
  <1>2. ASSUME NEW n \in Node, NEW s \in Slot
        PROVE  task[n][s].todo = {} /\ task[n][s].pc = "none"
    BY <1>1 DEF Idle
  <1>3. HistorySound
    BY <1>1 DEF HistorySound
  <1>4. DoubledSeen
    BY <1>2 DEF DoubledSeen
  <1>5. \A n \in Node, s \in Slot : TodoSound(n, s) /\ NewestToDo(n, s)
    BY <1>2 DEF TodoSound, NewestToDo
  <1>6. NewestHubIdWins
    <2>1. \A x : x \notin stored
      BY <1>1
    <2>2. \A n \in Node : \A x : x \notin tried[n]
      BY <1>1
    <2> QED BY <2>1, <2>2, Zenon DEF NewestHubIdWins
  <1> QED BY <1>3, <1>4, <1>5, <1>6 DEF OrderInv

LEMMA NextOrder ==
  ASSUME IInv, OrderInv, [Next]_vars
  PROVE  OrderInv'
  <1>0. IInv' /\ TypeOK /\ TypeOK'
    <2>1. IInv'
      BY NextHub
    <2> QED BY <2>1 DEF IInv
  <1>1. CASE Produce
    BY <1>0, <1>1, ProduceOrder
  <1>2. CASE ChangeMeta \/ Expire \/ UNCHANGED vars
    BY <1>0, <1>2, BrokerOrder
  <1>3. ASSUME NEW n \in Node, Acquire(n) \/ Renew(n) \/ StartFails(n) \/ Break(n)
        PROVE  OrderInv'
    BY <1>0, <1>3, BrokerOrder
  <1>4. ASSUME NEW n \in Node, StartConsumers(n) \/ Redetect(n) PROVE OrderInv'
    BY <1>0, <1>4, SpawnOrder
  <1>5. ASSUME NEW n \in Node, Crash(n) PROVE OrderInv'
    BY <1>0, <1>5, CrashOrder
  <1>6. ASSUME NEW n \in Node, NEW s \in Slot, TaskStep(n, s) PROVE OrderInv'
    BY <1>0, <1>6, BeginOrder, FetchOrder, ErrorOrder, RowOrder, EtdrOrder, SaveOrder DEF TaskStep
  <1> QED BY <1>1, <1>2, <1>3, <1>4, <1>5, <1>6 DEF Next

\* The row and the cached ETDR of a ticket hold the hub id of its newest message that
\* reached them, unless two of its messages were in one batch, the older one was fetched
\* after a later one, or the partition once had two readers: nothing else takes a ticket
\* back to an older hub id (update_hub_id writes without comparing).
THEOREM NewestAlwaysWins == Spec => []NewestHubIdWins
  <1>1. IInv /\ OrderInv => NewestHubIdWins
    BY DEF OrderInv
  <1> QED BY <1>1, InitHub, InitOrder, NextHub, NextOrder, PTL DEF Spec
=============================================================================
