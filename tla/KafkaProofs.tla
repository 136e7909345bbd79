----------------------------- MODULE KafkaProofs -----------------------------
(***************************************************************************)
(* No event vanishes on its way to Kafka, for any events and any sizes of  *)
(* queues, batches and lists.                                              *)
(***************************************************************************)
EXTENDS KafkaProducer, TLAPS

-----------------------------------------------------------------------------
(* Sequences and the sets of their elements *)

\* Appending adds one element.
LEMMA AppendSet ==
  ASSUME NEW S, NEW s \in Seq(S), NEW e \in S
  PROVE  /\ Append(s, e) \in Seq(S)
         /\ Len(Append(s, e)) = Len(s) + 1
         /\ ToSet(Append(s, e)) = ToSet(s) \cup {e}
  <1>1. Append(s, e) \in Seq(S) /\ Len(Append(s, e)) = Len(s) + 1
    OBVIOUS
  <1>2. ASSUME NEW x \in ToSet(Append(s, e)) PROVE x \in ToSet(s) \cup {e}
    BY DEF ToSet
  <1>3. e \in ToSet(Append(s, e))
    <2>1. Append(s, e)[Len(s) + 1] = e /\ Len(s) + 1 \in DOMAIN Append(s, e)
      OBVIOUS
    <2> QED BY <2>1 DEF ToSet
  <1>4. ASSUME NEW i \in DOMAIN s PROVE s[i] \in ToSet(Append(s, e))
    <2>1. Append(s, e)[i] = s[i] /\ i \in DOMAIN Append(s, e)
      OBVIOUS
    <2> QED BY <2>1 DEF ToSet
  <1>5. ToSet(s) \subseteq ToSet(Append(s, e))
    BY <1>4 DEF ToSet
  <1> QED BY <1>1, <1>2, <1>3, <1>5

\* A sequence has its head and the elements of its tail.
LEMMA HeadTailSet ==
  ASSUME NEW S, NEW s \in Seq(S), s # <<>>
  PROVE  /\ Head(s) \in S /\ Tail(s) \in Seq(S)
         /\ Len(s) > 0 /\ Len(Tail(s)) = Len(s) - 1
         /\ Head(s) \in ToSet(s)
         /\ ToSet(s) = {Head(s)} \cup ToSet(Tail(s))
  <1>1. /\ Head(s) \in S /\ Tail(s) \in Seq(S)
        /\ Len(s) > 0 /\ Len(Tail(s)) = Len(s) - 1
    OBVIOUS
  <1>2. Head(s) = s[1] /\ 1 \in DOMAIN s
    OBVIOUS
  <1>3. Head(s) \in ToSet(s)
    BY <1>2 DEF ToSet
  <1>4. ASSUME NEW i \in DOMAIN Tail(s) PROVE Tail(s)[i] \in ToSet(s)
    <2>1. Tail(s)[i] = s[i + 1] /\ i + 1 \in DOMAIN s
      OBVIOUS
    <2> QED BY <2>1 DEF ToSet
  <1>5. ASSUME NEW i \in DOMAIN s PROVE s[i] \in {Head(s)} \cup ToSet(Tail(s))
    <2>1. CASE i = 1
      BY <2>1, <1>2
    <2>2. CASE i # 1
      <3>1. Tail(s)[i - 1] = s[i] /\ i - 1 \in DOMAIN Tail(s)
        BY <2>2
      <3> QED BY <3>1 DEF ToSet
    <2> QED BY <2>1, <2>2
  <1>6. ToSet(Tail(s)) \subseteq ToSet(s)
    BY <1>4 DEF ToSet
  <1>7. ToSet(s) \subseteq {Head(s)} \cup ToSet(Tail(s))
    BY <1>5 DEF ToSet
  <1> QED BY <1>1, <1>3, <1>6, <1>7

\* A concatenation has the elements of both.
LEMMA ConcatSet ==
  ASSUME NEW S, NEW s \in Seq(S), NEW t \in Seq(S)
  PROVE  s \o t \in Seq(S) /\ ToSet(s \o t) = ToSet(s) \cup ToSet(t)
  <1>1. s \o t \in Seq(S) /\ Len(s \o t) = Len(s) + Len(t)
    OBVIOUS
  <1>2. ASSUME NEW i \in DOMAIN s PROVE s[i] \in ToSet(s \o t)
    <2>1. (s \o t)[i] = s[i] /\ i \in DOMAIN (s \o t)
      OBVIOUS
    <2> QED BY <2>1 DEF ToSet
  <1>3. ASSUME NEW i \in DOMAIN t PROVE t[i] \in ToSet(s \o t)
    <2>1. (s \o t)[Len(s) + i] = t[i] /\ Len(s) + i \in DOMAIN (s \o t)
      OBVIOUS
    <2> QED BY <2>1 DEF ToSet
  <1>4. ASSUME NEW i \in DOMAIN (s \o t) PROVE (s \o t)[i] \in ToSet(s) \cup ToSet(t)
    <2>1. CASE i <= Len(s)
      <3>1. (s \o t)[i] = s[i] /\ i \in DOMAIN s
        BY <2>1
      <3> QED BY <3>1 DEF ToSet
    <2>2. CASE i > Len(s)
      <3>1. (s \o t)[i] = t[i - Len(s)] /\ i - Len(s) \in DOMAIN t
        BY <2>2
      <3> QED BY <3>1 DEF ToSet
    <2> QED BY <2>1, <2>2
  <1>5. ToSet(s) \subseteq ToSet(s \o t) /\ ToSet(t) \subseteq ToSet(s \o t)
    BY <1>2, <1>3 DEF ToSet
  <1>6. ToSet(s \o t) \subseteq ToSet(s) \cup ToSet(t)
    BY <1>4 DEF ToSet
  <1> QED BY <1>1, <1>5, <1>6

\* A part of a sequence has elements of the sequence.
LEMMA PartSet ==
  ASSUME NEW S, NEW s \in Seq(S), NEW m \in 1..(Len(s) + 1), NEW n \in 0..Len(s)
  PROVE  /\ SubSeq(s, m, n) \in Seq(S)
         /\ ToSet(SubSeq(s, m, n)) \subseteq ToSet(s)
  <1>1. SubSeq(s, m, n) \in Seq(S)
    OBVIOUS
  <1>2. ASSUME NEW i \in DOMAIN SubSeq(s, m, n) PROVE SubSeq(s, m, n)[i] \in ToSet(s)
    <2>1. SubSeq(s, m, n)[i] = s[m + i - 1] /\ m + i - 1 \in DOMAIN s
      OBVIOUS
    <2> QED BY <2>1 DEF ToSet
  <1> QED BY <1>1, <1>2 DEF ToSet

\* Cut in two, nothing is lost.
LEMMA SplitSet ==
  ASSUME NEW S, NEW s \in Seq(S), NEW n \in 0..Len(s)
  PROVE  ToSet(s) = ToSet(SubSeq(s, 1, n)) \cup ToSet(SubSeq(s, n + 1, Len(s)))
  <1>1. ASSUME NEW i \in DOMAIN s
        PROVE  s[i] \in ToSet(SubSeq(s, 1, n)) \cup ToSet(SubSeq(s, n + 1, Len(s)))
    <2>1. CASE i <= n
      <3>1. SubSeq(s, 1, n)[i] = s[i] /\ i \in DOMAIN SubSeq(s, 1, n)
        BY <2>1
      <3> QED BY <3>1 DEF ToSet
    <2>2. CASE i > n
      <3>1. SubSeq(s, n + 1, Len(s))[i - n] = s[i] /\ i - n \in DOMAIN SubSeq(s, n + 1, Len(s))
        BY <2>2
      <3> QED BY <3>1 DEF ToSet
    <2> QED BY <2>1, <2>2
  <1>2. ToSet(s) \subseteq ToSet(SubSeq(s, 1, n)) \cup ToSet(SubSeq(s, n + 1, Len(s)))
    BY <1>1 DEF ToSet
  <1>3. /\ ToSet(SubSeq(s, 1, n)) \subseteq ToSet(s)
        /\ ToSet(SubSeq(s, n + 1, Len(s))) \subseteq ToSet(s)
    BY PartSet
  <1> QED BY <1>2, <1>3

-----------------------------------------------------------------------------
(* The queues *)

\* AppendSet, for the events.
LEMMA AppendEvent ==
  \A t \in Seq(Event), e \in Event :
     /\ Append(t, e) \in Seq(Event)
     /\ Len(Append(t, e)) = Len(t) + 1
     /\ ToSet(Append(t, e)) = ToSet(t) \cup {e}
  BY AppendSet

\* A push keeps the bound, and what it does not keep it drops.
LEMMA PushSet ==
  ASSUME NEW q \in Seq(Event), Len(q) <= Capacity, NEW e \in Event
  PROVE  /\ PushDropOldest(q, e) \in Seq(Event)
         /\ Len(PushDropOldest(q, e)) <= Capacity
         /\ DroppedBy(q) \subseteq Event
         /\ e \in ToSet(PushDropOldest(q, e))
         /\ ToSet(q) \subseteq ToSet(PushDropOldest(q, e)) \cup DroppedBy(q)
  <1>0. Capacity \in Nat \ {0}
    BY KafkaAssumption
  <1>1. CASE Len(q) >= Capacity
    <2>1. q # <<>>
      BY <1>0, <1>1
    <2>2. /\ PushDropOldest(q, e) = Append(Tail(q), e) /\ DroppedBy(q) = {Head(q)}
          /\ Tail(q) \in Seq(Event) /\ Head(q) \in Event /\ Len(Tail(q)) = Len(q) - 1
          /\ ToSet(q) = {Head(q)} \cup ToSet(Tail(q))
      BY <1>1, <2>1, HeadTailSet DEF PushDropOldest, DroppedBy
    <2>3. /\ Append(Tail(q), e) \in Seq(Event)
          /\ Len(Append(Tail(q), e)) = Len(q)
          /\ ToSet(Append(Tail(q), e)) = ToSet(Tail(q)) \cup {e}
      <3> DEFINE t == Tail(q)
      <3>0. t \in Seq(Event)
        BY <2>2
      <3> HIDE DEF t
      <3>1. /\ Append(t, e) \in Seq(Event)
            /\ Len(Append(t, e)) = Len(t) + 1
            /\ ToSet(Append(t, e)) = ToSet(t) \cup {e}
        BY <3>0, AppendEvent
      <3>2. Len(q) \in Nat
        OBVIOUS
      <3> QED BY <3>1, <3>2, <2>2 DEF t
    <2> QED BY <2>2, <2>3
  <1>2. CASE ~(Len(q) >= Capacity)
    <2>1. PushDropOldest(q, e) = Append(q, e) /\ DroppedBy(q) = {}
      BY <1>2 DEF PushDropOldest, DroppedBy
    <2>2. /\ Append(q, e) \in Seq(Event) /\ Len(Append(q, e)) = Len(q) + 1
          /\ ToSet(Append(q, e)) = ToSet(q) \cup {e}
      BY AppendSet
    <2>3. Len(q) + 1 <= Capacity
      BY <1>0, <1>2
    <2> QED BY <2>1, <2>2, <2>3
  <1> QED BY <1>1, <1>2

\* What is on its way or accounted for.
Way == Held \cup topic \cup dropped

\* An event is on its way in one of the eight places.
LEMMA HeldPlaces ==
  Held = ToSet(pending) \cup ToSet(moving) \cup ToSet(queue) \cup ToSet(hands)
            \cup ToSet(batch["checkin"]) \cup ToSet(batch["checkout"])
            \cup ToSet(list["checkin"]) \cup ToSet(list["checkout"])
  BY DEF Held, Places

\* An event that is accounted for stays so, as long as nothing is taken away.
LEMMA StillThere ==
  ASSUME NothingVanishes, Way \subseteq Way',
         handler' = handler, keydbFailures' = keydbFailures, crashes' = crashes
  PROVE  NothingVanishes'
  BY DEF NothingVanishes, Way

\* DropOldestQueue::push: the queue keeps its type and its bound, and the event and
\* all that was in the queue is in it or dropped.
LEMMA PushKeeps ==
  ASSUME TypeOK, NEW e \in Event, NEW pusher \in Event \cup {"init", "replay"},
         Push(pusher, e)
  PROVE  /\ queue' \in Seq(Event) /\ Len(queue') <= Capacity
         /\ permits' \in Nat /\ owed' \subseteq Event \cup {"init", "replay"}
         /\ dropped' \subseteq Event
         /\ dropped \subseteq dropped'
         /\ ToSet(queue) \cup {e} \subseteq ToSet(queue') \cup dropped'
  <1>1. /\ queue \in Seq(Event) /\ Len(queue) <= Capacity
        /\ permits \in Nat /\ owed \subseteq Event \cup {"init", "replay"}
        /\ dropped \subseteq Event
    BY DEF TypeOK
  <1>2. /\ PushDropOldest(queue, e) \in Seq(Event)
        /\ Len(PushDropOldest(queue, e)) <= Capacity
        /\ DroppedBy(queue) \subseteq Event
        /\ e \in ToSet(PushDropOldest(queue, e))
        /\ ToSet(queue) \subseteq ToSet(PushDropOldest(queue, e)) \cup DroppedBy(queue)
    BY <1>1, PushSet
  <1> QED BY <1>1, <1>2 DEF Push

\* The count of a batch, the sum of two lengths, is a number.
LEMMA SumInNat == \A m, n \in Nat : m + n \in Nat
  OBVIOUS

\* One more event of either kind is one more in the count.
LEMMA OneMore ==
  \A m, n \in Nat : (m + 1) + n = m + n + 1 /\ m + (n + 1) = m + n + 1
  OBVIOUS

\* When one kind is emptied the count does not grow.
LEMMA NoMore ==
  ASSUME NEW b \in Seq(Event), NEW c \in Seq(Event), NEW b2 \in Seq(Event), NEW c2 \in Seq(Event),
         NEW n \in Nat, Len(b) + Len(c) <= n, b2 \in {b, <<>>}, c2 \in {c, <<>>}
  PROVE  Len(b2) + Len(c2) <= n
  OBVIOUS

\* The worker puts an event into its batch, by kind.
LEMMA BatchGrows ==
  ASSUME TypeOK, NEW e \in Event,
         batch' = [batch EXCEPT ![KindOf(e)] = Append(@, e)]
  PROVE  /\ batch' \in [Kinds -> Seq(Event)]
         /\ BatchLen' = BatchLen + 1
         /\ \A k \in Kinds : ToSet(batch'[k]) \subseteq Of(k)
         /\ ToSet(batch'["checkin"]) \cup ToSet(batch'["checkout"])
              = ToSet(batch["checkin"]) \cup ToSet(batch["checkout"]) \cup {e}
  <1> DEFINE k == KindOf(e)
  <1>1. k \in Kinds /\ e \in Of(k)
    BY DEF KindOf, Kinds, Of, Event
  <1>2. /\ batch \in [Kinds -> Seq(Event)]
        /\ \A j \in Kinds : ToSet(batch[j]) \subseteq Of(j)
    BY DEF TypeOK
  <1>3. batch[k] \in Seq(Event)
    BY <1>1, <1>2
  <1>4. /\ Append(batch[k], e) \in Seq(Event)
        /\ Len(Append(batch[k], e)) = Len(batch[k]) + 1
        /\ ToSet(Append(batch[k], e)) = ToSet(batch[k]) \cup {e}
    BY <1>3, AppendSet
  <1>5. /\ batch' \in [Kinds -> Seq(Event)]
        /\ batch'[k] = Append(batch[k], e)
        /\ \A j \in Kinds \ {k} : batch'[j] = batch[j]
    BY <1>1, <1>2, <1>4
  <1> HIDE DEF k
  <1>6. ASSUME NEW j \in Kinds PROVE ToSet(batch'[j]) \subseteq Of(j)
    <2>1. CASE j = k BY <2>1, <1>1, <1>2, <1>4, <1>5
    <2>2. CASE j # k BY <2>2, <1>2, <1>5
    <2> QED BY <2>1, <2>2
  <1>7. k = "checkin" \/ k = "checkout"
    BY <1>1 DEF Kinds
  <1>8. /\ batch["checkin"] \in Seq(Event) /\ batch["checkout"] \in Seq(Event)
        /\ batch'["checkin"] \in Seq(Event) /\ batch'["checkout"] \in Seq(Event)
    BY <1>2, <1>5 DEF Kinds
  <1>9. CASE k = "checkin"
    <2>1. batch'["checkin"] = Append(batch["checkin"], e) /\ batch'["checkout"] = batch["checkout"]
      BY <1>5, <1>9 DEF Kinds
    <2>2. BatchLen' = BatchLen + 1
      <3>1. Len(batch'["checkin"]) = Len(batch["checkin"]) + 1
        BY <2>1, <1>4, <1>9
      <3>2. Len(batch'["checkin"]) + Len(batch'["checkout"])
              = Len(batch["checkin"]) + Len(batch["checkout"]) + 1
        <4>1. Len(batch["checkin"]) \in Nat /\ Len(batch["checkout"]) \in Nat
          BY <1>8
        <4> QED BY <4>1, <3>1, <2>1, OneMore, Zenon
      <3> QED BY <3>2 DEF BatchLen
    <2> QED BY <2>1, <2>2, <1>4, <1>5, <1>6, <1>9
  <1>10. CASE k = "checkout"
    <2>1. batch'["checkout"] = Append(batch["checkout"], e) /\ batch'["checkin"] = batch["checkin"]
      BY <1>5, <1>10 DEF Kinds
    <2>2. BatchLen' = BatchLen + 1
      <3>1. Len(batch'["checkout"]) = Len(batch["checkout"]) + 1
        BY <2>1, <1>4, <1>10
      <3>2. Len(batch'["checkin"]) + Len(batch'["checkout"])
              = Len(batch["checkin"]) + Len(batch["checkout"]) + 1
        <4>1. Len(batch["checkin"]) \in Nat /\ Len(batch["checkout"]) \in Nat
          BY <1>8
        <4> QED BY <4>1, <3>1, <2>1, OneMore, Zenon
      <3> QED BY <3>2 DEF BatchLen
    <2> QED BY <2>1, <2>2, <1>4, <1>5, <1>6, <1>10
  <1> QED BY <1>7, <1>9, <1>10

\* The worker is done with one kind of its batch.
LEMMA SettleKeeps ==
  ASSUME TypeOK, Settle
  PROVE  /\ SendKind \in Kinds /\ Sending \in Seq(Event)
         /\ ToSet(Sending) \subseteq Of(SendKind)
         /\ batch' \in [Kinds -> Seq(Event)] /\ BatchLen' <= BatchSize
         /\ \A k \in Kinds : ToSet(batch'[k]) \subseteq Of(k)
         /\ at' \in {"pop", "take", "fill", "send", "persist"}
         /\ at' \in {"pop", "take"} => batch' = Empty
         /\ attempt' \in 0..(MaxAttempts - 1)
         /\ ToSet(batch["checkin"]) \cup ToSet(batch["checkout"])
              \subseteq ToSet(batch'["checkin"]) \cup ToSet(batch'["checkout"]) \cup ToSet(Sending)
  <1> DEFINE k == SendKind
  <1>1. k \in Kinds /\ Sending = batch[k]
    BY DEF SendKind, Kinds, Sending
  <1>2. /\ batch \in [Kinds -> Seq(Event)] /\ BatchLen <= BatchSize
        /\ \A j \in Kinds : ToSet(batch[j]) \subseteq Of(j)
    BY DEF TypeOK
  <1>3. BatchSize \in Nat \ {0} /\ MaxAttempts \in Nat \ {0}
    BY KafkaAssumption
  <1>4. batch' = [batch EXCEPT ![k] = <<>>] /\ attempt' = 0
    BY DEF Settle
  <1>5. at' \in {"pop", "send"} /\ (at' = "pop" => batch' = Empty)
    BY DEF Settle
  <1> HIDE DEF k
  <1>6. <<>> \in Seq(Event) /\ Len(<<>>) = 0 /\ ToSet(<<>>) = {}
    BY DEF ToSet
  <1>7. /\ batch' \in [Kinds -> Seq(Event)] /\ batch'[k] = <<>>
        /\ \A j \in Kinds \ {k} : batch'[j] = batch[j]
    BY <1>1, <1>2, <1>4, <1>6
  <1>8. \A j \in Kinds : ToSet(batch'[j]) \subseteq Of(j)
    BY <1>2, <1>6, <1>7
  <1>9. /\ batch["checkin"] \in Seq(Event) /\ batch["checkout"] \in Seq(Event)
        /\ batch'["checkin"] \in Seq(Event) /\ batch'["checkout"] \in Seq(Event)
    BY <1>2, <1>7 DEF Kinds
  <1>10. k = "checkin" \/ k = "checkout"
    BY <1>1 DEF Kinds
  <1>11. /\ batch'["checkin"] = batch["checkin"] \/ (k = "checkin" /\ batch'["checkin"] = <<>>)
         /\ batch'["checkout"] = batch["checkout"] \/ (k = "checkout" /\ batch'["checkout"] = <<>>)
    BY <1>7, <1>10 DEF Kinds
  <1>12. BatchLen' <= BatchSize
    BY <1>2, <1>3, <1>9, <1>11, NoMore DEF BatchLen
  <1>13. ToSet(batch["checkin"]) \cup ToSet(batch["checkout"])
           \subseteq ToSet(batch'["checkin"]) \cup ToSet(batch'["checkout"]) \cup ToSet(batch[k])
    BY <1>11
  <1>14. attempt' \in 0..(MaxAttempts - 1)
    BY <1>3, <1>4
  <1>15. batch[k] \in Seq(Event) /\ ToSet(batch[k]) \subseteq Of(k)
    BY <1>1, <1>2
  <1>16. at' \in {"pop", "take"} => batch' = Empty
    BY <1>5
  <1> QED
    BY <1>1, <1>5, <1>7, <1>8, <1>12, <1>13, <1>14, <1>15, <1>16 DEF k

\* The least of three numbers.
LEMMA LeastOfThree ==
  ASSUME NEW a \in Nat, NEW b \in Nat, NEW c \in Nat
  PROVE  /\ Min({a, b, c}) \in Nat
         /\ Min({a, b, c}) <= a /\ Min({a, b, c}) <= b /\ Min({a, b, c}) <= c
  <1>1. \E x \in {a, b, c} : \A y \in {a, b, c} : x <= y
    <2>1. CASE a <= b /\ a <= c BY <2>1
    <2>2. CASE b <= a /\ b <= c BY <2>2
    <2>3. CASE c <= a /\ c <= b BY <2>3
    <2> QED BY <2>1, <2>2, <2>3
  <1>2. Min({a, b, c}) \in {a, b, c} /\ \A y \in {a, b, c} : Min({a, b, c}) <= y
    BY <1>1 DEF Min
  <1> QED BY <1>2

-----------------------------------------------------------------------------
(* Every step keeps IInv *)

\* The places after a step.
LEMMA HeldPlacesAfter ==
  Held' = ToSet(pending') \cup ToSet(moving') \cup ToSet(queue') \cup ToSet(hands')
            \cup ToSet(batch'["checkin"]) \cup ToSet(batch'["checkout"])
            \cup ToSet(list'["checkin"]) \cup ToSet(list'["checkout"])
  BY DEF Held, Places

\* The events of either kind are events, so the batch and the lists hold events.
LEMMA OfEvent ==
  ASSUME NEW k \in Kinds
  PROVE  Of(k) \subseteq Event
  BY DEF Of, Event

\* A handler decides where its event goes.
LEMMA LookKeeps ==
  ASSUME IInv, NEW e \in Event, Look(e)
  PROVE  IInv'
  <1> USE DEF IInv
  <1>1. TypeOK'
    BY DEF TypeOK, Look, initVars, queueVars, workerVars, replayVars, faults, BatchLen
  <1>2. NothingLeftOver'
    BY DEF NothingLeftOver, Look, initVars, workerVars
  <1>3. Held' = Held
    BY DEF Look, Held, Places, initVars, queueVars, workerVars, replayVars
  <1>4. NothingVanishes'
    <2>1. ASSUME NEW d \in Event, handler'[d] = "done" PROVE handler[d] = "done"
      BY <2>1 DEF Look, TypeOK
    <2> QED BY <1>3, <2>1 DEF NothingVanishes, Look, faults
  <1> QED BY <1>1, <1>2, <1>4

\* It goes into the pending queue.
LEMMA ToPendingKeeps ==
  ASSUME IInv, NEW e \in Event, ToPending(e)
  PROVE  IInv'
  <1> USE DEF IInv
  <1>1. pending \in Seq(Event) /\ Len(pending) <= Capacity
    BY DEF TypeOK
  <1>2. /\ pending' \in Seq(Event) /\ Len(pending') <= Capacity
        /\ dropped' \subseteq Event /\ dropped \subseteq dropped'
        /\ ToSet(pending) \cup {e} \subseteq ToSet(pending') \cup dropped'
    <2>1. /\ PushDropOldest(pending, e) \in Seq(Event)
          /\ Len(PushDropOldest(pending, e)) <= Capacity
          /\ DroppedBy(pending) \subseteq Event
          /\ e \in ToSet(PushDropOldest(pending, e))
          /\ ToSet(pending) \subseteq ToSet(PushDropOldest(pending, e)) \cup DroppedBy(pending)
      BY <1>1, PushSet
    <2>2. dropped \subseteq Event
      BY DEF TypeOK
    <2> QED BY <2>1, <2>2 DEF ToPending
  <1>3. TypeOK'
    BY <1>2 DEF TypeOK, ToPending, initVars, queueVars, workerVars, replayVars, faults, BatchLen
  <1>4. NothingLeftOver'
    BY DEF NothingLeftOver, ToPending, initVars, workerVars
  <1>5. Way \cup {e} \subseteq Way'
    BY <1>2, HeldPlaces, HeldPlacesAfter
       DEF Way, ToPending, initVars, queueVars, workerVars, replayVars
  <1>6. NothingVanishes'
    <2>1. ASSUME NEW d \in Event, handler'[d] = "done", d # e PROVE handler[d] = "done"
      BY <2>1 DEF ToPending, TypeOK
    <2> QED BY <1>5, <2>1 DEF NothingVanishes, Way, ToPending, faults
  <1> QED BY <1>3, <1>4, <1>6

\* Or into the producer's queue.
LEMMA ToQueueKeeps ==
  ASSUME IInv, NEW e \in Event, ToQueue(e)
  PROVE  IInv'
  <1> USE DEF IInv
  <1>1. Push(e, e)
    BY DEF ToQueue
  <1>2. /\ queue' \in Seq(Event) /\ Len(queue') <= Capacity
        /\ permits' \in Nat /\ owed' \subseteq Event \cup {"init", "replay"}
        /\ dropped' \subseteq Event /\ dropped \subseteq dropped'
        /\ ToSet(queue) \cup {e} \subseteq ToSet(queue') \cup dropped'
    BY <1>1, PushKeeps
  <1>3. TypeOK'
    BY <1>2 DEF TypeOK, ToQueue, initVars, workerVars, replayVars, faults, BatchLen
  <1>4. NothingLeftOver'
    BY DEF NothingLeftOver, ToQueue, initVars, workerVars
  <1>5. Way \cup {e} \subseteq Way'
    BY <1>2, HeldPlaces, HeldPlacesAfter DEF Way, ToQueue, initVars, workerVars, replayVars
  <1>6. NothingVanishes'
    <2>1. ASSUME NEW d \in Event, handler'[d] = "done", d # e PROVE handler[d] = "done"
      BY <2>1 DEF ToQueue, TypeOK
    <2> QED BY <1>5, <2>1 DEF NothingVanishes, Way, ToQueue, faults
  <1> QED BY <1>3, <1>4, <1>6

\* The permit that follows a push moves no event.
LEMMA AddPermitKeeps ==
  ASSUME IInv, NEW p \in Event \cup {"init", "replay"}, AddPermit(p)
  PROVE  IInv'
  <1> USE DEF IInv
  <1>1. TypeOK'
    <2>1. permits' \in Nat /\ owed' \subseteq Event \cup {"init", "replay"}
      BY DEF TypeOK, AddPermit
    <2> QED
      BY <2>1 DEF TypeOK, AddPermit, initVars, workerVars, replayVars, faults, BatchLen
  <1>2. NothingLeftOver'
    BY DEF NothingLeftOver, AddPermit, initVars, workerVars
  <1>3. Way \subseteq Way'
    BY DEF Way, Held, Places, AddPermit, initVars, workerVars, replayVars
  <1>4. NothingVanishes'
    BY <1>3, StillThere DEF AddPermit, faults
  <1> QED BY <1>1, <1>2, <1>4

\* The init task: the producer is set, the pending queue taken, its events pushed.
LEMMA InitStepKeeps ==
  ASSUME IInv, InitStep
  PROVE  IInv'
  <1> USE DEF IInv
  <1>1. CASE SetProducer
    <2>1. TypeOK'
      BY <1>1 DEF TypeOK, SetProducer, queueVars, workerVars, replayVars, faults, BatchLen
    <2>2. NothingLeftOver'
      BY <1>1 DEF NothingLeftOver, SetProducer, workerVars
    <2>3. Way \subseteq Way'
      BY <1>1 DEF Way, Held, Places, SetProducer, queueVars, workerVars, replayVars
    <2>4. NothingVanishes'
      BY <1>1, <2>3, StillThere DEF SetProducer, faults
    <2> QED BY <2>1, <2>2, <2>4
  <1>2. CASE DrainPending
    <2>1. TypeOK'
      <3>1. pending' \in Seq(Event) /\ Len(pending') <= Capacity
        BY <1>2, KafkaAssumption DEF DrainPending
      <3> QED
        BY <1>2, <3>1 DEF TypeOK, DrainPending, queueVars, workerVars, replayVars, faults, BatchLen
    <2>2. NothingLeftOver'
      BY <1>2 DEF NothingLeftOver, DrainPending, workerVars
    <2>3. Way \subseteq Way'
      <3>1. ToSet(moving) = {}
        BY <1>2 DEF NothingLeftOver, DrainPending, ToSet
      <3> QED
        BY <1>2, <3>1, HeldPlaces, HeldPlacesAfter
           DEF Way, DrainPending, queueVars, workerVars, replayVars
    <2>4. NothingVanishes'
      BY <1>2, <2>3, StillThere DEF DrainPending, faults
    <2> QED BY <2>1, <2>2, <2>4
  <1>3. CASE MovePending
    <2>1. moving # <<>> /\ Push("init", Head(moving)) /\ moving' = Tail(moving)
      BY <1>3 DEF MovePending
    <2>2. moving \in Seq(Event)
      BY DEF TypeOK
    <2>3. /\ Head(moving) \in Event /\ Tail(moving) \in Seq(Event)
          /\ ToSet(moving) = {Head(moving)} \cup ToSet(Tail(moving))
      BY <2>1, <2>2, HeadTailSet
    <2>4. /\ queue' \in Seq(Event) /\ Len(queue') <= Capacity
          /\ permits' \in Nat /\ owed' \subseteq Event \cup {"init", "replay"}
          /\ dropped' \subseteq Event /\ dropped \subseteq dropped'
          /\ ToSet(queue) \cup {Head(moving)} \subseteq ToSet(queue') \cup dropped'
      BY <2>1, <2>3, PushKeeps
    <2>5. TypeOK'
      BY <1>3, <2>1, <2>3, <2>4 DEF TypeOK, MovePending, workerVars, replayVars, faults, BatchLen
    <2>6. NothingLeftOver'
      BY <1>3 DEF NothingLeftOver, MovePending, workerVars
    <2>7. Way \subseteq Way'
      BY <1>3, <2>1, <2>3, <2>4, HeldPlaces, HeldPlacesAfter
         DEF Way, MovePending, workerVars, replayVars
    <2>8. NothingVanishes'
      BY <1>3, <2>7, StillThere DEF MovePending, faults
    <2> QED BY <2>5, <2>6, <2>8
  <1> QED BY <1>1, <1>2, <1>3 DEF InitStep

\* The worker acquires a permit, or finds the queue empty: no event moves.
LEMMA AcquireKeeps ==
  ASSUME IInv, Acquire
  PROVE  IInv'
  <1> USE DEF IInv
  <1>1. TypeOK'
    <2>1. permits' \in Nat
      BY DEF TypeOK, Acquire
    <2> QED BY <2>1 DEF TypeOK, Acquire, initVars, replayVars, faults, BatchLen
  <1>2. NothingLeftOver'
    BY DEF NothingLeftOver, Acquire, initVars
  <1>3. Way \subseteq Way'
    BY DEF Way, Held, Places, Acquire, initVars, replayVars
  <1>4. NothingVanishes'
    BY <1>3, StillThere DEF Acquire, faults
  <1> QED BY <1>1, <1>2, <1>4

\* An event passes from the queue to the batch.
LEMMA PopKeeps ==
  ASSUME IInv, queue # <<>>, BatchLen < BatchSize,
         batch' = [batch EXCEPT ![KindOf(Head(queue))] = Append(@, Head(queue))],
         queue' = Tail(queue)
  PROVE  /\ queue' \in Seq(Event) /\ Len(queue') <= Capacity
         /\ batch' \in [Kinds -> Seq(Event)] /\ BatchLen' <= BatchSize
         /\ \A k \in Kinds : ToSet(batch'[k]) \subseteq Of(k)
         /\ ToSet(queue) \cup ToSet(batch["checkin"]) \cup ToSet(batch["checkout"])
              \subseteq ToSet(queue') \cup ToSet(batch'["checkin"]) \cup ToSet(batch'["checkout"])
  <1> USE DEF IInv
  <1>1. queue \in Seq(Event) /\ Len(queue) <= Capacity
    BY DEF TypeOK
  <1>2. /\ Head(queue) \in Event /\ Tail(queue) \in Seq(Event)
        /\ Len(Tail(queue)) = Len(queue) - 1
        /\ ToSet(queue) = {Head(queue)} \cup ToSet(Tail(queue))
    BY <1>1, HeadTailSet
  <1>3. /\ batch' \in [Kinds -> Seq(Event)]
        /\ BatchLen' = BatchLen + 1
        /\ \A k \in Kinds : ToSet(batch'[k]) \subseteq Of(k)
        /\ ToSet(batch'["checkin"]) \cup ToSet(batch'["checkout"])
             = ToSet(batch["checkin"]) \cup ToSet(batch["checkout"]) \cup {Head(queue)}
    BY <1>2, BatchGrows
  <1>4. BatchLen' <= BatchSize
    <2>1. BatchSize \in Nat /\ BatchLen \in Nat
      <3>1. batch["checkin"] \in Seq(Event) /\ batch["checkout"] \in Seq(Event)
        BY DEF TypeOK, Kinds
      <3>2. Len(batch["checkin"]) \in Nat /\ Len(batch["checkout"]) \in Nat
        BY <3>1
      <3>3. BatchLen \in Nat
        BY <3>2, SumInNat, Zenon DEF BatchLen
      <3> QED BY <3>3, KafkaAssumption
    <2> QED BY <1>3, <2>1
  <1>5. Len(queue') <= Capacity
    <2>1. Capacity \in Nat /\ Len(queue) \in Nat
      BY <1>1, KafkaAssumption
    <2> QED BY <1>1, <1>2, <2>1
  <1> QED BY <1>2, <1>3, <1>4, <1>5

\* The first event of a batch.
LEMMA TakeKeeps ==
  ASSUME IInv, Take
  PROVE  IInv'
  <1> USE DEF IInv
  <1>0. permits' \in Nat
    BY DEF TypeOK, Take
  <1>1. CASE queue = <<>>
    <2>1. queue' = queue /\ batch' = batch /\ at' = "pop"
      BY <1>1 DEF Take
    <2>2. TypeOK'
      BY <1>0, <2>1 DEF TypeOK, Take, initVars, replayVars, faults, BatchLen
    <2>3. NothingLeftOver'
      BY <2>1 DEF NothingLeftOver, Take, initVars
    <2>4. Way \subseteq Way'
      BY <2>1 DEF Way, Held, Places, Take, initVars, replayVars
    <2>5. NothingVanishes'
      BY <2>4, StillThere DEF Take, faults
    <2> QED BY <2>2, <2>3, <2>5
  <1>2. CASE queue # <<>>
    <2>1. /\ batch' = [batch EXCEPT ![KindOf(Head(queue))] = Append(@, Head(queue))]
          /\ queue' = Tail(queue) /\ at' = "fill"
      BY <1>2 DEF Take
    <2>2. BatchLen < BatchSize
      <3>1. batch["checkin"] = <<>> /\ batch["checkout"] = <<>>
        BY DEF NothingLeftOver, Take, Empty, Kinds
      <3>2. BatchLen = 0
        BY <3>1 DEF BatchLen
      <3> QED BY <3>2, KafkaAssumption
    <2>3. /\ queue' \in Seq(Event) /\ Len(queue') <= Capacity
          /\ batch' \in [Kinds -> Seq(Event)] /\ BatchLen' <= BatchSize
          /\ \A k \in Kinds : ToSet(batch'[k]) \subseteq Of(k)
          /\ ToSet(queue) \cup ToSet(batch["checkin"]) \cup ToSet(batch["checkout"])
               \subseteq ToSet(queue') \cup ToSet(batch'["checkin"]) \cup ToSet(batch'["checkout"])
      BY <1>2, <2>1, <2>2, PopKeeps
    <2>4. TypeOK'
      BY <1>0, <2>1, <2>3 DEF TypeOK, Take, initVars, replayVars, faults
    <2>5. NothingLeftOver'
      BY <2>1 DEF NothingLeftOver, Take, initVars
    <2>6. Way \subseteq Way'
      BY <2>3, HeldPlaces, HeldPlacesAfter DEF Way, Take, initVars, replayVars
    <2>7. NothingVanishes'
      BY <2>6, StillThere DEF Take, faults
    <2> QED BY <2>4, <2>5, <2>7
  <1> QED BY <1>1, <1>2

\* The others, as long as there is room.
LEMMA FillKeeps ==
  ASSUME IInv, Fill
  PROVE  IInv'
  <1> USE DEF IInv
  <1>1. CASE batch' = batch /\ queue' = queue /\ at' = "send"
    <2>2. TypeOK'
      BY <1>1 DEF TypeOK, Fill, initVars, replayVars, faults, BatchLen
    <2>3. NothingLeftOver'
      BY <1>1 DEF NothingLeftOver, Fill, initVars
    <2>4. Way \subseteq Way'
      BY <1>1 DEF Way, Held, Places, Fill, initVars, replayVars
    <2>5. NothingVanishes'
      BY <2>4, StillThere DEF Fill, faults
    <2> QED BY <2>2, <2>3, <2>5
  <1>2. CASE /\ queue # <<>> /\ BatchLen < BatchSize
             /\ batch' = [batch EXCEPT ![KindOf(Head(queue))] = Append(@, Head(queue))]
             /\ queue' = Tail(queue) /\ at' = at
    <2>3. /\ queue' \in Seq(Event) /\ Len(queue') <= Capacity
          /\ batch' \in [Kinds -> Seq(Event)] /\ BatchLen' <= BatchSize
          /\ \A k \in Kinds : ToSet(batch'[k]) \subseteq Of(k)
          /\ ToSet(queue) \cup ToSet(batch["checkin"]) \cup ToSet(batch["checkout"])
               \subseteq ToSet(queue') \cup ToSet(batch'["checkin"]) \cup ToSet(batch'["checkout"])
      BY <1>2, PopKeeps
    <2>4. TypeOK'
      BY <1>2, <2>3 DEF TypeOK, Fill, initVars, replayVars, faults
    <2>5. NothingLeftOver'
      BY <1>2 DEF NothingLeftOver, Fill, initVars
    <2>6. Way \subseteq Way'
      BY <2>3, HeldPlaces, HeldPlacesAfter DEF Way, Fill, initVars, replayVars
    <2>7. NothingVanishes'
      BY <2>6, StillThere DEF Fill, faults
    <2> QED BY <2>4, <2>5, <2>7
  <1> QED BY <1>1, <1>2 DEF Fill

\* A batch is sent, in full.
LEMMA SendOkKeeps ==
  ASSUME IInv, SendOk
  PROVE  IInv'
  <1> USE DEF IInv
  <1>1. Settle /\ topic' = topic \cup ToSet(Sending)
    BY DEF SendOk
  <1>2. /\ SendKind \in Kinds /\ ToSet(Sending) \subseteq Of(SendKind)
        /\ batch' \in [Kinds -> Seq(Event)] /\ BatchLen' <= BatchSize
        /\ \A k \in Kinds : ToSet(batch'[k]) \subseteq Of(k)
        /\ at' \in {"pop", "take", "fill", "send", "persist"}
        /\ at' \in {"pop", "take"} => batch' = Empty
        /\ attempt' \in 0..(MaxAttempts - 1)
        /\ ToSet(batch["checkin"]) \cup ToSet(batch["checkout"])
             \subseteq ToSet(batch'["checkin"]) \cup ToSet(batch'["checkout"]) \cup ToSet(Sending)
    BY <1>1, SettleKeeps
  <1>3. ToSet(Sending) \subseteq Event
    BY <1>2, OfEvent
  <1>4. TypeOK'
    BY <1>1, <1>2, <1>3 DEF TypeOK, SendOk, initVars, queueVars, replayVars, faults
  <1>5. NothingLeftOver'
    BY <1>2 DEF NothingLeftOver, SendOk, initVars
  <1>6. Way \subseteq Way'
    BY <1>1, <1>2, HeldPlaces, HeldPlacesAfter DEF Way, SendOk, initVars, queueVars, replayVars
  <1>7. NothingVanishes'
    BY <1>6, StillThere DEF SendOk, faults
  <1> QED BY <1>4, <1>5, <1>7

\* An attempt fails, and is repeated or not: the batch stays.
LEMMA SendFailsKeeps ==
  ASSUME IInv, SendAgain \/ GiveUpSending
  PROVE  IInv'
  <1> USE DEF IInv
  <1>1. AttemptFails
    BY DEF SendAgain, GiveUpSending
  <1>2. /\ batch' = batch
        /\ at' \in {"send", "persist"}
        /\ attempt' = attempt \/ (attempt' = attempt + 1 /\ attempt + 1 < MaxAttempts)
    BY DEF SendAgain, GiveUpSending, AttemptFails
  <1>3. attempt' \in 0..(MaxAttempts - 1) /\ sendFailures' \in 0..MaxSendFailures
    <2>1. /\ MaxAttempts \in Nat /\ MaxSendFailures \in Nat
          /\ attempt \in 0..(MaxAttempts - 1) /\ sendFailures \in 0..MaxSendFailures
      BY KafkaAssumption DEF TypeOK
    <2> QED BY <1>1, <1>2, <2>1 DEF AttemptFails
  <1>4. Sending \in {batch["checkin"], batch["checkout"]}
    BY DEF Sending, SendKind
  <1>5. ToSet(Sending) \subseteq Event
    <2>1. ToSet(batch["checkin"]) \subseteq Event /\ ToSet(batch["checkout"]) \subseteq Event
      BY OfEvent DEF TypeOK, Kinds
    <2> QED BY <1>4, <2>1
  <1>6. topic \subseteq topic' /\ topic' \subseteq Event
    BY <1>1, <1>5 DEF AttemptFails, TypeOK
  <1>7. TypeOK'
    BY <1>1, <1>2, <1>3, <1>6
       DEF TypeOK, AttemptFails, initVars, queueVars, replayVars, BatchLen
  <1>8. NothingLeftOver'
    BY <1>1, <1>2 DEF NothingLeftOver, AttemptFails, initVars
  <1>9. Way \subseteq Way'
    BY <1>1, <1>2, <1>6, HeldPlaces, HeldPlacesAfter
       DEF Way, AttemptFails, initVars, queueVars, replayVars
  <1>10. NothingVanishes'
    BY <1>1, <1>9, StillThere DEF AttemptFails
  <1> QED BY <1>7, <1>8, <1>10

\* What was not sent goes to the list of its kind; the list is trimmed.
LEMMA PersistKeeps ==
  ASSUME IInv, Persist
  PROVE  IInv'
  <1> USE DEF IInv
  <1> DEFINE long == list[SendKind] \o Sending
             keep == IF Len(long) > MaxListLen
                     THEN SubSeq(long, Len(long) - MaxListLen + 1, Len(long)) ELSE long
  <1>1. /\ Settle
        /\ list' = [list EXCEPT ![SendKind] = keep]
        /\ dropped' = dropped \cup (ToSet(long) \ ToSet(keep))
    BY DEF Persist
  <1>2. /\ SendKind \in Kinds /\ Sending \in Seq(Event)
        /\ ToSet(Sending) \subseteq Of(SendKind)
        /\ batch' \in [Kinds -> Seq(Event)] /\ BatchLen' <= BatchSize
        /\ \A k \in Kinds : ToSet(batch'[k]) \subseteq Of(k)
        /\ at' \in {"pop", "take", "fill", "send", "persist"}
        /\ at' \in {"pop", "take"} => batch' = Empty
        /\ attempt' \in 0..(MaxAttempts - 1)
        /\ ToSet(batch["checkin"]) \cup ToSet(batch["checkout"])
             \subseteq ToSet(batch'["checkin"]) \cup ToSet(batch'["checkout"]) \cup ToSet(Sending)
    BY <1>1, SettleKeeps
  <1>3. /\ list \in [Kinds -> Seq(Event)]
        /\ \A k \in Kinds : ToSet(list[k]) \subseteq Of(k)
    BY DEF TypeOK
  <1>4. list[SendKind] \in Seq(Event)
    BY <1>2, <1>3
  <1>5. long \in Seq(Event) /\ ToSet(long) = ToSet(list[SendKind]) \cup ToSet(Sending)
    BY <1>2, <1>4, ConcatSet
  <1>6. ToSet(long) \subseteq Of(SendKind)
    BY <1>2, <1>3, <1>5
  <1>7. keep \in Seq(Event) /\ ToSet(keep) \subseteq ToSet(long)
    <2> HIDE DEF long
    <2>1. CASE Len(long) > MaxListLen
      <3>1. Len(long) \in Nat /\ MaxListLen \in Nat \ {0}
        BY <1>5, KafkaAssumption
      <3>2. Len(long) - MaxListLen + 1 \in 1..(Len(long) + 1) /\ Len(long) \in 0..Len(long)
        BY <2>1, <3>1
      <3>3. keep = SubSeq(long, Len(long) - MaxListLen + 1, Len(long))
        BY <2>1
      <3> QED BY <1>5, <3>2, <3>3, PartSet
    <2>2. CASE ~(Len(long) > MaxListLen)
      BY <1>5, <2>2
    <2> QED BY <2>1, <2>2
  <1> HIDE DEF long, keep
  <1>8. /\ list' \in [Kinds -> Seq(Event)] /\ list'[SendKind] = keep
        /\ \A k \in Kinds \ {SendKind} : list'[k] = list[k]
    BY <1>1, <1>2, <1>3, <1>7
  <1>9. \A k \in Kinds : ToSet(list'[k]) \subseteq Of(k)
    <2>1. ASSUME NEW k \in Kinds, k = SendKind PROVE ToSet(list'[k]) \subseteq Of(k)
      BY <2>1, <1>6, <1>7, <1>8
    <2>2. ASSUME NEW k \in Kinds, k # SendKind PROVE ToSet(list'[k]) \subseteq Of(k)
      BY <2>2, <1>3, <1>8
    <2> QED BY <2>1, <2>2
  <1>10. ToSet(long) \subseteq Event
    BY <1>2, <1>6, OfEvent
  <1>11. TypeOK'
    <2>1. dropped' \subseteq Event
      BY <1>1, <1>10 DEF TypeOK
    <2> QED
      BY <1>2, <1>8, <1>9, <2>1 DEF TypeOK, Persist, initVars, queueVars, replayVars, faults
  <1>12. NothingLeftOver'
    BY <1>2 DEF NothingLeftOver, Persist, initVars
  <1>13. ToSet(Sending) \cup ToSet(list["checkin"]) \cup ToSet(list["checkout"])
           \subseteq ToSet(list'["checkin"]) \cup ToSet(list'["checkout"]) \cup dropped'
    <2>1. SendKind \in {"checkin", "checkout"}
      BY DEF SendKind
    <2>2. ToSet(list[SendKind]) \cup ToSet(Sending) \subseteq ToSet(list'[SendKind]) \cup dropped'
      BY <1>1, <1>5, <1>8
    <2>3. \A k \in {"checkin", "checkout"} : k = SendKind \/ list'[k] = list[k]
      BY <1>8 DEF Kinds
    <2> QED BY <2>1, <2>2, <2>3
  <1>14. Way \subseteq Way'
    <2>1. dropped \subseteq dropped'
      BY <1>1
    <2> QED
      BY <1>2, <1>13, <2>1, HeldPlaces, HeldPlacesAfter
         DEF Way, Persist, initVars, queueVars, replayVars
  <1>15. NothingVanishes'
    BY <1>14, StillThere DEF Persist, faults
  <1> QED BY <1>11, <1>12, <1>15

\* KeyDB fails: the events of the batch may be lost, the types are kept.
LEMMA PersistFailsKeeps ==
  ASSUME IInv, PersistFails
  PROVE  IInv'
  <1> USE DEF IInv
  <1> DEFINE long == list[SendKind] \o Sending
             keep == IF Len(long) > MaxListLen
                     THEN SubSeq(long, Len(long) - MaxListLen + 1, Len(long)) ELSE long
  <1>1. Settle /\ (list' = list \/ \E l \in {long, keep} : list' = [list EXCEPT ![SendKind] = l])
    BY DEF PersistFails
  <1>2. /\ SendKind \in Kinds /\ Sending \in Seq(Event)
        /\ ToSet(Sending) \subseteq Of(SendKind)
        /\ batch' \in [Kinds -> Seq(Event)] /\ BatchLen' <= BatchSize
        /\ \A k \in Kinds : ToSet(batch'[k]) \subseteq Of(k)
        /\ at' \in {"pop", "take", "fill", "send", "persist"}
        /\ at' \in {"pop", "take"} => batch' = Empty
        /\ attempt' \in 0..(MaxAttempts - 1)
    BY <1>1, SettleKeeps
  <1>3. /\ list \in [Kinds -> Seq(Event)]
        /\ \A k \in Kinds : ToSet(list[k]) \subseteq Of(k)
    BY DEF TypeOK
  <1>4. list[SendKind] \in Seq(Event)
    BY <1>2, <1>3
  <1>5. long \in Seq(Event) /\ ToSet(long) = ToSet(list[SendKind]) \cup ToSet(Sending)
    BY <1>2, <1>4, ConcatSet
  <1>6. ToSet(long) \subseteq Of(SendKind)
    BY <1>2, <1>3, <1>5
  <1>k. keep \in Seq(Event) /\ ToSet(keep) \subseteq ToSet(long)
    <2> HIDE DEF long
    <2>1. CASE Len(long) > MaxListLen
      <3>1. Len(long) \in Nat /\ MaxListLen \in Nat \ {0}
        BY <1>5, KafkaAssumption
      <3>2. Len(long) - MaxListLen + 1 \in 1..(Len(long) + 1) /\ Len(long) \in 0..Len(long)
        BY <2>1, <3>1
      <3>3. keep = SubSeq(long, Len(long) - MaxListLen + 1, Len(long))
        BY <2>1
      <3> QED BY <1>5, <3>2, <3>3, PartSet
    <2>2. CASE ~(Len(long) > MaxListLen)
      BY <1>5, <2>2
    <2> QED BY <2>1, <2>2
  <1> HIDE DEF long, keep
  <1>7. /\ list' \in [Kinds -> Seq(Event)]
        /\ \A k \in Kinds : \/ list'[k] = list[k]
                            \/ k = SendKind /\ list'[k] \in {long, keep}
    <2>1. CASE list' = list
      BY <1>3, <2>1
    <2>2. ASSUME NEW l \in {long, keep}, list' = [list EXCEPT ![SendKind] = l]
          PROVE  /\ list' \in [Kinds -> Seq(Event)]
                 /\ \A k \in Kinds : \/ list'[k] = list[k]
                                     \/ k = SendKind /\ list'[k] \in {long, keep}
      <3>1. l \in Seq(Event)
        BY <1>5, <1>k, <2>2
      <3> QED BY <1>2, <1>3, <2>2, <3>1
    <2> QED BY <1>1, <2>1, <2>2
  <1>8. ASSUME NEW k \in Kinds PROVE ToSet(list'[k]) \subseteq Of(k)
    BY <1>3, <1>6, <1>7, <1>k
  <1>9. keydbFailures' = keydbFailures + 1 /\ keydbFailures' \in 0..MaxKeydbFailures
    <2>1. keydbFailures \in 0..MaxKeydbFailures
      BY DEF TypeOK
    <2>2. MaxKeydbFailures \in Nat
      BY KafkaAssumption
    <2>3. keydbFailures < MaxKeydbFailures /\ keydbFailures' = keydbFailures + 1
      BY DEF PersistFails
    <2> QED BY <2>1, <2>2, <2>3
  <1>10. TypeOK'
    BY <1>2, <1>7, <1>8, <1>9 DEF TypeOK, PersistFails, initVars, queueVars, replayVars
  <1>11. NothingLeftOver'
    BY <1>2 DEF NothingLeftOver, PersistFails, initVars
  <1>12. keydbFailures' # 0
    BY <1>9 DEF TypeOK
  <1> QED BY <1>10, <1>11, <1>12 DEF NothingVanishes

\* How many events the replay task takes.
LEMMA ReplayCount ==
  ASSUME TypeOK, replayed < ReplayMax,
         NEW n, n = Min({ReplayBatch, ReplayMax - replayed, Len(list[replay])})
  PROVE  /\ list[replay] \in Seq(Event)
         /\ n \in 0..Len(list[replay]) /\ replayed + n \in 0..ReplayMax
  <1>1. list[replay] \in Seq(Event) /\ replayed \in 0..ReplayMax
    BY DEF TypeOK
  <1>2. ReplayBatch \in Nat /\ ReplayMax \in Nat
    BY KafkaAssumption
  <1>3. ReplayMax - replayed \in Nat /\ Len(list[replay]) \in Nat
    BY <1>1, <1>2
  <1>4. n \in Nat /\ n <= ReplayMax - replayed /\ n <= Len(list[replay])
    BY <1>2, <1>3, LeastOfThree
  <1> QED BY <1>1, <1>2, <1>3, <1>4

\* What is left of a list when its first events are taken.
LEMMA RestOfList ==
  ASSUME TypeOK, NEW n \in 0..Len(list[replay])
  PROVE  LET rest == SubSeq(list[replay], n + 1, Len(list[replay]))
         IN  rest \in Seq(Event) /\ ToSet(rest) \subseteq Of(replay)
  <1>1. list[replay] \in Seq(Event) /\ ToSet(list[replay]) \subseteq Of(replay)
    BY DEF TypeOK
  <1>2. n + 1 \in 1..(Len(list[replay]) + 1) /\ Len(list[replay]) \in 0..Len(list[replay])
    BY <1>1
  <1> QED BY <1>1, <1>2, PartSet

\* The replay task takes events off a list.
LEMMA ReplayPopKeeps ==
  ASSUME IInv, ReplayPop
  PROVE  IInv'
  <1> USE DEF IInv
  <1> DEFINE n == Min({ReplayBatch, ReplayMax - replayed, Len(list[replay])})
             rest == SubSeq(list[replay], n + 1, Len(list[replay]))
  <1>1. /\ hands = <<>> /\ replayed < ReplayMax
        /\ hands' = SubSeq(list[replay], 1, n)
        /\ list' = [list EXCEPT ![replay] = rest]
        /\ replayed' = replayed + n
    BY DEF ReplayPop
  <1>2. /\ list[replay] \in Seq(Event)
        /\ n \in 0..Len(list[replay]) /\ replayed + n \in 0..ReplayMax
    BY <1>1, ReplayCount
  <1>3. rest \in Seq(Event) /\ ToSet(rest) \subseteq Of(replay)
    BY <1>2, RestOfList
  <1>4. hands' \in Seq(Event)
    <2>1. 1 \in 1..(Len(list[replay]) + 1)
      BY <1>2
    <2> QED BY <1>1, <1>2, <2>1, PartSet
  <1>5. ToSet(list[replay]) = ToSet(hands') \cup ToSet(rest)
    BY <1>1, <1>2, SplitSet
  <1> HIDE DEF n, rest
  <1>6. /\ list \in [Kinds -> Seq(Event)] /\ replay \in Kinds
        /\ \A k \in Kinds : ToSet(list[k]) \subseteq Of(k)
    BY DEF TypeOK
  <1>7. /\ list' \in [Kinds -> Seq(Event)] /\ list'[replay] = rest
        /\ \A k \in Kinds \ {replay} : list'[k] = list[k]
    BY <1>1, <1>3, <1>6
  <1>8. ASSUME NEW k \in Kinds PROVE ToSet(list'[k]) \subseteq Of(k)
    <2>1. CASE k = replay BY <2>1, <1>3, <1>7
    <2>2. CASE k # replay BY <2>2, <1>6, <1>7
    <2> QED BY <2>1, <2>2
  <1>9. TypeOK'
    BY <1>1, <1>2, <1>4, <1>7, <1>8
       DEF TypeOK, ReplayPop, initVars, queueVars, workerVars, faults, BatchLen
  <1>10. NothingLeftOver'
    BY DEF NothingLeftOver, ReplayPop, initVars, workerVars
  <1>11. ToSet(hands) \cup ToSet(list["checkin"]) \cup ToSet(list["checkout"])
           \subseteq ToSet(hands') \cup ToSet(list'["checkin"]) \cup ToSet(list'["checkout"])
    <2>1. replay \in {"checkin", "checkout"}
      BY <1>6 DEF Kinds
    <2>2. \A k \in {"checkin", "checkout"} : k = replay \/ list'[k] = list[k]
      BY <1>7 DEF Kinds
    <2>3. ToSet(hands) = {}
      BY <1>1 DEF ToSet
    <2>4. ToSet(list[replay]) \subseteq ToSet(hands') \cup ToSet(list'[replay])
      BY <1>5, <1>7
    <2> QED BY <2>1, <2>2, <2>3, <2>4
  <1>12. Way \subseteq Way'
    <2>1. /\ pending' = pending /\ moving' = moving /\ queue' = queue /\ batch' = batch
          /\ topic' = topic /\ dropped' = dropped
      BY DEF ReplayPop, initVars, queueVars, workerVars
    <2> QED BY <1>11, <2>1, HeldPlaces, HeldPlacesAfter DEF Way
  <1>13. NothingVanishes'
    BY <1>12, StillThere DEF ReplayPop, faults
  <1> QED BY <1>9, <1>10, <1>13

\* KeyDB fails: the events it removed are lost, the types are kept.
LEMMA ReplayPopFailsKeeps ==
  ASSUME IInv, ReplayPopFails
  PROVE  IInv'
  <1> USE DEF IInv
  <1> DEFINE n == Min({ReplayBatch, ReplayMax - replayed, Len(list[replay])})
             rest == SubSeq(list[replay], n + 1, Len(list[replay]))
  <1>1. replayed < ReplayMax /\ list' \in {list, [list EXCEPT ![replay] = rest]}
    BY DEF ReplayPopFails
  <1>2. n \in 0..Len(list[replay])
    BY <1>1, ReplayCount
  <1>3. rest \in Seq(Event) /\ ToSet(rest) \subseteq Of(replay)
    BY <1>2, RestOfList
  <1> HIDE DEF n, rest
  <1>4. /\ list \in [Kinds -> Seq(Event)] /\ replay \in Kinds
        /\ \A k \in Kinds : ToSet(list[k]) \subseteq Of(k)
    BY DEF TypeOK
  <1>5. /\ list' \in [Kinds -> Seq(Event)]
        /\ \A k \in Kinds : list'[k] = list[k] \/ (k = replay /\ list'[k] = rest)
    BY <1>1, <1>3, <1>4
  <1>6. ASSUME NEW k \in Kinds PROVE ToSet(list'[k]) \subseteq Of(k)
    BY <1>3, <1>4, <1>5
  <1>7. keydbFailures' = keydbFailures + 1 /\ keydbFailures' \in 0..MaxKeydbFailures
    <2>1. keydbFailures \in 0..MaxKeydbFailures
      BY DEF TypeOK
    <2>2. MaxKeydbFailures \in Nat
      BY KafkaAssumption
    <2>3. keydbFailures < MaxKeydbFailures /\ keydbFailures' = keydbFailures + 1
      BY DEF ReplayPopFails
    <2> QED BY <2>1, <2>2, <2>3
  <1>8. replay' \in Kinds /\ replayed' \in 0..ReplayMax
    BY KafkaAssumption DEF ReplayPopFails, NextList, Kinds
  <1>9. TypeOK'
    BY <1>5, <1>6, <1>7, <1>8
       DEF TypeOK, ReplayPopFails, NextList, initVars, queueVars, workerVars, BatchLen
  <1>10. NothingLeftOver'
    BY DEF NothingLeftOver, ReplayPopFails, initVars, workerVars
  <1>11. keydbFailures' # 0
    BY <1>7 DEF TypeOK
  <1> QED BY <1>9, <1>10, <1>11 DEF NothingVanishes

\* It pushes an event.
LEMMA ReplayPushKeeps ==
  ASSUME IInv, ReplayPush
  PROVE  IInv'
  <1> USE DEF IInv
  <1>1. hands # <<>> /\ Push("replay", Head(hands)) /\ hands' = Tail(hands)
    BY DEF ReplayPush
  <1>2. hands \in Seq(Event)
    BY DEF TypeOK
  <1>3. /\ Head(hands) \in Event /\ Tail(hands) \in Seq(Event)
        /\ ToSet(hands) = {Head(hands)} \cup ToSet(Tail(hands))
    BY <1>1, <1>2, HeadTailSet
  <1>4. /\ queue' \in Seq(Event) /\ Len(queue') <= Capacity
        /\ permits' \in Nat /\ owed' \subseteq Event \cup {"init", "replay"}
        /\ dropped' \subseteq Event /\ dropped \subseteq dropped'
        /\ ToSet(queue) \cup {Head(hands)} \subseteq ToSet(queue') \cup dropped'
    BY <1>1, <1>3, PushKeeps
  <1>5. TypeOK'
    BY <1>1, <1>3, <1>4 DEF TypeOK, ReplayPush, initVars, workerVars, faults, BatchLen
  <1>6. NothingLeftOver'
    BY DEF NothingLeftOver, ReplayPush, initVars, workerVars
  <1>7. Way \subseteq Way'
    BY <1>1, <1>3, <1>4, HeldPlaces, HeldPlacesAfter DEF Way, ReplayPush, initVars, workerVars
  <1>8. NothingVanishes'
    BY <1>7, StillThere DEF ReplayPush, faults
  <1> QED BY <1>5, <1>6, <1>8

\* It goes on to the other list.
LEMMA ReplayNextKeeps ==
  ASSUME IInv, ReplayNext
  PROVE  IInv'
  <1> USE DEF IInv
  <1>1. replay' \in Kinds /\ replayed' \in 0..ReplayMax
    BY KafkaAssumption DEF ReplayNext, NextList, Kinds
  <1>2. TypeOK'
    BY <1>1 DEF TypeOK, ReplayNext, NextList, initVars, queueVars, workerVars, faults, BatchLen
  <1>3. NothingLeftOver'
    BY DEF NothingLeftOver, ReplayNext, initVars, workerVars
  <1>4. Way \subseteq Way'
    BY DEF Way, Held, Places, ReplayNext, NextList, initVars, queueVars, workerVars
  <1>5. NothingVanishes'
    BY <1>4, StillThere DEF ReplayNext, faults
  <1> QED BY <1>2, <1>3, <1>5

\* A process that starts holds nothing, and has its types.
LEMMA EmptyTyped ==
  /\ Empty \in [Kinds -> Seq(Event)]
  /\ \A k \in Kinds : Empty[k] = <<>> /\ ToSet(Empty[k]) = {}
  /\ Len(Empty["checkin"]) + Len(Empty["checkout"]) = 0
  /\ <<>> \in Seq(Event) /\ Len(<<>>) = 0
  <1>1. <<>> \in Seq(Event) /\ Len(<<>>) = 0 /\ ToSet(<<>>) = {}
    BY DEF ToSet
  <1>2. \A k \in Kinds : Empty[k] = <<>>
    BY DEF Empty
  <1>3. Len(Empty["checkin"]) = 0 /\ Len(Empty["checkout"]) = 0
    BY <1>1, <1>2 DEF Kinds
  <1>4. Empty \in [Kinds -> Seq(Event)]
    BY <1>1 DEF Empty
  <1> QED BY <1>1, <1>2, <1>3, <1>4

\* A crash loses what the process held and keeps the types.
LEMMA CrashKeeps ==
  ASSUME IInv, Crash
  PROVE  IInv'
  <1> USE DEF IInv
  <1>1. crashes' = crashes + 1 /\ crashes' \in 0..MaxCrashes
    <2>1. crashes \in 0..MaxCrashes
      BY DEF TypeOK
    <2>2. MaxCrashes \in Nat
      BY KafkaAssumption
    <2>3. crashes < MaxCrashes /\ crashes' = crashes + 1
      BY DEF Crash
    <2> QED BY <2>1, <2>2, <2>3
  <1>2. batch' = Empty /\ BatchLen' = 0
    BY EmptyTyped DEF Crash, NewProcess, BatchLen
  <1>3. \A k \in Kinds : ToSet(batch'[k]) = {}
    BY <1>2, EmptyTyped
  <1>4. /\ 0 <= Capacity /\ 0 <= BatchSize /\ 0 \in 0..(MaxAttempts - 1) /\ 0 \in 0..ReplayMax
        /\ "checkin" \in Kinds
    BY KafkaAssumption DEF Kinds
  <1>5. handler' \in [Event -> {"idle", "pending", "queue", "done"}]
    BY DEF Crash
  <1>6. TypeOK'
    BY <1>1, <1>2, <1>3, <1>4, <1>5, EmptyTyped DEF TypeOK, Crash, NewProcess
  <1>7. NothingLeftOver'
    BY <1>2 DEF NothingLeftOver, Crash, NewProcess
  <1>8. crashes' # 0
    BY <1>1 DEF TypeOK
  <1> QED BY <1>6, <1>7, <1>8 DEF NothingVanishes

-----------------------------------------------------------------------------
(* The theorems *)

\* The program starts with the invariant.
LEMMA InitIInv == Init => IInv
  <1> SUFFICES ASSUME Init PROVE IInv
    OBVIOUS
  <1>1. BatchLen = 0
    BY EmptyTyped DEF Init, BatchLen
  <1>2. /\ 0 <= Capacity /\ 0 <= BatchSize /\ 0 \in 0..(MaxAttempts - 1) /\ 0 \in 0..ReplayMax
        /\ 0 \in 0..MaxSendFailures /\ 0 \in 0..MaxKeydbFailures /\ 0 \in 0..MaxCrashes
        /\ "checkin" \in Kinds
    BY KafkaAssumption DEF Kinds
  <1>3. TypeOK
    BY <1>1, <1>2, EmptyTyped DEF Init, TypeOK
  <1>4. NothingLeftOver
    BY DEF Init, NothingLeftOver
  <1>5. NothingVanishes
    BY DEF Init, NothingVanishes
  <1> QED BY <1>3, <1>4, <1>5 DEF IInv

\* Every step of any task keeps it.
LEMMA NextIInv == IInv /\ [Next]_vars => IInv'
  <1> SUFFICES ASSUME IInv, [Next]_vars PROVE IInv'
    OBVIOUS
  <1>1. CASE \E e \in Event : HandlerStep(e)
    BY <1>1, LookKeeps, ToPendingKeeps, ToQueueKeeps DEF HandlerStep
  <1>2. CASE PermitStep
    BY <1>2, AddPermitKeeps DEF PermitStep
  <1>3. CASE InitStep
    BY <1>3, InitStepKeeps
  <1>4. CASE WorkerStep
    BY <1>4, AcquireKeeps, TakeKeeps, FillKeeps, SendOkKeeps, SendFailsKeeps, PersistKeeps,
       PersistFailsKeeps DEF WorkerStep
  <1>5. CASE ReplayStep
    BY <1>5, ReplayPopKeeps, ReplayPopFailsKeeps, ReplayPushKeeps, ReplayNextKeeps
       DEF ReplayStep
  <1>6. CASE Crash
    BY <1>6, CrashKeeps
  <1>7. CASE UNCHANGED vars
    <2> USE <1>7 DEF vars, initVars, queueVars, workerVars, replayVars, faults
    <2>1. TypeOK'
      BY DEF IInv, TypeOK, BatchLen
    <2>2. NothingLeftOver'
      BY DEF IInv, NothingLeftOver
    <2>3. Way \subseteq Way'
      BY DEF Way, Held, Places
    <2>4. NothingVanishes'
      BY <2>3, StillThere DEF IInv
    <2> QED BY <2>1, <2>2, <2>4 DEF IInv
  <1> QED BY <1>1, <1>2, <1>3, <1>4, <1>5, <1>6, <1>7 DEF Next

\* The inductive invariant holds in every state.
THEOREM KafkaInvariant == Spec => []IInv
  BY InitIInv, NextIInv, PTL DEF Spec

\* DropOldestQueue::push, the pending queue and the worker's batch keep their bounds
\* (service.rs), whatever the handlers, the init task and the replay task push, and
\* however often KeyDB or Kafka fail and the process stops.
THEOREM KafkaTypes == Spec => []TypeOK
  <1>1. IInv => TypeOK
    BY DEF IInv
  <1> QED BY <1>1, KafkaInvariant, PTL

\* As long as KeyDB answers and the process runs, an event that a handler handed over
\* is on its way, in the topic, or was dropped by a full queue or a trimmed list:
\* no hand-over between the tasks loses one.
THEOREM NothingEverVanishes == Spec => []NothingVanishes
  <1>1. IInv => NothingVanishes
    BY DEF IInv
  <1> QED BY <1>1, KafkaInvariant, PTL
-----------------------------------------------------------------------------
(* An event is in one place at a time *)

\* Nothing is in the empty sequence, twice or once.
LEMMA EmptyOnce == IsInjective(<<>>) /\ ToSet(<<>>) = {}
  BY DEF IsInjective, ToSet

\* A new element is in the longer sequence once.
LEMMA AppendOnce ==
  ASSUME NEW s \in Seq(Event), NEW e \in Event, IsInjective(s), e \notin ToSet(s)
  PROVE  IsInjective(Append(s, e))
  <1> DEFINE t == Append(s, e)
  <1>1. /\ DOMAIN t = 1..(Len(s) + 1) /\ DOMAIN s = 1..Len(s) /\ Len(s) \in Nat
        /\ t[Len(s) + 1] = e
    OBVIOUS
  <1>2. \A i \in 1..Len(s) : t[i] = s[i]
    OBVIOUS
  <1>3. \A i \in 1..Len(s) : s[i] # e
    BY DEF ToSet
  <1> HIDE DEF t
  <1>4. ASSUME NEW a \in DOMAIN t, NEW b \in DOMAIN t, t[a] = t[b] PROVE a = b
    <2>1. CASE a <= Len(s) /\ b <= Len(s)
      BY <1>1, <1>2, <1>4, <2>1 DEF IsInjective
    <2>2. CASE ~(a <= Len(s) /\ b <= Len(s))
      BY <1>1, <1>2, <1>3, <1>4, <2>2
    <2> QED BY <2>1, <2>2
  <1>5. IsInjective(t)
    BY <1>4 DEF IsInjective
  <1> QED BY <1>5 DEF t

\* The head is not in the tail.
LEMMA TailOnce ==
  ASSUME NEW s \in Seq(Event), s # <<>>, IsInjective(s)
  PROVE  IsInjective(Tail(s)) /\ Head(s) \notin ToSet(Tail(s))
  <1>1. DOMAIN Tail(s) = 1..(Len(s) - 1) /\ DOMAIN s = 1..Len(s) /\ Len(s) \in Nat \ {0}
    OBVIOUS
  <1>2. \A i \in 1..(Len(s) - 1) : Tail(s)[i] = s[i + 1] /\ i + 1 \in 1..Len(s)
    OBVIOUS
  <1>3. Head(s) = s[1] /\ 1 \in 1..Len(s)
    BY <1>1
  <1>4. ASSUME NEW a \in DOMAIN Tail(s), NEW b \in DOMAIN Tail(s), Tail(s)[a] = Tail(s)[b]
        PROVE  a = b
    BY <1>1, <1>2, <1>4 DEF IsInjective
  <1>5. ASSUME NEW a \in DOMAIN Tail(s) PROVE Tail(s)[a] # Head(s)
    BY <1>1, <1>2, <1>3 DEF IsInjective
  <1> QED BY <1>4, <1>5 DEF IsInjective, ToSet

\* Two sequences without a common element make one without repetition.
LEMMA ConcatOnce ==
  ASSUME NEW s \in Seq(Event), NEW t \in Seq(Event), IsInjective(s), IsInjective(t),
         ToSet(s) \cap ToSet(t) = {}
  PROVE  IsInjective(s \o t)
  <1> SUFFICES ASSUME NEW a \in DOMAIN (s \o t), NEW b \in DOMAIN (s \o t),
                      (s \o t)[a] = (s \o t)[b]
               PROVE  a = b
    BY DEF IsInjective
  <1>1. /\ DOMAIN (s \o t) = 1..(Len(s) + Len(t))
        /\ DOMAIN s = 1..Len(s) /\ DOMAIN t = 1..Len(t)
        /\ Len(s) \in Nat /\ Len(t) \in Nat
    OBVIOUS
  <1>2. \A i \in 1..Len(s) : (s \o t)[i] = s[i] /\ s[i] \in ToSet(s)
    BY DEF ToSet
  <1>3. \A i \in (Len(s) + 1)..(Len(s) + Len(t)) :
           /\ (s \o t)[i] = t[i - Len(s)] /\ i - Len(s) \in 1..Len(t)
           /\ t[i - Len(s)] \in ToSet(t)
    BY DEF ToSet
  <1>4. CASE a <= Len(s) /\ b <= Len(s)
    BY <1>1, <1>2, <1>4 DEF IsInjective
  <1>5. CASE a > Len(s) /\ b > Len(s)
    <2>1. t[a - Len(s)] = t[b - Len(s)]
      BY <1>1, <1>3, <1>5
    <2>2. a - Len(s) = b - Len(s)
      BY <1>1, <1>3, <1>5, <2>1 DEF IsInjective
    <2> QED BY <1>1, <2>2
  <1>6. CASE ~(a <= Len(s) <=> b <= Len(s))
    BY <1>1, <1>2, <1>3, <1>6
  <1> QED BY <1>1, <1>4, <1>5, <1>6

\* A part of a sequence repeats nothing either.
LEMMA PartOnce ==
  ASSUME NEW s \in Seq(Event), IsInjective(s), NEW m \in 1..(Len(s) + 1), NEW n \in 0..Len(s)
  PROVE  IsInjective(SubSeq(s, m, n))
  <1> SUFFICES ASSUME NEW a \in DOMAIN SubSeq(s, m, n), NEW b \in DOMAIN SubSeq(s, m, n),
                      SubSeq(s, m, n)[a] = SubSeq(s, m, n)[b]
               PROVE  a = b
    BY DEF IsInjective
  <1>1. /\ SubSeq(s, m, n)[a] = s[m + a - 1] /\ m + a - 1 \in DOMAIN s
        /\ SubSeq(s, m, n)[b] = s[m + b - 1] /\ m + b - 1 \in DOMAIN s
        /\ a \in Nat /\ b \in Nat
    OBVIOUS
  <1>2. m + a - 1 = m + b - 1
    BY <1>1 DEF IsInjective
  <1> QED BY <1>1, <1>2

\* Cut in two, the halves have nothing in common.
LEMMA SplitApart ==
  ASSUME NEW s \in Seq(Event), IsInjective(s), NEW n \in 0..Len(s)
  PROVE  ToSet(SubSeq(s, 1, n)) \cap ToSet(SubSeq(s, n + 1, Len(s))) = {}
  <1> SUFFICES ASSUME NEW a \in DOMAIN SubSeq(s, 1, n),
                      NEW b \in DOMAIN SubSeq(s, n + 1, Len(s)),
                      SubSeq(s, 1, n)[a] = SubSeq(s, n + 1, Len(s))[b]
               PROVE  FALSE
    BY DEF ToSet
  <1>1. /\ SubSeq(s, 1, n)[a] = s[a] /\ a \in DOMAIN s /\ a <= n
        /\ SubSeq(s, n + 1, Len(s))[b] = s[n + b] /\ n + b \in DOMAIN s /\ n + b > n
    OBVIOUS
  <1>2. a = n + b
    BY <1>1 DEF IsInjective
  <1> QED BY <1>1, <1>2

\* A push of an event that is not in the queue: it is in the queue once, and what was
\* dropped is not.
LEMMA PushOnce ==
  ASSUME NEW q \in Seq(Event), NEW e \in Event, IsInjective(q), e \notin ToSet(q)
  PROVE  /\ IsInjective(PushDropOldest(q, e))
         /\ DroppedBy(q) \subseteq ToSet(q)
         /\ ToSet(PushDropOldest(q, e)) = (ToSet(q) \ DroppedBy(q)) \cup {e}
  <1>0. Capacity \in Nat \ {0}
    BY KafkaAssumption
  <1>1. CASE Len(q) >= Capacity
    <2> DEFINE t == Tail(q)
    <2>1. q # <<>>
      BY <1>0, <1>1
    <2>2. PushDropOldest(q, e) = Append(t, e) /\ DroppedBy(q) = {Head(q)}
      BY <1>1 DEF PushDropOldest, DroppedBy
    <2>3. /\ t \in Seq(Event) /\ Head(q) \in ToSet(q)
          /\ ToSet(q) = {Head(q)} \cup ToSet(t)
      BY <2>1, HeadTailSet
    <2>4. IsInjective(t) /\ Head(q) \notin ToSet(t)
      BY <2>1, TailOnce
    <2> HIDE DEF t
    <2>5. IsInjective(Append(t, e)) /\ ToSet(Append(t, e)) = ToSet(t) \cup {e}
      <3>1. e \notin ToSet(t)
        BY <2>3
      <3>2. IsInjective(Append(t, e))
        BY <2>3, <2>4, <3>1, AppendOnce
      <3>3. /\ Append(t, e) \in Seq(Event)
            /\ Len(Append(t, e)) = Len(t) + 1
            /\ ToSet(Append(t, e)) = ToSet(t) \cup {e}
        BY <2>3, AppendEvent
      <3> QED BY <3>2, <3>3
    <2> QED BY <2>2, <2>3, <2>4, <2>5
  <1>2. CASE ~(Len(q) >= Capacity)
    <2>1. PushDropOldest(q, e) = Append(q, e) /\ DroppedBy(q) = {}
      BY <1>2 DEF PushDropOldest, DroppedBy
    <2>2. IsInjective(Append(q, e))
      BY AppendOnce
    <2>3. /\ Append(q, e) \in Seq(Event)
          /\ Len(Append(q, e)) = Len(q) + 1
          /\ ToSet(Append(q, e)) = ToSet(q) \cup {e}
      BY AppendEvent
    <2> QED BY <2>1, <2>2, <2>3
  <1> QED BY <1>1, <1>2

\* The eight places by number.
LEMMA PlaceOf ==
  /\ DOMAIN Places = 1..8 /\ DOMAIN Places' = 1..8
  /\ Places[1] = pending /\ Places[2] = moving /\ Places[3] = queue /\ Places[4] = hands
  /\ Places[5] = batch["checkin"] /\ Places[6] = batch["checkout"]
  /\ Places[7] = list["checkin"] /\ Places[8] = list["checkout"]
  /\ Places'[1] = pending' /\ Places'[2] = moving' /\ Places'[3] = queue'
  /\ Places'[4] = hands'
  /\ Places'[5] = batch'["checkin"] /\ Places'[6] = batch'["checkout"]
  /\ Places'[7] = list'["checkin"] /\ Places'[8] = list'["checkout"]
  BY DEF Places

\* A step that touches the places i and j only: X comes to them, D leaves them, the
\* rest stays in one of them.
Moves(i, j, X, D) ==
  /\ \A k \in (1..8) \ {i, j} : Places'[k] = Places[k]
  /\ IsInjective(Places'[i]) /\ IsInjective(Places'[j])
  /\ i # j => ToSet(Places'[i]) \cap ToSet(Places'[j]) = {}
  /\ ToSet(Places'[i]) \cup ToSet(Places'[j])
       = ((ToSet(Places[i]) \cup ToSet(Places[j])) \ D) \cup X
  /\ D \subseteq ToSet(Places[i]) \cup ToSet(Places[j])
  /\ X \cap Held = {}

\* Such a step keeps the places apart, and changes what is on its way by D and X.
LEMMA MovesApart ==
  ASSUME Apart, NEW i \in 1..8, NEW j \in 1..8, NEW X, NEW D, Moves(i, j, X, D)
  PROVE  Apart' /\ Held' = (Held \ D) \cup X /\ D \subseteq Held
  <1>1. /\ Held = UNION {ToSet(Places[k]) : k \in 1..8}
        /\ Held' = UNION {ToSet(Places'[k]) : k \in 1..8}
    BY PlaceOf DEF Held
  <1>2. /\ \A k, l \in 1..8 : k # l => ToSet(Places[k]) \cap ToSet(Places[l]) = {}
        /\ \A k \in 1..8 : IsInjective(Places[k])
    BY PlaceOf DEF Apart
  <1>3. ASSUME NEW k \in 1..8 PROVE IsInjective(Places'[k])
    BY <1>2 DEF Moves
  <1>4. ASSUME NEW k \in 1..8, k \notin {i, j}
        PROVE  /\ Places'[k] = Places[k]
               /\ ToSet(Places'[k]) \cap (ToSet(Places'[i]) \cup ToSet(Places'[j])) = {}
    <2>1. Places'[k] = Places[k]
      BY <1>4 DEF Moves
    <2>2. ToSet(Places[k]) \cap X = {}
      BY <1>1 DEF Moves
    <2>3. ToSet(Places[k]) \cap (ToSet(Places[i]) \cup ToSet(Places[j])) = {}
      BY <1>2, <1>4
    <2> QED BY <2>1, <2>2, <2>3 DEF Moves
  <1>5. ASSUME NEW k \in 1..8, NEW l \in 1..8, k # l
        PROVE  ToSet(Places'[k]) \cap ToSet(Places'[l]) = {}
    <2>1. CASE k \notin {i, j} /\ l \notin {i, j}
      BY <1>2, <1>4, <1>5, <2>1
    <2>2. CASE k \notin {i, j} /\ l \in {i, j}
      BY <1>4, <2>2
    <2>3. CASE k \in {i, j} /\ l \notin {i, j}
      BY <1>4, <2>3
    <2>4. CASE k \in {i, j} /\ l \in {i, j}
      BY <1>5, <2>4 DEF Moves
    <2> QED BY <2>1, <2>2, <2>3, <2>4
  <1>6. Apart'
    BY <1>3, <1>5, PlaceOf DEF Apart
  <1>7. D \subseteq Held
    BY <1>1 DEF Moves
  <1>8. ASSUME NEW x \in Held' PROVE x \in (Held \ D) \cup X
    <2>1. PICK k \in 1..8 : x \in ToSet(Places'[k])
      BY <1>1, <1>8
    <2>2. CASE k \in {i, j}
      BY <1>1, <2>1, <2>2 DEF Moves
    <2>3. CASE k \notin {i, j}
      <3>1. x \in ToSet(Places[k])
        BY <1>4, <2>1, <2>3
      <3>2. x \notin ToSet(Places[i]) \cup ToSet(Places[j])
        BY <1>2, <2>3, <3>1
      <3> QED BY <1>1, <3>1, <3>2 DEF Moves
    <2> QED BY <2>2, <2>3
  <1>9. ASSUME NEW x \in (Held \ D) \cup X PROVE x \in Held'
    <2>1. CASE x \in X
      BY <1>1, <2>1 DEF Moves
    <2>2. CASE x \in Held \ D
      <3>1. PICK k \in 1..8 : x \in ToSet(Places[k])
        BY <1>1, <2>2
      <3>2. CASE k \in {i, j}
        BY <1>1, <2>2, <3>1, <3>2 DEF Moves
      <3>3. CASE k \notin {i, j}
        BY <1>1, <1>4, <3>1, <3>3
      <3> QED BY <3>2, <3>3
    <2> QED BY <1>9, <2>1, <2>2
  <1> QED BY <1>6, <1>7, <1>8, <1>9

\* A step is one of Outbox, or changes nothing that Outbox speaks of.
Promised == Contract!Next \/ UNCHANGED Contract!vars

\* The steps of Outbox in terms of the producer.
LEMMA Accepts ==
  ASSUME NEW e \in Event, e \notin Given, Given' = Given \cup {e},
         NEW D, D \subseteq Held, \A c, d \in D : c = d,
         Held' = (Held \ D) \cup {e}, dropped' = dropped \cup D,
         topic' = topic, faults' = faults
  PROVE  Promised
  <1>1. /\ sendFailures' = sendFailures
        /\ keydbFailures' + crashes' = keydbFailures + crashes
    BY DEF faults
  <1>2. Contract!Accept(e)
    BY <1>1 DEF Contract!Accept
  <1> QED BY <1>2 DEF Promised, Contract!Next

LEMMA Publishes ==
  ASSUME NEW S, S \subseteq Held, Held' = Held \ S, topic' = topic \cup S,
         Given' = Given, dropped' = dropped, faults' = faults
  PROVE  Promised
  <1>1. Contract!Publish
    BY DEF Contract!Publish, faults
  <1> QED BY <1>1 DEF Promised, Contract!Next

LEMMA PublishesUnsure ==
  ASSUME NEW S, S \subseteq Held, Held' = Held, topic' = topic \cup S,
         Given' = Given, dropped' = dropped, sendFailures' = sendFailures + 1,
         keydbFailures' = keydbFailures, crashes' = crashes
  PROVE  Promised
  <1>1. Contract!PublishUnsure
    BY DEF Contract!PublishUnsure
  <1> QED BY <1>1 DEF Promised, Contract!Next

LEMMA Overflows ==
  ASSUME NEW D, D \subseteq Held, Held' = Held \ D, dropped' = dropped \cup D,
         Given' = Given, topic' = topic, faults' = faults
  PROVE  Promised
  <1>1. Contract!Overflow
    BY DEF Contract!Overflow, faults
  <1> QED BY <1>1 DEF Promised, Contract!Next

LEMMA Faults ==
  ASSUME Held' \subseteq Held, Given \subseteq Given', dropped' = dropped, topic' = topic,
         sendFailures' = sendFailures,
         keydbFailures' + crashes' = keydbFailures + crashes + 1
  PROVE  Promised
  <1>1. Given' \subseteq Event
    BY DEF Given
  <1>2. Contract!Fault
    BY <1>1 DEF Contract!Fault
  <1> QED BY <1>2 DEF Promised, Contract!Next

LEMMA Stutters ==
  ASSUME Held' = Held, Given' = Given, dropped' = dropped, topic' = topic, faults' = faults
  PROVE  Promised
  BY DEF Promised, Contract!vars, faults

\* Each place holds events, each of them once, and they are on their way.
LEMMA EachPlace ==
  ASSUME SInv
  PROVE  /\ pending \in Seq(Event) /\ IsInjective(pending) /\ ToSet(pending) \subseteq Held
         /\ moving \in Seq(Event) /\ IsInjective(moving) /\ ToSet(moving) \subseteq Held
         /\ queue \in Seq(Event) /\ IsInjective(queue) /\ ToSet(queue) \subseteq Held
         /\ hands \in Seq(Event) /\ IsInjective(hands) /\ ToSet(hands) \subseteq Held
         /\ \A k \in Kinds :
               /\ batch[k] \in Seq(Event) /\ IsInjective(batch[k])
               /\ ToSet(batch[k]) \subseteq Held
               /\ list[k] \in Seq(Event) /\ IsInjective(list[k])
               /\ ToSet(list[k]) \subseteq Held
  <1>1. /\ pending \in Seq(Event) /\ moving \in Seq(Event) /\ queue \in Seq(Event)
        /\ hands \in Seq(Event)
        /\ batch \in [Kinds -> Seq(Event)] /\ list \in [Kinds -> Seq(Event)]
    BY DEF SInv, TypeOK
  <1>2. \A i \in 1..8 : IsInjective(Places[i])
    BY PlaceOf DEF SInv, SentOnce, Apart
  <1>3. /\ IsInjective(pending) /\ IsInjective(moving) /\ IsInjective(queue)
        /\ IsInjective(hands) /\ IsInjective(batch["checkin"]) /\ IsInjective(batch["checkout"])
        /\ IsInjective(list["checkin"]) /\ IsInjective(list["checkout"])
    <2>1. /\ 1 \in 1..8 /\ 2 \in 1..8 /\ 3 \in 1..8 /\ 4 \in 1..8
          /\ 5 \in 1..8 /\ 6 \in 1..8 /\ 7 \in 1..8 /\ 8 \in 1..8
      OBVIOUS
    <2> QED BY <1>2, <2>1, PlaceOf
  <1>4. ASSUME NEW k \in Kinds
        PROVE  /\ batch[k] \in Seq(Event) /\ IsInjective(batch[k])
               /\ ToSet(batch[k]) \subseteq Held
               /\ list[k] \in Seq(Event) /\ IsInjective(list[k])
               /\ ToSet(list[k]) \subseteq Held
    <2>1. k = "checkin" \/ k = "checkout"
      BY DEF Kinds
    <2> QED BY <1>1, <1>3, <2>1, HeldPlaces
  <1> QED BY <1>1, <1>3, <1>4, HeldPlaces

\* What is in one place is not in another.
LEMMA NotBoth ==
  ASSUME SInv, NEW i \in 1..8, NEW j \in 1..8, i # j
  PROVE  ToSet(Places[i]) \cap ToSet(Places[j]) = {}
  BY PlaceOf DEF SInv, SentOnce, Apart

\* The handlers.
LEMMA HandlerApart ==
  ASSUME SInv, NEW e \in Event, HandlerStep(e)
  PROVE  Apart' /\ Promised
  <1>t. handler \in [Event -> {"idle", "pending", "queue", "done"}]
    BY DEF SInv, TypeOK
  <1>a. Apart
    BY DEF SInv, SentOnce
  <1>1. CASE Look(e)
    <2>1. Places' = Places /\ Given' = Given
      BY <1>1, <1>t DEF Look, Places, Given, initVars, queueVars, workerVars, replayVars
    <2>2. Apart' /\ Held' = Held
      BY <1>a, <2>1 DEF Apart, Held
    <2> QED BY <1>1, <2>1, <2>2, Stutters DEF Look
  <1>2. CASE ToPending(e)
    <2>1. e \notin Held /\ e \notin Given /\ Given' = Given \cup {e}
      BY <1>2, <1>t DEF ToPending, SInv, Fresh, Given
    <2>2. e \notin ToSet(pending)
      BY <2>1, EachPlace
    <2>3. /\ IsInjective(pending') /\ DroppedBy(pending) \subseteq ToSet(pending)
          /\ ToSet(pending') = (ToSet(pending) \ DroppedBy(pending)) \cup {e}
      BY <1>2, <2>2, EachPlace, PushOnce DEF ToPending
    <2>4. \A k \in (1..8) \ {1, 1} : Places'[k] = Places[k]
      BY <1>2, PlaceOf DEF ToPending, initVars, queueVars, workerVars, replayVars
    <2>5. Moves(1, 1, {e}, DroppedBy(pending))
      BY <2>1, <2>3, <2>4, PlaceOf DEF Moves
    <2>6. /\ Apart' /\ DroppedBy(pending) \subseteq Held
          /\ Held' = (Held \ DroppedBy(pending)) \cup {e}
      BY <1>a, <2>5, MovesApart
    <2>7. \A c, d \in DroppedBy(pending) : c = d
      BY DEF DroppedBy
    <2> QED BY <1>2, <2>1, <2>6, <2>7, Accepts DEF ToPending
  <1>3. CASE ToQueue(e)
    <2>1. e \notin Held /\ e \notin Given /\ Given' = Given \cup {e}
      BY <1>3, <1>t DEF ToQueue, SInv, Fresh, Given
    <2>2. e \notin ToSet(queue)
      BY <2>1, EachPlace
    <2>3. /\ IsInjective(queue') /\ DroppedBy(queue) \subseteq ToSet(queue)
          /\ ToSet(queue') = (ToSet(queue) \ DroppedBy(queue)) \cup {e}
      BY <1>3, <2>2, EachPlace, PushOnce DEF ToQueue, Push
    <2>4. \A k \in (1..8) \ {3, 3} : Places'[k] = Places[k]
      BY <1>3, PlaceOf DEF ToQueue, initVars, workerVars, replayVars
    <2>5. Moves(3, 3, {e}, DroppedBy(queue))
      BY <2>1, <2>3, <2>4, PlaceOf DEF Moves
    <2>6. /\ Apart' /\ DroppedBy(queue) \subseteq Held
          /\ Held' = (Held \ DroppedBy(queue)) \cup {e}
      BY <1>a, <2>5, MovesApart
    <2>7. \A c, d \in DroppedBy(queue) : c = d
      BY DEF DroppedBy
    <2> QED BY <1>3, <2>1, <2>6, <2>7, Accepts DEF ToQueue, Push
  <1> QED BY <1>1, <1>2, <1>3 DEF HandlerStep

\* The places of the batch and of the lists, by kind.
BatchPlace(k) == IF k = "checkin" THEN 5 ELSE 6
ListPlace(k) == IF k = "checkin" THEN 7 ELSE 8

LEMMA PlaceOfKind ==
  ASSUME NEW k \in Kinds
  PROVE  /\ BatchPlace(k) \in 5..6 /\ ListPlace(k) \in 7..8
         /\ Places[BatchPlace(k)] = batch[k] /\ Places'[BatchPlace(k)] = batch'[k]
         /\ Places[ListPlace(k)] = list[k] /\ Places'[ListPlace(k)] = list'[k]
  BY PlaceOf DEF BatchPlace, ListPlace, Kinds

\* Where only the events of one kind are touched, the places of the other kind stay.
LEMMA OneKind ==
  ASSUME NEW k \in Kinds, \A j \in Kinds \ {k} : batch'[j] = batch[j] /\ list'[j] = list[j]
  PROVE  \A p \in (5..8) \ {BatchPlace(k), ListPlace(k)} : Places'[p] = Places[p]
  <1>1. CASE k = "checkin"
    BY <1>1, PlaceOf DEF Kinds, BatchPlace, ListPlace
  <1>2. CASE k = "checkout"
    BY <1>2, PlaceOf DEF Kinds, BatchPlace, ListPlace
  <1> QED BY <1>1, <1>2 DEF Kinds

\* An assignment to one kind.
LEMMA SetKind ==
  ASSUME NEW k \in Kinds, NEW f \in [Kinds -> Seq(Event)], NEW s, NEW g,
         g = [f EXCEPT ![k] = s]
  PROVE  g[k] = s /\ \A j \in Kinds \ {k} : g[j] = f[j]
  OBVIOUS

\* The head of a sequence (moving or hands) is pushed onto the queue.
LEMMA PushFrom ==
  ASSUME SInv, NEW i \in {2, 4}, NEW s \in Seq(Event), s # <<>>, Places[i] = s,
         Places'[i] = Tail(s), queue' = PushDropOldest(queue, Head(s)),
         \A k \in (1..8) \ {i, 3} : Places'[k] = Places[k]
  PROVE  Moves(i, 3, {}, DroppedBy(queue))
  <1>1. /\ Head(s) \in Event /\ Tail(s) \in Seq(Event)
        /\ ToSet(s) = {Head(s)} \cup ToSet(Tail(s))
    BY HeadTailSet
  <1>2. ToSet(s) \cap ToSet(queue) = {}
    BY NotBoth, PlaceOf
  <1>3. IsInjective(s)
    BY PlaceOf DEF SInv, SentOnce, Apart
  <1>4. IsInjective(Tail(s)) /\ Head(s) \notin ToSet(Tail(s))
    BY <1>3, TailOnce
  <1>5. Head(s) \notin ToSet(queue)
    BY <1>1, <1>2
  <1>6. /\ IsInjective(queue') /\ DroppedBy(queue) \subseteq ToSet(queue)
        /\ ToSet(queue') = (ToSet(queue) \ DroppedBy(queue)) \cup {Head(s)}
    BY <1>1, <1>5, EachPlace, PushOnce
  <1>7. Places[3] = queue /\ Places'[3] = queue'
    BY PlaceOf
  <1>8. ToSet(Tail(s)) \cap ToSet(queue') = {}
    BY <1>1, <1>2, <1>4, <1>6
  <1>9. ToSet(Tail(s)) \cup ToSet(queue') = ((ToSet(s) \cup ToSet(queue)) \ DroppedBy(queue)) \cup {}
    BY <1>1, <1>2, <1>4, <1>6
  <1> QED BY <1>4, <1>6, <1>7, <1>8, <1>9 DEF Moves

\* A permit acquired, or a pop that finds the queue empty, moves nothing.
LEMMA NoMoves ==
  ASSUME SInv, UNCHANGED <<pending, moving, queue, hands, batch, list>>
  PROVE  Apart' /\ Held' = Held
  <1>1. Places' = Places
    BY DEF Places
  <1> QED BY <1>1 DEF SInv, SentOnce, Apart, Held

\* A move that neither brings nor loses an event.
LEMMA MovesOnly ==
  ASSUME SInv, NEW i \in 1..8, NEW j \in 1..8, Moves(i, j, {}, {})
  PROVE  Apart' /\ Held' = Held
  <1>1. Apart' /\ Held' = (Held \ {}) \cup {}
    BY MovesApart DEF SInv, SentOnce
  <1> QED BY <1>1

\* A move that only loses events.
LEMMA MovesLess ==
  ASSUME SInv, NEW i \in 1..8, NEW j \in 1..8, NEW D, Moves(i, j, {}, D)
  PROVE  Apart' /\ Held' = Held \ D /\ D \subseteq Held
  <1>1. Apart' /\ Held' = (Held \ D) \cup {} /\ D \subseteq Held
    BY MovesApart DEF SInv, SentOnce
  <1> QED BY <1>1

\* kafka_init_background.
LEMMA InitStepApart ==
  ASSUME SInv, InitStep
  PROVE  Apart' /\ Promised
  <1>a. Apart
    BY DEF SInv, SentOnce
  <1>1. CASE SetProducer
    <2>1. Places' = Places /\ Given' = Given
      BY <1>1 DEF SetProducer, Places, Given, queueVars, workerVars, replayVars
    <2>2. Apart' /\ Held' = Held
      BY <1>a, <2>1 DEF Apart, Held
    <2> QED BY <1>1, <2>1, <2>2, Stutters DEF SetProducer
  <1>2. CASE DrainPending
    <2>1. moving = <<>> /\ pending' = <<>> /\ moving' = pending
      BY <1>2 DEF DrainPending, SInv, NothingLeftOver
    <2>2. \A k \in (1..8) \ {1, 2} : Places'[k] = Places[k]
      BY <1>2, PlaceOf DEF DrainPending, queueVars, workerVars, replayVars
    <2>3. Moves(1, 2, {}, {})
      BY <2>1, <2>2, PlaceOf, EachPlace, EmptyOnce DEF Moves
    <2>4. 1 \in 1..8 /\ 2 \in 1..8
      OBVIOUS
    <2>5. Apart' /\ Held' = Held
      BY <2>3, <2>4, MovesOnly
    <2> QED BY <1>2, <2>5, Stutters DEF DrainPending, Given
  <1>3. CASE MovePending
    <2>1. \A k \in (1..8) \ {2, 3} : Places'[k] = Places[k]
      BY <1>3, PlaceOf DEF MovePending, workerVars, replayVars
    <2>2. /\ moving # <<>> /\ Places[2] = moving /\ Places'[2] = Tail(moving)
          /\ queue' = PushDropOldest(queue, Head(moving)) /\ moving \in Seq(Event)
      BY <1>3, PlaceOf, EachPlace DEF MovePending, Push
    <2>3. Moves(2, 3, {}, DroppedBy(queue))
      BY <2>1, <2>2, PushFrom
    <2>4. Apart' /\ Held' = Held \ DroppedBy(queue) /\ DroppedBy(queue) \subseteq Held
      BY <1>a, <2>3, MovesApart
    <2> QED BY <1>3, <2>4, Overflows DEF MovePending, Push, Given
  <1> QED BY <1>1, <1>2, <1>3 DEF InitStep

\* The worker takes the head of the queue into its batch.
LEMMA PopMoves ==
  ASSUME SInv, queue # <<>>,
         batch' = [batch EXCEPT ![KindOf(Head(queue))] = Append(@, Head(queue))],
         queue' = Tail(queue), UNCHANGED <<pending, moving, hands, list>>
  PROVE  Moves(3, BatchPlace(KindOf(Head(queue))), {}, {})
  <1> DEFINE e == Head(queue)
             k == KindOf(e)
  <1>1. /\ e \in Event /\ Tail(queue) \in Seq(Event)
        /\ ToSet(queue) = {e} \cup ToSet(Tail(queue))
    BY HeadTailSet, EachPlace
  <1>2. k \in Kinds
    BY DEF KindOf, Kinds
  <1>3. IsInjective(Tail(queue)) /\ e \notin ToSet(Tail(queue))
    BY TailOnce, EachPlace
  <1>4. /\ BatchPlace(k) \in 5..6 /\ ListPlace(k) \in 7..8
        /\ Places[BatchPlace(k)] = batch[k] /\ Places'[BatchPlace(k)] = batch'[k]
    BY <1>2, PlaceOfKind
  <1>5. Places[3] = queue /\ Places'[3] = queue'
    BY PlaceOf
  <1>6. batch \in [Kinds -> Seq(Event)]
    BY DEF SInv, TypeOK
  <1> HIDE DEF e, k
  <1>7. ToSet(queue) \cap ToSet(batch[k]) = {}
    <2>1. BatchPlace(k) \in 1..8 /\ BatchPlace(k) # 3 /\ 3 \in 1..8
      BY <1>4
    <2>2. ToSet(Places[3]) \cap ToSet(Places[BatchPlace(k)]) = {}
      BY <2>1, NotBoth
    <2> QED BY <1>4, <1>5, <2>2
  <1>8. batch'[k] = Append(batch[k], e) /\ \A j \in Kinds \ {k} : batch'[j] = batch[j]
    BY <1>2, <1>6, SetKind DEF e, k
  <1>9. batch[k] \in Seq(Event) /\ IsInjective(batch[k]) /\ e \notin ToSet(batch[k])
    BY <1>1, <1>2, <1>7, EachPlace
  <1>10. IsInjective(batch'[k]) /\ ToSet(batch'[k]) = ToSet(batch[k]) \cup {e}
    <2>1. IsInjective(Append(batch[k], e))
      BY <1>1, <1>9, AppendOnce
    <2>2. /\ Append(batch[k], e) \in Seq(Event)
          /\ Len(Append(batch[k], e)) = Len(batch[k]) + 1
          /\ ToSet(Append(batch[k], e)) = ToSet(batch[k]) \cup {e}
      BY <1>1, <1>9, AppendEvent
    <2> QED BY <1>8, <2>1, <2>2
  <1>11. \A p \in (1..8) \ {3, BatchPlace(k)} : Places'[p] = Places[p]
    <2>1. \A p \in (5..8) \ {BatchPlace(k), ListPlace(k)} : Places'[p] = Places[p]
      BY <1>2, <1>8, OneKind
    <2>2. Places'[ListPlace(k)] = Places[ListPlace(k)]
      BY <1>2, PlaceOfKind
    <2>3. Places'[1] = Places[1] /\ Places'[2] = Places[2] /\ Places'[4] = Places[4]
      BY PlaceOf
    <2>4. \A p \in (1..8) \ {3} : p \in 5..8 \/ p = 1 \/ p = 2 \/ p = 4
      OBVIOUS
    <2> QED BY <2>1, <2>2, <2>3, <2>4
  <1>12. ToSet(Tail(queue)) \cap ToSet(batch'[k]) = {}
    BY <1>1, <1>3, <1>7, <1>10
  <1>13. ToSet(Tail(queue)) \cup ToSet(batch'[k]) = ((ToSet(queue) \cup ToSet(batch[k])) \ {}) \cup {}
    BY <1>1, <1>10
  <1> QED BY <1>3, <1>4, <1>5, <1>10, <1>11, <1>12, <1>13 DEF Moves, k, e

\* What the worker is sending leaves its batch.
LEMMA SettleMoves ==
  ASSUME SInv, Settle
  PROVE  /\ SendKind \in Kinds /\ Sending = batch[SendKind] /\ Sending \in Seq(Event)
         /\ IsInjective(Sending)
         /\ batch'[SendKind] = <<>> /\ \A j \in Kinds \ {SendKind} : batch'[j] = batch[j]
  <1>1. SendKind \in Kinds
    BY DEF SendKind, Kinds
  <1>2. batch \in [Kinds -> Seq(Event)]
    BY DEF SInv, TypeOK
  <1>3. batch'[SendKind] = <<>> /\ \A j \in Kinds \ {SendKind} : batch'[j] = batch[j]
    BY <1>1, <1>2, SetKind DEF Settle
  <1> QED BY <1>1, <1>3, EachPlace DEF Sending

\* Where only that happens, the events sent are on their way no more.
LEMMA SettleLess ==
  ASSUME SInv, Settle, UNCHANGED <<pending, moving, queue, hands, list>>
  PROVE  Apart' /\ Held' = Held \ ToSet(Sending) /\ ToSet(Sending) \subseteq Held
  <1> DEFINE b == BatchPlace(SendKind)
  <1>1. /\ SendKind \in Kinds /\ Sending = batch[SendKind]
        /\ batch'[SendKind] = <<>> /\ \A j \in Kinds \ {SendKind} : batch'[j] = batch[j]
    BY SettleMoves
  <1>2. /\ b \in 1..8 /\ Places[b] = Sending /\ Places'[b] = <<>>
    BY <1>1, PlaceOfKind
  <1>3. \A p \in (1..8) \ {b, b} : Places'[p] = Places[p]
    <2>1. \A p \in (5..8) \ {b, ListPlace(SendKind)} : Places'[p] = Places[p]
      BY <1>1, OneKind
    <2>2. Places'[ListPlace(SendKind)] = Places[ListPlace(SendKind)]
      BY <1>1, PlaceOfKind
    <2>3. /\ Places'[1] = Places[1] /\ Places'[2] = Places[2]
          /\ Places'[3] = Places[3] /\ Places'[4] = Places[4]
      BY PlaceOf
    <2>4. \A p \in 1..8 : p \in 5..8 \/ p = 1 \/ p = 2 \/ p = 3 \/ p = 4
      OBVIOUS
    <2> QED BY <2>1, <2>2, <2>3, <2>4
  <1> HIDE DEF b
  <1>4. Moves(b, b, {}, ToSet(Sending))
    BY <1>2, <1>3, EmptyOnce DEF Moves
  <1> QED BY <1>2, <1>4, MovesLess

\* The batch is appended to its list, of which s stays.
LEMMA PersistMoves ==
  ASSUME SInv, Settle, NEW s \in Seq(Event), IsInjective(s),
         ToSet(s) \subseteq ToSet(list[SendKind] \o Sending),
         list' = [list EXCEPT ![SendKind] = s],
         UNCHANGED <<pending, moving, queue, hands>>
  PROVE  /\ Apart'
         /\ Held' = Held \ (ToSet(list[SendKind] \o Sending) \ ToSet(s))
         /\ (ToSet(list[SendKind] \o Sending) \ ToSet(s)) \subseteq Held
  <1> DEFINE k == SendKind
             b == BatchPlace(k)
             l == ListPlace(k)
             D == ToSet(list[k] \o Sending) \ ToSet(s)
  <1>1. /\ k \in Kinds /\ Sending = batch[k] /\ Sending \in Seq(Event)
        /\ batch'[k] = <<>> /\ \A j \in Kinds \ {k} : batch'[j] = batch[j]
    BY SettleMoves
  <1>2. list \in [Kinds -> Seq(Event)]
    BY DEF SInv, TypeOK
  <1>3. list'[k] = s /\ \A j \in Kinds \ {k} : list'[j] = list[j]
    BY <1>1, <1>2, SetKind
  <1>4. ToSet(list[k] \o Sending) = ToSet(list[k]) \cup ToSet(Sending)
    <2>1. list[k] \in Seq(Event)
      BY <1>1, <1>2
    <2> HIDE DEF k
    <2>2. list[k] \o Sending \in Seq(Event)
            /\ ToSet(list[k] \o Sending) = ToSet(list[k]) \cup ToSet(Sending)
      BY <1>1, <2>1, ConcatSet
    <2> QED BY <2>2
  <1>5. /\ b \in 1..8 /\ l \in 1..8 /\ b # l
        /\ Places[b] = Sending /\ Places'[b] = <<>> /\ Places[l] = list[k] /\ Places'[l] = s
    BY <1>1, <1>3, PlaceOfKind
  <1>6. \A p \in (1..8) \ {b, l} : Places'[p] = Places[p]
    <2>1. \A p \in (5..8) \ {b, l} : Places'[p] = Places[p]
      BY <1>1, <1>3, OneKind
    <2>2. /\ Places'[1] = Places[1] /\ Places'[2] = Places[2]
          /\ Places'[3] = Places[3] /\ Places'[4] = Places[4]
      BY PlaceOf
    <2>3. \A p \in 1..8 : p \in 5..8 \/ p = 1 \/ p = 2 \/ p = 3 \/ p = 4
      OBVIOUS
    <2> QED BY <2>1, <2>2, <2>3
  <1>7. ToSet(s) = ((ToSet(Sending) \cup ToSet(list[k])) \ D) \cup {}
    BY <1>4
  <1>8. D \subseteq ToSet(Sending) \cup ToSet(list[k])
    BY <1>4
  <1> HIDE DEF b, l, D, k
  <1>9. Moves(b, l, {}, D)
    BY <1>5, <1>6, <1>7, <1>8, EmptyOnce DEF Moves
  <1>10. Apart' /\ Held' = Held \ D /\ D \subseteq Held
    BY <1>5, <1>9, MovesLess
  <1> QED BY <1>10 DEF D, k

\* A list and a batch of its kind have no event in common.
LEMMA LongOnce ==
  ASSUME SInv, Settle
  PROVE  list[SendKind] \o Sending \in Seq(Event) /\ IsInjective(list[SendKind] \o Sending)
  <1> DEFINE k == SendKind
             s == list[k]
  <1>1. k \in Kinds /\ Sending = batch[k] /\ Sending \in Seq(Event) /\ IsInjective(Sending)
    BY SettleMoves
  <1>2. s \in Seq(Event) /\ IsInjective(s)
    BY <1>1, EachPlace
  <1>3. ToSet(s) \cap ToSet(Sending) = {}
    <2>1. /\ BatchPlace(k) \in 1..8 /\ ListPlace(k) \in 1..8 /\ BatchPlace(k) # ListPlace(k)
          /\ Places[BatchPlace(k)] = Sending /\ Places[ListPlace(k)] = s
      BY <1>1, PlaceOfKind
    <2>2. ToSet(Places[ListPlace(k)]) \cap ToSet(Places[BatchPlace(k)]) = {}
      BY <2>1, NotBoth
    <2> QED BY <2>1, <2>2
  <1> HIDE DEF s
  <1>4. IsInjective(s \o Sending)
    BY <1>1, <1>2, <1>3, ConcatOnce
  <1>5. s \o Sending \in Seq(Event)
    BY <1>1, <1>2
  <1> QED BY <1>4, <1>5 DEF s, k

\* The trimmed list is the end of the list.
LEMMA TrimOnce ==
  ASSUME NEW s \in Seq(Event), IsInjective(s)
  PROVE  LET keep == IF Len(s) > MaxListLen
                     THEN SubSeq(s, Len(s) - MaxListLen + 1, Len(s)) ELSE s
         IN  keep \in Seq(Event) /\ IsInjective(keep) /\ ToSet(keep) \subseteq ToSet(s)
  <1>1. CASE Len(s) > MaxListLen
    <2> DEFINE m == Len(s) - MaxListLen + 1
    <2>1. m \in 1..(Len(s) + 1) /\ Len(s) \in 0..Len(s)
      BY <1>1, KafkaAssumption
    <2> HIDE DEF m
    <2>2. /\ SubSeq(s, m, Len(s)) \in Seq(Event)
          /\ ToSet(SubSeq(s, m, Len(s))) \subseteq ToSet(s)
      BY <2>1, PartSet
    <2>3. IsInjective(SubSeq(s, m, Len(s)))
      BY <2>1, PartOnce
    <2> QED BY <1>1, <2>2, <2>3 DEF m
  <1>2. CASE ~(Len(s) > MaxListLen)
    BY <1>2
  <1> QED BY <1>1, <1>2

\* worker_loop.
LEMMA WorkerApart ==
  ASSUME SInv, WorkerStep
  PROVE  Apart' /\ Promised
  <1> USE DEF initVars, queueVars, replayVars, faults
  <1>k. ASSUME NEW k \in Kinds PROVE 3 \in 1..8 /\ BatchPlace(k) \in 1..8
    BY <1>k, PlaceOfKind
  <1>h. KindOf(Head(queue)) \in Kinds
    BY DEF KindOf, Kinds
  <1>1. CASE Acquire
    <2>1. Apart' /\ Held' = Held
      BY <1>1, NoMoves DEF Acquire
    <2> QED BY <1>1, <2>1, Stutters DEF Acquire, Given
  <1>2. CASE Take
    <2>1. Apart' /\ Held' = Held
      <3>1. CASE queue # <<>>
        <4>1. Moves(3, BatchPlace(KindOf(Head(queue))), {}, {})
          BY <1>2, <3>1, PopMoves DEF Take
        <4> QED BY <1>k, <1>h, <4>1, MovesOnly
      <3>2. CASE queue = <<>>
        BY <1>2, <3>2, NoMoves DEF Take
      <3> QED BY <3>1, <3>2
    <2> QED BY <1>2, <2>1, Stutters DEF Take, Given
  <1>3. CASE Fill
    <2>1. Apart' /\ Held' = Held
      <3>1. CASE /\ batch' = [batch EXCEPT ![KindOf(Head(queue))] = Append(@, Head(queue))]
                 /\ queue # <<>> /\ queue' = Tail(queue)
        <4>1. Moves(3, BatchPlace(KindOf(Head(queue))), {}, {})
          BY <1>3, <3>1, PopMoves DEF Fill
        <4> QED BY <1>k, <1>h, <4>1, MovesOnly
      <3>2. CASE UNCHANGED <<batch, queue>>
        BY <1>3, <3>2, NoMoves DEF Fill
      <3> QED BY <1>3, <3>1, <3>2 DEF Fill
    <2> QED BY <1>3, <2>1, Stutters DEF Fill, Given
  <1>4. CASE SendOk
    <2>1. Apart' /\ Held' = Held \ ToSet(Sending) /\ ToSet(Sending) \subseteq Held
      BY <1>4, SettleLess DEF SendOk
    <2> QED BY <1>4, <2>1, Publishes DEF SendOk, Given
  <1>5. CASE SendAgain \/ GiveUpSending
    <2>1. AttemptFails /\ UNCHANGED batch
      BY <1>5 DEF SendAgain, GiveUpSending
    <2>2. Apart' /\ Held' = Held
      BY <2>1, NoMoves DEF AttemptFails
    <2>3. ToSet(Sending) \subseteq Held
      BY EachPlace DEF Sending, SendKind, Kinds
    <2>4. PICK S \in SUBSET ToSet(Sending) : topic' = topic \cup S
      BY <2>1 DEF AttemptFails
    <2> QED BY <2>1, <2>2, <2>3, <2>4, PublishesUnsure DEF AttemptFails, Given
  <1>6. CASE Persist
    <2> DEFINE long == list[SendKind] \o Sending
               keep == IF Len(long) > MaxListLen
                       THEN SubSeq(long, Len(long) - MaxListLen + 1, Len(long)) ELSE long
    <2>1. /\ Settle /\ list' = [list EXCEPT ![SendKind] = keep]
          /\ dropped' = dropped \cup (ToSet(long) \ ToSet(keep))
          /\ UNCHANGED <<pending, moving, queue, hands, handler, topic, faults>>
      BY <1>6 DEF Persist
    <2>2. long \in Seq(Event) /\ IsInjective(long)
      BY <2>1, LongOnce
    <2>3. keep \in Seq(Event) /\ IsInjective(keep) /\ ToSet(keep) \subseteq ToSet(long)
      BY <2>2, TrimOnce
    <2> HIDE DEF keep
    <2>4. Apart' /\ Held' = Held \ (ToSet(long) \ ToSet(keep))
            /\ (ToSet(long) \ ToSet(keep)) \subseteq Held
      BY <2>1, <2>3, PersistMoves
    <2> HIDE DEF long
    <2> QED BY <2>1, <2>4, Overflows DEF Given
  <1>7. CASE PersistFails
    <2> DEFINE long == list[SendKind] \o Sending
               keep == IF Len(long) > MaxListLen
                       THEN SubSeq(long, Len(long) - MaxListLen + 1, Len(long)) ELSE long
    <2>1. /\ Settle
          /\ list' = list \/ \E l \in {long, keep} : list' = [list EXCEPT ![SendKind] = l]
          /\ keydbFailures' = keydbFailures + 1
          /\ UNCHANGED <<pending, moving, queue, hands, handler, topic, dropped,
                         sendFailures, crashes>>
      BY <1>7 DEF PersistFails
    <2>2. Apart' /\ Held' \subseteq Held
      <3>1. CASE list' = list
        BY <2>1, <3>1, SettleLess
      <3>2. ASSUME NEW l \in {long, keep}, list' = [list EXCEPT ![SendKind] = l]
            PROVE  Apart' /\ Held' \subseteq Held
        <4>1. long \in Seq(Event) /\ IsInjective(long)
          BY <2>1, LongOnce
        <4>2. keep \in Seq(Event) /\ IsInjective(keep) /\ ToSet(keep) \subseteq ToSet(long)
          BY <4>1, TrimOnce
        <4> HIDE DEF keep
        <4>3. l \in Seq(Event) /\ IsInjective(l) /\ ToSet(l) \subseteq ToSet(long)
          BY <3>2, <4>1, <4>2
        <4> QED BY <2>1, <3>2, <4>3, PersistMoves
      <3> QED BY <2>1, <3>1, <3>2
    <2>3. keydbFailures' + crashes' = keydbFailures + crashes + 1
      BY <2>1 DEF SInv, TypeOK
    <2> QED BY <2>1, <2>2, <2>3, Faults DEF Given
  <1> QED BY <1>1, <1>2, <1>3, <1>4, <1>5, <1>6, <1>7 DEF WorkerStep

\* A list of a kind is cut: its first n events leave it.
LEMMA ListCut ==
  ASSUME SInv, replayed < ReplayMax,
         NEW n, n = Min({ReplayBatch, ReplayMax - replayed, Len(list[replay])}),
         list' = [list EXCEPT ![replay] = SubSeq(@, n + 1, Len(@))]
  PROVE  LET first == SubSeq(list[replay], 1, n)
         IN  /\ replay \in Kinds
             /\ IsInjective(first) /\ IsInjective(list'[replay])
             /\ ToSet(first) \cap ToSet(list'[replay]) = {}
             /\ ToSet(list[replay]) = ToSet(first) \cup ToSet(list'[replay])
             /\ \A j \in Kinds \ {replay} : list'[j] = list[j]
  <1> DEFINE s == list[replay]
  <1>1. replay \in Kinds /\ list \in [Kinds -> Seq(Event)] /\ TypeOK
    BY DEF SInv, TypeOK
  <1>2. s \in Seq(Event) /\ n \in 0..Len(s)
    BY <1>1, ReplayCount
  <1>3. IsInjective(s)
    BY <1>1, EachPlace
  <1>4. list'[replay] = SubSeq(s, n + 1, Len(s)) /\ \A j \in Kinds \ {replay} : list'[j] = list[j]
    BY <1>1, SetKind
  <1> HIDE DEF s
  <1>5. /\ 1 \in 1..(Len(s) + 1) /\ n + 1 \in 1..(Len(s) + 1) /\ Len(s) \in 0..Len(s)
    BY <1>2
  <1>6. IsInjective(SubSeq(s, 1, n)) /\ IsInjective(SubSeq(s, n + 1, Len(s)))
    BY <1>2, <1>3, <1>5, PartOnce
  <1>7. ToSet(SubSeq(s, 1, n)) \cap ToSet(SubSeq(s, n + 1, Len(s))) = {}
    BY <1>2, <1>3, SplitApart
  <1>8. ToSet(s) = ToSet(SubSeq(s, 1, n)) \cup ToSet(SubSeq(s, n + 1, Len(s)))
    BY <1>2, SplitSet
  <1> QED BY <1>1, <1>4, <1>6, <1>7, <1>8 DEF s

\* keydb_replay_loop.
LEMMA ReplayApart ==
  ASSUME SInv, ReplayStep
  PROVE  Apart' /\ Promised
  <1> USE DEF initVars, queueVars, workerVars, faults
  <1> DEFINE n == Min({ReplayBatch, ReplayMax - replayed, Len(list[replay])})
             first == SubSeq(list[replay], 1, n)
             cut == [list EXCEPT ![replay] = SubSeq(@, n + 1, Len(@))]
             l == ListPlace(replay)
  <1>k. replay \in Kinds
    BY DEF SInv, TypeOK
  <1>l. /\ l \in 7..8 /\ l \in 1..8 /\ 4 \in 1..8 /\ l # 4
        /\ Places[l] = list[replay] /\ Places'[l] = list'[replay]
    BY <1>k, PlaceOfKind
  <1>4. Places[4] = hands /\ Places'[4] = hands'
    BY PlaceOf
  <1>o. ASSUME list' = cut, replayed < ReplayMax,
               UNCHANGED <<pending, moving, queue, batch>>
        PROVE  \A p \in (1..8) \ {l, 4} : Places'[p] = Places[p]
    <2>1. \A j \in Kinds \ {replay} : batch'[j] = batch[j] /\ list'[j] = list[j]
      BY <1>o, ListCut
    <2>2. \A p \in (5..8) \ {BatchPlace(replay), l} : Places'[p] = Places[p]
      BY <1>k, <2>1, OneKind
    <2>3. Places'[BatchPlace(replay)] = Places[BatchPlace(replay)]
      BY <1>k, <1>o, PlaceOfKind
    <2>4. /\ Places'[1] = Places[1] /\ Places'[2] = Places[2] /\ Places'[3] = Places[3]
      BY <1>o, PlaceOf
    <2>5. \A p \in (1..8) \ {4} : p \in 5..8 \/ p = 1 \/ p = 2 \/ p = 3
      OBVIOUS
    <2> QED BY <2>2, <2>3, <2>4, <2>5
  <1>1. CASE ReplayPop
    <2>1. /\ hands = <<>> /\ replayed < ReplayMax /\ hands' = first /\ list' = cut
          /\ UNCHANGED <<pending, moving, queue, batch, handler, topic, dropped, faults>>
      BY <1>1 DEF ReplayPop
    <2>2. /\ IsInjective(first) /\ IsInjective(list'[replay])
          /\ ToSet(first) \cap ToSet(list'[replay]) = {}
          /\ ToSet(list[replay]) = ToSet(first) \cup ToSet(list'[replay])
      BY <2>1, ListCut
    <2>3. \A p \in (1..8) \ {l, 4} : Places'[p] = Places[p]
      BY <1>o, <2>1
    <2> HIDE DEF n, first, cut, l
    <2>4. Moves(l, 4, {}, {})
      BY <1>l, <1>4, <2>1, <2>2, <2>3, EmptyOnce DEF Moves
    <2>5. Apart' /\ Held' = Held
      BY <1>l, <2>4, MovesOnly
    <2> QED BY <2>1, <2>5, Stutters DEF Given
  <1>2. CASE ReplayPopFails
    <2>1. /\ hands = <<>> /\ replayed < ReplayMax /\ hands' = hands /\ list' \in {list, cut}
          /\ keydbFailures' = keydbFailures + 1
          /\ UNCHANGED <<pending, moving, queue, batch, handler, topic, dropped,
                         sendFailures, crashes>>
      BY <1>2 DEF ReplayPopFails, NextList
    <2>2. Apart' /\ Held' \subseteq Held
      <3>1. CASE list' = list
        BY <2>1, <3>1, NoMoves
      <3>2. CASE list' = cut
        <4>1. /\ IsInjective(list'[replay])
              /\ ToSet(first) \cap ToSet(list'[replay]) = {}
              /\ ToSet(list[replay]) = ToSet(first) \cup ToSet(list'[replay])
          BY <2>1, <3>2, ListCut
        <4>2. \A p \in (1..8) \ {l, l} : Places'[p] = Places[p]
          BY <1>o, <1>4, <2>1, <3>2
        <4> HIDE DEF n, first, cut, l
        <4>3. Moves(l, l, {}, ToSet(first))
          BY <1>l, <4>1, <4>2 DEF Moves
        <4> QED BY <1>l, <4>3, MovesLess
      <3> QED BY <2>1, <3>1, <3>2
    <2>3. keydbFailures' + crashes' = keydbFailures + crashes + 1
      BY <2>1 DEF SInv, TypeOK
    <2> QED BY <2>1, <2>2, <2>3, Faults DEF Given
  <1>3. CASE ReplayPush
    <2>1. \A k \in (1..8) \ {4, 3} : Places'[k] = Places[k]
      BY <1>3, PlaceOf DEF ReplayPush
    <2>2. /\ hands # <<>> /\ Places[4] = hands /\ Places'[4] = Tail(hands)
          /\ queue' = PushDropOldest(queue, Head(hands)) /\ hands \in Seq(Event)
          /\ dropped' = dropped \cup DroppedBy(queue)
          /\ UNCHANGED <<handler, topic, faults>>
      BY <1>3, PlaceOf, EachPlace DEF ReplayPush, Push
    <2>3. Moves(4, 3, {}, DroppedBy(queue))
      BY <2>1, <2>2, PushFrom
    <2>4. 3 \in 1..8 /\ 4 \in 1..8
      OBVIOUS
    <2>5. Apart' /\ Held' = Held \ DroppedBy(queue) /\ DroppedBy(queue) \subseteq Held
      BY <2>3, <2>4, MovesLess
    <2> QED BY <2>2, <2>5, Overflows DEF Given
  <1>5. CASE ReplayNext
    <2>1. Apart' /\ Held' = Held
      BY <1>5, NoMoves DEF ReplayNext, NextList
    <2> QED BY <1>5, <2>1, Stutters DEF ReplayNext, NextList, Given
  <1> QED BY <1>1, <1>2, <1>3, <1>5 DEF ReplayStep

\* A crash empties the places of the process.
LEMMA CrashApart ==
  ASSUME SInv, Crash
  PROVE  Apart' /\ Promised
  <1>1. ASSUME NEW i \in 1..8 PROVE Places'[i] \in {Places[i], <<>>}
    <2>1. /\ Places'[1] = <<>> /\ Places'[2] = <<>> /\ Places'[3] = <<>> /\ Places'[4] = <<>>
          /\ Places'[5] = <<>> /\ Places'[6] = <<>>
      BY PlaceOf DEF Crash, NewProcess, Empty, Kinds
    <2>2. Places'[7] = Places[7] /\ Places'[8] = Places[8]
      BY PlaceOf DEF Crash
    <2> QED BY <2>1, <2>2
  <1>2. ASSUME NEW i \in 1..8
        PROVE  IsInjective(Places'[i]) /\ ToSet(Places'[i]) \subseteq ToSet(Places[i])
    <2>1. IsInjective(Places[i])
      BY PlaceOf DEF SInv, SentOnce, Apart
    <2> QED BY <1>1, <2>1, EmptyOnce
  <1>3. ASSUME NEW i \in 1..8, NEW j \in 1..8, i # j
        PROVE  ToSet(Places'[i]) \cap ToSet(Places'[j]) = {}
    BY <1>2, <1>3, NotBoth
  <1>4. Apart'
    BY <1>2, <1>3, PlaceOf DEF Apart
  <1>5. Held' \subseteq Held
    BY <1>2, PlaceOf DEF Held
  <1>6. Given \subseteq Given'
    BY DEF Crash, Given
  <1>7. keydbFailures' + crashes' = keydbFailures + crashes + 1
    BY DEF Crash, SInv, TypeOK
  <1> QED BY <1>4, <1>5, <1>6, <1>7, Faults DEF Crash

\* Every step keeps the events apart and is allowed by Outbox.
LEMMA NextApart ==
  ASSUME SInv, [Next]_vars
  PROVE  Apart' /\ Promised
  <1>1. CASE \E e \in Event : HandlerStep(e)
    BY <1>1, HandlerApart
  <1>2. CASE PermitStep
    <2>1. UNCHANGED <<handler, pending, initVars, queue, workerVars, list, replayVars, topic,
                      dropped, faults>>
      BY <1>2 DEF PermitStep, AddPermit
    <2>2. Apart' /\ Held' = Held
      BY <2>1, NoMoves DEF initVars, workerVars, replayVars
    <2> QED BY <2>1, <2>2, Stutters DEF Given
  <1>3. CASE InitStep
    BY <1>3, InitStepApart
  <1>4. CASE WorkerStep
    BY <1>4, WorkerApart
  <1>5. CASE ReplayStep
    BY <1>5, ReplayApart
  <1>6. CASE Crash
    BY <1>6, CrashApart
  <1>7. CASE UNCHANGED vars
    <2>1. Apart' /\ Held' = Held
      BY <1>7, NoMoves DEF vars, initVars, queueVars, workerVars, replayVars
    <2> QED BY <1>7, <2>1, Stutters DEF vars, Given
  <1> QED BY <1>1, <1>2, <1>3, <1>4, <1>5, <1>6, <1>7 DEF Next

\* Outbox never brings back what it published or dropped: a step that it allows keeps
\* the rest of SentOnce.
LEMMA OutboxKeeps ==
  ASSUME SInv, Promised, sendFailures' \in Nat, Apart'
  PROVE  SentOnce' /\ Fresh'
  <1>0. /\ sendFailures \in Nat
        /\ Held \cap dropped = {} /\ (sendFailures = 0 => Held \cap topic = {})
        /\ Held \cup topic \cup dropped \subseteq Given
    <2>1. sendFailures \in Nat
      BY KafkaAssumption DEF SInv, TypeOK
    <2> QED BY <2>1, Zenon DEF SInv, SentOnce, Fresh
  <1> SUFFICES /\ Held' \cap dropped' = {} /\ (sendFailures' = 0 => Held' \cap topic' = {})
               /\ Held' \cup topic' \cup dropped' \subseteq Given'
    BY DEF SentOnce, Fresh
  <1>1. ASSUME NEW e \in Event, Contract!Accept(e)
        PROVE  /\ Held' \cap dropped' = {} /\ (sendFailures' = 0 => Held' \cap topic' = {})
               /\ Held' \cup topic' \cup dropped' \subseteq Given'
    <2>1. PICK D \in SUBSET Held : Held' = (Held \ D) \cup {e} /\ dropped' = dropped \cup D
      BY <1>1 DEF Contract!Accept
    <2>2. /\ e \notin Given /\ Given' = Given \cup {e} /\ topic' = topic
          /\ sendFailures' = sendFailures
      BY <1>1 DEF Contract!Accept
    <2>3. Held' \cap dropped' = {}
      BY <1>0, <2>1, <2>2
    <2>4. sendFailures' = 0 => Held' \cap topic' = {}
      BY <1>0, <2>1, <2>2
    <2>5. Held' \cup topic' \cup dropped' \subseteq Given'
      BY <1>0, <2>1, <2>2
    <2> QED BY <2>3, <2>4, <2>5
  <1>2. CASE Contract!Publish
    BY <1>0, <1>2 DEF Contract!Publish
  <1>3. CASE Contract!PublishUnsure
    BY <1>0, <1>3 DEF Contract!PublishUnsure
  <1>4. CASE Contract!Overflow
    BY <1>0, <1>4 DEF Contract!Overflow
  <1>5. CASE Contract!Fault
    BY <1>0, <1>5 DEF Contract!Fault
  <1>6. CASE UNCHANGED Contract!vars
    BY <1>0, <1>6 DEF Contract!vars
  <1> QED BY <1>1, <1>2, <1>3, <1>4, <1>5, <1>6 DEF Promised, Contract!Next

-----------------------------------------------------------------------------
(* The theorems about SentOnce and Outbox *)

\* In the initial state all places are empty.
LEMMA InitSInv == Init => SInv /\ Contract!Init
  <1> SUFFICES ASSUME Init PROVE SInv /\ Contract!Init
    OBVIOUS
  <1>1. ASSUME NEW i \in 1..8 PROVE Places[i] = <<>>
    <2>1. /\ Places[1] = <<>> /\ Places[2] = <<>> /\ Places[3] = <<>> /\ Places[4] = <<>>
          /\ Places[5] = <<>> /\ Places[6] = <<>> /\ Places[7] = <<>> /\ Places[8] = <<>>
      BY PlaceOf DEF Init, Empty, Kinds
    <2> QED BY <2>1
  <1>2. Apart
    BY <1>1, PlaceOf, EmptyOnce DEF Apart
  <1>3. Held = {}
    BY <1>1, PlaceOf, EmptyOnce DEF Held
  <1>4. topic = {} /\ dropped = {} /\ Given = {}
    BY DEF Init, Given
  <1>5. SInv
    BY <1>2, <1>3, <1>4, InitIInv DEF IInv, SInv, SentOnce, Fresh
  <1>6. Contract!Init
    BY <1>3, <1>4 DEF Init, Contract!Init
  <1> QED BY <1>5, <1>6

\* Every step keeps both invariants and is a step of Outbox.
LEMMA NextSInv == IInv /\ SInv /\ [Next]_vars => SInv' /\ [Contract!Next]_(Contract!vars)
  <1> SUFFICES ASSUME IInv, SInv, [Next]_vars
               PROVE  SInv' /\ [Contract!Next]_(Contract!vars)
    OBVIOUS
  <1>1. TypeOK' /\ NothingLeftOver'
    BY NextIInv DEF IInv
  <1>2. Apart' /\ Promised
    BY NextApart
  <1>3. sendFailures' \in Nat
    BY <1>1, KafkaAssumption DEF TypeOK
  <1>4. SentOnce' /\ Fresh'
    BY <1>2, <1>3, OutboxKeeps
  <1>5. SInv'
    BY <1>1, <1>4 DEF SInv
  <1>6. [Contract!Next]_(Contract!vars)
    BY <1>2 DEF Promised
  <1> QED BY <1>5, <1>6

\* The inductive invariant behind SentOnce holds in every state.
THEOREM OneByOne == Spec => []SInv
  <1>1. Init => SInv
    BY InitSInv
  <1>2. IInv /\ SInv /\ [Next]_vars => SInv'
    BY NextSInv
  <1> QED BY <1>1, <1>2, KafkaInvariant, PTL DEF Spec

\* "No double message" (service.rs:148), for any number of events, sizes and
\* failures: pushes, drains, batches, persists and replays by any interleaving of the
\* tasks never put an event into two places, nor back after it was dropped or, as
\* long as every send succeeds, after it reached the topic.
THEOREM SentOnceAlways == Spec => []SentOnce
  <1>1. SInv => SentOnce
    BY DEF SInv
  <1> QED BY <1>1, OneByOne, PTL

\* The producer implements Outbox: every step of the handlers, of the three tasks, of
\* KeyDB's failures and of a crash is one of its steps or changes nothing in it.
THEOREM ProducerImplementsOutbox == Spec => ImplementsOutbox
  <1>1. Init => Contract!Init
    BY InitSInv
  <1>2. IInv /\ SInv /\ [Next]_vars => [Contract!Next]_(Contract!vars)
    BY NextSInv
  <1> QED
    BY <1>1, <1>2, KafkaInvariant, OneByOne, PTL DEF Spec, ImplementsOutbox, Contract!Spec
=============================================================================
