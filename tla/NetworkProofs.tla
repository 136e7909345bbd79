---------------------------- MODULE NetworkProofs ----------------------------
(***************************************************************************)
(* Proofs about Network, for any number of connections, frames and faults: *)
(* channels keep their limits, replies of open connections are not taken   *)
(* for those of closed ones, nor written in another order unless they were *)
(* sent together, tolls are stored with their request, a TERMINATE closes  *)
(* its connection, and a block was earned.  IInv (Network) is inductive.   *)
(***************************************************************************)
EXTENDS Network, FiniteSetTheorems, WellFoundedInduction, TLAPS

-----------------------------------------------------------------------------
(* Sequences *)

LEMMA AppendFacts ==
  ASSUME NEW S, NEW q \in Seq(S), NEW u \in S
  PROVE  /\ Append(q, u) \in Seq(S) /\ Len(q) \in Nat /\ Len(Append(q, u)) = Len(q) + 1
         /\ DOMAIN q = 1 .. Len(q) /\ DOMAIN Append(q, u) = 1 .. Len(q) + 1
         /\ \A i \in 1 .. Len(q) : Append(q, u)[i] = q[i]
         /\ Append(q, u)[Len(q) + 1] = u
  OBVIOUS

LEMMA AppendSet ==
  ASSUME NEW S, NEW q \in Seq(S), NEW u \in S
  PROVE  ToSet(Append(q, u)) = ToSet(q) \cup {u}
  <1> DEFINE a == Append(q, u)
  <1>1. /\ Len(q) \in Nat /\ DOMAIN q = 1 .. Len(q) /\ DOMAIN a = 1 .. Len(q) + 1
        /\ \A i \in 1 .. Len(q) : a[i] = q[i]
        /\ a[Len(q) + 1] = u
    BY AppendFacts
  <1> HIDE DEF a
  <1>2. ASSUME NEW i \in DOMAIN a PROVE a[i] \in ToSet(q) \cup {u}
    <2>1. i \in DOMAIN q \/ i = Len(q) + 1
      BY <1>1
    <2> QED BY <1>1, <2>1 DEF ToSet
  <1>3. ASSUME NEW i \in DOMAIN q PROVE q[i] \in ToSet(a)
    BY <1>1 DEF ToSet
  <1>4. u \in ToSet(a)
    BY <1>1 DEF ToSet
  <1>5. ToSet(a) = ToSet(q) \cup {u}
    BY <1>2, <1>3, <1>4 DEF ToSet
  <1> QED BY <1>5 DEF a

LEMMA AppendRising ==
  ASSUME NEW q \in Seq(Nat), NEW u \in Nat, Rising(q), \A m \in ToSet(q) : m < u
  PROVE  Rising(Append(q, u))
  <1> DEFINE a == Append(q, u)
  <1>1. /\ Len(q) \in Nat /\ DOMAIN q = 1 .. Len(q) /\ DOMAIN a = 1 .. Len(q) + 1
        /\ \A i \in 1 .. Len(q) : a[i] = q[i]
        /\ a[Len(q) + 1] = u
    BY AppendFacts
  <1> HIDE DEF a
  <1>2. ASSUME NEW i \in DOMAIN a, NEW j \in DOMAIN a, i < j PROVE a[i] < a[j]
    <2>1. i \in DOMAIN q /\ (j \in DOMAIN q \/ j = Len(q) + 1)
      BY <1>1, <1>2
    <2>2. q[i] < u
      BY <2>1 DEF ToSet
    <2> QED BY <1>1, <1>2, <2>1, <2>2 DEF Rising
  <1>3. Rising(a)
    BY <1>2 DEF Rising
  <1> QED BY <1>3 DEF a

\* The first of a sequence, and the rest.
LEMMA HeadTail ==
  ASSUME NEW S, NEW q \in Seq(S), q # <<>>
  PROVE  /\ Head(q) \in S /\ Tail(q) \in Seq(S)
         /\ Head(q) \in ToSet(q) /\ ToSet(q) = ToSet(Tail(q)) \cup {Head(q)}
         /\ 1 \in DOMAIN q /\ Head(q) = q[1] /\ Len(Tail(q)) = Len(q) - 1 /\ Len(q) \in Nat
         /\ \A i \in DOMAIN Tail(q) : i \in Nat /\ i + 1 \in DOMAIN q /\ Tail(q)[i] = q[i + 1]
  <1> DEFINE t == Tail(q)
             h == Head(q)
  <1>1. /\ t \in Seq(S) /\ Len(q) \in Nat /\ Len(q) > 0 /\ Len(t) = Len(q) - 1
        /\ DOMAIN q = 1 .. Len(q) /\ DOMAIN t = 1 .. Len(q) - 1
        /\ \A i \in 1 .. Len(q) - 1 : t[i] = q[i + 1]
        /\ h = q[1]
    OBVIOUS
  <1>2. h \in S
    BY <1>1
  <1> HIDE DEF t, h
  <1>3. \A i \in DOMAIN t : i \in Nat /\ i + 1 \in DOMAIN q /\ t[i] = q[i + 1]
    BY <1>1
  <1>4. h \in ToSet(q) /\ 1 \in DOMAIN q
    BY <1>1 DEF ToSet
  <1>5. ASSUME NEW i \in DOMAIN q PROVE q[i] \in ToSet(t) \cup {h}
    <2>1. CASE i = 1
      BY <1>1, <2>1
    <2>2. CASE i # 1
      <3>1. i - 1 \in DOMAIN t /\ (i - 1) + 1 = i
        BY <1>1, <2>2
      <3>2. t[i - 1] = q[i]
        BY <1>1, <3>1
      <3> QED BY <3>1, <3>2 DEF ToSet
    <2> QED BY <2>1, <2>2
  <1>6. ASSUME NEW i \in DOMAIN t PROVE t[i] \in ToSet(q)
    BY <1>3 DEF ToSet
  <1>7. ToSet(q) = ToSet(t) \cup {h}
    BY <1>4, <1>5, <1>6 DEF ToSet
  <1> QED BY <1>1, <1>2, <1>3, <1>4, <1>7 DEF t, h

LEMMA TailRising ==
  ASSUME NEW q \in Seq(Nat), q # <<>>, Rising(q)
  PROVE  Rising(Tail(q)) /\ \A m \in ToSet(Tail(q)) : Head(q) < m
  <1> DEFINE t == Tail(q)
  <1>1. /\ 1 \in DOMAIN q /\ Head(q) = q[1] /\ DOMAIN q \subseteq Nat
        /\ \A i \in DOMAIN t : i \in Nat /\ i + 1 \in DOMAIN q /\ t[i] = q[i + 1]
    BY HeadTail
  <1>0. DOMAIN t \subseteq Nat \ {0}
    BY HeadTail
  <1> HIDE DEF t
  <1>2. ASSUME NEW i \in DOMAIN t, NEW j \in DOMAIN t, i < j PROVE t[i] < t[j]
    <2>1. i + 1 < j + 1
      BY <1>1, <1>2
    <2> QED BY <1>1, <2>1 DEF Rising
  <1>3. ASSUME NEW i \in DOMAIN t PROVE Head(q) < t[i]
    <2>1. 1 < i + 1
      BY <1>0
    <2> QED BY <1>1, <2>1 DEF Rising
  <1> QED BY <1>2, <1>3 DEF Rising, ToSet, t

\* The first n of a sequence, and the rest.
\* The first n of q are f, the others are r; a is q with r behind it.
IsCut(q, n, f, r) == f = SubSeq(q, 1, n) /\ r = SubSeq(q, n + 1, Len(q))
IsJoined(q, r, n, a) ==
  q \in Seq(Nat) /\ r \in Seq(Nat) /\ n \in Nat /\ Len(r) = n /\ a = q \o r

LEMMA Cut ==
  ASSUME NEW q \in Seq(Nat), NEW n \in Nat, n <= Len(q), NEW f, NEW r, IsCut(q, n, f, r)
  PROVE  /\ f \in Seq(Nat) /\ Len(f) = n
         /\ \A i \in 1 .. n : f[i] = q[i]
         /\ r \in Seq(Nat) /\ DOMAIN r = 1 .. Len(q) - n
         /\ \A i \in 1 .. Len(q) - n : r[i] = q[n + i]
  <1>1. Len(q) \in Nat /\ DOMAIN q = 1 .. Len(q) /\ \A i \in 1 .. Len(q) : q[i] \in Nat
    OBVIOUS
  <1>2. /\ f \in Seq(Nat) /\ Len(f) = n
        /\ \A i \in 1 .. n : f[i] = q[i]
    BY <1>1 DEF IsCut
  <1>3. /\ r \in Seq(Nat) /\ DOMAIN r = 1 .. Len(q) - n
        /\ \A i \in 1 .. Len(q) - n : r[i] = q[n + i]
    <2> DEFINE m == n + 1
    <2>1. m \in Nat /\ m >= 1 /\ m <= Len(q) + 1 /\ n = m - 1 /\ r = SubSeq(q, m, Len(q))
      BY <1>1 DEF IsCut
    <2> HIDE DEF m
    <2>2. r \in Seq(Nat) /\ DOMAIN r = 1 .. Len(q) - m + 1
      BY <1>1, <2>1
    <2>3. \A j \in 1 .. Len(q) - m + 1 : r[j] = q[m + j - 1]
      BY <1>1, <2>1
    <2> QED BY <1>1, <2>1, <2>2, <2>3
  <1> QED BY <1>2, <1>3

LEMMA ConcatFacts ==
  ASSUME NEW q, NEW r, NEW n, NEW a, IsJoined(q, r, n, a)
  PROVE  /\ a \in Seq(Nat) /\ DOMAIN a = 1 .. Len(q) + n
         /\ \A i \in 1 .. Len(q) : a[i] = q[i]
         /\ \A i \in 1 .. n : a[Len(q) + i] = r[i]
  <1>0. q \in Seq(Nat) /\ r \in Seq(Nat) /\ n \in Nat /\ Len(r) = n /\ a = q \o r
    BY DEF IsJoined
  <1>1. /\ q \o r \in Seq(Nat) /\ Len(q) \in Nat /\ Len(q \o r) = Len(q) + n
        /\ DOMAIN (q \o r) = 1 .. Len(q) + n
    <2>0. q \in Seq(Nat) /\ r \in Seq(Nat)
      BY <1>0
    <2>1. q \o r \in Seq(Nat) /\ Len(q) \in Nat
      BY <2>0
    <2>2. Len(q \o r) = Len(q) + Len(r)
      BY <2>0
    <2>3. DOMAIN (q \o r) = 1 .. Len(q \o r)
      BY <2>1
    <2> QED BY <1>0, <2>1, <2>2, <2>3
  <1>2. \A i \in 1 .. Len(q) : (q \o r)[i] = q[i]
    BY <1>0, <1>1
  <1>3. ASSUME NEW i \in 1 .. n PROVE (q \o r)[Len(q) + i] = r[i]
    BY <1>0, <1>1
  <1> QED BY <1>0, <1>1, <1>2, <1>3, Zenon

\* The first k of r, of length z, move behind q, of length l: a is q then, and b is r.
Moves(q, r, k, l, z, a, b) ==
  /\ k \in Nat /\ l \in Nat /\ z \in Nat /\ k > 0 /\ k <= z
  /\ DOMAIN q = 1 .. l /\ DOMAIN r = 1 .. z /\ DOMAIN a = 1 .. l + k /\ DOMAIN b = 1 .. z - k
  /\ \A i \in 1 .. l : a[i] = q[i]
  /\ \A i \in 1 .. k : a[l + i] = r[i]
  /\ \A i \in 1 .. z - k : b[i] = r[k + i]

LEMMA Moved ==
  ASSUME NEW q, NEW r, NEW k, NEW l, NEW z, NEW a, NEW b, Moves(q, r, k, l, z, a, b)
  PROVE  /\ ToSet(a) \subseteq ToSet(q) \cup ToSet(r) /\ ToSet(b) \subseteq ToSet(r)
         /\ (Rising(q) /\ Rising(r) /\ \A m \in ToSet(q), n \in ToSet(r) : m < n) =>
               Rising(a) /\ Rising(b) /\ \A m \in ToSet(a), n \in ToSet(b) : m < n
  <1> USE DEF Moves
  \* Where an element of a, or of b, comes from.
  <1>8. ASSUME NEW i \in DOMAIN a
        PROVE  \/ i \in DOMAIN q /\ a[i] = q[i]
               \/ /\ i \notin DOMAIN q /\ i - l \in 1 .. k /\ i - l \in DOMAIN r
                  /\ a[i] = r[i - l]
    <2>1. CASE i <= l
      BY <2>1
    <2>2. CASE ~(i <= l)
      <3>1. /\ i \notin DOMAIN q /\ i - l \in 1 .. k /\ i - l \in DOMAIN r
            /\ l + (i - l) = i
        BY <2>2
      <3>2. a[i] = r[i - l]
        BY <3>1
      <3> QED BY <3>1, <3>2
    <2> QED BY <2>1, <2>2
  <1>9. ASSUME NEW i \in DOMAIN b
        PROVE  i \in Nat /\ i > 0 /\ k + i \in DOMAIN r /\ b[i] = r[k + i]
    OBVIOUS
  <1>10. ToSet(a) \subseteq ToSet(q) \cup ToSet(r)
    <2>1. \A i \in DOMAIN a : a[i] \in ToSet(q) \cup ToSet(r)
      BY <1>8 DEF ToSet
    <2> QED BY <2>1 DEF ToSet
  <1>12. ToSet(b) \subseteq ToSet(r)
    <2>1. \A i \in DOMAIN b : b[i] \in ToSet(r)
      BY <1>9 DEF ToSet
    <2> QED BY <2>1 DEF ToSet
  <1>11. ASSUME Rising(q), Rising(r), \A m \in ToSet(q), n \in ToSet(r) : m < n
         PROVE  Rising(a) /\ Rising(b) /\ \A m \in ToSet(a), n \in ToSet(b) : m < n
    <2>0. \A i \in DOMAIN q, j \in DOMAIN r : q[i] < r[j]
      BY <1>11 DEF ToSet
    <2>1. ASSUME NEW i \in DOMAIN a, NEW j \in DOMAIN a, i < j PROVE a[i] < a[j]
      <3>1. CASE i \in DOMAIN q /\ j \in DOMAIN q
        BY <1>8, <1>11, <2>1, <3>1 DEF Rising
      <3>2. CASE i \in DOMAIN q /\ j \notin DOMAIN q
        BY <1>8, <2>0, <3>2
      <3>3. CASE i \notin DOMAIN q
        <4>1. j \notin DOMAIN q /\ i - l < j - l
          BY <2>1, <3>3
        <4> QED BY <1>8, <1>11, <3>3, <4>1 DEF Rising
      <3> QED BY <3>1, <3>2, <3>3
    <2>2. ASSUME NEW i \in DOMAIN b, NEW j \in DOMAIN b, i < j PROVE b[i] < b[j]
      <3>1. k + i < k + j
        BY <1>9, <2>2
      <3> QED BY <1>9, <1>11, <3>1 DEF Rising
    <2>3. ASSUME NEW i \in DOMAIN a, NEW j \in DOMAIN b PROVE a[i] < b[j]
      <3>1. CASE i \in DOMAIN q
        BY <1>8, <1>9, <2>0, <3>1
      <3>2. CASE i \notin DOMAIN q
        <4>1. i - l < k + j
          BY <1>8, <1>9, <3>2
        <4> QED BY <1>8, <1>9, <1>11, <3>2, <4>1 DEF Rising
      <3> QED BY <3>1, <3>2
    <2> QED BY <2>1, <2>2, <2>3 DEF Rising, ToSet
  <1> QED BY <1>10, <1>11, <1>12

Reads(q, r, k, a, b) ==
  k \in 1 .. Len(r) /\ a = q \o SubSeq(r, 1, k) /\ b = SubSeq(r, k + 1, Len(r))

LEMMA MoveFront ==
  ASSUME NEW q \in Seq(Nat), NEW r \in Seq(Nat), NEW k, NEW a, NEW b, Reads(q, r, k, a, b)
  PROVE  /\ a \in Seq(Nat) /\ b \in Seq(Nat) /\ a # <<>>
         /\ ToSet(a) \subseteq ToSet(q) \cup ToSet(r) /\ ToSet(b) \subseteq ToSet(r)
         /\ (Rising(q) /\ Rising(r) /\ \A m \in ToSet(q), n \in ToSet(r) : m < n) =>
               Rising(a) /\ Rising(b) /\ \A m \in ToSet(a), n \in ToSet(b) : m < n
  <1>0. PICK f : IsCut(r, k, f, b) /\ a = q \o f
    BY DEF Reads, IsCut
  <1>1. /\ Len(q) \in Nat /\ Len(r) \in Nat /\ DOMAIN q = 1 .. Len(q) /\ DOMAIN r = 1 .. Len(r)
        /\ k \in Nat /\ k > 0 /\ k <= Len(r)
    BY DEF Reads
  <1>4. IsCut(r, k, f, b) /\ k \in Nat /\ k <= Len(r)
    BY <1>0, <1>1
  <1>2. f \in Seq(Nat) /\ Len(f) = k /\ \A i \in 1 .. k : f[i] = r[i]
    BY <1>4, Cut
  <1>3. b \in Seq(Nat) /\ DOMAIN b = 1 .. Len(r) - k /\ \A i \in 1 .. Len(r) - k : b[i] = r[k + i]
    BY <1>4, Cut
  <1>5. /\ a \in Seq(Nat) /\ DOMAIN a = 1 .. Len(q) + k
        /\ \A i \in 1 .. Len(q) : a[i] = q[i]
        /\ \A i \in 1 .. k : a[Len(q) + i] = f[i]
    <2>1. IsJoined(q, f, k, a)
      BY <1>0, <1>1, <1>2, Zenon DEF IsJoined
    <2> QED BY <2>1, ConcatFacts, SMTT(60)
  <1>6. 1 \in 1 .. Len(q) + k
    BY <1>1
  <1>7. a # <<>>
    <2>1. DOMAIN <<>> = {}
      OBVIOUS
    <2> QED BY <1>5, <1>6, <2>1, Zenon
  <1>8. \A i \in 1 .. k : a[Len(q) + i] = r[i]
    BY <1>2, <1>5, Zenon
  <1>9. /\ ToSet(a) \subseteq ToSet(q) \cup ToSet(r) /\ ToSet(b) \subseteq ToSet(r)
        /\ (Rising(q) /\ Rising(r) /\ \A m \in ToSet(q), n \in ToSet(r) : m < n) =>
              Rising(a) /\ Rising(b) /\ \A m \in ToSet(a), n \in ToSet(b) : m < n
    <2>1. Moves(q, r, k, Len(q), Len(r), a, b)
      BY <1>1, <1>3, <1>5, <1>8, Zenon DEF Moves
    <2> QED BY <2>1, Moved
  <1> QED BY <1>3, <1>5, <1>7, <1>9, Zenon

-----------------------------------------------------------------------------
(* The control flow of a connection's task *)

Busy == {"permit", "save", "handle", "error", "give"}

\* The task goes from step s of phase p to step t of phase q.
Edge(p, s, q, t) ==
  \/ p = "new" /\ s = "start" /\ q = "preauth" /\ t = "start"
  \/ /\ p = "preauth" /\ q = "preauth"
     /\ \/ s = "start" /\ t = "read"
        \/ s = "read" /\ t \in {"front", "config"}
        \/ s = "front" /\ t \in {"pong", "config"}
        \/ s = "pong" /\ t = "read"
  \/ p = "preauth" /\ s = "config" /\ q = "main" /\ t = "take"
  \/ /\ p = "main" /\ q = "main"
     /\ \/ s \in {"read", "pong", "error", "give"} /\ t = "take"
        \/ s = "read" /\ t = "writing"
        \/ s = "writing" /\ t = "read"
        \/ s = "take" /\ t \in {"read", "pong", "permit"}
        \/ s = "permit" /\ t = "save"
        \/ s = "save" /\ t \in {"handle", "error"}
        \/ s = "handle" /\ t \in {"give", "error"}
        \/ s = "error" /\ t = "give"
  \/ p \in {"preauth", "main"} /\ q = "closing" /\ t = "active"
  \/ p = "closing" /\ s = "active" /\ q = "closing" /\ t = "tell"
  \/ p = "closing" /\ s = "tell" /\ q = "closed" /\ t = "done"

\* The task of connection c takes an edge; while it is about a frame, about the same.
Hop(c) ==
  \E q \in Phases, t \in Steps, n \in Nat :
    /\ Edge(phase[c], at[c].pc, q, t)
    /\ phase' = [phase EXCEPT ![c] = q] /\ at' = [at EXCEPT ![c] = At(t, n)]
    /\ IF t = "permit" THEN TakeCommand(c) ELSE t \in Busy => n = at[c].n
    /\ t = "front" => PreRead(c)
    /\ t = "save" => Acquire(c)
    /\ at[c].pc = "writing" /\ t = "read" => Write(c)

LEMMA HopBy ==
  ASSUME NEW c \in Conn, NEW q \in Phases, NEW t \in Steps, NEW n \in Nat,
         Edge(phase[c], at[c].pc, q, t),
         phase' = [phase EXCEPT ![c] = q], at' = [at EXCEPT ![c] = At(t, n)],
         IF t = "permit" THEN TakeCommand(c) ELSE t \in Busy => n = at[c].n,
         t = "front" => PreRead(c), t = "save" => Acquire(c),
         at[c].pc = "writing" /\ t = "read" => Write(c)
  PROVE  Hop(c)
  BY Zenon DEF Hop

LEMMA HopHere ==
  ASSUME Places, NEW c \in Conn, NEW t \in Steps, NEW n \in Nat,
         Edge(phase[c], at[c].pc, phase[c], t),
         UNCHANGED phase, Goto(c, t, n),
         IF t = "permit" THEN TakeCommand(c) ELSE t \in Busy => n = at[c].n,
         t = "front" => PreRead(c), t = "save" => Acquire(c),
         at[c].pc = "writing" /\ t = "read" => Write(c)
  PROVE  Hop(c)
  <1>1. phase' = [phase EXCEPT ![c] = phase[c]] /\ phase[c] \in Phases
    BY DEF Places
  <1>2. at' = [at EXCEPT ![c] = At(t, n)]
    BY DEF Goto
  <1> QED BY <1>1, <1>2, HopBy

LEMMA HopEnd ==
  ASSUME Places, NEW c \in Conn, NEW bad, Open(c), End(c, bad)
  PROVE  Hop(c)
  <1>1. Edge(phase[c], at[c].pc, "closing", "active")
    BY DEF Open, Edge
  <1>2. phase' = [phase EXCEPT ![c] = "closing"] /\ at' = [at EXCEPT ![c] = At("active", 0)]
    BY DEF End
  <1>3. "closing" \in Phases /\ "active" \in Steps /\ "active" \notin Busy
    BY DEF Phases, Steps, Busy
  <1> QED BY <1>1, <1>2, <1>3, HopBy

\* What a hop does to the places of all tasks.
LEMMA HopFacts ==
  ASSUME Places, NEW c \in Conn, Hop(c)
  PROVE  /\ Places'
         /\ \A d \in Conn \ {c} : at'[d] = at[d] /\ phase'[d] = phase[d]
         /\ Edge(phase[c], at[c].pc, phase'[c], at'[c].pc)
         /\ at'[c].pc = "permit" => TakeCommand(c)
         /\ at'[c].pc = "front" => PreRead(c)
         /\ at'[c].pc = "save" => Acquire(c)
         /\ at[c].pc = "writing" /\ at'[c].pc = "read" => Write(c)
         /\ at'[c].pc \in Busy \ {"permit"} => at'[c].n = at[c].n
  <1>1. PICK q \in Phases, t \in Steps, n \in Nat :
          /\ Edge(phase[c], at[c].pc, q, t)
          /\ phase' = [phase EXCEPT ![c] = q] /\ at' = [at EXCEPT ![c] = At(t, n)]
          /\ IF t = "permit" THEN TakeCommand(c) ELSE t \in Busy => n = at[c].n
          /\ t = "front" => PreRead(c)
          /\ t = "save" => Acquire(c)
          /\ at[c].pc = "writing" /\ t = "read" => Write(c)
    BY Zenon DEF Hop
  <1>2. At(t, n) \in [pc : Steps, n : Nat] /\ At(t, n).pc = t /\ At(t, n).n = n
    BY DEF At
  <1>3. /\ phase \in [Conn -> Phases] /\ at \in [Conn -> [pc : Steps, n : Nat]]
        /\ \A d \in Conn : at[d].pc \in StepsOf(phase[d])
    BY DEF Places
  <1>4. /\ phase' \in [Conn -> Phases] /\ phase'[c] = q
        /\ \A d \in Conn \ {c} : phase'[d] = phase[d]
    BY <1>1, <1>3
  <1>5. /\ at' \in [Conn -> [pc : Steps, n : Nat]] /\ at'[c].pc = t /\ at'[c].n = n
        /\ \A d \in Conn \ {c} : at'[d] = at[d]
    BY <1>1, <1>2, <1>3
  <1>6. t \in StepsOf(q)
    BY <1>1 DEF Edge, StepsOf
  <1>7. Places'
    BY <1>3, <1>4, <1>5, <1>6 DEF Places
  <1> QED BY <1>1, <1>4, <1>5, <1>7

\* The phase that a step tells.
LEMMA PhaseOf ==
  ASSUME Places, NEW c \in Conn
  PROVE  /\ at[c].pc \in {"take"} \cup Busy => phase[c] = "main"
         /\ at[c].pc \in {"front", "config"} => phase[c] = "preauth"
         /\ at[c].pc \in {"active", "tell"} => phase[c] = "closing"
         /\ at[c].pc = "pong" => phase[c] \in {"preauth", "main"}
         /\ at[c].pc \in Steps /\ at[c].n \in Nat /\ phase[c] \in Phases
         /\ phase[c] = "new" => at[c].pc = "start"
         /\ Open(c) => ~Ended(c)
  <1>1. phase[c] \in Phases /\ at[c] \in [pc : Steps, n : Nat] /\ at[c].pc \in StepsOf(phase[c])
    BY DEF Places
  <1>2. at[c].pc \in Steps /\ at[c].n \in Nat
    BY <1>1
  <1> QED BY <1>1, <1>2 DEF Phases, StepsOf, Busy, Open, Ended

LEMMA HeadTyped ==
  ASSUME InputTypes, NEW c \in Conn, buf[c] # <<>>
  PROVE  Head(buf[c]) \in Nat /\ Tail(buf[c]) \in Seq(Nat)
  <1>1. buf[c] \in Seq(Nat)
    BY DEF InputTypes
  <1> QED BY <1>1

\* The steps between two messages.
LEMMA QuietHops ==
  ASSUME Types, NEW c \in Conn,
         \/ Accept(c) \/ PreRead(c) \/ PreFront(c) \/ PreTimeout(c) \/ Pong(c) \/ MainRead(c)
         \/ BufferDone(c) \/ TakePing(c) \/ LeaveActive(c) \/ TellRouter(c) \/ StartWrite(c)
  PROVE  Hop(c)
  <1>0. Places /\ InputTypes
    BY DEF Types
  <1> USE DEF Edge, Steps, Busy
  <1>1. CASE Accept(c)
    <2>1. phase[c] = "new" /\ phase' = [phase EXCEPT ![c] = "preauth"] /\ UNCHANGED at
      BY <1>1 DEF Accept, Arrives
    <2>2. at[c].pc = "start" /\ at[c].n \in Nat
      BY <1>0, <2>1, PhaseOf
    <2>3. at' = [at EXCEPT ![c] = At("start", at[c].n)]
      BY <1>0, <2>1, <2>2 DEF Places, At
    <2>4. "preauth" \in Phases
      BY DEF Phases
    <2> QED BY <2>1, <2>2, <2>3, <2>4, HopBy
  <1>2. CASE PreRead(c)
    <2>1. phase[c] = "preauth" /\ at[c].pc = "read" /\ UNCHANGED phase /\ Goto(c, "front", 0)
      BY <1>2 DEF PreRead
    <2> QED BY <1>0, <1>2, <2>1, HopHere
  <1>3. CASE PreFront(c)
    <2>1. phase[c] = "preauth" /\ at[c].pc = "front" /\ UNCHANGED phase
      BY <1>3 DEF PreFront
    <2>2. Head(buf[c]) \in Nat
      BY <1>0, <2>1, HeadTyped DEF InputTypes
    <2>3. Goto(c, "pong", Head(buf[c])) \/ Goto(c, "config", 0)
      BY <1>3 DEF PreFront
    <2> QED BY <1>0, <2>1, <2>2, <2>3, HopHere
  <1>4. CASE PreTimeout(c)
    <2>1. phase[c] = "preauth" /\ at[c].pc = "read" /\ UNCHANGED phase /\ Goto(c, "config", 0)
      BY <1>4 DEF PreTimeout
    <2> QED BY <1>0, <2>1, HopHere
  <1>5. CASE Pong(c)
    <2>1. /\ at[c].pc = "pong" /\ UNCHANGED phase
          /\ Goto(c, IF phase[c] = "preauth" THEN "read" ELSE "take", 0)
      BY <1>5 DEF Pong
    <2>2. phase[c] \in {"preauth", "main"}
      BY <1>0, <2>1, PhaseOf
    <2>3. CASE phase[c] = "preauth"
      BY <1>0, <2>1, <2>3, HopHere
    <2>4. CASE phase[c] = "main"
      BY <1>0, <2>1, <2>4, HopHere
    <2> QED BY <2>2, <2>3, <2>4
  <1>6. CASE MainRead(c)
    <2>1. phase[c] = "main" /\ at[c].pc = "read" /\ UNCHANGED phase /\ Goto(c, "take", 0)
      BY <1>6 DEF MainRead
    <2> QED BY <1>0, <2>1, HopHere
  <1>7. CASE BufferDone(c)
    <2>1. at[c].pc = "take" /\ UNCHANGED phase /\ Goto(c, "read", 0)
      BY <1>7 DEF BufferDone
    <2> QED BY <1>0, <2>1, PhaseOf, HopHere
  <1>8. CASE TakePing(c)
    <2>1. at[c].pc = "take" /\ UNCHANGED phase /\ Goto(c, "pong", Head(buf[c])) /\ buf[c] # <<>>
      BY <1>8 DEF TakePing
    <2> QED BY <1>0, <2>1, PhaseOf, HeadTyped, HopHere
  <1>9. CASE LeaveActive(c)
    <2>1. at[c].pc = "active" /\ UNCHANGED phase /\ Goto(c, "tell", 0)
      BY <1>9 DEF LeaveActive
    <2> QED BY <1>0, <2>1, PhaseOf, HopHere
  <1>10. CASE TellRouter(c)
    <2>1. /\ at[c].pc = "tell" /\ phase' = [phase EXCEPT ![c] = "closed"]
          /\ at' = [at EXCEPT ![c] = At("done", 0)]
      BY <1>10 DEF TellRouter, Goto
    <2>2. "closed" \in Phases /\ phase[c] = "closing"
      BY <1>0, <2>1, PhaseOf DEF Phases
    <2> QED BY <2>1, <2>2, HopBy
  <1>11. CASE StartWrite(c)
    <2>1. phase[c] = "main" /\ at[c].pc = "read" /\ UNCHANGED phase /\ Goto(c, "writing", 0)
      BY <1>11 DEF StartWrite
    <2> QED BY <1>0, <2>1, HopHere
  <1> QED BY <1>1, <1>2, <1>3, <1>4, <1>5, <1>6, <1>7, <1>8, <1>9, <1>10, <1>11

\* The steps of a command.
LEMMA CommandHops ==
  ASSUME Types, NEW c \in Conn,
         \/ TakeCommand(c) \/ Acquire(c) \/ HandlerFails(c) \/ HandleError(c) \/ Give(c)
         \/ \E n \in Frames : \/ SaveUnknown(c, n) \/ Reject(c, n) \/ SaveRequest(c, n)
                              \/ \E rows \in SUBSET {"tolls", "response"} : Answer(c, n, rows)
  PROVE  Hop(c)
  <1>0. Places /\ InputTypes
    BY DEF Types
  <1> USE DEF Edge, Steps, Busy
  <1>1. CASE TakeCommand(c)
    <2>1. at[c].pc = "take" /\ UNCHANGED phase /\ Goto(c, "permit", Head(buf[c])) /\ buf[c] # <<>>
      BY <1>1 DEF TakeCommand
    <2>2. phase[c] = "main" /\ Head(buf[c]) \in Nat
      BY <1>0, <2>1, PhaseOf, HeadTyped
    <2>3. Edge(phase[c], at[c].pc, phase[c], "permit") /\ "permit" \in Steps
      BY <2>1, <2>2
    <2> QED BY <1>0, <1>1, <2>1, <2>2, <2>3, HopHere
  <1>2. CASE Acquire(c)
    <2>1. at[c].pc = "permit" /\ UNCHANGED phase /\ Goto(c, "save", at[c].n)
      BY <1>2 DEF Acquire
    <2> QED BY <1>0, <1>2, <2>1, PhaseOf, HopHere
  <1>3. CASE HandlerFails(c)
    <2>1. at[c].pc = "handle" /\ UNCHANGED phase /\ Goto(c, "error", at[c].n)
      BY <1>3 DEF HandlerFails
    <2> QED BY <1>0, <2>1, PhaseOf, HopHere
  <1>4. CASE HandleError(c)
    <2>1. /\ at[c].pc = "error" /\ UNCHANGED phase
          /\ Goto(c, "give", at[c].n) \/ Goto(c, "take", at[c].n)
      BY <1>4 DEF HandleError
    <2> QED BY <1>0, <2>1, PhaseOf, HopHere
  <1>5. CASE Give(c)
    <2>1. at[c].pc = "give" /\ UNCHANGED phase /\ Goto(c, "take", 0)
      BY <1>5 DEF Give
    <2> QED BY <1>0, <2>1, PhaseOf, HopHere
  <1>6. ASSUME NEW n \in Frames, SaveUnknown(c, n) \/ Reject(c, n) \/ SaveRequest(c, n)
        PROVE  Hop(c)
    <2>1. /\ at[c] = At("save", n) /\ UNCHANGED phase
          /\ Goto(c, "error", n) \/ Goto(c, "handle", n)
      BY <1>6 DEF SaveUnknown, Reject, SaveRequest
    <2>2. at[c].pc = "save" /\ at[c].n = n
      BY <2>1 DEF At
    <2> QED BY <1>0, <2>1, <2>2, PhaseOf, HopHere
  <1>7. ASSUME NEW n \in Frames, NEW rows, Answer(c, n, rows)
        PROVE  Hop(c)
    <2>1. at[c] = At("handle", n) /\ UNCHANGED phase /\ Goto(c, "give", n)
      BY <1>7 DEF Answer
    <2>2. at[c].pc = "handle" /\ at[c].n = n
      BY <2>1 DEF At
    <2> QED BY <1>0, <2>1, <2>2, PhaseOf, HopHere
  <1> QED BY <1>1, <1>2, <1>3, <1>4, <1>5, <1>6, <1>7

\* The steps that may end the connection; some of them leave the task where it is.
LEMMA EndHops ==
  ASSUME Types, NEW c \in Conn,
         \/ Setup(c) \/ Config(c) \/ Eof(c) \/ HandshakeTimeout(c) \/ Write(c) \/ TakeLength(c)
  PROVE  Hop(c) \/ UNCHANGED <<phase, at>>
  <1>0. Places
    BY DEF Types
  <1> USE DEF Edge, Steps, Busy
  <1>1. CASE Setup(c)
    <2>1. /\ phase[c] = "preauth" /\ at[c].pc = "start"
          /\ (UNCHANGED phase /\ Goto(c, "read", 0)) \/ End(c, TRUE)
      BY <1>1 DEF Setup, FailAtOnce
    <2>2. Open(c)
      BY <2>1 DEF Open
    <2> QED BY <1>0, <2>1, <2>2, HopHere, HopEnd
  <1>2. CASE Config(c)
    <2>1. /\ at[c].pc = "config"
          /\ \/ phase' = [phase EXCEPT ![c] = "main"] /\ at' = [at EXCEPT ![c] = At("take", 0)]
             \/ End(c, TRUE)
      BY <1>2 DEF Config, FailAtOnce, Goto
    <2>2. Open(c) /\ phase[c] = "preauth" /\ "main" \in Phases
      BY <1>0, <2>1, PhaseOf DEF Open, Phases
    <2> QED BY <1>0, <2>1, <2>2, HopBy, HopEnd
  <1>3. CASE Eof(c) \/ HandshakeTimeout(c)
    <2>1. Open(c) /\ (End(c, TRUE) \/ End(c, FALSE))
      BY <1>3 DEF Eof, HandshakeTimeout
    <2> QED BY <1>0, <2>1, HopEnd
  <1>4. CASE Write(c)
    <2>1. /\ phase[c] = "main" /\ at[c].pc = "writing"
          /\ End(c, FALSE) \/ (UNCHANGED phase /\ Goto(c, "read", 0))
      BY <1>4 DEF Write, Written
    <2>2. Open(c)
      BY <2>1 DEF Open
    <2> QED BY <1>0, <1>4, <2>1, <2>2, HopHere, HopEnd
  <1>5. CASE TakeLength(c)
    <2>1. at[c].pc = "take" /\ (End(c, FALSE) \/ UNCHANGED <<phase, at>>)
      BY <1>5 DEF TakeLength
    <2>2. Open(c)
      BY <1>0, <2>1, PhaseOf DEF Open
    <2> QED BY <1>0, <2>1, <2>2, HopEnd
  <1> QED BY <1>1, <1>2, <1>3, <1>4, <1>5

\* Everybody else leaves the tasks where they are.
LEMMA NoHops ==
  ASSUME \/ \E c \in Conn : SendFrame(c) \/ MainTimeout(c) \/ TakeUnusable(c)
         \/ \E n \in Frames : UpdateTolls(n) \/ SaveResponse(n) \/ SendReply(n)
         \/ \E e \in terms : SendTerminate(e)
         \/ Forward \/ RouteClosed \/ RouteReply
         \/ RecordFailure \/ Refuse \/ FindExpired \/ Tick
  PROVE  UNCHANGED <<phase, at>>
  BY DEF SendFrame, MainTimeout, TakeUnusable, UpdateTolls, SaveResponse, SendReply, SendTerminate,
         Forward, RouteClosed, RouteReply, RecordFailure, Refuse, FindExpired, Tick, task


-----------------------------------------------------------------------------
(* Five sorts of steps, and what each leaves alone *)

\* The task of c goes on by itself.
Inner(c) ==
  \/ Accept(c) \/ Setup(c) \/ PreTimeout(c) \/ Config(c) \/ BufferDone(c) \/ Acquire(c)
  \/ HandlerFails(c) \/ HandleError(c) \/ LeaveActive(c) \/ Eof(c) \/ HandshakeTimeout(c)
  \/ StartWrite(c) \/ \E n \in Frames : Reject(c, n)

\* Frames are sent, read and taken.
Reading(c) ==
  \/ SendFrame(c) \/ PreRead(c) \/ PreFront(c) \/ MainRead(c) \/ MainTimeout(c)
  \/ TakePing(c) \/ TakeLength(c) \/ TakeUnusable(c) \/ TakeCommand(c)

\* A request is saved and answered.
Handling(c, n) ==
  \/ SaveUnknown(c, n) \/ SaveRequest(c, n) \/ HandleConnect(c, n) \/ HandleTerminate(c, n)
  \/ HandleBusiness(c, n) \/ HandleOther(c, n)

Auditing(n) == UpdateTolls(n) \/ SaveResponse(n)

\* Replies go from the task to the client.
Replying ==
  \/ \E c \in Conn : Pong(c) \/ Write(c) \/ Give(c)
  \/ Forward \/ RouteReply \/ RouteClosed
  \/ \E n \in Frames : SendReply(n)
  \/ \E e \in terms : SendTerminate(e)

Blocking == RecordFailure \/ Refuse \/ FindExpired \/ Tick

LEMMA NextSplit ==
  ASSUME Next
  PROVE  \/ \E c \in Conn : Inner(c) \/ Reading(c) \/ TellRouter(c) \/ \E n \in Frames : Handling(c, n)
         \/ \E n \in Frames : Auditing(n)
         \/ Replying \/ Blocking
  <1>1. ASSUME NEW c \in Conn, TaskStep(c)
        PROVE  \/ Inner(c) \/ Reading(c) \/ TellRouter(c) \/ \E n \in Frames : Handling(c, n)
               \/ Pong(c) \/ Give(c)
    BY <1>1, Zenon DEF TaskStep, ProcessRequest, Inner, Reading, Handling
  <1>2. ASSUME NEW c \in Conn, \/ SendFrame(c) \/ Accept(c) \/ Eof(c)
                               \/ PreTimeout(c) \/ MainTimeout(c) \/ HandshakeTimeout(c)
        PROVE  Inner(c) \/ Reading(c)
    BY <1>2, Zenon DEF Inner, Reading
  <1>3. ASSUME Forward \/ RouterStep \/ SpawnedStep \/ Refuse \/ FindExpired \/ Tick
        PROVE  Replying \/ Blocking \/ \E n \in Frames : Auditing(n)
    BY <1>3, Zenon DEF RouterStep, SpawnedStep, Replying, Blocking, Auditing
  <1>4. CASE \E c \in Conn : TaskStep(c)
    BY <1>1, <1>4, Zenon DEF Replying
  <1>5. CASE \E c \in Conn : \/ SendFrame(c) \/ Accept(c) \/ Eof(c)
                             \/ PreTimeout(c) \/ MainTimeout(c) \/ HandshakeTimeout(c)
    BY <1>2, <1>5, Zenon
  <1>6. CASE Forward \/ RouterStep \/ SpawnedStep \/ Refuse \/ FindExpired \/ Tick
    BY <1>3, <1>6, Zenon
  <1>7. CASE \E c \in Conn : Write(c)
    BY <1>7, Zenon DEF Replying
  <1> QED BY <1>4, <1>5, <1>6, <1>7, Zenon DEF Next

LEMMA HandlingSplit ==
  ASSUME NEW c \in Conn, NEW n \in Frames, Handling(c, n)
  PROVE  \/ SaveUnknown(c, n) \/ SaveRequest(c, n)
         \/ \E rows \in SUBSET {"tolls", "response"} :
               Answer(c, n, rows) /\ session' \subseteq session \cup {c}
  <1>1. CASE HandleConnect(c, n) \/ HandleTerminate(c, n) \/ HandleOther(c, n)
    <2>1. Answer(c, n, {"response"}) /\ session' \subseteq session \cup {c}
      BY <1>1 DEF HandleConnect, HandleTerminate, HandleOther
    <2> QED BY <2>1
  <1>2. CASE HandleBusiness(c, n)
    <2>1. Answer(c, n, {"tolls", "response"}) /\ session' \subseteq session \cup {c}
      BY <1>2 DEF HandleBusiness
    <2> QED BY <2>1
  <1> QED BY <1>1, <1>2 DEF Handling

LEMMA InnerLeaves ==
  ASSUME NEW c \in Conn, Inner(c)
  PROVE  UNCHANGED <<frame, socket, buf, out, terms, requests, replies, closing, closed, sending, row,
                     post, fails, recording, blocks, failures, limit, wire, made, dropped, overlap>>
  <1> USE DEF input, router, audit, ip, bounds, history
  <1>1. CASE PreTimeout(c) \/ BufferDone(c) \/ Acquire(c) \/ LeaveActive(c) \/ StartWrite(c)
    BY <1>1 DEF PreTimeout, Timeout, BufferDone, Acquire, LeaveActive, StartWrite
  <1>6. CASE Accept(c)
    BY <1>6 DEF Accept, Passes, Fault
  <1>2. CASE Setup(c) \/ Config(c)
    BY <1>2 DEF Setup, Config, FailAtOnce, Fault
  <1>3. CASE HandlerFails(c) \/ HandleError(c) \/ Eof(c) \/ HandshakeTimeout(c)
    BY <1>3 DEF HandlerFails, Fault, HandleError, Eof, HandshakeTimeout
  <1>4. ASSUME NEW n \in Frames, Reject(c, n) PROVE UNCHANGED <<input, out, terms, router, audit, ip, bounds, history>>
    BY <1>4 DEF Reject
  <1>5. CASE \E n \in Frames : Reject(c, n)
    BY <1>4, <1>5
  <1> QED BY <1>1, <1>2, <1>3, <1>5, <1>6 DEF Inner

\* An arriving connection may remove the block of its address.
LEMMA InnerBlock ==
  ASSUME NEW c \in Conn, Inner(c)
  PROVE  UNCHANGED <<until, removing>> \/ (until' = NoKey /\ removing' = FALSE)
  <1> USE DEF ip
  <1>1. CASE PreTimeout(c) \/ BufferDone(c) \/ Acquire(c) \/ LeaveActive(c) \/ StartWrite(c)
    BY <1>1 DEF PreTimeout, BufferDone, Acquire, LeaveActive, StartWrite
  <1>2. CASE Setup(c) \/ Config(c)
    BY <1>2 DEF Setup, Config
  <1>3. CASE HandlerFails(c) \/ HandleError(c) \/ Eof(c) \/ HandshakeTimeout(c)
    BY <1>3 DEF HandlerFails, HandleError, Eof, HandshakeTimeout
  <1>4. CASE \E n \in Frames : Reject(c, n)
    BY <1>4 DEF Reject
  <1>5. CASE Accept(c)
    BY <1>5 DEF Accept, Passes
  <1> QED BY <1>1, <1>2, <1>3, <1>4, <1>5 DEF Inner

LEMMA ReadingLeaves ==
  ASSUME NEW c \in Conn, Reading(c)
  PROVE  UNCHANGED <<session, active, out, requests, replies, closing, closed, sending, row, post, fails,
                     until, recording, removing, blocks, failures, limit, wire, made, dropped, overlap>>
  <1> USE DEF task, router, audit, ip, bounds, history
  <1>1. CASE SendFrame(c) \/ PreRead(c) \/ PreFront(c) \/ MainRead(c)
    BY <1>1 DEF SendFrame, PreRead, PreFront, MainRead
  <1>2. CASE TakePing(c) \/ TakeLength(c) \/ TakeUnusable(c) \/ TakeCommand(c)
    BY <1>2 DEF TakePing, TakeLength, TakeUnusable, TakeCommand
  <1>3. CASE MainTimeout(c)
    BY <1>3 DEF MainTimeout, Timeout
  <1> QED BY <1>1, <1>2, <1>3 DEF Reading

LEMMA HandlingLeaves ==
  ASSUME NEW c \in Conn, NEW n \in Frames, Handling(c, n)
  PROVE  UNCHANGED <<frame, socket, buf, failed, pending, errors, keyed, active, out, terms, requests,
                     replies, closing, closed, sending, fails, until, recording, removing, blocks,
                     failures, limit, wire, dropped, overlap>>
  <1> USE DEF input, router, ip, bounds, history
  <1>1. CASE SaveUnknown(c, n) \/ SaveRequest(c, n)
    BY <1>1 DEF SaveUnknown, SaveRequest, SaveFails, Fault
  <1>2. ASSUME NEW rows, Answer(c, n, rows)
        PROVE  UNCHANGED <<input, failed, pending, errors, keyed, active, out, terms, router, ip, bounds,
                           wire, dropped, overlap>>
    BY <1>2 DEF Answer
  <1> QED BY <1>1, <1>2, HandlingSplit

LEMMA AuditingLeaves ==
  ASSUME NEW n \in Frames, Auditing(n)
  PROVE  UNCHANGED <<phase, at, failed, pending, errors, keyed, session, active, terms, frame, socket, buf,
                     out, requests, replies, closing, closed, sending, fails, until, recording, removing,
                     blocks, failures, limit, wire, made, dropped, overlap>>
  BY DEF Auditing, UpdateTolls, SaveResponse, Fault, task, input, router, ip, bounds, history

LEMMA ReplyingLeaves ==
  ASSUME Replying
  PROVE  UNCHANGED <<errors, session, active, frame, socket, buf, row, post, fails, until, recording, removing,
                     blocks, failures, limit, made>>
  <1> USE DEF task, input, audit, ip, bounds, history
  <1>1. ASSUME NEW c \in Conn, Pong(c) \/ Write(c) \/ Give(c)
        PROVE  UNCHANGED <<errors, session, active, input, audit, ip, bounds, made>>
    BY <1>1 DEF Pong, Write, Give
  <1>2. CASE Forward \/ RouteReply \/ RouteClosed
    BY <1>2 DEF Forward, RouteReply, RouteClosed
  <1>3. ASSUME NEW n \in Frames, SendReply(n)
        PROVE  UNCHANGED <<task, active, input, audit, ip, bounds, made>>
    BY <1>3 DEF SendReply
  <1>4. ASSUME NEW e \in terms, SendTerminate(e)
        PROVE  UNCHANGED <<task, active, input, audit, ip, bounds, made>>
    BY <1>4 DEF SendTerminate
  <1> QED BY <1>1, <1>2, <1>3, <1>4 DEF Replying

LEMMA BlockingLeaves ==
  ASSUME Blocking
  PROVE  UNCHANGED <<phase, at, failed, pending, errors, keyed, session, active, terms, frame, socket, buf,
                     out, requests, replies, closing, closed, sending, row, post, limit, wire, made,
                     dropped, overlap>>
  BY DEF Blocking, RecordFailure, Fault, Refuse, FindExpired, Tick, task, input, router, audit, bounds, history

LEMMA TellRouterLeaves ==
  ASSUME NEW c \in Conn, TellRouter(c)
  PROVE  UNCHANGED <<failed, pending, errors, keyed, session, active, terms, frame, socket, buf, out,
                     requests, replies, closed, sending, row, post, until, removing, blocks, limit, wire,
                     made, dropped, overlap>>
  BY DEF TellRouter, input, audit, bounds, history

\* What every step does to the tasks: an ended connection stays ended, and a task is
\* about a frame that it was about before, unless it takes a command.
Onward ==
  /\ Places'
  /\ \A d \in Conn : /\ phase[d] \in {"closing", "closed"} => phase'[d] \in {"closing", "closed"}
                     /\ phase[d] # "new" => phase'[d] # "new"
                     /\ at'[d].pc = "permit" => at'[d] = at[d] \/ TakeCommand(d)
                     /\ at'[d].pc = "front" => at'[d] = at[d] \/ PreRead(d)
                     /\ at'[d].pc = "save" => at'[d] = at[d] \/ Acquire(d)
                     /\ at'[d].pc \in Busy \ {"permit"} => at'[d].n = at[d].n /\ at[d].pc \in Busy
                     /\ at'[d].pc \in {"save", "handle", "error"} => at[d].pc # "give"
                     /\ at'[d].pc \in {"save", "handle"} => at[d].pc # "error"
                     /\ at'[d].pc \in {"handle", "give", "error"} => at[d].pc # "permit"
                     /\ at[d].pc = "writing" =>
                           \/ at'[d].pc = "writing" \/ phase'[d] \in {"closing", "closed"}
                           \/ Write(d)

LEMMA HopOnward ==
  ASSUME Places, NEW c \in Conn, Hop(c)
  PROVE  Onward
  <1>1. /\ Places' /\ Edge(phase[c], at[c].pc, phase'[c], at'[c].pc)
        /\ \A d \in Conn \ {c} : at'[d] = at[d] /\ phase'[d] = phase[d]
        /\ at'[c].pc = "permit" => TakeCommand(c)
        /\ at'[c].pc = "front" => PreRead(c)
        /\ at'[c].pc = "save" => Acquire(c)
        /\ at[c].pc = "writing" /\ at'[c].pc = "read" => Write(c)
        /\ at'[c].pc \in Busy \ {"permit"} => at'[c].n = at[c].n
    BY HopFacts
  <1>2. /\ phase[c] \in {"closing", "closed"} => phase'[c] \in {"closing", "closed"}
        /\ phase[c] # "new" => phase'[c] # "new"
        /\ at'[c].pc \in Busy \ {"permit"} => at[c].pc \in Busy
        /\ at'[c].pc \in {"save", "handle", "error"} => at[c].pc # "give"
        /\ at'[c].pc \in {"save", "handle"} => at[c].pc # "error"
        /\ at'[c].pc \in {"handle", "give", "error"} => at[c].pc # "permit"
        /\ at[c].pc = "writing" => at'[c].pc = "read" \/ phase'[c] \in {"closing", "closed"}
    BY <1>1 DEF Edge, Busy
  <1>3. \A d \in Conn \ {c} :
            /\ phase[d] \in {"closing", "closed"} => phase'[d] \in {"closing", "closed"}
            /\ phase[d] # "new" => phase'[d] # "new"
            /\ at'[d].pc \in {"permit", "front", "save"} => at'[d] = at[d]
            /\ at'[d].pc \in Busy \ {"permit"} => at'[d].n = at[d].n /\ at[d].pc \in Busy
            /\ at'[d].pc \in {"save", "handle", "error"} => at[d].pc # "give"
            /\ at'[d].pc \in {"save", "handle"} => at[d].pc # "error"
            /\ at'[d].pc \in {"handle", "give", "error"} => at[d].pc # "permit"
            /\ at[d].pc = "writing" => at'[d].pc = "writing"
    BY <1>1 DEF Busy
  <1> QED BY <1>1, <1>2, <1>3 DEF Onward

LEMMA StillOnward ==
  ASSUME Places, UNCHANGED <<phase, at>>
  PROVE  Onward
  BY DEF Onward, Places, Busy

LEMMA NextOnward ==
  ASSUME Types, Next
  PROVE  Onward
  <1>0. Places
    BY DEF Types
  <1>1. ASSUME NEW c \in Conn, Inner(c) PROVE Onward
    <2>1. CASE Accept(c) \/ PreTimeout(c) \/ BufferDone(c) \/ LeaveActive(c) \/ StartWrite(c)
      BY <1>0, <2>1, QuietHops, HopOnward
    <2>2. CASE Setup(c) \/ Config(c) \/ Eof(c) \/ HandshakeTimeout(c)
      BY <1>0, <2>2, EndHops, HopOnward, StillOnward
    <2>3. CASE Acquire(c) \/ HandlerFails(c) \/ HandleError(c) \/ \E n \in Frames : Reject(c, n)
      BY <1>0, <2>3, CommandHops, HopOnward
    <2> QED BY <1>1, <2>1, <2>2, <2>3 DEF Inner
  <1>2. ASSUME NEW c \in Conn, Reading(c) PROVE Onward
    <2>1. CASE PreRead(c) \/ PreFront(c) \/ MainRead(c) \/ TakePing(c)
      BY <1>0, <2>1, QuietHops, HopOnward
    <2>2. CASE TakeLength(c)
      BY <1>0, <2>2, EndHops, HopOnward, StillOnward
    <2>3. CASE TakeCommand(c)
      BY <1>0, <2>3, CommandHops, HopOnward
    <2>4. CASE SendFrame(c) \/ MainTimeout(c) \/ TakeUnusable(c)
      BY <1>0, <2>4, NoHops, StillOnward
    <2> QED BY <1>2, <2>1, <2>2, <2>3, <2>4 DEF Reading
  <1>3. ASSUME NEW c \in Conn, NEW n \in Frames, Handling(c, n) PROVE Onward
    <2>1. Hop(c)
      BY <1>3, HandlingSplit, CommandHops
    <2> QED BY <1>0, <2>1, HopOnward
  <1>4. ASSUME NEW c \in Conn, TellRouter(c) PROVE Onward
    BY <1>0, <1>4, QuietHops, HopOnward
  <1>5. ASSUME NEW n \in Frames, Auditing(n) PROVE Onward
    BY <1>0, <1>5, AuditingLeaves, StillOnward
  <1>6. CASE Blocking
    BY <1>0, <1>6, BlockingLeaves, StillOnward
  <1>7. CASE Replying
    <2>1. ASSUME NEW c \in Conn, Pong(c) PROVE Onward
      BY <1>0, <2>1, QuietHops, HopOnward
    <2>2. ASSUME NEW c \in Conn, Write(c) PROVE Onward
      BY <1>0, <2>2, EndHops, HopOnward, StillOnward
    <2>3. ASSUME NEW c \in Conn, Give(c) PROVE Onward
      BY <1>0, <2>3, CommandHops, HopOnward
    <2>4. CASE \/ Forward \/ RouteReply \/ RouteClosed
               \/ \E n \in Frames : SendReply(n)
               \/ \E e \in terms : SendTerminate(e)
      BY <1>0, <2>4, NoHops, StillOnward
    <2> QED BY <1>7, <2>1, <2>2, <2>3, <2>4 DEF Replying
  <1> QED BY <1>1, <1>2, <1>3, <1>4, <1>5, <1>6, <1>7, NextSplit

-----------------------------------------------------------------------------
(* Types *)

\* What a step may do to the sets and locals of the tasks.
LEMMA TaskTyped ==
  ASSUME TaskTypes, Onward, NEW c \in Conn,
         failed' \subseteq failed \cup {c}, keyed' \subseteq keyed \cup {c},
         session' \subseteq session \cup {c}, active' \subseteq active \cup {c},
         terms' \subseteq Conn \X Nat,
         pending' \in [Conn -> Kinds \cup {None}], errors' \in [Conn -> Nat],
         \A d \in Conn : \/ errors'[d] <= errors[d]
                         \/ /\ errors'[d] <= MAX_CONSECUTIVE_ERRORS
                            /\ ~Ended(d)' => errors'[d] < MAX_CONSECUTIVE_ERRORS
  PROVE  TaskTypes'
  <1>1. /\ failed' \subseteq Conn /\ keyed' \subseteq Conn /\ session' \subseteq Conn
        /\ active' \subseteq Conn
    BY DEF TaskTypes
  <1>2. ASSUME NEW d \in Conn
        PROVE  /\ errors'[d] <= MAX_CONSECUTIVE_ERRORS
               /\ ~Ended(d)' => errors'[d] < MAX_CONSECUTIVE_ERRORS
    <2>1. ~Ended(d)' => ~Ended(d)
      BY DEF Onward, Ended
    <2>2. /\ errors[d] <= MAX_CONSECUTIVE_ERRORS /\ errors[d] \in Nat /\ errors'[d] \in Nat
          /\ ~Ended(d) => errors[d] < MAX_CONSECUTIVE_ERRORS
      BY DEF TaskTypes
    <2>3. MAX_CONSECUTIVE_ERRORS \in Nat
      BY NetworkAssumption
    <2> QED BY <2>1, <2>2, <2>3
  <1> QED BY <1>1, <1>2 DEF TaskTypes

LEMMA InnerTyped ==
  ASSUME Types, Onward, NEW c \in Conn, Inner(c)
  PROVE  TaskTypes'
  <1>0. /\ TaskTypes /\ pending \in [Conn -> Kinds \cup {None}] /\ errors \in [Conn -> Nat]
        /\ terms \subseteq Conn \X Nat
    BY DEF Types, TaskTypes
  <1>1. UNCHANGED terms
    BY InnerLeaves
  <1>2. /\ failed' \subseteq failed \cup {c} /\ keyed' \subseteq keyed \cup {c}
        /\ session' \subseteq session \cup {c} /\ active' \subseteq active \cup {c}
        /\ UNCHANGED pending \/ pending' = [pending EXCEPT ![c] = None]
        /\ UNCHANGED errors \/ errors' = [errors EXCEPT ![c] = 0]
    <2>1. CASE \/ Accept(c) \/ PreTimeout(c) \/ BufferDone(c) \/ Acquire(c) \/ LeaveActive(c)
               \/ StartWrite(c)
      BY <2>1 DEF Accept, PreTimeout, BufferDone, Acquire, LeaveActive, StartWrite
    <2>2. CASE Setup(c) \/ Config(c)
      BY <2>2 DEF Setup, Config, FailAtOnce, End
    <2>3. CASE HandlerFails(c) \/ HandleError(c)
      BY <2>3 DEF HandlerFails, HandleError
    <2>4. CASE Eof(c) \/ HandshakeTimeout(c)
      BY <2>4 DEF Eof, HandshakeTimeout, End
    <2>5. CASE \E n \in Frames : Reject(c, n)
      BY <2>5 DEF Reject
    <2> QED BY <2>1, <2>2, <2>3, <2>4, <2>5 DEF Inner
  <1>3. pending' \in [Conn -> Kinds \cup {None}]
    BY <1>0, <1>2
  <1>4. errors' \in [Conn -> Nat] /\ \A d \in Conn : errors'[d] <= errors[d]
    BY <1>0, <1>2
  <1> QED BY <1>0, <1>1, <1>2, <1>3, <1>4, TaskTyped

LEMMA KindTyped ==
  ASSUME InputTypes, NEW n \in Frames
  PROVE  /\ Kind(n) \in Kinds /\ Owner(n) \in Conn
         /\ n \in Nat /\ Frames = 1 .. Len(frame) /\ Len(frame) \in Nat
  <1>1. frame \in Seq([kind : Kinds, conn : Conn, rid : RequestId])
    BY DEF InputTypes
  <1>2. Frames = 1 .. Len(frame) /\ Len(frame) \in Nat
    BY <1>1 DEF Frames
  <1>3. frame[n] \in [kind : Kinds, conn : Conn, rid : RequestId]
    <2> DEFINE R == [kind : Kinds, conn : Conn, rid : RequestId]
    <2>1. frame \in Seq(R)
      BY <1>1
    <2> HIDE DEF R
    <2>2. \A i \in 1 .. Len(frame) : frame[i] \in R
      BY <2>1
    <2> QED BY <1>2, <2>2 DEF R
  <1> QED BY <1>2, <1>3 DEF Kind, Owner

LEMMA ReadingTyped ==
  ASSUME Types, Onward, NEW c \in Conn, Reading(c)
  PROVE  TaskTypes'
  <1>0. /\ TaskTypes /\ pending \in [Conn -> Kinds \cup {None}] /\ errors \in [Conn -> Nat]
        /\ terms \subseteq Conn \X Nat /\ InputTypes /\ Places
    BY DEF Types, TaskTypes
  <1>1. UNCHANGED <<session, active>>
    BY ReadingLeaves
  <1>2. CASE SendFrame(c) \/ PreRead(c) \/ PreFront(c) \/ MainRead(c) \/ TakePing(c)
    <2>1. UNCHANGED <<failed, keyed, terms, pending, errors>>
      BY <1>2 DEF SendFrame, PreRead, PreFront, MainRead, TakePing, task
    <2> QED BY <1>0, <1>1, <2>1, TaskTyped
  <1>3. CASE MainTimeout(c)
    <2>1. UNCHANGED <<failed, keyed, pending, errors>> /\ terms' = terms \cup {<<c, 0>>}
      BY <1>3 DEF MainTimeout, task
    <2> QED BY <1>0, <1>1, <2>1, TaskTyped
  <1>4. CASE TakeUnusable(c)
    <2>1. /\ buf[c] # <<>> /\ UNCHANGED <<failed, pending>> /\ errors' = [errors EXCEPT ![c] = 0]
          /\ keyed' \subseteq keyed \cup {c}
          /\ UNCHANGED terms \/ terms' = terms \cup {<<c, Head(buf[c])>>}
      BY <1>4 DEF TakeUnusable
    <2>2. terms' \subseteq Conn \X Nat
      BY <1>0, <2>1, HeadTyped
    <2>3. errors' \in [Conn -> Nat] /\ \A d \in Conn : errors'[d] <= errors[d]
      BY <1>0, <2>1
    <2> QED BY <1>0, <1>1, <2>1, <2>2, <2>3, TaskTyped
  <1>5. CASE TakeCommand(c)
    <2>1. /\ UNCHANGED <<failed, terms>> /\ errors' = [errors EXCEPT ![c] = 0]
          /\ keyed' \subseteq keyed \cup {c}
          /\ pending' = [pending EXCEPT ![c] = Kind(Head(buf[c]))]
          /\ Kind(Head(buf[c])) \in Commands
      BY <1>5 DEF TakeCommand
    <2>2. Kind(Head(buf[c])) \in Kinds
      BY <2>1 DEF Kinds
    <2>3. pending' \in [Conn -> Kinds \cup {None}]
      BY <1>0, <2>1, <2>2
    <2>4. errors' \in [Conn -> Nat] /\ \A d \in Conn : errors'[d] <= errors[d]
      BY <1>0, <2>1
    <2> QED BY <1>0, <1>1, <2>1, <2>3, <2>4, TaskTyped
  <1>6. CASE TakeLength(c)
    <2>1. /\ buf[c] # <<>> /\ at[c].pc = "take" /\ UNCHANGED pending
          /\ errors' = [errors EXCEPT ![c] = errors[c] + 1]
          /\ \/ terms' = terms \cup {<<c, Head(buf[c])>>} /\ End(c, FALSE)
             \/ /\ errors[c] + 1 < MAX_CONSECUTIVE_ERRORS
                /\ UNCHANGED <<terms, failed, keyed>>
      <3>1. errors[c] \in Nat /\ MAX_CONSECUTIVE_ERRORS \in Nat
        BY <1>0, NetworkAssumption
      <3>2. errors[c] + 1 >= MAX_CONSECUTIVE_ERRORS \/ errors[c] + 1 < MAX_CONSECUTIVE_ERRORS
        BY <3>1
      <3> QED BY <1>6, <3>2 DEF TakeLength
    <2>2. terms' \subseteq Conn \X Nat
      <3>1. <<c, Head(buf[c])>> \in Conn \X Nat
        BY <1>0, <2>1, HeadTyped
      <3> QED BY <1>0, <2>1, <3>1
    <2>3. failed' \subseteq failed \cup {c} /\ keyed' \subseteq keyed \cup {c}
      BY <2>1 DEF End
    <2>4. errors[c] < MAX_CONSECUTIVE_ERRORS
      <3>1. phase[c] = "main"
        BY <1>0, <2>1, PhaseOf
      <3> QED BY <1>0, <3>1 DEF TaskTypes, Ended
    <2>5. End(c, FALSE) => Ended(c)'
      <3>1. phase \in [Conn -> Phases]
        BY <1>0 DEF Places
      <3> QED BY <3>1 DEF End, Ended
    <2>6. errors' \in [Conn -> Nat] /\ errors'[c] = errors[c] + 1 /\ errors[c] \in Nat
          /\ \A d \in Conn \ {c} : errors'[d] = errors[d]
      BY <1>0, <2>1
    <2>7. MAX_CONSECUTIVE_ERRORS \in Nat
      BY NetworkAssumption
    <2>8. ~Ended(c)' => errors[c] + 1 < MAX_CONSECUTIVE_ERRORS
      BY <2>1, <2>5
    <2>9. ASSUME NEW d \in Conn
          PROVE  \/ errors'[d] <= errors[d]
                 \/ /\ errors'[d] <= MAX_CONSECUTIVE_ERRORS
                    /\ ~Ended(d)' => errors'[d] < MAX_CONSECUTIVE_ERRORS
      <3>1. CASE d = c
        BY <2>4, <2>6, <2>7, <2>8, <3>1
      <3>2. CASE d # c
        BY <1>0, <2>6, <3>2
      <3> QED BY <3>1, <3>2
    <2> QED BY <1>0, <1>1, <2>1, <2>2, <2>3, <2>6, <2>9, TaskTyped
  <1> QED BY <1>2, <1>3, <1>4, <1>5, <1>6 DEF Reading

LEMMA NextTaskTyped ==
  ASSUME Types, Next
  PROVE  TaskTypes'
  <1>0. /\ TaskTypes /\ pending \in [Conn -> Kinds \cup {None}] /\ errors \in [Conn -> Nat]
        /\ terms \subseteq Conn \X Nat /\ Onward
    BY NextOnward DEF Types, TaskTypes
  <1>1. ASSUME UNCHANGED <<failed, pending, errors, keyed, session, active, terms>>
        PROVE  TaskTypes'
    BY <1>0, <1>1 DEF TaskTypes, Onward, Ended
  <1>2. ASSUME NEW c \in Conn, Inner(c) \/ Reading(c) PROVE TaskTypes'
    BY <1>0, <1>2, InnerTyped, ReadingTyped
  <1>3. ASSUME NEW c \in Conn, NEW n \in Frames, Handling(c, n) PROVE TaskTypes'
    <2>1. UNCHANGED <<failed, pending, errors, keyed, active, terms>>
      BY <1>3, HandlingLeaves
    <2>2. session' \subseteq session \cup {c}
      BY <1>3, HandlingSplit DEF SaveUnknown, SaveRequest
    <2> QED BY <1>0, <2>1, <2>2, TaskTyped
  <1>4. ASSUME NEW c \in Conn, TellRouter(c) PROVE TaskTypes'
    BY <1>1, <1>4, TellRouterLeaves
  <1>5. CASE Blocking \/ \E n \in Frames : Auditing(n)
    BY <1>1, <1>5, BlockingLeaves, AuditingLeaves
  <1>6. CASE Replying
    <2>0. UNCHANGED <<errors, session, active>>
      BY <1>6, ReplyingLeaves
    <2>1. ASSUME NEW c \in Conn, Pong(c) \/ Give(c) PROVE TaskTypes'
      <3>1. UNCHANGED <<failed, pending, keyed, terms>>
        BY <2>1 DEF Pong, Give
      <3> QED BY <1>1, <2>0, <3>1
    <2>2. ASSUME NEW c \in Conn, Write(c) PROVE TaskTypes'
      <3>1. /\ UNCHANGED terms /\ failed' \subseteq failed \cup {c} /\ keyed' \subseteq keyed \cup {c}
            /\ UNCHANGED pending \/ pending' = [pending EXCEPT ![c] = None]
        BY <2>2 DEF Write, Written, End
      <3>2. pending' \in [Conn -> Kinds \cup {None}]
        BY <1>0, <3>1
      <3> QED BY <1>0, <2>0, <3>1, <3>2, TaskTyped
    <2>3. CASE Forward \/ RouteReply \/ RouteClosed \/ \E n \in Frames : SendReply(n)
      <3>1. UNCHANGED <<failed, pending, keyed, terms>>
        BY <2>3 DEF Forward, RouteReply, RouteClosed, SendReply, task
      <3> QED BY <1>1, <2>0, <3>1
    <2>4. ASSUME NEW e \in terms, SendTerminate(e) PROVE TaskTypes'
      <3>1. UNCHANGED <<failed, pending, keyed>> /\ terms' \subseteq terms
        BY <2>4 DEF SendTerminate, task
      <3>2. terms' \subseteq Conn \X Nat /\ e[1] \in Conn
        BY <1>0, <3>1
      <3> QED BY <1>0, <2>0, <3>1, <3>2, TaskTyped
    <2> QED BY <1>6, <2>1, <2>2, <2>3, <2>4 DEF Replying
  <1> QED BY <1>2, <1>3, <1>4, <1>5, <1>6, NextSplit

-----------------------------------------------------------------------------
(* The frames *)

\* The four ways in which a step touches the frames.
Takes(c) ==
  /\ buf[c] # <<>> /\ UNCHANGED <<frame, socket>>
  /\ buf' = [buf EXCEPT ![c] = Tail(buf[c])] \/ buf' = [buf EXCEPT ![c] = <<>>]
  /\ at[c].pc = "take" \/ at'[c].pc = "pong"

InputStep ==
  \/ UNCHANGED <<frame, socket, buf>>
  \/ \E c \in Conn : SendFrame(c) \/ (Read(c) /\ at[c].pc = "read") \/ Takes(c)

LEMMA NextInput ==
  ASSUME Types, Next
  PROVE  InputStep /\ UNCHANGED limit
  <1>1. ASSUME NEW c \in Conn, Reading(c) PROVE InputStep
    <2>1. CASE SendFrame(c)
      BY <2>1, Zenon DEF InputStep
    <2>2. CASE PreRead(c) \/ MainRead(c)
      <3>1. Read(c) /\ at[c].pc = "read"
        BY <2>2 DEF PreRead, MainRead
      <3> QED BY <3>1, Zenon DEF InputStep
    <2>3. CASE MainTimeout(c)
      BY <2>3 DEF MainTimeout, InputStep, input
    <2>4. CASE TakePing(c) \/ TakeLength(c) \/ TakeUnusable(c) \/ TakeCommand(c)
      <3>1. Takes(c)
        BY <2>4 DEF TakePing, TakeLength, TakeUnusable, TakeCommand, TakeFront, Takes
      <3> QED BY <3>1, Zenon DEF InputStep
    <2>5. CASE PreFront(c)
      <3>1. CASE UNCHANGED buf
        BY <2>5, <3>1 DEF PreFront, InputStep
      <3>2. CASE ~UNCHANGED buf
        <4>1. /\ Goto(c, "pong", Head(buf[c])) /\ buf' = [buf EXCEPT ![c] = Tail(buf[c])]
              /\ UNCHANGED <<frame, socket>> /\ at[c].pc = "front"
          BY <2>5, <3>2 DEF PreFront
        <4>2. buf[c] # <<>> /\ at \in [Conn -> [pc : Steps, n : Nat]]
          BY <4>1 DEF Types, InputTypes, Places
        <4>3. at'[c].pc = "pong"
          BY <4>1, <4>2 DEF Goto, At
        <4>4. Takes(c)
          BY <4>1, <4>2, <4>3, Zenon DEF Takes
        <4> QED BY <4>4, Zenon DEF InputStep
      <3> QED BY <3>1, <3>2
    <2> QED BY <1>1, <2>1, <2>2, <2>3, <2>4, <2>5 DEF Reading
  <1>2. ASSUME NEW c \in Conn, Inner(c) \/ Reading(c) \/ TellRouter(c) PROVE InputStep /\ UNCHANGED limit
    BY <1>1, <1>2, InnerLeaves, ReadingLeaves, TellRouterLeaves DEF InputStep
  <1>3. ASSUME NEW c \in Conn, NEW n \in Frames, Handling(c, n) PROVE InputStep /\ UNCHANGED limit
    BY <1>3, HandlingLeaves DEF InputStep
  <1>4. ASSUME NEW n \in Frames, Auditing(n) PROVE InputStep /\ UNCHANGED limit
    BY <1>4, AuditingLeaves DEF InputStep
  <1>5. CASE Replying \/ Blocking
    BY <1>5, ReplyingLeaves, BlockingLeaves DEF InputStep
  <1> QED BY <1>2, <1>3, <1>4, <1>5, NextSplit

\* Frames are only added, and nothing comes back to the client's socket or the buffer.
Flow ==
  /\ frame' \in Seq([kind : Kinds, conn : Conn, rid : RequestId])
  /\ Frames \subseteq Frames'
  /\ \A n \in Frames : frame'[n] = frame[n]
  /\ \A m \in Frames, n \in Frames' \ Frames : m < n
  /\ \A d \in Conn : \A n \in Waiting(d)' :
        n \in Waiting(d) \/ (n \in Frames' \ Frames /\ frame'[n].conn = d)

\* A connection's buffer comes before its socket, each in order.
Queued(d) ==
  /\ buf[d] \in Seq(Nat) /\ socket[d] \in Seq(Nat)
  /\ Rising(buf[d]) /\ Rising(socket[d])
  /\ \A m \in ToSet(buf[d]), n \in ToSet(socket[d]) : m < n

LEMMA QueuedFrames ==
  ASSUME Types, InputSound, NEW d \in Conn
  PROVE  Queued(d) /\ \A n \in Waiting(d) : n \in Frames /\ Owner(n) = d
  BY DEF Types, InputTypes, InputSound, Queued

\* The frame that SendFrame adds.
LEMMA SentFrame ==
  ASSUME Types, NEW c \in Conn, SendFrame(c)
  PROVE  /\ frame' \in Seq([kind : Kinds, conn : Conn, rid : RequestId])
         /\ Frames = 1 .. Len(frame) /\ Len(frame) \in Nat /\ Frames' = 1 .. Len(frame) + 1
         /\ \A n \in Frames : frame'[n] = frame[n]
         /\ frame'[Len(frame) + 1].conn = c
         /\ UNCHANGED buf /\ Open(c)
         /\ socket' = [socket EXCEPT ![c] = Append(socket[c], Len(frame) + 1)]
  <1> DEFINE R == [kind : Kinds, conn : Conn, rid : RequestId]
  <1>1. PICK k \in limit.kinds, r \in RequestId :
          frame' = Append(frame, [kind |-> k, conn |-> c, rid |-> r])
    BY DEF SendFrame
  <1>2. limit.kinds \subseteq Kinds
    <2>1. limit \in [conns : Nat, frames : Nat, kinds : SUBSET Kinds, faults : Nat, timeouts : Nat]
      BY NetworkAssumption DEF Types, InputTypes
    <2> QED BY <2>1
  <1> DEFINE u == [kind |-> k, conn |-> c, rid |-> r]
  <1>3. frame \in Seq(R) /\ u \in R /\ u.conn = c
    BY <1>2 DEF Types, InputTypes
  <1> HIDE DEF R, u
  <1>4. /\ Append(frame, u) \in Seq(R) /\ Len(frame) \in Nat
        /\ DOMAIN frame = 1 .. Len(frame) /\ DOMAIN Append(frame, u) = 1 .. Len(frame) + 1
        /\ \A i \in 1 .. Len(frame) : Append(frame, u)[i] = frame[i]
        /\ Append(frame, u)[Len(frame) + 1] = u
    BY <1>3, AppendFacts
  <1>5. frame' = Append(frame, u)
    BY <1>1 DEF u
  <1>6. /\ UNCHANGED buf /\ Open(c)
        /\ socket' = [socket EXCEPT ![c] = Append(socket[c], Len(frame) + 1)]
    BY DEF SendFrame
  <1>7. /\ frame' \in Seq(R) /\ Frames = 1 .. Len(frame) /\ Len(frame) \in Nat
        /\ Frames' = 1 .. Len(frame) + 1
        /\ \A n \in Frames : frame'[n] = frame[n]
        /\ frame'[Len(frame) + 1].conn = c
    BY <1>3, <1>4, <1>5, Zenon DEF Frames
  <1> QED BY <1>6, <1>7 DEF R

\* What sending, reading and taking do to the queues of the connection.
LEMMA SentQueues ==
  ASSUME Types, InputSound, NEW c \in Conn, SendFrame(c)
  PROVE  /\ socket' \in [Conn -> Seq(Nat)] /\ UNCHANGED buf
         /\ \A d \in Conn \ {c} : socket'[d] = socket[d]
         /\ ToSet(socket'[c]) = ToSet(socket[c]) \cup {Len(frame) + 1}
         /\ Rising(socket'[c])
         /\ \A m \in ToSet(buf[c]), n \in ToSet(socket'[c]) : m < n
  <1>1. /\ Frames = 1 .. Len(frame) /\ Len(frame) \in Nat /\ UNCHANGED buf
        /\ socket' = [socket EXCEPT ![c] = Append(socket[c], Len(frame) + 1)]
    BY SentFrame
  <1>2. socket \in [Conn -> Seq(Nat)]
    BY DEF Types, InputTypes
  <1>3. Queued(c) /\ \A n \in Waiting(c) : n \in Frames
    BY QueuedFrames
  <1> DEFINE u == Len(frame) + 1
             q == socket[c]
             a == Append(q, u)
  <1>4. q \in Seq(Nat) /\ u \in Nat /\ Rising(q)
    BY <1>1, <1>3 DEF Queued
  <1>5. \A n \in Waiting(c) : n < u
    BY <1>1, <1>3
  <1>6. /\ \A n \in ToSet(q) : n < u
        /\ \A n \in ToSet(buf[c]) : n < u
    BY <1>5 DEF Waiting
  <1> HIDE DEF u, q
  <1>7. a \in Seq(Nat) /\ ToSet(a) = ToSet(q) \cup {u} /\ Rising(a)
    BY <1>4, <1>6, AppendFacts, AppendSet, AppendRising
  <1> HIDE DEF a
  <1>8. socket' = [socket EXCEPT ![c] = a]
    BY <1>1 DEF a, q, u
  <1>9. /\ socket' \in [Conn -> Seq(Nat)] /\ socket'[c] = a
        /\ \A d \in Conn \ {c} : socket'[d] = socket[d]
    BY <1>2, <1>7, <1>8
  <1>10. \A m \in ToSet(buf[c]), n \in ToSet(a) : m < n
    BY <1>3, <1>6, <1>7 DEF Queued, q
  <1> QED BY <1>1, <1>7, <1>9, <1>10 DEF q, u

LEMMA ReadQueues ==
  ASSUME Types, InputSound, NEW c \in Conn, Read(c)
  PROVE  /\ socket' \in [Conn -> Seq(Nat)] /\ buf' \in [Conn -> Seq(Nat)] /\ UNCHANGED frame
         /\ \A d \in Conn \ {c} : socket'[d] = socket[d] /\ buf'[d] = buf[d]
         /\ buf'[c] # <<>>
         /\ Rising(socket'[c]) /\ Rising(buf'[c])
         /\ ToSet(buf'[c]) \cup ToSet(socket'[c]) \subseteq Waiting(c)
         /\ \A m \in ToSet(buf'[c]), n \in ToSet(socket'[c]) : m < n
  <1>1. PICK k \in 1 .. Len(socket[c]) :
          /\ buf' = [buf EXCEPT ![c] = buf[c] \o SubSeq(socket[c], 1, k)]
          /\ socket' = [socket EXCEPT ![c] = SubSeq(socket[c], k + 1, Len(socket[c]))]
          /\ UNCHANGED frame
    BY DEF Read
  <1>2. socket \in [Conn -> Seq(Nat)] /\ buf \in [Conn -> Seq(Nat)]
    BY DEF Types, InputTypes
  <1>3. Queued(c)
    BY QueuedFrames
  <1> DEFINE q == buf[c]
             r == socket[c]
             a == q \o SubSeq(r, 1, k)
             b == SubSeq(r, k + 1, Len(r))
  <1>4. /\ q \in Seq(Nat) /\ r \in Seq(Nat) /\ k \in 1 .. Len(r) /\ Rising(q) /\ Rising(r)
        /\ \A m \in ToSet(q), n \in ToSet(r) : m < n
    BY <1>3 DEF Queued
  <1>5. buf' = [buf EXCEPT ![c] = a] /\ socket' = [socket EXCEPT ![c] = b]
    BY <1>1
  <1> HIDE DEF q, r
  <1>6. /\ a \in Seq(Nat) /\ b \in Seq(Nat) /\ a # <<>>
        /\ ToSet(a) \subseteq ToSet(q) \cup ToSet(r) /\ ToSet(b) \subseteq ToSet(r)
        /\ Rising(a) /\ Rising(b) /\ \A m \in ToSet(a), n \in ToSet(b) : m < n
    <2>1. Reads(q, r, k, a, b)
      BY <1>4 DEF Reads
    <2> HIDE DEF a, b
    <2>2. /\ a \in Seq(Nat) /\ b \in Seq(Nat) /\ a # <<>>
          /\ ToSet(a) \subseteq ToSet(q) \cup ToSet(r) /\ ToSet(b) \subseteq ToSet(r)
          /\ (Rising(q) /\ Rising(r) /\ \A m \in ToSet(q), n \in ToSet(r) : m < n) =>
                Rising(a) /\ Rising(b) /\ \A m \in ToSet(a), n \in ToSet(b) : m < n
      BY <1>4, <2>1, MoveFront
    <2> QED BY <1>4, <2>2
  <1> HIDE DEF a, b
  <1>7. /\ buf' \in [Conn -> Seq(Nat)] /\ buf'[c] = a
        /\ socket' \in [Conn -> Seq(Nat)] /\ socket'[c] = b
        /\ \A d \in Conn \ {c} : socket'[d] = socket[d] /\ buf'[d] = buf[d]
    BY <1>2, <1>5, <1>6
  <1>8. ToSet(a) \cup ToSet(b) \subseteq Waiting(c)
    BY <1>6 DEF Waiting, q, r
  <1> QED BY <1>1, <1>6, <1>7, <1>8

LEMMA TakeQueues ==
  ASSUME Types, InputSound, NEW c \in Conn, Takes(c)
  PROVE  /\ UNCHANGED <<frame, socket>> /\ buf' \in [Conn -> Seq(Nat)]
         /\ \A d \in Conn \ {c} : buf'[d] = buf[d]
         /\ Rising(buf'[c]) /\ ToSet(buf'[c]) \subseteq ToSet(buf[c])
         /\ Head(buf[c]) \in ToSet(buf[c]) /\ Head(buf[c]) \in Nat
         /\ \A n \in ToSet(buf'[c]) \cup ToSet(socket[c]) : Head(buf[c]) < n
  <1>1. /\ UNCHANGED <<frame, socket>> /\ buf[c] # <<>>
        /\ buf' = [buf EXCEPT ![c] = Tail(buf[c])] \/ buf' = [buf EXCEPT ![c] = <<>>]
    BY DEF Takes
  <1>2. buf \in [Conn -> Seq(Nat)]
    BY DEF Types, InputTypes
  <1>3. Queued(c)
    BY QueuedFrames
  <1> DEFINE q == buf[c]
             e == <<>>
  <1>4. q \in Seq(Nat) /\ q # <<>> /\ Rising(q)
    BY <1>1, <1>3 DEF Queued
  <1> HIDE DEF q
  <1>5. /\ Tail(q) \in Seq(Nat) /\ Rising(Tail(q)) /\ ToSet(Tail(q)) \subseteq ToSet(q)
        /\ Head(q) \in ToSet(q) /\ Head(q) \in Nat
        /\ \A n \in ToSet(Tail(q)) : Head(q) < n
    BY <1>4, HeadTail, TailRising
  <1>6. e \in Seq(Nat) /\ Rising(e) /\ ToSet(e) = {}
    <2>1. DOMAIN e = {}
      OBVIOUS
    <2> QED BY <2>1 DEF Rising, ToSet
  <1> HIDE DEF e
  <1>7. PICK b \in {Tail(q), e} : buf' = [buf EXCEPT ![c] = b]
    BY <1>1 DEF q, e
  <1>8. /\ buf' \in [Conn -> Seq(Nat)] /\ buf'[c] = b
        /\ \A d \in Conn \ {c} : buf'[d] = buf[d]
    BY <1>2, <1>5, <1>6, <1>7
  <1>9. Rising(b) /\ ToSet(b) \subseteq ToSet(q) /\ \A n \in ToSet(b) : Head(q) < n
    BY <1>5, <1>6, <1>7
  <1>10. \A n \in ToSet(socket[c]) : Head(q) < n
    BY <1>3, <1>5 DEF Queued, q
  <1> QED BY <1>1, <1>5, <1>8, <1>9, <1>10 DEF q

LEMMA NextFlow ==
  ASSUME Types, InputSound, Next
  PROVE  Flow /\ \A d \in Conn : Queued(d)'
  <1>0. /\ \A d \in Conn : Queued(d) /\ \A n \in Waiting(d) : n \in Frames /\ Owner(n) = d
        /\ frame \in Seq([kind : Kinds, conn : Conn, rid : RequestId])
    BY QueuedFrames DEF Types, InputTypes
  <1>1. CASE UNCHANGED <<frame, socket, buf>>
    <2>1. Flow
      BY <1>0, <1>1 DEF Flow, Frames, Waiting
    <2>2. \A d \in Conn : Queued(d)'
      BY <1>0, <1>1 DEF Queued
    <2> QED BY <2>1, <2>2
  <1>2. ASSUME NEW c \in Conn, SendFrame(c)
        PROVE  Flow /\ \A d \in Conn : Queued(d)'
    <2>1. /\ frame' \in Seq([kind : Kinds, conn : Conn, rid : RequestId])
          /\ Frames = 1 .. Len(frame) /\ Len(frame) \in Nat /\ Frames' = 1 .. Len(frame) + 1
          /\ \A n \in Frames : frame'[n] = frame[n]
          /\ frame'[Len(frame) + 1].conn = c
      BY <1>2, SentFrame
    <2>2. /\ socket' \in [Conn -> Seq(Nat)] /\ UNCHANGED buf
          /\ \A d \in Conn \ {c} : socket'[d] = socket[d]
          /\ ToSet(socket'[c]) = ToSet(socket[c]) \cup {Len(frame) + 1}
          /\ Rising(socket'[c])
          /\ \A m \in ToSet(buf[c]), n \in ToSet(socket'[c]) : m < n
      BY <1>2, SentQueues
    <2>3. Frames \subseteq Frames' /\ \A m \in Frames, n \in Frames' \ Frames : m < n
      BY <2>1
    <2>4. Len(frame) + 1 \in Frames' \ Frames
      BY <2>1
    <2>5. ASSUME NEW d \in Conn, NEW n \in Waiting(d)'
          PROVE  n \in Waiting(d) \/ (n \in Frames' \ Frames /\ frame'[n].conn = d)
      <3>1. CASE d = c
        BY <2>1, <2>2, <2>4, <3>1 DEF Waiting
      <3>2. CASE d # c
        BY <2>2, <3>2 DEF Waiting
      <3> QED BY <3>1, <3>2
    <2>6. ASSUME NEW d \in Conn PROVE Queued(d)'
      BY <1>0, <2>2 DEF Queued
    <2> QED BY <2>1, <2>3, <2>5, <2>6 DEF Flow
  <1>3. ASSUME NEW c \in Conn, Read(c) \/ Takes(c)
        PROVE  Flow /\ \A d \in Conn : Queued(d)'
    <2>1. /\ socket' \in [Conn -> Seq(Nat)] /\ buf' \in [Conn -> Seq(Nat)] /\ UNCHANGED frame
          /\ \A d \in Conn \ {c} : socket'[d] = socket[d] /\ buf'[d] = buf[d]
          /\ Rising(socket'[c]) /\ Rising(buf'[c])
          /\ ToSet(buf'[c]) \cup ToSet(socket'[c]) \subseteq Waiting(c)
          /\ \A m \in ToSet(buf'[c]), n \in ToSet(socket'[c]) : m < n
      <3>1. CASE Read(c)
        BY <3>1, ReadQueues
      <3>2. CASE Takes(c)
        <4>1. /\ UNCHANGED <<frame, socket>> /\ buf' \in [Conn -> Seq(Nat)]
              /\ \A d \in Conn \ {c} : buf'[d] = buf[d]
              /\ Rising(buf'[c]) /\ ToSet(buf'[c]) \subseteq ToSet(buf[c])
          BY <3>2, TakeQueues
        <4>2. /\ socket \in [Conn -> Seq(Nat)] /\ Rising(socket[c])
              /\ \A m \in ToSet(buf[c]), n \in ToSet(socket[c]) : m < n
          BY <1>0 DEF Queued, Types, InputTypes
        <4> QED BY <4>1, <4>2 DEF Waiting
      <3> QED BY <1>3, <3>1, <3>2
    <2>2. ASSUME NEW d \in Conn, NEW n \in Waiting(d)'
          PROVE  n \in Waiting(d)
      <3>1. CASE d = c
        BY <2>1, <3>1 DEF Waiting
      <3>2. CASE d # c
        BY <2>1, <3>2 DEF Waiting
      <3> QED BY <3>1, <3>2
    <2>3. Flow
      BY <1>0, <2>1, <2>2 DEF Flow, Frames
    <2>4. ASSUME NEW d \in Conn PROVE Queued(d)'
      BY <1>0, <2>1 DEF Queued
    <2> QED BY <2>3, <2>4
  <1> QED BY <1>1, <1>2, <1>3, NextInput DEF InputStep

LEMMA NextInputTyped ==
  ASSUME Types, InputSound, Next
  PROVE  InputTypes'
  <1>1. /\ Flow /\ \A d \in Conn : Queued(d)'
        /\ Onward /\ InputStep /\ UNCHANGED limit
    BY NextFlow, NextOnward, NextInput
  <1>2. socket \in [Conn -> Seq(Nat)] /\ buf \in [Conn -> Seq(Nat)] /\ limit \in Limits
    BY DEF Types, InputTypes
  <1>3. socket' \in [Conn -> Seq(Nat)] /\ buf' \in [Conn -> Seq(Nat)]
    <2>1. ASSUME NEW c \in Conn, SendFrame(c) PROVE socket' \in [Conn -> Seq(Nat)] /\ buf' \in [Conn -> Seq(Nat)]
      BY <1>2, <2>1, SentQueues
    <2>2. ASSUME NEW c \in Conn, Read(c) PROVE socket' \in [Conn -> Seq(Nat)] /\ buf' \in [Conn -> Seq(Nat)]
      BY <2>2, ReadQueues
    <2>3. ASSUME NEW c \in Conn, Takes(c) PROVE socket' \in [Conn -> Seq(Nat)] /\ buf' \in [Conn -> Seq(Nat)]
      BY <1>2, <2>3, TakeQueues
    <2> QED BY <1>1, <1>2, <2>1, <2>2, <2>3 DEF InputStep
  <1>4. ASSUME NEW d \in Conn, at'[d].pc = "front" PROVE buf'[d] # <<>>
    <2>1. CASE PreRead(d)
      <3>1. Read(d)
        BY <2>1 DEF PreRead
      <3> QED BY <3>1, ReadQueues
    <2>2. CASE at'[d] = at[d]
      <3>1. at[d].pc = "front"
        BY <1>4, <2>2
      <3>2. buf[d] # <<>>
        BY <3>1 DEF Types, InputTypes
      <3>3. ASSUME NEW c \in Conn, SendFrame(c) \/ (Read(c) /\ at[c].pc = "read") \/ Takes(c)
            PROVE  buf'[d] = buf[d]
        <4>1. CASE SendFrame(c)
          BY <4>1, SentFrame
        <4>2. CASE Read(c) /\ at[c].pc = "read"
          BY <3>1, <4>2, ReadQueues
        <4>3. CASE Takes(c)
          <5>1. c # d
            BY <1>4, <3>1, <4>3 DEF Takes
          <5> QED BY <4>3, <5>1, TakeQueues
        <4> QED BY <3>3, <4>1, <4>2, <4>3
      <3>4. buf'[d] = buf[d]
        BY <1>1, <3>3 DEF InputStep
      <3> QED BY <3>2, <3>4
    <2> QED BY <1>1, <1>4, <2>1, <2>2 DEF Onward
  <1> QED BY <1>1, <1>2, <1>3, <1>4 DEF InputTypes, Flow

\* A command that is taken is the first one waiting.
LEMMA TakenFirst ==
  ASSUME Types, InputSound, NEW c \in Conn, TakeCommand(c)
  PROVE  /\ at'[c].n \in Waiting(c) /\ at'[c].n \in Frames /\ Owner(at'[c].n) = c
         /\ Kind(at'[c].n) \in Commands
         /\ pending'[c] = Kind(at'[c].n)
         /\ \A m \in Waiting(c)' : at'[c].n < m
         /\ at'[c].n \notin Waiting(c)'
         /\ UNCHANGED frame
  <1>1. /\ at' = [at EXCEPT ![c] = At("permit", Head(buf[c]))] /\ Kind(Head(buf[c])) \in Commands
        /\ pending' = [pending EXCEPT ![c] = Kind(Head(buf[c]))]
    BY DEF TakeCommand, Goto
  <1>2. at \in [Conn -> [pc : Steps, n : Nat]] /\ pending \in [Conn -> Kinds \cup {None}]
    BY DEF Types, Places, TaskTypes
  <1>3. at'[c].n = Head(buf[c])
    BY <1>1, <1>2 DEF At
  <1>4. pending'[c] = Kind(Head(buf[c]))
    BY <1>1, <1>2
  <1>5. Takes(c)
    BY DEF TakeCommand, TakeFront, Takes
  <1>6. /\ UNCHANGED <<frame, socket>> /\ Head(buf[c]) \in ToSet(buf[c]) /\ Head(buf[c]) \in Nat
        /\ \A n \in ToSet(buf'[c]) \cup ToSet(socket[c]) : Head(buf[c]) < n
    BY <1>5, TakeQueues
  <1>7. Head(buf[c]) \in Waiting(c)
    BY <1>6 DEF Waiting
  <1>8. Head(buf[c]) \in Frames /\ Owner(Head(buf[c])) = c
    BY <1>7, QueuedFrames
  <1>9. \A m \in Waiting(c)' : Head(buf[c]) < m
    BY <1>6 DEF Waiting
  <1>10. Head(buf[c]) \notin Waiting(c)'
    BY <1>6, <1>9
  <1> QED BY <1>1, <1>3, <1>4, <1>6, <1>7, <1>8, <1>9, <1>10

LEMMA NextInputSound ==
  ASSUME Types, InputSound, Next
  PROVE  InputSound'
  <1>1. Flow /\ (\A d \in Conn : Queued(d)') /\ Onward
    BY NextFlow, NextOnward
  <1>2. ASSUME NEW d \in Conn, NEW n \in Waiting(d)'
        PROVE  n \in Frames' /\ Owner(n)' = d
    BY <1>1, <1>2, QueuedFrames DEF Flow, Owner
  <1>3. ASSUME NEW d \in Conn, at'[d].pc \in Busy
        PROVE  /\ at'[d].n \in Frames' /\ Owner(at[d].n)' = d /\ Kind(at[d].n)' \in Commands
               /\ \A m \in Waiting(d)' : at'[d].n < m
    <2>1. CASE TakeCommand(d)
      BY <2>1, TakenFirst DEF Frames, Owner, Kind
    <2>2. CASE at'[d].n = at[d].n /\ at[d].pc \in Busy
      <3> DEFINE n == at[d].n
      <3>1. /\ n \in Frames /\ Owner(n) = d /\ Kind(n) \in Commands
            /\ \A m \in Waiting(d) : n < m
        BY <2>2 DEF InputSound, Busy
      <3> HIDE DEF n
      <3>2. n \in Frames' /\ frame'[n] = frame[n] /\ \A m \in Frames' \ Frames : n < m
        BY <1>1, <3>1 DEF Flow
      <3>3. \A m \in Waiting(d)' : n < m
        BY <1>1, <3>1, <3>2 DEF Flow
      <3>4. at'[d].n = n
        BY <2>2 DEF n
      <3> QED BY <3>1, <3>2, <3>3, <3>4 DEF Owner, Kind
    <2> QED BY <1>1, <1>3, <2>1, <2>2 DEF Onward, Busy
  <1> QED BY <1>1, <1>2, <1>3 DEF InputSound, Queued, Busy

-----------------------------------------------------------------------------
(* What a step cannot undo *)

\* A frame that a connection has answered, or whose reply it has given, stays so; so does
\* one that a later command overtook; and its connection stays ended.
Stable ==
  /\ \A n : Past(n) => Past(n)'
  /\ \A n : Gone(n) => Gone(n)'
  /\ \A n : Past(n) /\ Overtaken(n) => Overtaken(n)'
  /\ \A n \in Frames : n \in Frames' /\ Owner(n)' = Owner(n) /\ Kind(n)' = Kind(n)
                       /\ frame'[n] = frame[n] /\ Owner(n) \in Conn /\ n \in Nat
  /\ \A c \in Conn : Ended(c) => Ended(c)'
  /\ \A c \in Conn : phase[c] # "new" => phase'[c] # "new"

LEMMA StillUnanswered ==
  ASSUME Types, InputSound, Onward, Flow, NEW d \in Conn
  PROVE  /\ \A n \in Unanswered(d)' : n \in Unanswered(d) \/ n \in Frames' \ Frames
         /\ \A n \in Ungiven(d)' : n \in Ungiven(d) \/ n \in Frames' \ Frames
  <1>1. \A n \in Waiting(d)' : n \in Waiting(d) \/ n \in Frames' \ Frames
    BY DEF Flow
  <1>2. ASSUME at'[d].pc \in {"permit", "save", "handle", "error"}
        PROVE  at'[d].n \in Unanswered(d)
    <2>1. CASE TakeCommand(d)
      BY <2>1, TakenFirst DEF Unanswered
    <2>2. CASE at'[d].n = at[d].n /\ at[d].pc \in {"permit", "save", "handle", "error"}
      BY <2>2 DEF Unanswered
    <2> QED BY <1>2, <2>1, <2>2 DEF Onward, Busy
  <1>3. ASSUME at'[d].pc = "give"
        PROVE  at'[d].n \in Ungiven(d)
    <2>1. at'[d].n = at[d].n /\ at[d].pc \in Busy
      BY <1>3 DEF Onward, Busy
    <2> QED BY <2>1 DEF Ungiven, Unanswered, Busy
  <1>4. ASSUME NEW n \in Unanswered(d)' PROVE n \in Unanswered(d) \/ n \in Frames' \ Frames
    <2>1. CASE n \in Waiting(d)'
      BY <1>1, <2>1 DEF Unanswered
    <2>2. CASE n \notin Waiting(d)'
      <3>1. n = at'[d].n /\ at'[d].pc \in {"permit", "save", "handle", "error"}
        BY <1>4, <2>2 DEF Unanswered
      <3> QED BY <1>2, <3>1
    <2> QED BY <2>1, <2>2
  <1>5. ASSUME NEW n \in Ungiven(d)' PROVE n \in Ungiven(d) \/ n \in Frames' \ Frames
    <2>1. CASE n \in Unanswered(d)'
      BY <1>4, <2>1 DEF Ungiven
    <2>2. CASE n \notin Unanswered(d)'
      <3>1. n = at'[d].n /\ at'[d].pc = "give"
        BY <1>5, <2>2 DEF Ungiven
      <3> QED BY <1>3, <3>1
    <2> QED BY <2>1, <2>2
  <1> QED BY <1>4, <1>5

LEMMA NextStable ==
  ASSUME Types, InputSound, Next
  PROVE  Stable
  <1>1. Onward /\ Flow
    BY NextOnward, NextFlow
  <1>2. ASSUME NEW n \in Frames
        PROVE  /\ n \in Frames' /\ Owner(n)' = Owner(n) /\ Kind(n)' = Kind(n)
               /\ frame'[n] = frame[n] /\ Owner(n) \in Conn /\ n \in Nat
               /\ \A m \in Frames' \ Frames : n < m
    <2>1. Owner(n) \in Conn /\ n \in Nat
      BY KindTyped DEF Types
    <2> QED BY <1>1, <2>1 DEF Flow, Owner, Kind
  <1>3. ASSUME NEW n, Past(n) PROVE Past(n)'
    <2>1. n \in Frames /\ \A m \in Unanswered(Owner(n)) : n < m
      BY <1>3 DEF Past
    <2>c. PICK c \in Conn : c = Owner(n)
      BY <1>2, <2>1
    <2>2. n \in Frames' /\ Owner(n)' = c /\ \A m \in Frames' \ Frames : n < m
      BY <1>2, <2>1, <2>c
    <2>3. \A m \in Unanswered(c) : n < m
      BY <2>1, <2>c
    <2>4. \A m \in Unanswered(c)' : n < m
      BY <1>1, <2>2, <2>3, StillUnanswered
    <2> QED BY <2>2, <2>4 DEF Past
  <1>4. ASSUME NEW n, Gone(n) PROVE Gone(n)'
    <2>1. n \in Frames /\ \A m \in Ungiven(Owner(n)) : n < m
      BY <1>4 DEF Gone
    <2>c. PICK c \in Conn : c = Owner(n)
      BY <1>2, <2>1
    <2>2. n \in Frames' /\ Owner(n)' = c /\ \A m \in Frames' \ Frames : n < m
      BY <1>2, <2>1, <2>c
    <2>3. \A m \in Ungiven(c) : n < m
      BY <2>1, <2>c
    <2>4. \A m \in Ungiven(c)' : n < m
      BY <1>1, <2>2, <2>3, StillUnanswered
    <2> QED BY <2>2, <2>4 DEF Gone
  <1>5. ASSUME NEW n, Past(n), Overtaken(n) PROVE Overtaken(n)'
    <2>1. n \in Frames
      BY <1>5 DEF Past
    <2>c. PICK c \in Conn : c = Owner(n)
      BY <1>2, <2>1
    <2>2. Owner(n)' = c
      BY <1>2, <2>1, <2>c
    <2>3. PICK m \in Frames : /\ m > n /\ Owner(m) = c /\ Kind(m) \in Commands
                              /\ m \notin Waiting(c)
      BY <1>5, <2>c DEF Overtaken
    <2>4. m \in Frames' /\ Owner(m)' = c /\ Kind(m)' \in Commands
      BY <1>2, <2>3
    <2>5. m \notin Waiting(c)'
      BY <1>1, <2>2, <2>3 DEF Flow
    <2> QED BY <2>2, <2>3, <2>4, <2>5 DEF Overtaken
  <1>6. \A c \in Conn : (Ended(c) => Ended(c)') /\ (phase[c] # "new" => phase'[c] # "new")
    BY <1>1 DEF Onward, Ended
  <1> QED BY <1>2, <1>3, <1>4, <1>5, <1>6 DEF Stable

-----------------------------------------------------------------------------
(* The block of an address *)

LEMMA NextBlocks ==
  ASSUME BlockTypes, BlocksEarned, Next
  PROVE  BlockTypes' /\ BlocksEarned'
  <1> DEFINE T == ip_block_failure_threshold
  <1>0. /\ T \in Nat /\ T > 0 /\ ip_block_duration \in Nat
        /\ fails \in Nat /\ fails < T /\ until \in Int /\ NoKey <= until
        /\ until <= ip_block_duration /\ NoKey \in Int /\ NoKey <= 0
        /\ removing \in BOOLEAN /\ recording \in Nat /\ blocks \in Nat /\ failures \in Nat
        /\ blocks * T + fails + recording <= failures
    BY NetworkAssumption DEF BlockTypes, BlocksEarned, NoKey
  <1> DEFINE b == blocks * T
  <1>1. b \in Nat /\ (blocks + 1) * T = b + T
    BY <1>0
  <1>2. ASSUME UNCHANGED <<fails, recording, blocks, failures>>,
               UNCHANGED <<until, removing>> \/ (until' = NoKey /\ removing' = FALSE)
        PROVE  BlockTypes' /\ BlocksEarned'
    <2>1. until' \in Int /\ NoKey <= until' /\ until' <= ip_block_duration
      BY <1>0, <1>2
    <2>2. removing' \in BOOLEAN
      BY <1>0, <1>2, Zenon
    <2> QED BY <1>2, <2>1, <2>2 DEF BlockTypes, BlocksEarned
  <1>3. ASSUME NEW c \in Conn, TellRouter(c)
        PROVE  BlockTypes' /\ BlocksEarned'
    <2>1. /\ UNCHANGED <<until, removing, blocks>>
          /\ \/ recording' = recording + 1 /\ failures' = failures + 1 /\ UNCHANGED fails
             \/ fails' = 0 /\ UNCHANGED <<recording, failures>>
      BY <1>3 DEF TellRouter
    <2>2. blocks' * T = b
      BY <2>1
    <2> HIDE DEF b, T
    <2>3. b + fails + recording <= failures
      BY <1>0 DEF b
    <2>4. BlockTypes'
      BY <1>0, <2>1 DEF BlockTypes, T
    <2>5. b + fails' + recording' <= failures'
      BY <1>0, <1>1, <2>1, <2>3
    <2> QED BY <2>2, <2>4, <2>5 DEF BlocksEarned, T
  <1>4. CASE Refuse \/ FindExpired \/ Tick
    <2>1. UNCHANGED <<fails, recording, blocks, failures>>
      BY <1>4 DEF Refuse, FindExpired, Tick
    <2>2. until' \in Int /\ NoKey <= until' /\ until' <= ip_block_duration
      <3>1. \/ until' = ip_block_duration \/ UNCHANGED until
            \/ until > 0 /\ until' = until - 1
        BY <1>4 DEF Refuse, FindExpired, Tick
      <3> QED BY <1>0, <3>1
    <2>3. removing' \in BOOLEAN
      <3>1. UNCHANGED removing \/ removing' = TRUE
        BY <1>4 DEF Refuse, FindExpired, Tick
      <3> QED BY <1>0, <3>1, Zenon
    <2> QED BY <2>1, <2>2, <2>3 DEF BlockTypes, BlocksEarned
  <1>5. CASE RecordFailure
    <2>1. /\ recording > 0 /\ recording' = recording - 1 /\ UNCHANGED <<failures, removing>>
          /\ \/ /\ fails + 1 >= T /\ fails' = 0 /\ until' = ip_block_duration /\ blocks' = blocks + 1
             \/ fails' = 0 /\ UNCHANGED <<until, blocks>>
             \/ /\ fails + 1 < T /\ fails' = fails + 1 /\ UNCHANGED <<until, blocks>>
      BY <1>5 DEF RecordFailure
    <2> HIDE DEF T
    <2>2. BlockTypes'
      BY <1>0, <2>1 DEF BlockTypes, T
    <2>3. b + fails + recording <= failures
      BY <1>0 DEF b
    <2>4. CASE blocks' = blocks + 1 /\ fails + 1 >= T /\ fails' = 0
      <3>1. blocks' * T = b + T
        BY <1>1, <2>4
      <3> HIDE DEF b
      <3>2. (b + T) + fails' + recording' <= failures'
        BY <1>0, <1>1, <2>1, <2>3, <2>4
      <3> QED BY <2>2, <3>1, <3>2 DEF BlocksEarned, T
    <2>5. CASE UNCHANGED blocks /\ fails' \in {0, fails + 1}
      <3>1. blocks' * T = b
        BY <2>5
      <3> HIDE DEF b
      <3>2. ASSUME fails' = fails + 1 PROVE b + fails' + recording' <= failures'
        BY <1>0, <1>1, <2>1, <2>3, <3>2
      <3>3. ASSUME fails' = 0 PROVE b + fails' + recording' <= failures'
        BY <1>0, <1>1, <2>1, <2>3, <3>3
      <3>4. b + fails' + recording' <= failures'
        BY <2>5, <3>2, <3>3
      <3> QED BY <2>2, <3>1, <3>4 DEF BlocksEarned, T
    <2> QED BY <2>1, <2>4, <2>5
  <1>6. ASSUME NEW c \in Conn, Inner(c) \/ Reading(c)
        PROVE  BlockTypes' /\ BlocksEarned'
    BY <1>2, <1>6, InnerLeaves, InnerBlock, ReadingLeaves
  <1>7. ASSUME NEW c \in Conn, NEW n \in Frames, Handling(c, n)
        PROVE  BlockTypes' /\ BlocksEarned'
    BY <1>2, <1>7, HandlingLeaves
  <1>8. ASSUME NEW n \in Frames, Auditing(n)
        PROVE  BlockTypes' /\ BlocksEarned'
    BY <1>2, <1>8, AuditingLeaves
  <1>9. CASE Replying
    BY <1>2, <1>9, ReplyingLeaves
  <1> QED BY <1>3, <1>4, <1>5, <1>6, <1>7, <1>8, <1>9, NextSplit DEF Blocking

-----------------------------------------------------------------------------
(* The audit rows *)

LEMMA LastOf ==
  ASSUME NEW T \in SUBSET Nat, NEW n \in Nat, \A x \in T : x <= n, T # {}
  PROVE  \E x \in T : \A y \in T : y <= x
  <1> DEFINE D == {n - x : x \in T}
  <1>1. D \subseteq Nat /\ D # {}
    <2>1. ASSUME NEW x \in T PROVE n - x \in Nat
      BY <2>1
    <2>2. PICK x \in T : TRUE
      OBVIOUS
    <2>3. n - x \in D
      OBVIOUS
    <2> QED BY <2>1, <2>3
  <1> DEFINE R == OpToRel(<, Nat)
  <1>2. IsWellFoundedOn(R, Nat)
    BY NatLessThanWellFounded, Zenon
  <1>3. \A x, y \in Nat : x < y => <<x, y>> \in R
    BY DEF OpToRel
  <1> HIDE DEF D, R
  <1>4. PICK d \in D : \A y \in D : ~(<<y, d>> \in R)
    BY <1>1, <1>2, WFMin
  <1>5. PICK x \in T : d = n - x
    BY DEF D
  <1>6. ASSUME NEW y \in T, ~(y <= x) PROVE FALSE
    <2>1. n - y \in D /\ n - y \in Nat /\ d \in Nat /\ n - y < d
      BY <1>1, <1>5, <1>6 DEF D
    <2> QED BY <1>3, <1>4, <2>1, Zenon
  <1> QED BY <1>6

\* The row of the request, or one with the same id when its save told of none.
LEMMA TollRowFacts ==
  ASSUME AuditTypes, NEW n, TollRow(n) # NoRow
  PROVE  /\ TollRow(n) \in DOMAIN row
         /\ \/ row[TollRow(n)].n = n
            \/ /\ frame[row[TollRow(n)].n].rid = frame[n].rid
               /\ \A j \in DOMAIN row : row[j].n = n => ~row[j].told
  <1> DEFINE own == {i \in DOMAIN row : row[i].n = n /\ row[i].told}
             same == {i \in DOMAIN row : frame[row[i].n].rid = frame[n].rid}
             found == IF own # {} THEN own ELSE same
  <1>1. DOMAIN row = 1 .. Len(row) /\ Len(row) \in Nat
    BY DEF AuditTypes
  <1>2. found # {} /\ TollRow(n) = CHOOSE i \in found : \A j \in found : j <= i
    BY Zenon DEF TollRow
  <1>3. found \subseteq DOMAIN row
    OBVIOUS
  <1>4. \A i \in found : row[i].n = n \/ (frame[row[i].n].rid = frame[n].rid /\ own = {})
    OBVIOUS
  <1>5. own = {} => \A j \in DOMAIN row : row[j].n = n => ~row[j].told
    OBVIOUS
  <1> HIDE DEF own, same, found
  <1>6. found \in SUBSET Nat /\ \A x \in found : x <= Len(row)
    BY <1>1, <1>3
  <1>7. \E i \in found : \A j \in found : j <= i
    BY <1>1, <1>2, <1>6, LastOf
  <1>8. TollRow(n) \in found
    BY <1>2, <1>7
  <1> QED BY <1>3, <1>4, <1>5, <1>8

\* The four ways in which a step touches the audit rows.
Saves(c, n) ==
  /\ at[c] = At("save", n) /\ \E told \in BOOLEAN : row' = Append(row, NewRow(n, told))
  /\ post' \subseteq post \cup {<<n, "response">>} /\ UNCHANGED made
Answers(c, n) ==
  /\ at[c] = At("handle", n) /\ at'[c].pc = "give" /\ UNCHANGED <<row, frame, socket, buf, pending, phase, wire>>
  /\ post' \subseteq post \cup {<<n, "tolls">>, <<n, "response">>} /\ made' = made \cup {n}

AuditStep ==
  \/ UNCHANGED <<row, made>> /\ post' \subseteq post
  \/ \E c \in Conn, n \in Frames : Saves(c, n) \/ Answers(c, n)
  \/ \E n \in Frames : UpdateTolls(n)

LEMMA NextAudit ==
  ASSUME Types, Next
  PROVE  AuditStep
  <1>1. ASSUME NEW c \in Conn, Inner(c) \/ Reading(c) \/ TellRouter(c) PROVE AuditStep
    <2>1. UNCHANGED <<row, post, made>>
      BY <1>1, InnerLeaves, ReadingLeaves, TellRouterLeaves
    <2> QED BY <2>1 DEF AuditStep
  <1>2. CASE Replying \/ Blocking
    <2>1. UNCHANGED <<row, post, made>>
      BY <1>2, ReplyingLeaves, BlockingLeaves
    <2> QED BY <2>1 DEF AuditStep
  <1>3. ASSUME NEW n \in Frames, Auditing(n) PROVE AuditStep
    <2>1. CASE UpdateTolls(n)
      BY <2>1, Zenon DEF AuditStep
    <2>2. CASE SaveResponse(n)
      <3>1. UNCHANGED <<row, made>> /\ post' \subseteq post
        BY <2>2 DEF SaveResponse, history
      <3> QED BY <3>1 DEF AuditStep
    <2> QED BY <1>3, <2>1, <2>2 DEF Auditing
  <1>4. ASSUME NEW c \in Conn, NEW n \in Frames, Handling(c, n) PROVE AuditStep
    <2>1. CASE SaveUnknown(c, n) \/ SaveRequest(c, n)
      <3>1. /\ at[c] = At("save", n) /\ UNCHANGED made /\ post' \subseteq post \cup {<<n, "response">>}
            /\ \/ row' = Append(row, NewRow(n, TRUE)) \/ row' = Append(row, NewRow(n, FALSE))
               \/ UNCHANGED row /\ post' \subseteq post
        BY <2>1 DEF SaveUnknown, SaveRequest, SaveFails, history
      <3>2. CASE UNCHANGED row /\ post' \subseteq post
        BY <3>1, <3>2 DEF AuditStep
      <3>3. CASE row' = Append(row, NewRow(n, TRUE)) \/ row' = Append(row, NewRow(n, FALSE))
        <4>1. \E told \in BOOLEAN : row' = Append(row, NewRow(n, told))
          BY <3>3, Zenon
        <4>2. Saves(c, n)
          BY <3>1, <4>1, Zenon DEF Saves
        <4> QED BY <4>2, Zenon DEF AuditStep
      <3> QED BY <3>1, <3>2, <3>3
    <2>2. ASSUME NEW rows \in SUBSET {"tolls", "response"}, Answer(c, n, rows) PROVE AuditStep
      <3>1. /\ at[c] = At("handle", n) /\ at' = [at EXCEPT ![c] = At("give", n)]
            /\ UNCHANGED <<row, frame, socket, buf, pending, phase, wire>>
            /\ post' \subseteq post \cup {<<n, "tolls">>, <<n, "response">>} /\ made' = made \cup {n}
        BY <2>2 DEF Answer, Goto, input
      <3>2. at \in [Conn -> [pc : Steps, n : Nat]]
        BY DEF Types, Places
      <3>3. at'[c].pc = "give"
        BY <3>1, <3>2 DEF At
      <3>4. Answers(c, n)
        BY <3>1, <3>3 DEF Answers
      <3> QED BY <3>4, Zenon DEF AuditStep
    <2> QED BY <1>4, <2>1, <2>2, HandlingSplit
  <1> QED BY <1>1, <1>2, <1>3, <1>4, NextSplit

\* A frame that is saved is not answered yet; one that is answered, is.
LEMMA SavedUnanswered ==
  ASSUME Types, InputSound, NEW c \in Conn, NEW n \in Frames, at[c].n = n,
         at[c].pc \in {"permit", "save", "handle", "error"}
  PROVE  n \in Unanswered(Owner(n)) /\ Owner(n) = c /\ n \in Ungiven(Owner(n))
  <1>1. Owner(n) = c
    BY DEF InputSound
  <1> QED BY <1>1 DEF Unanswered, Ungiven

LEMMA AnsweredPast ==
  ASSUME Types, InputSound, NEW c \in Conn, NEW n \in Frames, Answers(c, n)
  PROVE  Past(n)' /\ Owner(n) = c /\ pending[c] = pending'[c] /\ n \in Unanswered(Owner(n))
         /\ n \in Ungiven(Owner(n)) /\ at[c].pc = "handle" /\ at[c].n = n
  <1>1. /\ at[c].pc = "handle" /\ at[c].n = n /\ at'[c].pc = "give"
        /\ UNCHANGED <<frame, socket, buf, pending>>
    BY DEF Answers, At
  <1>2. Owner(n) = c /\ \A m \in Waiting(c) : n < m
    BY <1>1 DEF InputSound
  <1>3. n \in Frames' /\ Owner(n)' = c
    BY <1>1, <1>2 DEF Frames, Owner
  <1>4. \A m \in Unanswered(c)' : n < m
    BY <1>1, <1>2 DEF Unanswered, Waiting
  <1>5. Past(n)'
    BY <1>3, <1>4 DEF Past
  <1> QED BY <1>1, <1>2, <1>5, SavedUnanswered

LEMMA NotPast ==
  ASSUME NEW n \in Nat, Past(n) PROVE n \notin Unanswered(Owner(n))
  BY DEF Past

LEMMA NotGone ==
  ASSUME NEW n \in Nat, Gone(n) PROVE n \notin Ungiven(Owner(n))
  BY DEF Gone

LEMMA RowTyped ==
  ASSUME AuditTypes
  PROVE  /\ DOMAIN row = 1 .. Len(row) /\ Len(row) \in Nat
         /\ \A i \in DOMAIN row : /\ row[i] \in [n : Nat, told : BOOLEAN, tolls : Nat]
                                  /\ row[i].n \in Nat /\ row[i].tolls \in Nat
  <1> DEFINE R == [n : Nat, told : BOOLEAN, tolls : Nat]
  <1>1. row \in Seq(R)
    BY DEF AuditTypes
  <1>2. \A u \in R : u.n \in Nat /\ u.tolls \in Nat
    OBVIOUS
  <1> HIDE DEF R
  <1>3. DOMAIN row = 1 .. Len(row) /\ Len(row) \in Nat /\ \A i \in 1 .. Len(row) : row[i] \in R
    BY <1>1
  <1>4. \A i \in DOMAIN row : row[i].n \in Nat /\ row[i].tolls \in Nat
    BY <1>2, <1>3
  <1> QED BY <1>3, <1>4 DEF R

\* What saving a request and updating its tolls do to the rows.
LEMMA SavedRow ==
  ASSUME AuditTypes, NEW n \in Nat, NEW told \in BOOLEAN, row' = Append(row, NewRow(n, told))
  PROVE  /\ row' \in Seq([n : Nat, told : BOOLEAN, tolls : Nat])
         /\ \A i \in DOMAIN row' : (i \in DOMAIN row /\ row'[i] = row[i]) \/ row'[i] = NewRow(n, told)
  <1> DEFINE R == [n : Nat, told : BOOLEAN, tolls : Nat]
             u == NewRow(n, told)
  <1>1. row \in Seq(R) /\ u \in R
    BY DEF AuditTypes, NewRow, NoRow
  <1>2. row' = Append(row, u)
    OBVIOUS
  <1> HIDE DEF R, u
  <1>3. /\ Append(row, u) \in Seq(R) /\ Len(row) \in Nat
        /\ DOMAIN row = 1 .. Len(row) /\ DOMAIN Append(row, u) = 1 .. Len(row) + 1
        /\ \A i \in 1 .. Len(row) : Append(row, u)[i] = row[i]
        /\ Append(row, u)[Len(row) + 1] = u
    BY <1>1, AppendFacts
  <1>4. ASSUME NEW i \in DOMAIN row' PROVE (i \in DOMAIN row /\ row'[i] = row[i]) \/ row'[i] = u
    <2>1. i \in 1 .. Len(row) \/ i = Len(row) + 1
      BY <1>2, <1>3
    <2> QED BY <1>2, <1>3, <2>1
  <1>5. row' \in Seq(R)
    BY <1>2, <1>3
  <1> QED BY <1>4, <1>5 DEF R, u

LEMMA UpdatedRow ==
  ASSUME AuditTypes, NEW n \in Nat, UpdateTolls(n)
  PROVE  /\ row' \in Seq([n : Nat, told : BOOLEAN, tolls : Nat]) /\ DOMAIN row' = DOMAIN row
         /\ \A i \in DOMAIN row : row'[i].n = row[i].n /\ row'[i].told = row[i].told
         /\ \A i \in DOMAIN row : row'[i].tolls = row[i].tolls \/ (row'[i].tolls = n /\ i = TollRow(n))
         /\ (\E i \in DOMAIN row : row'[i] # row[i]) => TollRow(n) # NoRow
  <1>0. /\ DOMAIN row = 1 .. Len(row) /\ Len(row) \in Nat
        /\ \A i \in DOMAIN row : row[i] \in [n : Nat, told : BOOLEAN, tolls : Nat]
    BY RowTyped
  <1>1. CASE row' = row
    BY <1>1 DEF AuditTypes
  <1>2. CASE row' # row
    <2> DEFINE r == TollRow(n)
    <2>2. r # NoRow /\ row' = [row EXCEPT ![r].tolls = n]
      BY <1>2 DEF UpdateTolls
    <2>1. r \in DOMAIN row
      BY <2>2, TollRowFacts
    <2> HIDE DEF r
    <2>3. DOMAIN row' = DOMAIN row
      BY <2>2
    <2>4. row'[r] = [row[r] EXCEPT !.tolls = n] /\ \A i \in DOMAIN row \ {r} : row'[i] = row[i]
      BY <2>1, <2>2
    <2>5. row'[r] \in [n : Nat, told : BOOLEAN, tolls : Nat] /\ row'[r].n = row[r].n
          /\ row'[r].told = row[r].told /\ row'[r].tolls = n
      BY <1>0, <2>1, <2>4
    <2>6. \A i \in 1 .. Len(row) : row'[i] \in [n : Nat, told : BOOLEAN, tolls : Nat]
      BY <1>0, <2>4, <2>5
    <2>7. row' \in Seq([n : Nat, told : BOOLEAN, tolls : Nat])
      <3> DEFINE R == [n : Nat, told : BOOLEAN, tolls : Nat]
                 z == Len(row)
      <3>1. row' \in [1 .. z -> R] /\ z \in Nat
        <4>1. row' = [i \in DOMAIN row |-> row'[i]]
          BY <2>2
        <4> QED BY <1>0, <2>6, <4>1
      <3> HIDE DEF R, z
      <3>2. row' \in Seq(R)
        BY <3>1
      <3> QED BY <3>2 DEF R
    <2> QED BY <2>2, <2>3, <2>4, <2>5, <2>7 DEF r
  <1> QED BY <1>1, <1>2

LEMMA NextAuditTyped ==
  ASSUME Types, Next
  PROVE  AuditTypes'
  <1>1. /\ AuditTypes /\ row \in Seq([n : Nat, told : BOOLEAN, tolls : Nat])
        /\ post \subseteq Nat \X {"tolls", "response"} /\ made \subseteq Nat
    BY DEF Types, AuditTypes
  <1>2. \A n \in Frames : n \in Nat
    BY KindTyped DEF Types
  <1>3. CASE UNCHANGED <<row, made>> /\ post' \subseteq post
    BY <1>1, <1>3 DEF AuditTypes
  <1>4. ASSUME NEW c \in Conn, NEW n \in Frames, Saves(c, n) PROVE AuditTypes'
    <2>1. (\E told \in BOOLEAN : row' = Append(row, NewRow(n, told))) /\ post' \subseteq post \cup {<<n, "response">>} /\ UNCHANGED made
      BY <1>4 DEF Saves
    <2>2. row' \in Seq([n : Nat, told : BOOLEAN, tolls : Nat])
      BY <1>1, <1>2, <2>1, SavedRow
    <2> QED BY <1>1, <1>2, <2>1, <2>2 DEF AuditTypes
  <1>5. ASSUME NEW c \in Conn, NEW n \in Frames, Answers(c, n) PROVE AuditTypes'
    <2>1. /\ UNCHANGED row /\ made' = made \cup {n}
          /\ post' \subseteq post \cup {<<n, "tolls">>, <<n, "response">>}
      BY <1>5 DEF Answers
    <2>2. {<<n, "tolls">>, <<n, "response">>} \subseteq Nat \X {"tolls", "response"}
      BY <1>2
    <2>3. post' \subseteq Nat \X {"tolls", "response"}
      BY <1>1, <2>1, <2>2
    <2>4. made' \subseteq Nat
      BY <1>1, <1>2, <2>1
    <2> QED BY <1>1, <2>1, <2>3, <2>4 DEF AuditTypes
  <1>6. ASSUME NEW n \in Frames, UpdateTolls(n) PROVE AuditTypes'
    <2>1. row' \in Seq([n : Nat, told : BOOLEAN, tolls : Nat])
      BY <1>1, <1>2, <1>6, UpdatedRow
    <2>2. post' \subseteq post /\ UNCHANGED made
      BY <1>6 DEF UpdateTolls, history
    <2> QED BY <1>1, <2>1, <2>2 DEF AuditTypes
  <1> QED BY <1>3, <1>4, <1>5, <1>6, NextAudit DEF AuditStep

\* The tolls of row i are right.
TollsRight(i) ==
  row[i].tolls # NoRow =>
    \/ row[i].tolls = row[i].n
    \/ /\ frame[row[i].tolls].rid = frame[row[i].n].rid
       /\ \A j \in DOMAIN row : row[j].n = row[i].tolls => ~row[j].told

LEMMA NextAuditSound ==
  ASSUME Types, InputSound, AuditSound, Next
  PROVE  AuditSound'
  <1>1. /\ Stable /\ AuditTypes
        /\ \A n \in Frames : n \in Nat
    BY NextStable, KindTyped DEF Types
  <1>2. /\ \A i \in DOMAIN row : row[i].n \in Frames
        /\ \A i \in DOMAIN row : row[i].tolls # NoRow => Past(row[i].tolls)
        /\ \A e \in post : e[2] = "tolls" => Past(e[1])
        /\ \A i \in DOMAIN row : TollsRight(i)
    BY DEF AuditSound, TollsInTheirRow, TollsRight
  \* Old rows keep what they are.
  <1>3. ASSUME NEW i \in DOMAIN row
        PROVE  /\ row[i].n \in Frames' /\ frame'[row[i].n] = frame[row[i].n]
               /\ row[i].tolls # NoRow =>
                     /\ row[i].tolls \in Frames /\ frame'[row[i].tolls] = frame[row[i].tolls]
                     /\ \A t : t = row[i].tolls => Past(t)'
    <2>1. row[i].n \in Frames' /\ frame'[row[i].n] = frame[row[i].n]
      BY <1>1, <1>2 DEF Stable
    <2>2. ASSUME row[i].tolls # NoRow
          PROVE  /\ row[i].tolls \in Frames /\ frame'[row[i].tolls] = frame[row[i].tolls]
                 /\ \A t : t = row[i].tolls => Past(t)'
      <3>1. Past(row[i].tolls) /\ row[i].tolls \in Frames
        BY <1>2, <2>2 DEF Past
      <3>2. \A t : t = row[i].tolls => Past(t)'
        BY <1>1, <3>1 DEF Stable
      <3> QED BY <1>1, <3>1, <3>2 DEF Stable
    <2> QED BY <2>1, <2>2
  <1>4. ASSUME NEW e \in post, e[2] = "tolls" PROVE Past(e[1])'
    BY <1>1, <1>2, <1>4 DEF Stable
  <1>5. ASSUME UNCHANGED row
        PROVE  /\ \A i \in DOMAIN row' : row'[i].n \in Frames'
               /\ \A i \in DOMAIN row' : row'[i].tolls # NoRow => Past(row[i].tolls)'
               /\ \A i \in DOMAIN row' : TollsRight(i)'
    <2>1. ASSUME NEW i \in DOMAIN row, row[i].tolls # NoRow PROVE Past(row[i].tolls)'
      <3>1. PICK t : t = row[i].tolls
        OBVIOUS
      <3>2. Past(t)' /\ t = row'[i].tolls
        BY <1>3, <1>5, <2>1, <3>1
      <3> QED BY <3>2 DEF Past
    <2>2. ASSUME NEW i \in DOMAIN row PROVE TollsRight(i)'
      BY <1>2, <1>3, <1>5 DEF TollsRight
    <2> QED BY <1>3, <1>5, <2>1, <2>2
  <1>6. CASE UNCHANGED <<row, made>> /\ post' \subseteq post
    BY <1>4, <1>5, <1>6 DEF AuditSound, TollsInTheirRow, TollsRight
  <1>7. ASSUME NEW c \in Conn, NEW n \in Frames, Answers(c, n) PROVE AuditSound'
    <2>1. UNCHANGED row /\ post' \subseteq post \cup {<<n, "tolls">>, <<n, "response">>}
      BY <1>7 DEF Answers
    <2>2. Past(n)'
      BY <1>7, AnsweredPast
    <2>3. ASSUME NEW e \in post', e[2] = "tolls" PROVE Past(e[1])'
      <3>1. CASE e \in post
        BY <1>4, <2>3, <3>1
      <3>2. CASE e \notin post
        <4>1. e[1] = n
          BY <2>1, <3>2
        <4> QED BY <2>2, <4>1
      <3> QED BY <3>1, <3>2
    <2> QED BY <1>5, <2>1, <2>3 DEF AuditSound, TollsInTheirRow, TollsRight
  <1>8. ASSUME NEW c \in Conn, NEW n \in Frames, Saves(c, n) PROVE AuditSound'
    <2>0. PICK told \in BOOLEAN : row' = Append(row, NewRow(n, told))
      BY <1>8 DEF Saves
    <2>1. /\ at[c].pc = "save" /\ at[c].n = n
          /\ post' \subseteq post \cup {<<n, "response">>}
      BY <1>8 DEF Saves, At
    <2>2. n \in Unanswered(Owner(n)) /\ n \in Nat /\ n \in Frames'
      BY <1>1, <2>1, SavedUnanswered DEF Stable
    <2>3. \A i \in DOMAIN row' : (i \in DOMAIN row /\ row'[i] = row[i]) \/ row'[i] = NewRow(n, told)
      BY <1>1, <2>0, <2>2, SavedRow
    <2>4. NewRow(n, told).n = n /\ NewRow(n, told).tolls = NoRow
      BY DEF NewRow
    <2>5. ASSUME NEW i \in DOMAIN row, row[i].tolls # NoRow PROVE row[i].tolls # n
      <3>1. Past(row[i].tolls)
        BY <1>2, <2>5
      <3> QED BY <2>2, <3>1, NotPast
    <2>6. ASSUME NEW i \in DOMAIN row' PROVE row'[i].n \in Frames'
      BY <1>3, <2>2, <2>3, <2>4
    <2>7. ASSUME NEW i \in DOMAIN row', row'[i].tolls # NoRow PROVE Past(row[i].tolls)'
      <3>1. PICK t : t = row'[i].tolls
        OBVIOUS
      <3>2. Past(t)'
        BY <1>3, <2>3, <2>4, <2>7, <3>1
      <3> QED BY <3>1, <3>2 DEF Past
    <2>8. ASSUME NEW i \in DOMAIN row' PROVE TollsRight(i)'
      <3>1. CASE row'[i].tolls = NoRow
        BY <3>1 DEF TollsRight
      <3>2. CASE row'[i].tolls # NoRow
        <4>1. i \in DOMAIN row /\ row'[i] = row[i] /\ row[i].tolls # NoRow /\ row[i].tolls # n
          BY <2>3, <2>4, <2>5, <3>2
        <4>2. CASE row[i].tolls = row[i].n
          BY <4>1, <4>2 DEF TollsRight
        <4>3. CASE row[i].tolls # row[i].n
          <5>1. /\ frame[row[i].tolls].rid = frame[row[i].n].rid
                /\ \A j \in DOMAIN row : row[j].n = row[i].tolls => ~row[j].told
            BY <1>2, <4>1, <4>3 DEF TollsRight
          <5>2. frame'[row'[i].tolls].rid = frame'[row'[i].n].rid
            BY <1>3, <4>1, <5>1
          <5>3. \A j \in DOMAIN row' : row'[j].n = row'[i].tolls => ~row'[j].told
            BY <2>3, <2>4, <4>1, <5>1
          <5> QED BY <5>2, <5>3 DEF TollsRight
        <4> QED BY <4>2, <4>3
      <3> QED BY <3>1, <3>2
    <2>9. ASSUME NEW e \in post', e[2] = "tolls" PROVE Past(e[1])'
      <3>1. e \in post
        BY <2>1, <2>9
      <3> QED BY <1>4, <2>9, <3>1
    <2> QED BY <2>6, <2>7, <2>8, <2>9 DEF AuditSound, TollsInTheirRow, TollsRight
  <1>9. ASSUME NEW n \in Frames, UpdateTolls(n) PROVE AuditSound'
    <2>0. post' \subseteq post /\ <<n, "tolls">> \in post /\ UNCHANGED frame
      BY <1>9 DEF UpdateTolls, input
    <2>1. /\ DOMAIN row' = DOMAIN row
          /\ \A i \in DOMAIN row : row'[i].n = row[i].n /\ row'[i].told = row[i].told
          /\ \A i \in DOMAIN row : row'[i].tolls = row[i].tolls \/ (row'[i].tolls = n /\ i = TollRow(n))
          /\ (\E i \in DOMAIN row : row'[i] # row[i]) => TollRow(n) # NoRow
      BY <1>1, <1>9, UpdatedRow
    <2>2. Past(n)'
      <3>1. Past(n)
        BY <1>2, <2>0
      <3> QED BY <1>1, <3>1 DEF Stable
    <2>3. ASSUME NEW i \in DOMAIN row', row'[i].tolls # NoRow PROVE Past(row[i].tolls)'
      <3>1. PICK t : t = row'[i].tolls
        OBVIOUS
      <3>2. Past(t)'
        BY <1>3, <2>1, <2>2, <2>3, <3>1
      <3> QED BY <3>1, <3>2 DEF Past
    <2>4. ASSUME NEW i \in DOMAIN row' PROVE TollsRight(i)'
      <3>1. CASE row'[i].tolls = row[i].tolls
        BY <1>2, <2>0, <2>1, <3>1 DEF TollsRight
      <3>2. CASE row'[i].tolls # row[i].tolls
        <4>1. row'[i].tolls = n /\ i = TollRow(n) /\ TollRow(n) # NoRow /\ row'[i].n = row[i].n
          BY <2>1, <3>2
        <4>2. \/ row[i].n = n
              \/ /\ frame[row[i].n].rid = frame[n].rid
                 /\ \A j \in DOMAIN row : row[j].n = n => ~row[j].told
          BY <1>1, <4>1, TollRowFacts
        <4> QED BY <2>0, <2>1, <4>1, <4>2 DEF TollsRight
      <3> QED BY <3>1, <3>2
    <2>5. ASSUME NEW e \in post', e[2] = "tolls" PROVE Past(e[1])'
      BY <1>4, <2>0, <2>5
    <2>6. \A i \in DOMAIN row' : row'[i].n \in Frames'
      BY <1>3, <2>1
    <2> QED BY <2>3, <2>4, <2>5, <2>6 DEF AuditSound, TollsInTheirRow, TollsRight
  <1> QED BY <1>6, <1>7, <1>8, <1>9, NextAudit DEF AuditStep

-----------------------------------------------------------------------------
(* Open and closed connections *)

\* A connection is in active_conns as long as it is open.
LEMMA NextActive ==
  ASSUME Types, LifeSound, Next
  PROVE  \A d \in Conn : Open(d)' => d \in active'
  <1>0. Places /\ phase \in [Conn -> Phases] /\ \A d \in Conn : Open(d) => d \in active
    BY DEF Types, Places, LifeSound
  <1>1. ASSUME UNCHANGED active, \A d \in Conn : Open(d)' => Open(d)
        PROVE  \A d \in Conn : Open(d)' => d \in active'
    BY <1>0, <1>1
  <1>2. ASSUME NEW c \in Conn, Inner(c)
        PROVE  \A d \in Conn : Open(d)' => d \in active'
    <2>1. CASE Accept(c)
      <3>1. phase' = [phase EXCEPT ![c] = "preauth"] /\ active' = active \cup {c}
        BY <2>1 DEF Accept
      <3> QED BY <1>0, <3>1 DEF Open
    <2>2. CASE \/ PreTimeout(c) \/ BufferDone(c) \/ Acquire(c) \/ HandlerFails(c) \/ HandleError(c)
               \/ StartWrite(c)
      <3>1. UNCHANGED <<phase, active>>
        BY <2>2 DEF PreTimeout, BufferDone, Acquire, HandlerFails, HandleError, StartWrite
      <3> QED BY <1>0, <3>1 DEF Open
    <2>3. CASE \E n \in Frames : Reject(c, n)
      <3>1. UNCHANGED <<phase, active>>
        BY <2>3 DEF Reject
      <3> QED BY <1>0, <3>1 DEF Open
    <2>4. CASE Eof(c) \/ HandshakeTimeout(c)
      <3>1. phase' = [phase EXCEPT ![c] = "closing"] /\ UNCHANGED active
        BY <2>4 DEF Eof, HandshakeTimeout, End
      <3> QED BY <1>0, <3>1 DEF Open
    <2>5. CASE Setup(c)
      <3>1. \/ UNCHANGED <<phase, active>>
            \/ phase' = [phase EXCEPT ![c] = "closing"] /\ active' = active \ {c}
        BY <2>5 DEF Setup, FailAtOnce, End
      <3> QED BY <1>0, <3>1 DEF Open
    <2>6. CASE Config(c)
      <3>1. \/ phase' = [phase EXCEPT ![c] = "main"] /\ UNCHANGED active
            \/ phase' = [phase EXCEPT ![c] = "closing"] /\ active' = active \ {c}
        BY <2>6 DEF Config, FailAtOnce, End
      <3>2. Open(c)
        BY <1>0, <2>6, PhaseOf DEF Config, Open
      <3> QED BY <1>0, <3>1, <3>2 DEF Open
    <2>7. CASE LeaveActive(c)
      <3>1. UNCHANGED phase /\ active' = active \ {c} /\ phase[c] = "closing"
        BY <1>0, <2>7, PhaseOf DEF LeaveActive
      <3> QED BY <1>0, <3>1 DEF Open
    <2> QED BY <1>2, <2>1, <2>2, <2>3, <2>4, <2>5, <2>6, <2>7 DEF Inner
  <1>3. ASSUME NEW c \in Conn, Reading(c)
        PROVE  \A d \in Conn : Open(d)' => d \in active'
    <2>1. UNCHANGED phase \/ phase' = [phase EXCEPT ![c] = "closing"]
      <3>1. CASE SendFrame(c) \/ PreRead(c) \/ PreFront(c) \/ MainRead(c) \/ MainTimeout(c)
        BY <3>1 DEF SendFrame, PreRead, PreFront, MainRead, MainTimeout, task
      <3>2. CASE TakePing(c) \/ TakeLength(c) \/ TakeUnusable(c) \/ TakeCommand(c)
        BY <3>2 DEF TakePing, TakeLength, TakeUnusable, TakeCommand, End
      <3> QED BY <1>3, <3>1, <3>2 DEF Reading
    <2>2. \A d \in Conn : Open(d)' => Open(d)
      BY <1>0, <2>1 DEF Open
    <2> QED BY <1>1, <1>3, <2>2, ReadingLeaves
  <1>4. ASSUME NEW c \in Conn, NEW n \in Frames, Handling(c, n)
        PROVE  \A d \in Conn : Open(d)' => d \in active'
    <2>1. UNCHANGED phase
      BY <1>4, HandlingSplit DEF SaveUnknown, SaveRequest, Answer
    <2> QED BY <1>1, <1>4, <2>1, HandlingLeaves DEF Open
  <1>5. ASSUME NEW c \in Conn, TellRouter(c)
        PROVE  \A d \in Conn : Open(d)' => d \in active'
    <2>1. phase' = [phase EXCEPT ![c] = "closed"]
      BY <1>5 DEF TellRouter
    <2>2. \A d \in Conn : Open(d)' => Open(d)
      BY <1>0, <2>1 DEF Open
    <2> QED BY <1>1, <1>5, <2>2, TellRouterLeaves
  <1>6. CASE Blocking \/ \E n \in Frames : Auditing(n)
    <2>1. UNCHANGED <<phase, active>>
      BY <1>6, BlockingLeaves, AuditingLeaves
    <2> QED BY <1>1, <2>1 DEF Open
  <1>7. CASE Replying
    <2>1. UNCHANGED active
      BY <1>7, ReplyingLeaves
    <2>2. ASSUME NEW c \in Conn, Pong(c) \/ Write(c) \/ Give(c)
          PROVE  UNCHANGED phase \/ phase' = [phase EXCEPT ![c] = "closing"]
      BY <2>2 DEF Pong, Write, Written, Give, End
    <2>3. CASE Forward \/ RouteReply \/ RouteClosed \/ (\E n \in Frames : SendReply(n))
               \/ (\E e \in terms : SendTerminate(e))
      <3>1. UNCHANGED phase
        BY <2>3, NoHops
      <3> QED BY <1>1, <2>1, <3>1 DEF Open
    <2>4. ASSUME NEW c \in Conn, Pong(c) \/ Write(c) \/ Give(c)
          PROVE  \A d \in Conn : Open(d)' => Open(d)
      BY <1>0, <2>2, <2>4 DEF Open
    <2> QED BY <1>1, <1>7, <2>1, <2>3, <2>4 DEF Replying
  <1> QED BY <1>2, <1>3, <1>4, <1>5, <1>6, <1>7, NextSplit

\* A reply that waits names a frame.
LEMMA HeadReply ==
  ASSUME Types, RouteSound, replies # <<>>
  PROVE  /\ Head(replies) \in Items /\ Head(replies).n \in Frames /\ Gone(Head(replies).n)
         /\ Owner(Head(replies).n) \in Conn /\ Head(replies).what = "reply"
  <1>1. replies \in Seq(Items)
    BY DEF Types, ReplyTypes
  <1>2. Head(replies) \in Items /\ 1 \in DOMAIN replies /\ Head(replies) = replies[1]
    BY <1>1, HeadTail
  <1>3. Gone(replies[1].n) /\ replies[1].what = "reply"
    BY <1>2 DEF RouteSound, Types, ReplyTypes
  <1>4. replies[1].n \in Frames
    BY <1>3 DEF Gone
  <1>5. Owner(replies[1].n) \in Conn
    BY <1>4, KindTyped DEF Types
  <1> QED BY <1>2, <1>3, <1>4, <1>5

\* The ids that the router takes for closed, and the replies it dropped for that.
LEMMA NextClosed ==
  ASSUME Types, LifeSound, RouteSound, Stable, Next
  PROVE  /\ \A d \in closed' \cup ToSet(closing') : Ended(d)'
         /\ \A e \in dropped' : e[2] = "closed" => e[1] \in Frames' /\ Ended(Owner(e[1]))'
  <1>0. /\ closing \in Seq(Conn) /\ closed \subseteq Conn /\ phase \in [Conn -> Phases]
        /\ \A d \in Conn : Open(d) => d \in active
        /\ \A d \in closed \cup ToSet(closing) : d \in Conn /\ Ended(d)
        /\ \A n \in Frames : phase[Owner(n)] # "new"
        /\ \A e \in dropped : e[2] = "closed" => e[1] \in Frames /\ Ended(Owner(e[1]))
    <2>1. closing \in Seq(Conn) /\ closed \subseteq Conn /\ phase \in [Conn -> Phases]
      BY DEF Types, ReplyTypes, Places
    <2>2. ToSet(closing) \subseteq Conn
      BY <2>1 DEF ToSet
    <2> QED BY <2>1, <2>2 DEF LifeSound
  <1>1. \A d \in closed \cup ToSet(closing) : Ended(d)'
    BY <1>0 DEF Stable
  \* A connection that is not open, and has sent a frame, has ended.
  <1>2. ASSUME NEW n \in Frames, ~Open(Owner(n)) PROVE Owner(n) \in Conn /\ Ended(Owner(n)) /\ Ended(Owner(n))'
    <2>1. PICK c \in Conn : c = Owner(n)
      BY DEF Stable
    <2>2. Owner(n)' = c
      BY <2>1 DEF Stable
    <2>3. phase[c] \in Phases /\ phase[c] # "new" /\ ~Open(c)
      BY <1>0, <1>2, <2>1
    <2>4. Ended(c)
      BY <2>3 DEF Phases, Open, Ended
    <2>5. Ended(c)'
      BY <2>4 DEF Stable
    <2> QED BY <2>1, <2>2, <2>4, <2>5 DEF Ended
  <1>3. ASSUME NEW e \in dropped, e[2] = "closed" PROVE e[1] \in Frames' /\ Ended(Owner(e[1]))'
    <2>1. e[1] \in Frames /\ Ended(Owner(e[1]))
      BY <1>0, <1>3
    <2>2. ~Open(Owner(e[1]))
      BY <2>1 DEF Ended, Open
    <2> QED BY <1>2, <2>1, <2>2 DEF Stable
  \* The three ways to go on from there.
  <1>4. ASSUME UNCHANGED <<closed, closing, dropped>>
        PROVE  /\ \A d \in closed' \cup ToSet(closing') : Ended(d)'
               /\ \A e \in dropped' : e[2] = "closed" => e[1] \in Frames' /\ Ended(Owner(e[1]))'
    BY <1>1, <1>3, <1>4
  <1>5. ASSUME NEW c \in Conn, TellRouter(c)
        PROVE  /\ \A d \in closed' \cup ToSet(closing') : Ended(d)'
               /\ \A e \in dropped' : e[2] = "closed" => e[1] \in Frames' /\ Ended(Owner(e[1]))'
    <2>1. /\ phase' = [phase EXCEPT ![c] = "closed"] /\ closing' = Append(closing, c)
          /\ UNCHANGED <<closed, dropped>>
      BY <1>5, TellRouterLeaves DEF TellRouter
    <2>2. ToSet(closing') = ToSet(closing) \cup {c}
      BY <1>0, <2>1, AppendSet
    <2>3. Ended(c)'
      BY <1>0, <2>1 DEF Ended
    <2> QED BY <1>1, <1>3, <2>1, <2>2, <2>3
  <1>6. CASE RouteClosed
    <2>1. /\ closing # <<>> /\ closing' = Tail(closing) /\ UNCHANGED dropped
          /\ closed' \subseteq closed \cup {Head(closing)}
      BY <1>6 DEF RouteClosed, history
    <2>2. ToSet(closing) = ToSet(Tail(closing)) \cup {Head(closing)}
      BY <1>0, <2>1, HeadTail
    <2> QED BY <1>1, <1>3, <2>1, <2>2
  <1>7. CASE RouteReply
    <2> DEFINE n == Head(replies).n
    <2>1. /\ replies # <<>> /\ UNCHANGED closing
          /\ \/ Owner(n) \in closed \/ Owner(n) \notin active
             \/ UNCHANGED closed
          /\ closed' \subseteq closed \cup {Owner(n)}
          /\ \/ dropped' = dropped \cup {<<n, "closed">>} /\ (Owner(n) \in closed \/ Owner(n) \notin active)
             \/ dropped' \subseteq dropped \cup {<<n, "limit">>}
      BY <1>7 DEF RouteReply
    <2>2. n \in Frames /\ Owner(n) \in Conn
      BY <2>1, HeadReply
    <2> HIDE DEF n
    <2>3. (Owner(n) \in closed \/ Owner(n) \notin active) => ~Open(Owner(n))
      BY <1>0, <2>2 DEF Ended, Open
    <2>4. (Owner(n) \in closed \/ Owner(n) \notin active) => \A m : m = Owner(n) => Ended(m)'
      BY <1>2, <2>2, <2>3 DEF Stable
    <2>5. \A d \in closed' \cup ToSet(closing') : Ended(d)'
      BY <1>1, <2>1, <2>4
    <2>6. ASSUME NEW e \in dropped', e[2] = "closed" PROVE e[1] \in Frames' /\ Ended(Owner(e[1]))'
      <3>1. CASE e \in dropped
        BY <1>3, <2>6, <3>1
      <3>2. CASE e \notin dropped
        <4>1. e = <<n, "closed">> /\ (Owner(n) \in closed \/ Owner(n) \notin active)
          BY <2>1, <2>6, <3>2
        <4>2. PICK m : m = n
          OBVIOUS
        <4>3. m \in Frames' /\ Ended(Owner(m))'
          BY <1>2, <2>2, <2>3, <4>1, <4>2 DEF Stable
        <4>4. e[1] = m
          BY <4>1, <4>2
        <4> QED BY <4>3, <4>4
      <3> QED BY <3>1, <3>2
    <2> QED BY <2>5, <2>6
  <1>8. ASSUME NEW n \in Frames, SendReply(n)
        PROVE  /\ \A d \in closed' \cup ToSet(closing') : Ended(d)'
               /\ \A e \in dropped' : e[2] = "closed" => e[1] \in Frames' /\ Ended(Owner(e[1]))'
    <2>1. /\ UNCHANGED <<closed, closing>>
          /\ \/ UNCHANGED dropped
             \/ dropped' = dropped \cup {<<n, "closed">>} /\ ~Open(Owner(n))
             \/ dropped' = dropped \cup {<<n, "timeout">>}
      BY <1>8 DEF SendReply
    <2>2. ASSUME NEW e \in dropped', e[2] = "closed" PROVE e[1] \in Frames' /\ Ended(Owner(e[1]))'
      <3>1. CASE e \in dropped
        BY <1>3, <2>2, <3>1
      <3>2. CASE e \notin dropped
        <4>1. e = <<n, "closed">> /\ ~Open(Owner(n))
          BY <2>1, <2>2, <3>2
        <4>2. n \in Frames' /\ Ended(Owner(n))'
          BY <1>2, <4>1 DEF Stable
        <4> QED BY <4>1, <4>2
      <3> QED BY <3>1, <3>2
    <2> QED BY <1>1, <2>1, <2>2
  <1>9. ASSUME NEW c \in Conn, Inner(c) \/ Reading(c) PROVE UNCHANGED <<closed, closing, dropped>>
    BY <1>9, InnerLeaves, ReadingLeaves
  <1>10. ASSUME NEW c \in Conn, NEW n \in Frames, Handling(c, n) PROVE UNCHANGED <<closed, closing, dropped>>
    BY <1>10, HandlingLeaves
  <1>11. CASE Blocking \/ \E n \in Frames : Auditing(n)
    <2>1. UNCHANGED <<closed, closing, dropped>>
      BY <1>11, BlockingLeaves, AuditingLeaves
    <2> QED BY <1>4, <2>1
  <1>12. CASE Replying
    <2>1. ASSUME NEW c \in Conn, Pong(c) \/ Write(c) \/ Give(c) PROVE UNCHANGED <<closed, closing, dropped>>
      BY <2>1 DEF Pong, Write, Give, router, history
    <2>2. CASE Forward
      BY <1>4, <2>2 DEF Forward, history
    <2>3. ASSUME NEW e \in terms, SendTerminate(e) PROVE UNCHANGED <<closed, closing, dropped>>
      BY <2>3 DEF SendTerminate, router, history
    <2> QED BY <1>4, <1>6, <1>7, <1>8, <1>12, <2>1, <2>2, <2>3 DEF Replying
  <1> QED BY <1>4, <1>5, <1>9, <1>10, <1>11, <1>12, NextSplit

LEMMA NextLifeSound ==
  ASSUME Types, LifeSound, InputSound, RouteSound, Next
  PROVE  LifeSound'
  <1>1. Stable /\ Flow
    BY NextStable, NextFlow
  <1>2. /\ \A d \in Conn : Open(d)' => d \in active'
        /\ \A d \in closed' \cup ToSet(closing') : Ended(d)'
        /\ \A e \in dropped' : e[2] = "closed" => e[1] \in Frames' /\ Ended(Owner(e[1]))'
    BY <1>1, NextActive, NextClosed
  <1>3. ASSUME NEW n \in Frames' PROVE phase'[Owner(n)'] # "new"
    <2>1. CASE n \in Frames
      BY <1>1, <2>1 DEF Stable, LifeSound
    <2>2. CASE n \notin Frames
      <3>1. ~UNCHANGED frame
        BY <2>2 DEF Frames
      <3>2. PICK c \in Conn : SendFrame(c)
        BY <3>1, NextInput DEF InputStep, Read, Takes
      <3>3. n = Len(frame) + 1 /\ frame'[n].conn = c /\ Open(c)
        BY <2>2, <3>2, SentFrame
      <3>4. phase'[c] # "new"
        BY <1>1, <3>3 DEF Stable, Open
      <3> QED BY <3>3, <3>4 DEF Owner
    <2> QED BY <2>1, <2>2
  <1> QED BY <1>2, <1>3 DEF LifeSound

-----------------------------------------------------------------------------
(* The ways of a reply *)

\* Something is put into the write channel of c.
Puts(c, e) ==
  e \in Items /\ Room(c) /\ out' = [out EXCEPT ![c] = Append(out[c], e)] /\ UNCHANGED wire

\* The steps of replies: a pong or a TERMINATE_RESP is put, a frame written, a reply given to
\* the first channel, forwarded, routed and sent.
PutsOther(c, e) == Puts(c, e) /\ e.what # "reply" /\ UNCHANGED <<requests, replies, sending, overlap>>

Writes(c) ==
  /\ out[c] # <<>> /\ out' = [out EXCEPT ![c] = Tail(out[c])]
  /\ wire' = [wire EXCEPT ![c] = Append(wire[c], Head(out[c]))]
  /\ UNCHANGED <<requests, replies, sending, overlap>>

Gives(c) ==
  /\ at[c].pc = "give" /\ at'[c].pc = "take" /\ Len(requests) < reply_in_flight_limit
  /\ requests' = Append(requests, Item("reply", at[c].n))
  /\ UNCHANGED <<replies, sending, overlap, out, wire, socket, buf>>

Forwards ==
  /\ requests # <<>> /\ Len(replies) < reply_in_flight_limit
  /\ requests' = Tail(requests) /\ replies' = Append(replies, Head(requests))
  /\ UNCHANGED <<sending, overlap, out, wire>>

Routes ==
  /\ replies # <<>> /\ replies' = Tail(replies) /\ UNCHANGED <<requests, out, wire>>
  /\ \/ UNCHANGED <<sending, overlap>>
     \/ /\ Cardinality(sending) < reply_send_max_concurrent
        /\ sending' = sending \cup {Head(replies).n}
        /\ overlap' = overlap \cup {{Head(replies).n, m} : m \in sending}

SendsOff(n) ==
  /\ n \in sending /\ sending' = sending \ {n} /\ UNCHANGED <<requests, replies, overlap, wire>>
  /\ UNCHANGED out \/ Puts(Owner(n), Item("reply", n))

ReplyStep ==
  \/ UNCHANGED <<requests, replies, sending, overlap, out, wire>>
  \/ /\ UNCHANGED frame
     /\ \/ \E c \in Conn, e \in Items : PutsOther(c, e)
        \/ \E c \in Conn : Writes(c) \/ Gives(c)
        \/ Forwards \/ Routes
        \/ \E n \in Frames : SendsOff(n)

LEMMA ItemTyped ==
  ASSUME NEW n \in Nat, NEW w \in {"pong", "reply", "terminate"}
  PROVE  Item(w, n) \in Items /\ Item(w, n).what = w /\ Item(w, n).n = n
  BY DEF Item, Items

LEMMA NextReplies ==
  ASSUME Types, Next
  PROVE  ReplyStep
  <1>0. /\ Places /\ at \in [Conn -> [pc : Steps, n : Nat]] /\ terms \subseteq Conn \X Nat
        /\ \A n \in Frames : n \in Nat
    BY KindTyped DEF Types, Places, TaskTypes
  <1>1. ASSUME NEW c \in Conn, Inner(c) \/ Reading(c) \/ TellRouter(c) PROVE ReplyStep
    BY <1>1, InnerLeaves, ReadingLeaves, TellRouterLeaves DEF ReplyStep
  <1>2. ASSUME NEW c \in Conn, NEW n \in Frames, Handling(c, n) PROVE ReplyStep
    BY <1>2, HandlingLeaves DEF ReplyStep
  <1>3. CASE Blocking \/ \E n \in Frames : Auditing(n)
    BY <1>3, BlockingLeaves, AuditingLeaves DEF ReplyStep
  <1>4. CASE Replying
    <2>0. UNCHANGED <<frame, socket, buf>>
      BY <1>4, ReplyingLeaves
    <2>1. ASSUME NEW c \in Conn, Pong(c) PROVE ReplyStep
      <3>1. at[c].n \in Nat
        BY <1>0
      <3>2. /\ Item("pong", at[c].n) \in Items /\ Item("pong", at[c].n).what # "reply"
        BY <3>1, ItemTyped
      <3>4. Room(c)
        BY <2>1, NetworkAssumption DEF Pong, Room, InHand
      <3>3. PutsOther(c, Item("pong", at[c].n))
        BY <2>1, <3>2, <3>4 DEF Pong, PutsOther, Puts, router, history
      <3> QED BY <2>0, <3>2, <3>3, Zenon DEF ReplyStep
    <2>2. ASSUME NEW c \in Conn, Write(c) PROVE ReplyStep
      <3>1. Writes(c)
        BY <2>2 DEF Write, Writes, router
      <3> QED BY <2>0, <3>1, Zenon DEF ReplyStep
    <2>3. ASSUME NEW c \in Conn, Give(c) PROVE ReplyStep
      <3>1. at' = [at EXCEPT ![c] = At("take", 0)]
        BY <2>3 DEF Give, Goto
      <3>2. at'[c].pc = "take"
        BY <1>0, <3>1 DEF At
      <3>3. Gives(c)
        BY <2>3, <3>2 DEF Give, Gives, history, input
      <3> QED BY <2>0, <3>3, Zenon DEF ReplyStep
    <2>4. CASE Forward
      <3>1. Forwards
        BY <2>4 DEF Forward, Forwards, history
      <3> QED BY <2>0, <3>1, Zenon DEF ReplyStep
    <2>5. CASE RouteReply
      <3>1. Routes
        BY <2>5 DEF RouteReply, Routes
      <3> QED BY <2>0, <3>1, Zenon DEF ReplyStep
    <2>6. CASE RouteClosed
      BY <2>6 DEF RouteClosed, ReplyStep, history
    <2>7. ASSUME NEW n \in Frames, SendReply(n) PROVE ReplyStep
      <3>1. Item("reply", n) \in Items
        BY <1>0, ItemTyped
      <3>2. SendsOff(n)
        BY <2>7, <3>1 DEF SendReply, SendsOff, Puts
      <3> QED BY <2>0, <3>2, Zenon DEF ReplyStep
    <2>8. ASSUME NEW e \in terms, SendTerminate(e) PROVE ReplyStep
      <3>1. e[1] \in Conn /\ e[2] \in Nat
        BY <1>0
      <3>2. /\ Item("terminate", e[2]) \in Items /\ Item("terminate", e[2]).what # "reply"
        BY <3>1, ItemTyped
      <3>3. /\ UNCHANGED <<requests, replies, sending, overlap, wire>>
            /\ \/ Room(e[1]) /\ out' = [out EXCEPT ![e[1]] = Append(out[e[1]], Item("terminate", e[2]))]
               \/ UNCHANGED out
        BY <2>8 DEF SendTerminate, router, history
      <3>4. \/ PutsOther(e[1], Item("terminate", e[2]))
            \/ UNCHANGED <<requests, replies, sending, overlap, out, wire>>
        BY <3>2, <3>3, Zenon DEF PutsOther, Puts
      <3> QED BY <2>0, <3>1, <3>2, <3>4, Zenon DEF ReplyStep
    <2> QED BY <1>4, <2>1, <2>2, <2>3, <2>4, <2>5, <2>6, <2>7, <2>8 DEF Replying
  <1> QED BY <1>1, <1>2, <1>3, <1>4, NextSplit

\* What the write channel holds after something was put there, or written from it.
LEMMA PutFacts ==
  ASSUME Types, NEW c \in Conn, NEW e, Puts(c, e)
  PROVE  /\ e \in Items /\ out' \in [Conn -> Seq(Items)] /\ UNCHANGED wire
         /\ \A d \in Conn \ {c} : out'[d] = out[d]
         /\ ToSet(out'[c]) = ToSet(out[c]) \cup {e}
         /\ Len(out'[c]) = Len(out[c]) + 1 /\ Len(out[c]) \in Nat /\ Room(c)
         /\ DOMAIN out[c] = 1 .. Len(out[c]) /\ DOMAIN out'[c] = 1 .. Len(out[c]) + 1
         /\ \A i \in DOMAIN out[c] : out'[c][i] = out[c][i]
         /\ out'[c][Len(out[c]) + 1] = e
  <1>1. out \in [Conn -> Seq(Items)]
    BY DEF Types, ReplyTypes
  <1> DEFINE q == out[c]
             a == Append(q, e)
  <1>2. e \in Items /\ q \in Seq(Items) /\ out' = [out EXCEPT ![c] = a] /\ UNCHANGED wire /\ Room(c)
    BY <1>1 DEF Puts
  <1> HIDE DEF q
  <1>3. /\ a \in Seq(Items) /\ Len(q) \in Nat /\ Len(a) = Len(q) + 1
        /\ DOMAIN q = 1 .. Len(q) /\ DOMAIN a = 1 .. Len(q) + 1
        /\ \A i \in 1 .. Len(q) : a[i] = q[i]
        /\ a[Len(q) + 1] = e
        /\ ToSet(a) = ToSet(q) \cup {e}
    BY <1>2, AppendFacts, AppendSet
  <1> HIDE DEF a
  <1>4. /\ out' \in [Conn -> Seq(Items)] /\ out'[c] = a
        /\ \A d \in Conn \ {c} : out'[d] = out[d]
    BY <1>1, <1>2, <1>3
  <1> QED BY <1>2, <1>3, <1>4 DEF q

LEMMA WriteFacts ==
  ASSUME Types, NEW c \in Conn, Writes(c)
  PROVE  /\ out' \in [Conn -> Seq(Items)] /\ wire' \in [Conn -> Seq(Items)]
         /\ \A d \in Conn \ {c} : out'[d] = out[d] /\ wire'[d] = wire[d]
         /\ Head(out[c]) \in Items /\ 1 \in DOMAIN out[c] /\ Head(out[c]) = out[c][1]
         /\ ToSet(out[c]) = ToSet(out'[c]) \cup {Head(out[c])}
         /\ Len(out'[c]) = Len(out[c]) - 1 /\ Len(out[c]) \in Nat
         /\ \A i \in DOMAIN out'[c] : i \in Nat /\ i + 1 \in DOMAIN out[c] /\ out'[c][i] = out[c][i + 1]
         /\ ToSet(wire'[c]) = ToSet(wire[c]) \cup {Head(out[c])}
         /\ DOMAIN wire[c] = 1 .. Len(wire[c]) /\ DOMAIN wire'[c] = 1 .. Len(wire[c]) + 1
         /\ Len(wire[c]) \in Nat
         /\ \A i \in DOMAIN wire[c] : wire'[c][i] = wire[c][i]
         /\ wire'[c][Len(wire[c]) + 1] = Head(out[c])
  <1>1. out \in [Conn -> Seq(Items)] /\ wire \in [Conn -> Seq(Items)]
    BY DEF Types, ReplyTypes
  <1> DEFINE q == out[c]
             w == wire[c]
             e == Head(q)
             t == Tail(q)
             a == Append(w, e)
  <1>2. /\ q \in Seq(Items) /\ w \in Seq(Items) /\ q # <<>>
        /\ out' = [out EXCEPT ![c] = t] /\ wire' = [wire EXCEPT ![c] = a]
    BY <1>1 DEF Writes
  <1> HIDE DEF q, w
  <1>3. /\ e \in Items /\ t \in Seq(Items) /\ ToSet(q) = ToSet(t) \cup {e}
        /\ 1 \in DOMAIN q /\ e = q[1] /\ Len(t) = Len(q) - 1 /\ Len(q) \in Nat
        /\ \A i \in DOMAIN t : i \in Nat /\ i + 1 \in DOMAIN q /\ t[i] = q[i + 1]
    BY <1>2, HeadTail
  <1> HIDE DEF e, t
  <1>4. /\ a \in Seq(Items) /\ Len(w) \in Nat
        /\ DOMAIN w = 1 .. Len(w) /\ DOMAIN a = 1 .. Len(w) + 1
        /\ \A i \in 1 .. Len(w) : a[i] = w[i]
        /\ a[Len(w) + 1] = e
        /\ ToSet(a) = ToSet(w) \cup {e}
    BY <1>2, <1>3, AppendFacts, AppendSet
  <1> HIDE DEF a
  <1>5. /\ out' \in [Conn -> Seq(Items)] /\ out'[c] = t
        /\ wire' \in [Conn -> Seq(Items)] /\ wire'[c] = a
        /\ \A d \in Conn \ {c} : out'[d] = out[d] /\ wire'[d] = wire[d]
    BY <1>1, <1>2, <1>3, <1>4
  <1>6. Head(out[c]) = e
    BY DEF e, q
  <1> QED BY <1>3, <1>4, <1>5, <1>6 DEF q, w

LEMMA GiveFacts ==
  ASSUME Types, NEW c \in Conn, Gives(c)
  PROVE  /\ requests' \in Seq(Items) /\ Len(requests') = Len(requests) + 1 /\ Len(requests) \in Nat
         /\ \A i \in DOMAIN requests' :
               \/ i \in DOMAIN requests /\ requests'[i] = requests[i]
               \/ i = Len(requests) + 1 /\ requests'[i] = Item("reply", at[c].n)
         /\ DOMAIN requests = 1 .. Len(requests)
         /\ at[c].n \in Nat
  <1> DEFINE e == Item("reply", at[c].n)
             q == requests
             a == Append(q, e)
  <1>1. at[c].n \in Nat /\ q \in Seq(Items)
    BY DEF Types, Places, ReplyTypes
  <1>2. e \in Items
    BY <1>1, ItemTyped
  <1>3. requests' = a
    BY DEF Gives
  <1> HIDE DEF e, q
  <1>4. /\ a \in Seq(Items) /\ Len(q) \in Nat /\ Len(a) = Len(q) + 1
        /\ DOMAIN q = 1 .. Len(q) /\ DOMAIN a = 1 .. Len(q) + 1
        /\ \A i \in 1 .. Len(q) : a[i] = q[i]
        /\ a[Len(q) + 1] = e
    BY <1>1, <1>2, AppendFacts
  <1> HIDE DEF a
  <1>5. ASSUME NEW i \in DOMAIN a
        PROVE  (i \in DOMAIN q /\ a[i] = q[i]) \/ (i = Len(q) + 1 /\ a[i] = e)
    <2>1. i \in 1 .. Len(q) \/ i = Len(q) + 1
      BY <1>4
    <2> QED BY <1>4, <2>1
  <1> QED BY <1>1, <1>3, <1>4, <1>5 DEF q, e

LEMMA ForwardFacts ==
  ASSUME Types, Forwards
  PROVE  /\ requests' \in Seq(Items) /\ replies' \in Seq(Items)
         /\ Len(requests') = Len(requests) - 1 /\ Len(requests) \in Nat
         /\ Len(replies') = Len(replies) + 1 /\ Len(replies) \in Nat
         /\ 1 \in DOMAIN requests /\ DOMAIN replies = 1 .. Len(replies)
         /\ \A i \in DOMAIN requests' :
               i \in Nat /\ i > 0 /\ i + 1 \in DOMAIN requests /\ requests'[i] = requests[i + 1]
         /\ \A i \in DOMAIN replies' :
               \/ i \in DOMAIN replies /\ replies'[i] = replies[i]
               \/ i = Len(replies) + 1 /\ replies'[i] = requests[1]
  <1> DEFINE q == requests
             e == Head(q)
             t == Tail(q)
             r == replies
             a == Append(r, e)
  <1>1. q \in Seq(Items) /\ r \in Seq(Items) /\ q # <<>> /\ requests' = t /\ replies' = a
    BY DEF Types, ReplyTypes, Forwards
  <1> HIDE DEF q, r
  <1>2. /\ e \in Items /\ t \in Seq(Items) /\ 1 \in DOMAIN q /\ e = q[1]
        /\ Len(t) = Len(q) - 1 /\ Len(q) \in Nat
        /\ \A i \in DOMAIN t : i \in Nat /\ i + 1 \in DOMAIN q /\ t[i] = q[i + 1]
    BY <1>1, HeadTail
  <1>3. \A i \in DOMAIN t : i > 0
    BY <1>2
  <1> HIDE DEF e, t
  <1>4. /\ a \in Seq(Items) /\ Len(r) \in Nat /\ Len(a) = Len(r) + 1
        /\ DOMAIN r = 1 .. Len(r) /\ DOMAIN a = 1 .. Len(r) + 1
        /\ \A i \in 1 .. Len(r) : a[i] = r[i]
        /\ a[Len(r) + 1] = e
    BY <1>1, <1>2, AppendFacts
  <1> HIDE DEF a
  <1>5. ASSUME NEW i \in DOMAIN a
        PROVE  (i \in DOMAIN r /\ a[i] = r[i]) \/ (i = Len(r) + 1 /\ a[i] = e)
    <2>1. i \in 1 .. Len(r) \/ i = Len(r) + 1
      BY <1>4
    <2> QED BY <1>4, <2>1
  <1> QED BY <1>1, <1>2, <1>3, <1>4, <1>5 DEF q, r

LEMMA RouteFacts ==
  ASSUME Types, Routes
  PROVE  /\ replies' \in Seq(Items) /\ Len(replies') = Len(replies) - 1 /\ Len(replies) \in Nat
         /\ 1 \in DOMAIN replies /\ Head(replies) = replies[1] /\ replies[1].n \in Nat
         /\ \A i \in DOMAIN replies' :
               i \in Nat /\ i > 0 /\ i + 1 \in DOMAIN replies /\ replies'[i] = replies[i + 1]
  <1> DEFINE q == replies
             t == Tail(q)
  <1>1. q \in Seq(Items) /\ q # <<>> /\ replies' = t
    BY DEF Types, ReplyTypes, Routes
  <1> HIDE DEF q
  <1>2. /\ Head(q) \in Items /\ t \in Seq(Items) /\ 1 \in DOMAIN q /\ Head(q) = q[1]
        /\ Len(t) = Len(q) - 1 /\ Len(q) \in Nat
        /\ \A i \in DOMAIN t : i \in Nat /\ i + 1 \in DOMAIN q /\ t[i] = q[i + 1]
    BY <1>1, HeadTail
  <1>3. \A i \in DOMAIN t : i > 0
    BY <1>2
  <1>4. q[1].n \in Nat
    BY <1>2 DEF Items
  <1> HIDE DEF t
  <1> QED BY <1>1, <1>2, <1>3, <1>4 DEF q

\* The types of the reply channels.
ChannelTypes ==
  /\ out \in [Conn -> Seq(Items)] /\ wire \in [Conn -> Seq(Items)]
  /\ requests \in Seq(Items) /\ replies \in Seq(Items) /\ sending \subseteq Nat
  /\ \A i \in DOMAIN requests : requests[i].what = "reply"
  /\ \A i \in DOMAIN replies : replies[i].what = "reply"

LEMMA NextChannelsTyped ==
  ASSUME Types, Next
  PROVE  ChannelTypes'
  <1>0. ChannelTypes
    BY DEF Types, ReplyTypes, ChannelTypes
  <1>1. CASE UNCHANGED <<requests, replies, sending, overlap, out, wire>>
    BY <1>0, <1>1 DEF ChannelTypes
  <1>2. ASSUME NEW c \in Conn, NEW e \in Items, PutsOther(c, e) PROVE ChannelTypes'
    BY <1>0, <1>2, PutFacts DEF PutsOther, ChannelTypes
  <1>3. ASSUME NEW c \in Conn, Writes(c) PROVE ChannelTypes'
    <2>1. out' \in [Conn -> Seq(Items)] /\ wire' \in [Conn -> Seq(Items)]
      BY <1>3, WriteFacts
    <2> QED BY <1>0, <1>3, <2>1 DEF Writes, ChannelTypes
  <1>4. ASSUME NEW c \in Conn, Gives(c) PROVE ChannelTypes'
    <2>1. /\ requests' \in Seq(Items) /\ at[c].n \in Nat
          /\ \A i \in DOMAIN requests' :
               \/ i \in DOMAIN requests /\ requests'[i] = requests[i]
               \/ i = Len(requests) + 1 /\ requests'[i] = Item("reply", at[c].n)
      BY <1>4, GiveFacts
    <2>2. Item("reply", at[c].n).what = "reply"
      BY <2>1, ItemTyped
    <2>3. \A i \in DOMAIN requests' : requests'[i].what = "reply"
      BY <1>0, <2>1, <2>2 DEF ChannelTypes
    <2> QED BY <1>0, <1>4, <2>1, <2>3 DEF Gives, ChannelTypes
  <1>5. CASE Forwards
    <2>1. /\ requests' \in Seq(Items) /\ replies' \in Seq(Items) /\ 1 \in DOMAIN requests
          /\ \A i \in DOMAIN requests' : i + 1 \in DOMAIN requests /\ requests'[i] = requests[i + 1]
          /\ \A i \in DOMAIN replies' :
               \/ i \in DOMAIN replies /\ replies'[i] = replies[i]
               \/ i = Len(replies) + 1 /\ replies'[i] = requests[1]
      BY <1>5, ForwardFacts
    <2>2. \A i \in DOMAIN requests' : requests'[i].what = "reply"
      BY <1>0, <2>1 DEF ChannelTypes
    <2>3. \A i \in DOMAIN replies' : replies'[i].what = "reply"
      BY <1>0, <2>1 DEF ChannelTypes
    <2> QED BY <1>0, <1>5, <2>1, <2>2, <2>3 DEF Forwards, ChannelTypes
  <1>6. CASE Routes
    <2>1. /\ replies' \in Seq(Items) /\ Head(replies) = replies[1] /\ replies[1].n \in Nat
          /\ \A i \in DOMAIN replies' : i + 1 \in DOMAIN replies /\ replies'[i] = replies[i + 1]
      BY <1>6, RouteFacts
    <2>2. \A i \in DOMAIN replies' : replies'[i].what = "reply"
      BY <1>0, <2>1 DEF ChannelTypes
    <2>3. sending' \subseteq Nat
      BY <1>0, <1>6, <2>1 DEF Routes, ChannelTypes
    <2> QED BY <1>0, <1>6, <2>1, <2>2, <2>3 DEF Routes, ChannelTypes
  <1>7. ASSUME NEW n \in Frames, SendsOff(n) PROVE ChannelTypes'
    <2>1. Owner(n) \in Conn
      BY KindTyped DEF Types
    <2>2. out' \in [Conn -> Seq(Items)]
      BY <1>0, <1>7, <2>1, PutFacts DEF SendsOff, ChannelTypes
    <2> QED BY <1>0, <1>7, <2>2 DEF SendsOff, ChannelTypes
  <1> QED BY <1>1, <1>2, <1>3, <1>4, <1>5, <1>6, <1>7, NextReplies DEF ReplyStep

LEMMA NextReplyTyped ==
  ASSUME Types, RouteSound, Next
  PROVE  ReplyTypes'
  <1>0. closing \in Seq(Conn) /\ closed \subseteq Conn
    BY DEF Types, ReplyTypes
  <1>1. ASSUME UNCHANGED <<closing, closed>> PROVE closing' \in Seq(Conn) /\ closed' \subseteq Conn
    BY <1>0, <1>1
  <1>2. ASSUME NEW c \in Conn, TellRouter(c) PROVE closing' \in Seq(Conn) /\ closed' \subseteq Conn
    BY <1>0, <1>2 DEF TellRouter
  <1>3. CASE RouteClosed
    <2>1. closing # <<>> /\ closing' = Tail(closing) /\ closed' \subseteq closed \cup {Head(closing)}
      BY <1>3 DEF RouteClosed
    <2>2. Tail(closing) \in Seq(Conn) /\ Head(closing) \in Conn
      BY <1>0, <2>1, HeadTail
    <2>3. closing' \in Seq(Conn) /\ closed' \subseteq Conn
      BY <1>0, <2>1, <2>2
    <2> QED BY <2>3, NextChannelsTyped DEF ChannelTypes, ReplyTypes
  <1>4. CASE RouteReply
    <2>1. replies # <<>> /\ UNCHANGED closing /\ closed' \subseteq closed \cup {Owner(Head(replies).n)}
      BY <1>4 DEF RouteReply
    <2>2. closing' \in Seq(Conn) /\ closed' \subseteq Conn
      BY <1>0, <2>1, HeadReply
    <2> QED BY <2>2, NextChannelsTyped DEF ChannelTypes, ReplyTypes
  <1>5. ASSUME NEW c \in Conn, Inner(c) \/ Reading(c) PROVE UNCHANGED <<closing, closed>>
    BY <1>5, InnerLeaves, ReadingLeaves
  <1>6. ASSUME NEW c \in Conn, NEW n \in Frames, Handling(c, n) PROVE UNCHANGED <<closing, closed>>
    BY <1>6, HandlingLeaves
  <1>7. ASSUME Blocking \/ \E n \in Frames : Auditing(n) PROVE UNCHANGED <<closing, closed>>
    BY <1>7, BlockingLeaves, AuditingLeaves
  <1>8. ASSUME NEW c \in Conn, Pong(c) \/ Write(c) \/ Give(c) PROVE UNCHANGED <<closing, closed>>
    BY <1>8 DEF Pong, Write, Give, router
  <1>9. ASSUME Forward \/ (\E n \in Frames : SendReply(n)) \/ (\E e \in terms : SendTerminate(e))
        PROVE  UNCHANGED <<closing, closed>>
    BY <1>9 DEF Forward, SendReply, SendTerminate, router
  <1>10. \/ closing' \in Seq(Conn) /\ closed' \subseteq Conn
         \/ RouteClosed \/ RouteReply
    BY <1>1, <1>2, <1>5, <1>6, <1>7, <1>8, <1>9, NextSplit DEF Replying
  <1> QED BY <1>3, <1>4, <1>10, NextChannelsTyped DEF ChannelTypes, ReplyTypes

-----------------------------------------------------------------------------
(* Capacities *)

Permitted == {c \in Conn : at[c].pc \in {"save", "handle", "give", "error"}}

\* Only Acquire takes a permit, and only while one is free.
LEMMA NextPermits ==
  ASSUME Types, Permits <= reply_in_flight_limit, Next
  PROVE  Permits' <= reply_in_flight_limit
  <1>0. /\ IsFiniteSet(Conn) /\ reply_in_flight_limit \in Nat /\ Onward
        /\ at \in [Conn -> [pc : Steps, n : Nat]]
    BY NextOnward, NetworkAssumption DEF Types, Places
  <1>1. Permits = Cardinality(Permitted) /\ Permits' = Cardinality(Permitted')
    BY DEF Permits, Permitted
  <1> DEFINE P == Permitted
             Q == Permitted'
  <1>2. P \subseteq Conn /\ Q \subseteq Conn
    BY DEF Permitted
  <1>3. ASSUME NEW d \in Conn, d \in Q, d \notin P PROVE Acquire(d)
    <2>1. at'[d].pc \in {"save", "handle", "give", "error"}
      BY <1>3 DEF Permitted
    <2>2. at[d].pc \notin {"save", "handle", "give", "error"}
      BY <1>3 DEF Permitted
    <2>3. at[d].pc = "permit"
      BY <1>0, <2>1, <2>2 DEF Onward, Busy
    <2> QED BY <1>0, <2>1, <2>3 DEF Onward
  <1>4. IsFiniteSet(P) /\ IsFiniteSet(Q)
    BY <1>0, <1>2, FS_Subset
  <1>5. CASE \E c \in Conn : Acquire(c)
    <2>1. PICK c \in Conn : Acquire(c)
      BY <1>5
    <2>2. Cardinality(P) < reply_in_flight_limit /\ at' = [at EXCEPT ![c] = At("save", at[c].n)]
      BY <1>1, <2>1 DEF Acquire, Goto
    <2>3. Q \subseteq P \cup {c}
      BY <1>0, <2>2 DEF Permitted
    <2> HIDE DEF P, Q
    <2>4. /\ IsFiniteSet(P \cup {c}) /\ Cardinality(P) \in Nat
          /\ Cardinality(P \cup {c}) = IF c \in P THEN Cardinality(P) ELSE Cardinality(P) + 1
      BY <1>4, FS_AddElement, FS_CardinalityType
    <2>5. Cardinality(Q) <= Cardinality(P \cup {c}) /\ Cardinality(Q) \in Nat
      BY <1>4, <2>3, <2>4, FS_Subset, FS_CardinalityType
    <2>6. Cardinality(Q) <= reply_in_flight_limit
      BY <1>0, <2>2, <2>4, <2>5
    <2> QED BY <1>1, <2>6 DEF Q
  <1>6. CASE ~\E c \in Conn : Acquire(c)
    <2>1. Q \subseteq P
      BY <1>2, <1>3, <1>6
    <2> HIDE DEF P, Q
    <2>2. Cardinality(Q) <= Cardinality(P) /\ Cardinality(Q) \in Nat /\ Cardinality(P) \in Nat
      BY <1>4, <2>1, FS_Subset, FS_CardinalityType
    <2>3. Cardinality(P) <= reply_in_flight_limit
      BY <1>1 DEF P
    <2>4. Cardinality(Q) <= reply_in_flight_limit
      BY <1>0, <2>2, <2>3
    <2> QED BY <1>1, <2>4 DEF Q
  <1> QED BY <1>5, <1>6

\* What the write channel of c holds: a new connection has nothing there, and an ended one does
\* not matter.
Fits(c) == ~Ended(c) => Len(out[c]) <= CHANNEL + InHand(c)

LEMMA NextFits ==
  ASSUME Types, \A c \in Conn : Fits(c), Next
  PROVE  \A c \in Conn : Fits(c)'
  <1>0. CHANNEL \in Nat /\ Onward /\ out \in [Conn -> Seq(Items)] /\ out' \in [Conn -> Seq(Items)]
    BY NetworkAssumption, NextOnward, NextChannelsTyped DEF Types, ReplyTypes, ChannelTypes
  <1>1. \A c \in Conn : /\ InHand(c) \in Nat /\ Len(out[c]) \in Nat /\ Len(out'[c]) \in Nat
                        /\ ~Ended(c) => Len(out[c]) <= CHANNEL + InHand(c)
    BY <1>0 DEF Fits, InHand
  <1>2. ASSUME NEW c \in Conn, NEW e, Puts(c, e)
        PROVE  \A d \in Conn : ~Ended(d) => Len(out'[d]) <= CHANNEL + InHand(d)
    <2>1. /\ \A d \in Conn \ {c} : out'[d] = out[d]
          /\ Len(out'[c]) = Len(out[c]) + 1 /\ Room(c)
      BY <1>2, PutFacts
    <2>2. Len(out'[c]) <= CHANNEL + InHand(c)
      BY <1>0, <1>1, <2>1 DEF Room
    <2> QED BY <1>1, <2>1, <2>2
  <1>3. ASSUME NEW c \in Conn, Writes(c)
        PROVE  /\ \A d \in Conn : ~Ended(d) => Len(out'[d]) <= CHANNEL + InHand(d)
               /\ Len(out'[c]) = Len(out[c]) - 1
    <2>1. /\ \A d \in Conn \ {c} : out'[d] = out[d]
          /\ Len(out'[c]) = Len(out[c]) - 1
      BY <1>3, WriteFacts
    <2>2. ~Ended(c) => Len(out'[c]) <= CHANNEL + InHand(c)
      BY <1>0, <1>1, <2>1
    <2> QED BY <1>1, <2>1, <2>2
  <1>4. \A d \in Conn : ~Ended(d) => Len(out'[d]) <= CHANNEL + InHand(d)
    <2>1. CASE UNCHANGED out
      BY <1>1, <2>1
    <2>2. ASSUME NEW n \in Frames, SendsOff(n)
          PROVE  UNCHANGED out \/ \E c \in Conn : \E e : Puts(c, e)
      <3>1. Owner(n) \in Conn
        BY KindTyped DEF Types
      <3> QED BY <2>2, <3>1 DEF SendsOff
    <2>3. UNCHANGED out \/ (\E c \in Conn : \E e : Puts(c, e)) \/ (\E c \in Conn : Writes(c))
      BY <2>2, NextReplies, Zenon DEF ReplyStep, PutsOther, Gives, Forwards, Routes
    <2> QED BY <1>2, <1>3, <2>1, <2>3
  <1>5. ASSUME NEW d \in Conn, ~Ended(d)'
        PROVE  Len(out'[d]) <= CHANNEL + InHand(d)'
    <2>1. /\ ~Ended(d) /\ InHand(d)' \in Nat
          /\ at[d].pc = "writing" => at'[d].pc = "writing" \/ Write(d)
      BY <1>0, <1>5 DEF Onward, Ended, InHand
    <2>2. CASE Write(d)
      <3>1. Writes(d) /\ at[d].pc = "writing"
        BY <2>2 DEF Write, Writes, router
      <3>2. InHand(d) = 1 /\ Len(out'[d]) = Len(out[d]) - 1
        BY <1>3, <3>1 DEF InHand
      <3> QED BY <1>0, <1>1, <2>1, <3>2
    <2>3. CASE ~Write(d)
      <3>1. InHand(d) <= InHand(d)'
        BY <2>1, <2>3 DEF InHand
      <3>2. Len(out'[d]) <= CHANNEL + InHand(d)
        BY <1>4, <2>1
      <3> QED BY <1>0, <1>1, <2>1, <3>1, <3>2
    <2> QED BY <2>2, <2>3
  <1> QED BY <1>5 DEF Fits

\* What the reply channels and the spawned sends hold.
Held ==
  /\ Len(requests) <= reply_in_flight_limit /\ Len(replies) <= reply_in_flight_limit
  /\ IsFiniteSet(sending) /\ Cardinality(sending) <= reply_send_max_concurrent

LEMMA NextHeld ==
  ASSUME Types, Held, Next
  PROVE  Held'
  <1>0. reply_in_flight_limit \in Nat /\ reply_send_max_concurrent \in Nat
    BY NetworkAssumption
  <1>1. CASE UNCHANGED <<requests, replies, sending, overlap, out, wire>>
    BY <1>1 DEF Held
  <1>3. ASSUME NEW c \in Conn, NEW e \in Items, PutsOther(c, e) PROVE Held'
    BY <1>3 DEF PutsOther, Held
  <1>4. ASSUME NEW c \in Conn, Writes(c) PROVE Held'
    BY <1>4 DEF Writes, Held
  <1>5. ASSUME NEW c \in Conn, Gives(c) PROVE Held'
    <2>1. Len(requests') = Len(requests) + 1 /\ Len(requests) \in Nat /\ Len(requests) < reply_in_flight_limit
      BY <1>5, GiveFacts DEF Gives
    <2>2. Len(requests') <= reply_in_flight_limit
      BY <1>0, <2>1
    <2> QED BY <1>5, <2>2 DEF Gives, Held
  <1>6. CASE Forwards
    <2>1. /\ Len(requests') = Len(requests) - 1 /\ Len(requests) \in Nat
          /\ Len(replies') = Len(replies) + 1 /\ Len(replies) \in Nat /\ Len(replies) < reply_in_flight_limit
      BY <1>6, ForwardFacts DEF Forwards
    <2>2. Len(requests') <= reply_in_flight_limit /\ Len(replies') <= reply_in_flight_limit
      BY <1>0, <2>1 DEF Held
    <2> QED BY <1>6, <2>2 DEF Forwards, Held
  <1>7. CASE Routes
    <2>1. Len(replies') = Len(replies) - 1 /\ Len(replies) \in Nat
      BY <1>7, RouteFacts
    <2>2. Len(replies') <= reply_in_flight_limit
      BY <1>0, <2>1 DEF Held
    <2>3. IsFiniteSet(sending') /\ Cardinality(sending') <= reply_send_max_concurrent
      <3>1. IsFiniteSet(sending) /\ Cardinality(sending) <= reply_send_max_concurrent
        BY DEF Held
      <3>2. CASE UNCHANGED sending
        BY <3>1, <3>2
      <3>3. CASE ~UNCHANGED sending
        <4> DEFINE n == Head(replies).n
        <4>1. Cardinality(sending) < reply_send_max_concurrent /\ sending' = sending \cup {n}
          BY <1>7, <3>3 DEF Routes
        <4> HIDE DEF n
        <4>2. /\ IsFiniteSet(sending \cup {n}) /\ Cardinality(sending) \in Nat
              /\ Cardinality(sending \cup {n}) = IF n \in sending THEN Cardinality(sending) ELSE Cardinality(sending) + 1
          BY <3>1, FS_AddElement, FS_CardinalityType
        <4>3. Cardinality(sending \cup {n}) <= reply_send_max_concurrent
          BY <1>0, <4>1, <4>2
        <4> QED BY <4>1, <4>2, <4>3
      <3> QED BY <3>2, <3>3
    <2> QED BY <1>7, <2>2, <2>3 DEF Routes, Held
  <1>8. ASSUME NEW n \in Frames, SendsOff(n) PROVE Held'
    <2>3. IsFiniteSet(sending) /\ Cardinality(sending) <= reply_send_max_concurrent /\ sending' \subseteq sending
      BY <1>8 DEF SendsOff, Held
    <2>4. IsFiniteSet(sending') /\ Cardinality(sending') <= Cardinality(sending)
          /\ Cardinality(sending') \in Nat /\ Cardinality(sending) \in Nat
      BY <2>3, FS_Subset, FS_CardinalityType
    <2>5. Cardinality(sending') <= reply_send_max_concurrent
      BY <1>0, <2>3, <2>4
    <2> QED BY <1>8, <2>4, <2>5 DEF SendsOff, Held
  <1> QED BY <1>1, <1>3, <1>4, <1>5, <1>6, <1>7, <1>8, NextReplies DEF ReplyStep

LEMMA NextCapacities ==
  ASSUME Types, Capacities, Next
  PROVE  Capacities'
  <1>1. Held /\ Permits <= reply_in_flight_limit /\ \A c \in Conn : Fits(c)
    BY DEF Held, Capacities, Fits
  <1>2. Held' /\ Permits' <= reply_in_flight_limit /\ \A c \in Conn : Fits(c)'
    BY <1>1, NextHeld, NextPermits, NextFits
  <1> QED BY <1>2 DEF Held, Capacities, Fits

-----------------------------------------------------------------------------
(* Replies on their way are those of frames the connection is done with *)

\* The reply of frame n was handed over; the replies that went to connection c.
InTransit(n) ==
  \/ \E i \in DOMAIN requests : requests[i].n = n
  \/ \E i \in DOMAIN replies : replies[i].n = n
  \/ n \in sending
  \/ \E c \in Conn : \E e \in ToSet(out[c]) \cup ToSet(wire[c]) : e.what = "reply" /\ e.n = n
Reached(c) == ToSet(out[c]) \cup ToSet(wire[c])

LEMMA TransitGone ==
  ASSUME RouteSound
  PROVE  /\ \A n : InTransit(n) => Gone(n)
         /\ \A c \in Conn : \A e \in Reached(c) : e.what = "reply" => Owner(e.n) = c
  BY DEF RouteSound, InTransit, Reached

LEMMA TransitGoneNext ==
  ASSUME \A n : InTransit(n)' => Gone(n)',
         \A c \in Conn : \A e \in Reached(c)' : e.what = "reply" => Owner(e.n)' = c
  PROVE  RouteSound'
  <1>1. ASSUME NEW i \in DOMAIN requests' PROVE Gone(requests[i].n)'
    <2>1. PICK n : n = requests'[i].n
      OBVIOUS
    <2>2. Gone(n)'
      BY <2>1 DEF InTransit
    <2> QED BY <2>1, <2>2 DEF Gone
  <1>2. ASSUME NEW i \in DOMAIN replies' PROVE Gone(replies[i].n)'
    <2>1. PICK n : n = replies'[i].n
      OBVIOUS
    <2>2. Gone(n)'
      BY <2>1 DEF InTransit
    <2> QED BY <2>1, <2>2 DEF Gone
  <1>3. ASSUME NEW n \in sending' PROVE Gone(n)'
    BY DEF InTransit
  <1>4. ASSUME NEW c \in Conn, NEW e \in ToSet(out'[c]) \cup ToSet(wire'[c]), e.what = "reply"
        PROVE  Gone(e.n)' /\ Owner(e.n)' = c
    <2>1. PICK n : n = e.n
      OBVIOUS
    <2>2. Gone(n)'
      BY <1>4, <2>1 DEF InTransit
    <2>3. Owner(e.n)' = c
      BY <1>4 DEF Reached
    <2> QED BY <2>1, <2>2, <2>3
  <1> QED BY <1>1, <1>2, <1>3, <1>4 DEF RouteSound

\* A reply comes into the channels only by being given.
LEMMA NextTransit ==
  ASSUME Types, Next
  PROVE  /\ \A n : InTransit(n)' => InTransit(n) \/ \E c \in Conn : Gives(c) /\ UNCHANGED frame /\ n = at[c].n
         /\ \A d \in Conn : \A e \in Reached(d)' : e.what = "reply" =>
               e \in Reached(d) \/ (e.n \in Frames /\ Owner(e.n) = d /\ UNCHANGED frame)
  <1> DEFINE Came(n) == InTransit(n) \/ \E c \in Conn : Gives(c) /\ UNCHANGED frame /\ n = at[c].n
             Home(d, e) == e.what = "reply" => e \in Reached(d) \/ (e.n \in Frames /\ Owner(e.n) = d /\ UNCHANGED frame)
             Goal == /\ \A n : InTransit(n)' => Came(n)
                     /\ \A d \in Conn : \A e \in Reached(d)' : Home(d, e)
  <1>1. CASE UNCHANGED <<requests, replies, sending, overlap, out, wire>>
    BY <1>1 DEF InTransit, Reached
  <1>2. ASSUME NEW c \in Conn, NEW e \in Items, PutsOther(c, e) PROVE Goal
    <2>1. /\ UNCHANGED <<requests, replies, sending, wire>> /\ e.what # "reply"
          /\ \A d \in Conn \ {c} : out'[d] = out[d]
          /\ ToSet(out'[c]) = ToSet(out[c]) \cup {e}
      BY <1>2, PutFacts DEF PutsOther
    <2>2. \A d \in Conn : \A u \in Reached(d)' : u.what = "reply" => u \in Reached(d)
      BY <2>1 DEF Reached
    <2>3. \A n : InTransit(n)' => InTransit(n)
      BY <2>1, <2>2 DEF InTransit, Reached
    <2> QED BY <2>2, <2>3
  <1>3. ASSUME NEW c \in Conn, Writes(c) PROVE Goal
    <2>1. /\ UNCHANGED <<requests, replies, sending>>
          /\ \A d \in Conn \ {c} : out'[d] = out[d] /\ wire'[d] = wire[d]
          /\ ToSet(out[c]) = ToSet(out'[c]) \cup {Head(out[c])}
          /\ ToSet(wire'[c]) = ToSet(wire[c]) \cup {Head(out[c])}
      BY <1>3, WriteFacts DEF Writes
    <2>2. \A d \in Conn : \A u \in Reached(d)' : u \in Reached(d)
      BY <2>1 DEF Reached
    <2>3. \A n : InTransit(n)' => InTransit(n)
      BY <2>1, <2>2 DEF InTransit, Reached
    <2> QED BY <2>2, <2>3
  <1>4. ASSUME NEW c \in Conn, Gives(c), UNCHANGED frame PROVE Goal
    <2>1. /\ UNCHANGED <<replies, sending, out, wire>> /\ at[c].n \in Nat
          /\ \A i \in DOMAIN requests' :
               \/ i \in DOMAIN requests /\ requests'[i] = requests[i]
               \/ i = Len(requests) + 1 /\ requests'[i] = Item("reply", at[c].n)
      BY <1>4, GiveFacts DEF Gives
    <2>2. Item("reply", at[c].n).n = at[c].n
      BY <2>1, ItemTyped
    <2>3. \A n : InTransit(n)' => InTransit(n) \/ n = at[c].n
      BY <2>1, <2>2 DEF InTransit
    <2>4. \A d \in Conn : Reached(d)' = Reached(d)
      BY <2>1 DEF Reached
    <2> QED BY <1>4, <2>3, <2>4
  <1>5. CASE Forwards
    <2>1. /\ UNCHANGED <<sending, out, wire>> /\ 1 \in DOMAIN requests
          /\ \A i \in DOMAIN requests' : i + 1 \in DOMAIN requests /\ requests'[i] = requests[i + 1]
          /\ \A i \in DOMAIN replies' :
               \/ i \in DOMAIN replies /\ replies'[i] = replies[i]
               \/ i = Len(replies) + 1 /\ replies'[i] = requests[1]
      BY <1>5, ForwardFacts DEF Forwards
    <2>3. \A n : InTransit(n)' => InTransit(n)
      BY <2>1 DEF InTransit
    <2>4. \A d \in Conn : Reached(d)' = Reached(d)
      BY <2>1 DEF Reached
    <2> QED BY <2>3, <2>4
  <1>6. CASE Routes
    <2>1. /\ UNCHANGED <<requests, out, wire>> /\ 1 \in DOMAIN replies /\ Head(replies) = replies[1]
          /\ \A i \in DOMAIN replies' : i + 1 \in DOMAIN replies /\ replies'[i] = replies[i + 1]
          /\ sending' \subseteq sending \cup {Head(replies).n}
      BY <1>6, RouteFacts DEF Routes
    <2>3. \A n : InTransit(n)' => InTransit(n)
      BY <2>1 DEF InTransit
    <2>4. \A d \in Conn : Reached(d)' = Reached(d)
      BY <2>1 DEF Reached
    <2> QED BY <2>3, <2>4
  <1>7. ASSUME NEW n \in Frames, SendsOff(n), UNCHANGED frame PROVE Goal
    <2>1. /\ n \in sending /\ sending' \subseteq sending /\ UNCHANGED <<requests, replies, wire>>
          /\ Owner(n) \in Conn /\ n \in Nat
      BY <1>7, KindTyped DEF SendsOff, Types
    <2>2. CASE UNCHANGED out
      <3>3. \A m : InTransit(m)' => InTransit(m)
        BY <2>1, <2>2 DEF InTransit
      <3>4. \A d \in Conn : Reached(d)' = Reached(d)
        BY <2>1, <2>2 DEF Reached
      <3> QED BY <3>3, <3>4
    <2>3. CASE Puts(Owner(n), Item("reply", n))
      <3>1. PICK c \in Conn : c = Owner(n)
        BY <2>1
      <3>2. /\ \A d \in Conn \ {c} : out'[d] = out[d]
            /\ ToSet(out'[c]) = ToSet(out[c]) \cup {Item("reply", n)}
        BY <2>3, <3>1, PutFacts
      <3>3. Item("reply", n).n = n
        BY <2>1, ItemTyped
      <3>4. \A d \in Conn : \A u \in Reached(d)' : u \in Reached(d) \/ (d = c /\ u.n = n)
        BY <2>1, <3>2, <3>3 DEF Reached
      <3>5. \A m : InTransit(m)' => InTransit(m)
        BY <2>1, <3>4 DEF InTransit, Reached
      <3> QED BY <1>7, <3>1, <3>4, <3>5
    <2> QED BY <1>7, <2>2, <2>3 DEF SendsOff
  <1> QED BY <1>1, <1>2, <1>3, <1>4, <1>5, <1>6, <1>7, NextReplies DEF ReplyStep

LEMMA NextRouteSound ==
  ASSUME Types, InputSound, RouteSound, Next
  PROVE  RouteSound'
  <1>1. Stable
    BY NextStable
  <1>2. /\ \A n : InTransit(n) => Gone(n)
        /\ \A c \in Conn : \A e \in Reached(c) : e.what = "reply" => Owner(e.n) = c
    BY TransitGone
  <1>3. /\ \A n : InTransit(n)' => InTransit(n) \/ \E c \in Conn : Gives(c) /\ UNCHANGED frame /\ n = at[c].n
        /\ \A d \in Conn : \A e \in Reached(d)' : e.what = "reply" =>
              e \in Reached(d) \/ (e.n \in Frames /\ Owner(e.n) = d /\ UNCHANGED frame)
    BY NextTransit
  <1>4. ASSUME NEW c \in Conn, Gives(c), UNCHANGED frame, NEW n, n = at[c].n PROVE Gone(n)'
    <2>1. at[c].pc = "give" /\ at'[c].pc = "take" /\ UNCHANGED <<socket, buf>>
      BY <1>4 DEF Gives
    <2>2. n \in Frames /\ Owner(n) = c /\ \A m \in Waiting(c) : n < m
      BY <1>4, <2>1 DEF InputSound
    <2>3. n \in Frames' /\ Owner(n)' = c
      BY <1>4, <2>2 DEF Frames, Owner
    <2>4. \A m \in Ungiven(c)' : n < m
      BY <2>1, <2>2 DEF Ungiven, Unanswered, Waiting
    <2> QED BY <2>3, <2>4 DEF Gone
  <1>5. ASSUME NEW n, InTransit(n)' PROVE Gone(n)'
    <2>1. CASE InTransit(n)
      BY <1>1, <1>2, <2>1 DEF Stable
    <2> QED BY <1>3, <1>4, <1>5, <2>1
  <1>6. ASSUME NEW d \in Conn, NEW e \in Reached(d)', e.what = "reply" PROVE Owner(e.n)' = d
    <2>1. CASE e \in Reached(d)
      <3>1. PICK n : n = e.n
        OBVIOUS
      <3>2. InTransit(n)
        BY <1>6, <2>1, <3>1 DEF InTransit, Reached
      <3>3. n \in Frames /\ Owner(n) = d
        BY <1>2, <1>6, <2>1, <3>1, <3>2 DEF Gone
      <3> QED BY <1>1, <3>1, <3>3 DEF Stable
    <2>2. CASE e.n \in Frames /\ Owner(e.n) = d /\ UNCHANGED frame
      BY <2>2 DEF Owner
    <2> QED BY <1>3, <1>6, <2>1, <2>2
  <1> QED BY <1>5, <1>6, TransitGoneNext

-----------------------------------------------------------------------------
(* The order of the replies *)

\* OrderSound in parts, with the owners of the frames fixed.
RequestsOrdered(own) == \A i, j \in DOMAIN requests :
  i < j /\ own[requests[i].n] = own[requests[j].n] => requests[i].n < requests[j].n
RepliesOrdered(own) == \A i, j \in DOMAIN replies :
  i < j /\ own[replies[i].n] = own[replies[j].n] => replies[i].n < replies[j].n
RepliesFirst(own) == \A i \in DOMAIN replies, j \in DOMAIN requests :
  own[replies[i].n] = own[requests[j].n] => replies[i].n < requests[j].n
Behind(own, n) ==
  /\ \A m \in sending : own[m] = own[n] => m < n
  /\ \A c \in Conn : \A e \in Reached(c) : own[n] = c /\ e.what = "reply" => e.n < n
RequestsBehind(own) == \A i \in DOMAIN requests : Behind(own, requests[i].n)
RepliesBehind(own) == \A i \in DOMAIN replies : Behind(own, replies[i].n)
SendsOverlap == \A m, n \in sending : m # n => {m, n} \in overlap
OvertakesOverlap(own) == \A c \in Conn : \A e \in Reached(c), m \in sending :
  e.what = "reply" /\ own[m] = c /\ e.n > m => {e.n, m} \in overlap
OutOverlaps == \A c \in Conn : \A i, j \in DOMAIN out[c] :
  i < j /\ OutOfOrder(out[c][i], out[c][j]) => {out[c][i].n, out[c][j].n} \in overlap
WireOverlaps == \A c \in Conn : \A a \in ToSet(wire[c]), b \in ToSet(out[c]) :
  OutOfOrder(a, b) => {a.n, b.n} \in overlap

Ordered(own) ==
  /\ RequestsOrdered(own) /\ RepliesOrdered(own) /\ RepliesFirst(own)
  /\ RequestsBehind(own) /\ RepliesBehind(own)
  /\ SendsOverlap /\ OvertakesOverlap(own) /\ OutOverlaps /\ WireOverlaps
  /\ SwapsOnlyWhenSentTogether

LEMMA OrderedFrom ==
  ASSUME NEW own, OrderSound, \A n : InTransit(n) => own[n] = Owner(n) /\ own[n] \in Conn
  PROVE  Ordered(own)
  <1>1. /\ \A i \in DOMAIN requests : own[requests[i].n] = Owner(requests[i].n) /\ own[requests[i].n] \in Conn
        /\ \A i \in DOMAIN replies : own[replies[i].n] = Owner(replies[i].n) /\ own[replies[i].n] \in Conn
        /\ \A m \in sending : own[m] = Owner(m)
    BY DEF InTransit
  <1>2. RequestsOrdered(own) /\ RepliesOrdered(own) /\ RepliesFirst(own)
    BY <1>1 DEF OrderSound, RequestsOrdered, RepliesOrdered, RepliesFirst
  <1>3. ASSUME NEW n, own[n] = Owner(n), After(n) PROVE Behind(own, n)
    BY <1>1, <1>3 DEF After, Behind, Reached
  <1>4. RequestsBehind(own)
    BY <1>1, <1>3 DEF OrderSound, RequestsBehind
  <1>5. RepliesBehind(own)
    BY <1>1, <1>3 DEF OrderSound, RepliesBehind
  <1>6. OvertakesOverlap(own)
    BY <1>1 DEF OrderSound, OvertakesOverlap, Reached
  <1>7. SendsOverlap /\ OutOverlaps /\ WireOverlaps /\ SwapsOnlyWhenSentTogether
    BY DEF OrderSound, SendsOverlap, OutOverlaps, WireOverlaps
  <1> QED BY <1>2, <1>4, <1>5, <1>6, <1>7 DEF Ordered

LEMMA OrderedTo ==
  ASSUME NEW CONSTANT own, Ordered(own)', \A n : InTransit(n)' => own[n] = Owner(n)' /\ own[n] \in Conn
  PROVE  OrderSound'
  <1>1. /\ \A i \in DOMAIN requests' : own[requests'[i].n] = Owner(requests[i].n)' /\ own[requests'[i].n] \in Conn
        /\ \A i \in DOMAIN replies' : own[replies'[i].n] = Owner(replies[i].n)' /\ own[replies'[i].n] \in Conn
        /\ \A m \in sending' : own[m] = Owner(m)'
    BY DEF InTransit, Owner
  <1>2. /\ \A i, j \in DOMAIN requests' : i < j /\ Owner(requests[i].n)' = Owner(requests[j].n)'
              => requests'[i].n < requests'[j].n
        /\ \A i, j \in DOMAIN replies' : i < j /\ Owner(replies[i].n)' = Owner(replies[j].n)'
              => replies'[i].n < replies'[j].n
        /\ \A i \in DOMAIN replies', j \in DOMAIN requests' :
              Owner(replies[i].n)' = Owner(requests[j].n)' => replies'[i].n < requests'[j].n
    BY <1>1 DEF Ordered, RequestsOrdered, RepliesOrdered, RepliesFirst
  <1>3. ASSUME NEW n, own[n] = Owner(n)', own[n] \in Conn, Behind(own, n)' PROVE After(n)'
    BY <1>1, <1>3 DEF After, Behind, Reached
  <1>4. ASSUME NEW i \in DOMAIN requests' PROVE After(requests[i].n)'
    <2>1. PICK n : n = requests'[i].n
      OBVIOUS
    <2>2. Behind(own, n)' /\ own[n] = Owner(n)' /\ own[n] \in Conn
      BY <1>1, <2>1 DEF Ordered, RequestsBehind, Behind, Owner
    <2>3. After(n)'
      BY <1>3, <2>2
    <2> QED BY <2>1, <2>3 DEF After, Owner
  <1>5. ASSUME NEW i \in DOMAIN replies' PROVE After(replies[i].n)'
    <2>1. PICK n : n = replies'[i].n
      OBVIOUS
    <2>2. Behind(own, n)' /\ own[n] = Owner(n)' /\ own[n] \in Conn
      BY <1>1, <2>1 DEF Ordered, RepliesBehind, Behind, Owner
    <2>3. After(n)'
      BY <1>3, <2>2
    <2> QED BY <2>1, <2>3 DEF After, Owner
  <1>6. \A c \in Conn : \A e \in ToSet(out'[c]) \cup ToSet(wire'[c]), m \in sending' :
            e.what = "reply" /\ Owner(m)' = c /\ e.n > m => {e.n, m} \in overlap'
    BY <1>1 DEF Ordered, OvertakesOverlap, Reached
  <1>7. (SendsOverlap /\ OutOverlaps /\ WireOverlaps /\ SwapsOnlyWhenSentTogether)'
    BY DEF Ordered
  <1> QED BY <1>2, <1>4, <1>5, <1>6, <1>7 DEF OrderSound, SendsOverlap, OutOverlaps, WireOverlaps

\* Pongs and TERMINATE_RESPs are no replies.
LEMMA PutsOrdered ==
  ASSUME NEW CONSTANT own, Types, Ordered(own), NEW c \in Conn, NEW e, PutsOther(c, e)
  PROVE  Ordered(own)'
  <1>1. /\ UNCHANGED <<requests, replies, sending, overlap, wire>> /\ e.what # "reply"
        /\ \A d \in Conn \ {c} : out'[d] = out[d]
        /\ ToSet(out'[c]) = ToSet(out[c]) \cup {e}
        /\ Len(out[c]) \in Nat
        /\ DOMAIN out[c] = 1 .. Len(out[c]) /\ DOMAIN out'[c] = 1 .. Len(out[c]) + 1
        /\ \A i \in DOMAIN out[c] : out'[c][i] = out[c][i]
        /\ out'[c][Len(out[c]) + 1] = e
    BY PutFacts DEF PutsOther
  <1>2. \A d \in Conn : \A u \in Reached(d)' : u.what = "reply" => u \in Reached(d)
    BY <1>1 DEF Reached
  <1>3. (RequestsOrdered(own) /\ RepliesOrdered(own) /\ RepliesFirst(own))'
    BY <1>1 DEF Ordered, RequestsOrdered, RepliesOrdered, RepliesFirst
  <1>4. ASSUME NEW n, Behind(own, n) PROVE Behind(own, n)'
    BY <1>1, <1>2, <1>4 DEF Behind
  <1>5. (RequestsBehind(own) /\ RepliesBehind(own))'
    BY <1>1, <1>4 DEF Ordered, RequestsBehind, RepliesBehind, Behind
  <1>6. (SendsOverlap /\ OvertakesOverlap(own) /\ SwapsOnlyWhenSentTogether)'
    BY <1>1, <1>2 DEF Ordered, SendsOverlap, OvertakesOverlap, SwapsOnlyWhenSentTogether
  <1>7. OutOverlaps'
    <2>1. ASSUME NEW d \in Conn, NEW i \in DOMAIN out'[d], NEW j \in DOMAIN out'[d], i < j,
                 OutOfOrder(out'[d][i], out'[d][j])
          PROVE  {out'[d][i].n, out'[d][j].n} \in overlap'
      <3>1. i \in DOMAIN out[d] /\ j \in DOMAIN out[d] /\ out'[d][i] = out[d][i] /\ out'[d][j] = out[d][j]
        <4>1. CASE d = c
          <5>1. j # Len(out[c]) + 1
            BY <1>1, <2>1, <4>1 DEF OutOfOrder
          <5>2. j \in DOMAIN out[c] /\ i \in DOMAIN out[c]
            BY <1>1, <2>1, <4>1, <5>1
          <5> QED BY <1>1, <4>1, <5>2
        <4>2. CASE d # c
          BY <1>1, <4>2
        <4> QED BY <4>1, <4>2
      <3> QED BY <1>1, <2>1, <3>1 DEF Ordered, OutOverlaps
    <2> QED BY <2>1 DEF OutOverlaps
  <1>8. WireOverlaps'
    BY <1>1 DEF Ordered, WireOverlaps, OutOfOrder
  <1> QED BY <1>3, <1>5, <1>6, <1>7, <1>8 DEF Ordered

\* The oldest frame is written.
LEMMA WritesOrdered ==
  ASSUME NEW CONSTANT own, Types, Ordered(own), NEW c \in Conn, Writes(c)
  PROVE  Ordered(own)'
  <1>1. /\ UNCHANGED <<requests, replies, sending, overlap>>
        /\ \A d \in Conn \ {c} : out'[d] = out[d] /\ wire'[d] = wire[d]
        /\ 1 \in DOMAIN out[c] /\ Head(out[c]) = out[c][1]
        /\ ToSet(out[c]) = ToSet(out'[c]) \cup {Head(out[c])}
        /\ \A i \in DOMAIN out'[c] : i \in Nat /\ i + 1 \in DOMAIN out[c] /\ out'[c][i] = out[c][i + 1]
        /\ ToSet(wire'[c]) = ToSet(wire[c]) \cup {Head(out[c])}
        /\ DOMAIN wire[c] = 1 .. Len(wire[c]) /\ DOMAIN wire'[c] = 1 .. Len(wire[c]) + 1
        /\ Len(wire[c]) \in Nat
        /\ \A i \in DOMAIN wire[c] : wire'[c][i] = wire[c][i]
        /\ wire'[c][Len(wire[c]) + 1] = Head(out[c])
    BY WriteFacts DEF Writes
  <1>2. \A d \in Conn : Reached(d)' = Reached(d)
    BY <1>1 DEF Reached
  <1>3. (RequestsOrdered(own) /\ RepliesOrdered(own) /\ RepliesFirst(own))'
    BY <1>1 DEF Ordered, RequestsOrdered, RepliesOrdered, RepliesFirst
  <1>4. ASSUME NEW n, Behind(own, n) PROVE Behind(own, n)'
    BY <1>1, <1>2, <1>4 DEF Behind
  <1>5. (RequestsBehind(own) /\ RepliesBehind(own))'
    BY <1>1, <1>4 DEF Ordered, RequestsBehind, RepliesBehind, Behind
  <1>6. SendsOverlap'
    BY <1>1 DEF Ordered, SendsOverlap
  <1>10. OvertakesOverlap(own)'
    <2>1. UNCHANGED <<sending, overlap>>
      BY <1>1
    <2> QED BY <1>2, <2>1 DEF Ordered, OvertakesOverlap
  <1>7. OutOverlaps'
    <2>1. ASSUME NEW i \in DOMAIN out'[c], NEW j \in DOMAIN out'[c], i < j,
                 OutOfOrder(out'[c][i], out'[c][j])
          PROVE  {out'[c][i].n, out'[c][j].n} \in overlap'
      <3>1. i + 1 \in DOMAIN out[c] /\ j + 1 \in DOMAIN out[c] /\ i + 1 < j + 1
        BY <1>1, <2>1
      <3>2. out'[c][i] = out[c][i + 1] /\ out'[c][j] = out[c][j + 1]
        BY <1>1
      <3> QED BY <1>1, <2>1, <3>1, <3>2 DEF Ordered, OutOverlaps
    <2> QED BY <1>1, <2>1 DEF Ordered, OutOverlaps
  <1>8. WireOverlaps'
    <2>1. ASSUME NEW b \in ToSet(out'[c]), OutOfOrder(Head(out[c]), b)
          PROVE  {Head(out[c]).n, b.n} \in overlap
      <3>1. PICK i \in DOMAIN out'[c] : b = out'[c][i]
        BY <2>1 DEF ToSet
      <3>2. i + 1 \in DOMAIN out[c] /\ b = out[c][i + 1] /\ 1 < i + 1
        <4>1. i > 0
          <5>1. out' \in [Conn -> Seq(Items)]
            BY WriteFacts
          <5>2. out'[c] \in Seq(Items)
            BY <5>1
          <5>3. DOMAIN out'[c] = 1 .. Len(out'[c])
            BY <5>2
          <5> QED BY <5>3
        <4> QED BY <1>1, <3>1, <4>1
      <3> QED BY <1>1, <2>1, <3>2 DEF Ordered, OutOverlaps
    <2>2. ASSUME NEW a \in ToSet(wire'[c]), NEW b \in ToSet(out'[c]), OutOfOrder(a, b)
          PROVE  {a.n, b.n} \in overlap
      BY <1>1, <2>1, <2>2 DEF Ordered, WireOverlaps
    <2> QED BY <1>1, <2>2 DEF Ordered, WireOverlaps
  <1>9. SwapsOnlyWhenSentTogether'
    <2>1. ASSUME NEW i \in DOMAIN wire'[c], NEW j \in DOMAIN wire'[c], i < j,
                 OutOfOrder(wire'[c][i], wire'[c][j])
          PROVE  {wire'[c][i].n, wire'[c][j].n} \in overlap
      <3>1. i \in DOMAIN wire[c] /\ (j \in DOMAIN wire[c] \/ j = Len(wire[c]) + 1)
        BY <1>1, <2>1
      <3>2. wire'[c][i] = wire[c][i] /\ wire[c][i] \in ToSet(wire[c])
        BY <1>1, <3>1 DEF ToSet
      <3>3. CASE j \in DOMAIN wire[c]
        BY <1>1, <2>1, <3>1, <3>2, <3>3 DEF Ordered, SwapsOnlyWhenSentTogether
      <3>4. CASE j = Len(wire[c]) + 1
        <4>1. wire'[c][j] = Head(out[c]) /\ Head(out[c]) \in ToSet(out[c])
          BY <1>1, <3>4
        <4> QED BY <2>1, <3>2, <4>1 DEF Ordered, WireOverlaps
      <3> QED BY <3>1, <3>3, <3>4
    <2> QED BY <1>1, <2>1 DEF Ordered, SwapsOnlyWhenSentTogether
  <1> QED BY <1>3, <1>5, <1>6, <1>7, <1>8, <1>9, <1>10 DEF Ordered

\* A reply is given: those of its connection that were given before are of earlier frames.
LEMMA GivesOrdered ==
  ASSUME NEW CONSTANT own, Types, Ordered(own), NEW c \in Conn, Gives(c), own[at[c].n] = c,
         \A m : InTransit(m) /\ own[m] = c => m < at[c].n,
         \A e \in Reached(c) : e.what = "reply" => own[e.n] = c
  PROVE  Ordered(own)'
  <1> DEFINE n == at[c].n
  <1>1. /\ UNCHANGED <<replies, sending, overlap, out, wire>> /\ n \in Nat
        /\ \A i \in DOMAIN requests' :
              \/ i \in DOMAIN requests /\ requests'[i] = requests[i]
              \/ i = Len(requests) + 1 /\ requests'[i].n = n
        /\ DOMAIN requests = 1 .. Len(requests) /\ Len(requests) \in Nat
    BY GiveFacts, ItemTyped DEF Gives
  <1>2. own[n] = c /\ \A m : InTransit(m) /\ own[m] = c => m < n
    OBVIOUS
  <1> HIDE DEF n
  <1>3. /\ \A i \in DOMAIN requests : own[requests[i].n] = c => requests[i].n < n
        /\ \A i \in DOMAIN replies : own[replies[i].n] = c => replies[i].n < n
        /\ \A m \in sending : own[m] = c => m < n
    BY <1>2 DEF InTransit
  <1>4. \A e \in Reached(c) : e.what = "reply" => e.n < n
    BY <1>2 DEF InTransit, Reached
  <1>5. \A d \in Conn : Reached(d)' = Reached(d)
    BY <1>1 DEF Reached
  <1>6. RequestsOrdered(own)'
    <2>1. ASSUME NEW i \in DOMAIN requests', NEW j \in DOMAIN requests', i < j,
                 own[requests'[i].n] = own[requests'[j].n]
          PROVE  requests'[i].n < requests'[j].n
      <3>1. CASE j \in DOMAIN requests /\ requests'[j] = requests[j]
        <4>1. i \in DOMAIN requests /\ requests'[i] = requests[i]
          BY <1>1, <2>1, <3>1
        <4> QED BY <2>1, <3>1, <4>1 DEF Ordered, RequestsOrdered
      <3>2. CASE j = Len(requests) + 1 /\ requests'[j].n = n
        <4>1. i \in DOMAIN requests /\ requests'[i] = requests[i]
          BY <1>1, <2>1, <3>2
        <4> QED BY <1>2, <1>3, <2>1, <3>2, <4>1
      <3> QED BY <1>1, <3>1, <3>2
    <2> QED BY <2>1 DEF RequestsOrdered
  <1>7. (RepliesOrdered(own) /\ SendsOverlap /\ OutOverlaps /\ WireOverlaps /\ SwapsOnlyWhenSentTogether)'
    BY <1>1 DEF Ordered, RepliesOrdered, SendsOverlap, OutOverlaps, WireOverlaps, SwapsOnlyWhenSentTogether
  <1>8. RepliesFirst(own)'
    BY <1>1, <1>2, <1>3 DEF Ordered, RepliesFirst
  <1>9. ASSUME NEW m, Behind(own, m) PROVE Behind(own, m)'
    BY <1>1, <1>5, <1>9 DEF Behind
  <1>10. RepliesBehind(own)'
    BY <1>1, <1>9 DEF Ordered, RepliesBehind, Behind
  <1>11. OvertakesOverlap(own)'
    BY <1>1, <1>5 DEF Ordered, OvertakesOverlap
  <1>13. RequestsBehind(own)'
    <2>1. ASSUME NEW i \in DOMAIN requests' PROVE Behind(own, requests[i].n)'
      <3>1. CASE i \in DOMAIN requests /\ requests'[i] = requests[i]
        <4>1. PICK m : m = requests[i].n
          OBVIOUS
        <4>2. Behind(own, m)'
          BY <1>9, <3>1, <4>1 DEF Ordered, RequestsBehind
        <4> QED BY <3>1, <4>1, <4>2 DEF Behind
      <3>2. CASE requests'[i].n = n
        <4>1. PICK m : m = n
          OBVIOUS
        <4>2. Behind(own, m)'
          BY <1>1, <1>2, <1>3, <1>4, <1>5, <4>1 DEF Behind
        <4> QED BY <3>2, <4>1, <4>2 DEF Behind
      <3> QED BY <1>1, <3>1, <3>2
    <2> QED BY <2>1 DEF RequestsBehind
  <1> QED BY <1>6, <1>7, <1>8, <1>10, <1>11, <1>13 DEF Ordered

\* The oldest reply goes from the first channel to the second.
LEMMA ForwardsOrdered ==
  ASSUME NEW CONSTANT own, Types, Ordered(own), Forwards
  PROVE  Ordered(own)'
  <1>1. /\ UNCHANGED <<sending, overlap, out, wire>> /\ 1 \in DOMAIN requests
        /\ DOMAIN replies = 1 .. Len(replies) /\ Len(replies) \in Nat
        /\ \A i \in DOMAIN requests' :
              i \in Nat /\ i > 0 /\ i + 1 \in DOMAIN requests /\ requests'[i] = requests[i + 1]
        /\ \A i \in DOMAIN replies' :
              \/ i \in DOMAIN replies /\ replies'[i] = replies[i]
              \/ i = Len(replies) + 1 /\ replies'[i] = requests[1]
    BY ForwardFacts DEF Forwards
  <1>2. \A d \in Conn : Reached(d)' = Reached(d)
    BY <1>1 DEF Reached
  <1>3. (SendsOverlap /\ OutOverlaps /\ WireOverlaps /\ SwapsOnlyWhenSentTogether)'
    BY <1>1 DEF Ordered, SendsOverlap, OutOverlaps, WireOverlaps, SwapsOnlyWhenSentTogether
  <1>4. OvertakesOverlap(own)'
    BY <1>1, <1>2, SMT DEF Ordered, OvertakesOverlap
  <1>5. ASSUME NEW i \in DOMAIN requests', NEW j \in DOMAIN requests', i < j,
               own[requests'[i].n] = own[requests'[j].n]
        PROVE  requests'[i].n < requests'[j].n
    <2>1. i + 1 < j + 1
      BY <1>1, <1>5
    <2> QED BY <1>1, <1>5, <2>1 DEF Ordered, RequestsOrdered
  <1>6. ASSUME NEW i \in DOMAIN requests', own[requests[1].n] = own[requests'[i].n]
        PROVE  requests[1].n < requests'[i].n
    <2>1. 1 < i + 1
      BY <1>1
    <2> QED BY <1>1, <1>6, <2>1 DEF Ordered, RequestsOrdered
  <1>7. ASSUME NEW i \in DOMAIN replies', NEW j \in DOMAIN replies', i < j,
               own[replies'[i].n] = own[replies'[j].n]
        PROVE  replies'[i].n < replies'[j].n
    <2>1. i \in DOMAIN replies /\ replies'[i] = replies[i]
      BY <1>1, <1>7
    <2>2. CASE j \in DOMAIN replies /\ replies'[j] = replies[j]
      BY <1>7, <2>1, <2>2 DEF Ordered, RepliesOrdered
    <2>3. CASE replies'[j] = requests[1]
      BY <1>1, <1>7, <2>1, <2>3 DEF Ordered, RepliesFirst
    <2> QED BY <1>1, <2>2, <2>3
  <1>8. ASSUME NEW i \in DOMAIN replies', NEW j \in DOMAIN requests',
               own[replies'[i].n] = own[requests'[j].n]
        PROVE  replies'[i].n < requests'[j].n
    <2>1. CASE i \in DOMAIN replies /\ replies'[i] = replies[i]
      BY <1>1, <1>8, <2>1 DEF Ordered, RepliesFirst
    <2>2. CASE replies'[i] = requests[1]
      BY <1>6, <1>8, <2>2
    <2> QED BY <1>1, <2>1, <2>2
  <1>9. ASSUME NEW n, Behind(own, n) PROVE Behind(own, n)'
    BY <1>1, <1>2, <1>9 DEF Behind
  <1>10. ASSUME NEW i \in DOMAIN requests' PROVE Behind(own, requests[i].n)'
    <2>1. PICK m : m = requests'[i].n
      OBVIOUS
    <2>2. Behind(own, m)'
      BY <1>1, <1>9, <2>1 DEF Ordered, RequestsBehind
    <2> QED BY <2>1, <2>2 DEF Behind
  <1>11. ASSUME NEW i \in DOMAIN replies' PROVE Behind(own, replies[i].n)'
    <2>1. PICK m : m = replies'[i].n
      OBVIOUS
    <2>2. Behind(own, m)
      BY <1>1, <2>1 DEF Ordered, RequestsBehind, RepliesBehind
    <2> QED BY <1>9, <2>1, <2>2 DEF Behind
  <1> QED BY <1>3, <1>4, <1>5, <1>7, <1>8, <1>10, <1>11
          DEF Ordered, RequestsOrdered, RepliesOrdered, RepliesFirst, RequestsBehind, RepliesBehind

\* The oldest reply of the second channel is dropped or sent.
LEMMA RoutesOrdered ==
  ASSUME NEW CONSTANT own, Types, Ordered(own), Routes,
         \A m : InTransit(m) => m \in Nat
  PROVE  Ordered(own)'
  <1> DEFINE n == replies[1].n
  <1>1. /\ UNCHANGED <<requests, out, wire>> /\ 1 \in DOMAIN replies
        /\ \A i \in DOMAIN replies' :
              i \in Nat /\ i > 0 /\ i + 1 \in DOMAIN replies /\ replies'[i] = replies[i + 1]
        /\ \/ UNCHANGED <<sending, overlap>>
           \/ sending' = sending \cup {n} /\ overlap' = overlap \cup {{n, m} : m \in sending}
        /\ n \in Nat
    BY RouteFacts DEF Routes
  <1>2. \A d \in Conn : Reached(d)' = Reached(d)
    BY <1>1 DEF Reached
  <1>3. /\ overlap \subseteq overlap'
        /\ \A m \in sending' : m \in sending \/ (m = n /\ \A k \in sending : {n, k} \in overlap')
    BY <1>1
  <1>4. Behind(own, n)
    BY <1>1 DEF Ordered, RepliesBehind
  <1>5. /\ \A i \in DOMAIN replies' : own[n] = own[replies'[i].n] => n < replies'[i].n
        /\ \A i \in DOMAIN requests : own[n] = own[requests[i].n] => n < requests[i].n
    <2>1. ASSUME NEW i \in DOMAIN replies', own[n] = own[replies'[i].n] PROVE n < replies'[i].n
      <3>1. 1 < i + 1
        BY <1>1
      <3> QED BY <1>1, <2>1, <3>1 DEF Ordered, RepliesOrdered
    <2> QED BY <1>1, <2>1 DEF Ordered, RepliesFirst
  <1>6. \A d \in Conn : \A e \in Reached(d) : e.what = "reply" => e.n \in Nat
    BY DEF InTransit, Reached
  <1> HIDE DEF n
  <1>7. ASSUME NEW m, Behind(own, m), own[n] = own[m] => n < m PROVE Behind(own, m)'
    BY <1>2, <1>3, <1>7 DEF Behind
  <1>8. (OutOverlaps /\ WireOverlaps /\ SwapsOnlyWhenSentTogether)'
    BY <1>1, <1>3 DEF Ordered, OutOverlaps, WireOverlaps, SwapsOnlyWhenSentTogether
  <1>9. (RequestsOrdered(own))'
    BY <1>1 DEF Ordered, RequestsOrdered
  <1>10. RepliesOrdered(own)'
    <2>1. ASSUME NEW i \in DOMAIN replies', NEW j \in DOMAIN replies', i < j,
                 own[replies'[i].n] = own[replies'[j].n]
          PROVE  replies'[i].n < replies'[j].n
      <3>1. i + 1 < j + 1
        BY <1>1, <2>1
      <3> QED BY <1>1, <2>1, <3>1 DEF Ordered, RepliesOrdered
    <2> QED BY <2>1 DEF RepliesOrdered
  <1>11. RepliesFirst(own)'
    BY <1>1 DEF Ordered, RepliesFirst
  <1>12. ASSUME NEW i \in DOMAIN requests' PROVE Behind(own, requests[i].n)'
    <2>1. PICK m : m = requests[i].n
      OBVIOUS
    <2>2. Behind(own, m)'
      BY <1>1, <1>5, <1>7, <2>1 DEF Ordered, RequestsBehind
    <2> QED BY <1>1, <2>1, <2>2 DEF Behind
  <1>13. ASSUME NEW i \in DOMAIN replies' PROVE Behind(own, replies[i].n)'
    <2>1. PICK m : m = replies'[i].n
      OBVIOUS
    <2>2. Behind(own, m)'
      BY <1>1, <1>5, <1>7, <2>1 DEF Ordered, RepliesBehind
    <2> QED BY <2>1, <2>2 DEF Behind
  <1>14. SendsOverlap'
    <2>1. ASSUME NEW k \in sending', NEW m \in sending', k # m PROVE {k, m} \in overlap'
      <3>1. {k, m} = {m, k}
        OBVIOUS
      <3> QED BY <1>3, <2>1, <3>1 DEF Ordered, SendsOverlap
    <2> QED BY <2>1 DEF SendsOverlap
  <1>15. OvertakesOverlap(own)'
    <2>1. ASSUME NEW d \in Conn, NEW e \in Reached(d), NEW m \in sending', e.what = "reply", own[m] = d, e.n > m
          PROVE  {e.n, m} \in overlap'
      <3>1. CASE m \in sending
        BY <1>3, <2>1, <3>1 DEF Ordered, OvertakesOverlap
      <3>2. CASE m \notin sending
        <4>1. m = n
          BY <1>3, <3>2
        <4>2. e.n < n /\ e.n \in Nat
          BY <1>4, <1>6, <2>1, <4>1 DEF Behind
        <4> QED BY <1>1, <2>1, <4>1, <4>2
      <3> QED BY <3>1, <3>2
    <2> QED BY <1>2, <2>1 DEF OvertakesOverlap
  <1> QED BY <1>8, <1>9, <1>10, <1>11, <1>12, <1>13, <1>14, <1>15
          DEF Ordered, RequestsBehind, RepliesBehind

\* A reply that was sent is put into the write channel, or given up.
LEMMA SendsOffOrdered ==
  ASSUME NEW CONSTANT own, Types, Ordered(own), NEW c \in Conn, NEW n \in Nat, c = Owner(n), own[n] = c, SendsOff(n)
  PROVE  Ordered(own)'
  <1>1. n \in sending /\ sending' = sending \ {n} /\ UNCHANGED <<requests, replies, overlap, wire>>
    BY DEF SendsOff
  <1>2. /\ \A d \in Conn \ {c} : out'[d] = out[d]
        /\ \/ out'[c] = out[c]
           \/ /\ ToSet(out'[c]) = ToSet(out[c]) \cup {Item("reply", n)}
              /\ DOMAIN out[c] = 1 .. Len(out[c]) /\ DOMAIN out'[c] = 1 .. Len(out[c]) + 1
              /\ Len(out[c]) \in Nat
              /\ \A i \in DOMAIN out[c] : out'[c][i] = out[c][i]
              /\ out'[c][Len(out[c]) + 1] = Item("reply", n)
    <2>1. CASE UNCHANGED out
      BY <2>1
    <2>2. CASE Puts(c, Item("reply", n))
      BY <2>2, PutFacts
    <2> QED BY <2>1, <2>2 DEF SendsOff
  <1>3. Item("reply", n).n = n /\ Item("reply", n).what = "reply"
    BY ItemTyped
  <1>4. \A d \in Conn : \A e \in Reached(d)' : e \in Reached(d) \/ (d = c /\ e.n = n)
    BY <1>1, <1>2, <1>3 DEF Reached
  <1>5. ASSUME NEW x, Behind(own, x) PROVE Behind(own, x)'
    BY <1>1, <1>4, <1>5 DEF Behind
  <1>6. (RequestsOrdered(own) /\ RepliesOrdered(own) /\ RepliesFirst(own))'
    BY <1>1 DEF Ordered, RequestsOrdered, RepliesOrdered, RepliesFirst
  <1>7. (RequestsBehind(own) /\ RepliesBehind(own))'
    BY <1>1, <1>5 DEF Ordered, RequestsBehind, RepliesBehind, Behind
  <1>8. (SendsOverlap /\ SwapsOnlyWhenSentTogether)'
    BY <1>1 DEF Ordered, SendsOverlap, SwapsOnlyWhenSentTogether
  <1>9. OvertakesOverlap(own)'
    <2>1. ASSUME NEW d \in Conn, NEW e \in Reached(d)', NEW m \in sending', e.what = "reply", own[m] = d, e.n > m
          PROVE  {e.n, m} \in overlap
      <3>1. m \in sending /\ m # n
        BY <1>1, <2>1
      <3>2. CASE e \in Reached(d)
        BY <2>1, <3>1, <3>2 DEF Ordered, OvertakesOverlap
      <3>3. CASE e.n = n
        BY <1>1, <3>1, <3>3 DEF Ordered, SendsOverlap
      <3> QED BY <1>4, <3>2, <3>3
    <2> QED BY <1>1, <2>1 DEF OvertakesOverlap
  <1>10. ASSUME NEW a, a \in Reached(c), a.what = "reply", a.n > n PROVE {a.n, n} \in overlap
    BY <1>1, <1>10 DEF Ordered, OvertakesOverlap
  <1>11. OutOverlaps'
    <2>1. ASSUME NEW i \in DOMAIN out'[c], NEW j \in DOMAIN out'[c], i < j,
                 OutOfOrder(out'[c][i], out'[c][j])
          PROVE  {out'[c][i].n, out'[c][j].n} \in overlap
      <3>1. CASE out'[c] = out[c]
        BY <2>1, <3>1 DEF Ordered, OutOverlaps
      <3>2. CASE out'[c] # out[c]
        <4>1. i \in DOMAIN out[c] /\ out'[c][i] = out[c][i]
          BY <1>2, <2>1, <3>2
        <4>2. \/ j \in DOMAIN out[c] /\ out'[c][j] = out[c][j]
              \/ out'[c][j].n = n
          BY <1>2, <1>3, <2>1, <3>2
        <4>3. CASE j \in DOMAIN out[c] /\ out'[c][j] = out[c][j]
          BY <2>1, <4>1, <4>3 DEF Ordered, OutOverlaps
        <4>4. CASE out'[c][j].n = n
          <5>1. out[c][i] \in Reached(c)
            BY <4>1 DEF Reached, ToSet
          <5> QED BY <1>10, <2>1, <4>1, <4>4, <5>1 DEF OutOfOrder
        <4> QED BY <4>2, <4>3, <4>4
      <3> QED BY <3>1, <3>2
    <2> QED BY <1>1, <1>2, <2>1 DEF Ordered, OutOverlaps
  <1>12. WireOverlaps'
    <2>1. ASSUME NEW d \in Conn, NEW a \in ToSet(wire[d]), NEW b \in ToSet(out'[d]), OutOfOrder(a, b)
          PROVE  {a.n, b.n} \in overlap
      <3>1. b \in ToSet(out[d]) \/ (d = c /\ b.n = n)
        BY <1>2, <1>3
      <3>2. CASE b \in ToSet(out[d])
        BY <2>1, <3>2 DEF Ordered, WireOverlaps
      <3>3. CASE d = c /\ b.n = n
        BY <1>10, <2>1, <3>3 DEF OutOfOrder, Reached
      <3> QED BY <3>1, <3>2, <3>3
    <2> QED BY <1>1, <2>1 DEF WireOverlaps
  <1> QED BY <1>6, <1>7, <1>8, <1>9, <1>11, <1>12 DEF Ordered

LEMMA NextOrderSound ==
  ASSUME Types, InputSound, RouteSound, OrderSound, Next
  PROVE  OrderSound'
  <1>1. Stable /\ ReplyStep /\ RouteSound'
    BY NextStable, NextReplies, NextRouteSound
  <1>2. PICK own : own = [n \in Frames |-> Owner(n)]
    OBVIOUS
  <1>3. /\ \A n : InTransit(n) => Gone(n)
        /\ \A c \in Conn : \A e \in Reached(c) : e.what = "reply" => Owner(e.n) = c
    BY TransitGone
  <1>4. \A n \in Frames : own[n] = Owner(n) /\ own[n] \in Conn /\ n \in Nat /\ Owner(n)' = own[n]
    BY <1>1, <1>2 DEF Stable
  <1>5. \A n : InTransit(n) => n \in Frames
    BY <1>3 DEF Gone
  <1>6. Ordered(own)
    BY <1>4, <1>5, OrderedFrom
  <1>7. ASSUME NEW n, InTransit(n)' PROVE n \in Frames
    <2>1. ASSUME NEW c \in Conn, Gives(c), n = at[c].n PROVE n \in Frames
      BY <2>1 DEF Gives, InputSound
    <2> QED BY <1>5, <1>7, <2>1, NextTransit
  <1>8. ASSUME NEW c \in Conn, Gives(c)
        PROVE  /\ own[at[c].n] = c /\ \A m : InTransit(m) /\ own[m] = c => m < at[c].n
               /\ \A e \in Reached(c) : e.what = "reply" => own[e.n] = c
    <2>1. at[c].n \in Frames /\ Owner(at[c].n) = c /\ at[c].n \in Ungiven(c)
      BY <1>8 DEF Gives, InputSound, Ungiven
    <2>2. ASSUME NEW m, InTransit(m), own[m] = c PROVE m < at[c].n
      <3>1. Gone(m) /\ Owner(m) = c
        BY <1>3, <1>4, <1>5, <2>2
      <3> QED BY <2>1, <3>1 DEF Gone
    <2>3. ASSUME NEW e \in Reached(c), e.what = "reply" PROVE own[e.n] = c
      <3>1. InTransit(e.n) /\ Owner(e.n) = c
        BY <1>3, <2>3 DEF InTransit, Reached
      <3> QED BY <1>4, <1>5, <3>1
    <2> QED BY <1>4, <2>1, <2>2, <2>3
  <1>9. Ordered(own)'
    <2>1. CASE UNCHANGED <<requests, replies, sending, overlap, out, wire>>
      BY <1>6, <2>1 DEF Ordered, RequestsOrdered, RepliesOrdered, RepliesFirst, RequestsBehind, RepliesBehind,
           Behind, Reached, SendsOverlap, OvertakesOverlap, OutOverlaps, WireOverlaps, SwapsOnlyWhenSentTogether
    <2>2. ASSUME NEW c \in Conn, NEW e \in Items, PutsOther(c, e) PROVE Ordered(own)'
      BY <1>6, <2>2, PutsOrdered
    <2>3. ASSUME NEW c \in Conn, Writes(c) PROVE Ordered(own)'
      BY <1>6, <2>3, WritesOrdered
    <2>4. ASSUME NEW c \in Conn, Gives(c) PROVE Ordered(own)'
      BY <1>6, <1>8, <2>4, GivesOrdered
    <2>5. CASE Forwards
      BY <1>6, <2>5, ForwardsOrdered
    <2>6. CASE Routes
      BY <1>4, <1>5, <1>6, <2>6, RoutesOrdered
    <2>7. ASSUME NEW n \in Frames, SendsOff(n) PROVE Ordered(own)'
      <3>1. PICK c \in Conn : c = Owner(n)
        BY <1>4
      <3> QED BY <1>4, <1>6, <2>7, <3>1, SendsOffOrdered
    <2> QED BY <1>1, <2>1, <2>2, <2>3, <2>4, <2>5, <2>6, <2>7 DEF ReplyStep
  <1>10. \A n : InTransit(n)' => own[n] = Owner(n)' /\ own[n] \in Conn
    BY <1>4, <1>7
  <1> QED BY <1>9, <1>10, OrderedTo

-----------------------------------------------------------------------------
(* TERMINATE is remembered *)

\* Who forgets a command: a later command, an error, and a frame that is written.
Keeps(c) == \/ pending'[c] = pending[c] /\ ~Write(c)
            \/ TakeCommand(c)
            \/ at[c].pc = "error" /\ UNCHANGED <<frame, socket, buf>>

LEMMA NextKeeps ==
  ASSUME Types, Next, NEW d \in Conn
  PROVE  Keeps(d) \/ (Write(d) /\ UNCHANGED made)
  <1>0. pending \in [Conn -> Kinds \cup {None}]
    BY DEF Types, TaskTypes
  <1>1. ASSUME UNCHANGED pending, ~Write(d) PROVE Keeps(d)
    BY <1>1 DEF Keeps
  <1>2. ASSUME NEW c \in Conn, Inner(c), ~Write(d) PROVE Keeps(d)
    <2>1. CASE HandleError(c)
      <3>1. at[c].pc = "error" /\ UNCHANGED <<frame, socket, buf>>
        BY <2>1 DEF HandleError, input
      <3>2. d # c => pending'[d] = pending[d]
        BY <1>0, <2>1 DEF HandleError
      <3> QED BY <1>2, <3>1, <3>2 DEF Keeps
    <2>2. CASE \/ Accept(c) \/ Setup(c) \/ PreTimeout(c) \/ Config(c) \/ BufferDone(c) \/ Acquire(c)
               \/ StartWrite(c)
      BY <1>1, <1>2, <2>2 DEF Accept, Setup, PreTimeout, Config, BufferDone, Acquire, StartWrite
    <2>3. CASE HandlerFails(c) \/ LeaveActive(c) \/ Eof(c) \/ HandshakeTimeout(c)
      BY <1>1, <1>2, <2>3 DEF HandlerFails, LeaveActive, Eof, HandshakeTimeout
    <2>4. ASSUME NEW n \in Frames, Reject(c, n) PROVE Keeps(d)
      BY <1>1, <1>2, <2>4 DEF Reject
    <2> QED BY <1>2, <2>1, <2>2, <2>3, <2>4 DEF Inner
  <1>3. ASSUME NEW c \in Conn, Reading(c), ~Write(d) PROVE Keeps(d)
    <2>1. CASE TakeCommand(c)
      <3>1. d # c => pending'[d] = pending[d]
        BY <1>0, <2>1 DEF TakeCommand
      <3> QED BY <1>3, <2>1, <3>1 DEF Keeps
    <2>2. CASE SendFrame(c) \/ PreRead(c) \/ PreFront(c) \/ MainRead(c) \/ MainTimeout(c)
      BY <1>1, <1>3, <2>2 DEF SendFrame, PreRead, PreFront, MainRead, MainTimeout, task
    <2>3. CASE TakePing(c) \/ TakeLength(c) \/ TakeUnusable(c)
      BY <1>1, <1>3, <2>3 DEF TakePing, TakeLength, TakeUnusable
    <2> QED BY <1>3, <2>1, <2>2, <2>3 DEF Reading
  <1>4. ASSUME NEW c \in Conn, TellRouter(c) \/ \E n \in Frames : Handling(c, n), ~Write(d) PROVE Keeps(d)
    BY <1>1, <1>4, TellRouterLeaves, HandlingLeaves
  <1>5. ASSUME Blocking \/ \E n \in Frames : Auditing(n), ~Write(d) PROVE Keeps(d)
    BY <1>1, <1>5, BlockingLeaves, AuditingLeaves
  <1>6. ASSUME Replying, ~Write(d) PROVE Keeps(d)
    <2>1. ASSUME NEW c \in Conn, Write(c) PROVE Keeps(d)
      <3>1. d # c
        BY <1>6, <2>1
      <3>2. pending'[d] = pending[d]
        BY <1>0, <2>1, <3>1 DEF Write, Written
      <3> QED BY <1>6, <3>2 DEF Keeps
    <2>2. ASSUME NEW c \in Conn, Pong(c) \/ Give(c) PROVE Keeps(d)
      BY <1>1, <1>6, <2>2 DEF Pong, Give
    <2>3. CASE Forward \/ RouteReply \/ RouteClosed
      BY <1>1, <1>6, <2>3 DEF Forward, RouteReply, RouteClosed, task
    <2>4. ASSUME NEW n \in Frames, SendReply(n) PROVE Keeps(d)
      BY <1>1, <1>6, <2>4 DEF SendReply, task
    <2>5. ASSUME NEW e \in terms, SendTerminate(e) PROVE Keeps(d)
      BY <1>1, <1>6, <2>5 DEF SendTerminate, task
    <2> QED BY <1>6, <2>1, <2>2, <2>3, <2>4, <2>5 DEF Replying
  <1>7. CASE Write(d)
    BY <1>7 DEF Write
  <1> QED BY <1>2, <1>3, <1>4, <1>5, <1>6, <1>7, NextSplit

\* What c has written grows only by the first frame of its channel.
LEMMA NextWire ==
  ASSUME Types, Next, NEW d \in Conn
  PROVE  \/ ToSet(wire'[d]) = ToSet(wire[d]) /\ ~Write(d)
         \/ Write(d) /\ ToSet(wire'[d]) \subseteq Reached(d)
  <1>1. CASE Write(d)
    <2>1. Writes(d)
      BY <1>1 DEF Write, Writes, router
    <2>2. ToSet(wire'[d]) = ToSet(wire[d]) \cup {Head(out[d])} /\ Head(out[d]) \in ToSet(out[d])
      BY <2>1, WriteFacts
    <2> QED BY <1>1, <2>2 DEF Reached
  <1>2. CASE ~Write(d)
    <2>0. wire \in [Conn -> Seq(Items)]
      BY DEF Types, ReplyTypes
    <2>1. CASE Replying
      <3>1. ASSUME NEW c \in Conn, Write(c) PROVE wire'[d] = wire[d]
        BY <1>2, <2>0, <3>1 DEF Write
      <3>2. ASSUME NEW c \in Conn, Pong(c) \/ Give(c) PROVE wire' = wire
        BY <3>2 DEF Pong, Give, history
      <3>3. ASSUME Forward \/ RouteReply \/ RouteClosed PROVE wire' = wire
        BY <3>3 DEF Forward, RouteReply, RouteClosed, history
      <3>4. ASSUME NEW n \in Frames, SendReply(n) PROVE wire' = wire
        BY <3>4 DEF SendReply
      <3>5. ASSUME NEW e \in terms, SendTerminate(e) PROVE wire' = wire
        BY <3>5 DEF SendTerminate, history
      <3> QED BY <1>2, <2>1, <3>1, <3>2, <3>3, <3>4, <3>5 DEF Replying
    <2>2. CASE ~Replying
      <3>1. wire' = wire
        BY <2>2, NextSplit, InnerLeaves, ReadingLeaves, TellRouterLeaves, HandlingLeaves, AuditingLeaves, BlockingLeaves
      <3> QED BY <1>2, <3>1
    <2> QED BY <2>1, <2>2
  <1> QED BY <1>1, <1>2

\* A connection that has frames and is open after a step was open before it.
LEMMA WasOpen ==
  ASSUME Types, LifeSound, Stable, Places', NEW n \in Frames, Open(Owner(n))'
  PROVE  Open(Owner(n)) /\ ~Ended(Owner(n))' /\ Owner(n)' = Owner(n) /\ Owner(n) \in Conn
  <1>1. PICK c \in Conn : c = Owner(n)
    BY DEF Stable
  <1>2. Owner(n)' = c /\ phase[c] # "new" /\ phase[c] \in Phases
    BY <1>1 DEF Stable, LifeSound, Types, Places
  <1>3. Open(c)'
    BY <1>2 DEF Open
  <1>4. ~Ended(c)'
    BY <1>3 DEF Open, Ended
  <1>5. ~Ended(c)
    BY <1>4 DEF Stable
  <1>6. Open(c)
    BY <1>2, <1>5 DEF Phases, Ended, Open
  <1> QED BY <1>1, <1>2, <1>4, <1>6 DEF Ended

\* A frame is overtaken when its connection takes another command, or has an error of one.
LEMMA Overtakes ==
  ASSUME Types, InputSound, Stable, NEW n, Past(n), NEW c \in Conn, c = Owner(n),
         \/ TakeCommand(c)
         \/ at[c].pc = "error" /\ UNCHANGED <<frame, socket, buf>>
  PROVE  Overtaken(n)'
  <1>1. n \in Frames /\ Owner(n)' = c /\ \A m \in Unanswered(c) : n < m
    BY DEF Past, Stable
  <1>2. ASSUME NEW m \in Frames, Owner(m) = c, Kind(m) \in Commands, m \notin Waiting(c)', n < m
        PROVE  Overtaken(n)'
    <2>1. m \in Frames' /\ Owner(m)' = c /\ Kind(m)' \in Commands
      BY <1>2 DEF Stable
    <2>2. m > n
      BY <1>1, <1>2 DEF Stable
    <2> QED BY <1>1, <1>2, <2>1, <2>2 DEF Overtaken
  <1>3. CASE TakeCommand(c)
    <2>1. PICK m : m = at'[c].n
      OBVIOUS
    <2>2. m \in Waiting(c) /\ m \in Frames /\ Owner(m) = c /\ Kind(m) \in Commands /\ m \notin Waiting(c)'
      BY <1>3, <2>1, TakenFirst
    <2>3. n < m
      BY <1>1, <2>2 DEF Unanswered
    <2> QED BY <1>2, <2>2, <2>3
  <1>4. CASE at[c].pc = "error" /\ UNCHANGED <<frame, socket, buf>>
    <2>1. PICK m : m = at[c].n
      OBVIOUS
    <2>2. m \in Frames /\ Owner(m) = c /\ Kind(m) \in Commands /\ \A k \in Waiting(c) : m < k
      BY <1>4, <2>1 DEF InputSound
    <2>3. m \notin Waiting(c)' /\ n < m
      <3>1. m \in Nat
        BY <2>2 DEF Stable
      <3>2. Waiting(c)' = Waiting(c)
        BY <1>4 DEF Waiting
      <3> QED BY <1>1, <1>4, <2>1, <2>2, <3>1, <3>2 DEF Unanswered
    <2> QED BY <1>2, <2>2, <2>3
  <1> QED BY <1>3, <1>4

\* The task of a command that is not answered remembers it.
LEMMA NextRemembers ==
  ASSUME Types, InputSound, PendingSound, Next, NEW c \in Conn, at'[c].pc \in {"permit", "save", "handle"}
  PROVE  pending'[c] = Kind(at[c].n)'
  <1>1. Onward /\ Stable /\ (Keeps(c) \/ Write(c))
    BY NextOnward, NextStable, NextKeeps
  <1>2. CASE TakeCommand(c)
    BY <1>2, TakenFirst DEF Kind
  <1>3. CASE ~TakeCommand(c)
    <2>1. at'[c].n = at[c].n /\ at[c].pc \in {"permit", "save", "handle"}
      BY <1>1, <1>3 DEF Onward, Busy
    <2>2. PICK n : n = at[c].n
      OBVIOUS
    <2>3. n \in Frames /\ pending[c] = Kind(n)
      BY <2>1, <2>2 DEF PendingSound, InputSound
    <2>4. Kind(n)' = Kind(n)
      BY <1>1, <2>3 DEF Stable
    <2>5. pending'[c] = pending[c]
      BY <1>1, <1>3, <2>1 DEF Keeps, Write
    <2> QED BY <2>1, <2>2, <2>3, <2>4, <2>5 DEF Kind
  <1> QED BY <1>2, <1>3

\* The frames that are answered now were answered before, or are the one that c answers.
LEMMA NextMade ==
  ASSUME Types, Next
  PROVE  made' = made \/ \E c \in Conn, n \in Frames : Answers(c, n)
  <1>1. ASSUME NEW c \in Conn, NEW n \in Frames, Saves(c, n) PROVE made' = made
    BY <1>1 DEF Saves
  <1>2. ASSUME NEW n \in Frames, UpdateTolls(n) PROVE made' = made
    BY <1>2 DEF UpdateTolls, history
  <1> QED BY <1>1, <1>2, NextAudit DEF AuditStep

LEMMA NextPendingSound ==
  ASSUME Types, LifeSound, InputSound, RouteSound, PendingSound, Next
  PROVE  PendingSound'
  <1>1. Stable /\ Places' /\ RouteSound' /\ (made' = made \/ \E c \in Conn, n \in Frames : Answers(c, n))
    BY NextStable, NextOnward, NextRouteSound, NextMade DEF Onward
  <1>2. \A c \in Conn : at'[c].pc \in {"permit", "save", "handle"} => pending'[c] = Kind(at[c].n)'
    BY NextRemembers
  <1>3. ASSUME NEW n \in made' PROVE Past(n)' /\ (n \in made \/ \E c \in Conn : n \in Frames /\ Answers(c, n))
    <2>1. CASE n \in made
      BY <1>1, <2>1 DEF PendingSound, Stable
    <2>2. CASE n \notin made
      <3>1. PICK c \in Conn, m \in Frames : Answers(c, m)
        BY <1>1, <2>2
      <3>2. m = n
        BY <2>2, <3>1 DEF Answers
      <3> QED BY <3>1, <3>2, AnsweredPast
    <2> QED BY <2>1, <2>2
  <1>4. ASSUME NEW n \in made' , Kind(n)' = "terminate", Open(Owner(n))'
        PROVE  pending'[Owner(n)'] = "terminate" \/ Overtaken(n)'
    <2>1. CASE n \in made
      <3>1. Past(n) /\ n \in Frames
        BY <2>1 DEF PendingSound, Past
      <3>c. PICK c \in Conn : c = Owner(n)
        BY <1>1, <3>1 DEF Stable
      <3>2. Owner(n)' = c /\ Open(c) /\ ~Ended(c)' /\ Kind(n) = "terminate"
        BY <1>1, <1>4, <3>1, <3>c, WasOpen DEF Stable
      <3>3. CASE Overtaken(n)
        BY <1>1, <3>1, <3>3 DEF Stable
      <3>4. CASE pending[c] = "terminate"
        <4>1. ~Write(c)
          <5>1. Write(c) => phase' = [phase EXCEPT ![c] = "closing"]
            BY <3>4 DEF Write, Written, End
          <5> QED BY <3>2, <5>1 DEF Ended, Types, Places
        <4>2. Keeps(c)
          BY <4>1, NextKeeps
        <4>3. CASE pending'[c] = pending[c]
          BY <3>2, <3>4, <4>3
        <4>4. CASE pending'[c] # pending[c]
          BY <1>1, <3>1, <3>c, <4>2, <4>4, Overtakes DEF Keeps
        <4> QED BY <4>3, <4>4
      <3> QED BY <2>1, <3>2, <3>3, <3>4, <3>c DEF PendingSound
    <2>2. ASSUME NEW c \in Conn, n \in Frames, Answers(c, n) PROVE pending'[Owner(n)'] = "terminate"
      <3>1. Owner(n) = c /\ pending[c] = pending'[c] /\ at[c].pc = "handle" /\ at[c].n = n
        BY <2>2, AnsweredPast
      <3>2. pending[c] = Kind(n) /\ Kind(n)' = Kind(n) /\ Owner(n)' = c
        BY <1>1, <2>2, <3>1 DEF PendingSound, Stable
      <3> QED BY <1>4, <3>1, <3>2
    <2> QED BY <1>3, <2>1, <2>2
  <1>5. ASSUME NEW c \in Conn, NEW e \in ToSet(wire'[c]), NEW n, n = e.n, e.what = "reply",
               Kind(n)' = "terminate", n \in made', Open(c)'
        PROVE  Overtaken(n)'
    <2>1. ASSUME e \in ToSet(wire[c]) \/ e \in Reached(c) PROVE Gone(n) /\ n \in Frames /\ Owner(n) = c /\ n \in Nat
      <3>1. e \in Reached(c)
        BY <2>1 DEF Reached
      <3>2. InTransit(n)
        BY <1>5, <3>1 DEF InTransit, Reached
      <3>3. Gone(n) /\ Owner(n) = c
        BY <1>5, <3>1, <3>2, TransitGone
      <3> QED BY <1>1, <3>3 DEF Gone, Stable
    <2>2. Gone(n) /\ n \in Frames /\ Owner(n) = c /\ n \in Nat
      BY <2>1, NextWire
    <2>3. n \in made
      <3>1. ASSUME NEW d \in Conn, Answers(d, n) PROVE FALSE
        <4>1. n \in Ungiven(Owner(n))
          BY <2>2, <3>1, AnsweredPast
        <4> QED BY <2>2, <4>1, NotGone
      <3> QED BY <1>3, <1>5, <3>1
    <2>4. Owner(n)' = c /\ Kind(n) = "terminate" /\ Past(n)
      BY <1>1, <1>5, <2>2, <2>3 DEF Stable, PendingSound
    <2>5. Open(c) /\ ~Ended(c)'
      <3>1. Open(Owner(n))'
        BY <1>5, <2>4 DEF Open
      <3> QED BY <1>1, <2>2, <3>1, WasOpen
    <2>6. Overtaken(n)
      <3>1. CASE e \in ToSet(wire[c])
        BY <1>5, <2>3, <2>4, <2>5, <3>1 DEF PendingSound, TerminateCloses, ToSet
      <3>2. CASE Write(c)
        <4>1. pending[c] # "terminate"
          <5>1. pending[c] = "terminate" => phase' = [phase EXCEPT ![c] = "closing"]
            BY <3>2 DEF Write, Written, End
          <5> QED BY <2>5, <5>1 DEF Ended, Types, Places
        <4> QED BY <2>2, <2>3, <2>4, <2>5, <4>1 DEF PendingSound
      <3> QED BY <3>1, <3>2, NextWire
    <2> QED BY <1>1, <2>4, <2>6 DEF Stable
  <1>6. TerminateCloses'
    <2>1. ASSUME NEW c \in Conn, NEW i \in DOMAIN wire'[c], NEW n, n = wire'[c][i].n,
                 wire'[c][i].what = "reply", Kind(n)' = "terminate", n \in made', Open(c)'
          PROVE  Overtaken(n)'
      <3>1. wire'[c][i] \in ToSet(wire'[c])
        BY DEF ToSet
      <3> QED BY <1>5, <2>1, <3>1
    <2>2. ASSUME NEW c \in Conn, NEW i \in DOMAIN wire'[c], wire'[c][i].what = "reply",
                 Kind(wire[c][i].n)' = "terminate", wire'[c][i].n \in made', Open(c)'
          PROVE  Overtaken(wire[c][i].n)'
      <3>1. PICK n : n = wire'[c][i].n
        OBVIOUS
      <3>2. Kind(n)' = "terminate"
        BY <2>2, <3>1 DEF Kind
      <3>3. Overtaken(n)'
        BY <2>1, <2>2, <3>1, <3>2
      <3> QED BY <3>1, <3>3 DEF Overtaken, Owner
    <2> QED BY <2>2 DEF TerminateCloses
  <1> QED BY <1>2, <1>3, <1>4, <1>6 DEF PendingSound

-----------------------------------------------------------------------------
(* The theorems *)

LEMMA NothingIn ==
  ASSUME NEW S, NEW q, q = <<>>
  PROVE  q \in Seq(S) /\ DOMAIN q = {} /\ ToSet(q) = {} /\ Len(q) = 0
  BY DEF ToSet

LEMMA InitSound ==
  ASSUME Init
  PROVE  IInv
  <1>0. NetworkAssumption
    BY NetworkAssumption
  <1>1. \A c \in Conn : /\ phase[c] = "new" /\ at[c].pc = "start" /\ at[c].n = 0 /\ pending[c] = None /\ errors[c] = 0
                        /\ socket[c] = <<>> /\ buf[c] = <<>> /\ out[c] = <<>> /\ wire[c] = <<>>
    BY DEF Init, At
  <1>2. \A c \in Conn : Waiting(c) = {} /\ ~Open(c) /\ DOMAIN buf[c] = {} /\ DOMAIN socket[c] = {}
                        /\ DOMAIN out[c] = {} /\ DOMAIN wire[c] = {} /\ ToSet(out[c]) = {} /\ ToSet(wire[c]) = {}
                        /\ ToSet(buf[c]) = {} /\ ToSet(socket[c]) = {} /\ Len(out[c]) = 0
    BY <1>1, NothingIn DEF Waiting, Open
  <1>3. /\ frame = <<>> /\ requests = <<>> /\ replies = <<>> /\ row = <<>> /\ closing = <<>>
        /\ Frames = {} /\ DOMAIN requests = {} /\ DOMAIN replies = {} /\ DOMAIN row = {} /\ ToSet(closing) = {}
        /\ Len(requests) = 0 /\ Len(replies) = 0
    <2>1. frame = <<>> /\ requests = <<>> /\ replies = <<>> /\ row = <<>> /\ closing = <<>>
      BY DEF Init
    <2> QED BY <2>1, NothingIn DEF Frames
  <1>4. Places
    <2>1. at \in [Conn -> [pc : Steps, n : Nat]]
      BY DEF Init, At, Steps
    <2>2. phase \in [Conn -> Phases]
      BY DEF Init, Phases
    <2> QED BY <1>1, <2>1, <2>2 DEF Places, StepsOf
  <1>5. TaskTypes
    BY <1>0, <1>1 DEF Init, TaskTypes, NetworkAssumption, None
  <1>6. InputTypes
    BY <1>1, <1>3, NothingIn DEF Init, InputTypes
  <1>7. ReplyTypes
    BY <1>3, NothingIn DEF Init, ReplyTypes
  <1>8. AuditTypes
    BY <1>3, NothingIn DEF Init, AuditTypes
  <1>9. BlockTypes /\ BlocksEarned
    <2>1. removing \in BOOLEAN
      BY Zenon DEF Init
    <2>2. fails = 0 /\ until = -1 /\ NoKey = -1 /\ recording = 0 /\ blocks = 0 /\ failures = 0
      BY DEF Init, NoKey
    <2>3. /\ ip_block_failure_threshold \in Nat /\ ip_block_failure_threshold > 0
          /\ ip_block_duration \in Nat
      BY <1>0 DEF NetworkAssumption
    <2>4. BlocksEarned
      BY <2>2, <2>3 DEF BlocksEarned
    <2>5. fails \in Nat /\ fails < ip_block_failure_threshold /\ recording \in Nat /\ blocks \in Nat
          /\ failures \in Nat
      BY <2>2, <2>3
    <2>6. until \in Int /\ NoKey <= until /\ until <= ip_block_duration
      BY <2>2, <2>3
    <2> QED BY <2>1, <2>4, <2>5, <2>6, Zenon DEF BlockTypes
  <1>10. Capacities
    <2>1. Permits = 0
      <3>1. {c \in Conn : at[c].pc \in {"save", "handle", "give", "error"}} = {}
        BY <1>1
      <3> QED BY <3>1, FS_EmptySet DEF Permits
    <2>2. IsFiniteSet(sending) /\ Cardinality(sending) = 0
      BY FS_EmptySet DEF Init
    <2>3. \A c \in Conn : Len(out[c]) = 0 /\ InHand(c) \in Nat
      BY <1>3 DEF Init, InHand
    <2> QED BY <1>0, <1>2, <1>3, <2>1, <2>2, <2>3 DEF Capacities, NetworkAssumption
  <1>11. LifeSound
    BY <1>2, <1>3 DEF Init, LifeSound
  <1>12. InputSound
    BY <1>1, <1>2 DEF InputSound, Rising
  <1>13. AuditSound
    BY <1>3 DEF Init, AuditSound, TollsInTheirRow
  <1>14. RouteSound
    BY <1>2, <1>3 DEF Init, RouteSound
  <1>15. OrderSound
    <2>1. sending = {}
      BY DEF Init
    <2> QED BY <1>2, <1>3, <2>1 DEF OrderSound, SwapsOnlyWhenSentTogether
  <1>16. PendingSound
    <2>1. made = {}
      BY DEF Init
    <2> QED BY <1>1, <1>2, <2>1 DEF PendingSound, TerminateCloses
  <1> QED BY <1>4, <1>5, <1>6, <1>7, <1>8, <1>9, <1>10, <1>11, <1>12, <1>13, <1>14, <1>15, <1>16 DEF IInv, Types

LEMMA NextSound ==
  ASSUME IInv, Next
  PROVE  IInv'
  <1>1. /\ Types /\ Capacities /\ LifeSound /\ InputSound /\ AuditSound /\ RouteSound /\ OrderSound
        /\ PendingSound /\ BlocksEarned /\ BlockTypes
    BY DEF IInv, Types
  <1>2. Places'
    BY <1>1, NextOnward DEF Onward
  <1>3. TaskTypes' /\ InputTypes' /\ ReplyTypes'
    BY <1>1, NextTaskTyped, NextInputTyped, NextReplyTyped
  <1>4. AuditTypes' /\ BlockTypes' /\ BlocksEarned'
    BY <1>1, NextAuditTyped, NextBlocks
  <1>5. Capacities' /\ LifeSound' /\ InputSound'
    BY <1>1, NextCapacities, NextLifeSound, NextInputSound
  <1>6. AuditSound' /\ RouteSound'
    BY <1>1, NextAuditSound, NextRouteSound
  <1>7. OrderSound' /\ PendingSound'
    BY <1>1, NextOrderSound, NextPendingSound
  <1> QED BY <1>2, <1>3, <1>4, <1>5, <1>6, <1>7 DEF IInv, Types

\* The parts are those of variables alone: a step that changes none keeps them.
LEMMA StutterSound ==
  ASSUME IInv, UNCHANGED vars
  PROVE  IInv'
  <1>1. UNCHANGED <<phase, at, failed, pending, errors, keyed, session, active, terms>>
    BY DEF vars, task
  <1>2. UNCHANGED <<frame, socket, buf, limit>>
    BY DEF vars, input, bounds
  <1>3. UNCHANGED <<out, requests, replies, closing, closed, sending, wire, made, dropped, overlap>>
    BY DEF vars, router, history
  <1>4. UNCHANGED <<row, post, fails, until, recording, removing, blocks, failures>>
    BY DEF vars, audit, ip
  <1>5. (Places /\ TaskTypes /\ InputTypes)'
    BY <1>1, <1>2 DEF IInv, Types, Places, TaskTypes, InputTypes, Ended
  <1>6. (ReplyTypes /\ AuditTypes /\ BlockTypes /\ BlocksEarned)'
    BY <1>3, <1>4 DEF IInv, Types, ReplyTypes, AuditTypes, BlockTypes, BlocksEarned
  <1>7. (Capacities /\ LifeSound)'
    BY <1>1, <1>2, <1>3 DEF IInv, Capacities, InHand, LifeSound, Permits, Open, Ended, Frames, Owner
  <1>8. InputSound'
    BY <1>1, <1>2 DEF IInv, InputSound, Waiting, Frames, Owner, Kind
  <1>9. AuditSound'
    <2>1. \A n : Past(n)' = Past(n)
      BY <1>1, <1>2 DEF Past, Unanswered, Waiting, Frames, Owner
    <2>2. TollsInTheirRow'
      <3>1. frame' = frame /\ row' = row
        BY <1>2, <1>4
      <3>2. TollsInTheirRow
        BY DEF IInv, AuditSound
      <3> QED BY <3>1, <3>2 DEF TollsInTheirRow
    <2> QED BY <1>2, <1>4, <2>1, <2>2 DEF IInv, AuditSound, Frames, Past
  <1>10. RouteSound'
    <2>1. \A n : Gone(n)' = Gone(n) /\ Owner(n)' = Owner(n)
      BY <1>1, <1>2 DEF Gone, Ungiven, Unanswered, Waiting, Frames, Owner
    <2>2. RouteSound
      BY DEF IInv
    <2>3. requests' = requests /\ replies' = replies /\ sending' = sending /\ out' = out /\ wire' = wire
      BY <1>3
    <2> QED BY <2>1, <2>2, <2>3 DEF RouteSound
  <1>11. OrderSound'
    BY <1>2, <1>3 DEF IInv, OrderSound, After, SwapsOnlyWhenSentTogether, Owner
  <1>12. PendingSound'
    <2>1. \A n : /\ Past(n)' = Past(n) /\ Overtaken(n)' = Overtaken(n)
                /\ Owner(n)' = Owner(n) /\ Kind(n)' = Kind(n) /\ Open(n)' = Open(n)
      BY <1>1, <1>2 DEF Past, Overtaken, Unanswered, Waiting, Frames, Owner, Kind, Open
    <2>2. PendingSound
      BY DEF IInv
    <2>3. at' = at /\ pending' = pending /\ made' = made /\ wire' = wire
      BY <1>1, <1>3
    <2>4. TerminateCloses'
      <3>1. TerminateCloses
        BY <2>2 DEF PendingSound
      <3> QED BY <2>1, <2>3, <3>1 DEF TerminateCloses
    <2> QED BY <2>1, <2>2, <2>3, <2>4 DEF PendingSound
  <1> QED BY <1>5, <1>6, <1>7, <1>8, <1>9, <1>10, <1>11, <1>12 DEF IInv, Types

\* The parts of IInv hold together: the order of the frames in socket and buffer
\* (connection.rs), the audit rows (processor.rs), the way of the replies (logic/handler.rs,
\* router.rs), the close of a connection (server.rs) and the block of an address.
THEOREM NetworkInvariant == Spec => []IInv
  <1>1. Init => IInv
    BY InitSound
  <1>2. IInv /\ [Next]_vars => IInv'
    BY NextSound, StutterSound
  <1> QED BY <1>1, <1>2, PTL DEF Spec

\* Types, and no channel, permit or set of spawned sends passes its limit: the write
\* channel (connection.rs), the reply channels and permits (handler.rs), the sends (router.rs).
THEOREM NetworkTypes == Spec => []TypeOK
  <1>1. IInv => TypeOK
    <2> SUFFICES ASSUME IInv PROVE TypeOK
      OBVIOUS
    <2>1. Places /\ TaskTypes /\ Capacities /\ BlockTypes /\ ReplyTypes
      BY DEF IInv, Types
    <2>2. /\ phase \in [Conn -> {"new", "preauth", "main", "closing", "closed"}]
          /\ \A c \in Conn : at[c].pc \in Steps
      BY <2>1 DEF Places, Phases
    <2>3. \A c \in Conn : /\ errors[c] \in 0 .. MAX_CONSECUTIVE_ERRORS
                          /\ Open(c) => Len(out[c]) <= CHANNEL + InHand(c)
      BY <2>1, NetworkAssumption DEF TaskTypes, Capacities, Open, Ended, NetworkAssumption
    <2>4. fails \in 0 .. ip_block_failure_threshold - 1 /\ until \in NoKey .. ip_block_duration
      BY <2>1, NetworkAssumption DEF BlockTypes, NoKey, NetworkAssumption
    <2> QED BY <2>1, <2>2, <2>3, <2>4 DEF TypeOK, TaskTypes, ReplyTypes, Capacities, BlockTypes, Steps
  <1> QED BY <1>1, NetworkInvariant, PTL

\* No reply is dropped as that of a closed connection while the connection is open
\* (router.rs; server.rs tells the router only after the task ended).
THEOREM OpenNeverDropped == Spec => []OpenNotDropped
  <1>1. IInv => OpenNotDropped
    <2> SUFFICES ASSUME IInv, NEW n \in Frames, <<n, "closed">> \in dropped PROVE ~Open(Owner(n))
      BY DEF OpenNotDropped
    <2>1. Ended(Owner(n))
      BY DEF IInv, LifeSound
    <2> QED BY <2>1 DEF Ended, Open
  <1> QED BY <1>1, NetworkInvariant, PTL

\* A connection that wrote the reply to a TERMINATE is closed, unless a later command took
\* the place where it was remembered (pending_command of connection.rs).
THEOREM TerminateAlwaysCloses == Spec => []TerminateCloses
  <1>1. IInv => TerminateCloses
    BY DEF IInv, PendingSound
  <1> QED BY <1>1, NetworkInvariant, PTL

\* Tolls are written to the row of their request, or, when that has none, to one of the
\* same request id (processor.rs, update_toll_in_toll_out_by_request_id).
THEOREM TollsAlwaysInTheirRow == Spec => []TollsInTheirRow
  <1>1. IInv => TollsInTheirRow
    BY DEF IInv, AuditSound
  <1> QED BY <1>1, NetworkInvariant, PTL

\* Every block of an address stands for as many failed connections as the threshold
\* (ip_block_service.rs).
THEOREM BlocksAlwaysEarned == Spec => []BlocksEarned
  <1>1. IInv => BlocksEarned
    BY DEF IInv
  <1> QED BY <1>1, NetworkInvariant, PTL

-----------------------------------------------------------------------------
(* A reply is in one place *)

\* What is not a reply takes no place.
LEMMA PutsOnce ==
  ASSUME Types, OnePlace, NEW c \in Conn, NEW e, PutsOther(c, e)
  PROVE  OnePlace'
  <1>1. /\ UNCHANGED <<sending, wire>> /\ e.what # "reply"
        /\ \A d \in Conn \ {c} : out'[d] = out[d]
        /\ ToSet(out'[c]) = ToSet(out[c]) \cup {e}
        /\ Len(out[c]) \in Nat
        /\ DOMAIN out[c] = 1 .. Len(out[c]) /\ DOMAIN out'[c] = 1 .. Len(out[c]) + 1
        /\ \A i \in DOMAIN out[c] : out'[c][i] = out[c][i]
        /\ out'[c][Len(out[c]) + 1] = e
    BY PutFacts DEF PutsOther
  <1>2. \A d \in Conn : \A u \in ToSet(out'[d]) : u.what = "reply" => u \in ToSet(out[d])
    BY <1>1
  <1>3. \A d \in Conn : \A i \in Replies(out'[d]) : i \in Replies(out[d]) /\ out'[d][i] = out[d][i]
    <2>1. \A i \in DOMAIN out'[c] : i \in DOMAIN out[c] \/ i = Len(out[c]) + 1
      BY <1>1
    <2>2. \A i \in Replies(out'[c]) : i \in Replies(out[c]) /\ out'[c][i] = out[c][i]
      BY <1>1, <2>1 DEF Replies
    <2>3. \A d \in Conn \ {c} : Replies(out'[d]) = Replies(out[d]) /\ out'[d] = out[d]
      BY <1>1
    <2> QED BY <2>2, <2>3
  <1> QED BY <1>1, <1>2, <1>3 DEF OnePlace

\* The oldest item of the write channel is written.
LEMMA WritesOnce ==
  ASSUME Types, OnePlace, NEW c \in Conn, Writes(c)
  PROVE  OnePlace'
  <1>1. /\ UNCHANGED sending
        /\ \A d \in Conn \ {c} : out'[d] = out[d] /\ wire'[d] = wire[d]
        /\ 1 \in DOMAIN out[c] /\ Head(out[c]) = out[c][1]
        /\ ToSet(out[c]) = ToSet(out'[c]) \cup {Head(out[c])}
        /\ \A i \in DOMAIN out'[c] : i \in Nat /\ i + 1 \in DOMAIN out[c] /\ out'[c][i] = out[c][i + 1]
        /\ ToSet(wire'[c]) = ToSet(wire[c]) \cup {Head(out[c])}
        /\ DOMAIN wire[c] = 1 .. Len(wire[c]) /\ DOMAIN wire'[c] = 1 .. Len(wire[c]) + 1
        /\ Len(wire[c]) \in Nat
        /\ \A i \in DOMAIN wire[c] : wire'[c][i] = wire[c][i]
        /\ wire'[c][Len(wire[c]) + 1] = out[c][1]
        /\ out' \in [Conn -> Seq(Items)]
    BY WriteFacts DEF Writes
  <1>2. \A d \in Conn : \A e \in ToSet(out'[d]) \cup ToSet(wire'[d]) :
            e \in ToSet(out[d]) \cup ToSet(wire[d])
    BY <1>1
  <1>3. \A i \in Replies(out'[c]) : /\ i \in Nat /\ i + 1 \in Replies(out[c]) /\ i + 1 # 1
                                    /\ out'[c][i] = out[c][i + 1]
    <2>1. out'[c] \in Seq(Items)
      BY <1>1
    <2>2. \A i \in DOMAIN out'[c] : i + 1 # 1
      BY <2>1
    <2> QED BY <1>1, <2>2 DEF Replies
  <1>4. \A i \in Replies(wire'[c]) :
            \/ i \in Replies(wire[c]) /\ wire'[c][i] = wire[c][i]
            \/ i = Len(wire[c]) + 1 /\ 1 \in Replies(out[c]) /\ wire'[c][i] = out[c][1]
    <2>1. \A i \in DOMAIN wire'[c] : i \in DOMAIN wire[c] \/ i = Len(wire[c]) + 1
      BY <1>1
    <2> QED BY <1>1, <2>1 DEF Replies
  <1>5. /\ \A i, j \in Replies(out[c]) : out[c][i].n = out[c][j].n => i = j
        /\ \A i, j \in Replies(wire[c]) : wire[c][i].n = wire[c][j].n => i = j
        /\ \A i \in Replies(out[c]), j \in Replies(wire[c]) : out[c][i].n # wire[c][j].n
    BY DEF OnePlace
  <1>6. \A i, j \in Replies(out'[c]) : out'[c][i].n = out'[c][j].n => i = j
    BY <1>3, <1>5
  <1>7. \A i, j \in Replies(wire'[c]) : wire'[c][i].n = wire'[c][j].n => i = j
    BY <1>4, <1>5
  <1>8. \A i \in Replies(out'[c]), j \in Replies(wire'[c]) : out'[c][i].n # wire'[c][j].n
    BY <1>3, <1>4, <1>5
  <1>9. \A d \in Conn : \A e \in ToSet(out'[d]) \cup ToSet(wire'[d]) : e.what = "reply" => e.n \notin sending'
    BY <1>1, <1>2 DEF OnePlace
  <1>10. ASSUME NEW d \in Conn \ {c}
         PROVE  /\ \A i, j \in Replies(out'[d]) : out'[d][i].n = out'[d][j].n => i = j
                /\ \A i, j \in Replies(wire'[d]) : wire'[d][i].n = wire'[d][j].n => i = j
                /\ \A i \in Replies(out'[d]), j \in Replies(wire'[d]) : out'[d][i].n # wire'[d][j].n
    <2>1. out'[d] = out[d] /\ wire'[d] = wire[d]
      BY <1>1
    <2> QED BY <2>1 DEF OnePlace
  <1> QED BY <1>6, <1>7, <1>8, <1>9, <1>10 DEF OnePlace

\* The router takes a reply that is behind all its connection got.
LEMMA RoutesOnce ==
  ASSUME Types, RouteSound, OrderSound, OnePlace, Routes
  PROVE  OnePlace'
  <1>1. /\ UNCHANGED <<out, wire>> /\ 1 \in DOMAIN replies
        /\ sending' \subseteq sending \cup {replies[1].n}
    BY RouteFacts DEF Routes
  <1>2. PICK n : n = replies[1].n
    OBVIOUS
  <1>3. ASSUME NEW c \in Conn, NEW e \in ToSet(out[c]) \cup ToSet(wire[c]), e.what = "reply" PROVE e.n # n
    <2>1. Owner(e.n) = c
      BY <1>3 DEF RouteSound
    <2>2. After(n)
      BY <1>1, <1>2 DEF OrderSound
    <2>3. ~(n < n)
      <3>1. n \in Nat
        BY <1>2, RouteFacts
      <3> QED BY <3>1
    <2>4. CASE Owner(n) = c
      <3>1. e.n < n
        BY <1>3, <2>2, <2>4 DEF After
      <3> QED BY <2>3, <3>1
    <2> QED BY <2>1, <2>4
  <1>4. \A c \in Conn : \A e \in ToSet(out'[c]) \cup ToSet(wire'[c]) : e.what = "reply" => e.n \notin sending'
    BY <1>1, <1>2, <1>3 DEF OnePlace
  <1> QED BY <1>1, <1>4 DEF OnePlace

\* A reply that was being sent goes to the write channel, or is given up.
LEMMA SendsOffOnce ==
  ASSUME Types, OnePlace, NEW c \in Conn, NEW n \in Nat, c = Owner(n), SendsOff(n)
  PROVE  OnePlace'
  <1>1. n \in sending /\ sending' = sending \ {n} /\ UNCHANGED wire
    BY DEF SendsOff
  <1>2. CASE UNCHANGED out
    BY <1>1, <1>2 DEF OnePlace
  <1>3. CASE Puts(c, Item("reply", n))
    <2>1. /\ \A d \in Conn \ {c} : out'[d] = out[d]
          /\ ToSet(out'[c]) = ToSet(out[c]) \cup {Item("reply", n)}
          /\ Len(out[c]) \in Nat
          /\ DOMAIN out[c] = 1 .. Len(out[c]) /\ DOMAIN out'[c] = 1 .. Len(out[c]) + 1
          /\ \A i \in DOMAIN out[c] : out'[c][i] = out[c][i]
          /\ out'[c][Len(out[c]) + 1] = Item("reply", n)
      BY <1>3, PutFacts
    <2>2. Item("reply", n).n = n
      BY ItemTyped
    <2>3. \A d \in Conn : \A e \in ToSet(out'[d]) \cup ToSet(wire'[d]) :
              e \in ToSet(out[d]) \cup ToSet(wire[d]) \/ e.n = n
      BY <1>1, <2>1, <2>2
    <2>4. \A d \in Conn : \A e \in ToSet(out'[d]) \cup ToSet(wire'[d]) : e.what = "reply" => e.n \notin sending'
      BY <1>1, <2>3 DEF OnePlace
    <2>5. \A i \in Replies(out'[c]) :
              \/ i \in Replies(out[c]) /\ out'[c][i] = out[c][i]
              \/ i = Len(out[c]) + 1 /\ out'[c][i].n = n
      <3>1. \A i \in DOMAIN out'[c] : i \in DOMAIN out[c] \/ i = Len(out[c]) + 1
        BY <2>1
      <3> QED BY <2>1, <2>2, <3>1 DEF Replies
    <2>6. /\ \A i \in Replies(out[c]) : out[c][i].n # n
          /\ \A i \in Replies(wire[c]) : wire[c][i].n # n
      BY <1>1 DEF OnePlace, Replies, ToSet
    <2>7. /\ \A i, j \in Replies(out[c]) : out[c][i].n = out[c][j].n => i = j
          /\ \A i \in Replies(out[c]), j \in Replies(wire[c]) : out[c][i].n # wire[c][j].n
      BY DEF OnePlace
    <2>8. \A i, j \in Replies(out'[c]) : out'[c][i].n = out'[c][j].n => i = j
      BY <2>5, <2>6, <2>7
    <2>9. \A i \in Replies(out'[c]), j \in Replies(wire[c]) : out'[c][i].n # wire[c][j].n
      BY <2>5, <2>6, <2>7
    <2>10. ASSUME NEW d \in Conn \ {c}
           PROVE  /\ \A i, j \in Replies(out'[d]) : out'[d][i].n = out'[d][j].n => i = j
                  /\ \A i \in Replies(out'[d]), j \in Replies(wire[d]) : out'[d][i].n # wire[d][j].n
      <3>1. out'[d] = out[d]
        BY <2>1
      <3> QED BY <3>1 DEF OnePlace
    <2>11. \A d \in Conn : \A i, j \in Replies(wire[d]) : wire[d][i].n = wire[d][j].n => i = j
      BY DEF OnePlace
    <2>12. wire' = wire
      BY <1>1
    <2> QED BY <2>4, <2>8, <2>9, <2>10, <2>11, <2>12 DEF OnePlace
  <1> QED BY <1>2, <1>3 DEF SendsOff

LEMMA NextOnePlace ==
  ASSUME IInv, OnePlace, Next
  PROVE  OnePlace'
  <1>1. Types /\ RouteSound /\ OrderSound
    BY DEF IInv
  <1>2. ReplyStep
    BY <1>1, NextReplies
  <1>3. CASE UNCHANGED <<sending, out, wire>>
    BY <1>3 DEF OnePlace
  <1>4. CASE UNCHANGED <<requests, replies, sending, overlap, out, wire>>
    BY <1>3, <1>4
  <1>5. ASSUME NEW c \in Conn, NEW e \in Items, PutsOther(c, e) PROVE OnePlace'
    BY <1>1, <1>5, PutsOnce
  <1>6. ASSUME NEW c \in Conn, Writes(c) PROVE OnePlace'
    BY <1>1, <1>6, WritesOnce
  <1>7. ASSUME NEW c \in Conn, Gives(c) PROVE OnePlace'
    BY <1>3, <1>7 DEF Gives
  <1>8. CASE Forwards
    BY <1>3, <1>8 DEF Forwards
  <1>9. CASE Routes
    BY <1>1, <1>9, RoutesOnce
  <1>10. ASSUME NEW n \in Frames, SendsOff(n) PROVE OnePlace'
    <2>1. Owner(n) \in Conn /\ n \in Nat
      BY <1>1, KindTyped DEF Types
    <2> QED BY <1>1, <1>10, <2>1, SendsOffOnce
  <1> QED BY <1>2, <1>4, <1>5, <1>6, <1>7, <1>8, <1>9, <1>10 DEF ReplyStep

\* A reply is never in two of the places between router and client.
THEOREM RepliesInOnePlace == Spec => []OnePlace
  <1>1. Init => OnePlace
    <2> SUFFICES ASSUME Init PROVE OnePlace
      OBVIOUS
    <2>1. \A c \in Conn : out[c] = <<>> /\ wire[c] = <<>>
      BY DEF Init
    <2>2. Replies(<<>>) = {} /\ ToSet(<<>>) = {}
      BY DEF Replies, ToSet
    <2> QED BY <2>1, <2>2 DEF OnePlace
  <1>2. IInv /\ OnePlace /\ [Next]_vars => OnePlace'
    <2> SUFFICES ASSUME IInv, OnePlace, [Next]_vars PROVE OnePlace'
      OBVIOUS
    <2>1. CASE UNCHANGED vars
      <3>1. sending' = sending /\ out' = out /\ wire' = wire
        BY <2>1 DEF vars, router, history
      <3> QED BY <3>1 DEF OnePlace
    <2> QED BY <2>1, NextOnePlace
  <1> QED BY <1>1, <1>2, NetworkInvariant, PTL DEF Spec

\* A client reads one answer at most to each of its requests and none to those of others
\* (connection ids of handler.rs and router.rs), out of the order of the requests only when
\* the router was sending both at one time (router.rs spawns a task per reply).
THEOREM RepliesAlwaysMatch == Spec => []RepliesMatchRequests
  <1>1. IInv /\ OnePlace => RepliesMatchRequests
    <2> SUFFICES ASSUME IInv, OnePlace PROVE RepliesMatchRequests
      OBVIOUS
    <2>1. SwapsOnlyWhenSentTogether /\ RouteSound
      BY DEF IInv, OrderSound
    <2>2. ASSUME NEW c \in Conn, NEW i \in Replies(wire[c])
          PROVE  wire[c][i].n \in Frames /\ Owner(wire[c][i].n) = c
      <3>1. PICK e : e = wire[c][i]
        OBVIOUS
      <3>2. e \in ToSet(wire[c]) /\ e.what = "reply"
        BY <3>1 DEF Replies, ToSet
      <3>3. Gone(e.n) /\ Owner(e.n) = c
        BY <2>1, <3>2 DEF RouteSound
      <3> QED BY <3>1, <3>3 DEF Gone
    <2>3. \A c \in Conn : \A i, j \in Replies(wire[c]) : wire[c][i].n = wire[c][j].n => i = j
      BY DEF OnePlace
    <2> QED BY <2>1, <2>2, <2>3 DEF RepliesMatchRequests, AnsweredOnce
  <1> QED BY <1>1, NetworkInvariant, RepliesInOnePlace, PTL
=============================================================================
