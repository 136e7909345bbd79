--------------------------- MODULE TicketIdProofs ---------------------------
(***************************************************************************)
(* Proofs about TicketId and TicketIdRaces: for any number of processes,   *)
(* calls and sequence values, a ticket number is given twice only by one   *)
(* process and only after two of its calls met at a change of block.       *)
(* IInv (TicketIdRaces) is inductive; one lemma per action shows that the  *)
(* action keeps it.                                                        *)
(***************************************************************************)
EXTENDS TicketIdRaces, TLAPS

USE TicketIdAssumption

\* The history variable's part of a step of NextR.
Recorded == raced' = raced \cup {n \in Node : Meeting(n)'}

\* BlockTicket keeps prefix and suffix apart: a suffix is a single digit.
LEMMA BlockTicketInjective ==
    ASSUME NEW p1 \in Nat, NEW p2 \in Nat,
           NEW s1 \in 1..SuffixMax, NEW s2 \in 1..SuffixMax,
           BlockTicket(p1, s1) = BlockTicket(p2, s2)
    PROVE  p1 = p2 /\ s1 = s2
  BY DEF BlockTicket, SuffixMultiplier

\* In the initial state no call has started, and nothing is known to anyone.
LEMMA InitIInv == InitR => IInv
<1> SUFFICES ASSUME InitR PROVE IInv
  OBVIOUS
<1> USE DEF InitR, Init
<1>1. TypeOK
  BY DEF TypeOK, PC
<1>2. FromSequence /\ CallsSound /\ LocalsDistinct
  BY DEF FromSequence, CallsSound, LocalsDistinct, Holding, Done, Installing
<1>3. PrefetchFresh
  BY DEF PrefetchFresh
<1>4. Owned
  BY DEF Owned, KnownTo
<1>5. ASSUME NEW n \in Node
      PROVE  Calm(n)
  BY DEF Calm, Meeting, HoldsStalePrefix, ChangeSound, NextFresh, DrawnBelowCounter,
         DrawnOnce, Holding, Done, Installing, Changing
<1> QED
  BY <1>1, <1>2, <1>3, <1>4, <1>5 DEF IInv

\* LoadPrefix: a call reads the prefix in use.
LEMMA LoadPrefixKeeps ==
    ASSUME IInv, NEW r \in Request, LoadPrefix(r), Recorded
    PROVE  IInv'
<1> USE DEF IInv, LoadPrefix, Goto, atomics, Recorded
<1>1. TypeOK'
  BY DEF TypeOK, PC, Changing
<1>2. FromSequence'
  BY DEF TypeOK, FromSequence
<1>3. CallsSound'
  BY DEF TypeOK, CallsSound, Holding, Done, Installing, FromSequence
<1>4. LocalsDistinct'
  BY DEF TypeOK, LocalsDistinct, CallsSound, Holding, Done
<1>5. PrefetchFresh'
  BY DEF TypeOK, PrefetchFresh, FromSequence
<1>6. Owned'
  BY DEF TypeOK, Owned, KnownTo, FromSequence
<1>7. ASSUME NEW n \in Node, n \notin raced'
      PROVE  Calm(n)'
  <2>1. Calm(n) /\ ~Meeting(n)'
    BY <1>7
  <2> USE <2>1 DEF TypeOK, Calm, Meeting, HoldsStalePrefix, ChangeSound, CallsSound,
                  Holding, Done, Installing, Changing
  <2>2. ChangeSound(n)'
    BY DEF NextFresh, FromSequence, PrefetchFresh
  <2>3. NextFresh(n)'
    BY DEF NextFresh, FromSequence, PrefetchFresh
  <2>4. DrawnBelowCounter(n)'
    BY DEF DrawnBelowCounter
  <2>5. DrawnOnce(n)'
    BY DEF DrawnBelowCounter, DrawnOnce
  <2> QED
    BY <2>2, <2>3, <2>4, <2>5
<1> QED
  BY <1>1, <1>2, <1>3, <1>4, <1>5, <1>6, <1>7

\* FetchSeq: a call receives a fresh sequence value.
LEMMA FetchSeqKeeps ==
    ASSUME IInv, NEW r \in Request, FetchSeq(r), Recorded
    PROVE  IInv'
<1> USE DEF IInv, FetchSeq, Goto, atomics, Recorded
<1>1. TypeOK'
  BY DEF TypeOK, PC, Changing
<1>2. FromSequence'
  BY DEF TypeOK, FromSequence
<1>3. CallsSound'
  BY DEF TypeOK, CallsSound, Holding, Done, Installing, FromSequence
<1>4. LocalsDistinct'
  BY DEF TypeOK, LocalsDistinct, CallsSound, Holding, Done
<1>5. PrefetchFresh'
  BY DEF TypeOK, PrefetchFresh, FromSequence
<1>6. Owned'
  BY DEF TypeOK, Owned, KnownTo, FromSequence
<1>7. ASSUME NEW n \in Node, n \notin raced'
      PROVE  Calm(n)'
  <2>1. Calm(n) /\ ~Meeting(n)'
    BY <1>7
  <2> USE <2>1 DEF TypeOK, Calm, Meeting, HoldsStalePrefix, ChangeSound, CallsSound,
                  Holding, Done, Installing, Changing
  <2>2. ChangeSound(n)'
    BY DEF NextFresh, FromSequence, PrefetchFresh
  <2>3. NextFresh(n)'
    BY DEF NextFresh, FromSequence, PrefetchFresh
  <2>4. DrawnBelowCounter(n)'
    BY DEF DrawnBelowCounter
  <2>5. DrawnOnce(n)'
    BY DEF DrawnBelowCounter, DrawnOnce
  <2> QED
    BY <2>2, <2>3, <2>4, <2>5
<1> QED
  BY <1>1, <1>2, <1>3, <1>4, <1>5, <1>6, <1>7

\* FetchFails: a call falls back to a local id.
LEMMA FetchFailsKeeps ==
    ASSUME IInv, NEW r \in Request, FetchFails(r), Recorded
    PROVE  IInv'
<1> USE DEF IInv, FetchFails, Goto, atomics, Recorded
<1>1. TypeOK'
  BY DEF TypeOK, PC, Changing, BlockTicket, LocalTicket, SuffixMultiplier
<1>2. FromSequence'
  BY DEF TypeOK, FromSequence
<1>h. ~Holding(r)'
  BY DEF IInv, TypeOK, Holding, Done, LocalTicket
<1>3. CallsSound'
  BY DEF TypeOK, CallsSound, Holding, Done, Installing, FromSequence, BlockTicket, LocalTicket, SuffixMultiplier
<1>4. LocalsDistinct'
  BY DEF TypeOK, LocalsDistinct, CallsSound, Holding, Done, BlockTicket, LocalTicket, SuffixMultiplier
<1>5. PrefetchFresh'
  BY DEF TypeOK, PrefetchFresh, FromSequence
<1>6. Owned'
  <2>1. ASSUME NEW p \in 1..MaxSeq, NEW n \in Node, KnownTo(p, n)'
        PROVE  KnownTo(p, n)
    BY <2>1 DEF TypeOK, KnownTo
  <2> QED
    BY <2>1 DEF Owned
<1>7. ASSUME NEW n \in Node, n \notin raced'
      PROVE  Calm(n)'
  <2>1. Calm(n) /\ ~Meeting(n)'
    BY <1>7
  <2> USE <2>1, <1>h DEF TypeOK, Calm, Meeting, HoldsStalePrefix, ChangeSound, CallsSound,
                  Holding, Done, Installing, Changing
  <2>2. ChangeSound(n)'
    BY DEF NextFresh, FromSequence, PrefetchFresh
  <2>3. NextFresh(n)'
    BY DEF NextFresh, FromSequence, PrefetchFresh
  <2>4. DrawnBelowCounter(n)'
    BY DEF DrawnBelowCounter
  <2>5. DrawnOnce(n)'
    BY DEF DrawnBelowCounter, DrawnOnce
  <2> QED
    BY <2>2, <2>3, <2>4, <2>5
<1> QED
  BY <1>1, <1>2, <1>3, <1>4, <1>5, <1>6, <1>7

\* InstallFirst: the first block becomes the current one.
LEMMA InstallFirstKeeps ==
    ASSUME IInv, NEW r \in Request, InstallFirst(r), Recorded
    PROVE  IInv'
<1> USE DEF IInv, InstallFirst, Goto, atomics, Recorded
<1>1. TypeOK'
  BY DEF TypeOK, PC, Changing
<1>2. FromSequence'
  BY DEF TypeOK, FromSequence
<1>3. CallsSound'
  BY DEF TypeOK, CallsSound, Holding, Done, Installing, FromSequence
<1>4. LocalsDistinct'
  BY DEF TypeOK, LocalsDistinct, CallsSound, Holding, Done
<1>5. PrefetchFresh'
  BY DEF TypeOK, PrefetchFresh, FromSequence
<1>6. Owned'
  BY DEF TypeOK, Owned, KnownTo, FromSequence
<1>7. ASSUME NEW n \in Node, n \notin raced'
      PROVE  Calm(n)'
  <2>1. Calm(n) /\ ~Meeting(n)'
    BY <1>7
  <2> USE <2>1 DEF TypeOK, Calm, Meeting, HoldsStalePrefix, ChangeSound, CallsSound,
                  Holding, Done, Installing, Changing
  <2>2. ChangeSound(n)'
    BY DEF NextFresh, FromSequence, PrefetchFresh
  <2>3. NextFresh(n)'
    BY DEF NextFresh, FromSequence, PrefetchFresh
  <2>4. DrawnBelowCounter(n)'
    BY DEF DrawnBelowCounter
  <2>5. DrawnOnce(n)'
    BY DEF DrawnBelowCounter, DrawnOnce
  <2> QED
    BY <2>2, <2>3, <2>4, <2>5
<1> QED
  BY <1>1, <1>2, <1>3, <1>4, <1>5, <1>6, <1>7

\* CountFirst: the first block's counter starts.
LEMMA CountFirstKeeps ==
    ASSUME IInv, NEW r \in Request, CountFirst(r), Recorded
    PROVE  IInv'
<1> USE DEF IInv, CountFirst, Goto, atomics, Recorded
<1>1. TypeOK'
  BY DEF TypeOK, PC, Changing
<1>2. FromSequence'
  BY DEF TypeOK, FromSequence
<1>3. CallsSound'
  BY DEF TypeOK, CallsSound, Holding, Done, Installing, FromSequence
<1>4. LocalsDistinct'
  BY DEF TypeOK, LocalsDistinct, CallsSound, Holding, Done
<1>5. PrefetchFresh'
  BY DEF TypeOK, PrefetchFresh, FromSequence
<1>6. Owned'
  BY DEF TypeOK, Owned, KnownTo, FromSequence
<1>7. ASSUME NEW n \in Node, n \notin raced'
      PROVE  Calm(n)'
  <2>1. Calm(n) /\ ~Meeting(n)'
    BY <1>7
  <2> USE <2>1 DEF TypeOK, Calm, Meeting, HoldsStalePrefix, ChangeSound, CallsSound,
                  Holding, Done, Installing, Changing
  <2>2. ChangeSound(n)'
    BY DEF NextFresh, FromSequence, PrefetchFresh
  <2>3. NextFresh(n)'
    BY DEF NextFresh, FromSequence, PrefetchFresh
  <2>4. DrawnBelowCounter(n)'
    BY DEF DrawnBelowCounter
  <2>5. DrawnOnce(n)'
    BY DEF DrawnBelowCounter, DrawnOnce
  <2> QED
    BY <2>2, <2>3, <2>4, <2>5
<1> QED
  BY <1>1, <1>2, <1>3, <1>4, <1>5, <1>6, <1>7

\* Bump: a call draws the next suffix, or finds the block used up.
LEMMA BumpKeeps ==
    ASSUME IInv, NEW r \in Request, Bump(r), Recorded
    PROVE  IInv'
<1> USE DEF IInv, Bump, Goto, atomics, Recorded
<1>1. TypeOK'
  BY DEF TypeOK, PC, Changing
<1>2. FromSequence'
  BY DEF TypeOK, FromSequence
<1>3. CallsSound'
  <2>1. CASE counter[NodeOf[r]] + 1 > SuffixMax
    BY <2>1 DEF TypeOK, CallsSound, Holding, Done, Installing
  <2>2. CASE counter[NodeOf[r]] + 1 <= SuffixMax
    BY <2>2 DEF TypeOK, CallsSound, Holding, Done, Installing
  <2> QED
    BY <2>1, <2>2 DEF TypeOK
<1>4. LocalsDistinct'
  BY DEF TypeOK, LocalsDistinct, CallsSound, Holding, Done
<1>5. PrefetchFresh'
  BY DEF TypeOK, PrefetchFresh, FromSequence
<1>6. Owned'
  <2>1. ASSUME NEW p \in 1..MaxSeq, NEW n \in Node, KnownTo(p, n)'
        PROVE  KnownTo(p, n)
    BY <2>1 DEF TypeOK, KnownTo
  <2> QED
    BY <2>1 DEF Owned
<1>7. ASSUME NEW n \in Node, n \notin raced'
      PROVE  Calm(n)'
  <2>1. Calm(n) /\ ~Meeting(n)'
    BY <1>7
  <2> USE <2>1 DEF TypeOK, Calm, Meeting, HoldsStalePrefix, ChangeSound, CallsSound,
                  Holding, Done, Installing, Changing
  <2>2. ChangeSound(n)'
    BY DEF NextFresh, FromSequence, PrefetchFresh
  <2>3. NextFresh(n)'
    BY DEF NextFresh, FromSequence, PrefetchFresh
  <2>4. DrawnBelowCounter(n)'
    BY DEF DrawnBelowCounter
  <2>5. DrawnOnce(n)'
    BY DEF DrawnBelowCounter, DrawnOnce
  <2> QED
    BY <2>2, <2>3, <2>4, <2>5
<1> QED
  BY <1>1, <1>2, <1>3, <1>4, <1>5, <1>6, <1>7

\* PollHit: a call takes the prefetched block.
LEMMA PollHitKeeps ==
    ASSUME IInv, NEW r \in Request, PollHit(r), Recorded
    PROVE  IInv'
<1> USE DEF IInv, PollHit, Goto, atomics, Recorded
<1>1. TypeOK'
  BY DEF TypeOK, PC, Changing
<1>2. FromSequence'
  BY DEF TypeOK, FromSequence
<1>3. CallsSound'
  BY DEF TypeOK, CallsSound, Holding, Done, Installing, FromSequence
<1>4. LocalsDistinct'
  BY DEF TypeOK, LocalsDistinct, CallsSound, Holding, Done
<1>5. PrefetchFresh'
  BY DEF TypeOK, PrefetchFresh, FromSequence
<1>6. Owned'
  BY DEF TypeOK, Owned, KnownTo, FromSequence
<1>7. ASSUME NEW n \in Node, n \notin raced'
      PROVE  Calm(n)'
  <2>1. Calm(n) /\ ~Meeting(n)'
    BY <1>7
  <2> USE <2>1 DEF TypeOK, Calm, Meeting, HoldsStalePrefix, ChangeSound, CallsSound,
                  Holding, Done, Installing, Changing
  <2>2. ChangeSound(n)'
    BY DEF NextFresh, FromSequence, PrefetchFresh
  <2>3. NextFresh(n)'
    BY DEF NextFresh, FromSequence, PrefetchFresh
  <2>4. DrawnBelowCounter(n)'
    BY DEF DrawnBelowCounter
  <2>5. DrawnOnce(n)'
    BY DEF DrawnBelowCounter, DrawnOnce
  <2> QED
    BY <2>2, <2>3, <2>4, <2>5
<1> QED
  BY <1>1, <1>2, <1>3, <1>4, <1>5, <1>6, <1>7

\* PollTimeout: a call gives up waiting for a prefetch.
LEMMA PollTimeoutKeeps ==
    ASSUME IInv, NEW r \in Request, PollTimeout(r), Recorded
    PROVE  IInv'
<1> USE DEF IInv, PollTimeout, Goto, atomics, Recorded
<1>1. TypeOK'
  BY DEF TypeOK, PC, Changing
<1>2. FromSequence'
  BY DEF TypeOK, FromSequence
<1>3. CallsSound'
  BY DEF TypeOK, CallsSound, Holding, Done, Installing, FromSequence
<1>4. LocalsDistinct'
  BY DEF TypeOK, LocalsDistinct, CallsSound, Holding, Done
<1>5. PrefetchFresh'
  BY DEF TypeOK, PrefetchFresh, FromSequence
<1>6. Owned'
  BY DEF TypeOK, Owned, KnownTo, FromSequence
<1>7. ASSUME NEW n \in Node, n \notin raced'
      PROVE  Calm(n)'
  <2>1. Calm(n) /\ ~Meeting(n)'
    BY <1>7
  <2> USE <2>1 DEF TypeOK, Calm, Meeting, HoldsStalePrefix, ChangeSound, CallsSound,
                  Holding, Done, Installing, Changing
  <2>2. ChangeSound(n)'
    BY DEF NextFresh, FromSequence, PrefetchFresh
  <2>3. NextFresh(n)'
    BY DEF NextFresh, FromSequence, PrefetchFresh
  <2>4. DrawnBelowCounter(n)'
    BY DEF DrawnBelowCounter
  <2>5. DrawnOnce(n)'
    BY DEF DrawnBelowCounter, DrawnOnce
  <2> QED
    BY <2>2, <2>3, <2>4, <2>5
<1> QED
  BY <1>1, <1>2, <1>3, <1>4, <1>5, <1>6, <1>7

\* Install: a new block becomes the current one.
LEMMA InstallKeeps ==
    ASSUME IInv, NEW r \in Request, Install(r), Recorded
    PROVE  IInv'
<1> USE DEF IInv, Install, Goto, atomics, Recorded
<1>1. TypeOK'
  BY DEF TypeOK, PC, Changing
<1>2. FromSequence'
  BY DEF TypeOK, FromSequence
<1>3. CallsSound'
  BY DEF TypeOK, CallsSound, Holding, Done, Installing, FromSequence
<1>4. LocalsDistinct'
  BY DEF TypeOK, LocalsDistinct, CallsSound, Holding, Done
<1>5. PrefetchFresh'
  BY DEF TypeOK, PrefetchFresh, FromSequence
<1>6. Owned'
  BY DEF TypeOK, Owned, KnownTo, FromSequence
<1>7. ASSUME NEW n \in Node, n \notin raced'
      PROVE  Calm(n)'
  <2>1. Calm(n) /\ ~Meeting(n)'
    BY <1>7
  <2> USE <2>1 DEF TypeOK, Calm, Meeting, HoldsStalePrefix, ChangeSound, CallsSound,
                  Holding, Done, Installing, Changing
  <2>2. ChangeSound(n)'
    BY DEF NextFresh, FromSequence, PrefetchFresh
  <2>3. NextFresh(n)'
    BY DEF NextFresh, FromSequence, PrefetchFresh
  <2>4. DrawnBelowCounter(n)'
    BY DEF DrawnBelowCounter
  <2>5. DrawnOnce(n)'
    BY DEF DrawnBelowCounter, DrawnOnce
  <2> QED
    BY <2>2, <2>3, <2>4, <2>5
<1> QED
  BY <1>1, <1>2, <1>3, <1>4, <1>5, <1>6, <1>7

\* ClearNext: the prefetched block is marked taken.
LEMMA ClearNextKeeps ==
    ASSUME IInv, NEW r \in Request, ClearNext(r), Recorded
    PROVE  IInv'
<1> USE DEF IInv, ClearNext, Goto, atomics, Recorded
<1>1. TypeOK'
  BY DEF TypeOK, PC, Changing
<1>2. FromSequence'
  BY DEF TypeOK, FromSequence
<1>3. CallsSound'
  BY DEF TypeOK, CallsSound, Holding, Done, Installing, FromSequence
<1>4. LocalsDistinct'
  BY DEF TypeOK, LocalsDistinct, CallsSound, Holding, Done
<1>5. PrefetchFresh'
  BY DEF TypeOK, PrefetchFresh, FromSequence
<1>6. Owned'
  BY DEF TypeOK, Owned, KnownTo, FromSequence
<1>7. ASSUME NEW n \in Node, n \notin raced'
      PROVE  Calm(n)'
  <2>1. Calm(n) /\ ~Meeting(n)'
    BY <1>7
  <2> USE <2>1 DEF TypeOK, Calm, Meeting, HoldsStalePrefix, ChangeSound, CallsSound,
                  Holding, Done, Installing, Changing
  <2>2. ChangeSound(n)'
    BY DEF NextFresh, FromSequence, PrefetchFresh
  <2>3. NextFresh(n)'
    BY DEF NextFresh, FromSequence, PrefetchFresh
  <2>4. DrawnBelowCounter(n)'
    BY DEF DrawnBelowCounter
  <2>5. DrawnOnce(n)'
    BY DEF DrawnBelowCounter, DrawnOnce
  <2> QED
    BY <2>2, <2>3, <2>4, <2>5
<1> QED
  BY <1>1, <1>2, <1>3, <1>4, <1>5, <1>6, <1>7

\* Count: the new block's counter starts.
LEMMA CountKeeps ==
    ASSUME IInv, NEW r \in Request, Count(r), Recorded
    PROVE  IInv'
<1> USE DEF IInv, Count, Goto, atomics, Recorded
<1>1. TypeOK'
  BY DEF TypeOK, PC, Changing
<1>2. FromSequence'
  BY DEF TypeOK, FromSequence
<1>3. CallsSound'
  BY DEF TypeOK, CallsSound, Holding, Done, Installing, FromSequence
<1>4. LocalsDistinct'
  BY DEF TypeOK, LocalsDistinct, CallsSound, Holding, Done
<1>5. PrefetchFresh'
  BY DEF TypeOK, PrefetchFresh, FromSequence
<1>6. Owned'
  BY DEF TypeOK, Owned, KnownTo, FromSequence
<1>7. ASSUME NEW n \in Node, n \notin raced'
      PROVE  Calm(n)'
  <2>1. Calm(n) /\ ~Meeting(n)'
    BY <1>7
  <2> USE <2>1 DEF TypeOK, Calm, Meeting, HoldsStalePrefix, ChangeSound, CallsSound,
                  Holding, Done, Installing, Changing
  <2>2. ChangeSound(n)'
    BY DEF NextFresh, FromSequence, PrefetchFresh
  <2>3. NextFresh(n)'
    BY DEF NextFresh, FromSequence, PrefetchFresh
  <2>4. DrawnBelowCounter(n)'
    BY DEF DrawnBelowCounter
  <2>5. DrawnOnce(n)'
    BY DEF DrawnBelowCounter, DrawnOnce
  <2> QED
    BY <2>2, <2>3, <2>4, <2>5
<1> QED
  BY <1>1, <1>2, <1>3, <1>4, <1>5, <1>6, <1>7

\* ClearFlag: prefetching is allowed again.
LEMMA ClearFlagKeeps ==
    ASSUME IInv, NEW r \in Request, ClearFlag(r), Recorded
    PROVE  IInv'
<1> USE DEF IInv, ClearFlag, Goto, atomics, Recorded
<1>1. TypeOK'
  BY DEF TypeOK, PC, Changing
<1>2. FromSequence'
  BY DEF TypeOK, FromSequence
<1>3. CallsSound'
  BY DEF TypeOK, CallsSound, Holding, Done, Installing, FromSequence
<1>4. LocalsDistinct'
  BY DEF TypeOK, LocalsDistinct, CallsSound, Holding, Done
<1>5. PrefetchFresh'
  BY DEF TypeOK, PrefetchFresh, FromSequence
<1>6. Owned'
  BY DEF TypeOK, Owned, KnownTo, FromSequence
<1>7. ASSUME NEW n \in Node, n \notin raced'
      PROVE  Calm(n)'
  <2>1. Calm(n) /\ ~Meeting(n)'
    BY <1>7
  <2> USE <2>1 DEF TypeOK, Calm, Meeting, HoldsStalePrefix, ChangeSound, CallsSound,
                  Holding, Done, Installing, Changing
  <2>2. ChangeSound(n)'
    BY DEF NextFresh, FromSequence, PrefetchFresh
  <2>3. NextFresh(n)'
    BY DEF NextFresh, FromSequence, PrefetchFresh
  <2>4. DrawnBelowCounter(n)'
    BY DEF DrawnBelowCounter
  <2>5. DrawnOnce(n)'
    BY DEF DrawnBelowCounter, DrawnOnce
  <2> QED
    BY <2>2, <2>3, <2>4, <2>5
<1> QED
  BY <1>1, <1>2, <1>3, <1>4, <1>5, <1>6, <1>7

\* SkipPrefetch: a call returns without a prefetch.
LEMMA SkipPrefetchKeeps ==
    ASSUME IInv, NEW r \in Request, SkipPrefetch(r), Recorded
    PROVE  IInv'
<1> USE DEF IInv, SkipPrefetch, Goto, atomics, Recorded
<1>1. TypeOK'
  BY DEF TypeOK, PC, Changing, BlockTicket, LocalTicket, SuffixMultiplier
<1>2. FromSequence'
  BY DEF TypeOK, FromSequence
<1>h. Holding(r)'
  BY DEF IInv, TypeOK, CallsSound, Holding, Done, BlockTicket, SuffixMultiplier
<1>3. CallsSound'
  BY DEF TypeOK, CallsSound, Holding, Done, Installing, FromSequence, BlockTicket, LocalTicket, SuffixMultiplier
<1>4. LocalsDistinct'
  BY DEF TypeOK, LocalsDistinct, CallsSound, Holding, Done, BlockTicket, LocalTicket, SuffixMultiplier
<1>5. PrefetchFresh'
  BY DEF TypeOK, PrefetchFresh, FromSequence
<1>6. Owned'
  BY DEF TypeOK, Owned, KnownTo, FromSequence
<1>7. ASSUME NEW n \in Node, n \notin raced'
      PROVE  Calm(n)'
  <2>1. Calm(n) /\ ~Meeting(n)'
    BY <1>7
  <2> USE <2>1, <1>h DEF TypeOK, Calm, Meeting, HoldsStalePrefix, ChangeSound, CallsSound,
                  Holding, Done, Installing, Changing
  <2>2. ChangeSound(n)'
    BY DEF NextFresh, FromSequence, PrefetchFresh
  <2>3. NextFresh(n)'
    BY DEF NextFresh, FromSequence, PrefetchFresh
  <2>4. DrawnBelowCounter(n)'
    BY DEF DrawnBelowCounter
  <2>5. DrawnOnce(n)'
    BY DEF DrawnBelowCounter, DrawnOnce
  <2> QED
    BY <2>2, <2>3, <2>4, <2>5
<1> QED
  BY <1>1, <1>2, <1>3, <1>4, <1>5, <1>6, <1>7

\* ClaimPrefetch: a call wins the right to prefetch.
LEMMA ClaimPrefetchKeeps ==
    ASSUME IInv, NEW r \in Request, ClaimPrefetch(r), Recorded
    PROVE  IInv'
<1> USE DEF IInv, ClaimPrefetch, Goto, atomics, Recorded
<1>1. TypeOK'
  BY DEF TypeOK, PC, Changing
<1>2. FromSequence'
  BY DEF TypeOK, FromSequence
<1>3. CallsSound'
  BY DEF TypeOK, CallsSound, Holding, Done, Installing, FromSequence
<1>4. LocalsDistinct'
  BY DEF TypeOK, LocalsDistinct, CallsSound, Holding, Done
<1>5. PrefetchFresh'
  BY DEF TypeOK, PrefetchFresh, FromSequence
<1>6. Owned'
  BY DEF TypeOK, Owned, KnownTo, FromSequence
<1>7. ASSUME NEW n \in Node, n \notin raced'
      PROVE  Calm(n)'
  <2>1. Calm(n) /\ ~Meeting(n)'
    BY <1>7
  <2> USE <2>1 DEF TypeOK, Calm, Meeting, HoldsStalePrefix, ChangeSound, CallsSound,
                  Holding, Done, Installing, Changing
  <2>2. ChangeSound(n)'
    BY DEF NextFresh, FromSequence, PrefetchFresh
  <2>3. NextFresh(n)'
    BY DEF NextFresh, FromSequence, PrefetchFresh
  <2>4. DrawnBelowCounter(n)'
    BY DEF DrawnBelowCounter
  <2>5. DrawnOnce(n)'
    BY DEF DrawnBelowCounter, DrawnOnce
  <2> QED
    BY <2>2, <2>3, <2>4, <2>5
<1> QED
  BY <1>1, <1>2, <1>3, <1>4, <1>5, <1>6, <1>7

\* PrefetchSeq: a prefetch receives a fresh sequence value.
LEMMA PrefetchSeqKeeps ==
    ASSUME IInv, NEW r \in Request, PrefetchSeq(r), Recorded
    PROVE  IInv'
<1> USE DEF IInv, PrefetchSeq, Goto, atomics, Recorded
<1>1. TypeOK'
  BY DEF TypeOK, PC, Changing
<1>2. FromSequence'
  BY DEF TypeOK, FromSequence
<1>3. CallsSound'
  BY DEF TypeOK, CallsSound, Holding, Done, Installing, FromSequence
<1>4. LocalsDistinct'
  BY DEF TypeOK, LocalsDistinct, CallsSound, Holding, Done
<1>5. PrefetchFresh'
  BY DEF TypeOK, PrefetchFresh, FromSequence
<1>6. Owned'
  BY DEF TypeOK, Owned, KnownTo, FromSequence
<1>7. ASSUME NEW n \in Node, n \notin raced'
      PROVE  Calm(n)'
  <2>1. Calm(n) /\ ~Meeting(n)'
    BY <1>7
  <2> USE <2>1 DEF TypeOK, Calm, Meeting, HoldsStalePrefix, ChangeSound, CallsSound,
                  Holding, Done, Installing, Changing
  <2>2. ChangeSound(n)'
    BY DEF NextFresh, FromSequence, PrefetchFresh
  <2>3. NextFresh(n)'
    BY DEF NextFresh, FromSequence, PrefetchFresh
  <2>4. DrawnBelowCounter(n)'
    BY DEF DrawnBelowCounter
  <2>5. DrawnOnce(n)'
    BY DEF DrawnBelowCounter, DrawnOnce
  <2> QED
    BY <2>2, <2>3, <2>4, <2>5
<1> QED
  BY <1>1, <1>2, <1>3, <1>4, <1>5, <1>6, <1>7

\* PrefetchFails: a prefetch fails and its call returns.
LEMMA PrefetchFailsKeeps ==
    ASSUME IInv, NEW r \in Request, PrefetchFails(r), Recorded
    PROVE  IInv'
<1> USE DEF IInv, PrefetchFails, Goto, atomics, Recorded
<1>1. TypeOK'
  BY DEF TypeOK, PC, Changing, BlockTicket, LocalTicket, SuffixMultiplier
<1>2. FromSequence'
  BY DEF TypeOK, FromSequence
<1>h. Holding(r)'
  BY DEF IInv, TypeOK, CallsSound, Holding, Done, BlockTicket, SuffixMultiplier
<1>3. CallsSound'
  BY DEF TypeOK, CallsSound, Holding, Done, Installing, FromSequence, BlockTicket, LocalTicket, SuffixMultiplier
<1>4. LocalsDistinct'
  BY DEF TypeOK, LocalsDistinct, CallsSound, Holding, Done, BlockTicket, LocalTicket, SuffixMultiplier
<1>5. PrefetchFresh'
  BY DEF TypeOK, PrefetchFresh, FromSequence
<1>6. Owned'
  BY DEF TypeOK, Owned, KnownTo, FromSequence
<1>7. ASSUME NEW n \in Node, n \notin raced'
      PROVE  Calm(n)'
  <2>1. Calm(n) /\ ~Meeting(n)'
    BY <1>7
  <2> USE <2>1, <1>h DEF TypeOK, Calm, Meeting, HoldsStalePrefix, ChangeSound, CallsSound,
                  Holding, Done, Installing, Changing
  <2>2. ChangeSound(n)'
    BY DEF NextFresh, FromSequence, PrefetchFresh
  <2>3. NextFresh(n)'
    BY DEF NextFresh, FromSequence, PrefetchFresh
  <2>4. DrawnBelowCounter(n)'
    BY DEF DrawnBelowCounter
  <2>5. DrawnOnce(n)'
    BY DEF DrawnBelowCounter, DrawnOnce
  <2> QED
    BY <2>2, <2>3, <2>4, <2>5
<1> QED
  BY <1>1, <1>2, <1>3, <1>4, <1>5, <1>6, <1>7

\* StoreNext: a prefetched value is stored and its call returns.
LEMMA StoreNextKeeps ==
    ASSUME IInv, NEW r \in Request, StoreNext(r), Recorded
    PROVE  IInv'
<1> USE DEF IInv, StoreNext, Goto, atomics, Recorded
<1>1. TypeOK'
  BY DEF TypeOK, PC, Changing, BlockTicket, LocalTicket, SuffixMultiplier
<1>2. FromSequence'
  BY DEF TypeOK, FromSequence
<1>h. Holding(r)'
  BY DEF IInv, TypeOK, CallsSound, Holding, Done, BlockTicket, SuffixMultiplier
<1>3. CallsSound'
  BY DEF TypeOK, CallsSound, Holding, Done, Installing, FromSequence, BlockTicket, LocalTicket, SuffixMultiplier
<1>4. LocalsDistinct'
  BY DEF TypeOK, LocalsDistinct, CallsSound, Holding, Done, BlockTicket, LocalTicket, SuffixMultiplier
<1>5. PrefetchFresh'
  BY DEF TypeOK, PrefetchFresh, FromSequence
<1>6. Owned'
  BY DEF TypeOK, Owned, KnownTo, FromSequence
<1>7. ASSUME NEW n \in Node, n \notin raced'
      PROVE  Calm(n)'
  <2>1. Calm(n) /\ ~Meeting(n)'
    BY <1>7
  <2> USE <2>1, <1>h DEF TypeOK, Calm, Meeting, HoldsStalePrefix, ChangeSound, CallsSound,
                  Holding, Done, Installing, Changing
  <2>2. ChangeSound(n)'
    BY DEF NextFresh, FromSequence, PrefetchFresh
  <2>3. NextFresh(n)'
    BY DEF NextFresh, FromSequence, PrefetchFresh
  <2>4. DrawnBelowCounter(n)'
    BY DEF DrawnBelowCounter
  <2>5. DrawnOnce(n)'
    BY DEF DrawnBelowCounter, DrawnOnce
  <2> QED
    BY <2>2, <2>3, <2>4, <2>5
<1> QED
  BY <1>1, <1>2, <1>3, <1>4, <1>5, <1>6, <1>7

-----------------------------------------------------------------------------
\* Every step of the system keeps the inductive invariant.
LEMMA NextIInv == IInv /\ [NextR]_varsR => IInv'
<1> SUFFICES ASSUME IInv, [NextR]_varsR PROVE IInv'
  OBVIOUS
<1>1. ASSUME NEW r \in Request, Step(r), Recorded
      PROVE  IInv'
  BY <1>1, LoadPrefixKeeps, FetchSeqKeeps, FetchFailsKeeps, InstallFirstKeeps, CountFirstKeeps, BumpKeeps, PollHitKeeps, PollTimeoutKeeps, InstallKeeps, ClearNextKeeps, CountKeeps, ClearFlagKeeps, SkipPrefetchKeeps, ClaimPrefetchKeeps, PrefetchSeqKeeps, PrefetchFailsKeeps, StoreNextKeeps DEF Step
<1>2. CASE UNCHANGED varsR
  BY <1>2 DEF varsR, vars, atomics, IInv, TypeOK, FromSequence, CallsSound, LocalsDistinct,
     PrefetchFresh, Owned, KnownTo, Calm, Meeting, HoldsStalePrefix, ChangeSound, NextFresh,
     DrawnBelowCounter, DrawnOnce, Holding, Done
<1> QED
  BY <1>1, <1>2 DEF NextR, Next, Recorded

\* Every reachable state satisfies the inductive invariant.
THEOREM TicketIInv == SpecR => []IInv
  BY InitIInv, NextIInv, PTL DEF SpecR

\* The variables keep their types: in particular no more than MaxSeq sequence
\* values are around, and a call is always at one of its program points.
THEOREM TicketTypes == SpecR => []TypeOK
<1>1. IInv => TypeOK
  BY DEF IInv
<1> QED
  BY <1>1, TicketIInv, PTL

\* A ticket number is given twice only by one process, and only after two of its
\* calls met at a change of block (ticket_id_service.rs:118-170).
THEOREM TicketsUniqueUnlessRaced == SpecR => []UniqueUnlessRaced
<1>1. ASSUME IInv, NEW r1 \in Request, NEW r2 \in Request,
             Done(r1), Done(r2), ticket[r1] = ticket[r2]
      PROVE  r1 = r2 \/ (NodeOf[r1] = NodeOf[r2] /\ NodeOf[r1] \in raced)
  <2>1. CASE ticket[r1] < 0
    BY <1>1, <2>1 DEF IInv, LocalsDistinct
  <2>2. CASE ticket[r1] > 0
    <3>1. Holding(r1) /\ Holding(r2)
      BY <1>1, <2>2 DEF Holding
    <3>2. /\ BlockTicket(prefix[r1], suffix[r1]) = BlockTicket(prefix[r2], suffix[r2])
          /\ prefix[r1] # 0
          /\ suffix[r1] \in 1..SuffixMax /\ suffix[r2] \in 1..SuffixMax
      BY <1>1, <2>2, <3>1 DEF IInv, TypeOK, CallsSound
    <3>3. prefix[r1] \in 0..MaxSeq /\ prefix[r2] \in 0..MaxSeq
      BY <1>1 DEF IInv, TypeOK
    <3>4. prefix[r1] = prefix[r2] /\ suffix[r1] = suffix[r2]
      BY <3>2, <3>3, BlockTicketInjective
    <3>5. NodeOf[r1] \in Node /\ NodeOf[r2] \in Node
      OBVIOUS
    <3>6. NodeOf[r1] = NodeOf[r2]
      BY <1>1, <3>2, <3>3, <3>4, <3>5 DEF IInv, Owned, KnownTo
    <3> QED
      BY <1>1, <3>1, <3>4, <3>5, <3>6 DEF IInv, Calm, DrawnOnce
  <2> QED
    BY <1>1, <2>1, <2>2 DEF IInv, TypeOK, CallsSound
<1>2. IInv => UniqueUnlessRaced
  BY <1>1 DEF UniqueUnlessRaced
<1> QED
  BY <1>2, TicketIInv, PTL

\* A finished call returned a local (negative) id or a number whose last digits
\* are a suffix of a block and the digit 1, never 0.
THEOREM TicketsNonZero == SpecR => []NonZeroTicket
<1>1. ASSUME NEW p \in Nat, NEW s \in 1..SuffixMax
      PROVE  /\ BlockTicket(p, s) > 0
             /\ BlockTicket(p, s) % 10 = 1
             /\ (BlockTicket(p, s) \div 10) % SuffixMultiplier = s
  BY DEF BlockTicket, SuffixMultiplier
<1>2. ASSUME IInv, NEW r \in Request, Done(r), ~(ticket[r] < 0)
      PROVE  \E p \in Nat, s \in 1..SuffixMax : ticket[r] = BlockTicket(p, s)
  BY <1>2 DEF IInv, TypeOK, CallsSound, Holding
<1>3. IInv => NonZeroTicket
  BY <1>1, <1>2 DEF NonZeroTicket
<1> QED
  BY <1>3, TicketIInv, PTL
=============================================================================
