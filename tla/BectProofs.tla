----------------------------- MODULE BectProofs -----------------------------
(***************************************************************************)
(* Proofs about BectTransaction for any number of nodes, calls, tickets    *)
(* and restarts: the phases of a trip come in order, accounts are charged  *)
(* for closed trips only, messages follow the phases.  The argument is     *)
(* that no copy of a transaction, in a cache, in the table or in the       *)
(* locals of a call, ever claims a phase that was not passed (Truthful),   *)
(* however stale it is.                                                    *)
(***************************************************************************)
EXTENDS BectTransaction, TLAPS

\* A step may only add to the history and to the reservations.
Grows ==
    /\ accepted \subseteq accepted' /\ reserved \subseteq reserved' /\ closed \subseteq closed'
    /\ accounts' \in 0..MaxAccount /\ accounts <= accounts'
    /\ \A i \in 1..MaxAccount : i <= accounts => account'[i].ticket = account[i].ticket

\* Only call c moves.
Moves(c) == \A d \in Call \ {c} : pc'[d] = pc[d] /\ frame'[d] = frame[d]

\* A call that does not move stays sound: the history only grows.
LEMMA OthersSound ==
  ASSUME IInv, Grows, NEW d \in Call, pc'[d] = pc[d], frame'[d] = frame[d]
  PROVE  Sound(pc[d], frame[d])'
  <1>1. Sound(pc[d], frame[d]) /\ frame[d] \in Frame
    BY DEF IInv, CallsSound, TypeOK
  <1>2. accounts \in 0..MaxAccount
    BY DEF IInv, TypeOK
  <1>3. Reservation(frame[d].charge, frame[d].ticket)'
    BY <1>1, <1>2, BectAssumption DEF Sound, Reservation, Grows, Frame
  <1> QED
    BY <1>1, <1>3 DEF Sound, Truthful, Grows

\* Caches that keep their records, or take truthful ones, stay truthful.
LEMMA MemStep ==
  ASSUME IInv, Grows,
         \A n \in Node, t \in Ticket : mem'[n][t] = mem[n][t] \/ Truthful(mem[n][t], t)'
  PROVE  CachesTruthful'
  BY DEF IInv, CachesTruthful, Truthful, Grows

\* The same for the rows of the stage table.
LEMMA StageStep ==
  ASSUME IInv, Grows,
         \A t \in Ticket : \/ stage'[t] = stage[t]
                          \/ (Truthful(stage[t], t) /\ Reservation(stage[t].account, t))'
  PROVE  RowsTruthful'
  <1> SUFFICES ASSUME NEW t \in Ticket
               PROVE  (Truthful(stage[t], t) /\ Reservation(stage[t].account, t))'
    BY DEF RowsTruthful
  <1>1. CASE stage'[t] # stage[t]
    BY <1>1
  <1>2. CASE stage'[t] = stage[t]
    <2>1. /\ Truthful(stage[t], t) /\ Reservation(stage[t].account, t)
          /\ stage[t] \in Stage /\ accounts \in 0..MaxAccount
      BY DEF IInv, RowsTruthful, TypeOK
    <2>2. Truthful(stage[t], t)'
      BY <1>2, <2>1 DEF Truthful, Grows
    <2>3. Reservation(stage[t].account, t)'
      BY <1>2, <2>1, BectAssumption DEF Reservation, Grows, Stage
    <2> QED
      BY <2>2, <2>3
  <1> QED
    BY <1>1, <1>2

\* What is left to show of a step of call c.
LEMMA CallMoves ==
  ASSUME IInv, Grows, TypeOK', NEW c \in Call, Moves(c), Sound(pc[c], frame[c])',
         CachesTruthful', RowsTruthful', AccountsInOrder',
         PhasesInOrder', ChargesBelongToClosedTrips', MessagesFollowPhases'
  PROVE  IInv'
  <1>1. ASSUME NEW d \in Call
        PROVE  Sound(pc[d], frame[d])'
    <2>1. CASE d = c
      BY <2>1
    <2>2. CASE d # c
      BY <2>2, OthersSound DEF Moves
    <2> QED
      BY <2>1, <2>2
  <1>2. CallsSound'
    BY <1>1 DEF CallsSound
  <1> QED
    BY <1>2 DEF IInv

\* A step that touches nothing but a call's position and locals.
LEMMA LocalStep ==
  ASSUME IInv, NEW c \in Call, NEW label \in PC, NEW f \in Frame, Continue(c, label, f),
         UNCHANGED <<mem, stage, account, accounts, sent, losses, history>>,
         clock' \in Nat, issued' \subseteq Ticket,
         Sound(pc[c], frame[c])'
  PROVE  IInv'
  <1>1. TypeOK'
    BY DEF IInv, TypeOK, Continue, history
  <1>2. Grows /\ Moves(c)
    BY DEF IInv, TypeOK, Continue, history, Grows, Moves
  <1>3. CachesTruthful' /\ RowsTruthful'
    BY <1>2, MemStep, StageStep DEF history
  <1>4. AccountsInOrder' /\ PhasesInOrder' /\ ChargesBelongToClosedTrips' /\ MessagesFollowPhases'
    BY DEF IInv, AccountsInOrder, PhasesInOrder, ChargesBelongToClosedTrips,
           MessagesFollowPhases, history
  <1> QED
    BY <1>1, <1>2, <1>3, <1>4, CallMoves
-----------------------------------------------------------------------------
(* Steps of a call alone *)

\* No ETDR and no row are of the types of ETDRs and rows.
LEMMA NothingTyped == NoEtdr \in Etdr /\ NoStage \in Stage
  BY BectAssumption DEF NoEtdr, Etdr, NoStage, Stage

\* The empty locals are locals, and sound wherever a call may hold them.
LEMMA NoFrameSound ==
  /\ NoFrame \in Frame
  /\ NoFrame.charge = 0 /\ NoFrame.ticket = 0 /\ NoFrame.rowOf = 0
  /\ NoFrame.etdr = NoEtdr /\ NoFrame.row = NoStage
  BY BectAssumption DEF NoFrame, Frame, NoEtdr, Etdr, NoStage, Stage

\* A call that answers is sound.
LEMMA AnswerSound ==
  ASSUME IInv, NEW c \in Call, Answer(c)
  PROVE  Sound(pc[c], frame[c])'
  <1>1. pc'[c] = "done" /\ frame'[c] = NoFrame
    BY DEF IInv, TypeOK, Answer, Continue
  <1> QED
    BY <1>1, NoFrameSound DEF Sound, Truthful, Reservation, NoEtdr, NoStage

\* An early return that changes nothing else preserves the invariant.
LEMMA AnswerOnly ==
  ASSUME IInv, NEW c \in Call, Answer(c),
         UNCHANGED <<mem, stage, account, accounts, sent, clock, issued, losses, history>>
  PROVE  IInv'
  <1>1. "done" \in PC
    BY DEF PC
  <1>2. clock' \in Nat /\ issued' \subseteq Ticket
    BY DEF IInv, TypeOK
  <1> QED
    BY <1>1, <1>2, NoFrameSound, AnswerSound, LocalStep DEF Answer

\* A check-in starts with a new ticket and an ETDR that claims no phase.
LEMMA CheckinBuildStep ==
  ASSUME IInv, NEW c \in Call, CheckinBuild(c)
  PROVE  IInv'
  <1>1. PICK t \in Ticket \ issued, now \in clock..MaxTime :
           /\ clock' = now
           /\ issued' = issued \cup {t}
           /\ Continue(c, "insert", [NoFrame EXCEPT !.ticket = t, !.etdr = NewEtdr(now)])
    BY DEF CheckinBuild
  <1> DEFINE f == [NoFrame EXCEPT !.ticket = t, !.etdr = NewEtdr(now)]
  <1>2. clock' \in Nat /\ issued' \subseteq Ticket
    BY <1>1, BectAssumption DEF IInv, TypeOK
  <1>3. NewEtdr(now) \in Etdr
    BY <1>1, <1>2 DEF NewEtdr, Etdr
  <1>4. f \in Frame /\ "insert" \in PC
    BY <1>3, NoFrameSound DEF Frame, PC
  <1>5. pc'[c] = "insert" /\ frame'[c] = f
    BY <1>1 DEF Continue, IInv, TypeOK
  <1>6. Sound(pc[c], frame[c])'
    BY <1>5, NoFrameSound DEF Sound, Truthful, Reservation, NewEtdr, NoStage, Frame
  <1>7. UNCHANGED <<mem, stage, account, accounts, sent, losses, history>>
    BY DEF CheckinBuild
  <1> QED
    BY <1>1, <1>2, <1>4, <1>6, <1>7, LocalStep
\* A call that keeps its locals and moves to a label where they are sound.
LEMMA GotoStep ==
  ASSUME IInv, NEW c \in Call, NEW label \in PC, Goto(c, label),
         UNCHANGED <<mem, stage, account, accounts, sent, clock, issued, losses, history>>,
         Sound(label, frame[c])
  PROVE  IInv'
  <1>1. frame[c] \in Frame /\ clock' \in Nat /\ issued' \subseteq Ticket
    BY DEF IInv, TypeOK
  <1>2. pc'[c] = label /\ frame'[c] = frame[c]
    BY DEF Goto, Continue, IInv, TypeOK
  <1>3. Sound(pc[c], frame[c])'
    BY <1>2 DEF Sound, Truthful, Reservation, history
  <1> QED
    BY <1>1, <1>3, LocalStep DEF Goto

\* A copy taken from the cache is as truthful as the cache.
LEMMA TakeCachedStep ==
  ASSUME IInv, NEW c \in Call, NEW label \in {"stage", "touch"}, TakeCached(c, label),
         frame[c].charge = 0, NodeOf[c] \in Node,
         UNCHANGED <<mem, stage, account, accounts, sent, clock, issued, losses, history>>
  PROVE  IInv'
  <1>1. /\ frame[c] \in Frame /\ clock' \in Nat /\ issued' \subseteq Ticket
        /\ Truthful(frame[c].row, frame[c].rowOf) /\ label \in PC
    BY DEF IInv, TypeOK, CallsSound, Sound, PC
  <1>2. CASE Continue(c, label, [frame[c] EXCEPT !.ticket = 0, !.etdr = NoEtdr])
    <2> DEFINE f == [frame[c] EXCEPT !.ticket = 0, !.etdr = NoEtdr]
    <2>1. f \in Frame
      BY <1>1, NothingTyped DEF Frame
    <2>2. pc'[c] = label /\ frame'[c] = f
      BY <1>2 DEF Continue, IInv, TypeOK
    <2>3. Sound(pc[c], frame[c])'
      BY <1>1, <2>2 DEF Sound, Truthful, Reservation, NoEtdr, Frame, history
    <2> QED
      BY <1>1, <1>2, <2>1, <2>3, LocalStep
  <1>3. ASSUME NEW t \in Cached(NodeOf[c]),
               Continue(c, label, [frame[c] EXCEPT !.ticket = t, !.etdr = mem[NodeOf[c]][t]])
        PROVE  IInv'
    <2> DEFINE f == [frame[c] EXCEPT !.ticket = t, !.etdr = mem[NodeOf[c]][t]]
    <2>1. /\ t \in Ticket /\ mem[NodeOf[c]][t] \in Etdr
          /\ Truthful(mem[NodeOf[c]][t], t)
      BY <1>3 DEF Cached, IInv, TypeOK, CachesTruthful
    <2>2. f \in Frame
      BY <1>1, <2>1 DEF Frame
    <2>3. pc'[c] = label /\ frame'[c] = f
      BY <1>3 DEF Continue, IInv, TypeOK
    <2>4. Sound(pc[c], frame[c])'
      BY <1>1, <2>1, <2>3 DEF Sound, Truthful, Reservation, Frame, history
    <2> QED
      BY <1>1, <1>3, <2>2, <2>4, LocalStep
  <1> QED
    BY <1>2, <1>3 DEF TakeCached

\* A cached copy is taken while the call holds no reservation.
LEMMA ReadCacheStep ==
  ASSUME IInv, NEW c \in Call, ReadCache(c) \/ CommitNoLane(c)
  PROVE  IInv'
  <1>1. frame[c].charge = 0
    BY DEF ReadCache, CommitNoLane, IInv, CallsSound, Sound
  <1> QED
    BY <1>1, BectAssumption, TakeCachedStep DEF ReadCache, CommitNoLane

\* A copy of a row is as truthful as the table; a failed query gives none.
LEMMA ReadStageStep ==
  ASSUME IInv, NEW c \in Call, ReadStage(c)
  PROVE  IInv'
  <1>1. /\ frame[c] \in Frame /\ clock' \in Nat /\ issued' \subseteq Ticket
        /\ Truthful(frame[c].etdr, frame[c].ticket) /\ "merge" \in PC /\ frame[c].charge = 0
    BY DEF ReadStage, IInv, TypeOK, CallsSound, Sound, PC
  <1>u. UNCHANGED <<accepted, reserved, closed>>
    BY DEF ReadStage, history
  <1>2. CASE Continue(c, "merge", [frame[c] EXCEPT !.rowOf = 0, !.row = NoStage])
    <2> DEFINE f == [frame[c] EXCEPT !.rowOf = 0, !.row = NoStage]
    <2>1. f \in Frame
      BY <1>1, NothingTyped DEF Frame
    <2>2. pc'[c] = "merge" /\ frame'[c] = f
      BY <1>2 DEF Continue, IInv, TypeOK
    <2>3. Sound(pc[c], frame[c])'
      BY <1>1, <1>u, <2>2 DEF Sound, Truthful, Reservation, NoStage, Frame
    <2> QED
      BY <1>1, <1>2, <2>1, <2>3, LocalStep DEF ReadStage
  <1>3. ASSUME NEW t \in Stored,
               Continue(c, "merge", [frame[c] EXCEPT !.rowOf = t, !.row = stage[t]])
        PROVE  IInv'
    <2> DEFINE f == [frame[c] EXCEPT !.rowOf = t, !.row = stage[t]]
    <2>1. t \in Ticket /\ stage[t] \in Stage /\ Truthful(stage[t], t)
      BY <1>3 DEF Stored, IInv, TypeOK, RowsTruthful
    <2>2. f \in Frame
      BY <1>1, <2>1 DEF Frame
    <2>3. pc'[c] = "merge" /\ frame'[c] = f
      BY <1>3 DEF Continue, IInv, TypeOK
    <2>4. Sound(pc[c], frame[c])'
      BY <1>1, <1>u, <2>1, <2>3 DEF Sound, Truthful, Reservation, Frame
    <2> QED
      BY <1>1, <1>3, <2>2, <2>4, LocalStep DEF ReadStage
  <1> QED
    BY <1>2, <1>3 DEF ReadStage

\* A checkout commit starts with the ticket it was asked for, or looks for one.
LEMMA ExitBeginStep ==
  ASSUME IInv, NEW c \in Call, ExitBegin(c)
  PROVE  IInv'
  <1>1. Sound("idle", frame[c]) /\ "cache" \in PC /\ "lookup" \in PC
    BY DEF ExitBegin, IInv, CallsSound, PC
  <1>2. CASE Goto(c, "cache")
    BY <1>1, <1>2, GotoStep DEF ExitBegin, Sound
  <1>3. ASSUME NEW t \in issued, Continue(c, "lookup", [NoFrame EXCEPT !.wanted = t])
        PROVE  IInv'
    <2>1. t \in Ticket /\ clock' \in Nat /\ issued' \subseteq Ticket
      BY <1>3 DEF ExitBegin, IInv, TypeOK
    <2>2. [NoFrame EXCEPT !.wanted = t] \in Frame
      BY <2>1, NoFrameSound DEF Frame
    <2>3. pc'[c] = "lookup" /\ frame'[c] = [NoFrame EXCEPT !.wanted = t]
      BY <1>3 DEF Continue, IInv, TypeOK
    <2>4. Sound(pc[c], frame[c])'
      BY <2>1, <2>3, NoFrameSound
         DEF Sound, Truthful, Reservation, NoEtdr, NoStage, Frame
    <2> QED
      BY <1>1, <1>3, <2>1, <2>2, <2>4, LocalStep DEF ExitBegin
  <1> QED
    BY <1>2, <1>3 DEF ExitBegin

\* A checkout commit goes on with a cached ETDR only if that has its checkout.
LEMMA ExitLookupStep ==
  ASSUME IInv, NEW c \in Call, ExitLookup(c)
  PROVE  IInv'
  <1> DEFINE t == frame[c].wanted
             e == mem[NodeOf[c]][t]
  <1>1. /\ Sound("lookup", frame[c]) /\ "cache" \in PC /\ "load" \in PC
        /\ t \in Ticket /\ frame[c] \in Frame
        /\ clock' \in Nat /\ issued' \subseteq Ticket
    BY DEF ExitLookup, IInv, CallsSound, TypeOK, PC, Sound
  <1>2. CASE Goto(c, "cache")
    BY <1>1, <1>2, GotoStep DEF ExitLookup, Sound
  <1>3. CASE Answer(c)
    BY <1>3, AnswerOnly DEF ExitLookup
  <1>4. CASE ExitAdmits(e) /\ Continue(c, "load", [frame[c] EXCEPT !.ticket = t, !.etdr = e])
    <2>1. e \in Etdr /\ Truthful(e, t)
      <3>1. NodeOf[c] \in Node
        BY BectAssumption
      <3>2. mem \in [Node -> [Ticket -> Etdr]] /\ CachesTruthful
        BY DEF IInv, TypeOK
      <3> QED
        BY <1>1, <3>1, <3>2 DEF CachesTruthful
    <2>2. [frame[c] EXCEPT !.ticket = t, !.etdr = e] \in Frame
      BY <1>1, <2>1 DEF Frame
    <2>3. pc'[c] = "load" /\ frame'[c] = [frame[c] EXCEPT !.ticket = t, !.etdr = e]
      BY <1>4 DEF Continue, IInv, TypeOK
    <2>4. Sound(pc[c], frame[c])'
      BY <1>1, <1>4, <2>1, <2>3
         DEF Sound, Truthful, Reservation, Frame, history, ExitLookup, ExitAdmits
    <2> QED
      BY <1>1, <1>4, <2>2, <2>4, LocalStep DEF ExitLookup
  <1> QED
    BY <1>2, <1>3, <1>4 DEF ExitLookup

\* Reading ACCOUNT_TRANSACTION changes nothing a call relies on.
LEMMA ExitReadAccountStep ==
  ASSUME IInv, NEW c \in Call, ExitReadAccount(c)
  PROVE  IInv'
  <1>1. Sound("charge", frame[c]) /\ Sound("commitOut", frame[c])
    BY DEF ExitReadAccount, IInv, CallsSound, Sound
  <1>2. "charge" \in PC /\ "commitOut" \in PC
    BY DEF PC
  <1> QED
    BY <1>1, <1>2, GotoStep DEF ExitReadAccount

\* A reserve may go on without a reservation.
LEMMA ReserveAccountFailsStep ==
  ASSUME IInv, NEW c \in Call, ReserveAccountFails(c)
  PROVE  IInv'
  <1>1. Sound("reserveOut", frame[c]) /\ "reserveOut" \in PC
    BY DEF ReserveAccountFails, IInv, CallsSound, Sound, PC
  <1> QED
    BY <1>1, GotoStep DEF ReserveAccountFails

\* A failed insert leaves the ETDR to be kept in memory.
LEMMA CheckinInsertFailsStep ==
  ASSUME IInv, NEW c \in Call, CheckinInsertFails(c)
  PROVE  IInv'
  <1>1. Sound("unsaved", frame[c]) /\ "unsaved" \in PC
    BY DEF CheckinInsertFails, IInv, CallsSound, Sound, PC
  <1> QED
    BY <1>1, GotoStep DEF CheckinInsertFails
-----------------------------------------------------------------------------
(* Steps that write a cache *)

\* Call c writes a truthful record to a cache and goes on.
LEMMA SaveStep ==
  ASSUME IInv, NEW c \in Call, NEW n \in Node, NEW t \in Ticket, NEW e \in Etdr,
         Grows, SaveEtdr(n, t, e), Truthful(mem[n][t], t)',
         pc' \in [Call -> PC], frame' \in [Call -> Frame], Moves(c),
         Sound(pc[c], frame[c])',
         UNCHANGED <<stage, account, accounts, clock, issued, losses>>,
         sent' \subseteq {"CHECKIN", "CHECKOUT"} \X Ticket,
         accepted' \subseteq Ticket, reserved' \subseteq Ticket, closed' \subseteq Ticket,
         PhasesInOrder', MessagesFollowPhases'
  PROVE  IInv'
  <1>1. TypeOK'
    BY DEF IInv, TypeOK, SaveEtdr
  <1>2. CachesTruthful'
    <2>1. \A m \in Node, u \in Ticket :
             mem'[m][u] = mem[m][u] \/ (m = n /\ u = t)
      BY DEF SaveEtdr, IInv, TypeOK
    <2> QED
      BY <2>1, MemStep
  <1>3. RowsTruthful'
    BY StageStep
  <1>4. AccountsInOrder' /\ ChargesBelongToClosedTrips'
    BY DEF IInv, AccountsInOrder, ChargesBelongToClosedTrips, Grows
  <1> QED
    BY <1>1, <1>2, <1>3, <1>4, CallMoves

\* Where the history and the messages stay as they are, so do their properties.
LEMMA HistoryStays ==
  ASSUME IInv, NEW c \in Call, NEW label \in PC, NEW f \in Frame, Continue(c, label, f),
         UNCHANGED <<account, accounts, sent, history>>
  PROVE  /\ Grows /\ Moves(c)
         /\ pc' \in [Call -> PC] /\ frame' \in [Call -> Frame]
         /\ pc'[c] = label /\ frame'[c] = f
         /\ sent' \subseteq {"CHECKIN", "CHECKOUT"} \X Ticket
         /\ accepted' \subseteq Ticket /\ reserved' \subseteq Ticket /\ closed' \subseteq Ticket
         /\ PhasesInOrder' /\ MessagesFollowPhases'
  BY DEF IInv, TypeOK, Continue, history, Grows, Moves, PhasesInOrder, MessagesFollowPhases

\* A step that only writes a truthful record and answers.
LEMMA SaveAndAnswer ==
  ASSUME IInv, NEW c \in Call, NEW t \in Ticket, NEW e \in Etdr,
         SaveEtdr(NodeOf[c], t, e), Answer(c), Truthful(e, t),
         UNCHANGED <<stage, account, accounts, sent, clock, issued, losses, history>>
  PROVE  IInv'
  <1>1. NodeOf[c] \in Node /\ "done" \in PC
    BY BectAssumption DEF PC
  <1>2. /\ Grows /\ Moves(c)
        /\ pc' \in [Call -> PC] /\ frame' \in [Call -> Frame]
        /\ sent' \subseteq {"CHECKIN", "CHECKOUT"} \X Ticket
        /\ accepted' \subseteq Ticket /\ reserved' \subseteq Ticket /\ closed' \subseteq Ticket
        /\ PhasesInOrder' /\ MessagesFollowPhases'
    BY <1>1, NoFrameSound, HistoryStays DEF Answer
  <1>3. mem'[NodeOf[c]][t] = e
    BY <1>1 DEF SaveEtdr, IInv, TypeOK
  <1>4. Truthful(mem[NodeOf[c]][t], t)'
    BY <1>3 DEF Truthful, history
  <1> QED
    BY <1>1, <1>2, <1>4, AnswerSound, SaveStep

\* At the end of a check-in its ETDR goes to the cache.
LEMMA CheckinSavesStep ==
  ASSUME IInv, NEW c \in Call, CheckinVerify(c) \/ CheckinUnsaved(c)
  PROVE  IInv'
  <1>1. /\ frame[c].ticket \in Ticket /\ frame[c].etdr \in Etdr
        /\ Truthful(frame[c].etdr, frame[c].ticket)
    BY DEF CheckinVerify, CheckinUnsaved, IInv, CallsSound, Sound, TypeOK, Frame
  <1> QED
    BY <1>1, SaveAndAnswer DEF CheckinVerify, CheckinUnsaved

\* For an unknown lane the cached ETDR is written back as it was read.
LEMMA CommitTouchStep ==
  ASSUME IInv, NEW c \in Call, CommitTouch(c)
  PROVE  IInv'
  <1>1. /\ frame[c].ticket \in Ticket \cup {0} /\ frame[c].etdr \in Etdr
        /\ Truthful(frame[c].etdr, frame[c].ticket)
    BY DEF CommitTouch, IInv, CallsSound, Sound, TypeOK, Frame
  <1>2. CASE frame[c].ticket # 0
    BY <1>1, <1>2, SaveAndAnswer DEF CommitTouch
  <1>3. CASE frame[c].ticket = 0
    BY <1>3, AnswerOnly DEF CommitTouch
  <1> QED
    BY <1>2, <1>3

\* clear_etdr_after_transaction_complete and the CHECKOUT message.
LEMMA ExitFinishStep ==
  ASSUME IInv, NEW c \in Call, ExitFinish(c)
  PROVE  IInv'
  <1>0. PICK t \in Ticket : t = frame[c].ticket
    BY DEF ExitFinish, IInv, CallsSound, Sound, TypeOK
  <1>1. t \in closed /\ NodeOf[c] \in Node /\ NoEtdr \in Etdr /\ "done" \in PC
    BY <1>0, BectAssumption DEF ExitFinish, IInv, CallsSound, Sound, TypeOK, NoEtdr, Etdr, PC
  <1>2. /\ Grows /\ Moves(c) /\ pc' \in [Call -> PC] /\ frame' \in [Call -> Frame]
        /\ accepted' \subseteq Ticket /\ reserved' \subseteq Ticket /\ closed' \subseteq Ticket
        /\ PhasesInOrder'
    BY <1>1, NoFrameSound
       DEF ExitFinish, IInv, TypeOK, Answer, Continue, history, Grows, Moves, PhasesInOrder
  <1>3. sent' = sent \cup {<<"CHECKOUT", t>>} /\ UNCHANGED <<accepted, reserved, closed>>
    BY <1>0 DEF ExitFinish, history
  <1>4. sent' \subseteq {"CHECKIN", "CHECKOUT"} \X Ticket
    BY <1>1, <1>3 DEF IInv, TypeOK
  <1>5. MessagesFollowPhases'
    BY <1>1, <1>3 DEF IInv, MessagesFollowPhases
  <1>6. Truthful(mem[NodeOf[c]][t], t)'
    <2>1. mem'[NodeOf[c]][t] = NoEtdr
      BY <1>0, <1>1 DEF ExitFinish, SaveEtdr, IInv, TypeOK
    <2> QED
      BY <2>1 DEF Truthful, NoEtdr
  <1>7. SaveEtdr(NodeOf[c], t, NoEtdr) /\ Sound(pc[c], frame[c])'
        /\ UNCHANGED <<stage, account, accounts, clock, issued, losses>>
    BY <1>0, AnswerSound DEF ExitFinish
  <1> QED
    BY <1>1, <1>2, <1>4, <1>5, <1>6, <1>7, SaveStep

\* The commit reaches memory, and the CHECKIN message is sent.
LEMMA CommitFinishStep ==
  ASSUME IInv, NEW c \in Call, CommitFinish(c)
  PROVE  IInv'
  <1>0. PICK t \in Ticket, e \in Etdr :
            t = frame[c].ticket /\ e = [frame[c].etdr EXCEPT !.committed = TRUE]
    BY DEF CommitFinish, IInv, CallsSound, Sound, TypeOK, Frame, Etdr
  <1>1. /\ t \in accepted /\ NodeOf[c] \in Node /\ "done" \in PC
        /\ frame[c].etdr \in Etdr /\ Truthful(frame[c].etdr, t)
    BY <1>0, BectAssumption DEF CommitFinish, IInv, CallsSound, Sound, TypeOK, Frame, PC
  <1>2. /\ Grows /\ Moves(c) /\ pc' \in [Call -> PC] /\ frame' \in [Call -> Frame]
        /\ accepted' \subseteq Ticket /\ reserved' \subseteq Ticket /\ closed' \subseteq Ticket
        /\ PhasesInOrder'
    BY <1>1, NoFrameSound
       DEF CommitFinish, IInv, TypeOK, Answer, Continue, history, Grows, Moves, PhasesInOrder
  <1>3. sent' = sent \cup {<<"CHECKIN", t>>} /\ UNCHANGED <<accepted, reserved, closed>>
    BY <1>0 DEF CommitFinish, history
  <1>4. sent' \subseteq {"CHECKIN", "CHECKOUT"} \X Ticket
    BY <1>1, <1>3 DEF IInv, TypeOK
  <1>5. MessagesFollowPhases'
    BY <1>1, <1>3 DEF IInv, MessagesFollowPhases
  <1>6. e \in Etdr
    BY <1>0, <1>1 DEF Etdr
  <1>7. Truthful(mem[NodeOf[c]][t], t)'
    <2>1. mem'[NodeOf[c]][t] = e
      BY <1>0, <1>1 DEF CommitFinish, SaveEtdr, IInv, TypeOK
    <2> QED
      BY <1>0, <1>1, <1>3, <2>1 DEF Truthful, Etdr
  <1>8. SaveEtdr(NodeOf[c], t, e) /\ Sound(pc[c], frame[c])'
        /\ UNCHANGED <<stage, account, accounts, clock, issued, losses>>
    BY <1>0, AnswerSound DEF CommitFinish
  <1> QED
    BY <1>1, <1>2, <1>4, <1>5, <1>6, <1>7, <1>8, SaveStep

\* The fare is known: the ETDR is marked in memory.
LEMMA ReserveMarkStep ==
  ASSUME IInv, NEW c \in Call, ReserveMark(c)
  PROVE  IInv'
  <1>0. PICK t, e : t = frame[c].ticket /\ e = [frame[c].etdr EXCEPT !.checkout = TRUE]
    OBVIOUS
  <1>1. /\ t \in accepted /\ t \in Ticket /\ NodeOf[c] \in Node /\ frame[c] \in Frame
        /\ frame[c].etdr \in Etdr /\ Truthful(frame[c].etdr, t) /\ frame[c].charge = 0
        /\ Truthful(frame[c].row, frame[c].rowOf)
    BY <1>0, BectAssumption DEF ReserveMark, IInv, CallsSound, Sound, TypeOK, Frame, Truthful
  <1>2. PICK label \in {"account", "reserveOut"} :
           Continue(c, label, [frame[c] EXCEPT !.etdr = e])
    BY <1>0 DEF ReserveMark
  <1>3. /\ SaveEtdr(NodeOf[c], t, e) /\ reserved' = reserved \cup {t}
        /\ UNCHANGED <<stage, account, accounts, clock, issued, losses, sent, accepted, closed>>
    BY <1>0 DEF ReserveMark
  <1>4. e \in Etdr /\ [frame[c] EXCEPT !.etdr = e] \in Frame /\ label \in PC
    BY <1>0, <1>1, <1>2 DEF Etdr, Frame, PC
  <1>5. Grows /\ Moves(c)
    BY <1>2, <1>3 DEF IInv, TypeOK, Continue, Grows, Moves
  <1>6. /\ pc' \in [Call -> PC] /\ frame' \in [Call -> Frame]
        /\ pc'[c] = label /\ frame'[c] = [frame[c] EXCEPT !.etdr = e]
    BY <1>2, <1>4 DEF IInv, TypeOK, Continue
  <1>7. Truthful(e, t)'
    BY <1>0, <1>1, <1>3 DEF Truthful, Etdr
  <1>8. Truthful(mem[NodeOf[c]][t], t)'
    <2>1. mem'[NodeOf[c]][t] = e
      BY <1>1, <1>3 DEF SaveEtdr, IInv, TypeOK
    <2> QED
      BY <1>7, <2>1 DEF Truthful
  <1>9. Sound(pc[c], frame[c])'
    BY <1>0, <1>1, <1>2, <1>3, <1>6, <1>7 DEF Sound, Truthful, Reservation, Frame
  <1>10. PhasesInOrder' /\ MessagesFollowPhases'
    BY <1>1, <1>3 DEF IInv, PhasesInOrder, MessagesFollowPhases
  <1>11. /\ sent' \subseteq {"CHECKIN", "CHECKOUT"} \X Ticket
         /\ accepted' \subseteq Ticket /\ reserved' \subseteq Ticket /\ closed' \subseteq Ticket
    BY <1>1, <1>3 DEF IInv, TypeOK
  <1> QED
    BY <1>1, <1>3, <1>4, <1>5, <1>6, <1>8, <1>9, <1>10, <1>11, SaveStep

\* Whatever a call does with a merged, truthful transaction, it ends up sound.
LEMMA ProceedSound ==
  ASSUME IInv, NEW c \in Call, NEW f \in Frame, Proceed(c, f),
         Truthful(f.etdr, f.ticket), Truthful(f.row, f.rowOf), f.charge = 0,
         UNCHANGED <<account, accounts, history>>
  PROVE  /\ \E label \in PC, g \in Frame : Continue(c, label, g)
         /\ Sound(pc[c], frame[c])'
  <1>0. UNCHANGED <<accepted, reserved, closed>>
    BY DEF history
  <1>1. CASE Answer(c)
    <2>1. "done" \in PC
      BY DEF PC
    <2> QED
      BY <1>1, <2>1, AnswerSound, NoFrameSound DEF Answer
  <1>2. CASE CommitAdmits(f.etdr) /\ Continue(c, "recheck", f)
    <2>1. pc'[c] = "recheck" /\ frame'[c] = f /\ "recheck" \in PC
      BY <1>2 DEF Continue, IInv, TypeOK, PC
    <2> QED
      BY <1>0, <1>2, <2>1 DEF Sound, Truthful, Reservation, CommitAdmits
  <1>3. CASE ReserveAdmits(f.etdr) /\ Continue(c, "price", f)
    <2>1. pc'[c] = "price" /\ frame'[c] = f /\ "price" \in PC
      BY <1>3 DEF Continue, IInv, TypeOK, PC
    <2> QED
      BY <1>0, <1>3, <2>1 DEF Sound, Truthful, Reservation, ReserveAdmits
  <1>4. CASE f.ticket # 0 /\ Continue(c, "lookup", [f EXCEPT !.wanted = f.ticket])
    <2> DEFINE g == [f EXCEPT !.wanted = f.ticket]
    <2>1. pc'[c] = "lookup" /\ frame'[c] = g /\ "lookup" \in PC
      BY <1>4 DEF Continue, IInv, TypeOK, PC
    <2>2. g \in Frame /\ g.wanted \in Ticket
      BY <1>4 DEF Frame
    <2>3. Sound(pc[c], frame[c])'
      BY <1>0, <2>1, <2>2 DEF Sound, Truthful, Reservation, Frame
    <2> QED
      BY <1>4, <2>1, <2>2, <2>3
  <1>5. CASE ExitAdmits(f.etdr) /\ Continue(c, "load", f)
    <2>1. pc'[c] = "load" /\ frame'[c] = f /\ "load" \in PC
      BY <1>5 DEF Continue, IInv, TypeOK, PC
    <2> QED
      BY <1>0, <1>5, <2>1 DEF Sound, Truthful, Reservation, ExitAdmits
  <1> QED
    BY <1>1, <1>2, <1>3, <1>4, <1>5 DEF Proceed

\* The row goes to the cache, and the later of row and cached copy is used.
LEMMA MergeStep ==
  ASSUME IInv, NEW c \in Call, Merge(c)
  PROVE  IInv'
  <1>0. PICK f : f = frame[c]
    OBVIOUS
  <1>1. /\ f \in Frame /\ NodeOf[c] \in Node /\ f.charge = 0
        /\ Truthful(f.etdr, f.ticket) /\ Truthful(f.row, f.rowOf)
        /\ f.rowOf \in Ticket \cup {0} /\ f.row \in Stage
    BY <1>0, BectAssumption DEF Merge, IInv, CallsSound, Sound, TypeOK, Frame
  <1>2. UNCHANGED <<stage, account, accounts, sent, clock, issued, losses, history>>
    BY DEF Merge
  <1>3. FromStage(f.row) \in Etdr /\ Truthful(FromStage(f.row), f.rowOf)
    BY <1>1 DEF FromStage, Etdr, Stage, Truthful
  <1>4. /\ \E label \in PC, g \in Frame : Continue(c, label, g)
        /\ Sound(pc[c], frame[c])'
    <2>1. CASE PrefersRow(f.etdr, f.row)
      <3> DEFINE g == [f EXCEPT !.ticket = f.rowOf, !.etdr = FromStage(f.row)]
      <3>1. /\ g \in Frame /\ g.charge = 0
            /\ Truthful(g.etdr, g.ticket) /\ Truthful(g.row, g.rowOf)
        BY <1>1, <1>3 DEF Frame
      <3>2. Proceed(c, g)
        BY <1>0, <2>1 DEF Merge
      <3> HIDE DEF g
      <3> QED
        BY <1>2, <3>1, <3>2, ProceedSound
    <2>2. CASE ~PrefersRow(f.etdr, f.row)
      <3>1. Proceed(c, f)
        BY <1>0, <2>2 DEF Merge
      <3> QED
        BY <1>1, <1>2, <3>1, ProceedSound
    <2> QED
      BY <2>1, <2>2
  <1>5. PICK label \in PC, g \in Frame : Continue(c, label, g)
    BY <1>4
  <1>6. /\ Grows /\ Moves(c)
        /\ pc' \in [Call -> PC] /\ frame' \in [Call -> Frame]
        /\ sent' \subseteq {"CHECKIN", "CHECKOUT"} \X Ticket
        /\ accepted' \subseteq Ticket /\ reserved' \subseteq Ticket /\ closed' \subseteq Ticket
        /\ PhasesInOrder' /\ MessagesFollowPhases'
    BY <1>2, <1>5, HistoryStays
  <1>7. CASE f.row.checkin # 0
    <2>1. f.rowOf \in Ticket
      BY <1>1, <1>7 DEF Truthful
    <2>2. SaveEtdr(NodeOf[c], f.rowOf, FromStage(f.row))
      BY <1>0, <1>7 DEF Merge
    <2>3. mem'[NodeOf[c]][f.rowOf] = FromStage(f.row)
      BY <1>1, <2>1, <2>2 DEF SaveEtdr, IInv, TypeOK
    <2>4. Truthful(mem[NodeOf[c]][f.rowOf], f.rowOf)'
      BY <1>2, <1>3, <2>3 DEF Truthful, history
    <2> QED
      BY <1>1, <1>2, <1>3, <1>4, <1>6, <2>1, <2>2, <2>4, SaveStep
  <1>8. CASE f.row.checkin = 0
    <2>1. mem' = mem /\ clock' \in Nat /\ issued' \subseteq Ticket
      BY <1>0, <1>2, <1>8 DEF Merge, IInv, TypeOK
    <2> QED
      BY <1>2, <1>4, <1>5, <2>1, LocalStep
  <1> QED
    BY <1>7, <1>8
-----------------------------------------------------------------------------
(* Steps that pass a check and write the history *)

\* The stored row is uncommitted: the commit is accepted.
LEMMA CommitRecheckStep ==
  ASSUME IInv, NEW c \in Call, CommitRecheck(c)
  PROVE  IInv'
  <1>1. /\ frame[c].ticket \in Ticket /\ frame[c] \in Frame /\ "commitIn" \in PC
        /\ Sound("recheck", frame[c])
    BY DEF CommitRecheck, IInv, CallsSound, Sound, TypeOK, PC
  <1>2. /\ accepted' = accepted \cup {frame[c].ticket}
        /\ UNCHANGED <<mem, stage, account, accounts, sent, clock, issued, losses, reserved, closed>>
        /\ Continue(c, "commitIn", frame[c])
    BY DEF CommitRecheck, Goto
  <1>3. TypeOK' /\ pc'[c] = "commitIn" /\ frame'[c] = frame[c]
    BY <1>1, <1>2 DEF IInv, TypeOK, Continue
  <1>4. Grows /\ Moves(c)
    BY <1>2 DEF IInv, TypeOK, Continue, Grows, Moves
  <1>5. CachesTruthful' /\ RowsTruthful'
    BY <1>2, <1>4, MemStep, StageStep
  <1>6. Sound(pc[c], frame[c])'
    BY <1>1, <1>2, <1>3 DEF Sound, Truthful, Reservation
  <1>7. AccountsInOrder' /\ PhasesInOrder' /\ ChargesBelongToClosedTrips' /\ MessagesFollowPhases'
    BY <1>2 DEF IInv, AccountsInOrder, PhasesInOrder, ChargesBelongToClosedTrips,
                MessagesFollowPhases
  <1> QED
    BY <1>3, <1>4, <1>5, <1>6, <1>7, CallMoves

\* The row is found: the trip is closed, and its reservation becomes the call's.
LEMMA ExitLoadStep ==
  ASSUME IInv, NEW c \in Call, ExitLoad(c)
  PROVE  IInv'
  <1>0. PICK t : t = frame[c].ticket
    OBVIOUS
  <1>1. /\ t \in Ticket /\ t \in reserved /\ frame[c] \in Frame /\ Sound("load", frame[c])
        /\ stage[t] \in Stage /\ Reservation(stage[t].account, t)
    BY <1>0 DEF ExitLoad, Stored, IInv, CallsSound, RowsTruthful, Sound, Truthful, TypeOK
  <1>2. /\ closed' = closed \cup {t}
        /\ UNCHANGED <<mem, stage, account, accounts, sent, clock, issued, losses, accepted, reserved>>
    BY <1>0 DEF ExitLoad
  <1>3. PICK label \in PC, f \in Frame :
           /\ Continue(c, label, f)
           /\ f.ticket = t /\ f.etdr = frame[c].etdr
           /\ f.row = frame[c].row /\ f.rowOf = frame[c].rowOf
           /\ \/ label = "balance" /\ f.charge = stage[t].account /\ f.charge # 0
              \/ label = "commitOut" /\ f.charge = 0
    <2>1. CASE stage[t].account # 0
      <3> DEFINE f == [frame[c] EXCEPT !.charge = stage[t].account]
      <3>1. f \in Frame /\ "balance" \in PC
        BY <1>1 DEF Frame, Stage, PC
      <3>2. Continue(c, "balance", f)
        BY <1>0, <2>1 DEF ExitLoad
      <3>3. /\ f.ticket = t /\ f.etdr = frame[c].etdr
            /\ f.row = frame[c].row /\ f.rowOf = frame[c].rowOf
            /\ f.charge = stage[t].account
        BY <1>0, <1>1 DEF Frame
      <3> HIDE DEF f
      <3> QED
        BY <2>1, <3>1, <3>2, <3>3
    <2>2. CASE stage[t].account = 0
      <3>1. Continue(c, "commitOut", frame[c]) /\ "commitOut" \in PC
        BY <1>0, <2>2 DEF ExitLoad, Goto, PC
      <3> QED
        BY <1>0, <1>1, <3>1 DEF Sound
    <2> QED
      BY <2>1, <2>2
  <1>4. TypeOK' /\ pc'[c] = label /\ frame'[c] = f
    BY <1>1, <1>2, <1>3 DEF IInv, TypeOK, Continue
  <1>5. Grows /\ Moves(c)
    BY <1>2, <1>3 DEF IInv, TypeOK, Continue, Grows, Moves
  <1>6. CachesTruthful' /\ RowsTruthful'
    BY <1>2, <1>5, MemStep, StageStep
  <1>7. Sound(pc[c], frame[c])'
    BY <1>0, <1>1, <1>2, <1>3, <1>4 DEF Sound, Truthful, Reservation
  <1>8. AccountsInOrder' /\ PhasesInOrder' /\ ChargesBelongToClosedTrips' /\ MessagesFollowPhases'
    BY <1>1, <1>2 DEF IInv, AccountsInOrder, PhasesInOrder, ChargesBelongToClosedTrips,
                      MessagesFollowPhases
  <1> QED
    BY <1>4, <1>5, <1>6, <1>7, <1>8, CallMoves

-----------------------------------------------------------------------------
(* Steps that write the stage table *)

\* Call c writes at most the row of ticket t, truthfully, and goes on.
LEMMA WriteStage ==
  ASSUME IInv, NEW c \in Call, NEW label \in PC, NEW f \in Frame, Continue(c, label, f),
         NEW t \in Ticket, stage' \in [Ticket -> Stage],
         \A u \in Ticket \ {t} : stage'[u] = stage[u],
         stage'[t] = stage[t] \/ (Truthful(stage[t], t) /\ Reservation(stage[t].account, t))',
         UNCHANGED <<mem, account, accounts, sent, issued, losses, history>>,
         clock' \in Nat, Sound(pc[c], frame[c])'
  PROVE  IInv'
  <1>1. TypeOK'
    BY DEF IInv, TypeOK, Continue, history
  <1>2. Grows /\ Moves(c) /\ PhasesInOrder' /\ MessagesFollowPhases'
    BY HistoryStays
  <1>3. CachesTruthful'
    BY <1>2, MemStep
  <1>4. RowsTruthful'
    <2>1. \A u \in Ticket : \/ stage'[u] = stage[u]
                            \/ (Truthful(stage[u], u) /\ Reservation(stage[u].account, u))'
      OBVIOUS
    <2> QED
      BY <1>2, <2>1, StageStep
  <1>5. AccountsInOrder' /\ ChargesBelongToClosedTrips'
    BY DEF IInv, AccountsInOrder, ChargesBelongToClosedTrips, history
  <1> QED
    BY <1>1, <1>2, <1>3, <1>4, <1>5, CallMoves

\* A table with one row replaced.
LEMMA ReplaceRow ==
  ASSUME IInv, NEW t \in Ticket, NEW r \in Stage,
         stage' = stage \/ stage' = [stage EXCEPT ![t] = r]
  PROVE  /\ stage' \in [Ticket -> Stage] /\ \A u \in Ticket \ {t} : stage'[u] = stage[u]
         /\ stage'[t] = stage[t] \/ stage'[t] = r
  BY DEF IInv, TypeOK

\* A new row claims no phase and has no reservation.
LEMMA CheckinInsertStep ==
  ASSUME IInv, NEW c \in Call, CheckinInsert(c)
  PROVE  IInv'
  <1>0. PICK t \in Ticket : t = frame[c].ticket
    BY DEF CheckinInsert, IInv, CallsSound, Sound
  <1>1. PICK now \in clock..MaxTime : clock' = now /\ stage' = [stage EXCEPT ![t] = NewStage(now)]
    BY <1>0 DEF CheckinInsert
  <1>2. PICK label \in {"verify", "unsaved"} : Continue(c, label, frame[c])
    BY DEF CheckinInsert, Goto
  <1>3. now \in Nat /\ clock' \in Nat
    BY <1>1, BectAssumption DEF IInv, TypeOK
  <1>4. Second(now) \in Nat
    <2>1. now % TicksPerSecond \in 0..now
      BY <1>3, BectAssumption
    <2> QED
      BY <1>3, <2>1 DEF Second
  <1>5. NewStage(now) \in Stage
    BY <1>4, BectAssumption DEF NewStage, Stage
  <1>6. /\ stage' \in [Ticket -> Stage] /\ stage'[t] = NewStage(now)
        /\ \A u \in Ticket \ {t} : stage'[u] = stage[u]
    BY <1>1, <1>5 DEF IInv, TypeOK
  <1>7. (Truthful(stage[t], t) /\ Reservation(stage[t].account, t))'
    BY <1>6 DEF Truthful, Reservation, NewStage
  <1>8. UNCHANGED <<mem, account, accounts, sent, issued, losses, history>>
    BY DEF CheckinInsert
  <1>9. frame[c] \in Frame /\ label \in PC /\ pc'[c] = label /\ frame'[c] = frame[c]
    BY <1>2 DEF IInv, TypeOK, Continue, PC
  <1>10. Sound("insert", frame[c])
    BY DEF CheckinInsert, IInv, CallsSound
  <1>11. Sound(pc[c], frame[c])'
    BY <1>2, <1>8, <1>9, <1>10 DEF Sound, Truthful, Reservation, history
  <1> QED
    BY <1>2, <1>3, <1>6, <1>7, <1>8, <1>9, <1>11, WriteStage

\* A row is committed only for an accepted ticket.
LEMMA CommitUpdateStep ==
  ASSUME IInv, NEW c \in Call, CommitUpdate(c)
  PROVE  IInv'
  <1>0. PICK t : t = frame[c].ticket
    OBVIOUS
  <1>1. /\ t \in Ticket /\ t \in accepted /\ stage[t] \in Stage /\ frame[c] \in Frame
        /\ Truthful(stage[t], t) /\ Reservation(stage[t].account, t)
        /\ Sound("commitMem", frame[c]) /\ "commitMem" \in PC
    BY <1>0 DEF CommitUpdate, IInv, CallsSound, Sound, TypeOK, RowsTruthful, PC
  <1>2. /\ Continue(c, "commitMem", frame[c]) /\ clock' \in Nat
        /\ UNCHANGED <<mem, account, accounts, sent, issued, losses, history>>
    BY DEF CommitUpdate, Goto, IInv, TypeOK
  <1>3. pc'[c] = "commitMem" /\ frame'[c] = frame[c]
    BY <1>2 DEF IInv, TypeOK, Continue
  <1>4. Sound(pc[c], frame[c])'
    BY <1>1, <1>2, <1>3 DEF Sound, Truthful, Reservation, history
  <1>5. /\ stage' \in [Ticket -> Stage] /\ \A u \in Ticket \ {t} : stage'[u] = stage[u]
        /\ stage'[t] = stage[t] \/ stage'[t] = [stage[t] EXCEPT !.committed = TRUE]
    <2>1. [stage[t] EXCEPT !.committed = TRUE] \in Stage
      BY <1>1 DEF Stage
    <2>2. stage' = stage \/ stage' = [stage EXCEPT ![t] = [stage[t] EXCEPT !.committed = TRUE]]
      BY <1>0 DEF CommitUpdate
    <2> QED
      BY <1>1, <2>1, <2>2, ReplaceRow
  <1>6. stage'[t] = stage[t] \/ (Truthful(stage[t], t) /\ Reservation(stage[t].account, t))'
    BY <1>1, <1>2, <1>5 DEF Truthful, Reservation, history, Stage
  <1> QED
    BY <1>1, <1>2, <1>4, <1>5, <1>6, WriteStage

\* A row gets its checkout after the reserve, and a reservation of its own ticket.
LEMMA ReserveUpdateStep ==
  ASSUME IInv, NEW c \in Call, ReserveUpdate(c)
  PROVE  IInv'
  <1>0. PICK t, i : t = frame[c].ticket /\ i = frame[c].charge
    OBVIOUS
  <1>1. /\ t \in Ticket /\ t \in reserved /\ stage[t] \in Stage /\ i \in 0..MaxAccount
        /\ Truthful(stage[t], t) /\ Reservation(stage[t].account, t) /\ Reservation(i, t)
    BY <1>0 DEF ReserveUpdate, IInv, CallsSound, Sound, TypeOK, Frame, RowsTruthful
  <1>2. /\ Continue(c, "done", NoFrame) /\ Answer(c) /\ clock' \in Nat /\ "done" \in PC
        /\ UNCHANGED <<mem, account, accounts, sent, issued, losses, history>>
    BY DEF ReserveUpdate, Answer, IInv, TypeOK, PC
  <1>3. \/ UNCHANGED stage
        \/ stage' = [stage EXCEPT ![t].checkout = TRUE,
                                  ![t].account = IF i # 0 THEN i ELSE @]
    BY <1>0 DEF ReserveUpdate
  <1>4. /\ stage' \in [Ticket -> Stage] /\ \A u \in Ticket \ {t} : stage'[u] = stage[u]
        /\ \/ stage'[t] = stage[t]
           \/ stage'[t] = [stage[t] EXCEPT !.checkout = TRUE, !.account = IF i # 0 THEN i ELSE @]
    <2> DEFINE r == [stage[t] EXCEPT !.checkout = TRUE, !.account = IF i # 0 THEN i ELSE @]
    <2>1. r \in Stage
      BY <1>1 DEF Stage
    <2>2. stage' = stage \/ stage' = [stage EXCEPT ![t] = r]
      BY <1>1, <1>3 DEF IInv, TypeOK, Stage
    <2> HIDE DEF r
    <2>3. /\ stage' \in [Ticket -> Stage] /\ \A u \in Ticket \ {t} : stage'[u] = stage[u]
          /\ stage'[t] = stage[t] \/ stage'[t] = r
      BY <1>1, <2>1, <2>2, ReplaceRow
    <2> QED
      BY <2>3 DEF r
  <1>5. stage'[t] = stage[t] \/ (Truthful(stage[t], t) /\ Reservation(stage[t].account, t))'
    BY <1>1, <1>2, <1>4 DEF Truthful, Reservation, history, Stage
  <1> QED
    BY <1>1, <1>2, <1>4, <1>5, AnswerSound, NoFrameSound, WriteStage

\* A row is finished only for a closed ticket.
LEMMA ExitUpdateStep ==
  ASSUME IInv, NEW c \in Call, ExitUpdate(c)
  PROVE  IInv'
  <1>0. PICK t : t = frame[c].ticket
    OBVIOUS
  <1>1. /\ t \in Ticket /\ t \in closed /\ stage[t] \in Stage /\ frame[c] \in Frame
        /\ Truthful(stage[t], t) /\ Reservation(stage[t].account, t)
        /\ Sound("clear", frame[c]) /\ "clear" \in PC
    BY <1>0 DEF ExitUpdate, IInv, CallsSound, Sound, TypeOK, RowsTruthful, PC
  <1>2. /\ Continue(c, "clear", frame[c]) /\ clock' \in Nat
        /\ UNCHANGED <<mem, account, accounts, sent, issued, losses, history>>
    BY DEF ExitUpdate, Goto, IInv, TypeOK
  <1>3. pc'[c] = "clear" /\ frame'[c] = frame[c]
    BY <1>2 DEF IInv, TypeOK, Continue
  <1>4. Sound(pc[c], frame[c])'
    BY <1>1, <1>2, <1>3 DEF Sound, Truthful, Reservation, history
  <1>5. /\ stage' \in [Ticket -> Stage] /\ \A u \in Ticket \ {t} : stage'[u] = stage[u]
        /\ stage'[t] = stage[t] \/ stage'[t] = [stage[t] EXCEPT !.finished = TRUE]
    <2>1. [stage[t] EXCEPT !.finished = TRUE] \in Stage
      BY <1>1 DEF Stage
    <2>2. stage' = stage \/ stage' = [stage EXCEPT ![t] = [stage[t] EXCEPT !.finished = TRUE]]
      BY <1>0 DEF ExitUpdate
    <2> QED
      BY <1>1, <2>1, <2>2, ReplaceRow
  <1>6. stage'[t] = stage[t] \/ (Truthful(stage[t], t) /\ Reservation(stage[t].account, t))'
    BY <1>1, <1>2, <1>5 DEF Truthful, Reservation, history, Stage
  <1> QED
    BY <1>1, <1>2, <1>4, <1>5, <1>6, WriteStage
-----------------------------------------------------------------------------
(* Steps that write ACCOUNT_TRANSACTION *)

\* A new reservation belongs to the ticket the call works on.
LEMMA ReserveAccountStep ==
  ASSUME IInv, NEW c \in Call, ReserveAccount(c)
  PROVE  IInv'
  <1>0. PICK t, id : t = frame[c].ticket /\ id = accounts + 1
    OBVIOUS
  <1>1. /\ t \in Ticket /\ frame[c] \in Frame /\ Sound("account", frame[c])
        /\ accounts \in 0..MaxAccount /\ account \in [1..MaxAccount -> Account]
    BY <1>0 DEF ReserveAccount, IInv, CallsSound, Sound, TypeOK
  <1>2. id \in 1..MaxAccount
    BY <1>0, <1>1, BectAssumption DEF ReserveAccount
  <1>3. /\ accounts' = id /\ account' = [account EXCEPT ![id].ticket = t]
        /\ UNCHANGED <<mem, stage, sent, clock, issued, losses, history>>
    BY <1>0 DEF ReserveAccount
  <1>4. /\ account' \in [1..MaxAccount -> Account]
        /\ \A i \in 1..MaxAccount : account'[i].updates = account[i].updates
        /\ \A i \in 1..MaxAccount : account'[i].ticket = IF i = id THEN t ELSE account[i].ticket
    BY <1>1, <1>2, <1>3 DEF Account
  <1>5. PICK f \in Frame :
           /\ Continue(c, "reserveOut", f)
           /\ f.ticket = t /\ f.etdr = frame[c].etdr
           /\ f.row = frame[c].row /\ f.rowOf = frame[c].rowOf
           /\ f.charge \in {0, id}
    <2>1. CASE Continue(c, "reserveOut", [frame[c] EXCEPT !.charge = id])
      <3> DEFINE f == [frame[c] EXCEPT !.charge = id]
      <3>1. /\ f \in Frame
            /\ f.ticket = t /\ f.etdr = frame[c].etdr
            /\ f.row = frame[c].row /\ f.rowOf = frame[c].rowOf
            /\ f.charge \in {0, id}
        BY <1>0, <1>1, <1>2 DEF Frame
      <3> HIDE DEF f
      <3>2. Continue(c, "reserveOut", f)
        BY <2>1 DEF f
      <3> QED
        BY <3>1, <3>2
    <2>2. CASE Continue(c, "reserveOut", frame[c])
      BY <1>0, <1>1, <2>2 DEF Sound
    <2> QED
      BY <1>0, <2>1, <2>2 DEF ReserveAccount, Goto
  <1>6. "reserveOut" \in PC
    BY DEF PC
  <1>7. TypeOK' /\ pc'[c] = "reserveOut" /\ frame'[c] = f
    BY <1>2, <1>3, <1>4, <1>5, <1>6 DEF IInv, TypeOK, Continue, history
  <1>8. Grows /\ Moves(c)
    <2>1. accounts <= accounts' /\ accounts' \in 0..MaxAccount
      BY <1>0, <1>1, <1>2, <1>3
    <2>2. \A i \in 1..MaxAccount : i <= accounts => account'[i].ticket = account[i].ticket
      BY <1>0, <1>1, <1>4
    <2> QED
      BY <1>3, <1>5, <2>1, <2>2 DEF IInv, TypeOK, Continue, Grows, Moves, history
  <1>9. CachesTruthful' /\ RowsTruthful'
    BY <1>3, <1>8, MemStep, StageStep
  <1>10. Sound(pc[c], frame[c])'
    <2>1. Reservation(frame[c].charge, frame[c].ticket)'
      BY <1>2, <1>3, <1>4, <1>5, <1>7 DEF Reservation
    <2> QED
      BY <1>0, <1>1, <1>3, <1>5, <1>7, <2>1 DEF Sound, Truthful, history
  <1>11. AccountsInOrder'
    BY <1>0, <1>1, <1>3, <1>4 DEF IInv, AccountsInOrder
  <1>12. ChargesBelongToClosedTrips'
    <2>1. account[id].ticket = 0
      BY <1>0, <1>1, <1>2 DEF IInv, AccountsInOrder
    <2>2. ~(account[id].updates > 0)
      BY <1>2, <2>1, BectAssumption DEF IInv, ChargesBelongToClosedTrips, TypeOK
    <2> QED
      BY <1>3, <1>4, <2>2 DEF IInv, ChargesBelongToClosedTrips, history
  <1>13. PhasesInOrder' /\ MessagesFollowPhases'
    BY <1>3 DEF IInv, PhasesInOrder, MessagesFollowPhases, history
  <1> QED
    BY <1>7, <1>8, <1>9, <1>10, <1>11, <1>12, <1>13, CallMoves

\* The reservation that is completed belongs to the ticket that is closed.
LEMMA ExitChargeStep ==
  ASSUME IInv, NEW c \in Call, ExitCharge(c)
  PROVE  IInv'
  <1>0. PICK t, i : t = frame[c].ticket /\ i = frame[c].charge
    OBVIOUS
  <1>1. /\ t \in closed /\ frame[c] \in Frame /\ Sound("commitOut", frame[c])
        /\ i \in 0..MaxAccount /\ i # 0 /\ account[i].ticket = t
        /\ accounts \in 0..MaxAccount /\ account \in [1..MaxAccount -> Account]
        /\ "commitOut" \in PC
    BY <1>0 DEF ExitCharge, IInv, CallsSound, Sound, Reservation, TypeOK, Frame, PC
  <1>2. i \in 1..MaxAccount
    BY <1>1, BectAssumption
  <1>3. /\ account' = account \/ account' = [account EXCEPT ![i].updates = @ + 1]
        /\ Continue(c, "commitOut", frame[c])
        /\ UNCHANGED <<mem, stage, accounts, sent, clock, issued, losses, history>>
    BY <1>0 DEF ExitCharge, Goto
  <1>4. /\ account' \in [1..MaxAccount -> Account]
        /\ \A j \in 1..MaxAccount : account'[j].ticket = account[j].ticket
        /\ \A j \in 1..MaxAccount : j # i => account'[j] = account[j]
    <2>1. account[i] \in Account /\ account[i].updates + 1 \in Nat
      BY <1>1, <1>2 DEF Account
    <2>2. PICK r : r = [account[i] EXCEPT !.updates = @ + 1]
      OBVIOUS
    <2>3. r \in Account /\ r.ticket = account[i].ticket
      BY <2>1, <2>2 DEF Account
    <2>4. account' = account \/ account' = [account EXCEPT ![i] = r]
      BY <1>3, <2>2
    <2> QED
      BY <1>1, <1>2, <2>3, <2>4
  <1>5. TypeOK' /\ pc'[c] = "commitOut" /\ frame'[c] = frame[c]
    BY <1>1, <1>3, <1>4 DEF IInv, TypeOK, Continue, history
  <1>6. Grows /\ Moves(c)
    BY <1>1, <1>3, <1>4 DEF IInv, TypeOK, Continue, Grows, Moves, history
  <1>7. CachesTruthful' /\ RowsTruthful'
    BY <1>3, <1>6, MemStep, StageStep
  <1>8. Sound(pc[c], frame[c])'
    <2>1. Reservation(frame[c].charge, frame[c].ticket)'
      BY <1>0, <1>1, <1>2, <1>3, <1>4, <1>5 DEF Reservation, Sound
    <2> QED
      BY <1>1, <1>3, <1>5, <2>1 DEF Sound, Truthful, history
  <1>9. AccountsInOrder' /\ PhasesInOrder' /\ MessagesFollowPhases'
    BY <1>3, <1>4 DEF IInv, AccountsInOrder, PhasesInOrder, MessagesFollowPhases, history
  <1>10. ChargesBelongToClosedTrips'
    BY <1>1, <1>3, <1>4 DEF IInv, ChargesBelongToClosedTrips, history
  <1> QED
    BY <1>5, <1>6, <1>7, <1>8, <1>9, <1>10, CallMoves

-----------------------------------------------------------------------------
(* Steps of a node *)

\* A cache that loses records, and calls that end, keep everything in order.
LEMMA LossStep ==
  ASSUME IInv, losses < MaxLosses, losses' = losses + 1,
         mem' \in [Node -> [Ticket -> Etdr]],
         \A n \in Node, t \in Ticket : mem'[n][t] = mem[n][t] \/ mem'[n][t] = NoEtdr,
         pc' \in [Call -> PC], frame' \in [Call -> Frame],
         \A c \in Call : \/ pc'[c] = pc[c] /\ frame'[c] = frame[c]
                         \/ pc'[c] = "done" /\ frame'[c] = NoFrame,
         UNCHANGED <<stage, account, accounts, sent, clock, issued, history>>
  PROVE  IInv'
  <1>1. TypeOK'
    BY BectAssumption DEF IInv, TypeOK, history
  <1>2. Grows
    BY DEF IInv, TypeOK, Grows, history
  <1>3. CachesTruthful'
    <2>1. \A n \in Node, t \in Ticket : mem'[n][t] = mem[n][t] \/ Truthful(mem[n][t], t)'
      BY DEF Truthful, NoEtdr
    <2> QED
      BY <1>2, <2>1, MemStep
  <1>4. RowsTruthful'
    BY <1>2, StageStep
  <1>5. CallsSound'
    <2> SUFFICES ASSUME NEW d \in Call PROVE Sound(pc[d], frame[d])'
      BY DEF CallsSound
    <2>1. CASE pc'[d] = pc[d] /\ frame'[d] = frame[d]
      BY <1>2, <2>1, OthersSound
    <2>2. CASE pc'[d] = "done" /\ frame'[d] = NoFrame
      BY <2>2, NoFrameSound DEF Sound, Truthful, Reservation, NoEtdr, NoStage
    <2> QED
      BY <2>1, <2>2
  <1>6. AccountsInOrder' /\ PhasesInOrder' /\ ChargesBelongToClosedTrips' /\ MessagesFollowPhases'
    BY DEF IInv, AccountsInOrder, PhasesInOrder, ChargesBelongToClosedTrips,
           MessagesFollowPhases, history
  <1> QED
    BY <1>1, <1>3, <1>4, <1>5, <1>6 DEF IInv

\* An entry leaves a cache.
LEMMA ForgetStep ==
  ASSUME IInv, NEW n \in Node, NEW t \in Ticket, Forget(n, t)
  PROVE  IInv'
  <1>1. NoEtdr \in Etdr
    BY DEF NoEtdr, Etdr
  <1>2. /\ mem' \in [Node -> [Ticket -> Etdr]]
        /\ \A m \in Node, u \in Ticket : mem'[m][u] = mem[m][u] \/ mem'[m][u] = NoEtdr
    BY <1>1 DEF Forget, SaveEtdr, IInv, TypeOK
  <1>3. /\ pc' \in [Call -> PC] /\ frame' \in [Call -> Frame]
        /\ \A c \in Call : pc'[c] = pc[c] /\ frame'[c] = frame[c]
    BY DEF Forget, IInv, TypeOK
  <1> QED
    BY <1>2, <1>3, LossStep DEF Forget

\* A node restarts.
LEMMA RestartStep ==
  ASSUME IInv, NEW n \in Node, Restart(n)
  PROVE  IInv'
  <1>1. NoEtdr \in Etdr /\ "done" \in PC
    BY DEF NoEtdr, Etdr, PC
  <1>2. /\ mem' \in [Node -> [Ticket -> Etdr]]
        /\ \A m \in Node, u \in Ticket : mem'[m][u] = mem[m][u] \/ mem'[m][u] = NoEtdr
    BY <1>1 DEF Restart, IInv, TypeOK
  <1>3. /\ pc' \in [Call -> PC] /\ frame' \in [Call -> Frame]
        /\ \A c \in Call : \/ pc'[c] = pc[c] /\ frame'[c] = frame[c]
                           \/ pc'[c] = "done" /\ frame'[c] = NoFrame
    BY <1>1, NoFrameSound DEF Restart, IInv, TypeOK
  <1> QED
    BY <1>2, <1>3, LossStep DEF Restart
-----------------------------------------------------------------------------
(* The invariant and what it gives *)

\* The initial state, with nothing in caches and tables, satisfies the invariant.
LEMMA InitInvariant == Init => IInv
  <1> SUFFICES ASSUME Init PROVE IInv
    OBVIOUS
  <1>1. NoEtdr \in Etdr /\ NoStage \in Stage /\ "idle" \in PC
    BY BectAssumption DEF NoEtdr, Etdr, NoStage, Stage, PC
  <1>2. TypeOK
    <2>1. account \in [1..MaxAccount -> Account]
      BY DEF Init, Account
    <2>2. mem \in [Node -> [Ticket -> Etdr]] /\ stage \in [Ticket -> Stage]
      BY <1>1, Zenon DEF Init
    <2>3. pc \in [Call -> PC] /\ frame \in [Call -> Frame]
      BY <1>1, NoFrameSound, Zenon DEF Init
    <2>4. accounts \in 0..MaxAccount /\ clock \in Nat /\ losses \in 0..MaxLosses
      BY BectAssumption DEF Init
    <2>5. /\ sent \subseteq {"CHECKIN", "CHECKOUT"} \X Ticket /\ issued \subseteq Ticket
          /\ accepted \subseteq Ticket /\ reserved \subseteq Ticket /\ closed \subseteq Ticket
      BY DEF Init
    <2> QED
      BY <2>1, <2>2, <2>3, <2>4, <2>5, Zenon DEF TypeOK
  <1>3. CachesTruthful /\ RowsTruthful
    BY <1>1 DEF Init, CachesTruthful, RowsTruthful, Truthful, Reservation, NoEtdr, NoStage
  <1>4. CallsSound
    BY NoFrameSound DEF Init, CallsSound, Sound, Truthful, Reservation, NoEtdr, NoStage
  <1>5. AccountsInOrder /\ PhasesInOrder /\ ChargesBelongToClosedTrips /\ MessagesFollowPhases
    BY DEF Init, AccountsInOrder, PhasesInOrder, ChargesBelongToClosedTrips,
           MessagesFollowPhases
  <1> QED
    BY <1>2, <1>3, <1>4, <1>5 DEF IInv

\* Every step of every call and of every node preserves it.
LEMMA NextInvariant == IInv /\ [Next]_vars => IInv'
  <1> SUFFICES ASSUME IInv, [Next]_vars PROVE IInv'
    OBVIOUS
  <1>1. ASSUME NEW c \in Call, CheckinStep(c) PROVE IInv'
    BY <1>1, AnswerOnly, CheckinBuildStep, CheckinInsertStep, CheckinInsertFailsStep,
       CheckinSavesStep DEF CheckinStep, CheckinRefused
  <1>2. ASSUME NEW c \in Call, FindStep(c) PROVE IInv'
    BY <1>2, ReadCacheStep, ReadStageStep, MergeStep DEF FindStep
  <1>3. ASSUME NEW c \in Call, CommitStep(c) PROVE IInv'
    BY <1>3, ReadCacheStep, CommitTouchStep, CommitRecheckStep, AnswerOnly,
       CommitUpdateStep, CommitFinishStep DEF CommitStep, CommitRecheckFails
  <1>4. ASSUME NEW c \in Call, ReserveStep(c) PROVE IInv'
    BY <1>4, AnswerOnly, ReserveMarkStep, ReserveAccountStep, ReserveAccountFailsStep,
       ReserveUpdateStep DEF ReserveStep, ReserveNoPrice
  <1>5. ASSUME NEW c \in Call, ExitStep(c) PROVE IInv'
    BY <1>5, ExitBeginStep, ExitLookupStep, ExitLoadStep, AnswerOnly, ExitReadAccountStep,
       ExitChargeStep, ExitUpdateStep, ExitFinishStep DEF ExitStep, ExitLoadFails
  <1>6. ASSUME NEW n \in Node, NEW t \in Ticket, Forget(n, t) PROVE IInv'
    BY <1>6, ForgetStep
  <1>7. ASSUME NEW n \in Node, Restart(n) PROVE IInv'
    BY <1>7, RestartStep
  <1>8. CASE UNCHANGED vars
    BY <1>8 DEF vars, history, IInv, TypeOK, CachesTruthful, RowsTruthful, CallsSound, Sound,
                Truthful, Reservation, AccountsInOrder, PhasesInOrder,
                ChargesBelongToClosedTrips, MessagesFollowPhases
  <1> QED
    BY <1>1, <1>2, <1>3, <1>4, <1>5, <1>6, <1>7, <1>8 DEF Next, CallStep

\* The inductive invariant holds: no copy of a transaction, however stale, claims
\* a phase that was not passed.
THEOREM BectInvariant == Spec => []IInv
  BY InitInvariant, NextInvariant, PTL DEF Spec

\* Caches, tables and the locals of every call always have their types.
THEOREM BectTypes == Spec => []TypeOK
  <1>1. IInv => TypeOK
    BY DEF IInv
  <1> QED
    BY <1>1, BectInvariant, PTL

\* Checkout reserve admits only tickets whose check-in commit was accepted, and
\* checkout commit only tickets that a reserve admitted, whatever is cached where.
THEOREM PhasesAlwaysInOrder == Spec => []PhasesInOrder
  <1>1. IInv => PhasesInOrder
    BY DEF IInv
  <1> QED
    BY <1>1, BectInvariant, PTL

\* ACCOUNT_TRANSACTION rows are completed only for the ticket they were reserved
\* for, and only after that ticket's checkout commit passed its checks.
THEOREM ChargesAlwaysBelong == Spec => []ChargesBelongToClosedTrips
  <1>1. IInv => ChargesBelongToClosedTrips
    BY DEF IInv
  <1> QED
    BY <1>1, BectInvariant, PTL

\* Kafka hears of a check-in or a checkout only after the handler accepted it.
THEOREM MessagesAlwaysFollow == Spec => []MessagesFollowPhases
  <1>1. IInv => MessagesFollowPhases
    BY DEF IInv
  <1> QED
    BY <1>1, BectInvariant, PTL
=============================================================================
