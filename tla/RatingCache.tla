---------------------------- MODULE RatingCache ----------------------------
(***************************************************************************)
(* The cached tables of one node (cache/data/, models/TollCache.rs,        *)
(* cache/config/cache_manager.rs): the startup and periodic load, the load *)
(* after the database came back, the fallback to KeyDB, and the handlers   *)
(* that look a key up and put the row they find back.                      *)
(*                                                                         *)
(* The loads of different tables share no state, so a behaviour follows    *)
(* one table, and one key of it.  Its row in the database is a version     *)
(* number that grows with every change; a map of the node's memory, or     *)
(* KeyDB, holds a version, None, or Stub: the toll without a BOO that      *)
(* get_toll_with_fallback makes up from the lanes.                         *)
(*                                                                         *)
(* What a task still has to do is a sequence of steps; between two of them *)
(* other tasks run.                                                        *)
(***************************************************************************)
EXTENDS Integers, Sequences, FiniteSets

CONSTANTS
    Table,          \* the tables to follow
    Calls,          \* handlers that look something up
    MaxVersion,     \* bound: versions of a row
    MaxEvents       \* bound: changes, outages, expiries, restarts

None == 0
Stub == -1
Loaders == {"periodic", "reconnect"}
Tasks == Loaders \cup Calls

\* The maps in memory of each table.
MapsOf(t) == CASE t = "toll" -> {"TOLL"}
               [] t = "lane" -> {"LANE"}
               [] t = "price" -> {"PRICE", "STAGE"}
               [] t = "segment" -> {"SEGMENT", "CYCLE", "TOLL_AB"}
               [] t = "list" -> {"LIST"}
               [] t = "subscription" -> {"MOKA"}
               [] t = "connection" -> {"CONNECTION", "MOKA"}

ASSUME RatingCacheAssumption ==
    /\ Table \subseteq {"toll", "lane", "price", "segment", "list", "subscription",
                        "connection"}
    /\ MaxVersion \in Nat \ {0} /\ MaxEvents \in Nat
    /\ Calls \cap Loaders = {}

VARIABLES
    table,      \* the table this behaviour follows
    row,        \* version of the row in the database, or None
    memory,     \* what each map of the table holds
    keydb,      \* what KeyDB holds
    todo,       \* the steps each task has left
    pool,       \* is there a pool of connections to the database
    up,         \* which of "db" and "keydb" answer
    events,
    overlap,    \* history: two tasks wrote at once since the last load
    missed,     \* history: KeyDB was down when a newer version was written
    single,     \* history: one map changed without the others
    dropped,    \* history: a load since the last complete one lacked the row,
                \* for a reason that the code leaves open
    loaded      \* history: the maps that held a row since start, expiry or a
                \* made-up toll

history == <<overlap, missed, single, dropped, loaded>>
vars == <<table, row, memory, keydb, todo, pool, up, events, history>>

Maps == MapsOf(table)

----------------------------------------------------------------------------
(* Steps *)

Step(op, on, v) == [op |-> op, on |-> on, v |-> v]
Query(m) == Step("query", m, None)              \* read the database
Fallback == Step("fallback", "all", None)       \* read KeyDB
Lanes == Step("lanes", "all", None)             \* look for the lanes of a toll
Store(v) == Step("store", "all", v)             \* write KeyDB (and Moka)
Clear(m) == Step("clear", m, None)
Fill(m, v) == Step("fill", m, v)

Writes(s) == s.op \in {"store", "clear", "fill"}
NextIs(task, op) == todo[task] # <<>> /\ Head(todo[task]).op = op

\* Another task has writes left.
Busy(task) == \E x \in Tasks \ {task} :
    \E i \in DOMAIN todo[x] : Writes(todo[x][i])

(* After a load from the database. *)

TollLoaded(v) == <<Fill("TOLL", v), Store(v)>>
LaneLoaded(v) == <<Store(v), Fill("LANE", v)>>
PriceLoaded(v) == <<Store(v), Clear("PRICE"), Fill("PRICE", v),
                    Clear("STAGE"), Fill("STAGE", v)>>
SegmentLoaded(v) == <<Store(v), Fill("SEGMENT", v), Fill("CYCLE", v),
                      Fill("TOLL_AB", v)>>
ListLoaded(v) == <<Store(v), Clear("LIST"), Fill("LIST", v)>>
SubscriptionLoaded(v) == <<Fill("MOKA", v), Store(v)>>
ConnectionLoaded(v) == <<Fill("MOKA", v), Store(v), Clear("CONNECTION"),
                         Fill("CONNECTION", v)>>

\* Mutant: a load forgets the second index of prices, and the memory of the
\* tables other than prices and segments.
DbPlanPairs(v) ==
    CASE table = "price" -> <<Store(v), Clear("PRICE"), Fill("PRICE", v)>>
      [] table = "segment" -> SegmentLoaded(v)
      [] OTHER -> <<Store(v)>>

DbPlan(v) ==
    CASE table = "toll" -> TollLoaded(v)
      [] table = "lane" -> LaneLoaded(v)
      [] table = "price" -> PriceLoaded(v)
      [] table = "segment" -> SegmentLoaded(v)
      [] table = "list" -> ListLoaded(v)
      [] table = "subscription" -> SubscriptionLoaded(v)
      [] table = "connection" -> ConnectionLoaded(v)

\* After a load from KeyDB: what was read is written back, except segments,
\* of which only the stages are in KeyDB.
KeydbPlan(v) ==
    CASE table = "toll" -> <<Store(v), Fill("TOLL", v)>>
      [] table = "segment" -> <<Fill("SEGMENT", v)>>
      [] OTHER -> DbPlan(v)

(* After a miss that the database could answer. *)

TollMissed(v) == <<Store(v), Fill("TOLL", v)>>
\* Put once by the lookup and once more by its caller.
LaneMissed(v) == <<Store(v), Fill("LANE", v), Fill("LANE", v)>>
PriceMissed(v) == <<Store(v), Fill("PRICE", v)>>
\* The index by stage is not in KeyDB.
StageMissed(v) == <<Fill("STAGE", v)>>
SegmentMissed(v) == <<Store(v), Fill("SEGMENT", v)>>
ConnectionFound(v) == <<Fill("CONNECTION", v), Fill("MOKA", v), Store(v)>>

\* Mutant: a row found in the database is kept in memory only.
MissPlanMemory(m, v) == <<Fill(m, v)>>

MissPlan(m, v) ==
    CASE m = "TOLL" -> TollMissed(v)
      [] m = "LANE" -> LaneMissed(v)
      [] m = "PRICE" -> PriceMissed(v)
      [] m = "STAGE" -> StageMissed(v)
      [] m = "SEGMENT" -> SegmentMissed(v)
      [] m = "CONNECTION" -> ConnectionFound(v)

StubPlan == <<Store(Stub), Fill("TOLL", Stub)>>

\* Something of the environment, a bounded number of times.
Event == events < MaxEvents /\ events' = events + 1

DbAnswers == pool /\ "db" \in up
KeydbValue == IF "keydb" \in up THEN keydb ELSE None

----------------------------------------------------------------------------
(* Loads *)

\* reload_all_cache reads the pool once; without one it falls back.
FirstStep(hasPool) == IF hasPool THEN Query("all") ELSE Fallback

\* Mutant: a table that is loaded is not loaded again.
StartReloadEmpty ==
    /\ todo["periodic"] = <<>> /\ \E m \in Maps : memory[m] = None
    /\ todo' = [todo EXCEPT !["periodic"] = <<FirstStep(pool)>>]
    /\ UNCHANGED <<table, row, memory, keydb, pool, up, events, history>>

\* A tick of the reload timer; skipped while a reload is running, and for
\* connection data without a pool.
StartReload ==
    /\ todo["periodic"] = <<>>
    /\ table = "connection" => pool
    /\ todo' = [todo EXCEPT !["periodic"] = <<FirstStep(pool)>>]
    /\ UNCHANGED <<table, row, memory, keydb, pool, up, events, history>>

\* The retry task got a pool: it loads everything, without the reload's guard.
Reconnect ==
    /\ ~pool /\ "db" \in up
    /\ pool' = TRUE
    /\ todo' = [todo EXCEPT !["reconnect"] = <<Query("all")>>]
    /\ UNCHANGED <<table, row, memory, keydb, up, events, history>>

\* The query of a load; only the periodic one may fall back.
LoadQuery(l) ==
    /\ l \in Loaders /\ NextIs(l, "query")
    /\ IF DbAnswers
       THEN /\ todo' = [todo EXCEPT ![l] = DbPlan(row)]
            /\ overlap' = Busy(l)
            /\ single' = FALSE /\ dropped' = FALSE
       ELSE /\ todo' = [todo EXCEPT ![l] =
                            IF l = "periodic" THEN <<Fallback>> ELSE <<>>]
            /\ UNCHANGED <<overlap, single, dropped>>
    /\ UNCHANGED <<table, row, memory, keydb, pool, up, events, missed, loaded>>

\* The loaders of lists and subscriptions take a fetch that fails for the end
\* of the rows: the load succeeds without the row.
LoadCutShort(l) ==
    /\ l \in Loaders /\ NextIs(l, "query") /\ DbAnswers
    /\ table \in {"list", "subscription"} /\ Event
    /\ todo' = [todo EXCEPT ![l] = DbPlan(None)]
    /\ overlap' = Busy(l)
    /\ single' = FALSE /\ dropped' = TRUE
    /\ UNCHANGED <<table, row, memory, keydb, pool, up, missed, loaded>>

Lags(m) == m = "STAGE" /\ single

\* A fallback reads v, or that KeyDB has other rows of the table and not this
\* one: the memory is replaced all the same.  KeyDB may lack the row where it
\* was down when the row was written, or the row was only put into the index
\* of prices by stage.
FallBackTo(l, v) ==
    /\ todo' = [todo EXCEPT ![l] = KeydbPlan(v)]
    /\ overlap' = (overlap \/ Busy(l))
    /\ single' = (single \/ table = "segment")
    /\ dropped' = (dropped \/ (v = None /\ (missed \/ \E m \in Maps : Lags(m))))

\* Mutant: an unreachable KeyDB replaces the memory too.
LoadFallbackAnyway(l) ==
    /\ NextIs(l, "fallback")
    /\ FallBackTo(l, KeydbValue)
    /\ UNCHANGED <<table, row, memory, keydb, pool, up, events, missed, loaded>>

\* The fallback: a KeyDB that has nothing of the table, or is not reached,
\* leaves everything as it is.
LoadFallback(l) ==
    /\ NextIs(l, "fallback")
    /\ \/ /\ "keydb" \in up
          /\ FallBackTo(l, keydb)
       \/ /\ KeydbValue = None
          /\ todo' = [todo EXCEPT ![l] = <<>>]
          /\ UNCHANGED <<overlap, single, dropped>>
    /\ UNCHANGED <<table, row, memory, keydb, pool, up, events, missed, loaded>>

----------------------------------------------------------------------------
(* Lookups: a hit changes nothing, nor does a miss in a list, which is taken *)
(* for an empty list.                                                        *)

\* A miss in Moka is looked up in KeyDB and put into Moka.
MissMoka(c) ==
    /\ table = "subscription" /\ todo[c] = <<>> /\ memory["MOKA"] = None
    /\ KeydbValue # None
    /\ todo' = [todo EXCEPT ![c] = <<Fill("MOKA", KeydbValue)>>]
    /\ overlap' = (overlap \/ Busy(c))
    /\ UNCHANGED <<table, row, memory, keydb, pool, up, events, missed, single,
                   dropped, loaded>>

\* A miss in any other map is looked up in the database; connection data are
\* always looked up there first.
Miss(c, m) ==
    /\ todo[c] = <<>> /\ pool
    /\ m \in Maps \ {"CYCLE", "TOLL_AB", "LIST", "MOKA"}
    /\ memory[m] = None \/ m = "CONNECTION"
    /\ todo' = [todo EXCEPT ![c] = <<Query(m)>>]
    /\ UNCHANGED <<table, row, memory, keydb, pool, up, events, history>>

\* The row is read; for a toll without one, or when the query fails, the lanes
\* are asked.
MissQuery(c) ==
    /\ c \in Calls /\ NextIs(c, "query") /\ Head(todo[c]).on # "MOKA"
    /\ LET m == Head(todo[c]).on
       IN  IF DbAnswers /\ row # None
           THEN /\ todo' = [todo EXCEPT ![c] = MissPlan(m, row)]
                /\ overlap' = (overlap \/ Busy(c))
                /\ single' = TRUE
           ELSE /\ todo' = [todo EXCEPT ![c] =
                                IF m = "TOLL" THEN <<Lanes>>
                                ELSE IF m = "CONNECTION" /\ ~DbAnswers
                                THEN <<Query("MOKA")>> ELSE <<>>]
                /\ UNCHANGED <<overlap, single>>
    /\ UNCHANGED <<table, row, memory, keydb, pool, up, events, missed, dropped,
                   loaded>>

\* Connection data when the database fails: memory, then Moka, then KeyDB.
MissConnection(c) ==
    /\ NextIs(c, "query") /\ Head(todo[c]).on = "MOKA"
    /\ todo' = [todo EXCEPT ![c] =
            IF memory["CONNECTION"] # None THEN <<>>
            ELSE IF memory["MOKA"] # None
            THEN <<Fill("CONNECTION", memory["MOKA"])>>
            ELSE IF KeydbValue # None
            THEN <<Fill("MOKA", KeydbValue), Fill("CONNECTION", KeydbValue)>>
            ELSE <<>>]
    /\ overlap' = (overlap \/ Busy(c))
    /\ UNCHANGED <<table, row, memory, keydb, pool, up, events, missed, single,
                   dropped, loaded>>

\* The lookup of the lanes is one in the table "lane"; when it finds some, the
\* toll is made up from them and cached.
MissLanes(c) ==
    /\ NextIs(c, "lanes")
    /\ \E found \in BOOLEAN :
        /\ todo' = [todo EXCEPT ![c] = IF found THEN StubPlan ELSE <<>>]
        /\ overlap' = (overlap \/ (found /\ Busy(c)))
    /\ UNCHANGED <<table, row, memory, keydb, pool, up, events, missed, single,
                   dropped, loaded>>

----------------------------------------------------------------------------
(* Writing *)

\* KeyDB drops a write while it is not connected.
WriteKeydb(v) ==
    /\ keydb' = IF "keydb" \in up THEN v ELSE keydb
    /\ missed' = ("keydb" \notin up \/ (missed /\ v <= keydb))
    /\ UNCHANGED <<memory, loaded>>

WriteMemory(m, v) ==
    /\ memory' = [memory EXCEPT ![m] = v]
    /\ loaded' = CASE v > None -> loaded \cup {m}
                 [] v = None -> loaded
                 [] v < None -> loaded \ {m}
    /\ UNCHANGED <<keydb, missed>>

\* The next write of a task.
Write(task) ==
    /\ todo[task] # <<>> /\ Writes(Head(todo[task]))
    /\ LET s == Head(todo[task])
       IN  IF s.op = "store" THEN WriteKeydb(s.v) ELSE WriteMemory(s.on, s.v)
    /\ todo' = [todo EXCEPT ![task] = Tail(@)]
    /\ UNCHANGED <<table, row, pool, up, events, overlap, single, dropped>>

----------------------------------------------------------------------------
(* The environment *)

ChangeRow ==
    /\ row < MaxVersion /\ Event
    /\ row' = row + 1
    /\ UNCHANGED <<table, memory, keydb, todo, pool, up, history>>

Down(x) ==
    /\ x \in up /\ Event
    /\ up' = up \ {x}
    /\ UNCHANGED <<table, row, memory, keydb, todo, pool, history>>

Back(x) ==
    /\ x \notin up
    /\ up' = up \cup {x}
    /\ UNCHANGED <<table, row, memory, keydb, todo, pool, events, history>>

\* Tolls and lanes live for an hour or until evicted, Moka as configured.
Expire(m) ==
    /\ m \in Maps \cap {"TOLL", "LANE", "MOKA"} /\ memory[m] # None /\ Event
    /\ memory' = [memory EXCEPT ![m] = None]
    /\ loaded' = loaded \ {m}
    /\ single' = TRUE
    /\ UNCHANGED <<table, row, keydb, todo, pool, up, overlap, missed, dropped>>

\* What a start does: memory empty, a pool if the database can be reached, and
\* the first load under way.
Started(hasPool) ==
    [x \in Tasks |-> IF x = "periodic" THEN <<FirstStep(hasPool)>> ELSE <<>>]

Restart ==
    /\ Event
    /\ pool' = ("db" \in up)
    /\ memory' = [m \in Maps |-> None]
    /\ todo' = Started(pool')
    /\ loaded' = {}
    /\ UNCHANGED <<table, row, keydb, up, overlap, missed, single, dropped>>

Init ==
    /\ table \in Table
    /\ row \in {None, 1}
    /\ memory = [m \in Maps |-> None]
    /\ keydb = None
    /\ up \in {{"db", "keydb"}, {"keydb"}}
    /\ pool = ("db" \in up)
    /\ todo = Started(pool)
    /\ events = 0
    /\ overlap = FALSE /\ missed = FALSE /\ single = FALSE /\ dropped = FALSE
    /\ loaded = {}

LoadStep(l) == LoadQuery(l) \/ LoadCutShort(l) \/ LoadFallback(l) \/ Write(l)

CallStep(c) ==
    \/ MissMoka(c) \/ \E m \in Maps : Miss(c, m)
    \/ MissQuery(c) \/ MissConnection(c) \/ MissLanes(c) \/ Write(c)

Next ==
    \/ StartReload \/ Reconnect
    \/ \E l \in Loaders : LoadStep(l)
    \/ \E c \in Calls : CallStep(c)
    \/ ChangeRow
    \/ \E x \in {"db", "keydb"} : Down(x) \/ Back(x)
    \/ \E m \in Maps : Expire(m)
    \/ Restart

Spec == Init /\ [][Next]_vars

\* The timers tick, spawned loads run, and the database comes back.
Fairness ==
    /\ WF_vars(StartReload) /\ WF_vars(Reconnect)
    /\ \A l \in Loaders : WF_vars(LoadStep(l))
    /\ WF_vars(Back("db"))

FairSpec == Spec /\ Fairness

----------------------------------------------------------------------------
(* Properties *)

\* A map goes back to an older version only where two tasks worked on the table
\* at once, KeyDB was down and missed the newer version, or a lookup had put it
\* into the stage index of prices, which is not kept in KeyDB.
NeverBack == [][\A m \in Maps :
    (memory[m] > None /\ memory'[m] \in 1 .. memory[m] - 1)
        => overlap \/ missed \/ (m = "STAGE" /\ single)]_vars

\* A map that held a row is empty only between the clear and the fill of a load,
\* or where two tasks raced, or until the next complete load after one that did
\* not see the row: a fetch of lists or subscriptions that broke off, or a
\* fallback to a KeyDB that was down when the row was written, or that was never
\* given it because a lookup put it into the stage index of prices alone.
EmptyOnlyInReload == \A m \in loaded :
    memory[m] = None =>
        \/ overlap \/ dropped
        \/ \E l \in Loaders : \E i \in DOMAIN todo[l] :
                todo[l][i].op = "fill" /\ todo[l][i].on = m /\ todo[l][i].v # None

\* The maps of a table hold the same version when nobody works on it, unless a
\* lookup filled one of them alone or one expired, the load came from KeyDB, which
\* knows no cycles, or two tasks raced.
MapsAgree ==
    (~single /\ ~overlap /\ \A x \in Tasks : \A i \in DOMAIN todo[x] :
                                ~Writes(todo[x][i]))
        => \A m, n \in Maps : memory[m] = memory[n]

\* Once the row stays as it is and the database answers, every map ends up
\* with it for good, the made-up tolls included, except between the clear and
\* the fill of a reload.
EventuallyFresh == <>[](\A m \in Maps :
    \/ row = None
    \/ memory[m] = row
    \/ /\ memory[m] = None
       /\ \E x \in Tasks : \E i \in DOMAIN todo[x] : todo[x][i] = Fill(m, row))

----------------------------------------------------------------------------
(* The inductive invariant of the proofs *)

Names == {"all"} \cup UNION {MapsOf(t) : t \in Table}
Work == [op : {"query", "fallback", "lanes", "store", "clear", "fill"}, on : Names, v : Int]
Steps(q) == {q[i] : i \in DOMAIN q}

\* The writes that a task, and that all tasks, have left.
WritesOf(x) == {s \in Steps(todo[x]) : Writes(s)}
Due == UNION {WritesOf(x) : x \in Tasks}
Fills(m) == {s \in Due : s.op = "fill" /\ s.on = m}

TypeOK ==
    /\ table \in Table /\ row \in Nat
    /\ memory \in [Maps -> Int] /\ \A m \in Maps : Stub <= memory[m] /\ memory[m] <= row
    /\ keydb \in Int /\ Stub <= keydb /\ keydb <= row
    /\ todo \in [Tasks -> Seq(Work)]
    /\ pool \in BOOLEAN /\ up \subseteq {"db", "keydb"} /\ events \in Nat
    /\ overlap \in BOOLEAN /\ missed \in BOOLEAN /\ single \in BOOLEAN
    /\ dropped \in BOOLEAN
    /\ loaded \subseteq Maps /\ (loaded # {} => row > None)
    /\ \A m \in loaded : memory[m] >= None

\* Writes of one value; a map that is cleared is filled next.
Plan(q, v) ==
    \A i \in DOMAIN q :
        /\ Writes(q[i]) /\ (q[i].op # "clear" => q[i].v = v)
        /\ q[i].op # "store" => q[i].on \in Maps
        /\ q[i].op = "clear" => i + 1 \in DOMAIN q /\ q[i].v = None
                                /\ q[i + 1].op = "fill" /\ q[i + 1].on = q[i].on

\* The task is about to read the database, KeyDB or the lanes.
Asks(x) ==
    \/ x \in Loaders /\ (todo[x] = <<Query("all")>> \/ todo[x] = <<Fallback>>)
    \/ x \in Calls /\ todo[x] = <<Lanes>> /\ table = "toll"
    \/ x \in Calls /\ \E m \in Maps \ {"CYCLE", "TOLL_AB", "LIST"} :
                        todo[x] = <<Query(m)>> /\ (m = "MOKA" => table = "connection")

TodoSound ==
    /\ \A x \in Tasks : \/ Asks(x)
                        \/ /\ \E v \in Stub .. row : Plan(todo[x], v)
                           /\ x \in Calls => \A s \in Steps(todo[x]) : s.op # "clear"
    /\ ~pool => todo["reconnect"] = <<>>

\* Two tasks that write are an overlap.
OneWriter == ~overlap =>
    \A x, y \in Tasks : x # y => WritesOf(x) = {} \/ WritesOf(y) = {}

\* An empty answer is written only before anything was loaded, or is known of.
EmptyFirst == ~overlap /\ ~dropped => \A s \in Due : s.op = "fill" /\ s.v = None => loaded = {}

\* All maps get, or have got, the same version.
Agreeing == ~overlap /\ ~single =>
    \E v \in Stub .. row : \A m \in Maps :
        (\A s \in Fills(m) : s.v = v) /\ (memory[m] = v \/ Fills(m) # {})

\* What is to be filled is not older than the memory.
FillsForward == ~overlap /\ ~missed =>
    \A m \in Maps : \A s \in Fills(m) : s.v > None /\ ~Lags(m) => memory[m] <= s.v

\* What is in memory, or comes there, is in KeyDB or comes there too.
Backed(w) == w <= keydb \/ \E s \in Due : s.op = "store" /\ w <= s.v
KeydbFollows == ~overlap /\ ~missed =>
    \A m \in Maps : ~Lags(m) =>
        /\ memory[m] > None => Backed(memory[m]) \/ Fills(m) # {}
        /\ \A s \in Fills(m) : s.v > None => Backed(s.v)

\* Every map is empty, or is filled next.
Emptied == \A m \in Maps : memory[m] <= None \/ Fills(m) # {}

\* A store takes KeyDB forward, to what no map is ahead of, save the made-up toll
\* and the row a load did not see.
StoreSound(v) ==
    \/ v = keydb
    \/ v > keydb /\ \A m \in Maps : memory[m] <= v
    \/ v = Stub /\ table = "toll" /\ \E x \in Tasks : todo[x] = StubPlan
    \/ v = None /\ dropped /\ Emptied
StoresForward == ~overlap => \A s \in Due : s.op = "store" => StoreSound(s.v)

IInv ==
    /\ TypeOK /\ TodoSound /\ OneWriter
    /\ EmptyFirst /\ EmptyOnlyInReload
    /\ Agreeing /\ FillsForward /\ KeydbFollows /\ StoresForward
=============================================================================
