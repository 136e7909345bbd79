-------------------------- MODULE RatingCacheProofs --------------------------
(***************************************************************************)
(* Proofs about RatingCache, for any set of tables, any number of lookups  *)
(* at once, changes of the row, outages, expiries and restarts: a map is   *)
(* left empty, and memory goes back to an older version, only in the cases *)
(* the properties name, and the maps of a table agree.  IInv (RatingCache) *)
(* is inductive.                                                           *)
(*                                                                         *)
(* The last part is about what the cached prices are for, the fee of a     *)
(* trip (TollFee), for any network of tolls and stages, any trips, prices, *)
(* lists and subscriptions.                                                *)
(***************************************************************************)
EXTENDS RatingCache, TollFee, WellFoundedInduction, TLAPS

-----------------------------------------------------------------------------
(* Steps and plans *)

LEMMA StepFacts ==
  ASSUME NEW m \in Names, NEW v \in Int
  PROVE  /\ Store(v) \in Work /\ Clear(m) \in Work /\ Fill(m, v) \in Work
         /\ Query(m) \in Work /\ Fallback \in Work /\ Lanes \in Work
         /\ Writes(Store(v)) /\ Writes(Clear(m)) /\ Writes(Fill(m, v))
         /\ ~Writes(Query(m)) /\ ~Writes(Fallback) /\ ~Writes(Lanes)
         /\ Store(v).op = "store" /\ Store(v).v = v
         /\ Clear(m).op = "clear" /\ Clear(m).on = m /\ Clear(m).v = None
         /\ Fill(m, v).op = "fill" /\ Fill(m, v).on = m /\ Fill(m, v).v = v
  <1>1. /\ Store(v) \in Work /\ Writes(Store(v)) /\ Store(v).op = "store" /\ Store(v).v = v
    BY DEF Work, Names, Store, Step, Writes
  <1>2. /\ Clear(m) \in Work /\ Writes(Clear(m))
        /\ Clear(m).op = "clear" /\ Clear(m).on = m /\ Clear(m).v = None
    BY DEF Work, Names, Clear, Step, Writes, None
  <1>3. /\ Fill(m, v) \in Work /\ Writes(Fill(m, v))
        /\ Fill(m, v).op = "fill" /\ Fill(m, v).on = m /\ Fill(m, v).v = v
    BY DEF Work, Names, Fill, Step, Writes
  <1>4. Query(m) \in Work /\ ~Writes(Query(m))
    BY DEF Work, Names, Query, Step, Writes, None
  <1>5. Fallback \in Work /\ ~Writes(Fallback) /\ Lanes \in Work /\ ~Writes(Lanes)
    BY DEF Work, Names, Fallback, Lanes, Step, Writes, None
  <1> QED BY <1>1, <1>2, <1>3, <1>4, <1>5

LEMMA NoSteps == <<>> \in Seq(Work) /\ Steps(<<>>) = {} /\ DOMAIN <<>> = {}
  BY DEF Steps

LEMMA OneStep ==
  ASSUME NEW a \in Work
  PROVE  <<a>> \in Seq(Work) /\ Steps(<<a>>) = {a}
  <1>1. DOMAIN <<a>> = {1} /\ <<a>>[1] = a
    OBVIOUS
  <1> QED BY <1>1 DEF Steps

LEMMA TwoSteps ==
  ASSUME NEW a \in Work, NEW b \in Work
  PROVE  <<a, b>> \in Seq(Work) /\ Steps(<<a, b>>) = {a, b}
  <1> DEFINE q == <<a, b>>
  <1>1. DOMAIN q = {1, 2} /\ q[1] = a /\ q[2] = b /\ q \in Seq(Work)
    OBVIOUS
  <1> HIDE DEF q
  <1> QED BY <1>1 DEF Steps, q

LEMMA ThreeSteps ==
  ASSUME NEW a \in Work, NEW b \in Work, NEW c \in Work
  PROVE  /\ <<a, b, c>> \in Seq(Work) /\ Steps(<<a, b, c>>) = {a, b, c}
         /\ DOMAIN <<a, b, c>> = {1, 2, 3}
         /\ <<a, b, c>>[1] = a /\ <<a, b, c>>[2] = b /\ <<a, b, c>>[3] = c
  <1> DEFINE q == <<a, b, c>>
  <1>1. DOMAIN q = {1, 2, 3} /\ q[1] = a /\ q[2] = b /\ q[3] = c /\ q \in Seq(Work)
    OBVIOUS
  <1> HIDE DEF q
  <1>2. Steps(q) = {a, b, c}
    BY <1>1 DEF Steps
  <1> QED BY <1>1, <1>2 DEF q

LEMMA FourSteps ==
  ASSUME NEW a \in Work, NEW b \in Work, NEW c \in Work, NEW d \in Work
  PROVE  /\ <<a, b, c, d>> \in Seq(Work) /\ Steps(<<a, b, c, d>>) = {a, b, c, d}
         /\ DOMAIN <<a, b, c, d>> = {1, 2, 3, 4}
         /\ <<a, b, c, d>>[1] = a /\ <<a, b, c, d>>[2] = b
         /\ <<a, b, c, d>>[3] = c /\ <<a, b, c, d>>[4] = d
  <1> DEFINE q == <<a, b, c, d>>
  <1>1. /\ DOMAIN q = {1, 2, 3, 4} /\ q[1] = a /\ q[2] = b /\ q[3] = c /\ q[4] = d
        /\ q \in Seq(Work)
    OBVIOUS
  <1> HIDE DEF q
  <1>2. Steps(q) = {a, b, c, d}
    BY <1>1 DEF Steps
  <1> QED BY <1>1, <1>2 DEF q

LEMMA FiveSteps ==
  ASSUME NEW a \in Work, NEW b \in Work, NEW c \in Work, NEW d \in Work, NEW e \in Work
  PROVE  /\ <<a, b, c, d, e>> \in Seq(Work) /\ Steps(<<a, b, c, d, e>>) = {a, b, c, d, e}
         /\ DOMAIN <<a, b, c, d, e>> = {1, 2, 3, 4, 5}
         /\ <<a, b, c, d, e>>[1] = a /\ <<a, b, c, d, e>>[2] = b
         /\ <<a, b, c, d, e>>[3] = c /\ <<a, b, c, d, e>>[4] = d /\ <<a, b, c, d, e>>[5] = e
  <1> DEFINE q == <<a, b, c, d, e>>
  <1>1. /\ DOMAIN q = {1, 2, 3, 4, 5} /\ q[1] = a /\ q[2] = b /\ q[3] = c /\ q[4] = d
        /\ q[5] = e /\ q \in Seq(Work)
    OBVIOUS
  <1> HIDE DEF q
  <1>2. Steps(q) = {a, b, c, d, e}
    BY <1>1 DEF Steps
  <1> QED BY <1>1, <1>2 DEF q

\* A sequence of stores and fills of one value is a plan.
LEMMA PlainPlan ==
  ASSUME NEW q, NEW v,
         \A s \in Steps(q) : s.v = v /\ (s.op = "store" \/ (s.op = "fill" /\ s.on \in Maps))
  PROVE  Plan(q, v)
  <1>1. SUFFICES ASSUME NEW i \in DOMAIN q
                 PROVE  /\ Writes(q[i]) /\ (q[i].op # "clear" => q[i].v = v)
                        /\ q[i].op # "store" => q[i].on \in Maps
                        /\ q[i].op # "clear"
    BY DEF Plan
  <1>2. q[i] \in Steps(q)
    BY DEF Steps
  <1> QED BY <1>2 DEF Writes

\* A plan without its first step is a plan.
LEMMA PlanTail ==
  ASSUME NEW q \in Seq(Work), q # <<>>, NEW v, Plan(q, v)
  PROVE  /\ Tail(q) \in Seq(Work) /\ Plan(Tail(q), v) /\ Head(q) \in Steps(q)
         /\ Head(q) \in Work
         /\ Steps(q) = {Head(q)} \cup Steps(Tail(q))
         /\ Writes(Head(q)) /\ (Head(q).op # "clear" => Head(q).v = v)
         /\ Head(q).op # "store" => Head(q).on \in Maps
         /\ Head(q).op = "clear" => /\ Head(q).v = None
                                    /\ \E s \in Steps(Tail(q)) :
                                            s.op = "fill" /\ s.on = Head(q).on
  <1> DEFINE t == Tail(q)
  <1>1. /\ t \in Seq(Work) /\ Len(q) \in Nat /\ Len(q) > 0
        /\ DOMAIN q = 1 .. Len(q) /\ DOMAIN t = 1 .. Len(q) - 1
        /\ \A i \in 1 .. Len(q) - 1 : t[i] = q[i + 1]
        /\ Head(q) = q[1] /\ q[1] \in Work
    OBVIOUS
  <1> HIDE DEF t
  <1>2. \A i \in DOMAIN t : i + 1 \in DOMAIN q /\ t[i] = q[i + 1]
    BY <1>1
  <1>3. \A i \in DOMAIN q : i = 1 \/ (i - 1 \in DOMAIN t /\ t[i - 1] = q[i])
    BY <1>1
  <1>4. 1 \in DOMAIN q /\ \A i \in DOMAIN q : i + 1 \in DOMAIN q => i \in DOMAIN t
    BY <1>1
  <1>5. Steps(q) = {q[1]} \cup Steps(t)
    <2>1. \A s \in Steps(t) : s \in Steps(q)
      BY <1>2 DEF Steps
    <2>2. \A s \in Steps(q) : s = q[1] \/ s \in Steps(t)
      BY <1>3 DEF Steps
    <2>3. q[1] \in Steps(q)
      BY <1>4 DEF Steps
    <2> QED BY <2>1, <2>2, <2>3
  <1>6. ASSUME NEW i \in DOMAIN t
        PROVE  /\ Writes(t[i]) /\ (t[i].op # "clear" => t[i].v = v)
               /\ t[i].op # "store" => t[i].on \in Maps
               /\ t[i].op = "clear" => i + 1 \in DOMAIN t /\ t[i].v = None
                                /\ t[i + 1].op = "fill" /\ t[i + 1].on = t[i].on
    <2>1. i \in Int /\ i + 1 \in DOMAIN q /\ t[i] = q[i + 1]
      BY <1>1, <1>2
    <2>2. /\ Writes(t[i]) /\ (t[i].op # "clear" => t[i].v = v)
          /\ t[i].op # "store" => t[i].on \in Maps
          /\ t[i].op = "clear" => i + 2 \in DOMAIN q /\ t[i].v = None
                                /\ q[i + 2].op = "fill" /\ q[i + 2].on = t[i].on
      <3>1. i + 1 + 1 = i + 2
        BY <2>1
      <3> QED BY <2>1, <3>1 DEF Plan
    <2>3. ASSUME i + 2 \in DOMAIN q PROVE i + 1 \in DOMAIN t /\ t[i + 1] = q[i + 2]
      BY <1>1, <2>1, <2>3
    <2> QED BY <2>2, <2>3
  <1>7. Plan(t, v)
    BY <1>6 DEF Plan
  <1>8. /\ Writes(q[1]) /\ (q[1].op # "clear" => q[1].v = v)
        /\ q[1].op # "store" => q[1].on \in Maps
        /\ q[1].op = "clear" => 2 \in DOMAIN q /\ q[1].v = None
                                /\ q[2].op = "fill" /\ q[2].on = q[1].on
    <2>1. 1 + 1 = 2
      OBVIOUS
    <2> QED BY <1>4, <2>1 DEF Plan
  <1>9. ASSUME 2 \in DOMAIN q PROVE q[2] \in Steps(t)
    <2>1. 1 \in DOMAIN t /\ t[1] = q[2]
      BY <1>1, <1>9
    <2> QED BY <2>1 DEF Steps
  <1> QED BY <1>1, <1>5, <1>7, <1>8, <1>9 DEF t

\* The steps of a plan.
LEMMA PlanSteps ==
  ASSUME NEW q, NEW v, Plan(q, v)
  PROVE  \A s \in Steps(q) : /\ Writes(s) /\ (s.op # "clear" => s.v = v)
                             /\ s.op # "store" => s.on \in Maps
  BY DEF Plan, Steps

LEMMA MapNames ==
  ASSUME table \in Table
  PROVE  Maps \subseteq Names /\ "all" \in Names
  BY DEF Maps, Names

LEMMA Tables ==
  ASSUME table \in Table
  PROVE  table \in {"toll", "lane", "price", "segment", "list", "subscription", "connection"}
  BY RatingCacheAssumption

LEMMA MapsOfTables ==
  /\ table = "toll" => Maps = {"TOLL"}
  /\ table = "lane" => Maps = {"LANE"}
  /\ table = "price" => Maps = {"PRICE", "STAGE"}
  /\ table = "segment" => Maps = {"SEGMENT", "CYCLE", "TOLL_AB"}
  /\ table = "list" => Maps = {"LIST"}
  /\ table = "subscription" => Maps = {"MOKA"}
  /\ table = "connection" => Maps = {"CONNECTION", "MOKA"}
  BY DEF Maps, MapsOf

\* A plan that writes all there is to write.
Whole(q, v) ==
    /\ q \in Seq(Work) /\ Plan(q, v) /\ Store(v) \in Steps(q)
    /\ \A m \in Maps : Fill(m, v) \in Steps(q)

\* A plan of stores and fills.
Plain(q, v) ==
    /\ q \in Seq(Work) /\ Plan(q, v) /\ \A s \in Steps(q) : s.op # "clear"

LEMMA PlainSteps ==
  ASSUME NEW q \in Seq(Work), NEW v \in Int, table \in Table,
         \A s \in Steps(q) : s = Store(v) \/ \E m \in Maps : s = Fill(m, v)
  PROVE  Plain(q, v)
  <1>1. \A m \in Maps : Fill(m, v).op = "fill" /\ Fill(m, v).on = m /\ Fill(m, v).v = v
    BY StepFacts, MapNames
  <1>2. Store(v).op = "store" /\ Store(v).v = v
    BY StepFacts, MapNames
  <1>3. \A s \in Steps(q) : s.v = v /\ (s.op = "store" \/ (s.op = "fill" /\ s.on \in Maps))
    BY <1>1, <1>2
  <1>4. Plan(q, v)
    BY <1>3, PlainPlan
  <1> QED BY <1>3, <1>4 DEF Plain

LEMMA DbPlanFacts ==
  ASSUME table \in Table, NEW v \in Int
  PROVE  Whole(DbPlan(v), v)
  <1> DEFINE S == Store(v)
             F(m) == Fill(m, v)
             C(m) == Clear(m)
  <1>0. /\ S \in Work /\ Writes(S) /\ S.op = "store" /\ S.v = v
        /\ \A m \in Maps : /\ F(m) \in Work /\ Writes(F(m)) /\ F(m).op = "fill"
                           /\ F(m).on = m /\ F(m).v = v
                           /\ C(m) \in Work /\ Writes(C(m)) /\ C(m).op = "clear"
                           /\ C(m).on = m /\ C(m).v = None
    BY StepFacts, MapNames
  <1>1. CASE table = "toll"
    <2>1. Maps = {"TOLL"} /\ DbPlan(v) = <<F("TOLL"), S>>
      BY <1>1, MapsOfTables DEF DbPlan, TollLoaded
    <2> HIDE DEF S, F, C
    <2>2. DbPlan(v) \in Seq(Work) /\ Steps(DbPlan(v)) = {F("TOLL"), S}
      BY <1>0, <2>1, TwoSteps
    <2>3. Plain(DbPlan(v), v)
      BY <2>1, <2>2, PlainSteps DEF S, F
    <2> QED BY <2>1, <2>2, <2>3 DEF Whole, Plain, S, F
  <1>2. CASE table = "lane"
    <2>1. Maps = {"LANE"} /\ DbPlan(v) = <<S, F("LANE")>>
      BY <1>2, MapsOfTables DEF DbPlan, LaneLoaded
    <2> HIDE DEF S, F, C
    <2>2. DbPlan(v) \in Seq(Work) /\ Steps(DbPlan(v)) = {S, F("LANE")}
      BY <1>0, <2>1, TwoSteps
    <2>3. Plain(DbPlan(v), v)
      BY <2>1, <2>2, PlainSteps DEF S, F
    <2> QED BY <2>1, <2>2, <2>3 DEF Whole, Plain, S, F
  <1>3. CASE table = "price"
    <2>1. /\ Maps = {"PRICE", "STAGE"}
          /\ DbPlan(v) = <<S, C("PRICE"), F("PRICE"), C("STAGE"), F("STAGE")>>
      BY <1>3, MapsOfTables DEF DbPlan, PriceLoaded
    <2> HIDE DEF S, F, C
    <2> DEFINE q == <<S, C("PRICE"), F("PRICE"), C("STAGE"), F("STAGE")>>
    <2>2. /\ q \in Seq(Work) /\ Steps(q) = {S, C("PRICE"), F("PRICE"), C("STAGE"), F("STAGE")}
          /\ DOMAIN q = {1, 2, 3, 4, 5} /\ q[1] = S /\ q[2] = C("PRICE") /\ q[3] = F("PRICE")
          /\ q[4] = C("STAGE") /\ q[5] = F("STAGE")
      BY <1>0, <2>1, FiveSteps
    <2> HIDE DEF q
    <2>3. Plan(q, v)
      BY <1>0, <2>1, <2>2 DEF Plan
    <2> QED BY <2>1, <2>2, <2>3 DEF Whole, S, F, q
  <1>4. CASE table = "segment"
    <2>1. /\ Maps = {"SEGMENT", "CYCLE", "TOLL_AB"}
          /\ DbPlan(v) = <<S, F("SEGMENT"), F("CYCLE"), F("TOLL_AB")>>
      BY <1>4, MapsOfTables DEF DbPlan, SegmentLoaded
    <2> HIDE DEF S, F, C
    <2>2. /\ DbPlan(v) \in Seq(Work)
          /\ Steps(DbPlan(v)) = {S, F("SEGMENT"), F("CYCLE"), F("TOLL_AB")}
      BY <1>0, <2>1, FourSteps
    <2>3. Plain(DbPlan(v), v)
      BY <2>1, <2>2, PlainSteps DEF S, F
    <2> QED BY <2>1, <2>2, <2>3 DEF Whole, Plain, S, F
  <1>5. CASE table = "list"
    <2>1. Maps = {"LIST"} /\ DbPlan(v) = <<S, C("LIST"), F("LIST")>>
      BY <1>5, MapsOfTables DEF DbPlan, ListLoaded
    <2> HIDE DEF S, F, C
    <2> DEFINE q == <<S, C("LIST"), F("LIST")>>
    <2>2. /\ q \in Seq(Work) /\ Steps(q) = {S, C("LIST"), F("LIST")}
          /\ DOMAIN q = {1, 2, 3} /\ q[1] = S /\ q[2] = C("LIST") /\ q[3] = F("LIST")
      BY <1>0, <2>1, ThreeSteps
    <2> HIDE DEF q
    <2>3. Plan(q, v)
      BY <1>0, <2>1, <2>2 DEF Plan
    <2> QED BY <2>1, <2>2, <2>3 DEF Whole, S, F, q
  <1>6. CASE table = "subscription"
    <2>1. Maps = {"MOKA"} /\ DbPlan(v) = <<F("MOKA"), S>>
      BY <1>6, MapsOfTables DEF DbPlan, SubscriptionLoaded
    <2> HIDE DEF S, F, C
    <2>2. DbPlan(v) \in Seq(Work) /\ Steps(DbPlan(v)) = {F("MOKA"), S}
      BY <1>0, <2>1, TwoSteps
    <2>3. Plain(DbPlan(v), v)
      BY <2>1, <2>2, PlainSteps DEF S, F
    <2> QED BY <2>1, <2>2, <2>3 DEF Whole, Plain, S, F
  <1>7. CASE table = "connection"
    <2>1. /\ Maps = {"CONNECTION", "MOKA"}
          /\ DbPlan(v) = <<F("MOKA"), S, C("CONNECTION"), F("CONNECTION")>>
      BY <1>7, MapsOfTables DEF DbPlan, ConnectionLoaded
    <2> HIDE DEF S, F, C
    <2> DEFINE q == <<F("MOKA"), S, C("CONNECTION"), F("CONNECTION")>>
    <2>2. /\ q \in Seq(Work) /\ Steps(q) = {F("MOKA"), S, C("CONNECTION"), F("CONNECTION")}
          /\ DOMAIN q = {1, 2, 3, 4} /\ q[1] = F("MOKA") /\ q[2] = S /\ q[3] = C("CONNECTION")
          /\ q[4] = F("CONNECTION")
      BY <1>0, <2>1, FourSteps
    <2> HIDE DEF q
    <2>3. Plan(q, v)
      BY <1>0, <2>1, <2>2 DEF Plan
    <2> QED BY <2>1, <2>2, <2>3 DEF Whole, S, F, q
  <1> QED BY <1>1, <1>2, <1>3, <1>4, <1>5, <1>6, <1>7, Tables

\* A load from KeyDB writes everything, except for segments.
LEMMA KeydbPlanFacts ==
  ASSUME table \in Table, NEW v \in Int
  PROVE  /\ KeydbPlan(v) \in Seq(Work) /\ Plan(KeydbPlan(v), v)
         /\ table # "segment" => Whole(KeydbPlan(v), v)
  <1> DEFINE S == Store(v)
             F(m) == Fill(m, v)
  <1>0. S \in Work /\ \A m \in Maps : F(m) \in Work
    BY StepFacts, MapNames
  <1>1. CASE table = "toll"
    <2>1. Maps = {"TOLL"} /\ KeydbPlan(v) = <<S, F("TOLL")>>
      BY <1>1, MapsOfTables DEF KeydbPlan
    <2> HIDE DEF S, F
    <2>2. KeydbPlan(v) \in Seq(Work) /\ Steps(KeydbPlan(v)) = {F("TOLL"), S}
      BY <1>0, <2>1, TwoSteps
    <2>3. Plain(KeydbPlan(v), v)
      BY <2>1, <2>2, PlainSteps DEF S, F
    <2> QED BY <2>1, <2>2, <2>3 DEF Whole, Plain, S, F
  <1>2. CASE table = "segment"
    <2>1. "SEGMENT" \in Maps /\ KeydbPlan(v) = <<F("SEGMENT")>>
      BY <1>2, MapsOfTables DEF KeydbPlan
    <2> HIDE DEF S, F
    <2>2. KeydbPlan(v) \in Seq(Work) /\ Steps(KeydbPlan(v)) = {F("SEGMENT")}
      BY <1>0, <2>1, OneStep
    <2>3. Plain(KeydbPlan(v), v)
      BY <2>1, <2>2, PlainSteps DEF S, F
    <2> QED BY <1>2, <2>3 DEF Plain
  <1>3. CASE table # "toll" /\ table # "segment"
    <2>1. KeydbPlan(v) = DbPlan(v)
      BY <1>3 DEF KeydbPlan
    <2> QED BY <2>1, DbPlanFacts DEF Whole
  <1> QED BY <1>1, <1>2, <1>3

\* A lookup stores what it found, except in the stage index.
LEMMA MissPlanFacts ==
  ASSUME table \in Table, NEW v \in Int, NEW m \in Maps \ {"CYCLE", "TOLL_AB", "LIST", "MOKA"}
  PROVE  /\ Plain(MissPlan(m, v), v)
         /\ m # "STAGE" => Store(v) \in Steps(MissPlan(m, v))
         /\ m = "STAGE" => \A s \in Steps(MissPlan(m, v)) : s = Fill("STAGE", v)
  <1> DEFINE S == Store(v)
             F(n) == Fill(n, v)
             q == MissPlan(m, v)
  <1>0. S \in Work /\ \A n \in Maps : F(n) \in Work
    BY StepFacts, MapNames
  <1>m. /\ m \in {"TOLL", "LANE", "PRICE", "STAGE", "SEGMENT", "CONNECTION"}
        /\ m = "CONNECTION" => "MOKA" \in Maps
    BY Tables, MapsOfTables
  <1>q. /\ m = "TOLL" => q = <<S, F(m)>>
        /\ m = "LANE" => q = <<S, F(m), F(m)>>
        /\ m = "PRICE" => q = <<S, F(m)>>
        /\ m = "STAGE" => q = <<F(m)>>
        /\ m = "SEGMENT" => q = <<S, F(m)>>
        /\ m = "CONNECTION" => q = <<F(m), F("MOKA"), S>>
    BY DEF MissPlan, TollMissed, LaneMissed, PriceMissed, StageMissed, SegmentMissed,
           ConnectionFound
  <1> HIDE DEF S, F, q
  <1>1. CASE m \in {"TOLL", "PRICE", "SEGMENT"}
    <2>0. q = <<S, F(m)>> /\ S \in Work /\ F(m) \in Work
      BY <1>0, <1>q, <1>1
    <2>1. q \in Seq(Work) /\ Steps(q) = {S, F(m)}
      BY <2>0, TwoSteps
    <2>2. Plain(q, v)
      BY <2>1, PlainSteps DEF S, F
    <2> QED BY <1>1, <2>1, <2>2 DEF S, q
  <1>2. CASE m = "LANE"
    <2>0. q = <<S, F(m), F(m)>> /\ S \in Work /\ F(m) \in Work
      BY <1>0, <1>q, <1>2
    <2>1. q \in Seq(Work) /\ Steps(q) = {S, F(m), F(m)}
      BY <2>0, ThreeSteps
    <2>2. Plain(q, v)
      BY <2>1, PlainSteps DEF S, F
    <2> QED BY <1>2, <2>1, <2>2 DEF S, q
  <1>3. CASE m = "STAGE"
    <2>0. q = <<F(m)>> /\ S \in Work /\ F(m) \in Work
      BY <1>0, <1>q, <1>3
    <2>1. q \in Seq(Work) /\ Steps(q) = {F(m)}
      BY <2>0, OneStep
    <2>2. Plain(q, v)
      BY <2>1, PlainSteps DEF F
    <2> QED BY <1>3, <2>1, <2>2 DEF F, q
  <1>4. CASE m = "CONNECTION"
    <2>0. q = <<F(m), F("MOKA"), S>> /\ S \in Work /\ F(m) \in Work /\ F("MOKA") \in Work
      BY <1>0, <1>m, <1>q, <1>4
    <2>1. q \in Seq(Work) /\ Steps(q) = {F(m), F("MOKA"), S}
      BY <2>0, ThreeSteps
    <2>2. Plain(q, v)
      BY <1>m, <1>4, <2>1, PlainSteps DEF S, F
    <2> QED BY <1>4, <2>1, <2>2 DEF S, q
  <1> QED BY <1>m, <1>1, <1>2, <1>3, <1>4

LEMMA StubPlanFacts ==
  ASSUME table \in Table, table = "toll"
  PROVE  /\ Plain(StubPlan, Stub) /\ StubPlan # <<>>
         /\ Steps(StubPlan) = {Store(Stub), Fill("TOLL", Stub)}
         /\ Head(StubPlan) = Store(Stub) /\ Steps(Tail(StubPlan)) = {Fill("TOLL", Stub)}
  <1>1. Maps = {"TOLL"} /\ Stub \in Int
    BY MapsOfTables DEF Stub
  <1>2. Store(Stub) \in Work /\ Fill("TOLL", Stub) \in Work
    BY <1>1, StepFacts, MapNames
  <1> DEFINE S == Store(Stub)
             F == Fill("TOLL", Stub)
  <1> HIDE DEF S, F
  <1>3. <<S, F>> \in Seq(Work) /\ Steps(<<S, F>>) = {S, F}
    BY <1>2, TwoSteps DEF S, F
  <1>4. Plain(<<S, F>>, Stub)
    BY <1>1, <1>3, PlainSteps DEF S, F
  <1>5. <<S, F>> # <<>> /\ Head(<<S, F>>) = S /\ Tail(<<S, F>>) = <<F>>
    OBVIOUS
  <1>6. Steps(<<F>>) = {F}
    BY <1>2, OneStep DEF F
  <1> QED BY <1>3, <1>4, <1>5, <1>6 DEF S, F, StubPlan

-----------------------------------------------------------------------------
(* What is due *)

\* The writes of the other tasks.
Others(x) == UNION {WritesOf(y) : y \in Tasks \ {x}}

LEMMA DueParts ==
  ASSUME NEW x \in Tasks
  PROVE  Due = Others(x) \cup WritesOf(x) /\ (Busy(x) <=> Others(x) # {})
  <1>1. Due = Others(x) \cup WritesOf(x)
    BY DEF Due, Others
  <1>2. ASSUME Busy(x) PROVE Others(x) # {}
    BY <1>2 DEF Busy, Others, WritesOf, Steps
  <1>3. ASSUME Others(x) # {} PROVE Busy(x)
    <2>1. PICK s : s \in Others(x)
      BY <1>3
    <2>2. PICK y \in Tasks \ {x} : s \in WritesOf(y)
      BY <2>1 DEF Others
    <2>3. PICK i \in DOMAIN todo[y] : s = todo[y][i]
      BY <2>2 DEF WritesOf, Steps
    <2>4. Writes(s)
      BY <2>2 DEF WritesOf
    <2> QED BY <2>2, <2>3, <2>4 DEF Busy
  <1> QED BY <1>1, <1>2, <1>3

\* One task goes on to q.
Turns(x, q) == x \in Tasks /\ todo' = [todo EXCEPT ![x] = q]

LEMMA TurnFacts ==
  ASSUME todo \in [Tasks -> Seq(Work)], NEW x, NEW q \in Seq(Work), Turns(x, q)
  PROVE  /\ todo' \in [Tasks -> Seq(Work)]
         /\ x \in Tasks /\ todo'[x] = q /\ \A y \in Tasks \ {x} : todo'[y] = todo[y]
         /\ WritesOf(x)' = {s \in Steps(q) : Writes(s)}
         /\ \A y \in Tasks \ {x} : WritesOf(y)' = WritesOf(y)
         /\ Due' = Others(x) \cup {s \in Steps(q) : Writes(s)}
  <1>1. /\ todo' \in [Tasks -> Seq(Work)]
        /\ x \in Tasks /\ todo'[x] = q /\ \A y \in Tasks \ {x} : todo'[y] = todo[y]
    BY DEF Turns
  <1>2. WritesOf(x)' = {s \in Steps(q) : Writes(s)}
    BY <1>1 DEF WritesOf
  <1>3. \A y \in Tasks \ {x} : WritesOf(y)' = WritesOf(y)
    BY <1>1 DEF WritesOf
  <1>4. Due' = WritesOf(x)' \cup UNION {WritesOf(y)' : y \in Tasks \ {x}}
    BY <1>1 DEF Due
  <1>5. UNION {WritesOf(y)' : y \in Tasks \ {x}} = Others(x)
    BY <1>3 DEF Others
  <1> QED BY <1>1, <1>2, <1>3, <1>4, <1>5

\* What a task has left.
TodoOk(x) ==
    \/ Asks(x)
    \/ /\ \E v \in Stub .. row : Plan(todo[x], v)
       /\ x \in Calls => \A s \in Steps(todo[x]) : s.op # "clear"

LEMMA TodoKept ==
  ASSUME TypeOK, NEW x \in Tasks, TodoOk(x), todo'[x] = todo[x], table' = table,
         row' \in Nat, row <= row'
  PROVE  TodoOk(x)'
  <1>1. CASE Asks(x)
    <2>1. Asks(x)'
      BY <1>1 DEF Asks, Maps
    <2> QED BY <2>1 DEF TodoOk
  <1>2. CASE /\ \E v \in Stub .. row : Plan(todo[x], v)
             /\ x \in Calls => \A s \in Steps(todo[x]) : s.op # "clear"
    <2>1. PICK v \in Stub .. row : Plan(todo[x], v)
      BY <1>2
    <2>2. Plan(todo[x], v)'
      BY <2>1 DEF Plan, Maps
    <2>3. v \in Stub .. row'
      BY DEF TypeOK, Stub
    <2>4. x \in Calls => \A s \in Steps(todo'[x]) : s.op # "clear"
      BY <1>2
    <2> QED BY <2>2, <2>3, <2>4 DEF TodoOk
  <1> QED BY <1>1, <1>2 DEF TodoOk

\* A task that reads next has no writes left.
LEMMA ReadingTask ==
  ASSUME IInv, NEW x \in Tasks, todo[x] # <<>>, ~Writes(Head(todo[x]))
  PROVE  Asks(x) /\ WritesOf(x) = {} /\ (x = "reconnect" => pool)
  <1>1. table \in Table /\ todo[x] \in Seq(Work)
    BY DEF IInv, TypeOK
  <1>2. Asks(x)
    <2>1. ASSUME NEW v \in Stub .. row, Plan(todo[x], v) PROVE FALSE
      BY <1>1, <2>1, PlanTail
    <2> QED BY <2>1 DEF IInv, TodoSound
  <1>3. \E a \in Work : todo[x] = <<a>> /\ ~Writes(a)
    <2>1. CASE todo[x] = <<Query("all")>>
      BY <1>1, <2>1, StepFacts, MapNames
    <2>2. CASE todo[x] = <<Fallback>>
      BY <1>1, <2>2, StepFacts, MapNames
    <2>3. CASE todo[x] = <<Lanes>>
      BY <1>1, <2>3, StepFacts, MapNames
    <2>4. ASSUME NEW m \in Maps, todo[x] = <<Query(m)>>
          PROVE  \E a \in Work : todo[x] = <<a>> /\ ~Writes(a)
      BY <1>1, <2>4, StepFacts, MapNames
    <2> QED BY <1>2, <2>1, <2>2, <2>3, <2>4 DEF Asks
  <1>4. PICK a \in Work : todo[x] = <<a>> /\ ~Writes(a)
    BY <1>3
  <1>5. Steps(todo[x]) = {a}
    BY <1>4, OneStep
  <1> QED BY <1>2, <1>4, <1>5 DEF WritesOf, IInv, TodoSound

\* Steps that the task has next.
LEMMA NextReads ==
  ASSUME NEW x, NEW op \in {"query", "fallback", "lanes"}, NextIs(x, op)
  PROVE  todo[x] # <<>> /\ ~Writes(Head(todo[x])) /\ Head(todo[x]).op = op
  BY DEF NextIs, Writes

\* The empty maps, by what the loads have left.
Refilling(m) == \E l \in Loaders : \E s \in WritesOf(l) :
    s.op = "fill" /\ s.on = m /\ s.v # None
EmptyOk == \A m \in loaded : memory[m] = None => overlap \/ dropped \/ Refilling(m)

LEMMA EmptyView == EmptyOnlyInReload => EmptyOk
  <1>1. SUFFICES ASSUME NEW l \in Loaders, NEW i \in DOMAIN todo[l], NEW m,
                        todo[l][i].op = "fill" /\ todo[l][i].on = m /\ todo[l][i].v # None
                 PROVE  Refilling(m)
    BY DEF EmptyOnlyInReload, EmptyOk
  <1>2. todo[l][i] \in WritesOf(l)
    BY <1>1 DEF WritesOf, Steps, Writes
  <1> QED BY <1>1, <1>2 DEF Refilling

LEMMA EmptyViewNext == EmptyOk' => EmptyOnlyInReload'
  <1>1. SUFFICES ASSUME NEW m, Refilling(m)'
                 PROVE  \E l \in Loaders : \E i \in DOMAIN todo'[l] :
                            todo'[l][i].op = "fill" /\ todo'[l][i].on = m /\ todo'[l][i].v # None
    BY DEF EmptyOnlyInReload, EmptyOk
  <1>2. PICK l \in Loaders : \E s \in WritesOf(l)' : s.op = "fill" /\ s.on = m /\ s.v # None
    BY <1>1 DEF Refilling
  <1> QED BY <1>2 DEF WritesOf, Steps

LEMMA EmptyViewInit == EmptyOk => EmptyOnlyInReload
  <1>1. SUFFICES ASSUME NEW m, Refilling(m)
                 PROVE  \E l \in Loaders : \E i \in DOMAIN todo[l] :
                            todo[l][i].op = "fill" /\ todo[l][i].on = m /\ todo[l][i].v # None
    BY DEF EmptyOnlyInReload, EmptyOk
  <1> QED BY <1>1 DEF Refilling, WritesOf, Steps

-----------------------------------------------------------------------------
(* Steps that write nothing and begin no writes *)

\* The parts of the invariant about the writes that are due.
Parts ==
    /\ OneWriter /\ EmptyFirst /\ EmptyOk
    /\ Agreeing /\ FillsForward /\ KeydbFollows /\ StoresForward

LEMMA InvParts ==
  ASSUME IInv
  PROVE  TypeOK /\ TodoSound /\ Parts
  BY EmptyView DEF IInv, Parts

LEMMA PartsInv ==
  ASSUME TypeOK', TodoSound', Parts'
  PROVE  IInv'
  BY EmptyViewNext DEF IInv, Parts

\* What a step that writes nothing leaves as it is.
Still ==
    /\ table' = table /\ memory' = memory /\ keydb' = keydb
    /\ missed' = missed /\ loaded' = loaded

Idle ==
    /\ Still /\ single' = single /\ dropped' = dropped /\ (overlap => overlap')
    /\ row \in Nat /\ row' \in Nat /\ row <= row'
    /\ \A x \in Tasks : WritesOf(x)' = WritesOf(x)
    /\ table = "toll" => \A x \in Tasks : todo[x] = StubPlan => todo'[x] = StubPlan

LEMMA LoaderTasks == Loaders \subseteq Tasks /\ Calls \subseteq Tasks
  BY DEF Tasks

LEMMA IdleParts ==
  ASSUME Parts, Idle
  PROVE  Parts'
  <1>1. Due' = Due /\ Maps' = Maps /\ \A m : Fills(m)' = Fills(m) /\ Lags(m)' = Lags(m)
    <2>1. Due' = Due /\ Maps' = Maps
      BY DEF Idle, Still, Due, Maps
    <2> QED BY <2>1 DEF Fills, Lags, Idle
  <1>2. \A m : Refilling(m) => Refilling(m)'
    BY LoaderTasks DEF Refilling, Idle
  <1>3. OneWriter'
    BY DEF Parts, OneWriter, Idle
  <1>4. EmptyFirst'
    BY <1>1 DEF Parts, EmptyFirst, Idle, Still
  <1>5. EmptyOk'
    BY <1>2 DEF Parts, EmptyOk, Idle, Still
  <1>6. Agreeing'
    <2>1. \A v \in Stub .. row : v \in Stub .. row'
      BY DEF Idle, Stub
    <2> QED BY <1>1, <2>1 DEF Parts, Agreeing, Idle, Still
  <1>7. FillsForward'
    BY <1>1 DEF Parts, FillsForward, Idle, Still
  <1>8. KeydbFollows'
    <2>1. \A w : Backed(w) => Backed(w)'
      BY <1>1 DEF Backed, Idle, Still
    <2> QED BY <1>1, <2>1 DEF Parts, KeydbFollows, Idle, Still
  <1>9. StoresForward'
    <2>1. Emptied' = Emptied
      BY <1>1 DEF Emptied, Idle, Still
    <2>2. \A v : StoreSound(v) => StoreSound(v)'
      BY <1>1, <2>1 DEF StoreSound, Idle, Still
    <2> QED BY <1>1, <2>2 DEF Parts, StoresForward, Idle
  <1> QED BY <1>3, <1>4, <1>5, <1>6, <1>7, <1>8, <1>9 DEF Parts

\* A step of a task that writes nothing.
Frame ==
    /\ Still /\ row' = row /\ up' = up /\ events' \in Nat
    /\ pool' \in BOOLEAN /\ (pool => pool')
    /\ overlap' \in BOOLEAN /\ single' \in BOOLEAN /\ dropped' \in BOOLEAN

LEMMA TurnTypes ==
  ASSUME IInv, NEW x, NEW q \in Seq(Work), Turns(x, q), Frame, TodoOk(x)',
         x = "reconnect" => pool'
  PROVE  TypeOK' /\ TodoSound'
  <1>1. /\ todo' \in [Tasks -> Seq(Work)] /\ x \in Tasks
        /\ \A y \in Tasks \ {x} : todo'[y] = todo[y]
    BY TurnFacts DEF IInv, TypeOK
  <1>2. TypeOK'
    BY <1>1 DEF IInv, TypeOK, Frame, Still, Maps
  <1>3. ASSUME NEW y \in Tasks PROVE TodoOk(y)'
    <2>1. CASE y = x
      BY <2>1
    <2>2. CASE y # x
      <3>1. TodoOk(y) /\ row \in Nat
        BY DEF IInv, TodoSound, TodoOk, TypeOK
      <3>2. todo'[y] = todo[y] /\ table' = table /\ row' = row /\ row <= row
        BY <1>1, <2>2, <3>1 DEF Frame, Still
      <3> QED BY <3>1, <3>2, TodoKept DEF IInv
    <2> QED BY <2>1, <2>2
  <1>4. ~pool' => todo'["reconnect"] = <<>>
    <2>1. "reconnect" \in Tasks
      BY DEF Tasks, Loaders
    <2> QED BY <1>1, <2>1 DEF IInv, TodoSound, Frame
  <1>5. TodoSound'
    BY <1>3, <1>4 DEF TodoSound, TodoOk
  <1> QED BY <1>2, <1>5

\* From a question to another question, or to nothing.
LEMMA IdleTurn ==
  ASSUME IInv, NEW x, NEW q \in Seq(Work), Turns(x, q), Frame, single' = single, dropped' = dropped,
         overlap => overlap', TodoOk(x)', x = "reconnect" => pool',
         WritesOf(x) = {}, \A s \in Steps(q) : ~Writes(s)
  PROVE  IInv'
  <1>1. TypeOK' /\ TodoSound'
    BY TurnTypes
  <1>2. /\ x \in Tasks /\ WritesOf(x)' = {s \in Steps(q) : Writes(s)}
        /\ \A y \in Tasks \ {x} : WritesOf(y)' = WritesOf(y) /\ todo'[y] = todo[y]
    BY TurnFacts DEF IInv, TypeOK
  <1>3. \A y \in Tasks : WritesOf(y)' = WritesOf(y)
    BY <1>2
  <1>4. ASSUME table = "toll", NEW y \in Tasks, todo[y] = StubPlan
        PROVE  todo'[y] = StubPlan
    <2>1. Store(Stub) \in Steps(StubPlan) /\ Writes(Store(Stub))
      BY <1>4, StubPlanFacts DEF IInv, TypeOK, Store, Step, Writes
    <2>2. y # x
      BY <1>4, <2>1 DEF WritesOf
    <2> QED BY <1>2, <1>4, <2>2
  <1>5. row \in Nat /\ row <= row
    BY DEF IInv, TypeOK
  <1>6. Idle
    BY <1>3, <1>4, <1>5 DEF Idle, Frame
  <1>7. Parts'
    BY <1>6, IdleParts, InvParts
  <1> QED BY <1>1, <1>7, PartsInv

\* Task x begins the writes q of version v, without others at work unless it is noted.
Begins(x, q, v) ==
    /\ Turns(x, q) /\ Frame /\ WritesOf(x) = {} /\ (x = "reconnect" => pool)
    /\ q \in Seq(Work) /\ v \in Stub .. row /\ Plan(q, v)
    /\ x \in Calls => \A s \in Steps(q) : s.op # "clear"
    /\ Busy(x) => overlap'

LEMMA BeginFacts ==
  ASSUME IInv, NEW x, NEW q, NEW v, Begins(x, q, v)
  PROVE  /\ TypeOK' /\ TodoSound' /\ OneWriter' /\ Maps' = Maps
         /\ ~overlap' => Due = {} /\ Due' = Steps(q)
         /\ \A m : Refilling(m) => Refilling(m)'
         /\ \A s \in Steps(q) : /\ Writes(s) /\ (s.op # "clear" => s.v = v)
                                /\ s.op # "store" => s.on \in Maps
  <1>0. /\ Turns(x, q) /\ q \in Seq(Work) /\ x \in Tasks /\ todo \in [Tasks -> Seq(Work)]
        /\ v \in Stub .. row /\ Plan(q, v) /\ table' = table /\ row' = row /\ Frame
    BY DEF Begins, Turns, IInv, TypeOK, Frame, Still
  <1>1. /\ todo'[x] = q /\ WritesOf(x)' = {s \in Steps(q) : Writes(s)}
        /\ \A y \in Tasks \ {x} : WritesOf(y)' = WritesOf(y)
        /\ Due' = Others(x) \cup {s \in Steps(q) : Writes(s)}
    BY <1>0, TurnFacts
  <1>2. TodoOk(x)'
    <2>1. Plan(todo[x], v)'
      BY <1>0, <1>1 DEF Plan, Maps
    <2>2. x \in Calls => \A s \in Steps(todo'[x]) : s.op # "clear"
      BY <1>1 DEF Begins
    <2> QED BY <1>0, <2>1, <2>2 DEF TodoOk
  <1>3. TypeOK' /\ TodoSound'
    <2>1. x = "reconnect" => pool'
      BY DEF Begins, Frame
    <2> QED BY <1>0, <1>2, <2>1, TurnTypes
  <1>4. \A s \in Steps(q) : /\ Writes(s) /\ (s.op # "clear" => s.v = v)
                            /\ s.op # "store" => s.on \in Maps
    BY <1>0, PlanSteps
  <1>5. Due = Others(x) /\ (Busy(x) <=> Others(x) # {})
    BY <1>0, DueParts DEF Begins
  <1>6. ASSUME ~overlap' PROVE Due = {} /\ Due' = Steps(q)
    <2>1. Others(x) = {}
      BY <1>5, <1>6 DEF Begins
    <2> QED BY <1>1, <1>4, <1>5, <2>1
  <1>7. OneWriter'
    <2>1. ASSUME ~overlap' PROVE \A y \in Tasks \ {x} : WritesOf(y)' = {}
      <3>1. Others(x) = {}
        BY <1>5, <2>1 DEF Begins
      <3> QED BY <1>1, <3>1 DEF Others
    <2> QED BY <2>1 DEF OneWriter
  <1>8. ASSUME NEW m, Refilling(m) PROVE Refilling(m)'
    <2>0. PICK l \in Loaders : \E s \in WritesOf(l) : s.op = "fill" /\ s.on = m /\ s.v # None
      BY <1>8 DEF Refilling
    <2>1. PICK s \in WritesOf(l) : s.op = "fill" /\ s.on = m /\ s.v # None
      BY <2>0
    <2>2. l \in Tasks \ {x}
      BY <2>1, LoaderTasks DEF Begins
    <2>3. s \in WritesOf(l)'
      BY <1>1, <2>1, <2>2
    <2> QED BY <2>1, <2>3 DEF Refilling
  <1>9. Maps' = Maps
    BY <1>0 DEF Maps
  <1> QED BY <1>3, <1>4, <1>6, <1>7, <1>8, <1>9

-----------------------------------------------------------------------------
(* Steps that begin writes *)

\* What the invariant asks of new writes when nobody else writes.
Proper(q, v) ==
    /\ v = None => loaded = {} \/ dropped'
    /\ ~single' => \A m \in Maps : Fill(m, v) \in Steps(q)
    /\ ~missed => \A s \in Steps(q) :
          s.op = "fill" /\ v > None /\ ~(s.on = "STAGE" /\ single') =>
              /\ memory[s.on] <= v
              /\ v <= keydb \/ Store(v) \in Steps(q)
    /\ ~missed => \A m \in Maps :
          memory[m] > None /\ ~(m = "STAGE" /\ single') =>
              memory[m] <= keydb \/ Fill(m, v) \in Steps(q)
    /\ \A s \in Steps(q) : s.op = "store" =>
          \/ v = keydb
          \/ v > keydb /\ \A m \in Maps : memory[m] <= v
          \/ v = Stub /\ table = "toll" /\ q = StubPlan
          \/ v = None /\ dropped' /\ \A m \in Maps : Fill(m, v) \in Steps(q)

LEMMA BeginParts ==
  ASSUME IInv, NEW x, NEW q, NEW v, Begins(x, q, v), EmptyOk', ~overlap' => Proper(q, v)
  PROVE  IInv'
  <1>1. /\ TypeOK' /\ TodoSound' /\ OneWriter' /\ Maps' = Maps
        /\ ~overlap' => Due' = Steps(q)
    BY BeginFacts
  <1>2. \A s \in Steps(q) : /\ Writes(s) /\ (s.op # "clear" => s.v = v)
                            /\ s.op # "store" => s.on \in Maps
    BY BeginFacts
  <1>3. /\ memory' = memory /\ keydb' = keydb /\ missed' = missed /\ loaded' = loaded
        /\ table' = table /\ row' = row /\ v \in Stub .. row /\ v \in Int
        /\ x \in Tasks /\ todo'[x] = q
    <2>1. v \in Stub .. row /\ Turns(x, q) /\ q \in Seq(Work)
      BY DEF Begins
    <2>2. x \in Tasks /\ todo'[x] = q
      BY <2>1, TurnFacts DEF IInv, TypeOK
    <2>3. v \in Int
      BY <2>1 DEF Stub, IInv, TypeOK
    <2> QED BY <2>1, <2>2, <2>3 DEF Begins, Frame, Still
  <1>4. SUFFICES ASSUME ~overlap' PROVE Parts'
    <2>1. ASSUME overlap' PROVE Parts'
      BY <1>1, <2>1 DEF Parts, OneWriter, EmptyFirst, Agreeing, FillsForward, KeydbFollows,
                        StoresForward
    <2> QED BY <1>1, <1>4, <2>1, PartsInv
  <1>5. Proper(q, v) /\ Due' = Steps(q)
    BY <1>1, <1>4
  <1>6. ASSUME NEW m \in Maps
        PROVE  /\ Fills(m)' = {s \in Steps(q) : s.op = "fill" /\ s.on = m}
               /\ \A s \in Fills(m)' : s.v = v
               /\ Fill(m, v) \in Steps(q) => Fills(m)' # {}
    <2>1. Fills(m)' = {s \in Steps(q) : s.op = "fill" /\ s.on = m}
      BY <1>5 DEF Fills
    <2>2. \A s \in Fills(m)' : s.v = v
      BY <1>2, <2>1
    <2>3. Fill(m, v).op = "fill" /\ Fill(m, v).on = m
      BY DEF Fill, Step
    <2> QED BY <2>1, <2>2, <2>3
  <1>7. EmptyFirst'
    BY <1>2, <1>3, <1>5 DEF EmptyFirst, Proper
  <1>8. Agreeing'
    <2>1. SUFFICES ASSUME ~single'
                   PROVE  \A m \in Maps : /\ \A s \in Fills(m)' : s.v = v
                                          /\ memory'[m] = v \/ Fills(m)' # {}
      BY <1>1, <1>3 DEF Agreeing
    <2>2. \A m \in Maps : Fill(m, v) \in Steps(q)
      BY <1>5, <2>1 DEF Proper
    <2> QED BY <1>6, <2>2
  <1>9. FillsForward'
    <2>1. SUFFICES ASSUME ~missed, NEW m \in Maps, NEW s \in Fills(m)', s.v > None,
                          ~(m = "STAGE" /\ single')
                   PROVE  memory[m] <= s.v
      BY <1>1, <1>3 DEF FillsForward, Lags
    <2>2. s \in Steps(q) /\ s.op = "fill" /\ s.on = m /\ s.v = v
      BY <1>6
    <2> QED BY <1>5, <2>1, <2>2 DEF Proper
  <1>10. KeydbFollows'
    <2>1. SUFFICES ASSUME ~missed, NEW m \in Maps, ~(m = "STAGE" /\ single')
                   PROVE  /\ memory[m] > None => memory[m] <= keydb \/ Fills(m)' # {}
                          /\ \A s \in Fills(m)' : s.v > None =>
                                s.v <= keydb \/ Store(v) \in Steps(q)
      <3>1. \A w : w <= keydb => Backed(w)'
        BY <1>3 DEF Backed
      <3>2. \A w : w = v /\ Store(v) \in Steps(q) => Backed(w)'
        <4>1. Store(v).op = "store" /\ Store(v).v = v /\ v <= v
          BY <1>3 DEF Store, Step
        <4> QED BY <1>5, <4>1 DEF Backed
      <3>3. \A m \in Maps : \A s \in Fills(m)' : s.v = v
        BY <1>6
      <3> QED BY <1>1, <1>3, <2>1, <3>1, <3>2, <3>3 DEF KeydbFollows, Lags
    <2>2. memory[m] > None => memory[m] <= keydb \/ Fills(m)' # {}
      BY <1>5, <1>6, <2>1 DEF Proper
    <2>3. ASSUME NEW s \in Fills(m)', s.v > None
          PROVE  s.v <= keydb \/ Store(v) \in Steps(q)
      <3>1. s \in Steps(q) /\ s.op = "fill" /\ s.on = m /\ s.v = v
        BY <1>6
      <3> QED BY <1>5, <2>1, <2>3, <3>1 DEF Proper
    <2> QED BY <2>2, <2>3
  <1>11. StoresForward'
    <2>1. SUFFICES ASSUME NEW s \in Steps(q), s.op = "store" PROVE StoreSound(s.v)'
      BY <1>5 DEF StoresForward
    <2>2. s.v = v
      BY <1>2, <2>1
    <2>3. (\A m \in Maps : Fill(m, v) \in Steps(q)) => Emptied'
      BY <1>1, <1>6 DEF Emptied
    <2>4. \/ v = keydb
          \/ v > keydb /\ \A m \in Maps : memory[m] <= v
          \/ v = Stub /\ table = "toll" /\ q = StubPlan
          \/ v = None /\ dropped' /\ \A m \in Maps : Fill(m, v) \in Steps(q)
      BY <1>5, <2>1 DEF Proper
    <2> QED BY <1>1, <1>3, <2>2, <2>3, <2>4 DEF StoreSound
  <1> QED BY <1>1, <1>7, <1>8, <1>9, <1>10, <1>11 DEF Parts

-----------------------------------------------------------------------------
(* The loads *)

LEMMA NothingTodo ==
  ASSUME TypeOK, NEW x, todo'[x] = <<>>, row' = row
  PROVE  TodoOk(x)'
  <1>1. Stub \in Stub .. row' /\ Stub \in Int
    BY DEF TypeOK, Stub
  <1>2. Plan(todo[x], Stub)' /\ Steps(todo'[x]) = {}
    BY NoSteps DEF Plan
  <1> QED BY <1>1, <1>2 DEF TodoOk

\* A task that gives up.
LEMMA GivesUp ==
  ASSUME IInv, NEW x, Turns(x, <<>>), Frame, single' = single, dropped' = dropped, overlap => overlap',
         x = "reconnect" => pool', WritesOf(x) = {}
  PROVE  IInv'
  <1>1. todo'[x] = <<>>
    BY NoSteps, TurnFacts DEF IInv, TypeOK
  <1>2. TodoOk(x)'
    BY <1>1, NothingTodo DEF IInv, Frame
  <1> QED BY <1>2, NoSteps, IdleTurn

\* A task that asks next.
LEMMA AsksNext ==
  ASSUME IInv, NEW x, NEW a \in Work, Turns(x, <<a>>), Frame, single' = single, dropped' = dropped,
         overlap => overlap', x = "reconnect" => pool', WritesOf(x) = {}, ~Writes(a),
         todo'[x] = <<a>> => Asks(x)'
  PROVE  IInv'
  <1>1. <<a>> \in Seq(Work) /\ Steps(<<a>>) = {a}
    BY OneStep
  <1>2. todo'[x] = <<a>>
    BY <1>1, TurnFacts DEF IInv, TypeOK
  <1>3. TodoOk(x)'
    BY <1>2 DEF TodoOk
  <1> QED BY <1>1, <1>3, IdleTurn

LEMMA IdleTask ==
  ASSUME NEW x, todo[x] = <<>>
  PROVE  WritesOf(x) = {}
  BY NoSteps DEF WritesOf

LEMMA StartReloadInv ==
  ASSUME IInv, StartReload
  PROVE  IInv'
  <1>1. "periodic" \in Tasks /\ "periodic" \in Loaders /\ TypeOK /\ table \in Table
    BY DEF Tasks, Loaders, IInv, TypeOK
  <1>2. /\ Frame /\ single' = single /\ dropped' = dropped /\ (overlap => overlap')
        /\ Turns("periodic", <<FirstStep(pool)>>)
    BY <1>1 DEF StartReload, history, Frame, Still, TypeOK, Turns
  <1>3. WritesOf("periodic") = {}
    BY IdleTask DEF StartReload
  <1>4. /\ FirstStep(pool) \in Work /\ ~Writes(FirstStep(pool))
        /\ FirstStep(pool) = Query("all") \/ FirstStep(pool) = Fallback
    BY <1>1, StepFacts, MapNames DEF FirstStep
  <1>5. todo'["periodic"] = <<FirstStep(pool)>> => Asks("periodic")'
    BY <1>1, <1>4 DEF Asks
  <1> QED BY <1>2, <1>3, <1>4, <1>5, AsksNext

LEMMA ReconnectInv ==
  ASSUME IInv, Reconnect
  PROVE  IInv'
  <1>1. "reconnect" \in Tasks /\ "reconnect" \in Loaders /\ TypeOK /\ table \in Table
    BY DEF Tasks, Loaders, IInv, TypeOK
  <1>2. /\ Frame /\ single' = single /\ dropped' = dropped /\ (overlap => overlap') /\ pool'
        /\ Turns("reconnect", <<Query("all")>>)
    BY <1>1 DEF Reconnect, history, Frame, Still, TypeOK, Turns
  <1>3. WritesOf("reconnect") = {}
    BY IdleTask DEF Reconnect, IInv, TodoSound
  <1>4. Query("all") \in Work /\ ~Writes(Query("all"))
    BY <1>1, StepFacts, MapNames
  <1>5. todo'["reconnect"] = <<Query("all")>> => Asks("reconnect")'
    BY <1>1 DEF Asks
  <1> QED BY <1>2, <1>3, <1>4, <1>5, AsksNext

\* Every map that held a row is filled again by a whole plan.
LEMMA LoadQueryInv ==
  ASSUME IInv, NEW l \in Loaders, LoadQuery(l)
  PROVE  IInv'
  <1>1. /\ l \in Tasks /\ TypeOK /\ table \in Table /\ row \in Nat /\ row \in Int
        /\ row \in Stub .. row /\ l \notin Calls
    BY LoaderTasks, RatingCacheAssumption DEF IInv, TypeOK, Stub
  <1>2. Asks(l) /\ WritesOf(l) = {} /\ (l = "reconnect" => pool)
    BY <1>1, NextReads, ReadingTask DEF LoadQuery
  <1>3. CASE DbAnswers
    <2> DEFINE q == DbPlan(row)
    <2>1. Whole(q, row)
      BY <1>1, DbPlanFacts
    <2> HIDE DEF q
    <2>2. Turns(l, q) /\ Frame /\ overlap' = Busy(l) /\ single' = FALSE
          /\ dropped' = FALSE
      BY <1>1, <1>3 DEF LoadQuery, Frame, Still, TypeOK, Turns, Busy, q
    <2>3. Begins(l, q, row)
      BY <1>1, <1>2, <2>1, <2>2 DEF Begins, Whole
    <2>4. \A m \in Maps : memory[m] <= row
      BY <1>1 DEF TypeOK
    <2>5. ~overlap' => Proper(q, row)
      <3>1. row = None => loaded = {}
        BY <1>1 DEF TypeOK, None
      <3>2. keydb <= row /\ keydb \in Int
        BY <1>1 DEF TypeOK
      <3>3. \A s \in Steps(q) : s.op = "fill" => s.on \in Maps
        BY <2>3, BeginFacts
      <3> QED BY <1>1, <2>1, <2>4, <3>1, <3>2, <3>3 DEF Proper, Whole
    <2>6. EmptyOk'
      <3>1. SUFFICES ASSUME NEW m \in loaded PROVE Refilling(m)'
        BY <2>2 DEF EmptyOk, Frame, Still
      <3>2. m \in Maps /\ row # None
        BY <1>1 DEF TypeOK, None
      <3>3. Fill(m, row) \in WritesOf(l)'
        <4>1. WritesOf(l)' = {s \in Steps(q) : Writes(s)}
          BY <1>1, <2>1, <2>2, TurnFacts DEF TypeOK, Whole
        <4>2. Fill(m, row) \in Steps(q) /\ Writes(Fill(m, row))
          BY <2>1, <3>2 DEF Whole, Fill, Step, Writes
        <4> QED BY <4>1, <4>2
      <3>4. Fill(m, row).op = "fill" /\ Fill(m, row).on = m /\ Fill(m, row).v = row
        BY DEF Fill, Step
      <3> QED BY <3>2, <3>3, <3>4 DEF Refilling
    <2> QED BY <2>3, <2>5, <2>6, BeginParts
  <1>4. CASE ~DbAnswers
    <2>1. /\ Frame /\ single' = single /\ dropped' = dropped /\ (overlap => overlap') /\ (l = "reconnect" => pool')
      BY <1>1, <1>2, <1>4 DEF LoadQuery, Frame, Still, TypeOK
    <2>2. CASE l = "periodic"
      <3>1. Turns(l, <<Fallback>>)
        BY <1>1, <1>4, <2>2 DEF LoadQuery, Turns
      <3>2. Fallback \in Work /\ ~Writes(Fallback)
        BY <1>1, StepFacts, MapNames
      <3>3. todo'[l] = <<Fallback>> => Asks(l)'
        BY DEF Asks
      <3> QED BY <1>2, <2>1, <3>1, <3>2, <3>3, AsksNext
    <2>3. CASE l # "periodic"
      <3>1. Turns(l, <<>>)
        BY <1>1, <1>4, <2>3 DEF LoadQuery, Turns
      <3> QED BY <1>2, <2>1, <3>1, GivesUp
    <2> QED BY <2>2, <2>3
  <1> QED BY <1>3, <1>4

\* A load that did not see the row empties every map, and says so.
LEMMA LoadCutShortInv ==
  ASSUME IInv, NEW l \in Loaders, LoadCutShort(l)
  PROVE  IInv'
  <1>1. /\ l \in Tasks /\ TypeOK /\ table \in Table /\ row \in Nat /\ l \notin Calls
        /\ None \in Int /\ None \in Stub .. row
    BY LoaderTasks, RatingCacheAssumption DEF IInv, TypeOK, Stub, None
  <1>2. WritesOf(l) = {} /\ (l = "reconnect" => pool)
    BY <1>1, NextReads, ReadingTask DEF LoadCutShort
  <1> DEFINE q == DbPlan(None)
  <1>3. Whole(q, None)
    BY <1>1, DbPlanFacts
  <1> HIDE DEF q
  <1>4. events' \in Nat
    BY <1>1 DEF LoadCutShort, Event, TypeOK
  <1>5. Turns(l, q) /\ Frame /\ overlap' = Busy(l) /\ single' = FALSE /\ dropped' = TRUE
    BY <1>1, <1>4 DEF LoadCutShort, Frame, Still, TypeOK, Turns, Busy, q
  <1>6. Begins(l, q, None)
    BY <1>1, <1>2, <1>3, <1>5 DEF Begins, Whole
  <1>7. EmptyOk'
    BY <1>5 DEF EmptyOk
  <1>8. ~overlap' => Proper(q, None)
    <2>1. ~(None > None) /\ keydb \in Int
      BY <1>1 DEF None, TypeOK
    <2> QED BY <1>3, <1>5, <2>1 DEF Proper, Whole
  <1> QED BY <1>6, <1>7, <1>8, BeginParts

\* What is in memory is in KeyDB when no writes are due.
LEMMA BackedNow ==
  ASSUME IInv, ~overlap, ~missed, Due = {}, NEW m \in Maps, ~Lags(m), memory[m] > None
  PROVE  memory[m] <= keydb
  <1>1. Backed(memory[m]) \/ Fills(m) # {}
    BY DEF IInv, KeydbFollows
  <1>2. Fills(m) = {}
    BY DEF Fills
  <1> QED BY <1>1, <1>2 DEF Backed

\* The empty maps stay as they are when a lookup or a fallback begins its writes.
LEMMA BeginEmpty ==
  ASSUME IInv, NEW x, NEW q, NEW v, Begins(x, q, v), overlap => overlap',
         dropped => dropped'
  PROVE  EmptyOk'
  <1>1. EmptyOk /\ memory' = memory /\ loaded' = loaded
    BY EmptyView DEF IInv, Begins, Frame, Still
  <1>2. \A m : Refilling(m) => Refilling(m)'
    BY BeginFacts
  <1> QED BY <1>1, <1>2 DEF EmptyOk

\* A fallback that does not know why the row is missing finds nothing loaded.
LEMMA NothingLoaded ==
  ASSUME IInv, ~overlap, ~missed, ~dropped, Due = {}, keydb = None, \A m \in Maps : ~Lags(m)
  PROVE  loaded = {}
  <1>1. SUFFICES ASSUME NEW m \in loaded PROVE FALSE
    OBVIOUS
  <1>2. m \in Maps /\ memory[m] \in Int /\ memory[m] >= None
    BY DEF IInv, TypeOK
  <1>3. memory[m] > None => memory[m] <= None
    BY <1>2, BackedNow
  <1>4. memory[m] = None
    BY <1>2, <1>3 DEF None
  <1>5. Refilling(m)
    BY <1>4, EmptyView DEF IInv, EmptyOk
  <1> QED BY <1>5, LoaderTasks DEF Refilling, Due

LEMMA FallBackInv ==
  ASSUME IInv, NEW l \in Loaders, NextIs(l, "fallback"), FallBackTo(l, keydb),
         UNCHANGED <<table, row, memory, keydb, pool, up, events, missed, loaded>>
  PROVE  IInv'
  <1>1. /\ l \in Tasks /\ TypeOK /\ table \in Table /\ l \notin Calls
    BY LoaderTasks, RatingCacheAssumption DEF IInv, TypeOK
  <1>2. WritesOf(l) = {} /\ (l = "reconnect" => pool)
    BY <1>1, NextReads, ReadingTask
  <1>3. keydb \in Int /\ keydb \in Stub .. row /\ row \in Nat
    BY <1>1 DEF TypeOK, Stub
  <1> DEFINE q == KeydbPlan(keydb)
  <1>4. /\ q \in Seq(Work) /\ Plan(q, keydb) /\ (table # "segment" => Whole(q, keydb))
    BY <1>1, <1>3, KeydbPlanFacts
  <1> HIDE DEF q
  <1>5. /\ Turns(l, q) /\ Frame /\ overlap' = (overlap \/ Busy(l))
        /\ single' = (single \/ table = "segment")
        /\ dropped' = (dropped \/ (keydb = None /\ (missed \/ \E m \in Maps : Lags(m))))
    BY <1>1 DEF FallBackTo, Frame, Still, TypeOK, Turns, Busy, q
  <1>6. Begins(l, q, keydb)
    BY <1>1, <1>2, <1>3, <1>4, <1>5 DEF Begins
  <1>7. EmptyOk'
    BY <1>5, <1>6, BeginEmpty
  <1>8. ASSUME ~overlap' PROVE Proper(q, keydb)
    <2>1. ~overlap /\ Due = {}
      BY <1>5, <1>6, <1>8, BeginFacts
    <2>2. \A s \in Steps(q) : s.op = "fill" => s.on \in Maps
      BY <1>6, BeginFacts
    <2>3. \A m \in Maps : m = "STAGE" => table # "segment"
      BY MapsOfTables
    <2>4. \A m \in Maps : ~(m = "STAGE" /\ single') => ~Lags(m)
      BY <1>5, <2>3 DEF Lags
    <2>5. ~missed => \A m \in Maps :
              memory[m] > None /\ ~(m = "STAGE" /\ single') => memory[m] <= keydb
      BY <2>1, <2>4, BackedNow
    <2>6. ~missed => \A m \in Maps :
              keydb > None /\ ~(m = "STAGE" /\ single') => memory[m] <= keydb
      <3>1. \A m \in Maps : memory[m] \in Int
        BY <1>1 DEF TypeOK
      <3>2. \A m \in Maps : keydb > None => memory[m] > None \/ memory[m] <= keydb
        BY <1>3, <3>1 DEF None
      <3> QED BY <2>5, <3>2
    <2>7. ~single' => \A m \in Maps : Fill(m, keydb) \in Steps(q)
      BY <1>4, <1>5 DEF Whole
    <2>8. keydb = None => loaded = {} \/ dropped'
      BY <1>5, <2>1, NothingLoaded
    <2>9. keydb <= keydb
      BY <1>3
    <2> QED BY <2>2, <2>5, <2>6, <2>7, <2>8, <2>9 DEF Proper
  <1> QED BY <1>6, <1>7, <1>8, BeginParts

LEMMA LoadFallbackInv ==
  ASSUME IInv, NEW l \in Loaders, LoadFallback(l)
  PROVE  IInv'
  <1>1. l \in Tasks /\ TypeOK
    BY LoaderTasks DEF IInv
  <1>2. WritesOf(l) = {} /\ (l = "reconnect" => pool)
    BY <1>1, NextReads, ReadingTask DEF LoadFallback
  <1>3. CASE FallBackTo(l, keydb)
    BY <1>3, FallBackInv DEF LoadFallback
  <1>4. CASE /\ todo' = [todo EXCEPT ![l] = <<>>]
             /\ UNCHANGED <<overlap, single, dropped>>
    <2>1. /\ Frame /\ single' = single /\ dropped' = dropped /\ (overlap => overlap')
          /\ (l = "reconnect" => pool') /\ Turns(l, <<>>)
      BY <1>1, <1>2, <1>4 DEF LoadFallback, Frame, Still, TypeOK, Turns
    <2> QED BY <1>2, <2>1, GivesUp
  <1> QED BY <1>3, <1>4 DEF LoadFallback

-----------------------------------------------------------------------------
(* The lookups *)

LEMMA MissMokaInv ==
  ASSUME IInv, NEW c \in Calls, MissMoka(c)
  PROVE  IInv'
  <1>1. /\ c \in Tasks /\ TypeOK /\ table \in Table /\ c # "reconnect"
        /\ Maps = {"MOKA"} /\ memory["MOKA"] = None
    BY LoaderTasks, RatingCacheAssumption, MapsOfTables DEF IInv, TypeOK, MissMoka, Loaders
  <1>2. WritesOf(c) = {}
    BY IdleTask DEF MissMoka
  <1>3. /\ KeydbValue = keydb /\ keydb \in Int /\ keydb # None /\ keydb \in Stub .. row
    BY <1>1 DEF KeydbValue, TypeOK, Stub, MissMoka
  <1> DEFINE q == <<Fill("MOKA", keydb)>>
  <1>4. q \in Seq(Work) /\ Steps(q) = {Fill("MOKA", keydb)}
    BY <1>1, <1>3, OneStep, StepFacts, MapNames
  <1>5. Plain(q, keydb)
    BY <1>1, <1>3, <1>4, PlainSteps
  <1>6. /\ Turns(c, q) /\ Frame /\ overlap' = (overlap \/ Busy(c)) /\ single' = single
        /\ dropped' = dropped
    BY <1>1, <1>3 DEF MissMoka, Frame, Still, TypeOK, Turns, Busy
  <1> HIDE DEF q
  <1>7. Begins(c, q, keydb)
    BY <1>1, <1>2, <1>3, <1>5, <1>6 DEF Begins, Plain
  <1>8. EmptyOk'
    BY <1>6, <1>7, BeginEmpty
  <1>9. Proper(q, keydb)
    <2>1. \A s \in Steps(q) : s.op = "fill" /\ s.on = "MOKA"
      BY <1>4 DEF Fill, Step
    <2>2. memory["MOKA"] = 0 /\ keydb <= keydb
      BY <1>1, <1>3 DEF None
    <2> QED BY <1>1, <1>3, <1>4, <2>1, <2>2 DEF Proper, None
  <1> QED BY <1>7, <1>8, <1>9, BeginParts

LEMMA MissInv ==
  ASSUME IInv, NEW c \in Calls, NEW m \in Maps, Miss(c, m)
  PROVE  IInv'
  <1>1. c \in Tasks /\ TypeOK /\ table \in Table /\ c # "reconnect"
    BY LoaderTasks, RatingCacheAssumption DEF IInv, TypeOK, Loaders
  <1>2. WritesOf(c) = {}
    BY IdleTask DEF Miss
  <1>3. /\ Frame /\ single' = single /\ dropped' = dropped /\ (overlap => overlap') /\ Turns(c, <<Query(m)>>)
    BY <1>1 DEF Miss, history, Frame, Still, TypeOK, Turns
  <1>4. Query(m) \in Work /\ ~Writes(Query(m))
    <2>1. m \in Names
      BY <1>1, MapNames
    <2> QED BY <1>1, <2>1, StepFacts DEF TypeOK
  <1>5. todo'[c] = <<Query(m)>> => Asks(c)'
    <2>1. m \in Maps' \ {"CYCLE", "TOLL_AB", "LIST"} /\ m # "MOKA"
      BY DEF Miss, Maps
    <2> QED BY <2>1 DEF Asks
  <1> QED BY <1>1, <1>2, <1>3, <1>4, <1>5, AsksNext

\* The question a lookup has next.
LEMMA CallAsks ==
  ASSUME IInv, NEW c \in Calls, NEW op \in {"query", "fallback", "lanes"}, NextIs(c, op)
  PROVE  /\ WritesOf(c) = {} /\ c \in Tasks /\ c # "reconnect" /\ c \notin Loaders
         /\ op = "lanes" => table = "toll"
         /\ op = "query" => /\ Head(todo[c]).on \in Maps \ {"CYCLE", "TOLL_AB", "LIST"}
                            /\ Head(todo[c]).on = "MOKA" => table = "connection"
  <1>1. c \in Tasks /\ c \notin Loaders /\ c # "reconnect"
    BY LoaderTasks, RatingCacheAssumption DEF Loaders
  <1>2. WritesOf(c) = {} /\ Asks(c) /\ Head(todo[c]).op = op
    BY <1>1, NextReads, ReadingTask
  <1>3. CASE todo[c] = <<Lanes>> /\ table = "toll"
    <2>1. Head(todo[c]) = Lanes
      BY <1>3
    <2> QED BY <1>1, <1>2, <1>3, <2>1 DEF Lanes, Step
  <1>4. ASSUME NEW m \in Maps \ {"CYCLE", "TOLL_AB", "LIST"}, todo[c] = <<Query(m)>>,
               m = "MOKA" => table = "connection"
        PROVE  op = "query" /\ Head(todo[c]).on = m
    <2>1. Head(todo[c]) = Query(m)
      BY <1>4
    <2> QED BY <1>2, <2>1 DEF Query, Step
  <1> QED BY <1>1, <1>2, <1>3, <1>4 DEF Asks

LEMMA MissQueryInv ==
  ASSUME IInv, NEW c \in Calls, MissQuery(c)
  PROVE  IInv'
  <1>1. TypeOK /\ table \in Table /\ row \in Nat /\ row \in Int /\ row \in Stub .. row
    BY DEF IInv, TypeOK, Stub
  <1> DEFINE m == Head(todo[c]).on
  <1>2. /\ WritesOf(c) = {} /\ c \in Tasks /\ c # "reconnect"
        /\ m \in Maps \ {"CYCLE", "TOLL_AB", "LIST", "MOKA"}
    BY CallAsks DEF MissQuery
  <1>3. CASE DbAnswers /\ row # None
    <2> DEFINE q == MissPlan(m, row)
    <2>1. /\ Turns(c, q) /\ Frame /\ overlap' = (overlap \/ Busy(c)) /\ single' = TRUE
          /\ dropped' = dropped
      BY <1>1, <1>2, <1>3 DEF MissQuery, Frame, Still, TypeOK, Turns, Busy
    <2> HIDE DEF m
    <2>2. /\ Plain(q, row) /\ (m # "STAGE" => Store(row) \in Steps(q))
          /\ m = "STAGE" => \A s \in Steps(q) : s = Fill("STAGE", row)
      BY <1>1, <1>2, MissPlanFacts
    <2> HIDE DEF q
    <2>3. Begins(c, q, row)
      BY <1>1, <1>2, <2>1, <2>2 DEF Begins, Plain
    <2>4. EmptyOk'
      BY <2>1, <2>3, BeginEmpty
    <2>5. ASSUME ~overlap' PROVE Proper(q, row)
      <3>1. ~overlap /\ Due = {}
        BY <2>1, <2>3, <2>5, BeginFacts
      <3>2. /\ \A n \in Maps : memory[n] <= row
            /\ keydb <= row /\ keydb \in Int
        BY <1>1 DEF TypeOK
      <3>3. \A s \in Steps(q) : s.op = "fill" => s.on \in Maps
        BY <2>3, BeginFacts
      <3>4. \A s \in Steps(q) : s.op = "fill" /\ s.on # "STAGE" => Store(row) \in Steps(q)
        BY <2>2 DEF Fill, Step
      <3>5. ~missed => \A n \in Maps : memory[n] > None /\ n # "STAGE" => memory[n] <= keydb
        BY <3>1, BackedNow DEF Lags
      <3> QED BY <1>1, <1>3, <2>1, <3>2, <3>3, <3>4, <3>5 DEF Proper
    <2> QED BY <2>3, <2>4, <2>5, BeginParts
  <1>4. CASE ~(DbAnswers /\ row # None)
    <2>1. Frame /\ single' = single /\ dropped' = dropped /\ (overlap => overlap')
      BY <1>1, <1>4 DEF MissQuery, Frame, Still, TypeOK
    <2>2. CASE m = "TOLL"
      <3>1. Turns(c, <<Lanes>>)
        BY <1>2, <1>4, <2>2 DEF MissQuery, Turns
      <3>2. Lanes \in Work /\ ~Writes(Lanes)
        BY <1>1, StepFacts, MapNames
      <3>3. table' = "toll"
        <4>1. table = "toll"
          BY <1>1, <1>2, <2>2, Tables, MapsOfTables
        <4> QED BY <2>1, <4>1 DEF Frame, Still
      <3>4. todo'[c] = <<Lanes>> => Asks(c)'
        BY <3>3 DEF Asks
      <3> QED BY <1>2, <2>1, <3>1, <3>2, <3>4, AsksNext
    <2>3. CASE m = "CONNECTION" /\ ~DbAnswers
      <3>1. Turns(c, <<Query("MOKA")>>)
        BY <1>2, <1>4, <2>3 DEF MissQuery, Turns
      <3>2. table = "connection" /\ "MOKA" \in Maps
        BY <1>1, <1>2, <2>3, Tables, MapsOfTables
      <3>3. Query("MOKA") \in Work /\ ~Writes(Query("MOKA"))
        BY <1>1, <3>2, StepFacts, MapNames
      <3>4. table' = "connection" /\ "MOKA" \in Maps'
        BY <2>1, <3>2 DEF Frame, Still, Maps
      <3>5. todo'[c] = <<Query("MOKA")>> => Asks(c)'
        BY <3>4 DEF Asks
      <3> QED BY <1>2, <2>1, <3>1, <3>3, <3>5, AsksNext
    <2>4. CASE m # "TOLL" /\ ~(m = "CONNECTION" /\ ~DbAnswers)
      <3>1. Turns(c, <<>>)
        BY <1>2, <1>4, <2>4 DEF MissQuery, Turns
      <3> QED BY <1>2, <2>1, <3>1, GivesUp
    <2> QED BY <2>2, <2>3, <2>4
  <1> QED BY <1>3, <1>4

LEMMA MissConnectionInv ==
  ASSUME IInv, NEW c \in Calls, MissConnection(c)
  PROVE  IInv'
  <1>1. /\ TypeOK /\ table \in Table /\ row \in Nat
        /\ keydb \in Int /\ keydb \in Stub .. row
    BY DEF IInv, TypeOK, Stub
  <1>2. /\ WritesOf(c) = {} /\ c \in Tasks /\ c # "reconnect" /\ table = "connection"
    BY CallAsks DEF MissConnection
  <1>3. Maps = {"CONNECTION", "MOKA"}
    BY <1>2, MapsOfTables
  <1>4. /\ Frame /\ overlap' = (overlap \/ Busy(c)) /\ single' = single
        /\ dropped' = dropped
    BY <1>1 DEF MissConnection, Frame, Still, TypeOK, Busy
  <1> DEFINE v == memory["MOKA"]
             k == KeydbValue
  <1>5. v \in Int /\ v \in Stub .. row
    BY <1>1, <1>3 DEF TypeOK, Stub
  <1>6. CASE memory["CONNECTION"] # None \/ (v = None /\ k = None)
    <2>1. Turns(c, <<>>)
      BY <1>2, <1>6 DEF MissConnection, Turns
    <2> QED BY <1>2, <1>4, <2>1, GivesUp
  <1>7. CASE memory["CONNECTION"] = None /\ v # None
    <2> DEFINE q == <<Fill("CONNECTION", v)>>
    <2>1. Turns(c, q)
      BY <1>2, <1>7 DEF MissConnection, Turns
    <2> HIDE DEF v
    <2>2. q \in Seq(Work) /\ Steps(q) = {Fill("CONNECTION", v)}
      BY <1>1, <1>3, <1>5, OneStep, StepFacts, MapNames
    <2>3. Plain(q, v)
      BY <1>1, <1>3, <1>5, <2>2, PlainSteps
    <2> HIDE DEF q
    <2>4. Begins(c, q, v)
      BY <1>2, <1>4, <1>5, <2>1, <2>3 DEF Begins, Plain
    <2>5. EmptyOk'
      BY <1>4, <2>4, BeginEmpty
    <2>6. ASSUME ~overlap' PROVE Proper(q, v)
      <3>1. ~overlap /\ Due = {}
        BY <1>4, <2>4, <2>6, BeginFacts
      <3>2. single'
        <4>1. ASSUME ~single
              PROVE  \E w \in Stub .. row : \A m \in Maps : memory[m] = w
          <5>1. \A m \in Maps : Fills(m) = {}
            BY <3>1 DEF Fills
          <5> QED BY <3>1, <4>1, <5>1 DEF IInv, Agreeing
        <4> QED BY <1>3, <1>4, <1>7, <4>1 DEF v
      <3>3. \A s \in Steps(q) : s.op = "fill" /\ s.on = "CONNECTION"
        BY <2>2 DEF Fill, Step
      <3>4. ~missed /\ v > None => v <= keydb
        BY <1>3, <3>1, BackedNow DEF Lags, v
      <3>5. memory["CONNECTION"] = 0
        BY <1>7 DEF None
      <3> QED BY <1>3, <1>5, <1>7, <3>2, <3>3, <3>4, <3>5 DEF Proper, None, v
    <2> QED BY <2>4, <2>5, <2>6, BeginParts
  <1>8. CASE memory["CONNECTION"] = None /\ v = None /\ k # None
    <2> DEFINE q == <<Fill("MOKA", keydb), Fill("CONNECTION", keydb)>>
    <2>1. Turns(c, q) /\ keydb # None
      BY <1>2, <1>8 DEF MissConnection, Turns, KeydbValue
    <2>2. q \in Seq(Work) /\ Steps(q) = {Fill("MOKA", keydb), Fill("CONNECTION", keydb)}
      BY <1>1, <1>3, TwoSteps, StepFacts, MapNames
    <2>3. Plain(q, keydb)
      BY <1>1, <1>3, <2>2, PlainSteps
    <2> HIDE DEF q, k
    <2>4. Begins(c, q, keydb)
      BY <1>1, <1>2, <1>4, <2>1, <2>3 DEF Begins, Plain
    <2>5. EmptyOk'
      BY <1>4, <2>4, BeginEmpty
    <2>6. Proper(q, keydb)
      <3>1. \A s \in Steps(q) : s.op = "fill" /\ s.on \in Maps
        BY <1>3, <2>2 DEF Fill, Step
      <3>2. \A m \in Maps : memory[m] = 0 /\ Fill(m, keydb) \in Steps(q)
        BY <1>3, <1>8, <2>2 DEF None, v
      <3> QED BY <1>1, <2>1, <3>1, <3>2 DEF Proper, None
    <2> QED BY <2>4, <2>5, <2>6, BeginParts
  <1> QED BY <1>6, <1>7, <1>8

LEMMA MissLanesInv ==
  ASSUME IInv, NEW c \in Calls, MissLanes(c)
  PROVE  IInv'
  <1>1. /\ TypeOK /\ table \in Table /\ row \in Nat /\ keydb \in Int /\ Stub <= keydb
        /\ Stub \in Int /\ Stub \in Stub .. row /\ Stub < None
    BY DEF IInv, TypeOK, Stub, None
  <1>2. WritesOf(c) = {} /\ c \in Tasks /\ c # "reconnect" /\ table = "toll"
    BY CallAsks DEF MissLanes
  <1>3. Maps = {"TOLL"}
    BY <1>2, MapsOfTables
  <1>4. PICK found \in BOOLEAN :
            /\ todo' = [todo EXCEPT ![c] = IF found THEN StubPlan ELSE <<>>]
            /\ overlap' = (overlap \/ (found /\ Busy(c)))
    BY DEF MissLanes
  <1>5. Frame /\ single' = single /\ dropped' = dropped /\ (overlap => overlap')
    BY <1>1, <1>4 DEF MissLanes, Frame, Still, TypeOK, Busy
  <1>6. CASE ~found
    <2>1. Turns(c, <<>>)
      BY <1>2, <1>4, <1>6 DEF Turns
    <2> QED BY <1>2, <1>5, <2>1, GivesUp
  <1>7. CASE found
    <2>1. Turns(c, StubPlan) /\ (Busy(c) => overlap')
      BY <1>2, <1>4, <1>7 DEF Turns
    <2>2. Plain(StubPlan, Stub) /\ Steps(StubPlan) = {Store(Stub), Fill("TOLL", Stub)}
      BY <1>1, <1>2, StubPlanFacts
    <2>3. Begins(c, StubPlan, Stub)
      BY <1>1, <1>2, <1>5, <2>1, <2>2 DEF Begins, Plain
    <2>4. EmptyOk'
      BY <1>5, <2>3, BeginEmpty
    <2>5. Proper(StubPlan, Stub)
      <3>1. \A m \in Maps : Fill(m, Stub) \in Steps(StubPlan)
        BY <1>3, <2>2
      <3>2. ~(Stub > None) /\ Stub # None /\ ~(Stub > keydb)
        BY <1>1 DEF Stub, None
      <3> QED BY <1>2, <3>1, <3>2 DEF Proper
    <2> QED BY <2>3, <2>4, <2>5, BeginParts
  <1> QED BY <1>6, <1>7

-----------------------------------------------------------------------------
(* The writes *)

\* Task x has step s next and then t, all of version v.
Goes(x, s, t, v) ==
    /\ Turns(x, t) /\ t \in Seq(Work) /\ Plan(t, v) /\ v \in Stub .. row
    /\ todo[x] # <<>> /\ s = Head(todo[x]) /\ t = Tail(todo[x])
    /\ Steps(todo[x]) = {s} \cup Steps(t)
    /\ s \in Work /\ Writes(s) /\ (s.op # "clear" => s.v = v)
    /\ s.op # "store" => s.on \in Maps
    /\ s.op = "clear" => /\ s.v = None /\ x \in Loaders
                         /\ \E r \in Steps(t) : r.op = "fill" /\ r.on = s.on
    /\ x \in Calls => \A r \in Steps(t) : r.op # "clear"

LEMMA WriteGoes ==
  ASSUME IInv, NEW x \in Tasks, Write(x)
  PROVE  \E v : Goes(x, Head(todo[x]), Tail(todo[x]), v)
  <1>1. /\ todo[x] \in Seq(Work) /\ todo[x] # <<>> /\ Writes(Head(todo[x]))
        /\ todo \in [Tasks -> Seq(Work)]
    BY DEF Write, IInv, TypeOK
  <1>2. ~Asks(x)
    <2>1. \A a : Head(<<a>>) = a
      OBVIOUS
    <2> QED BY <1>1, <2>1 DEF Asks, Writes, Query, Fallback, Lanes, Step
  <1>3. PICK v \in Stub .. row : Plan(todo[x], v)
    BY <1>2 DEF IInv, TodoSound
  <1>4. x \in Calls => \A s \in Steps(todo[x]) : s.op # "clear"
    BY <1>2 DEF IInv, TodoSound
  <1>5. Turns(x, Tail(todo[x]))
    BY <1>1 DEF Write, Turns
  <1>6. /\ Tail(todo[x]) \in Seq(Work) /\ Plan(Tail(todo[x]), v)
        /\ Head(todo[x]) \in Steps(todo[x]) /\ Head(todo[x]) \in Work
        /\ Steps(todo[x]) = {Head(todo[x])} \cup Steps(Tail(todo[x]))
        /\ Head(todo[x]).op # "clear" => Head(todo[x]).v = v
        /\ Head(todo[x]).op # "store" => Head(todo[x]).on \in Maps
        /\ Head(todo[x]).op = "clear" =>
              /\ Head(todo[x]).v = None
              /\ \E s \in Steps(Tail(todo[x])) : s.op = "fill" /\ s.on = Head(todo[x]).on
    BY <1>1, <1>3, PlanTail
  <1>7. Head(todo[x]).op = "clear" => x \in Loaders
    BY <1>4, <1>6 DEF Tasks
  <1>8. x \in Calls => \A r \in Steps(Tail(todo[x])) : r.op # "clear"
    BY <1>4, <1>6
  <1>9. Goes(x, Head(todo[x]), Tail(todo[x]), v)
    BY <1>1, <1>5, <1>6, <1>7, <1>8 DEF Goes
  <1> QED BY <1>9

LEMMA GoesFacts ==
  ASSUME IInv, NEW x, NEW s, NEW t, NEW v, Goes(x, s, t, v), table' = table, row' = row,
         pool' = pool, overlap' = overlap
  PROVE  /\ TodoSound' /\ OneWriter' /\ Maps' = Maps
         /\ todo' \in [Tasks -> Seq(Work)] /\ x \in Tasks
         /\ WritesOf(x)' = Steps(t) /\ WritesOf(x) = {s} \cup Steps(t)
         /\ \A y \in Tasks \ {x} : WritesOf(y)' = WritesOf(y) /\ todo'[y] = todo[y]
         /\ ~overlap => Due = {s} \cup Steps(t) /\ Due' = Steps(t)
         /\ \A r \in Steps(t) : /\ Writes(r) /\ (r.op # "clear" => r.v = v)
                                /\ r.op # "store" => r.on \in Maps
  <1>1. /\ Turns(x, t) /\ t \in Seq(Work) /\ Plan(t, v) /\ v \in Stub .. row
        /\ todo \in [Tasks -> Seq(Work)] /\ table \in Table /\ row \in Nat
    BY DEF Goes, IInv, TypeOK
  <1>2. /\ todo' \in [Tasks -> Seq(Work)] /\ x \in Tasks /\ todo'[x] = t
        /\ \A y \in Tasks \ {x} : todo'[y] = todo[y]
        /\ WritesOf(x)' = {r \in Steps(t) : Writes(r)}
        /\ \A y \in Tasks \ {x} : WritesOf(y)' = WritesOf(y)
        /\ Due' = Others(x) \cup {r \in Steps(t) : Writes(r)}
    BY <1>1, TurnFacts
  <1>3. \A r \in Steps(t) : /\ Writes(r) /\ (r.op # "clear" => r.v = v)
                            /\ r.op # "store" => r.on \in Maps
    BY <1>1, PlanSteps
  <1>4. WritesOf(x)' = Steps(t) /\ WritesOf(x) = {s} \cup Steps(t)
    BY <1>2, <1>3 DEF WritesOf, Goes
  <1>5. Maps' = Maps
    BY DEF Maps
  <1>6. TodoSound'
    <2>1. TodoOk(x)'
      <3>1. Plan(todo[x], v)'
        BY <1>1, <1>2, <1>5 DEF Plan
      <3>2. x \in Calls => \A r \in Steps(todo'[x]) : r.op # "clear"
        BY <1>2 DEF Goes
      <3> QED BY <1>1, <3>1, <3>2 DEF TodoOk
    <2>2. ASSUME NEW y \in Tasks \ {x} PROVE TodoOk(y)'
      <3>1. TodoOk(y) /\ row <= row'
        BY <1>1 DEF IInv, TodoSound, TodoOk
      <3> QED BY <1>1, <1>2, <3>1, TodoKept DEF IInv
    <2>3. ~pool' => todo'["reconnect"] = <<>>
      <3>1. ~pool => x # "reconnect"
        BY DEF Goes, IInv, TodoSound
      <3>2. "reconnect" \in Tasks
        BY DEF Tasks, Loaders
      <3> QED BY <1>2, <3>1, <3>2 DEF IInv, TodoSound
    <2> QED BY <2>1, <2>2, <2>3 DEF TodoSound, TodoOk
  <1>7. OneWriter'
    BY <1>2, <1>4 DEF IInv, OneWriter
  <1>8. ASSUME ~overlap PROVE Others(x) = {}
    <2>1. WritesOf(x) # {}
      BY <1>4
    <2>2. \A y \in Tasks \ {x} : WritesOf(y) = {}
      BY <1>2, <1>8, <2>1 DEF IInv, OneWriter
    <2> QED BY <2>2 DEF Others
  <1>9. ASSUME ~overlap PROVE Due = {s} \cup Steps(t) /\ Due' = Steps(t)
    <2>1. Due = Others(x) \cup WritesOf(x)
      BY <1>2, DueParts
    <2> QED BY <1>2, <1>3, <1>4, <1>8, <1>9, <2>1
  <1> QED BY <1>2, <1>3, <1>4, <1>5, <1>6, <1>7, <1>9

\* What else is to be filled stays so.
LEMMA RefillKept ==
  ASSUME IInv, NEW x, NEW s, NEW t, NEW v, Goes(x, s, t, v), table' = table, row' = row,
         pool' = pool, overlap' = overlap, NEW m, ~(s.op = "fill" /\ s.on = m), Refilling(m)
  PROVE  Refilling(m)'
  <1>1. PICK l \in Loaders : \E r \in WritesOf(l) : r.op = "fill" /\ r.on = m /\ r.v # None
    BY DEF Refilling
  <1>2. PICK r \in WritesOf(l) : r.op = "fill" /\ r.on = m /\ r.v # None
    BY <1>1
  <1>3. /\ WritesOf(x)' = Steps(t) /\ WritesOf(x) = {s} \cup Steps(t)
        /\ \A y \in Tasks \ {x} : WritesOf(y)' = WritesOf(y)
    BY GoesFacts
  <1>4. r \in WritesOf(l)'
    <2>1. CASE l = x
      BY <1>2, <1>3, <2>1
    <2>2. CASE l # x
      BY <1>2, <1>3, <2>2, LoaderTasks
    <2> QED BY <2>1, <2>2
  <1> QED BY <1>2, <1>4 DEF Refilling

\* The made-up toll is stored by the task that goes on.
LEMMA StubHere ==
  ASSUME IInv, NEW x, NEW s, NEW t, NEW v, Goes(x, s, t, v), ~overlap, table = "toll",
         NEW y \in Tasks, todo[y] = StubPlan
  PROVE  s.op = "store" /\ \A r \in Steps(t) : r.op # "store"
  <1>1. /\ Steps(StubPlan) = {Store(Stub), Fill("TOLL", Stub)}
        /\ Head(StubPlan) = Store(Stub) /\ Steps(Tail(StubPlan)) = {Fill("TOLL", Stub)}
    BY StubPlanFacts DEF IInv, TypeOK
  <1>2. WritesOf(y) # {}
    BY <1>1 DEF WritesOf, Store, Step, Writes
  <1>3. x \in Tasks /\ WritesOf(x) # {}
    <2>1. s \in WritesOf(x)
      BY DEF Goes, WritesOf
    <2> QED BY <2>1 DEF Goes, Turns
  <1>4. x = y
    BY <1>2, <1>3 DEF IInv, OneWriter
  <1>5. s = Store(Stub) /\ Steps(t) = {Fill("TOLL", Stub)}
    BY <1>1, <1>4 DEF Goes
  <1> QED BY <1>5 DEF Store, Fill, Step

\* With an overlap, nothing more is claimed.
LEMMA OverlapParts ==
  ASSUME overlap', OneWriter', EmptyOk'
  PROVE  Parts'
  BY DEF Parts, OneWriter, EmptyFirst, Agreeing, FillsForward, KeydbFollows, StoresForward

LEMMA StoreInv ==
  ASSUME IInv, NEW x, NEW s, NEW t, NEW v, Goes(x, s, t, v), s.op = "store", WriteKeydb(s.v),
         UNCHANGED <<table, row, pool, up, events, overlap, single, dropped>>
  PROVE  IInv'
  <1>0. table' = table /\ row' = row /\ pool' = pool /\ overlap' = overlap /\ single' = single
        /\ dropped' = dropped
    OBVIOUS
  <1>1. /\ TodoSound' /\ OneWriter' /\ Maps' = Maps /\ todo' \in [Tasks -> Seq(Work)]
        /\ ~overlap => Due = {s} \cup Steps(t) /\ Due' = Steps(t)
    BY <1>0, GoesFacts
  <1>2. \A r \in Steps(t) : /\ Writes(r) /\ (r.op # "clear" => r.v = v)
                            /\ r.op # "store" => r.on \in Maps
    BY <1>0, GoesFacts
  <1>3. /\ s.v = v /\ v \in Int /\ Stub <= v /\ v <= row /\ row \in Nat /\ keydb \in Int
        /\ memory' = memory /\ loaded' = loaded
    BY DEF Goes, IInv, TypeOK, WriteKeydb, Stub
  <1>4. /\ keydb' = (IF "keydb" \in up THEN v ELSE keydb)
        /\ missed' = ("keydb" \notin up \/ (missed /\ v <= keydb))
    BY <1>3 DEF WriteKeydb
  <1>5. TypeOK'
    <2>1. keydb' \in Int /\ Stub <= keydb' /\ keydb' <= row'
      BY <1>3, <1>4 DEF IInv, TypeOK
    <2>2. missed' \in BOOLEAN
      BY <1>4
    <2> QED BY <1>1, <1>3, <2>1, <2>2 DEF IInv, TypeOK
  <1>6. EmptyOk'
    <2>1. EmptyOk
      BY EmptyView DEF IInv
    <2>2. \A m : Refilling(m) => Refilling(m)'
      BY <1>0, RefillKept
    <2> QED BY <1>0, <1>3, <2>1, <2>2 DEF EmptyOk
  <1>7. CASE overlap
    BY <1>0, <1>1, <1>5, <1>6, <1>7, OverlapParts, PartsInv
  <1>8. CASE ~overlap
    <2>1. Due = {s} \cup Steps(t) /\ Due' = Steps(t)
      BY <1>1, <1>8
    <2>2. \A m : Fills(m)' = Fills(m) /\ Lags(m)' = Lags(m)
      BY <1>0, <2>1 DEF Fills, Lags
    <2>3. \A m : \A r \in Fills(m) : r.v = v
      <3>1. \A r \in Due : r.op = "fill" => r.v = v
        BY <1>2, <2>1
      <3> QED BY <3>1 DEF Fills
    <2>4. EmptyFirst'
      <3>1. EmptyFirst
        BY DEF IInv
      <3> QED BY <1>0, <1>3, <2>1, <3>1 DEF EmptyFirst
    <2>5. Agreeing'
      <3>1. Agreeing
        BY DEF IInv
      <3>2. SUFFICES ASSUME ~single
                     PROVE  \E w \in Stub .. row : \A n \in Maps :
                                /\ \A r \in Fills(n) : r.v = w
                                /\ memory[n] = w \/ Fills(n) # {}
        BY <1>0, <1>1, <1>3, <2>2 DEF Agreeing
      <3> QED BY <1>8, <3>1, <3>2 DEF Agreeing
    <2>6. \/ v = keydb
          \/ v > keydb /\ \A m \in Maps : memory[m] <= v
          \/ v = Stub /\ table = "toll" /\ \E y \in Tasks : todo[y] = StubPlan
          \/ v = None /\ dropped /\ Emptied
      BY <1>3, <1>8, <2>1 DEF IInv, StoresForward, StoreSound
    <2>7. ~missed' => keydb' = v /\ (~missed \/ v > keydb)
      <3>1. ~missed' => "keydb" \in up /\ (~missed \/ ~(v <= keydb))
        BY <1>4, Zenon
      <3>2. ~(v <= keydb) => v > keydb
        BY <1>3
      <3> QED BY <1>4, <3>1, <3>2
    <2>8. FillsForward'
      <3>1. SUFFICES ASSUME ~missed', NEW m \in Maps, NEW r \in Fills(m), r.v > None, ~Lags(m)
                     PROVE  memory[m] <= r.v
        BY <1>1, <1>3, <2>2 DEF FillsForward
      <3>2. r.v = v
        BY <2>3
      <3>3. CASE ~missed
        BY <1>8, <3>1, <3>3 DEF IInv, FillsForward
      <3>4. CASE v > keydb
        <4>1. v # Stub /\ v # None /\ v # keydb
          BY <1>3, <3>1, <3>2, <3>4 DEF Stub, None
        <4> QED BY <2>6, <3>2, <4>1
      <3> QED BY <2>7, <3>1, <3>3, <3>4
    <2>9. KeydbFollows'
      <3>1. SUFFICES ASSUME ~missed', NEW m \in Maps, ~Lags(m)
                     PROVE  /\ memory[m] > None => memory[m] <= v \/ Fills(m) # {}
                            /\ \A r \in Fills(m) : r.v > None => r.v <= v
        <4>1. \A w : ~missed' /\ w <= v => Backed(w)'
          BY <2>7 DEF Backed
        <4> QED BY <1>1, <1>3, <2>2, <3>1, <4>1 DEF KeydbFollows
      <3>2. \A r \in Fills(m) : r.v <= v
        BY <1>3, <2>3
      <3>3. CASE v > keydb /\ \A n \in Maps : memory[n] <= v
        BY <3>2, <3>3
      <3>4. CASE v = Stub /\ table = "toll" /\ \E y \in Tasks : todo[y] = StubPlan
        <4>1. Maps = {"TOLL"} /\ \E y \in Tasks : todo[y] = StubPlan
          BY <3>4, MapsOfTables
        <4>2. PICK y \in Tasks : todo[y] = StubPlan
          BY <4>1
        <4>3. Fill("TOLL", Stub) \in Steps(todo[y])
          BY <3>4, <4>2, StubPlanFacts DEF IInv, TypeOK
        <4>4. Fill("TOLL", Stub) \in Fills(m)
          BY <4>1, <4>3 DEF Fills, Due, WritesOf, Writes, Fill, Step
        <4> QED BY <3>2, <4>4
      <3>6. CASE v = None /\ Emptied
        <4>1. memory[m] \in Int
          BY DEF IInv, TypeOK
        <4>2. memory[m] <= None \/ Fills(m) # {}
          BY <3>6 DEF Emptied
        <4> QED BY <3>2, <3>6, <4>1, <4>2 DEF None
      <3>5. CASE v = keydb /\ ~missed
        <4>1. memory[m] > None => Backed(memory[m]) \/ Fills(m) # {}
          BY <1>8, <3>1, <3>5 DEF IInv, KeydbFollows
        <4>2. \A r \in Due : r.op = "store" => r.v = v
          BY <1>2, <1>3, <2>1
        <4>3. Backed(memory[m]) => memory[m] <= v
          BY <3>5, <4>2 DEF Backed
        <4> QED BY <3>2, <4>1, <4>3
      <3>7. v = keydb => ~missed
        BY <1>3, <2>7, <3>1
      <3> QED BY <2>6, <3>3, <3>4, <3>5, <3>6, <3>7
    <2>10. StoresForward'
      <3>1. SUFFICES ASSUME NEW r \in Steps(t), r.op = "store" PROVE StoreSound(r.v)'
        BY <2>1 DEF StoresForward
      <3>2. r.v = v
        BY <1>2, <3>1
      <3>3. CASE keydb' = v
        BY <3>2, <3>3 DEF StoreSound
      <3>4. CASE keydb' = keydb
        <4>1. ~(table = "toll" /\ \E y \in Tasks : todo[y] = StubPlan)
          BY <1>8, <3>1, StubHere
        <4>2. Emptied => Emptied'
          BY <1>1, <1>3, <2>2 DEF Emptied
        <4> QED BY <1>0, <1>1, <1>3, <2>6, <3>2, <3>4, <4>1, <4>2 DEF StoreSound
      <3> QED BY <1>4, <3>3, <3>4
    <2>11. Parts'
      BY <1>1, <1>6, <2>4, <2>5, <2>8, <2>9, <2>10 DEF Parts
    <2> QED BY <1>1, <1>5, <2>11, PartsInv
  <1> QED BY <1>7, <1>8

LEMMA ClearInv ==
  ASSUME IInv, NEW x, NEW s, NEW t, NEW v, Goes(x, s, t, v), s.op = "clear",
         WriteMemory(s.on, s.v), UNCHANGED <<table, row, pool, up, events, overlap, single, dropped>>
  PROVE  IInv'
  <1>0. table' = table /\ row' = row /\ pool' = pool /\ overlap' = overlap /\ single' = single
        /\ dropped' = dropped
    OBVIOUS
  <1>1. /\ TodoSound' /\ OneWriter' /\ Maps' = Maps /\ todo' \in [Tasks -> Seq(Work)]
        /\ ~overlap => Due = {s} \cup Steps(t) /\ Due' = Steps(t)
    BY <1>0, GoesFacts
  <1>2. WritesOf(x)' = Steps(t) /\ \A r \in Steps(t) : r.op # "clear" => r.v = v
    BY <1>0, GoesFacts
  <1> DEFINE m == s.on
  <1>3. /\ s.v = None /\ m \in Maps /\ x \in Loaders
        /\ \E r \in Steps(t) : r.op = "fill" /\ r.on = m
        /\ row \in Nat /\ keydb \in Int /\ Stub <= keydb /\ memory \in [Maps -> Int]
    BY DEF Goes, IInv, TypeOK
  <1>4. /\ memory' = [memory EXCEPT ![m] = None] /\ loaded' = loaded
        /\ keydb' = keydb /\ missed' = missed
    BY <1>3 DEF WriteMemory, None
  <1> HIDE DEF m
  <1>5. /\ memory' \in [Maps -> Int] /\ memory'[m] = None
        /\ \A n \in Maps \ {m} : memory'[n] = memory[n]
    BY <1>3, <1>4 DEF None
  <1>6. TypeOK'
    <2>1. \A n \in Maps : Stub <= memory[n] /\ memory[n] <= row
      BY DEF IInv, TypeOK
    <2>2. Stub <= None /\ None <= row
      BY <1>3 DEF Stub, None
    <2>3. \A n \in Maps : Stub <= memory'[n] /\ memory'[n] <= row
      BY <1>5, <2>1, <2>2
    <2> QED BY <1>1, <1>4, <1>5, <2>3 DEF IInv, TypeOK
  <1>7. EmptyOk'
    <2>1. SUFFICES ASSUME ~overlap, ~dropped, NEW n \in loaded, memory'[n] = None
                   PROVE  Refilling(n)'
      BY <1>0, <1>4 DEF EmptyOk
    <2>2. CASE n = m
      <3>1. PICK r \in Steps(t) : r.op = "fill" /\ r.on = m
        BY <1>3
      <3>2. r \in Due
        BY <1>1, <2>1
      <3>3. r.v # None
        BY <2>1, <3>1, <3>2 DEF IInv, EmptyFirst
      <3> QED BY <1>2, <1>3, <2>2, <3>1, <3>3 DEF Refilling
    <2>3. CASE n # m
      <3>1. n \in Maps
        BY DEF IInv, TypeOK
      <3>2. memory[n] = None
        BY <1>5, <2>1, <2>3, <3>1
      <3>3. EmptyOk
        BY EmptyView DEF IInv
      <3>4. Refilling(n)
        BY <2>1, <3>2, <3>3 DEF EmptyOk
      <3> QED BY <1>0, <3>4, RefillKept
    <2> QED BY <2>2, <2>3
  <1>8. CASE overlap
    BY <1>0, <1>1, <1>6, <1>7, <1>8, OverlapParts, PartsInv
  <1>9. CASE ~overlap
    <2>1. Due = {s} \cup Steps(t) /\ Due' = Steps(t)
      BY <1>1, <1>9
    <2>2. \A n : Fills(n)' = Fills(n) /\ Lags(n)' = Lags(n)
      BY <1>0, <2>1 DEF Fills, Lags
    <2>3. Fills(m) # {}
      BY <1>3, <2>1 DEF Fills
    <2>4. EmptyFirst'
      <3>1. EmptyFirst
        BY DEF IInv
      <3> QED BY <1>0, <1>4, <2>1, <3>1 DEF EmptyFirst
    <2>5. Agreeing'
      <3>1. Agreeing
        BY DEF IInv
      <3>2. SUFFICES ASSUME ~single
                     PROVE  \E w \in Stub .. row : \A n \in Maps :
                                /\ \A r \in Fills(n) : r.v = w
                                /\ memory'[n] = w \/ Fills(n) # {}
        BY <1>0, <1>1, <2>2 DEF Agreeing
      <3>3. PICK w \in Stub .. row : \A n \in Maps :
                /\ \A r \in Fills(n) : r.v = w
                /\ memory[n] = w \/ Fills(n) # {}
        BY <1>9, <3>1, <3>2 DEF Agreeing
      <3> QED BY <1>5, <2>3, <3>3
    <2>6. FillsForward'
      <3>1. SUFFICES ASSUME ~missed, NEW n \in Maps, NEW r \in Fills(n), r.v > None, ~Lags(n)
                     PROVE  memory'[n] <= r.v
        BY <1>1, <1>4, <2>2 DEF FillsForward
      <3>2. CASE n = m
        <4>1. r.v \in Int
          <5>1. r.op = "fill" /\ r \in Steps(t)
            BY <2>1 DEF Fills
          <5> QED BY <1>2, <5>1 DEF Goes, Stub, IInv, TypeOK
        <4> QED BY <1>5, <3>1, <3>2, <4>1 DEF None
      <3>3. CASE n # m
        BY <1>5, <1>9, <3>1, <3>3 DEF IInv, FillsForward
      <3> QED BY <3>2, <3>3
    <2>7. KeydbFollows'
      <3>1. \A w : Backed(w) => Backed(w)'
        BY <1>4, <2>1 DEF Backed
      <3>2. SUFFICES ASSUME ~missed, NEW n \in Maps, ~Lags(n)
                     PROVE  /\ memory'[n] > None => Backed(memory'[n]) \/ Fills(n) # {}
                            /\ \A r \in Fills(n) : r.v > None => Backed(r.v)
        BY <1>1, <1>4, <2>2, <3>1 DEF KeydbFollows
      <3>3. /\ memory[n] > None => Backed(memory[n]) \/ Fills(n) # {}
            /\ \A r \in Fills(n) : r.v > None => Backed(r.v)
        BY <1>9, <3>2 DEF IInv, KeydbFollows
      <3> QED BY <1>5, <2>3, <3>3
    <2>8. StoresForward'
      <3>1. SUFFICES ASSUME NEW r \in Steps(t), r.op = "store" PROVE StoreSound(r.v)'
        BY <2>1 DEF StoresForward
      <3>2. StoreSound(r.v)
        BY <1>9, <2>1, <3>1 DEF IInv, StoresForward
      <3>3. ~(table = "toll" /\ \E y \in Tasks : todo[y] = StubPlan)
        BY <1>9, <3>1, StubHere
      <3>4. r.v = v /\ v \in Int
        BY <1>2, <3>1 DEF Goes, Stub, IInv, TypeOK
      <3>5. r.v > keydb => None <= r.v
        BY <1>3, <3>4 DEF Stub, None
      <3>6. r.v > keydb /\ (\A n \in Maps : memory[n] <= r.v) => \A n \in Maps : memory'[n] <= r.v
        BY <1>5, <3>5
      <3>7. Emptied => Emptied'
        BY <1>1, <1>5, <2>2, <2>3 DEF Emptied
      <3> QED BY <1>0, <1>1, <1>4, <3>2, <3>3, <3>6, <3>7 DEF StoreSound
    <2>9. Parts'
      BY <1>1, <1>7, <2>4, <2>5, <2>6, <2>7, <2>8 DEF Parts
    <2> QED BY <1>1, <1>6, <2>9, PartsInv
  <1> QED BY <1>8, <1>9

LEMMA FillInv ==
  ASSUME IInv, NEW x, NEW s, NEW t, NEW v, Goes(x, s, t, v), s.op = "fill",
         WriteMemory(s.on, s.v), UNCHANGED <<table, row, pool, up, events, overlap, single, dropped>>
  PROVE  IInv'
  <1>0. table' = table /\ row' = row /\ pool' = pool /\ overlap' = overlap /\ single' = single
        /\ dropped' = dropped
    OBVIOUS
  <1>1. /\ TodoSound' /\ OneWriter' /\ Maps' = Maps /\ todo' \in [Tasks -> Seq(Work)]
        /\ ~overlap => Due = {s} \cup Steps(t) /\ Due' = Steps(t)
    BY <1>0, GoesFacts
  <1>2. \A r \in Steps(t) : r.op # "clear" => r.v = v
    BY <1>0, GoesFacts
  <1> DEFINE m == s.on
  <1>3. /\ s.v = v /\ m \in Maps /\ v \in Int /\ Stub <= v /\ v <= row
        /\ row \in Nat /\ keydb \in Int /\ memory \in [Maps -> Int]
    BY DEF Goes, IInv, TypeOK, Stub
  <1>4. /\ memory' = [memory EXCEPT ![m] = v]
        /\ v > None => loaded' = loaded \cup {m}
        /\ v = None => loaded' = loaded
        /\ v < None => loaded' = loaded \ {m}
        /\ keydb' = keydb /\ missed' = missed
    BY <1>3 DEF WriteMemory, None
  <1> HIDE DEF m
  <1>5. /\ memory' \in [Maps -> Int] /\ memory'[m] = v
        /\ \A n \in Maps \ {m} : memory'[n] = memory[n]
    BY <1>3, <1>4
  <1>6. TypeOK'
    <2>1. \A n \in Maps : Stub <= memory[n] /\ memory[n] <= row
      BY DEF IInv, TypeOK
    <2>2. \A n \in Maps : Stub <= memory'[n] /\ memory'[n] <= row
      BY <1>3, <1>5, <2>1
    <2>3. v > None => row > None
      BY <1>3 DEF None
    <2>4. v > None \/ v = None \/ v < None
      BY <1>3 DEF None
    <2>5. loaded' \subseteq Maps /\ (loaded' # {} => row > None)
      <3>1. loaded \subseteq Maps /\ (loaded # {} => row > None)
        BY DEF IInv, TypeOK
      <3>2. CASE v > None
        BY <1>3, <1>4, <2>3, <3>1, <3>2
      <3>3. CASE v = None
        BY <1>4, <3>1, <3>3
      <3>4. CASE v < None
        BY <1>4, <3>1, <3>4
      <3> QED BY <2>4, <3>2, <3>3, <3>4
    <2>6. ASSUME NEW n \in loaded' PROVE memory'[n] >= None
      <3>1. CASE n = m
        <4>1. ~(v < None)
          BY <1>4, <2>6, <3>1
        <4> QED BY <1>3, <1>5, <2>4, <3>1, <4>1 DEF None
      <3>2. CASE n # m
        <4>1. n \in loaded /\ n \in Maps
          BY <1>4, <2>4, <2>5, <2>6, <3>2
        <4> QED BY <1>5, <3>2, <4>1 DEF IInv, TypeOK
      <3> QED BY <3>1, <3>2
    <2> QED BY <1>1, <1>4, <1>5, <2>2, <2>5, <2>6 DEF IInv, TypeOK
  <1>7. ASSUME ~overlap, ~dropped, v = None PROVE loaded = {} /\ loaded' = {}
    <2>1. s \in Due
      BY <1>1, <1>7
    <2>2. loaded = {}
      BY <1>3, <1>7, <2>1 DEF IInv, EmptyFirst
    <2> QED BY <1>4, <1>7, <2>2 DEF None
  <1>8. EmptyOk'
    <2>1. SUFFICES ASSUME ~overlap, ~dropped, NEW n \in loaded', memory'[n] = None
                   PROVE  Refilling(n)'
      BY <1>0 DEF EmptyOk
    <2>2. n # m
      BY <1>5, <1>7, <2>1
    <2>3. n \in loaded /\ n \in Maps
      <3>1. v > None \/ v = None \/ v < None
        BY <1>3 DEF None
      <3> QED BY <1>4, <2>1, <2>2, <3>1 DEF IInv, TypeOK
    <2>4. memory[n] = None
      BY <1>5, <2>1, <2>2, <2>3
    <2>5. EmptyOk
      BY EmptyView DEF IInv
    <2>6. Refilling(n)
      BY <2>1, <2>3, <2>4, <2>5 DEF EmptyOk
    <2> QED BY <1>0, <2>2, <2>6, RefillKept DEF m
  <1>9. CASE overlap
    BY <1>0, <1>1, <1>6, <1>8, <1>9, OverlapParts, PartsInv
  <1>10. CASE ~overlap
    <2>1. Due = {s} \cup Steps(t) /\ Due' = Steps(t) /\ s \in Fills(m)
      BY <1>1, <1>10 DEF Fills, m
    <2>2. \A n : Fills(n)' \subseteq Fills(n) /\ (n # m => Fills(n)' = Fills(n)) /\ Lags(n)' = Lags(n)
      BY <1>0, <2>1 DEF Fills, Lags, m
    <2>3. \A n : \A r \in Fills(n)' : r.v = v
      BY <1>2, <2>1 DEF Fills
    <2>4. EmptyFirst'
      <3>1. SUFFICES ASSUME NEW r \in Steps(t), r.op = "fill", r.v = None, ~dropped
                     PROVE  loaded' = {}
        BY <1>0, <2>1 DEF EmptyFirst
      <3>2. v = None
        BY <1>2, <3>1
      <3> QED BY <1>7, <1>10, <3>1, <3>2
    <2>5. Agreeing'
      <3>1. Agreeing
        BY DEF IInv
      <3>2. SUFFICES ASSUME ~single
                     PROVE  \E w \in Stub .. row : \A n \in Maps :
                                /\ \A r \in Fills(n)' : r.v = w
                                /\ memory'[n] = w \/ Fills(n)' # {}
        <4>1. Maps' = Maps /\ row' = row /\ single' = single
          BY <1>0, <1>1
        <4> QED BY <4>1 DEF Agreeing
      <3>3. PICK w \in Stub .. row : \A n \in Maps :
                /\ \A r \in Fills(n) : r.v = w
                /\ memory[n] = w \/ Fills(n) # {}
        BY <1>10, <3>1, <3>2 DEF Agreeing
      <3>4. v = w
        BY <1>3, <2>1, <3>3
      <3>5. ASSUME NEW n \in Maps
            PROVE  /\ \A r \in Fills(n)' : r.v = w
                   /\ memory'[n] = w \/ Fills(n)' # {}
        <4>1. CASE n = m
          BY <1>5, <2>3, <3>4, <4>1
        <4>2. CASE n # m
          BY <1>5, <2>2, <3>3, <4>2
        <4> QED BY <4>1, <4>2
      <3> QED BY <3>5
    <2>6. FillsForward'
      <3>1. SUFFICES ASSUME ~missed, NEW n \in Maps, NEW r \in Fills(n)', r.v > None, ~Lags(n)
                     PROVE  memory'[n] <= r.v
        BY <1>1, <1>4, <2>2 DEF FillsForward
      <3>2. CASE n = m
        BY <1>3, <1>5, <2>3, <3>2
      <3>3. CASE n # m
        <4>1. r \in Fills(n) /\ memory'[n] = memory[n]
          BY <1>5, <2>2, <3>3
        <4> QED BY <1>10, <3>1, <4>1 DEF IInv, FillsForward
      <3> QED BY <3>2, <3>3
    <2>7. KeydbFollows'
      <3>1. \A w : Backed(w) => Backed(w)'
        BY <1>4, <2>1 DEF Backed
      <3>2. SUFFICES ASSUME ~missed, NEW n \in Maps, ~Lags(n)
                     PROVE  /\ memory'[n] > None => Backed(memory'[n]) \/ Fills(n)' # {}
                            /\ \A r \in Fills(n)' : r.v > None => Backed(r.v)
        BY <1>1, <1>4, <2>2, <3>1 DEF KeydbFollows
      <3>3. /\ memory[n] > None => Backed(memory[n]) \/ Fills(n) # {}
            /\ \A r \in Fills(n) : r.v > None => Backed(r.v)
        BY <1>10, <3>2 DEF IInv, KeydbFollows
      <3>4. \A r \in Fills(n)' : r.v > None => Backed(r.v)
        BY <2>2, <3>3
      <3>5. CASE n = m
        BY <1>3, <1>5, <2>1, <3>3, <3>4, <3>5
      <3>6. CASE n # m
        BY <1>5, <2>2, <3>3, <3>4, <3>6
      <3> QED BY <3>5, <3>6
    <2>8. StoresForward'
      <3>1. SUFFICES ASSUME NEW r \in Steps(t), r.op = "store" PROVE StoreSound(r.v)'
        BY <2>1 DEF StoresForward
      <3>2. StoreSound(r.v)
        BY <1>10, <2>1, <3>1 DEF IInv, StoresForward
      <3>3. ~(table = "toll" /\ \E y \in Tasks : todo[y] = StubPlan)
        BY <1>10, <3>1, StubHere
      <3>4. r.v = v /\ v <= v
        BY <1>2, <1>3, <3>1
      <3>5. (\A n \in Maps : memory[n] <= r.v) => \A n \in Maps : memory'[n] <= r.v
        BY <1>5, <3>4
      <3>6. r.v = None /\ Emptied => Emptied'
        <4>1. r.v = None => memory'[m] <= None
          BY <1>5, <3>4
        <4> QED BY <1>1, <1>5, <2>2, <4>1 DEF Emptied
      <3> QED BY <1>0, <1>1, <1>4, <3>2, <3>3, <3>5, <3>6 DEF StoreSound
    <2>9. Parts'
      BY <1>1, <1>8, <2>4, <2>5, <2>6, <2>7, <2>8 DEF Parts
    <2> QED BY <1>1, <1>6, <2>9, PartsInv
  <1> QED BY <1>9, <1>10

LEMMA WriteInv ==
  ASSUME IInv, NEW x \in Tasks, Write(x)
  PROVE  IInv'
  <1> DEFINE s == Head(todo[x])
             t == Tail(todo[x])
  <1>1. PICK v : Goes(x, s, t, v)
    BY WriteGoes
  <1>2. /\ UNCHANGED <<table, row, pool, up, events, overlap, single, dropped>>
        /\ IF s.op = "store" THEN WriteKeydb(s.v) ELSE WriteMemory(s.on, s.v)
    BY DEF Write
  <1> HIDE DEF s, t
  <1>3. s.op \in {"store", "clear", "fill"}
    BY <1>1 DEF Goes, Writes
  <1>4. CASE s.op = "store"
    BY <1>1, <1>2, <1>4, StoreInv
  <1>5. CASE s.op = "clear"
    BY <1>1, <1>2, <1>5, ClearInv
  <1>6. CASE s.op = "fill"
    BY <1>1, <1>2, <1>6, FillInv
  <1> QED BY <1>3, <1>4, <1>5, <1>6

-----------------------------------------------------------------------------
(* The environment *)

\* Changes of the row, outages and their ends: the tasks stay where they are.
LEMMA OutsideInv ==
  ASSUME IInv, table' = table, memory' = memory, keydb' = keydb, todo' = todo, pool' = pool,
         UNCHANGED history, row' \in Nat, row <= row', up' \subseteq {"db", "keydb"},
         events' \in Nat
  PROVE  IInv'
  <1>0. overlap' = overlap /\ missed' = missed /\ single' = single /\ loaded' = loaded
        /\ dropped' = dropped
    BY DEF history
  <1>1. TypeOK'
    <2>1. \A m \in Maps : memory[m] \in Int /\ memory[m] <= row
      BY DEF IInv, TypeOK
    <2>2. row \in Nat /\ keydb \in Int /\ keydb <= row
      BY DEF IInv, TypeOK
    <2>3. /\ \A m \in Maps : memory[m] <= row'
          /\ keydb <= row' /\ (row > None => row' > None)
      BY <2>1, <2>2 DEF None
    <2> QED BY <1>0, <2>3 DEF IInv, TypeOK, Maps
  <1>2. TodoSound'
    <2>1. ASSUME NEW x \in Tasks PROVE TodoOk(x)'
      <3>1. TodoOk(x)
        BY DEF IInv, TodoSound, TodoOk
      <3> QED BY <3>1, TodoKept DEF IInv
    <2> QED BY <2>1 DEF TodoSound, TodoOk, IInv
  <1>3. Idle
    <2>1. \A x : WritesOf(x)' = WritesOf(x)
      BY DEF WritesOf
    <2>2. row \in Nat
      BY DEF IInv, TypeOK
    <2> QED BY <1>0, <2>1, <2>2 DEF Idle, Still
  <1>4. Parts'
    BY <1>3, IdleParts, InvParts
  <1> QED BY <1>1, <1>2, <1>4, PartsInv

LEMMA ChangeRowInv ==
  ASSUME IInv, ChangeRow
  PROVE  IInv'
  <1>1. row \in Nat /\ events \in Nat /\ up \subseteq {"db", "keydb"}
    BY DEF IInv, TypeOK
  <1>2. /\ row' \in Nat /\ row <= row' /\ events' \in Nat /\ up' \subseteq {"db", "keydb"}
        /\ table' = table /\ memory' = memory /\ keydb' = keydb /\ todo' = todo
        /\ pool' = pool /\ UNCHANGED history
    BY <1>1 DEF ChangeRow, Event
  <1> QED BY <1>2, OutsideInv

LEMMA DownBackInv ==
  ASSUME IInv, NEW x \in {"db", "keydb"}, Down(x) \/ Back(x)
  PROVE  IInv'
  <1>1. row \in Nat /\ row <= row /\ events \in Nat /\ up \subseteq {"db", "keydb"}
    BY DEF IInv, TypeOK
  <1>2. /\ row' = row /\ table' = table /\ memory' = memory /\ keydb' = keydb
        /\ todo' = todo /\ pool' = pool /\ UNCHANGED history
    BY DEF Down, Back
  <1>3. events' \in Nat
    BY <1>1 DEF Down, Back, Event
  <1>4. up' \subseteq {"db", "keydb"}
    BY <1>1 DEF Down, Back
  <1> QED BY <1>1, <1>2, <1>3, <1>4, OutsideInv

LEMMA ExpireInv ==
  ASSUME IInv, NEW m \in Maps, Expire(m)
  PROVE  IInv'
  <1>1. /\ table' = table /\ row' = row /\ keydb' = keydb /\ todo' = todo /\ pool' = pool
        /\ up' = up /\ overlap' = overlap /\ missed' = missed /\ single' = TRUE
        /\ memory' = [memory EXCEPT ![m] = None] /\ loaded' = loaded \ {m}
        /\ events' = events + 1 /\ m # "STAGE" /\ dropped' = dropped
    BY DEF Expire, Event
  <1>2. /\ row \in Nat /\ memory \in [Maps -> Int] /\ events \in Nat /\ keydb \in Int
        /\ Stub <= keydb
    BY DEF IInv, TypeOK
  <1>3. /\ memory' \in [Maps -> Int] /\ memory'[m] = None
        /\ \A n \in Maps \ {m} : memory'[n] = memory[n]
    BY <1>1, <1>2 DEF None
  <1>4. Maps' = Maps
    BY <1>1 DEF Maps
  <1>5. TypeOK'
    <2>1. \A n \in Maps : Stub <= memory[n] /\ memory[n] <= row
      BY DEF IInv, TypeOK
    <2>2. Stub <= None /\ None <= row
      BY <1>2 DEF Stub, None
    <2>3. \A n \in Maps : Stub <= memory'[n] /\ memory'[n] <= row
      BY <1>3, <2>1, <2>2
    <2>4. events' \in Nat
      BY <1>1, <1>2
    <2> QED BY <1>1, <1>3, <1>4, <2>3, <2>4 DEF IInv, TypeOK
  <1>6. TodoSound'
    <2>1. ASSUME NEW x \in Tasks PROVE TodoOk(x)'
      <3>1. TodoOk(x) /\ row <= row
        BY <1>2 DEF IInv, TodoSound, TodoOk
      <3> QED BY <1>1, <1>2, <3>1, TodoKept DEF IInv
    <2> QED BY <1>1, <2>1 DEF TodoSound, TodoOk, IInv
  <1>7. /\ \A x : WritesOf(x)' = WritesOf(x)
        /\ Due' = Due
        /\ \A n : Fills(n)' = Fills(n) /\ (Lags(n) => Lags(n)')
        /\ \A w : Backed(w)' = Backed(w)
    <2>1. \A x : WritesOf(x)' = WritesOf(x)
      BY <1>1 DEF WritesOf
    <2>2. Due' = Due
      BY <2>1 DEF Due
    <2> QED BY <1>1, <2>1, <2>2 DEF Fills, Lags, Backed
  <1>8. OneWriter'
    BY <1>1, <1>7 DEF IInv, OneWriter
  <1>9. EmptyFirst'
    <2>1. EmptyFirst
      BY DEF IInv
    <2> QED BY <1>1, <1>7, <2>1 DEF EmptyFirst
  <1>10. EmptyOk'
    <2>1. EmptyOk /\ loaded \subseteq Maps
      BY EmptyView DEF IInv, TypeOK
    <2>2. \A n : Refilling(n)' = Refilling(n)
      BY <1>7 DEF Refilling
    <2> QED BY <1>1, <1>3, <2>1, <2>2 DEF EmptyOk
  <1>11. Agreeing'
    BY <1>1 DEF Agreeing
  <1>12. FillsForward'
    <2>1. SUFFICES ASSUME ~overlap, ~missed, NEW n \in Maps, NEW s \in Fills(n), s.v > None,
                          ~Lags(n)
                   PROVE  memory'[n] <= s.v
      BY <1>1, <1>4, <1>7 DEF FillsForward
    <2>2. memory[n] <= s.v
      BY <2>1 DEF IInv, FillsForward
    <2>3. None <= s.v
      <3>1. s.v \in Int
        <4>1. s \in Due
          BY DEF Fills
        <4>2. PICK x \in Tasks : s \in WritesOf(x)
          BY <4>1 DEF Due
        <4>3. PICK i \in DOMAIN todo[x] : s = todo[x][i]
          BY <4>2 DEF WritesOf, Steps
        <4>4. todo[x] \in Seq(Work)
          BY DEF IInv, TypeOK
        <4>5. s \in Work
          BY <4>3, <4>4
        <4> QED BY <4>5 DEF Work
      <3> QED BY <2>1, <3>1 DEF None
    <2> QED BY <1>3, <2>2, <2>3
  <1>13. KeydbFollows'
    <2>1. SUFFICES ASSUME ~overlap, ~missed, NEW n \in Maps, ~Lags(n)
                   PROVE  /\ memory'[n] > None => Backed(memory'[n]) \/ Fills(n) # {}
                          /\ \A s \in Fills(n) : s.v > None => Backed(s.v)
      BY <1>1, <1>4, <1>7 DEF KeydbFollows
    <2>2. /\ memory[n] > None => Backed(memory[n]) \/ Fills(n) # {}
          /\ \A s \in Fills(n) : s.v > None => Backed(s.v)
      BY <2>1 DEF IInv, KeydbFollows
    <2>3. ~(None > None)
      BY DEF None
    <2> QED BY <1>3, <2>2, <2>3
  <1>14. StoresForward'
    <2>1. SUFFICES ASSUME ~overlap, NEW s \in Due, s.op = "store" PROVE StoreSound(s.v)'
      BY <1>1, <1>7 DEF StoresForward
    <2>2. StoreSound(s.v)
      BY <2>1 DEF IInv, StoresForward
    <2>3. s.v > keydb => None <= s.v
      <3>1. PICK x \in Tasks : s \in WritesOf(x)
        BY DEF Due
      <3>2. PICK i \in DOMAIN todo[x] : s = todo[x][i]
        BY <3>1 DEF WritesOf, Steps
      <3>3. todo[x] \in Seq(Work)
        BY DEF IInv, TypeOK
      <3>4. s \in Work
        BY <3>2, <3>3
      <3>5. s.v \in Int
        BY <3>4 DEF Work
      <3> QED BY <1>2, <3>5 DEF None, Stub
    <2>4. s.v > keydb /\ (\A n \in Maps : memory[n] <= s.v) => \A n \in Maps : memory'[n] <= s.v
      BY <1>3, <2>3
    <2>5. Emptied => Emptied'
      <3>1. None <= None
        BY DEF None
      <3> QED BY <1>3, <1>4, <1>7, <3>1 DEF Emptied
    <2> QED BY <1>1, <1>4, <2>2, <2>4, <2>5 DEF StoreSound
  <1>15. Parts'
    BY <1>8, <1>9, <1>10, <1>11, <1>12, <1>13, <1>14 DEF Parts
  <1> QED BY <1>5, <1>6, <1>15, PartsInv

\* Nothing is due after a start.
LEMMA StartedFacts ==
  ASSUME table \in Table, NEW p \in BOOLEAN
  PROVE  /\ Started(p) \in [Tasks -> Seq(Work)]
         /\ Started(p)["reconnect"] = <<>>
         /\ \A x \in Tasks : /\ \A s \in Steps(Started(p)[x]) : ~Writes(s)
                             /\ x # "periodic" => Started(p)[x] = <<>>
         /\ Started(p)["periodic"] = <<Query("all")>> \/ Started(p)["periodic"] = <<Fallback>>
  <1>1. "periodic" \in Tasks /\ "reconnect" \in Tasks
    BY DEF Tasks, Loaders
  <1>2. /\ FirstStep(p) \in Work /\ ~Writes(FirstStep(p))
        /\ FirstStep(p) = Query("all") \/ FirstStep(p) = Fallback
    BY StepFacts, MapNames DEF FirstStep
  <1> DEFINE a == FirstStep(p)
  <1> HIDE DEF a
  <1>3. <<a>> \in Seq(Work) /\ Steps(<<a>>) = {a}
    BY <1>2, OneStep DEF a
  <1>4. Started(p) = [x \in Tasks |-> IF x = "periodic" THEN <<a>> ELSE <<>>]
    BY DEF Started, a
  <1>5. Started(p) \in [Tasks -> Seq(Work)]
    BY <1>3, <1>4, NoSteps
  <1>6. ASSUME NEW x \in Tasks
        PROVE  /\ \A s \in Steps(Started(p)[x]) : ~Writes(s)
               /\ x # "periodic" => Started(p)[x] = <<>>
    BY <1>2, <1>3, <1>4, NoSteps DEF a
  <1>7. Started(p)["periodic"] = <<a>> /\ Started(p)["reconnect"] = <<>>
    BY <1>1, <1>4
  <1> QED BY <1>2, <1>5, <1>6, <1>7 DEF a

\* A node that starts: memory empty and nothing due.
Fresh ==
    /\ table \in Table /\ row \in Nat /\ keydb \in Int /\ Stub <= keydb /\ keydb <= row
    /\ memory = [m \in Maps |-> None] /\ loaded = {}
    /\ pool \in BOOLEAN /\ todo = Started(pool)
    /\ up \subseteq {"db", "keydb"} /\ events \in Nat
    /\ overlap \in BOOLEAN /\ missed \in BOOLEAN /\ single \in BOOLEAN
    /\ dropped \in BOOLEAN

LEMMA FreshInv ==
  ASSUME Fresh
  PROVE  IInv
  <1>1. /\ table \in Table /\ row \in Nat /\ pool \in BOOLEAN /\ todo = Started(pool)
        /\ loaded = {} /\ memory = [m \in Maps |-> None]
    BY DEF Fresh
  <1>2. /\ todo \in [Tasks -> Seq(Work)] /\ todo["reconnect"] = <<>>
        /\ \A x \in Tasks : (\A s \in Steps(todo[x]) : ~Writes(s))
        /\ \A x \in Tasks : x # "periodic" => todo[x] = <<>>
        /\ todo["periodic"] = <<Query("all")>> \/ todo["periodic"] = <<Fallback>>
    BY <1>1, StartedFacts
  <1>3. /\ memory \in [Maps -> Int]
        /\ \A m \in Maps : memory[m] = None /\ Stub <= memory[m] /\ memory[m] <= row
    BY <1>1 DEF Stub, None
  <1>4. TypeOK
    BY <1>1, <1>2, <1>3 DEF Fresh, TypeOK
  <1>5. TodoSound
    <2>1. ASSUME NEW x \in Tasks PROVE TodoOk(x)
      <3>1. CASE x = "periodic"
        BY <1>2, <3>1 DEF TodoOk, Asks, Loaders
      <3>2. CASE x # "periodic"
        <4>1. todo[x] = <<>>
          BY <1>2, <3>2
        <4>2. Plan(todo[x], Stub) /\ Steps(todo[x]) = {}
          BY <4>1, NoSteps DEF Plan
        <4>3. Stub \in Stub .. row
          BY <1>1 DEF Stub
        <4> QED BY <4>2, <4>3 DEF TodoOk
      <3> QED BY <3>1, <3>2
    <2> QED BY <1>2, <2>1 DEF TodoSound, TodoOk
  <1>6. Due = {} /\ \A x \in Tasks : WritesOf(x) = {}
    <2>1. \A x \in Tasks : WritesOf(x) = {}
      BY <1>2 DEF WritesOf
    <2> QED BY <2>1 DEF Due
  <1>7. \A m : Fills(m) = {}
    BY <1>6 DEF Fills
  <1>8. OneWriter /\ EmptyFirst
    BY <1>6 DEF OneWriter, EmptyFirst
  <1>9. EmptyOnlyInReload
    BY <1>1 DEF EmptyOnlyInReload
  <1>10. Agreeing
    <2>1. None \in Stub .. row
      BY <1>1 DEF Stub, None
    <2> QED BY <1>3, <1>7, <2>1 DEF Agreeing
  <1>11. FillsForward /\ StoresForward
    BY <1>6, <1>7 DEF FillsForward, StoresForward
  <1>12. KeydbFollows
    <2>1. ~(None > None)
      BY DEF None
    <2> QED BY <1>3, <1>7, <2>1 DEF KeydbFollows
  <1> QED BY <1>4, <1>5, <1>8, <1>9, <1>10, <1>11, <1>12 DEF IInv

LEMMA FreshInvNext == Fresh' => IInv'
  BY FreshInv, PTL

LEMMA InitInv == Init => IInv
  <1>1. SUFFICES ASSUME Init PROVE Fresh
    BY FreshInv
  <1>2. /\ table \in Table /\ row \in {None, 1} /\ keydb = None
        /\ memory = [m \in Maps |-> None] /\ loaded = {} /\ todo = Started(pool)
        /\ overlap = FALSE /\ missed = FALSE /\ single = FALSE /\ events = 0
        /\ dropped = FALSE
    BY <1>1 DEF Init
  <1>3. up \subseteq {"db", "keydb"} /\ pool \in BOOLEAN
    BY <1>1 DEF Init
  <1>4. row \in Nat /\ keydb \in Int /\ Stub <= keydb /\ keydb <= row /\ events \in Nat
    BY <1>2 DEF None, Stub
  <1> QED BY <1>2, <1>3, <1>4 DEF Fresh

LEMMA RestartInv ==
  ASSUME IInv, Restart
  PROVE  IInv'
  <1>1. /\ table' = table /\ row' = row /\ keydb' = keydb /\ up' = up
        /\ overlap' = overlap /\ missed' = missed /\ single' = single /\ dropped' = dropped
        /\ memory' = [m \in Maps |-> None] /\ loaded' = {} /\ todo' = Started(pool')
        /\ pool' \in BOOLEAN /\ events' = events + 1
    BY DEF Restart, Event
  <1>2. events' \in Nat
    BY <1>1 DEF IInv, TypeOK
  <1>3. Maps' = Maps /\ Started(pool') = Started(pool)'
    BY <1>1 DEF Maps, Started, FirstStep, Tasks, Query, Fallback, Step
  <1>4. Fresh'
    BY <1>1, <1>2, <1>3 DEF Fresh, IInv, TypeOK
  <1> QED BY <1>4, FreshInvNext

-----------------------------------------------------------------------------
(* The invariant *)

LEMMA StutterInv ==
  ASSUME IInv, UNCHANGED vars
  PROVE  IInv'
  <1>1. /\ table' = table /\ row' = row /\ memory' = memory /\ keydb' = keydb /\ todo' = todo
        /\ pool' = pool /\ up' = up /\ events' = events /\ UNCHANGED history
    BY DEF vars
  <1>2. row \in Nat /\ row <= row /\ up \subseteq {"db", "keydb"} /\ events \in Nat
    BY DEF IInv, TypeOK
  <1> QED BY <1>1, <1>2, OutsideInv

LEMMA NextInv ==
  ASSUME IInv, Next
  PROVE  IInv'
  <1>1. ASSUME NEW l \in Loaders, LoadStep(l) PROVE IInv'
    BY <1>1, LoaderTasks, LoadQueryInv, LoadCutShortInv, LoadFallbackInv, WriteInv
       DEF LoadStep
  <1>2. ASSUME NEW c \in Calls, CallStep(c) PROVE IInv'
    BY <1>2, LoaderTasks, MissMokaInv, MissInv, MissQueryInv, MissConnectionInv, MissLanesInv,
       WriteInv DEF CallStep
  <1> QED BY <1>1, <1>2, StartReloadInv, ReconnectInv, ChangeRowInv, DownBackInv, ExpireInv,
             RestartInv DEF Next

\* Every reachable state of the cache satisfies the inductive invariant: a task has a
\* question or the rest of one plan left, and what is due fits memory and KeyDB
\* (the loads and lookups of cache/data/ and models/TollCache.rs).
THEOREM RatingInvariant == Spec => []IInv
  <1>1. IInv /\ [Next]_vars => IInv'
    BY NextInv, StutterInv
  <1> QED BY <1>1, InitInv, PTL DEF Spec

\* A map that held a row is empty only between the clear and the fill of a reload, where
\* two tasks raced, or until the next complete load after one that did not see the row:
\* a fetch that broke off, or a fallback to a KeyDB that had missed it (reload_all_cache
\* and the get_*_cache loads).
THEOREM EmptyOnlyWhileReloading == Spec => []EmptyOnlyInReload
  <1>1. IInv => EmptyOnlyInReload
    BY DEF IInv
  <1> QED BY <1>1, RatingInvariant, PTL

LEMMA InvAgree == IInv => MapsAgree
  <1>1. SUFFICES ASSUME IInv, ~single, ~overlap,
                        \A x \in Tasks : \A i \in DOMAIN todo[x] : ~Writes(todo[x][i])
                 PROVE  \A m, n \in Maps : memory[m] = memory[n]
    BY DEF MapsAgree
  <1>2. \A x \in Tasks : WritesOf(x) = {}
    BY <1>1 DEF WritesOf, Steps
  <1>3. \A m : Fills(m) = {}
    BY <1>2 DEF Fills, Due
  <1>4. PICK v \in Stub .. row : \A m \in Maps : memory[m] = v \/ Fills(m) # {}
    BY <1>1 DEF IInv, Agreeing
  <1> QED BY <1>3, <1>4

\* The maps of a table hold the same version when no task works on it, unless one was
\* filled or expired alone, the load came from KeyDB, or two tasks raced.
THEOREM MapsAlwaysAgree == Spec => []MapsAgree
  BY InvAgree, RatingInvariant, PTL

\* The step of NeverBack, for one map.
Back1(m) == (memory[m] > None /\ memory'[m] \in 1 .. memory[m] - 1)
                => overlap \/ missed \/ (m = "STAGE" /\ single)

LEMMA BackStays ==
  ASSUME IInv, NEW m \in Maps, memory'[m] = memory[m] \/ memory'[m] = None
  PROVE  Back1(m)
  <1>1. memory[m] \in Int
    BY DEF IInv, TypeOK
  <1> QED BY <1>1 DEF Back1, None

LEMMA WriteBack ==
  ASSUME IInv, NEW x \in Tasks, Write(x), NEW m \in Maps
  PROVE  Back1(m)
  <1> DEFINE s == Head(todo[x])
             t == Tail(todo[x])
  <1>1. PICK v : Goes(x, s, t, v)
    BY WriteGoes
  <1>2. /\ IF s.op = "store" THEN WriteKeydb(s.v) ELSE WriteMemory(s.on, s.v)
        /\ table' = table /\ row' = row /\ pool' = pool /\ overlap' = overlap
    BY DEF Write
  <1> HIDE DEF s, t
  <1>3. memory \in [Maps -> Int]
    BY DEF IInv, TypeOK
  <1>4. CASE s.op = "store"
    <2>1. memory' = memory
      BY <1>2, <1>4 DEF WriteKeydb
    <2> QED BY <2>1, BackStays
  <1>5. CASE s.op # "store"
    <2>1. memory' = [memory EXCEPT ![s.on] = s.v]
      BY <1>2, <1>5 DEF WriteMemory
    <2>2. CASE s.on # m \/ s.op = "clear"
      <3>1. s.op = "clear" => s.v = None
        BY <1>1 DEF Goes
      <3>2. memory'[m] = memory[m] \/ memory'[m] = None
        BY <1>3, <2>1, <2>2, <3>1
      <3> QED BY <3>2, BackStays
    <2>3. CASE s.on = m /\ s.op = "fill"
      <3>1. memory'[m] = s.v
        BY <1>3, <2>1, <2>3
      <3>2. ~overlap => s \in Fills(m)
        <4>1. ~overlap => Due = {s} \cup Steps(t)
          BY <1>1, <1>2, GoesFacts
        <4> QED BY <2>3, <4>1 DEF Fills
      <3>3. ~overlap /\ ~missed /\ s.v > None /\ ~(m = "STAGE" /\ single) => memory[m] <= s.v
        BY <3>2 DEF IInv, FillsForward, Lags
      <3>4. memory[m] \in Int
        BY <1>3
      <3>5. ASSUME s.v \in 1 .. memory[m] - 1 PROVE s.v > None /\ ~(memory[m] <= s.v)
        BY <3>4, <3>5 DEF None
      <3> QED BY <3>1, <3>3, <3>5 DEF Back1
    <2>4. s.op \in {"clear", "fill"}
      BY <1>1, <1>5 DEF Goes, Writes
    <2> QED BY <2>2, <2>3, <2>4
  <1> QED BY <1>4, <1>5

\* Memory goes back to an older version only where two tasks worked on the table at once,
\* KeyDB missed the newer version, or a lookup had put it into the stage index, which is
\* not kept in KeyDB.
THEOREM NeverBackAlways == Spec => NeverBack
  <1>1. ASSUME IInv, [Next]_vars PROVE \A m \in Maps : Back1(m)
    <2>1. ASSUME NEW m \in Maps PROVE Back1(m)
      <3>1. CASE memory' = memory
        BY <1>1, <3>1, BackStays
      <3>2. ASSUME NEW x \in Tasks, Write(x) PROVE Back1(m)
        BY <1>1, <3>2, WriteBack
      <3>3. ASSUME NEW n \in Maps, Expire(n) PROVE Back1(m)
        <4>1. memory \in [Maps -> Int] /\ memory' = [memory EXCEPT ![n] = None]
          BY <1>1, <3>3 DEF Expire, IInv, TypeOK
        <4>2. memory'[m] = memory[m] \/ memory'[m] = None
          BY <4>1
        <4> QED BY <1>1, <4>2, BackStays
      <3>4. CASE Restart
        <4>1. memory'[m] = None
          BY <3>4 DEF Restart
        <4> QED BY <1>1, <4>1, BackStays
      <3>5. ASSUME NEW l \in Loaders, LoadStep(l) PROVE Back1(m)
        <4>1. memory' = memory \/ Write(l)
          BY <3>5 DEF LoadStep, LoadQuery, LoadCutShort, LoadFallback
        <4> QED BY <3>1, <3>2, <4>1, LoaderTasks
      <3>6. ASSUME NEW c \in Calls, CallStep(c) PROVE Back1(m)
        <4>1. memory' = memory \/ Write(c)
          BY <3>6 DEF CallStep, MissMoka, Miss, MissQuery, MissConnection, MissLanes
        <4> QED BY <3>1, <3>2, <4>1, LoaderTasks
      <3>7. CASE StartReload \/ Reconnect \/ ChangeRow \/ UNCHANGED vars
        BY <3>1, <3>7 DEF StartReload, Reconnect, ChangeRow, vars
      <3>8. ASSUME NEW y \in {"db", "keydb"}, Down(y) \/ Back(y) PROVE Back1(m)
        BY <3>1, <3>8 DEF Down, Back
      <3> QED BY <1>1, <3>3, <3>4, <3>5, <3>6, <3>7, <3>8 DEF Next
    <2> QED BY <2>1
  <1>2. IInv /\ [Next]_vars => [\A m \in Maps : (memory[m] > None /\ memory'[m] \in 1 .. memory[m] - 1)
                                    => overlap \/ missed \/ (m = "STAGE" /\ single)]_vars
    BY <1>1 DEF Back1
  <1> QED BY <1>2, RatingInvariant, PTL DEF Spec, NeverBack

-----------------------------------------------------------------------------
(* The fee of a trip (TollFee), by the prices a load of the cache kept        *)

\* The first of some places of a list is one of them.
LEMMA FirstPlace ==
  ASSUME NEW S \in SUBSET Nat, S # {}
  PROVE  Min(S) \in S
  <1>1. IsWellFoundedOn(OpToRel(<, Nat), Nat)
    BY NatLessThanWellFounded, Zenon
  <1>2. PICK m \in S : \A y \in S : ~(<<y, m>> \in OpToRel(<, Nat))
    BY <1>1, WFMin, Zenon
  <1>3. \A y \in S : ~(y < m)
    BY <1>2 DEF OpToRel
  <1>4. \A y \in S : m <= y
    BY <1>3
  <1> QED BY <1>4 DEF Min

\* Of rows that take effect before some time one takes effect last.
LEMMA NewestKept ==
  ASSUME NEW S, NEW top \in Int, S # {}, \A r \in S : r.from \in Int /\ r.from <= top
  PROVE  NewestOf(S) \in S
  <1> DEFINE T == {top - r.from : r \in S}
  <1>1. T \in SUBSET Nat /\ T # {}
    OBVIOUS
  <1>2. IsWellFoundedOn(OpToRel(<, Nat), Nat)
    BY NatLessThanWellFounded, Zenon
  <1>3. PICK m \in T : \A y \in T : ~(<<y, m>> \in OpToRel(<, Nat))
    <2> HIDE DEF T
    <2> QED BY <1>1, <1>2, WFMin, Zenon
  <1>4. \A y \in T : ~(y < m)
    BY <1>1, <1>3 DEF OpToRel
  <1>5. PICK r \in S : m = top - r.from
    BY <1>3
  <1>6. \A q \in S : q.from <= r.from
    <2> SUFFICES ASSUME NEW q \in S PROVE q.from <= r.from
      OBVIOUS
    <2>1. ~(top - q.from < top - r.from)
      BY <1>4, <1>5
    <2> QED BY <2>1
  <1> QED BY <1>6, Zenon DEF NewestOf

\* What a load keeps are rows of the table, active at the time of the load, under their
\* own keys.
LEMMA LoadKeeps ==
  ASSUME NEW t \in Trip,
         NEW k \in DOMAIN LoadedPrices(t.rows, t.loaded)
  PROVE  LET r == LoadedPrices(t.rows, t.loaded)[k]
         IN  r \in Active(t.rows, t.loaded) /\ Key(r) = k
  <1> DEFINE active == Active(t.rows, t.loaded)
             same == {r \in active : Key(r) = k}
  <1>1. t.loaded \in Int /\ \A r \in t.rows : r.from \in Int
    BY TollFeeAssumption
  <1>2. \A r \in active : r \in t.rows /\ r.from <= t.loaded + 1
    BY DEF Active
  <1> HIDE DEF active
  <1>3. /\ k \in {Key(r) : r \in active}
        /\ LoadedPrices(t.rows, t.loaded)[k] = NewestOf(same)
    BY DEF LoadedPrices, active
  <1>4. same # {}
    BY <1>3
  <1>5. \A r \in same : r.from \in Int /\ r.from <= t.loaded + 1
    BY <1>1, <1>2
  <1>6. t.loaded + 1 \in Int
    BY <1>1
  <1>7. NewestOf(same) \in same
    <2> HIDE DEF same
    <2> QED BY <1>4, <1>5, <1>6, NewestKept
  <1> QED BY <1>3, <1>7 DEF active

\* The prices of the memory of trip t.
Kept(t) == LoadedPrices(t.rows, t.loaded)

\* get_price_by_stage_id: no price, or a row for the stage and the vehicle type that the
\* table has in force, or that was active when the cache was loaded.
LEMMA StagePrice ==
  ASSUME NEW t \in Trip, NEW stage, NEW wanted,
         NEW p \in PriceByStage(t, Kept(t), stage, wanted), p # NoPrice
  PROVE  /\ p \in t.rows /\ p.stage = stage /\ p.vehicle = wanted
         /\ ValidAt(p, t.time) \/ p \in Active(t.rows, t.loaded)
  <1> DEFINE mem == Kept(t)
             held == {mem[k] : k \in DOMAIN mem}
             hit == {r \in held : r.stage = stage /\ r.vehicle = wanted}
             miss == {r \in t.rows : /\ r.stage = stage /\ r.vehicle = wanted
                                     /\ ValidAt(r, t.time)}
  <1>1. p \in hit \/ p \in miss
    <2> HIDE DEF mem
    <2>1. p \in IF hit # {} THEN hit ELSE miss \cup {NoPrice}
      BY DEF PriceByStage, mem
    <2> QED BY <2>1, Zenon
  <1>2. CASE p \in miss
    BY <1>2
  <1>3. CASE p \in hit
    <2>1. PICK k \in DOMAIN mem : p = mem[k]
      BY <1>3
    <2>2. p \in Active(t.rows, t.loaded)
      BY <2>1, LoadKeeps DEF Kept
    <2> QED BY <1>3, <2>2 DEF Active
  <1> QED BY <1>1, <1>2, <1>3

\* get_price: no price, or a row for the vehicle type that was active at the load or is
\* active at the exit.
LEMMA TollsPrice ==
  ASSUME NEW t \in Trip, NEW a, NEW b, NEW wanted,
         NEW p \in PriceByTolls(t, Kept(t), a, b, wanted), p # NoPrice
  PROVE  /\ p \in t.rows /\ p.vehicle = wanted
         /\ p \in Active(t.rows, t.loaded) \/ p \in Active(t.rows, t.time)
  <1> DEFINE mem == Kept(t)
             rows(x, y) == {r \in Active(t.rows, t.time) : Key(r) = <<x, y, wanted>>}
  <1>1. \A x, y : <<x, y, wanted>> \in DOMAIN mem =>
            /\ mem[<<x, y, wanted>>] \in t.rows /\ mem[<<x, y, wanted>>].vehicle = wanted
            /\ mem[<<x, y, wanted>>] \in Active(t.rows, t.loaded)
    <2> SUFFICES ASSUME NEW x, NEW y, <<x, y, wanted>> \in DOMAIN mem
                 PROVE  /\ mem[<<x, y, wanted>>] \in t.rows
                        /\ mem[<<x, y, wanted>>].vehicle = wanted
                        /\ mem[<<x, y, wanted>>] \in Active(t.rows, t.loaded)
      OBVIOUS
    <2>1. PICK r : r = mem[<<x, y, wanted>>]
      OBVIOUS
    <2>2. r \in Active(t.rows, t.loaded) /\ Key(r) = <<x, y, wanted>>
      BY <2>1, LoadKeeps DEF Kept
    <2> HIDE DEF mem
    <2> QED BY <2>1, <2>2 DEF Active, Key
  <1>2. \A x, y : \A r \in rows(x, y) : r \in t.rows /\ r.vehicle = wanted
                                        /\ r \in Active(t.rows, t.time)
    BY DEF Active, Key
  <1> HIDE DEF mem, rows
  <1>3. \/ <<a, b, wanted>> \in DOMAIN mem /\ p = mem[<<a, b, wanted>>]
        \/ <<b, a, wanted>> \in DOMAIN mem /\ p = mem[<<b, a, wanted>>]
        \/ p \in rows(a, b) \/ p \in rows(b, a)
    BY DEF PriceByTolls, mem, rows
  <1> QED BY <1>1, <1>2, <1>3

\* effective_vehicle_type: the vehicle's own type, or one of its exception list.
LEMMA WantedVehicle ==
  ASSUME NEW t \in Trip, NEW own, NEW a, NEW b, NEW boo
  PROVE  PricedVehicle(t, own, a, b, boo) \in {own} \cup {t.ex[i].value : i \in DOMAIN t.ex}
  <1> DEFINE places == ClosedEntries(t.ex, boo)
             named == {i \in places : t.ex[i].toll \in {a, b}}
             nationwide == {i \in places : t.ex[i].toll = 0}
  <1>1. places \subseteq DOMAIN t.ex /\ DOMAIN t.ex \subseteq Nat
    <2>1. t.ex \in Seq(ToSet(t.ex))
      BY TollFeeAssumption
    <2>2. DOMAIN t.ex \subseteq Nat
      BY <2>1
    <2> QED BY <2>2 DEF ClosedEntries
  <1> HIDE DEF places
  <1>2. /\ named # {} => Min(named) \in DOMAIN t.ex
        /\ nationwide # {} => Min(nationwide) \in DOMAIN t.ex
    <2>1. /\ named \in SUBSET Nat /\ named \subseteq DOMAIN t.ex
          /\ nationwide \in SUBSET Nat /\ nationwide \subseteq DOMAIN t.ex
      BY <1>1
    <2> HIDE DEF named, nationwide
    <2> QED BY <2>1, FirstPlace
  <1>3. EffectiveVehicleType(t, own, a, b, boo) =
            IF named # {} THEN t.ex[Min(named)].value
            ELSE IF nationwide # {} THEN t.ex[Min(nationwide)].value ELSE own
    BY DEF EffectiveVehicleType, FirstEntry, places
  <1>4. \/ PricedVehicle(t, own, a, b, boo) = own
        \/ PricedVehicle(t, own, a, b, boo) = EffectiveVehicleType(t, own, a, b, boo)
    BY DEF PricedVehicle
  <1> HIDE DEF named, nationwide
  <1> QED BY <1>2, <1>3, <1>4

\* ChargedPriceInForce for one detail of trip t,
Charged(t, own, d) == d.amount > 0 =>
  \E r \in t.rows : /\ r.stage = d.stage /\ ValidAt(r, t.time) /\ r.amount = d.amount
                    /\ r.vehicle \in {own} \cup {t.ex[i].value : i \in DOMAIN t.ex}

\* OnList and Boos of trip t,
ListedFor(t, item, boo) == \E e \in t.wb :
  /\ e.item = item /\ e.boo \in {AnyBoo, boo}
  /\ \/ e.toll = 0 /\ e.cycle = 0
     \/ e.toll > 0 /\ e.toll = t.out
     \/ e.cycle > 0 /\ e.cycle = SegmentCycle(t.in, t.out)

BoosOf(t, stage) ==
  LET own == {BooOf[t.out]} \ {NoBoo}
  IN  IF t.in = t.out /\ own # {} THEN own
      ELSE own \cup {r.boo : r \in {q \in t.rows : q.stage = stage}}

\* FreeNeedsReason for one detail,
Reason(t, d) == d.amount = 0 =>
  \/ \E boo \in BoosOf(t, d.stage) :
       ListedFor(t, "W", boo) /\ (t.in = t.out => ~ListedFor(t, "B", boo))
  \/ \E h \in t.history : h.stage = d.stage /\ ValidAt(h, t.time)
                           /\ \E r \in t.rows : /\ r.stage = d.stage /\ ValidAt(r, t.time)
                                                /\ BooMatches(h.boo, r.boo)
  \/ \E r \in t.rows : r.stage = d.stage /\ ValidAt(r, t.time) /\ r.amount = 0
  \/ /\ t.in = t.out
     /\ \E r \in t.rows :
          /\ r.stage = d.stage
          /\ \/ r.from > t.time /\ r.from <= t.time + 1
             \/ r.to # NoEnd /\ r.to < t.time /\ t.loaded - 1 <= r.to

\* and the change of prices that RefusedOnlyAroundChange asks for.
Change(t) ==
  \E r \in t.rows :
    /\ r.stage \in ToSet(StagesOf[SegmentKey(t.in, t.out)])
    /\ \/ r.from \in t.loaded .. t.time + 1
       \/ r.to # NoEnd /\ r.to \in t.loaded - 1 .. t.time

\* A fee of n accounted details, or a refusal, as expired only around a change.
Sound(t, own, n, f) ==
  \/ \E ds : /\ f = Rated(ds) /\ Len(ds) = n /\ DOMAIN ds = 1 .. n
             /\ \A d \in ToSet(ds) : Charged(t, own, d) /\ Reason(t, d)
  \/ \E w : f = Refused(w) /\ (w = "expired" => Change(t))

LEMMA OneDetail ==
  ASSUME NEW d
  PROVE  Len(<<d>>) = 1 /\ DOMAIN <<d>> = 1 .. 1 /\ ToSet(<<d>>) = {d}
  <1>1. Len(<<d>>) = 1 /\ DOMAIN <<d>> = 1 .. 1 /\ <<d>>[1] = d
    OBVIOUS
  <1> QED BY <1>1 DEF ToSet

LEMMA OneSound ==
  ASSUME NEW t, NEW own, NEW d, Charged(t, own, d), Reason(t, d)
  PROVE  Sound(t, own, 1, Rated(<<d>>))
  <1>1. Len(<<d>>) = 1 /\ DOMAIN <<d>> = 1 .. 1 /\ ToSet(<<d>>) = {d}
    BY OneDetail
  <1>2. \A e \in ToSet(<<d>>) : Charged(t, own, e) /\ Reason(t, e)
    BY <1>1, Zenon
  <1> QED BY <1>1, <1>2, Zenon DEF Sound

LEMMA RefusalSound ==
  ASSUME NEW t, NEW own, NEW n, NEW w, w = "expired" => Change(t)
  PROVE  Sound(t, own, n, Refused(w))
  BY Zenon DEF Sound

\* What the lists say of the exit of a trip.
LEMMA ListsOfTrip ==
  ASSUME NEW t, NEW boo
  PROVE  /\ InWhiteList(t, t.out, SegmentCycle(t.in, t.out), boo) <=> ListedFor(t, "W", boo)
         /\ InBlackList(t, t.out, SegmentCycle(t.in, t.out), boo) <=> ListedFor(t, "B", boo)
  <1> DEFINE cycle == SegmentCycle(t.in, t.out)
             for(e) == \/ e.toll = 0 /\ e.cycle = 0
                       \/ e.toll > 0 /\ e.toll = t.out
                       \/ e.cycle > 0 /\ e.cycle = cycle
  <1> HIDE DEF cycle
  <1>1. /\ InWhiteList(t, t.out, cycle, boo) <=>
              \E e \in White(t) : BooMatches(e.boo, boo) /\ for(e)
        /\ InBlackList(t, t.out, cycle, boo) <=>
              \E e \in Black(t) : BooMatches(e.boo, boo) /\ for(e)
    BY Zenon DEF InWhiteList, InBlackList, Listed
  <1>2. \A item : ListedFor(t, item, boo) <=>
              \E e \in t.wb : e.item = item /\ e.boo \in {AnyBoo, boo} /\ for(e)
    BY Zenon DEF ListedFor, cycle
  <1> HIDE DEF for
  <1>3. \A e : BooMatches(e.boo, boo) <=> e.boo \in {AnyBoo, boo}
    BY DEF BooMatches
  <1>4. \A e : /\ (e \in White(t) <=> e \in t.wb /\ e.item = "W")
               /\ (e \in Black(t) <=> e \in t.wb /\ e.item = "B")
    BY DEF White, Black
  <1>5. InWhiteList(t, t.out, cycle, boo) <=> ListedFor(t, "W", boo)
    <2>1. ASSUME InWhiteList(t, t.out, cycle, boo) PROVE ListedFor(t, "W", boo)
      <3>1. PICK e \in White(t) : BooMatches(e.boo, boo) /\ for(e)
        BY <1>1, <2>1, Zenon
      <3>2. e \in t.wb /\ e.item = "W" /\ e.boo \in {AnyBoo, boo}
        BY <1>3, <1>4, <3>1, Zenon
      <3> QED BY <1>2, <3>1, <3>2, Zenon
    <2>2. ASSUME ListedFor(t, "W", boo) PROVE InWhiteList(t, t.out, cycle, boo)
      <3>1. PICK e \in t.wb : e.item = "W" /\ e.boo \in {AnyBoo, boo} /\ for(e)
        BY <1>2, <2>2, Zenon
      <3>2. e \in White(t) /\ BooMatches(e.boo, boo)
        BY <1>3, <1>4, <3>1, Zenon
      <3> QED BY <1>1, <3>1, <3>2, Zenon
    <2> QED BY <2>1, <2>2, Zenon
  <1>6. InBlackList(t, t.out, cycle, boo) <=> ListedFor(t, "B", boo)
    <2>1. ASSUME InBlackList(t, t.out, cycle, boo) PROVE ListedFor(t, "B", boo)
      <3>1. PICK e \in Black(t) : BooMatches(e.boo, boo) /\ for(e)
        BY <1>1, <2>1, Zenon
      <3>2. e \in t.wb /\ e.item = "B" /\ e.boo \in {AnyBoo, boo}
        BY <1>3, <1>4, <3>1, Zenon
      <3> QED BY <1>2, <3>1, <3>2, Zenon
    <2>2. ASSUME ListedFor(t, "B", boo) PROVE InBlackList(t, t.out, cycle, boo)
      <3>1. PICK e \in t.wb : e.item = "B" /\ e.boo \in {AnyBoo, boo} /\ for(e)
        BY <1>2, <2>2, Zenon
      <3>2. e \in Black(t) /\ BooMatches(e.boo, boo)
        BY <1>3, <1>4, <3>1, Zenon
      <3> QED BY <1>1, <3>1, <3>2, Zenon
    <2> QED BY <2>1, <2>2, Zenon
  <1> QED BY <1>5, <1>6, Zenon DEF cycle

\* A white list gives its reason on a leg.
LEMMA WhiteReason ==
  ASSUME NEW t, NEW d, NEW boo \in BoosOf(t, d.stage), t.in # t.out,
         InWhiteList(t, t.out, SegmentCycle(t.in, t.out), boo)
  PROVE  Reason(t, d)
  <1>1. ListedFor(t, "W", boo)
    BY ListsOfTrip, Zenon
  <1> QED BY <1>1, Zenon DEF Reason

\* The BOOs that decide on a stage of a leg.
LEMMA BoosOfLeg ==
  ASSUME NEW t, NEW stage, t.in # t.out
  PROVE  /\ BooOf[t.out] # NoBoo => BooOf[t.out] \in BoosOf(t, stage)
         /\ \A r \in t.rows : r.stage = stage => r.boo \in BoosOf(t, stage)
  <1>1. BoosOf(t, stage) = ({BooOf[t.out]} \ {NoBoo})
                              \cup {r.boo : r \in {q \in t.rows : q.stage = stage}}
    BY Zenon DEF BoosOf
  <1> QED BY <1>1

\* A price that is kept although it is not in force starts or ends around the trip.
LEMMA ExpiredChange ==
  ASSUME NEW t \in Trip, NEW p \in t.rows, p \in Active(t.rows, t.loaded),
         ~ValidAt(p, t.time), p.stage \in ToSet(StagesOf[SegmentKey(t.in, t.out)])
  PROVE  Change(t)
  <1>1. t.loaded \in Int /\ t.time \in Int /\ t.loaded <= t.time /\ p.from \in Int /\ p.to \in Int
    BY TollFeeAssumption
  <1>2. p.from <= t.loaded + 1 /\ (p.to = 0 \/ t.loaded - 1 <= p.to)
    BY DEF Active, NoEnd
  <1>3. ~(p.from <= t.time) \/ (p.to # 0 /\ ~(t.time <= p.to))
    BY DEF ValidAt, NoEnd
  <1>4. \/ p.from \in t.loaded .. t.time + 1
        \/ p.to # 0 /\ p.to \in t.loaded - 1 .. t.time
    BY <1>1, <1>2, <1>3
  <1> QED BY <1>4, Zenon DEF Change, NoEnd

\* calculate_fee_for_one_stage_id.
LEMMA StageSound ==
  ASSUME NEW t \in Trip, NEW own, NEW wanted, NEW boo, t.in # t.out,
         boo = BooOf[t.out], boo # NoBoo,
         NEW stage \in ToSet(StagesOf[SegmentKey(t.in, t.out)]),
         wanted \in {own} \cup {t.ex[i].value : i \in DOMAIN t.ex},
         NEW p \in PriceByStage(t, Kept(t), stage, wanted)
  PROVE  Sound(t, own, 1, OneStage(t, stage, p, boo, SegmentCycle(t.in, t.out)))
  <1>0. /\ boo \in BoosOf(t, stage)
        /\ \A r \in t.rows : r.stage = stage => r.boo \in BoosOf(t, stage)
    BY BoosOfLeg, Zenon
  <1> DEFINE cycle == SegmentCycle(t.in, t.out)
             one == OneStage(t, stage, p, boo, cycle)
  <1>1. CASE InWhiteList(t, t.out, cycle, boo)
    <2> DEFINE d == Detail(stage, 0, TicketTypeWB(cycle))
    <2>1. one = Rated(<<d>>)
      <3> HIDE DEF cycle
      <3> QED BY <1>1, Zenon DEF OneStage
    <2>2. Charged(t, own, d) /\ d.stage = stage
      BY DEF Detail, Charged
    <2>3. Reason(t, d)
      <3> HIDE DEF d
      <3> QED BY <1>0, <1>1, <2>2, WhiteReason, Zenon
    <2> HIDE DEF d, one
    <2> QED BY <2>1, <2>2, <2>3, OneSound, Zenon DEF one
  <1>2. CASE ~InWhiteList(t, t.out, cycle, boo) /\ p = NoPrice
    <2>1. one = Refused("no price")
      BY <1>2, Zenon DEF OneStage
    <2>2. "no price" # "expired"
      OBVIOUS
    <2> QED BY <2>1, <2>2, RefusalSound, Zenon
  <1>3. ASSUME ~InWhiteList(t, t.out, cycle, boo), p # NoPrice
        PROVE  Sound(t, own, 1, one)
    <2>1. /\ p \in t.rows /\ p.vehicle = wanted /\ p.stage = stage
          /\ ValidAt(p, t.time) \/ p \in Active(t.rows, t.loaded)
      BY <1>3, StagePrice
    <2>2. CASE ~ValidAt(p, t.time)
      <3>1. one = Refused("expired")
        BY <1>3, <2>2, Zenon DEF OneStage
      <3>2. Change(t)
        BY <2>1, <2>2, ExpiredChange, Zenon
      <3> QED BY <3>1, <3>2, RefusalSound, Zenon
    <2>3. CASE ValidAt(p, t.time) /\ InWhiteList(t, t.out, cycle, p.boo)
      <3> DEFINE d == Detail(p.stage, 0, TicketTypeWB(cycle))
      <3>1. one = Rated(<<d>>)
        <4> HIDE DEF cycle
        <4> QED BY <1>3, <2>3, Zenon DEF OneStage
      <3>2. Charged(t, own, d) /\ d.stage = p.stage
        BY DEF Detail, Charged
      <3>3. Reason(t, d)
        <4>1. p.boo \in BoosOf(t, d.stage)
          BY <1>0, <2>1, <3>2, Zenon
        <4> HIDE DEF d
        <4> QED BY <2>3, <4>1, WhiteReason, Zenon
      <3> HIDE DEF d, one
      <3> QED BY <3>1, <3>2, <3>3, OneSound, Zenon DEF one
    <2>4. ASSUME ValidAt(p, t.time), ~InWhiteList(t, t.out, cycle, p.boo),
                 IsSubscribedByStage(t, p.stage, p.boo)
          PROVE  Sound(t, own, 1, one)
      <3> DEFINE d == Detail(p.stage, 0, EffectiveTicketType(t,
                          PairOf[stage][1], PairOf[stage][2], p.boo))
      <3>1. one = Rated(<<d>>)
        <4> HIDE DEF cycle
        <4> QED BY <1>3, <2>4, Zenon DEF OneStage
      <3>2. Charged(t, own, d) /\ d.stage = p.stage
        BY DEF Detail, Charged
      <3>3. Reason(t, d)
        <4>1. \E h \in t.history : h.stage = p.stage /\ BooMatches(h.boo, p.boo)
                                   /\ ValidAt(h, t.time)
          BY <2>4, Zenon DEF IsSubscribedByStage
        <4> HIDE DEF d
        <4> QED BY <2>1, <2>4, <3>2, <4>1, Zenon DEF Reason
      <3> HIDE DEF d, one
      <3> QED BY <3>1, <3>2, <3>3, OneSound, Zenon DEF one
    <2>5. ASSUME ValidAt(p, t.time), ~InWhiteList(t, t.out, cycle, p.boo),
                 ~IsSubscribedByStage(t, p.stage, p.boo)
          PROVE  Sound(t, own, 1, one)
      <3> DEFINE type == IF InBlackList(t, t.out, cycle, p.boo)
                         THEN TicketTypeBL(cycle) ELSE p.type
                 d == Detail(p.stage, p.amount, type)
      <3>1. one = Rated(<<d>>)
        <4> HIDE DEF cycle
        <4> QED BY <1>3, <2>5, Zenon DEF OneStage
      <3> HIDE DEF type
      <3>2. d.stage = p.stage /\ d.amount = p.amount
        BY DEF Detail
      <3> HIDE DEF d, one
      <3>3. Charged(t, own, d)
        BY <2>1, <2>5, <3>2, Zenon DEF Charged
      <3>4. Reason(t, d)
        BY <2>1, <2>5, <3>2, Zenon DEF Reason
      <3> QED BY <3>1, <3>3, <3>4, OneSound, Zenon DEF one
    <2> QED BY <2>2, <2>3, <2>4, <2>5, Zenon
  <1> QED BY <1>1, <1>2, <1>3, Zenon

\* calculate_fee_for_segment_by_stage_id, for the fees ps[s] of its stages.
LEMMA LegSound ==
  ASSUME NEW t \in Trip, NEW own, NEW boo, NEW cycle, NEW ps,
         NEW stages \in Seq(DOMAIN PairOf),
         \A i \in DOMAIN stages :
            Sound(t, own, 1, OneStage(t, stages[i], ps[stages[i]], boo, cycle))
  PROVE  Sound(t, own, Len(stages), SegmentFee(t, stages, ps, boo, cycle))
  <1> DEFINE one(i) == OneStage(t, stages[i], ps[stages[i]], boo, cycle)
             refused == {i \in DOMAIN stages : ~one(i).ok}
             ds == [i \in DOMAIN stages |-> one(i).details[1]]
  <1>1. SegmentFee(t, stages, ps, boo, cycle) =
            IF refused # {} THEN one(Min(refused)) ELSE Rated(ds)
    BY DEF SegmentFee
  <1>2. \A i \in DOMAIN stages : Sound(t, own, 1, one(i))
    OBVIOUS
  <1> HIDE DEF one
  <1>3. CASE refused # {}
    <2>1. refused \in SUBSET Nat
      OBVIOUS
    <2>2. Min(refused) \in refused
      <3> HIDE DEF refused
      <3> QED BY <1>3, <2>1, FirstPlace
    <2>3. PICK i \in DOMAIN stages : ~one(i).ok /\ i = Min(refused)
      BY <2>2
    <2>4. \A x : Rated(x).ok
      BY DEF Rated
    <2>5. PICK w : one(i) = Refused(w) /\ (w = "expired" => Change(t))
      BY <1>2, <2>3, <2>4, Zenon DEF Sound
    <2>6. Sound(t, own, Len(stages), one(i))
      BY <2>5, RefusalSound, Zenon
    <2> QED BY <1>1, <1>3, <2>3, <2>6, Zenon
  <1>4. CASE refused = {}
    <2>1. \A i \in DOMAIN stages : Charged(t, own, ds[i]) /\ Reason(t, ds[i])
      <3> SUFFICES ASSUME NEW i \in DOMAIN stages
                   PROVE  Charged(t, own, ds[i]) /\ Reason(t, ds[i])
        OBVIOUS
      <3>1. one(i).ok
        BY <1>4
      <3>2. \A w : ~Refused(w).ok
        BY DEF Refused
      <3>3. PICK x : /\ one(i) = Rated(x) /\ DOMAIN x = 1 .. 1
                     /\ \A d \in ToSet(x) : Charged(t, own, d) /\ Reason(t, d)
        BY <1>2, <3>1, <3>2, Zenon DEF Sound
      <3>4. one(i).details = x
        BY <3>3 DEF Rated
      <3>5. x[1] \in ToSet(x)
        BY <3>3 DEF ToSet
      <3>6. ds[i] = x[1]
        BY <3>4
      <3> QED BY <3>3, <3>5, <3>6, Zenon
    <2>2. Len(ds) = Len(stages) /\ DOMAIN ds = 1 .. Len(stages)
      <3>1. Len(stages) \in Nat /\ DOMAIN stages = 1 .. Len(stages)
        OBVIOUS
      <3>2. DOMAIN ds = 1 .. Len(stages)
        BY <3>1
      <3> QED BY <3>1, <3>2
    <2>3. \A d \in ToSet(ds) : Charged(t, own, d) /\ Reason(t, d)
      <3> HIDE DEF ds
      <3>1. DOMAIN ds = DOMAIN stages
        BY DEF ds
      <3> QED BY <2>1, <3>1, Zenon DEF ToSet
    <2> HIDE DEF ds
    <2>4. Sound(t, own, Len(stages), Rated(ds))
      BY <2>2, <2>3, Zenon DEF Sound
    <2> QED BY <1>1, <1>4, <2>4, Zenon
  <1> QED BY <1>3, <1>4

\* The detail of a stage has the id of that stage.
LEMMA StageNamed ==
  ASSUME NEW t \in Trip, NEW stage, NEW wanted, NEW boo, NEW cycle,
         NEW p \in PriceByStage(t, Kept(t), stage, wanted),
         OneStage(t, stage, p, boo, cycle).ok
  PROVE  OneStage(t, stage, p, boo, cycle).details[1].stage = stage
  <1> DEFINE one == OneStage(t, stage, p, boo, cycle)
  <1>1. p = NoPrice \/ p.stage = stage
    BY StagePrice
  <1>2. \A w : ~Refused(w).ok
    BY DEF Refused
  <1>3. \E amount, type : one = Rated(<<Detail(stage, amount, type)>>)
    BY <1>1, <1>2, Zenon DEF OneStage
  <1>4. \A amount, type :
            Rated(<<Detail(stage, amount, type)>>).details[1].stage = stage
    BY DEF Rated, Detail
  <1> HIDE DEF one
  <1>5. one.details[1].stage = stage
    BY <1>3, <1>4, Zenon
  <1> QED BY <1>5 DEF one

\* The details of a leg have the ids of its stages, in order.
LEMMA SegmentNamed ==
  ASSUME NEW t \in Trip, NEW own, SegmentKey(t.in, t.out) \in DOMAIN StagesOf,
         NEW f \in SegmentFees(t, own, Kept(t)), f.ok
  PROVE  [i \in DOMAIN f.details |-> f.details[i].stage] = StagesOf[SegmentKey(t.in, t.out)]
  <1> DEFINE stages == StagesOf[SegmentKey(t.in, t.out)]
             boo == BooOf[t.out]
             wanted == PricedVehicle(t, own, t.in, t.out, boo)
             cycle == SegmentCycle(t.in, t.out)
             ids == ToSet(stages)
             all == UNION {PriceByStage(t, Kept(t), s, wanted) : s \in ids}
             chosen == {g \in [ids -> all] :
                          \A s \in ids : g[s] \in PriceByStage(t, Kept(t), s, wanted)}
  <1>1. f \in IF boo = NoBoo THEN {Refused("no BOO")}
              ELSE {SegmentFee(t, stages, g, boo, cycle) : g \in chosen}
    BY Zenon DEF SegmentFees
  <1>2. \A w : ~Refused(w).ok
    BY DEF Refused
  <1>3. stages \in Seq(DOMAIN PairOf)
    BY TollFeeAssumption
  <1> HIDE DEF stages, boo, cycle, wanted
  <1>4. PICK g \in chosen : f = SegmentFee(t, stages, g, boo, cycle)
    <2> HIDE DEF chosen
    <2> QED BY <1>1, <1>2, Zenon
  <1> DEFINE one(i) == OneStage(t, stages[i], g[stages[i]], boo, cycle)
             refused == {i \in DOMAIN stages : ~one(i).ok}
             ds == [i \in DOMAIN stages |-> one(i).details[1]]
  <1>5. \A i \in DOMAIN stages : one(i).ok => one(i).details[1].stage = stages[i]
    <2>1. \A i \in DOMAIN stages :
              g[stages[i]] \in PriceByStage(t, Kept(t), stages[i], wanted)
      <3>1. \A i \in DOMAIN stages : stages[i] \in ids
        BY DEF ToSet
      <3> HIDE DEF ids, all
      <3> QED BY <3>1, Zenon
    <2>2. ASSUME NEW i \in DOMAIN stages, one(i).ok PROVE one(i).details[1].stage = stages[i]
      <3>1. PICK s, p : s = stages[i] /\ p = g[stages[i]]
        OBVIOUS
      <3>2. one(i) = OneStage(t, s, p, boo, cycle)
        BY <3>1
      <3>3. p \in PriceByStage(t, Kept(t), s, wanted)
        BY <2>1, <3>1
      <3> HIDE DEF one
      <3> QED BY <2>2, <3>1, <3>2, <3>3, StageNamed
    <2> QED BY <2>2, Zenon
  <1>6. f = IF refused # {} THEN one(Min(refused)) ELSE Rated(ds)
    BY <1>4, Zenon DEF SegmentFee
  <1> HIDE DEF one, chosen
  <1>7. refused = {}
    <2>1. SUFFICES ASSUME refused # {} PROVE FALSE
      OBVIOUS
    <2>2. refused \in SUBSET Nat
      BY <1>3
    <2>3. Min(refused) \in refused
      <3> HIDE DEF refused
      <3> QED BY <2>1, <2>2, FirstPlace
    <2>4. ~one(Min(refused)).ok
      BY <2>3
    <2>5. f = one(Min(refused))
      <3> HIDE DEF refused
      <3> QED BY <1>6, <2>1, Zenon
    <2> QED BY <2>4, <2>5, Zenon
  <1>8. \A i \in DOMAIN stages : ds[i].stage = stages[i]
    BY <1>5, <1>7
  <1>9. DOMAIN ds = DOMAIN stages /\ f.details = ds
    <2>1. f = Rated(ds)
      BY <1>6, <1>7, Zenon
    <2>2. DOMAIN ds = DOMAIN stages
      OBVIOUS
    <2> HIDE DEF ds
    <2> QED BY <2>1, <2>2 DEF Rated
  <1> HIDE DEF ds
  <1>10. [i \in DOMAIN f.details |-> f.details[i].stage] = [i \in DOMAIN stages |-> stages[i]]
    BY <1>8, <1>9, Zenon
  <1>11. stages = [i \in DOMAIN stages |-> stages[i]]
    BY <1>3
  <1> QED BY <1>10, <1>11, Zenon DEF stages

\* The fees of a leg, whichever rows the lookups return.
LEMMA SegmentSound ==
  ASSUME NEW t \in Trip, NEW own, SegmentKey(t.in, t.out) \in DOMAIN StagesOf,
         t.in # t.out, NEW f \in SegmentFees(t, own, Kept(t))
  PROVE  Sound(t, own, Len(StagesOf[SegmentKey(t.in, t.out)]), f)
  <1> DEFINE stages == StagesOf[SegmentKey(t.in, t.out)]
             boo == BooOf[t.out]
             wanted == PricedVehicle(t, own, t.in, t.out, boo)
             cycle == SegmentCycle(t.in, t.out)
             ids == ToSet(stages)
             all == UNION {PriceByStage(t, Kept(t), s, wanted) : s \in ids}
             chosen == {g \in [ids -> all] :
                          \A s \in ids : g[s] \in PriceByStage(t, Kept(t), s, wanted)}
  <1>1. f \in IF boo = NoBoo THEN {Refused("no BOO")}
              ELSE {SegmentFee(t, stages, g, boo, cycle) : g \in chosen}
    BY Zenon DEF SegmentFees
  <1>2. CASE f = Refused("no BOO")
    <2>1. "no BOO" # "expired"
      OBVIOUS
    <2> HIDE DEF stages
    <2> QED BY <1>2, <2>1, RefusalSound, Zenon DEF stages
  <1>3. ASSUME NEW g \in chosen, f = SegmentFee(t, stages, g, boo, cycle), boo # NoBoo
        PROVE  Sound(t, own, Len(stages), f)
    <2>1. stages \in Seq(DOMAIN PairOf)
      BY TollFeeAssumption
    <2>2. \A i \in DOMAIN stages :
              g[stages[i]] \in PriceByStage(t, Kept(t), stages[i], wanted)
      <3>1. \A i \in DOMAIN stages : stages[i] \in ids
        BY DEF ToSet
      <3> HIDE DEF ids, stages, wanted, all
      <3> QED BY <3>1, Zenon
    <2>3. wanted \in {own} \cup {t.ex[i].value : i \in DOMAIN t.ex}
      BY WantedVehicle
    <2>4. \A i \in DOMAIN stages : stages[i] \in ToSet(StagesOf[SegmentKey(t.in, t.out)])
      BY DEF ToSet
    <2>5. boo = BooOf[t.out] /\ boo # NoBoo
      BY <1>3
    <2> HIDE DEF stages, wanted, boo
    <2>6. \A i \in DOMAIN stages :
              Sound(t, own, 1, OneStage(t, stages[i], g[stages[i]], boo, cycle))
      BY <2>2, <2>3, <2>4, <2>5, StageSound, Zenon
    <2> HIDE DEF cycle
    <2> QED BY <1>3, <2>1, <2>6, LegSound, Zenon
  <1> HIDE DEF stages, boo, cycle, chosen
  <1>4. \/ f = Refused("no BOO")
        \/ boo # NoBoo /\ \E g \in chosen : f = SegmentFee(t, stages, g, boo, cycle)
    BY <1>1, Zenon
  <1> QED BY <1>2, <1>3, <1>4, Zenon DEF stages

\* A price looked up at a station although it is not in force.
LEMMA StalePrice ==
  ASSUME NEW t \in Trip, NEW p \in t.rows, ~ValidAt(p, t.time),
         p \in Active(t.rows, t.loaded) \/ p \in Active(t.rows, t.time)
  PROVE  \/ p.from > t.time /\ p.from <= t.time + 1
         \/ p.to # NoEnd /\ p.to < t.time /\ t.loaded - 1 <= p.to
  <1>1. t.loaded \in Int /\ t.time \in Int /\ t.loaded <= t.time /\ p.from \in Int /\ p.to \in Int
    BY TollFeeAssumption
  <1>2. \/ p.from <= t.loaded + 1 /\ (p.to = 0 \/ t.loaded - 1 <= p.to)
        \/ p.from <= t.time + 1 /\ (p.to = 0 \/ t.time - 1 <= p.to)
    BY DEF Active, NoEnd
  <1>3. ~(p.from <= t.time) \/ (p.to # 0 /\ ~(t.time <= p.to))
    BY DEF ValidAt, NoEnd
  <1> QED BY <1>1, <1>2, <1>3 DEF NoEnd

\* handle_same_station_with_route, with a price.
LEMMA StationSound ==
  ASSUME NEW t \in Trip, NEW own, NEW boo, t.in = t.out,
         NEW p \in t.rows, p.vehicle \in {own} \cup {t.ex[i].value : i \in DOMAIN t.ex},
         p \in Active(t.rows, t.loaded) \/ p \in Active(t.rows, t.time),
         boo \in BoosOf(t, p.stage)
  PROVE  Sound(t, own, 1, Rated(<<SameStationDetail(t, t.out, p, boo)>>))
  <1> DEFINE d == SameStationDetail(t, t.out, p, boo)
             cycle == SegmentCycle(t.in, t.out)
             black == InBlackList(t, t.out, cycle, boo)
             white == InWhiteList(t, t.out, cycle, boo)
             amount == AmountFromPrice(p, t.time)
  <1>1. /\ d.stage = p.stage
        /\ \/ ~black /\ white /\ d.amount = 0
           \/ d.amount = amount
    <2>1. d = IF black THEN Detail(p.stage, amount, TicketTypeBL(cycle))
              ELSE IF white THEN Detail(p.stage, 0, TicketTypeWB(cycle))
              ELSE Detail(p.stage, amount, p.type)
      BY Zenon DEF SameStationDetail
    <2> HIDE DEF d, black, white, amount, cycle
    <2> QED BY <2>1 DEF Detail
  <1>2. /\ ValidAt(p, t.time) => amount = p.amount
        /\ ~ValidAt(p, t.time) => amount = 0
    BY Zenon DEF AmountFromPrice
  <1>3. /\ white <=> ListedFor(t, "W", boo)
        /\ black <=> ListedFor(t, "B", boo)
    BY ListsOfTrip, Zenon
  <1>4. ~ValidAt(p, t.time) =>
            \/ p.from > t.time /\ p.from <= t.time + 1
            \/ p.to # NoEnd /\ p.to < t.time /\ t.loaded - 1 <= p.to
    BY StalePrice, Zenon
  <1> HIDE DEF d, cycle, black, white, amount
  <1>5. ~(0 > 0)
    OBVIOUS
  <1>6. Charged(t, own, d)
    BY <1>1, <1>2, <1>5, Zenon DEF Charged
  <1>7. Reason(t, d)
    <2>1. CASE ~black /\ white
      BY <1>1, <1>3, <2>1, Zenon DEF Reason
    <2>2. CASE d.amount = amount /\ ValidAt(p, t.time)
      BY <1>1, <1>2, <2>2, Zenon DEF Reason
    <2>3. CASE d.amount = amount /\ ~ValidAt(p, t.time)
      BY <1>1, <1>4, <2>3, Zenon DEF Reason
    <2> QED BY <1>1, <2>1, <2>2, <2>3, Zenon
  <1>8. Sound(t, own, 1, Rated(<<d>>))
    BY <1>6, <1>7, OneSound, Zenon
  <1> QED BY <1>8, Zenon DEF d

\* handle_same_station_with_route, without one.
LEMMA StationFreeSound ==
  ASSUME NEW t \in Trip, NEW own, t.in = t.out
  PROVE  Sound(t, own, 1, SameStationNoPrice(t, t.out))
  <1> DEFINE cycle == SegmentCycle(t.out, t.out)
             boo == BooOf[t.out]
             d == Detail(StageOfSegment(t.out, t.out), 0, TicketTypeWB(cycle))
             f == SameStationNoPrice(t, t.out)
  <1>1. \/ f = Refused("no BOO")
        \/ f = Refused("no price")
        \/ /\ boo # NoBoo /\ ~InBlackList(t, t.out, cycle, boo)
           /\ InWhiteList(t, t.out, cycle, boo) /\ f = Rated(<<d>>)
    <2> SUFFICES f = IF boo = NoBoo THEN Refused("no BOO")
                     ELSE IF /\ ~InBlackList(t, t.out, cycle, boo)
                             /\ InWhiteList(t, t.out, cycle, boo)
                     THEN Rated(<<d>>) ELSE Refused("no price")
      <3> HIDE DEF cycle, boo, d, f
      <3> QED BY Zenon
    <2> QED BY Zenon DEF SameStationNoPrice
  <1>2. "no BOO" # "expired" /\ "no price" # "expired"
    OBVIOUS
  <1>3. ASSUME boo # NoBoo, ~InBlackList(t, t.out, cycle, boo),
               InWhiteList(t, t.out, cycle, boo)
        PROVE  Sound(t, own, 1, Rated(<<d>>))
    <2>1. Charged(t, own, d)
      BY DEF Detail, Charged
    <2>2. ListedFor(t, "W", boo) /\ ~ListedFor(t, "B", boo)
      BY <1>3, ListsOfTrip, Zenon
    <2>3. boo \in BoosOf(t, d.stage)
      <3> HIDE DEF d
      <3>1. {boo} \ {NoBoo} = {boo}
        BY <1>3
      <3>2. BoosOf(t, d.stage) = {boo} \ {NoBoo}
        BY <3>1 DEF BoosOf
      <3> QED BY <3>1, <3>2
    <2> HIDE DEF d
    <2>4. Reason(t, d)
      BY <2>2, <2>3, Zenon DEF Reason
    <2> QED BY <2>1, <2>4, OneSound, Zenon
  <1> HIDE DEF d, f, cycle, boo
  <1>4. Sound(t, own, 1, f)
    BY <1>1, <1>2, <1>3, RefusalSound, Zenon
  <1> QED BY <1>4, Zenon DEF f

\* A trip that leaves where it entered.
LEMMA SameStationSound ==
  ASSUME NEW t \in Trip, NEW own, t.in = t.out,
         NEW f \in SameStationFees(t, own, Kept(t))
  PROVE  Sound(t, own, 1, f)
  <1> DEFINE toll == t.in
             boo == IF BooOf[toll] = NoBoo THEN DefaultBoo ELSE BooOf[toll]
             wanted == PricedVehicle(t, own, toll, toll, boo)
             found == PriceByTolls(t, Kept(t), toll, toll, wanted)
             asked(p) == IF BooOf[toll] = NoBoo THEN p.boo ELSE BooOf[toll]
             rated(p) == Rated(<<SameStationDetail(t, toll, p, asked(p))>>)
  <1>1. f \in {IF p = NoPrice THEN SameStationNoPrice(t, toll) ELSE rated(p) : p \in found}
    BY DEF SameStationFees
  <1>2. wanted \in {own} \cup {t.ex[i].value : i \in DOMAIN t.ex}
    <2> HIDE DEF boo, toll
    <2> QED BY WantedVehicle
  <1> HIDE DEF wanted
  <1>3. ASSUME NEW p \in found, p # NoPrice
        PROVE  Sound(t, own, 1, rated(p))
    <2>1. /\ p \in t.rows /\ p.vehicle = wanted
          /\ p \in Active(t.rows, t.loaded) \/ p \in Active(t.rows, t.time)
      <3> HIDE DEF toll
      <3> QED BY <1>3, TollsPrice
    <2>2. asked(p) \in BoosOf(t, p.stage)
      <3>1. CASE BooOf[t.out] = NoBoo
        <4>1. /\ asked(p) = p.boo
              /\ BoosOf(t, p.stage) = {r.boo : r \in {q \in t.rows : q.stage = p.stage}}
          BY <3>1 DEF BoosOf
        <4> HIDE DEF asked
        <4> QED BY <2>1, <4>1
      <3>2. CASE BooOf[t.out] # NoBoo
        <4>1. /\ asked(p) = BooOf[t.out]
              /\ BoosOf(t, p.stage) = {BooOf[t.out]} \ {NoBoo}
          BY <3>2 DEF BoosOf
        <4> HIDE DEF asked
        <4> QED BY <3>2, <4>1
      <3> QED BY <3>1, <3>2, Zenon
    <2> HIDE DEF asked
    <2>3. Sound(t, own, 1, Rated(<<SameStationDetail(t, t.out, p, asked(p))>>))
      BY <1>2, <2>1, <2>2, StationSound, Zenon
    <2> QED BY <2>3, Zenon
  <1>4. Sound(t, own, 1, SameStationNoPrice(t, toll))
    BY StationFreeSound, Zenon
  <1> HIDE DEF found, rated, toll
  <1>5. PICK p \in found : f = IF p = NoPrice THEN SameStationNoPrice(t, toll) ELSE rated(p)
    BY <1>1
  <1> QED BY <1>3, <1>4, <1>5, Zenon

\* The number of stages of trip t.
Stages(t) == IF t.in = t.out THEN 1 ELSE Len(StagesOf[SegmentKey(t.in, t.out)])

\* calculate_toll_fee.
LEMMA FeesSound ==
  ASSUME NEW t \in Trip, NEW own, NEW f \in Fees(t, own, Kept(t))
  PROVE  Sound(t, own, Stages(t), f)
  <1>1. CASE t.in = t.out
    <2>1. f \in SameStationFees(t, own, Kept(t))
      BY <1>1, Zenon DEF Fees
    <2>2. Stages(t) = 1
      BY <1>1, Zenon DEF Stages
    <2> QED BY <1>1, <2>1, <2>2, SameStationSound, Zenon
  <1>2. CASE t.in # t.out /\ SegmentKey(t.in, t.out) \in DOMAIN StagesOf
    <2>1. f \in SegmentFees(t, own, Kept(t))
      BY <1>2, Zenon DEF Fees
    <2>2. Stages(t) = Len(StagesOf[SegmentKey(t.in, t.out)])
      BY <1>2, Zenon DEF Stages
    <2> QED BY <1>2, <2>1, <2>2, SegmentSound, Zenon
  <1>3. CASE t.in # t.out /\ SegmentKey(t.in, t.out) \notin DOMAIN StagesOf
    <2>1. f = Refused("no route")
      BY <1>3, Zenon DEF Fees
    <2>2. "no route" # "expired"
      OBVIOUS
    <2> QED BY <2>1, <2>2, RefusalSound, Zenon
  <1> QED BY <1>1, <1>2, <1>3, Zenon

\* The invariant gives a sound fee, also before the fee is asked for.
LEMMA FeeSound ==
  ASSUME TripInv
  PROVE  trip \in Trip /\ Sound(trip, ParsedVehicle(vehicle), Stages(trip), fee)
  <1>0. trip \in Trip
    BY Zenon DEF TripInv
  <1>1. CASE pc = "done"
    <2>1. fee \in Fees(trip, ParsedVehicle(vehicle), Kept(trip))
      BY <1>1, Zenon DEF TripInv, Kept
    <2> QED BY <1>0, <2>1, FeesSound, Zenon
  <1>2. CASE pc # "done"
    <2>1. fee = Refused("not asked")
      BY <1>2, Zenon DEF TripInv
    <2>2. "not asked" # "expired"
      OBVIOUS
    <2> QED BY <1>0, <2>1, <2>2, RefusalSound, Zenon
  <1> QED BY <1>1, <1>2, Zenon

\* The fee that calculate_toll_fee returns is the one of the prices the last load kept.
THEOREM TollFeeInvariant == TripSpec => []TripInv
  <1>1. TripInit => TripInv
    BY Zenon DEF TripInit, TripInv
  <1>2. TripInv /\ [TripNext]_tripVars => TripInv'
    <2> SUFFICES ASSUME TripInv, [TripNext]_tripVars PROVE TripInv'
      OBVIOUS
    <2>1. CASE CheckIn
      BY <2>1, Zenon DEF CheckIn, TripInv
    <2>2. CASE Reload
      BY <2>2, Zenon DEF Reload, TripInv
    <2>3. CASE Calculate
      BY <2>3, Zenon DEF Calculate, TripInv
    <2>4. CASE UNCHANGED tripVars
      BY <2>4, Zenon DEF tripVars, TripInv
    <2> QED BY <2>1, <2>2, <2>3, <2>4 DEF TripNext
  <1> QED BY <1>1, <1>2, PTL DEF TripSpec

\* A trip that is not refused has one detail for each stage of its leg, in their order and
\* under their ids, whatever the number of stages, lists, subscriptions and prices.
THEOREM DetailForEachStage == TripSpec => []OneDetailPerStage
  <1>1. TripInv => OneDetailPerStage
    <2>0. SUFFICES ASSUME TripInv, fee.ok
                   PROVE  IF trip.in = trip.out THEN Len(fee.details) = 1
                          ELSE [i \in DOMAIN fee.details |-> fee.details[i].stage] =
                                  StagesOf[SegmentKey(trip.in, trip.out)]
      BY Zenon DEF OneDetailPerStage
    <2>1. \A w : ~Refused(w).ok
      BY DEF Refused
    <2>2. CASE trip.in = trip.out
      <3>1. PICK ds : fee = Rated(ds) /\ Len(ds) = Stages(trip)
        BY <2>0, <2>1, FeeSound, Zenon DEF Sound
      <3>2. fee.details = ds
        BY <3>1 DEF Rated
      <3>3. Stages(trip) = 1
        BY <2>2, Zenon DEF Stages
      <3> QED BY <2>2, <3>1, <3>2, <3>3, Zenon
    <2>3. CASE trip.in # trip.out
      <3>1. fee \in Fees(trip, ParsedVehicle(vehicle), Kept(trip)) /\ trip \in Trip
        BY <2>0, <2>1, Zenon DEF TripInv, Kept
      <3>2. /\ SegmentKey(trip.in, trip.out) \in DOMAIN StagesOf
            /\ fee \in SegmentFees(trip, ParsedVehicle(vehicle), Kept(trip))
        BY <2>0, <2>1, <2>3, <3>1, Zenon DEF Fees
      <3> QED BY <2>0, <2>3, <3>1, <3>2, SegmentNamed, Zenon
    <2> QED BY <2>2, <2>3, Zenon
  <1> QED BY <1>1, TollFeeInvariant, PTL

\* The details of a sound fee are accounted for.
LEMMA DetailsSound ==
  ASSUME TripInv, NEW d \in Details
  PROVE  Charged(trip, ParsedVehicle(vehicle), d) /\ Reason(trip, d)
  <1>1. CASE \E w : fee = Refused(w)
    <2>1. fee.details = <<>>
      BY <1>1 DEF Refused
    <2>2. Details = {}
      BY <2>1 DEF Details, ToSet
    <2> QED BY <2>2
  <1>2. CASE \E ds : /\ fee = Rated(ds)
                     /\ \A e \in ToSet(ds) : Charged(trip, ParsedVehicle(vehicle), e) /\ Reason(trip, e)
    <2>1. PICK ds : /\ fee = Rated(ds)
                    /\ \A e \in ToSet(ds) : Charged(trip, ParsedVehicle(vehicle), e) /\ Reason(trip, e)
      BY <1>2, Zenon
    <2>2. fee.details = ds
      BY <2>1 DEF Rated
    <2> QED BY <2>1, <2>2, Zenon DEF Details
  <1> QED BY <1>1, <1>2, FeeSound, Zenon DEF Sound

\* No price that the cache kept past its end or before its start is charged, however far
\* the load of the prices lies before the exit.
THEOREM ChargesAreInForce == TripSpec => []ChargedPriceInForce
  <1>1. TripInv => ChargedPriceInForce
    <2> SUFFICES ASSUME TripInv, NEW d \in Details, d.amount > 0
                 PROVE  \E r \in InForce(d.stage) :
                          /\ r.amount = d.amount
                          /\ r.vehicle \in {ParsedVehicle(vehicle)} \cup {trip.ex[i].value : i \in DOMAIN trip.ex}
      BY Zenon DEF ChargedPriceInForce
    <2>1. PICK r \in trip.rows :
                /\ r.stage = d.stage /\ ValidAt(r, trip.time) /\ r.amount = d.amount
                /\ r.vehicle \in {ParsedVehicle(vehicle)} \cup {trip.ex[i].value : i \in DOMAIN trip.ex}
      BY DetailsSound, Zenon DEF Charged
    <2>2. r \in InForce(d.stage)
      BY <2>1, Zenon DEF InForce
    <2> QED BY <2>1, <2>2, Zenon
  <1> QED BY <1>1, TollFeeInvariant, PTL

\* Nobody passes a priced stage free without an entry of the white list that decides on it,
\* a subscription, a price of zero or, at one and the same station only, a price around its
\* start or end, whatever the lists, prices, BOOs and legs.
THEOREM FreePassHasReason == TripSpec => []FreeNeedsReason
  <1>1. TripInv => FreeNeedsReason
    <2>1. SUFFICES ASSUME TripInv, NEW d \in Details, d.amount = 0
                   PROVE
      \/ \E boo \in Boos(d.stage) :
           OnList("W", boo) /\ (trip.in = trip.out => ~OnList("B", boo))
      \/ \E h \in trip.history : h.stage = d.stage /\ ValidAt(h, trip.time)
                                  /\ \E r \in InForce(d.stage) : BooMatches(h.boo, r.boo)
      \/ \E r \in InForce(d.stage) : r.amount = 0
      \/ /\ trip.in = trip.out
         /\ \E r \in trip.rows :
              /\ r.stage = d.stage
              /\ \/ r.from > trip.time /\ r.from <= trip.time + 1
                 \/ r.to # NoEnd /\ r.to < trip.time /\ trip.loaded - 1 <= r.to
      BY Zenon DEF FreeNeedsReason
    <2>2. Reason(trip, d)
      BY <2>1, DetailsSound, Zenon
    <2>3. \A r \in trip.rows : r.stage = d.stage /\ ValidAt(r, trip.time) =>
              r \in InForce(d.stage)
      BY Zenon DEF InForce
    <2>4. BoosOf(trip, d.stage) = Boos(d.stage)
      BY Zenon DEF BoosOf, Boos
    <2>5. \A item, boo : ListedFor(trip, item, boo) <=> OnList(item, boo)
      BY Zenon DEF ListedFor, OnList
    <2> QED BY <2>1, <2>2, <2>3, <2>4, <2>5, Zenon DEF Reason
  <1> QED BY <1>1, TollFeeInvariant, PTL

\* A leg is refused as expired around a change of the prices of that leg only.
THEOREM ExpiredOnlyAroundChange == TripSpec => []RefusedOnlyAroundChange
  <1>1. TripInv => RefusedOnlyAroundChange
    <2> SUFFICES ASSUME TripInv, fee.why = "expired" PROVE Change(trip)
      BY Zenon DEF RefusedOnlyAroundChange, Change
    <2>1. \A ds : Rated(ds).why # "expired"
      BY DEF Rated
    <2>2. PICK w : fee = Refused(w) /\ (w = "expired" => Change(trip))
      BY <2>1, FeeSound, Zenon DEF Sound
    <2>3. fee.why = w
      BY <2>2 DEF Refused
    <2> QED BY <2>2, <2>3, Zenon
  <1> QED BY <1>1, TollFeeInvariant, PTL
=============================================================================
