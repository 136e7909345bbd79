------------------------------ MODULE TollFee ------------------------------
(***************************************************************************)
(* The fee of a trip (services/toll_fee/): the vehicle type noted at the   *)
(* entry, the price a cache load keeps for each key, the white, black and  *)
(* exception lists of the vehicle, its subscriptions, and the sum over the *)
(* stages of the leg.                                                      *)
(*                                                                         *)
(* The calculation is a function of the trip; the machine around it only   *)
(* takes a trip through entry, cache load and exit.  Time is counted in    *)
(* hours, the unit of the tolerance of the price queries.  A BOO and a     *)
(* ticket type are names, a vehicle type is the number that its text       *)
(* spells, or Blank, or Unreadable; cycle 0 stands for "none or 0", which  *)
(* the code treats alike.                                                  *)
(***************************************************************************)
EXTENDS Integers, Sequences, FiniteSets, SequencesExt

CONSTANTS
    Trip,           \* the trips to rate
    BooOf,          \* BOO of each toll, or NoBoo when the toll is unknown
    StagesOf,       \* the stages of each leg <<lo, hi>>, in order
    CycleOf,        \* the cycle of each stage, or 0
    PairOf          \* the tolls <<a, b>> of each stage

NoBoo == "no BOO"
AnyBoo == "any BOO"
DefaultBoo == "3"
NoPrice == [id |-> 0]
NoEnd == 0
Blank == -1         \* an empty vehicle type
Unreadable == -2    \* a vehicle type that is not a number

\* A leg has stages, all of them known; the exception lists are sequences; the
\* prices are loaded before the exit.
ASSUME TollFeeAssumption ==
    /\ DOMAIN CycleOf = DOMAIN PairOf
    /\ \A leg \in DOMAIN StagesOf : /\ leg[1] <= leg[2] /\ StagesOf[leg] # <<>>
                                   /\ StagesOf[leg] \in Seq(DOMAIN PairOf)
    /\ \A t \in Trip : /\ t.loaded \in Int /\ t.time \in Int /\ t.loaded <= t.time
                       /\ \A r \in t.rows : r.from \in Int /\ r.to \in Int
                       /\ \A list \in {t.ex, t.exPrice} : list \in Seq(ToSet(list))

VARIABLES
    trip,       \* the trip being rated
    vehicle,    \* vehicle type noted at the entry
    price_memory,   \* PRICE_MEMORY: the row kept for <<toll a, toll b, vehicle>>
    fee,        \* what the calculation returned
    pc

tripVars == <<trip, vehicle, price_memory, fee, pc>>

----------------------------------------------------------------------------
(* Lists, subscriptions and validity *)

\* An entry without a BOO applies to all.
BooMatches(entry, boo) == entry = AnyBoo \/ entry = boo

SegmentKey(a, b) == IF a <= b THEN <<a, b>> ELSE <<b, a>>

\* A row with an end is valid up to and including it.
ValidAt(x, time) == x.from <= time /\ (x.to = NoEnd \/ time <= x.to)

\* Nationwide, or for the exit toll, or for the cycle of the segment.
Listed(list, toll, cycle, boo) == \E e \in list :
    /\ BooMatches(e.boo, boo)
    /\ \/ e.toll = 0 /\ e.cycle = 0
       \/ e.toll > 0 /\ e.toll = toll
       \/ e.cycle > 0 /\ e.cycle = cycle

White(t) == {e \in t.wb : e.item = "W"}
Black(t) == {e \in t.wb : e.item = "B"}

InWhiteList(t, toll, cycle, boo) == Listed(White(t), toll, cycle, boo)
InBlackList(t, toll, cycle, boo) == Listed(Black(t), toll, cycle, boo)

TicketTypeWB(cycle) == IF cycle = 0 THEN "WL_ALL" ELSE "WL_TOLL"
TicketTypeBL(cycle) == IF cycle = 0 THEN "BL_ALL" ELSE "BL_TOLL"

\* Of the entries at these places of a list the first one for one of the tolls,
\* else the first nationwide one.
FirstEntry(list, places, tolls, default) ==
    LET named == {i \in places : list[i].toll \in tolls}
        nationwide == {i \in places : list[i].toll = 0}
    IN  IF named # {} THEN list[Min(named)].value
        ELSE IF nationwide # {} THEN list[Min(nationwide)].value
        ELSE default

\* Entries for closed stations and the BOO of the segment.
ClosedEntries(list, boo) ==
    {i \in DOMAIN list : BooMatches(list[i].boo, boo) /\ list[i].type \in {"0", "2"}}

EffectiveVehicleType(t, own, a, b, boo) ==
    FirstEntry(t.ex, ClosedEntries(t.ex, boo), {a, b}, own)

EffectiveTicketType(t, a, b, boo) ==
    FirstEntry(t.exPrice, ClosedEntries(t.exPrice, boo), {a, b}, "DEFAULT")

\* At an open station only its own entries count, whatever their BOO; an empty
\* vehicle type is passed over by the check-in.
VehicleTypeFromExListOpen(t) ==
    FirstEntry(t.ex, {i \in DOMAIN t.ex : t.ex[i].type \in {"0", "1"}}, {t.in}, Blank)

\* The number asked for at the exit: parse, or 1.
ParsedVehicle(v) == IF v \in {Blank, Unreadable} THEN 1 ELSE v

IsSubscribedByStage(t, stage, boo) == \E h \in t.history :
    h.stage = stage /\ BooMatches(h.boo, boo) /\ ValidAt(h, t.time)

----------------------------------------------------------------------------
(* Prices *)

\* Mutant: the load does not ask when a row takes effect.
ActiveAny(rows, time) == {r \in rows : r.to = NoEnd \/ time - 1 <= r.to}

\* Rows an hour before their effect or an hour after their end count as active.
Active(rows, time) ==
    {r \in rows : r.from <= time + 1 /\ (r.to = NoEnd \/ time - 1 <= r.to)}

Key(r) == <<PairOf[r.stage][1], PairOf[r.stage][2], r.vehicle>>

\* Of the rows of one key the one that takes effect last is kept.
NewestOf(rows) == CHOOSE r \in rows : \A q \in rows : q.from <= r.from

LoadedPrices(rows, time) ==
    LET active == Active(rows, time)
    IN  [k \in {Key(r) : r \in active} |->
            NewestOf({r \in active : Key(r) = k})]

\* The rows get_price_by_stage_id may return: the memory's index by stage, then
\* the rows in effect in the database, whose query may fail.
PriceByStage(t, mem, stage, vehicleType) ==
    LET held == {mem[k] : k \in DOMAIN mem}
        hit == {r \in held : r.stage = stage /\ r.vehicle = vehicleType}
        miss == {r \in t.rows : /\ r.stage = stage /\ r.vehicle = vehicleType
                                /\ ValidAt(r, t.time)}
    IN  IF hit # {} THEN hit ELSE miss \cup {NoPrice}

\* The rows get_price may return: memory in both directions, then the active
\* rows of the database in both directions, as far as the queries succeed.
PriceByTolls(t, mem, a, b, vehicleType) ==
    LET rows(x, y) == {r \in Active(t.rows, t.time) :
                        Key(r) = <<x, y, vehicleType>>}
    IN  IF <<a, b, vehicleType>> \in DOMAIN mem
        THEN {mem[<<a, b, vehicleType>>]}
        ELSE IF <<b, a, vehicleType>> \in DOMAIN mem
        THEN {mem[<<b, a, vehicleType>>]}
        ELSE {NoPrice} \cup IF rows(a, b) # {} THEN rows(a, b) ELSE rows(b, a)

\* A price outside its validity is worth nothing.
AmountFromPrice(price, time) == IF ValidAt(price, time) THEN price.amount ELSE 0

----------------------------------------------------------------------------
(* The calculation *)

Detail(stage, amount, type) == [stage |-> stage, amount |-> amount, type |-> type]
Refused(why) == [ok |-> FALSE, why |-> why, details |-> <<>>]
Rated(details) == [ok |-> TRUE, why |-> "none", details |-> details]

SegmentCycle(a, b) ==
    LET key == SegmentKey(a, b)
    IN  IF key \in DOMAIN StagesOf THEN CycleOf[StagesOf[key][1]] ELSE 0

StageOfSegment(a, b) ==
    LET key == SegmentKey(a, b)
    IN  IF key \in DOMAIN StagesOf THEN StagesOf[key][1] ELSE 0

\* The vehicle type whose price is asked for: the lists' unless black-listed.
PricedVehicle(t, own, a, b, boo) ==
    IF InBlackList(t, b, SegmentCycle(a, b), boo) THEN own
    ELSE EffectiveVehicleType(t, own, a, b, boo)

\* Mutant: the white list before the black list, as on a leg.
SameStationDetailWhiteFirst(t, toll, price, boo) ==
    LET cycle == SegmentCycle(toll, toll)
    IN  IF InWhiteList(t, toll, cycle, boo)
        THEN Detail(price.stage, 0, TicketTypeWB(cycle))
        ELSE Detail(price.stage, AmountFromPrice(price, t.time), price.type)

\* Same station with a price: black list first, then white list.
SameStationDetail(t, toll, price, boo) ==
    LET cycle == SegmentCycle(toll, toll)
        amount == AmountFromPrice(price, t.time)
    IN  IF InBlackList(t, toll, cycle, boo)
        THEN Detail(price.stage, amount, TicketTypeBL(cycle))
        ELSE IF InWhiteList(t, toll, cycle, boo)
        THEN Detail(price.stage, 0, TicketTypeWB(cycle))
        ELSE Detail(price.stage, amount, price.type)

\* Same station without a price: only a white-listed vehicle passes.
SameStationNoPrice(t, toll) ==
    LET cycle == SegmentCycle(toll, toll)
        boo == BooOf[toll]
    IN  IF boo = NoBoo THEN Refused("no BOO")
        ELSE IF /\ ~InBlackList(t, toll, cycle, boo)
                /\ InWhiteList(t, toll, cycle, boo)
        THEN Rated(<<Detail(StageOfSegment(toll, toll), 0, TicketTypeWB(cycle))>>)
        ELSE Refused("no price")

\* resolve_direct_price_opt and handle_same_station_with_route.
SameStationFees(t, own, mem) ==
    LET toll == t.in
        boo == IF BooOf[toll] = NoBoo THEN DefaultBoo ELSE BooOf[toll]
        prices == PriceByTolls(t, mem, toll, toll,
                               PricedVehicle(t, own, toll, toll, boo))
    IN  {IF p = NoPrice THEN SameStationNoPrice(t, toll)
         ELSE Rated(<<SameStationDetail(t, toll, p,
                        IF BooOf[toll] = NoBoo THEN p.boo ELSE BooOf[toll])>>) :
            p \in prices}

\* Mutant: the validity of a cached price is not checked.
OneStageUnchecked(t, stage, price, boo, cycle) ==
    IF InWhiteList(t, t.out, cycle, boo)
    THEN Rated(<<Detail(stage, 0, TicketTypeWB(cycle))>>)
    ELSE IF price = NoPrice THEN Refused("no price")
    ELSE Rated(<<Detail(price.stage, price.amount, price.type)>>)

\* One stage of a leg: white list by the BOO of the exit toll, then price and
\* its validity, white list by the BOO of the price, subscription, amount.
OneStage(t, stage, price, boo, cycle) ==
    IF InWhiteList(t, t.out, cycle, boo)
    THEN Rated(<<Detail(stage, 0, TicketTypeWB(cycle))>>)
    ELSE IF price = NoPrice THEN Refused("no price")
    ELSE IF ~ValidAt(price, t.time) THEN Refused("expired")
    ELSE IF InWhiteList(t, t.out, cycle, price.boo)
    THEN Rated(<<Detail(price.stage, 0, TicketTypeWB(cycle))>>)
    ELSE IF IsSubscribedByStage(t, price.stage, price.boo)
    THEN Rated(<<Detail(price.stage, 0, EffectiveTicketType(t,
                    PairOf[stage][1], PairOf[stage][2], price.boo))>>)
    ELSE Rated(<<Detail(price.stage, price.amount,
                    IF InBlackList(t, t.out, cycle, price.boo)
                    THEN TicketTypeBL(cycle) ELSE price.type)>>)

\* Mutant: a stage that is refused is left out of the sum.
SegmentFeeSkips(t, stages, prices, boo, cycle) ==
    FoldLeft(LAMBDA acc, s : Rated(acc.details \o
                 OneStage(t, s, prices[s], boo, cycle).details),
             Rated(<<>>), stages)

\* The stages in order; the first one refused refuses the leg.
SegmentFee(t, stages, prices, boo, cycle) ==
    LET one(i) == OneStage(t, stages[i], prices[stages[i]], boo, cycle)
        refused == {i \in DOMAIN stages : ~one(i).ok}
    IN  IF refused # {} THEN one(Min(refused))
        ELSE Rated([i \in DOMAIN stages |-> one(i).details[1]])

SegmentFees(t, own, mem) ==
    LET stages == StagesOf[SegmentKey(t.in, t.out)]
        boo == BooOf[t.out]
        wanted == PricedVehicle(t, own, t.in, t.out, boo)
        ids == ToSet(stages)
        all == UNION {PriceByStage(t, mem, s, wanted) : s \in ids}
        chosen == {f \in [ids -> all] :
                    \A s \in ids : f[s] \in PriceByStage(t, mem, s, wanted)}
    IN  IF boo = NoBoo THEN {Refused("no BOO")}
        ELSE {SegmentFee(t, stages, f, boo, SegmentCycle(t.in, t.out)) :
                f \in chosen}

\* What calculate_toll_fee may return.
Fees(t, own, mem) ==
    IF t.in = t.out THEN SameStationFees(t, own, mem)
    ELSE IF SegmentKey(t.in, t.out) \in DOMAIN StagesOf
    THEN SegmentFees(t, own, mem)
    ELSE {Refused("no route")}

----------------------------------------------------------------------------
(* A trip *)

TripInit ==
    /\ trip \in Trip
    /\ vehicle = trip.registered
    /\ price_memory = <<>>
    /\ fee = Refused("not asked")
    /\ pc = "entry"

CheckIn ==
    /\ pc = "entry"
    /\ LET listed == VehicleTypeFromExListOpen(trip)
       IN  vehicle' = IF listed = Blank THEN vehicle ELSE listed
    /\ pc' = "load"
    /\ UNCHANGED <<trip, price_memory, fee>>

Reload ==
    /\ pc = "load"
    /\ price_memory' = LoadedPrices(trip.rows, trip.loaded)
    /\ pc' = "exit"
    /\ UNCHANGED <<trip, vehicle, fee>>

Calculate ==
    /\ pc = "exit"
    /\ fee' \in Fees(trip, ParsedVehicle(vehicle), price_memory)
    /\ pc' = "done"
    /\ UNCHANGED <<trip, vehicle, price_memory>>

TripNext == CheckIn \/ Reload \/ Calculate

TripSpec == TripInit /\ [][TripNext]_tripVars

----------------------------------------------------------------------------
(* Properties *)

Details == ToSet(fee.details)

\* A trip that is not refused is accounted for stage by stage: every stage of
\* its segment has one detail, at its place and under its id, whichever of list,
\* price, exception or subscription decided on it.
OneDetailPerStage == fee.ok =>
    IF trip.in = trip.out THEN Len(fee.details) = 1
    ELSE [i \in DOMAIN fee.details |-> fee.details[i].stage] =
            StagesOf[SegmentKey(trip.in, trip.out)]

\* The prices the database has for a stage at the time of the trip.
InForce(stage) == {r \in trip.rows : r.stage = stage /\ ValidAt(r, trip.time)}

\* A charge on a leg of several tolls is the amount of a price that the
\* database has in force for that stage at the time of the trip, for the
\* vehicle type noted at the entry or one of an exception entry: no price kept
\* by the cache past its end, or before its start, is charged.
ChargedPriceInForce == \A d \in Details : d.amount > 0 =>
    \E r \in InForce(d.stage) :
        /\ r.amount = d.amount
        /\ r.vehicle \in {ParsedVehicle(vehicle)} \cup {trip.ex[i].value : i \in DOMAIN trip.ex}

\* The trip has a list entry for its exit and this BOO.
OnList(item, boo) == \E e \in trip.wb :
    /\ e.item = item /\ e.boo \in {AnyBoo, boo}
    /\ \/ e.toll = 0 /\ e.cycle = 0
       \/ e.toll > 0 /\ e.toll = trip.out
       \/ e.cycle > 0 /\ e.cycle = SegmentCycle(trip.in, trip.out)

\* The BOOs that may decide on a stage: that of the exit toll, and on a leg, or for
\* want of it, those of the prices of the stage.
Boos(stage) ==
    LET own == {BooOf[trip.out]} \ {NoBoo}
    IN  IF trip.in = trip.out /\ own # {} THEN own
        ELSE own \cup {r.boo : r \in {q \in trip.rows : q.stage = stage}}

\* Nobody passes a priced stage free without a reason: an entry of the white list for
\* the exit under the BOO of the exit toll or of a price of the stage, which at one and
\* the same station no entry of the black list outweighs; a subscription in force for
\* the stage under the BOO of its price; a price of zero; or, at one and the same
\* station only, a price that is looked up although it starts within an hour of the
\* trip or has ended, at most an hour before it was loaded.  (With
\* allow_zero_fee_when_no_price_or_route the checkout lets a refused trip pass as
\* well, without any detail; that is not part of the calculation.)
FreeNeedsReason == \A d \in Details : d.amount = 0 =>
    \/ \E boo \in Boos(d.stage) :
        OnList("W", boo) /\ (trip.in = trip.out => ~OnList("B", boo))
    \/ \E h \in trip.history : h.stage = d.stage /\ ValidAt(h, trip.time)
                               /\ \E r \in InForce(d.stage) : BooMatches(h.boo, r.boo)
    \/ \E r \in InForce(d.stage) : r.amount = 0
    \/ /\ trip.in = trip.out
       /\ \E r \in trip.rows :
            /\ r.stage = d.stage
            /\ \/ r.from > trip.time /\ r.from <= trip.time + 1
               \/ r.to # NoEnd /\ r.to < trip.time /\ trip.loaded - 1 <= r.to

\* A leg is refused as expired although the database has a price in force only
\* when a price of that leg starts or ends between an hour before the cache was
\* loaded and an hour after the trip: away from a change of prices nobody is
\* refused.
RefusedOnlyAroundChange ==
    LET stages == ToSet(StagesOf[SegmentKey(trip.in, trip.out)])
    IN  (/\ fee.why = "expired"
         /\ \A s \in stages : \E r \in InForce(s) : r.vehicle = ParsedVehicle(vehicle)) =>
        \E r \in trip.rows :
            /\ r.stage \in stages
            /\ \/ r.from \in trip.loaded .. trip.time + 1
               \/ r.to # NoEnd /\ r.to \in trip.loaded - 1 .. trip.time

----------------------------------------------------------------------------
(* The inductive invariant of the proofs *)

\* What is charged is what the calculation returns for the prices the load kept.
TripInv ==
    /\ trip \in Trip /\ pc \in {"entry", "load", "exit", "done"}
    /\ pc \in {"exit", "done"} => price_memory = LoadedPrices(trip.rows, trip.loaded)
    /\ pc = "done" => fee \in Fees(trip, ParsedVehicle(vehicle), price_memory)
    /\ pc # "done" => fee = Refused("not asked")
=============================================================================
