----------------------------- MODULE MCTollFee -----------------------------
(* Tolls 1, 2 and 3 (whose BOO is unknown); leg 1-2 has the two stages 11    *)
(* and 12 of cycle 7, station 1 has the stage 10 without a cycle.            *)
EXTENDS TollFee

MCBooOf == <<"3", "2", NoBoo>>
MCStagesOf == (<<1, 1>> :> <<10>>) @@ (<<1, 2>> :> <<11, 12>>) @@ (<<2, 3>> :> <<11>>)
MCCycleOf == (10 :> 0) @@ (11 :> 7) @@ (12 :> 7)
MCPairOf == (10 :> <<1, 1>>) @@ (11 :> <<1, 3>>) @@ (12 :> <<3, 2>>)

Row(id, stage, vt, boo, amount, from, to) ==
    [id |-> id, stage |-> stage, vehicle |-> vt, boo |-> boo, amount |-> amount,
     type |-> "TURN", from |-> from, to |-> to]

\* Price tables: settled, changing at hour 3 with and without a gap, at one
\* stage only, incomplete, free.
Steady == {Row(s + v, s, v, IF s = 12 THEN "3" ELSE "2", s * 10 + v, -9, NoEnd) :
             s \in {10, 11, 12}, v \in {1, 2}}
Changed(start) ==
    {Row(r.id, r.stage, r.vehicle, r.boo, r.amount, -9, 2) : r \in Steady} \cup
    {Row(r.id + 50, r.stage, r.vehicle, r.boo, r.amount + 5, start, NoEnd) : r \in Steady}
OneChanges == {r \in Steady : r.stage # 12} \cup {r \in Changed(3) : r.stage = 12}
Tables == {Steady, Changed(3), Changed(4), OneChanges, {r \in Steady : r.vehicle = 1},
           {[r EXCEPT !.amount = 0] : r \in Steady}}

Entry(item, toll, cycle, boo) == [item |-> item, toll |-> toll, cycle |-> cycle, boo |-> boo]
Lists == {{}, {Entry("W", 0, 0, AnyBoo)}, {Entry("B", 0, 0, AnyBoo)},
          {Entry("W", 2, 0, "2")}, {Entry("W", 0, 7, "3")}, {Entry("W", 1, 0, "3")},
          {Entry("B", 2, 0, "2"), Entry("W", 0, 7, AnyBoo)},
          {Entry("B", 1, 0, AnyBoo), Entry("W", 1, 0, AnyBoo)}}

Ex(toll, boo, value, type) == [toll |-> toll, boo |-> boo, value |-> value, type |-> type]
ExLists == {<<>>, <<Ex(0, AnyBoo, 2, "0")>>, <<Ex(1, "3", 2, "1"), Ex(0, AnyBoo, 1, "2")>>,
            <<Ex(0, AnyBoo, 1, "2"), Ex(2, "2", 2, "2")>>, <<Ex(0, AnyBoo, Blank, "1")>>}

Sub(stage, boo, from, to) == [stage |-> stage, boo |-> boo, from |-> from, to |-> to]
Histories == {{}, {Sub(11, AnyBoo, 0, NoEnd)}, {Sub(12, "3", 1, 2)}, {Sub(12, "2", 0, NoEnd)}}

Times == {<<0, 0>>, <<0, 2>>, <<1, 3>>, <<2, 2>>, <<2, 4>>, <<3, 3>>, <<4, 5>>}

MCTrip ==
    {[in |-> leg[1], out |-> leg[2], registered |-> vt, rows |-> rows, wb |-> wb,
      ex |-> ex, exPrice |-> <<Ex(0, AnyBoo, "FREE", "2")>>, history |-> history,
      loaded |-> times[1], time |-> times[2]] :
        leg \in {<<1, 1>>, <<1, 2>>, <<2, 1>>, <<2, 3>>, <<1, 3>>}, vt \in {1, 2, Unreadable},
        rows \in Tables, wb \in Lists, ex \in ExLists, history \in Histories,
        times \in Times}
=============================================================================
