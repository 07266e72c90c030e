------------------------------- MODULE MCHistories -------------------------------
(***************************************************************************)
(* The histories that are forecast, for TLC.                               *)
(***************************************************************************)
EXTENDS Integers, Sequences

-------------------------------------------------------------------------------
(* The histories that models are chosen for: of sixteen periods, made of
   quarters that are level, seldom, erratic, silent or below zero, and of
   up to eight; with and without gaps; for a run, whose caller may name
   models, and for a leaf of a grouped one. *)

CONSTANT Unfilled    \* a period with nothing recorded

Quarters == {<<1, 1, 1, 1>>, <<0, 0, 0, 5>>, <<5, 1, 1, 5>>, <<0, 0, 0, 0>>, <<2, 0, 2, 2>>, <<-1, -2, 3, 4>>,
             <<9, 1, 1, 1>>, <<0, 5, 0, 1>>}
Gappy == {<<1, Unfilled, 1, 3>>, <<Unfilled, 0, 0, 5>>, <<Unfilled, Unfilled, Unfilled, Unfilled>>}

Turning == {p \o p \o q \o r : p, q, r \in Quarters}
Halves == {p \o p \o q \o q : p, q \in Quarters}
Beginnings == {SubSeq(p \o q, 1, n) : p, q \in Quarters, n \in {1, 2, 5, 7, 8}}
Holed == Gappy \cup {p \o q \o q \o p : p \in Gappy, q \in Quarters \cup Gappy}

Asking(series, wanted, fill, leaf) == [series |-> series, wanted |-> wanted, fill |-> fill, leaf |-> leaf]
MCTasks ==
    {Asking(s, {}, "auto", FALSE) : s \in Turning}
    \cup {Asking(s, {}, "auto", leaf) : s \in Halves \cup Beginnings, leaf \in BOOLEAN}
    \cup {Asking(s, wanted, "auto", FALSE) :
            s \in Halves \cup Beginnings,
            wanted \in {{"prophet"}, {"theta"}, {"croston"}, {"croston", "naive"}, {"prophet", "croston"}}}
    \cup {Asking(s, {}, fill, leaf) : s \in Holed, fill \in {"auto", "zero", "none", "interpolate"}, leaf \in BOOLEAN}

-------------------------------------------------------------------------------
(* The tables whose series are forecast.  Canonical ones, of shops in two
   regions whose histories are long or short, level, seldom, silent, below
   zero, with holes in their calendar, or begin and end at other times. And
   datasets that become histories: short ones of every value, and ones with
   an outlier, with segments of which some are not reported, and with rows
   that cannot be read; one period is two days. *)

CONSTANT Hole    \* a value that is no number

\* in the order of their texts
North == <<"north", "one">>
Other == <<"north", "two">>
South == <<"south", "one">>
MCIds == <<North, Other, South>>

From(start, values) == [i \in 1..Len(values) |-> <<start + i, values[i]>>]
Without(g, n) == SubSeq(g, 1, n - 1) \o SubSeq(g, n + 1, Len(g))
Level == From(0, <<3, 3, 4, 3, 3, 5, 3, 3>>)
Steady == From(1, <<2, 2, 2, 2, 2, 2, 2>>)
Histories ==
    {Level, Steady, Without(Level, 4), From(4, <<7, 8>>), From(5, <<9>>), From(7, <<1, 2, 3>>), From(0, <<0, 0, 0, 0, 0, 0, 0, 0>>),
     From(0, <<0, 0, 5, 0, 0, 0, 7, 0>>), From(0, <<0, 0, 5, 0, 0, 0, 0, 0>>), From(2, <<-3, -2, -4, 1, -3, -2>>),
     From(0, <<Hole, 4, 5, 4, 6, 4, 40, Hole>>), From(3, <<Hole, Hole>>), From(2, <<Hole, Hole, 6>>),
     From(0, <<1, 3, 1, 3, 1, 3, 1, 3>>)}
MCFrames ==
    {<<>>} \cup [{North} -> Histories] \cup [{North, Other} -> Histories]
    \cup [{North, Other, South} -> {Level, From(4, <<7, 8>>), From(0, <<0, 0, 5, 0, 0, 0, 0, 0>>)}]

CONSTANT Unreadable     \* a cell that cannot be read

Line(day, value, segment) == [day |-> day, value |-> value, weight |-> 1, segment |-> segment, driver |-> value]
Undated == [Line(0, 5, 1) EXCEPT !.day = Unreadable]
Nameless == [Line(0, 5, 1) EXCEPT !.value = Unreadable, !.weight = Unreadable]

\* one row in some of six periods
Sparse == {[i \in 1..n |-> Line(2 * i * step, v[i], i % 3)] :
             n \in {2, 4}, step \in 1..3, v \in {<<3, 1, 0, 4>>, <<2, 2, 2, 2>>, <<-1, 4, 0, 0>>}}
Dense == {[i \in 1..n |-> Line(i \div 2, (i * i) % m, i % 4)] : n \in {1, 6, 13}, m \in {2, 5, 7}}
Spiked == {[i \in 1..7 |-> Line(2 * i, IF i = k THEN 60 ELSE v[i], i % 2)] :
             k \in {1, 4, 7}, v \in {<<1, 2, 1, 2, 1, 2, 1>>, <<1, 1, 1, 1, 1, 1, 1>>}}
\* a hole between, segments that come and go, a driver of two periods, a period of which little is reported
Lacking == {[i \in 1..5 |-> [Line(2 * (i + i \div k), v[i], s[i]) EXCEPT !.driver = IF i <= 2 THEN i ELSE Unreadable]] :
            k \in {2, 3, 4}, v \in {<<0, 4, 0, 0, 7>>, <<6, 1, 3, 9, 2>>, <<0, -2, 0, 3, 3>>},
            s \in {<<1, 2, 3, 1, 2>>, <<1, 1, 2, 3, 3>>}}
Partial == [i \in 1..9 |-> Line(2 * ((i - 1) \div 4), i, Unreadable)]
MCTablesOfRows ==
    Sparse \cup Dense \cup Spiked
    \cup Lacking \cup {Partial}
    \cup {<<>>, <<Undated, Nameless>>}
    \cup {<<Undated, Nameless>> \o s : s \in Dense}
    \cup {<<Line(1, 3, 1), Line(2, 4, Unreadable), Line(9, 4, 2), Line(9, 5, 2)>>,
          <<Line(1, 3, 1), [Line(3, 4, 1) EXCEPT !.weight = Unreadable], [Nameless EXCEPT !.day = 3, !.driver = 9], Line(8, 4, 2)>>}
MCAsked == [aggregation : {"sum", "mean", "last"}, fill : {"auto", "zero", "interpolate", "none"}, damped : BOOLEAN]
===============================================================================
