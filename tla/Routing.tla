---------------------------------- MODULE Routing ----------------------------------
(***************************************************************************)
(* What a history is before any model is fitted to it: filled              *)
(* (preparation.py), profiled (diagnostics.py), routed by its demand       *)
(* (routing.py), and which models that leaves (models.py).  Whether a      *)
(* season repeats is told by a repetition, the statistics behind it being  *)
(* left out.                                                               *)
(***************************************************************************)
EXTENDS Integers, Sequences, FiniteSets, FiniteSetsExt, SequencesExt

CONSTANTS
    Gap,        \* a period with nothing recorded
    Season      \* seasonal_period(frequency)

-----------------------------------------------------------------------------
(* preparation.py *)
Known(v) == {i \in DOMAIN v : v[i] # Gap}
Recorded(v) == SelectSeq(v, LAMBDA x : x # Gap)
Zeros(v) == {i \in Known(v) : v[i] = 0}

\* resolve_fill
Applied(v, fill) ==
    IF fill # "auto" THEN fill
    ELSE IF Known(v) = {} \/ 10 * Cardinality(Zeros(v)) >= 3 * Cardinality(Known(v)) THEN "zero" ELSE "interpolate"

\* np.interp: between the nearest on both sides, and level beyond the ends
Interpolated(v, i) ==
    LET before == {j \in Known(v) : j < i}
        after == {j \in Known(v) : j > i}
    IN CASE before = {} -> v[Min(after)]
         [] before # {} /\ after = {} -> v[Max(before)]
         [] OTHER -> v[Max(before)] + ((v[Min(after)] - v[Max(before)]) * (i - Max(before))) \div (Min(after) - Max(before))

\* fill_gaps
Prepared(v, fill) ==
    LET applied == Applied(v, fill)
    IN [i \in DOMAIN v |->
          CASE v[i] # Gap \/ applied = "none" -> v[i]
            [] v[i] = Gap /\ applied # "none" /\ (Known(v) = {} \/ applied = "zero") -> 0
            [] OTHER -> Interpolated(v, i)]

\* winsorise: by twice the median, and the distances from it
Twice(v) ==
    LET s == SortSeq(v, <)
        n == Len(s)
    IN s[(n + 1) \div 2] + s[n \div 2 + 1]
Distances(v) == LET centre == Twice(v)
                IN [i \in DOMAIN v |-> IF 2 * v[i] >= centre THEN 2 * v[i] - centre ELSE centre - 2 * v[i]]
\* three and a half robust deviations
Spread(v) == (7 * 14826 * Twice(Distances(v))) \div 40000
Far(v) == LET spread == Spread(v)
              distances == Distances(v)
          IN IF spread = 0 THEN {} ELSE {i \in DOMAIN v : distances[i] > spread}
Winsorised(v) ==
    LET centre == Twice(v)
        spread == Spread(v)
        far == IF Len(v) < 5 THEN {} ELSE Far(v)
    IN [i \in DOMAIN v |->
          CASE i \notin far -> v[i]
            [] i \in far /\ 2 * v[i] > centre -> (centre + spread) \div 2
            [] OTHER -> (centre - spread) \div 2]

-----------------------------------------------------------------------------
(* diagnostics.py *)
Sum(S, f(_)) == MapThenSumSet(f, S)

\* _demand_pattern: how often there is demand, and how much its size varies
Demand(v) ==
    LET met == {i \in DOMAIN v : v[i] > 0}
        k == Cardinality(met)
        total == Sum(met, LAMBDA i : v[i])
        squares == Sum(met, LAMBDA i : v[i] * v[i])
        seldom == 100 * Len(v) >= 132 * k
        varied == 100 * k * (k * squares - total * total) >= 49 * (k - 1) * total * total
    IN CASE k < 2 -> "no_demand"
         [] k >= 2 /\ seldom /\ varied -> "lumpy"
         [] k >= 2 /\ seldom /\ ~varied -> "intermittent"
         [] k >= 2 /\ ~seldom /\ varied -> "erratic"
         [] OTHER -> "smooth"

\* seasonal_scores, and the strength above its noise floor
Repeats(v) ==
    /\ Len(v) >= 2 * Season
    /\ \E i, j \in DOMAIN v : v[i] # v[j]
    /\ \A i \in 1..(Len(v) - Season) : v[i] = v[i + Season]

\* profile_series
Profile(values_) ==
    LET v == Recorded(values_)
        class == Demand(v)
    IN [n |-> Len(v), class |-> class, intermittent |-> class \in {"intermittent", "lumpy"},
        seasonal |-> Repeats(v),
        period |-> IF Repeats(v) \/ Len(v) >= 2 * Season THEN Season ELSE 1,     \* _pick_period
        zeros |-> Cardinality(Zeros(v)),
        nonNegative |-> \A i \in DOMAIN v : v[i] >= 0,
        moves |-> Sum(DOMAIN v, LAMBDA i : v[i]) # 0 /\ \E i, j \in DOMAIN v : v[i] # v[j]]
Lag(p) == IF p.seasonal THEN p.period ELSE 1

\* minimum_history
Floor(p) == IF p.seasonal THEN Max({8, 2 * p.period}) ELSE Max({6, Min({12, p.n})})

-----------------------------------------------------------------------------
(* routing.py *)
Baselines == {"naive", "seasonal_naive"}
Smooth == {"holt_winters", "ets", "theta", "sarimax", "prophet", "gradient_boosting"}
Route(p) ==
    Baselines \cup (CASE p.class \in {"lumpy", "intermittent"} -> {"croston"}
                      [] p.class = "no_demand" -> {}
                      [] OTHER -> Smooth)

-----------------------------------------------------------------------------
(* models.py *)
Order == <<"naive", "seasonal_naive", "holt_winters", "ets", "theta", "sarimax", "gradient_boosting",
           "prophet", "croston">>

\* build_candidates: what is built here, and what suits the profile
Unavailable(available) == IF available THEN {} ELSE {"prophet"}
Routed(p, available) ==
    LET built == SelectSeq(Order, LAMBDA k : k \notin Unavailable(available) /\ (k = "croston" => p.intermittent))
        routed == SelectSeq(built, LAMBDA k : k \in Route(p))
    IN IF routed = <<>> THEN built ELSE routed
Offered(p, wanted, available) ==
    IF wanted = {} THEN Routed(p, available)
    ELSE SelectSeq(Routed(p, available), LAMBDA k : k \in wanted)
\* build_candidate
Builds(kind, p, wanted, available) == kind \in ToSet(Offered(p, wanted, available))

\* _no_candidates_message
Message(p, wanted, available) ==
    [of |-> IF wanted \subseteq Unavailable(available) THEN "unavailable" ELSE "unsuited",
     instead |-> ToSet(Routed(p, available))]

MinObservations(kind, p) ==
    CASE kind = "naive" -> 1
      [] kind = "seasonal_naive" -> IF p.period > 1 THEN p.period ELSE Season
      [] kind = "holt_winters" -> 5
      [] kind = "theta" -> 6
      [] kind = "croston" -> 8
      [] kind = "ets" -> 3 * (5 + IF p.seasonal THEN p.period ELSE 0)
      [] kind = "sarimax" -> 3 * (IF p.seasonal THEN 8 ELSE 6)
      [] kind = "gradient_boosting" -> 12 + (IF p.seasonal THEN p.period + 1 ELSE 3)
      [] kind = "prophet" -> 12

\* fit of those that can say beforehand that they cannot
Fits(kind, v, p) ==
    CASE kind = "naive" -> Known(v) # {}
      [] kind = "seasonal_naive" -> p.period > 1 => Len(v) >= p.period
      [] kind = "croston" -> Cardinality({i \in Known(v) : v[i] > 0}) >= 2
      [] OTHER -> TRUE
====================================================================================
