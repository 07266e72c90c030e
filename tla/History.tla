---------------------------------- MODULE History ----------------------------------
(***************************************************************************)
(* How the rows of a dataset become the history a run is fitted to         *)
(* (forecast_service._build_payload): they are reduced to one value for a  *)
(* period (datasets/queries.py), judged, and laid on a calendar without    *)
(* holes (quality.py), with what is reported of segments and of drivers    *)
(* beside it.  Periods are numbered; how dates fall into them is in        *)
(* Calendar, how holes are filled in Routing.                              *)
(***************************************************************************)
EXTENDS Routing

CONSTANTS
    None,
    Tables,     \* sequences of rows [day, value, weight, segment, driver], each None if it cannot be read
    Asked,      \* [aggregation, fill, damped]
    Width,      \* days of a period
    Year, MaxSegments

VARIABLES
    rows, asked,
    series,     \* the rows by period
    told,       \* what the quality report of the dataset said
    payload     \* what the run is given

vars == <<rows, asked, series, told, payload>>

-----------------------------------------------------------------------------
(* queries.py *)
Period(r) == rows[r].day \div Width
Dated == {r \in DOMAIN rows : rows[r].day # None}
Usable == {r \in Dated : rows[r].value # None}
Total(S, f(_)) == MapThenSumSet(f, S)

\* AGGREGATIONS: the last is one of the rows of the last day
ValuesOf(S) == [r \in S |-> rows[r].value]
Reduced(f, aggregation) ==
    LET S == DOMAIN f
        total == Total(S, LAMBDA r : f[r])
    IN CASE aggregation = "sum" -> total
         [] aggregation = "mean" -> total \div Cardinality(S)
         [] aggregation = "last" -> f[CHOOSE r \in S : \A q \in S : rows[q].day <= rows[r].day]
Of(S, p) == {r \in S : Period(r) = p}

\* aggregate_series
Aggregated ==
    LET periods == {Period(r) : r \in Usable}
        weight(r) == IF rows[r].weight = None THEN 0 ELSE rows[r].weight
    IN [at |-> [p \in periods |-> Reduced(ValuesOf(Of(Usable, p)), asked.aggregation)],
        weights |-> [p \in periods |-> Total(Of(Usable, p), weight)],
        counts |-> [p \in periods |-> Cardinality(Of(Usable, p))],
        scanned |-> Len(rows), usable |-> Cardinality(Usable), duplicates |-> Cardinality(Usable) - Cardinality(periods)]

\* comparison_window: a year, or the half of less than two
Recent(periods) ==
    LET n == Cardinality(periods)
        window == IF n >= 2 * Year THEN Year ELSE Max({1, n \div 2})
    IN {p \in periods : Cardinality({q \in periods : q > p}) < window}

\* aggregate_segments: where one of the small ones is not reported, the pool of them is not
Segments ==
    LET named == {r \in Usable : rows[r].segment # None}
        periods == {Period(r) : r \in named}
        of(label) ==
            LET mine(p) == {r \in Of(named, p) : rows[r].segment = label}
                values == [p \in periods |-> IF mine(p) = {} THEN Gap
                                             ELSE Reduced(ValuesOf(mine(p)), asked.aggregation)]
            IN [label |-> label, values |-> values,
                current |-> Total({p \in Recent(periods) : values[p] # Gap}, LAMBDA p : values[p])]
        ranked == SetToSortSeq({of(l) : l \in {rows[r].segment : r \in named}},
                               LAMBDA a, b : a.current > b.current \/ (a.current = b.current /\ a.label < b.label))
        tail == SubSeq(ranked, MaxSegments, Len(ranked))
        others == [label |-> None,
                   values |-> [p \in periods |-> IF \E i \in DOMAIN tail : tail[i].values[p] = Gap THEN Gap
                                                 ELSE Total(DOMAIN tail, LAMBDA i : tail[i].values[p])],
                   current |-> Total(DOMAIN tail, LAMBDA i : tail[i].current)]
    IN IF Len(ranked) <= MaxSegments THEN ranked ELSE Append(SubSeq(ranked, 1, MaxSegments - 1), others)

\* aggregate_candidate_drivers, of the one there is; a row without a target counts
Driver(periods) ==
    LET known(p) == {r \in Of(Dated, p) : rows[r].driver # None}
        present == {p \in periods : known(p) # {}}
    IN IF Cardinality(present) < Cardinality(periods) \div 2 THEN None
       ELSE [p \in periods |-> IF p \in present THEN Total(known(p), LAMBDA r : rows[r].driver) ELSE Gap]

-----------------------------------------------------------------------------
(* quality.py *)
ExpectedBefore(start, end) == start..(end - 1)
Expected(start, end) == start..end
Calendar(f) == Expected(Min(DOMAIN f), Max(DOMAIN f))
InOrder(f) ==
    LET whole == [i \in 1..(Max(DOMAIN f) - Min(DOMAIN f) + 1) |-> Min(DOMAIN f) + i - 1]
        periods == SelectSeq(whole, LAMBDA p : p \in DOMAIN f)
    IN [i \in DOMAIN periods |-> f[periods[i]]]
Missing(f) == Calendar(f) \ DOMAIN f
Longest(f) == Max({0} \cup {n \in 1..Cardinality(Missing(f)) : \E p \in Missing(f) : p..(p + n - 1) \subseteq Missing(f)})

\* _outlier_count: of the jumps, by the mean distance when half of them are alike
Jumps(v) == [i \in 1..(Len(v) - 1) |-> v[i + 1] - v[i]]
Leaps(v) ==
    LET d == Distances(Jumps(v))
        all == Total(DOMAIN d, LAMBDA i : d[i])
        middle == Twice(d)
    IN CASE Len(v) < 5 -> {}
         [] Len(v) >= 5 /\ middle > 0 -> {i \in DOMAIN d : 40000 * d[i] > 7 * 14826 * middle}
         [] OTHER -> {i \in DOMAIN d : 2 * Len(d) * d[i] > 7 * all}

\* build_report
Report(s) ==
    LET present == DOMAIN s.at
        v == InOrder(s.at)
        missing == Missing(s.at)
        calendar == Calendar(s.at)
        typical == Twice(InOrder(s.counts))
        partial == {p \in present : 200 * s.counts[p] < 35 * typical}
        constant == Len(v) >= 2 /\ \A i \in DOMAIN v : v[i] = v[1]
        says(code, when) == IF when THEN {code} ELSE {}
    IN [scanned |-> s.scanned, usable |-> s.usable, duplicates |-> s.duplicates, partial |-> Cardinality(partial),
        present |-> Cardinality(present), expected |-> Cardinality(calendar), gaps |-> Cardinality(missing),
        longest |-> Longest(s.at), applied |-> IF missing = {} THEN "none" ELSE Applied(v, asked.fill),
        severe |-> says("too_few_periods", Len(v) < 2)
                   \cup says("calendar_gaps", missing # {} /\ 10 * Cardinality(present) < 6 * Cardinality(calendar)),
        issues |-> says("calendar_gaps", missing # {}) \cup says("constant_target", constant)
                   \cup says("duplicate_timestamps", s.duplicates > 0) \cup says("partial_periods", partial # {})
                   \cup says("outliers", Leaps(v) # {}) \cup says("negative_values", \E i \in DOMAIN v : v[i] < 0)]

\* align_calendar
Aligned(s) ==
    LET missing == Missing(s.at)
        holes(f, what) == [p \in Calendar(f) |-> IF p \in DOMAIN f THEN f[p] ELSE what]
    IN IF missing = {} \/ asked.fill = "none"
       THEN [values |-> s.at, weights |-> s.weights, missing |-> missing, regular |-> missing = {}]
       ELSE [values |-> holes(s.at, Gap), weights |-> holes(s.weights, 0), missing |-> missing, regular |-> TRUE]

-----------------------------------------------------------------------------
(* forecast_service.py *)
\* Preparation.apply
Apply(preparation, v) ==
    LET filled == IF preparation.fill = "none" THEN v ELSE Prepared(v, preparation.fill)
    IN IF preparation.damped THEN Winsorised(filled) ELSE filled

\* _build_payload
Payload(s) ==
    LET aligned == Aligned(s)
        fill == IF aligned.missing # {} /\ aligned.regular THEN asked.fill ELSE "none"
    IN [refused |-> None, values |-> aligned.values, weights |-> aligned.weights,
        preparation |-> [fill |-> fill, damped |-> asked.damped],
        filled |-> IF fill = "none" THEN "none" ELSE Applied(InOrder(aligned.values), fill),
        report |-> Report(s), segments |-> Segments, driver |-> Driver(DOMAIN aligned.values)]

Unmade == series = None /\ told = None /\ payload = None
Init == rows \in Tables /\ asked \in Asked /\ Unmade

\* the report and the run each read it from the same file
Aggregate ==
    /\ series = None
    /\ series' = Aggregated
    /\ UNCHANGED <<rows, asked, told, payload>>

\* assess_quality
Assess ==
    /\ series # None /\ told = None
    /\ told' = IF Usable = {} THEN [refused |-> "no rows"] ELSE [refused |-> None, report |-> Report(series)]
    /\ UNCHANGED <<rows, asked, series, payload>>

Build ==
    /\ series # None /\ payload = None
    /\ payload' = CASE Usable = {} -> [refused |-> "no rows"]
                    [] Usable # {} /\ Report(series).severe # {} -> [refused |-> "blocked"]
                    [] OTHER -> Payload(series)
    /\ UNCHANGED <<rows, asked, series, told>>

Next == Aggregate \/ Assess \/ Build
Spec == Init /\ [][Next]_vars

-----------------------------------------------------------------------------
AggregatedSeries(s) ==
    /\ DOMAIN s.weights = DOMAIN s.at /\ DOMAIN s.counts = DOMAIN s.at
    /\ s.scanned >= s.usable /\ s.duplicates >= 0
    /\ s.usable = Total(DOMAIN s.counts, LAMBDA p : s.counts[p])

IsBlocked(q) == q.severe # {}
QualityReport(q) ==
    /\ q.present + q.gaps = q.expected /\ q.longest <= q.gaps /\ q.partial <= q.present
    /\ q.present + q.duplicates = q.usable /\ q.usable <= q.scanned
    /\ q.applied \in {"none", "zero", "interpolate"}
    /\ ~IsBlocked(q) => 10 * q.present >= 6 * q.expected

TypeOK ==
    /\ series # None => AggregatedSeries(series)
    /\ told # None /\ told.refused = None => QualityReport(told.report)
    /\ told # None => told.refused \in {None, "no rows"}
    /\ payload # None => payload.refused \in {None, "no rows", "blocked"}

Given == payload # None /\ payload.refused = None

\* No row that has a date and a figure is lost on the way to the history, nor is anything added to it:
\* what is summed is their sum, each period keeps its value and its weight, what is between is a hole of
\* no weight, and the calendar has no leaps unless the run asked not to fill them.
NothingIsLost ==
    Given =>
        LET s == series
            at == payload.values
        IN /\ \A p \in DOMAIN at : IF p \in DOMAIN s.at THEN at[p] = s.at[p] /\ payload.weights[p] = s.weights[p]
                                   ELSE at[p] = Gap /\ payload.weights[p] = 0
           /\ DOMAIN s.at \subseteq DOMAIN at
           /\ asked.fill # "none" => \A p \in Min(DOMAIN at)..Max(DOMAIN at) : p \in DOMAIN at
           /\ asked.aggregation = "sum" =>
                 Total({p \in DOMAIN at : at[p] # Gap}, LAMBDA p : at[p]) = Total(Usable, LAMBDA r : rows[r].value)
           /\ payload.report.present + s.duplicates = Cardinality(Usable)

\* What is told of the gaps is what is done with them: a history with gaps is told to have them, with how
\* they are filled, and is filled so and to the last one; one that is mostly gaps is refused, and was
\* said to be before.
GapsAreTold ==
    /\ Given =>
          LET v == InOrder(payload.values)
              whole == Apply([payload.preparation EXCEPT !.damped = FALSE], v)
          IN /\ payload.report.gaps > 0 <=> "calendar_gaps" \in payload.report.issues
             /\ 10 * payload.report.present >= 6 * payload.report.expected
             /\ \A i \in DOMAIN v : whole[i] # Gap
             /\ \A i \in DOMAIN v : v[i] = Gap /\ payload.filled = "zero" => whole[i] = 0
             /\ \A i \in DOMAIN v : v[i] = Gap /\ payload.filled = "interpolate" =>
                   \E a, b \in Known(v) : v[a] <= whole[i] /\ whole[i] <= v[b]
             /\ told # None => told.refused = None /\ told.report.applied = payload.filled
    /\ (payload # None /\ payload.refused # None /\ told # None) =>
          told.refused = payload.refused \/ IsBlocked(told.report)

\* Damping only touches what is far from the rest, keeps the order of the values, and leaves no hole.
DampingIsMild ==
    Given =>
        LET whole == Apply([payload.preparation EXCEPT !.damped = FALSE], InOrder(payload.values))
            damped == Apply(payload.preparation, InOrder(payload.values))
        IN \A i, j \in DOMAIN whole :
              /\ whole[i] <= whole[j] => damped[i] <= damped[j]
              /\ i \notin Far(whole) => damped[i] = whole[i]

\* The segments of a measure that is summed are what is reported of it: they sum to the rows that have
\* one over the last year, and in every period that each of them reports; and a driver is laid on the
\* very periods of the history, with a value in half of them at least.
BesideIt ==
    Given =>
        LET named == {r \in Usable : rows[r].segment # None}
            periods == {Period(r) : r \in named}
            sums(S) == Total({r \in named : Period(r) \in S}, LAMBDA r : rows[r].value)
        IN /\ Len(payload.segments) <= MaxSegments
           /\ asked.aggregation = "sum" =>
                 /\ Total(DOMAIN payload.segments, LAMBDA i : payload.segments[i].current) = sums(Recent(periods))
                 /\ \A p \in periods :
                       (\A i \in DOMAIN payload.segments : payload.segments[i].values[p] # Gap) =>
                          Total(DOMAIN payload.segments, LAMBDA i : payload.segments[i].values[p]) = sums({p})
           /\ payload.driver # None =>
                 /\ DOMAIN payload.driver = DOMAIN payload.values
                 /\ 2 * Cardinality({p \in DOMAIN payload.driver : payload.driver[p] # Gap}) + 1 >= Cardinality(DOMAIN payload.driver)
====================================================================================
