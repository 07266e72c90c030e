---------------------------------- MODULE Reading ----------------------------------
(***************************************************************************)
(* From an upload to a dataset: the file is checked and read as a table    *)
(* (datasets/ingest.py), its columns are read as dates and numbers         *)
(* (coercion.py), given roles (profiler.py), and judged (refusal.py).  A   *)
(* cell is what its text can be read as; every layout with one reading of  *)
(* a date stands for all of them, and so does one with two.                *)
(***************************************************************************)
EXTENDS Integers, Sequences, FiniteSets, FiniteSetsExt, SequencesExt

CONSTANTS
    None,           \* an empty cell, nothing chosen
    Files,          \* [suffix, size, ragged, columns]; a column is a heading and its cells
    Orders,         \* what an upload may say of its dates: "auto", "day", "month"
    MaxSize,        \* settings.max_upload_bytes
    Sample,         \* SAMPLE_ROWS: a convention is chosen from so many values
    Serial,         \* EXCEL_MIN..EXCEL_MAX: the numbers that are dates in a column named so
    MaxCategory,    \* a column with more values is text
    MaxDimension,   \* MAX_AUTO_DIMENSION_VALUES
    Required        \* history_gate: the periods two seasons need

VARIABLES
    file, order,
    raw,        \* the upload is on disk
    table,      \* read_tabular's frame: columns with a heading, a type and cells; or None
    profile,    \* profile_frame's result, or None
    verdict,    \* assess' result, or None
    outcome     \* "", "refused", "stored"

vars == <<file, order, raw, table, profile, verdict, outcome>>

\* cells: <<"one", m, d>> a date that reads one way, <<"two", a, b>> one that reads two ways,
\* <<"num", digits, marks, tail>> a number with the separators in it, each once, and the digits after the last,
\* <<"word", w>>; once read <<"date", m, d>> and <<"val", digits, decimals>>
Agrees(some, all) == 5 * some >= 4 * all    \* AGREEMENT
Values(cells) == SelectSeq(cells, LAMBDA c : c # None)
Filled(cells) == Len(Values(cells))
Probe(cells) == SubSeq(Values(cells), 1, Min({Sample, Filled(cells)}))

Number(c, decimal) ==
    IF c[1] # "num" THEN None
    ELSE <<"val", c[2],
           CASE c[3] = "" -> 0
             [] c[3] = decimal -> c[4]
             [] c[3] \in {",", "."} \ {decimal} -> 0
             [] OTHER -> IF (c[3] = ".,") = (decimal = ",") THEN c[4] ELSE c[4] + 3>>
OneWay(c) == IF c[1] = "one" THEN <<"date", c[2], c[3]>> ELSE None
DayFirst(c) == IF c[1] = "two" /\ c[3] <= 12 THEN <<"date", c[3], c[2]>> ELSE None
MonthFirst(c) == IF c[1] = "two" /\ c[2] <= 12 THEN <<"date", c[2], c[3]>> ELSE None

\* as a number by its decimal mark, or as a date by its layout
Reading(c, by) ==
    CASE by \in {",", "."} -> Number(c, by)
      [] by = "one" -> OneWay(c)
      [] by = "day" -> DayFirst(c)
      [] by = "month" -> MonthFirst(c)
Read(cells, by) == [i \in DOMAIN cells |-> IF cells[i] = None THEN None ELSE Reading(cells[i], by)]
Count(cells, by) == Filled(Read(cells, by))
Explains(cells, by) ==
    /\ Agrees(Count(Probe(cells), by), Len(Probe(cells)))
    /\ Agrees(Count(cells, by), Filled(cells))
    /\ Count(cells, by) > 0

-----------------------------------------------------------------------------
(* coerce_numeric: what the separators mean is decided from the sample. *)
Decimal(sample) ==
    LET marked(marks) == {i \in DOMAIN sample : sample[i][1] = "num" /\ sample[i][3] = marks}
        group(c) == c[4] = 3 /\ c[2] < 1000000    \* looks_grouped: no more than three before it
        grouped(S) == Agrees(Cardinality({i \in S : group(sample[i])}), Cardinality(S))
        commaLast == Cardinality(marked(".,"))
        dotLast == Cardinality(marked(",."))
    IN IF commaLast + dotLast > 0 THEN IF commaLast > dotLast THEN "," ELSE "."
       ELSE IF marked(",") # {} /\ marked(".") = {} THEN IF grouped(marked(",")) THEN "." ELSE ","
       ELSE IF marked(".") # {} /\ marked(",") = {} THEN IF grouped(marked(".")) THEN "," ELSE "."
       ELSE "."

\* what polars reads as a column of numbers by itself, when it reads the file
Native(cells) ==
    /\ Filled(cells) > 0
    /\ \A i \in DOMAIN cells : cells[i] # None => cells[i][1] = "num" /\ cells[i][3] \in {"", "."}

\* _is_year_label: nothing but years under a heading that says so
Years(head, sample) ==
    /\ head.year
    /\ \A i \in DOMAIN sample : sample[i][1] = "num" => sample[i][2] \in 1900..2099 /\ sample[i][3] = ""

\* the column as numbers, or None
Numeric(head, cells) ==
    LET decimal == IF Native(cells) THEN "." ELSE Decimal(Probe(cells))
    IN IF Explains(cells, decimal) /\ (Years(head, Probe(cells)) => Native(cells))
       THEN Read(cells, decimal) ELSE None

-----------------------------------------------------------------------------
(* parse_dates. *)
\* _resolve_order: a value past the twelfth is a day, and so is what never changes
FixedAlone(S, T) == Cardinality(S) = 1
Fixed(S, T) == Cardinality(S) = 1 /\ Cardinality(T) > 1
Resolve(sample) ==
    LET two == {i \in DOMAIN sample : sample[i][1] = "two"}
        firsts == {sample[i][2] : i \in two}
        seconds == {sample[i][3] : i \in two}
    IN IF two = {} THEN [day |-> FALSE, ambiguous |-> FALSE]
       ELSE IF Max(firsts) > 12 THEN [day |-> TRUE, ambiguous |-> FALSE]
       ELSE IF Max(seconds) > 12 \/ Fixed(seconds, firsts) THEN [day |-> FALSE, ambiguous |-> FALSE]
       ELSE [day |-> TRUE, ambiguous |-> ~Fixed(firsts, seconds)]

Parsed(cells, layout, ambiguous) == [cells |-> cells, layout |-> layout, ambiguous |-> ambiguous]

\* _mixed_formats: two layouts that each read a tenth, and together nearly everything
Mixed(cells, by) ==
    LET one == Read(cells, "one")
        two == Read(cells, by)
        merged == [i \in DOMAIN cells |-> IF one[i] # None THEN one[i] ELSE two[i]]
        all == Filled(cells)
    IN IF 10 * Filled(one) >= all /\ 10 * Filled(two) >= all /\ Filled(one) > 0 /\ Filled(two) > 0
          /\ Agrees(Filled(merged), all)
       THEN Parsed(merged, "mixed", FALSE) ELSE None

TextDates(cells, asked) ==
    LET found == Resolve(Probe(cells))
        day == IF asked = "auto" THEN found.day ELSE asked = "day"
        told == asked = "auto" /\ found.ambiguous
        first == IF day THEN "day" ELSE "month"
        other == IF day THEN "month" ELSE "day"
    IN IF Explains(cells, "one") THEN Parsed(Read(cells, "one"), "one", FALSE)
       ELSE IF Explains(cells, first) THEN Parsed(Read(cells, first), "two", told)
       ELSE IF Explains(cells, other) THEN Parsed(Read(cells, other), "two", FALSE)
       ELSE Mixed(cells, first)

\* _numeric_dates: the serial a spreadsheet leaves behind
FromSerial(cells) == [i \in DOMAIN cells |-> IF cells[i] = None THEN None ELSE <<"date", 1, cells[i][2]>>]
Dates(column, asked) ==
    LET cells == column.cells
    IN CASE column.type = "date" -> Parsed(cells, "native", FALSE)
         [] column.type = "number" ->
               IF column.head.date /\ Filled(cells) > 0
                     /\ \A i \in DOMAIN cells : cells[i] # None => cells[i][2] \in Serial
               THEN Parsed(FromSerial(cells), "serial", FALSE) ELSE None
         [] OTHER -> IF Filled(cells) = 0 THEN None ELSE TextDates(cells, asked)

-----------------------------------------------------------------------------
(* read_tabular. *)
Height(columns) == Len(columns[1].cells)

\* _drop_empty_rows
Kept(columns) ==
    LET rows == {r \in 1..Height(columns) : \E i \in DOMAIN columns : columns[i].cells[r] # None}
        order_ == SetToSortSeq(IF rows = {} THEN 1..Height(columns) ELSE rows, <)
    IN [i \in DOMAIN columns |->
          [columns[i] EXCEPT !.cells = [r \in DOMAIN order_ |-> columns[i].cells[order_[r]]]]]

\* _fill_merged_cells: a label that fills less than half of its column is carried down
Down(cells) ==
    LET last(r) == {q \in 1..r : cells[q] # None}
    IN IF ~Native(cells) /\ 2 * Filled(cells) < Len(cells)
       THEN [r \in DOMAIN cells |-> IF last(r) = {} THEN None ELSE cells[Max(last(r))]] ELSE cells

\* _clean_headers: a heading that is taken, but for the blanks around it, is numbered
Cleaned(columns) ==
    [i \in DOMAIN columns |->
       LET name == columns[i].head.name
           same == {j \in 1..(i - 1) : columns[j].head.name = name}
       IN IF same = {} THEN name ELSE <<name[1], name[2] + Cardinality(same)>>]

\* _coerce_formatted_numbers
Typed(column, name) ==
    LET numbers == Numeric(column.head, column.cells)
    IN [head |-> [column.head EXCEPT !.name = name],
        type |-> IF numbers = None THEN "text" ELSE "number",
        cells |-> IF numbers = None THEN column.cells ELSE numbers]
Given(f) == Kept([i \in DOMAIN f.columns |->
                    IF f.suffix = "xlsx" THEN [f.columns[i] EXCEPT !.cells = Down(@)] ELSE f.columns[i]])
TableOf(f) ==
    LET columns == Given(f)
    IN [i \in DOMAIN columns |-> Typed(columns[i], Cleaned(columns)[i])]

-----------------------------------------------------------------------------
(* unpivot_periods: periods across the top become rows. *)
Wide(columns) == {i \in DOMAIN columns : columns[i].head.period # None}
Turned(columns) ==
    LET across == SetToSortSeq(Wide(columns), <)
        labels == SetToSortSeq(DOMAIN columns \ Wide(columns), <)
        n == Height(columns)
        stacked(cell(_, _)) == [k \in 1..(n * Len(across)) |-> cell(across[(k - 1) \div n + 1], ((k - 1) % n) + 1)]
        made(name, date) == [name |-> <<name, 0>>, date |-> date, strong |-> FALSE, weak |-> ~date, money |-> ~date,
                             weight |-> FALSE, id |-> FALSE, year |-> FALSE, period |-> None]
    IN IF Cardinality(Wide(columns)) < 3 \/ \E i \in Wide(columns) : columns[i].type # "number" THEN columns
       ELSE [i \in DOMAIN labels |->
               [columns[labels[i]] EXCEPT !.cells = stacked(LAMBDA p, r : columns[labels[i]].cells[r])]]
            \o <<[head |-> made("period", TRUE), type |-> "date", cells |-> stacked(LAMBDA p, r : columns[p].head.period)],
                 [head |-> made("value", FALSE), type |-> "number", cells |-> stacked(LAMBDA p, r : columns[p].cells[r])]>>

-----------------------------------------------------------------------------
(* profile_frame. *)
Distinct(cells) == Cardinality(ToSet(cells))
Nulls(cells) == Len(cells) - Filled(cells)
Lift(holds, points) == IF holds THEN points ELSE 0

\* _score_column, in hundredths
DateScore(c, rows) ==
    60 + Lift(c.head.date, 25)
       + (IF 10 * Distinct(c.cells) > 9 * rows THEN 15 ELSE Lift(20 * Distinct(c.cells) > rows, 8))
       - (20 * Nulls(c.cells)) \div rows
TargetScore(c, rows) ==
    LET score == 40 + (IF c.head.strong THEN 40 ELSE Lift(c.head.weak, 18))
                    + Lift(c.head.money, 8) - Lift(c.head.weight /\ ~c.head.strong, 12)
                    - Lift(c.head.id /\ 100 * Distinct(c.cells) > 98 * rows, 50)
                    - Lift(Distinct(c.cells) <= 1, 40)
                    - Lift(10 * Nulls(c.cells) > 3 * rows, 20)
                    + Lift(Distinct(c.cells) > 1, 2)
    IN IF score < 0 THEN 0 ELSE score

\* one column: what kind it is, what is stored of it, and what could not be read
Column(c, asked) ==
    LET dates == Dates(c, asked)
        stored == IF dates # None THEN dates.cells ELSE c.cells
        kind == CASE dates # None -> "date"
                  [] dates = None /\ c.type = "number" -> "number"
                  [] OTHER -> IF Distinct(c.cells) <= MaxCategory /\ Filled(c.cells) > 0 THEN "category" ELSE "text"
        rows == Len(c.cells)
    IN [head |-> c.head, kind |-> kind, cells |-> stored, text |-> c.cells,
        layout |-> IF dates = None THEN "" ELSE dates.layout,
        ambiguous |-> dates # None /\ dates.ambiguous,
        distinct |-> Distinct(c.cells), nulls |-> Nulls(c.cells), unreadable |-> Nulls(stored) - Nulls(c.cells),
        dateScore |-> IF kind = "date" THEN DateScore(c, rows) ELSE 0,
        targetScore |-> IF kind = "number" THEN TargetScore(c, rows) ELSE 0]

\* the first of the best
Best(S, score) ==
    CHOOSE i \in S : \A j \in S \ {i} : score[j] < score[i] \/ (score[j] = score[i] /\ i < j)
BestOrNone(S, score) == IF S = {} THEN None ELSE Best(S, score)

\* _assign_roles
TimeOf(columns) ==
    BestOrNone({i \in DOMAIN columns : columns[i].kind = "date" /\ columns[i].dateScore >= 50},
               [i \in DOMAIN columns |-> columns[i].dateScore])
Candidates(columns) == {i \in DOMAIN columns : columns[i].kind = "number" /\ columns[i].targetScore >= 40}
TargetOf(columns) ==
    LET numbers == {i \in DOMAIN columns : columns[i].kind = "number"}
    IN BestOrNone(IF Candidates(columns) # {} THEN Candidates(columns) ELSE numbers,
                  [i \in DOMAIN columns |-> columns[i].targetScore])
RoleOf(columns, i) ==
    CASE i = TimeOf(columns) -> "time"
      [] i = TargetOf(columns) -> "target"
      [] i \notin {TimeOf(columns), TargetOf(columns)} /\ columns[i].kind = "category"
            /\ columns[i].distinct <= MaxDimension -> "dimension"
      [] i \notin {TimeOf(columns), TargetOf(columns)} /\ columns[i].kind = "number" ->
            IF columns[i].head.weight THEN "weight" ELSE "measure"
      [] OTHER -> "ignored"

\* infer_frequency finds one: the coarsest grid, of quarters, has three tenths of its periods
Day(d) == 30 * d[2] + d[3]
Regular(cells) ==
    LET days == {Day(cells[i]) : i \in {j \in DOMAIN cells : cells[j] # None}}
    IN /\ Cardinality(days) >= 3
       /\ 10 * Cardinality(days) >= 3 * ((2 * (Max(days) - Min(days)) + 91) \div 182 + 1)

\* the three columns with most that is unreadable are told of
Worst(columns) ==
    LET some == {i \in DOMAIN columns : columns[i].unreadable > 0}
        before(i) == {j \in some : columns[j].unreadable > columns[i].unreadable
                                   \/ (columns[j].unreadable = columns[i].unreadable /\ j < i)}
    IN {i \in some : Cardinality(before(i)) < 3}

Profiled(t, asked) ==
    LET frame == Turned(t)
        columns == [i \in DOMAIN frame |-> Column(frame[i], asked)]
        time == TimeOf(columns)
    IN [columns |-> columns, rows |-> Height(frame),
        roles |-> [i \in DOMAIN columns |-> RoleOf(columns, i)],
        missing |-> MapThenSumSet(LAMBDA i : columns[i].nulls + columns[i].unreadable, DOMAIN columns),
        regular |-> time # None /\ Regular(columns[time].cells),
        warnings |-> {<<"order", i>> : i \in {j \in DOMAIN columns : columns[j].ambiguous}}
                     \cup {<<"unreadable", i>> : i \in Worst(columns)}
                     \cup {<<"turned", 0>> : x \in {y \in {1} : Len(frame) # Len(t)}}
                     \cup {<<"guessed", TargetOf(columns)>> :
                             x \in {y \in {1} : Candidates(columns) = {} /\ TargetOf(columns) # None}}]

-----------------------------------------------------------------------------
(* assess. *)
\* _choice
Choice(columns, kind, score, floor) ==
    LET pool == {i \in DOMAIN columns : columns[i].kind = kind}
        best == BestOrNone(pool, score)
        second == BestOrNone(pool \ {best}, score)
    IN [chosen |-> best, plausible |-> best # None /\ score[best] >= floor,
        confident |-> best # None /\ score[best] >= floor
                      /\ (second = None \/ score[best] - score[second] >= 12)]

\* duplicate_keys: rows of one period at one grain; series_lengths_from and history_gate
Dimensions(p) == {i \in DOMAIN p.roles : p.roles[i] = "dimension"}
Label(p, r) == [i \in Dimensions(p) |-> p.columns[i].cells[r]]
Repeated(p, time) ==
    p.rows - Cardinality({<<p.columns[time].cells[r], Label(p, r)>> : r \in 1..p.rows})
Gated(p, time) ==
    {l \in {Label(p, r) : r \in 1..p.rows} :
       Cardinality({p.columns[time].cells[r] : r \in {q \in 1..p.rows : Label(p, q) = l}}) < Required}

Assessed(p) ==
    LET columns == p.columns
        time == Choice(columns, "date", [i \in DOMAIN columns |-> columns[i].dateScore], 50)
        target == Choice(columns, "number", [i \in DOMAIN columns |-> columns[i].targetScore], 40)
        refused == Len(columns) < 2 \/ time.chosen = None \/ target.chosen = None
        asks(holds, code) == IF holds THEN {code} ELSE {}
        questions == asks(~time.confident, "time") \cup asks(~target.confident, "target")
                     \cup asks(columns[time.chosen].ambiguous, "order")
                     \cup asks(Repeated(p, time.chosen) > 0, "duplicates")
                     \cup asks(~p.regular, "spacing")
    IN IF refused
       THEN [says |-> "refuse", time |-> time.chosen, target |-> target.chosen, questions |-> {},
             quarantined |-> 0, gated |-> {}]
       ELSE [says |-> IF questions = {} THEN "proceed" ELSE "confirm",
             time |-> time.chosen, target |-> target.chosen, questions |-> questions,
             quarantined |-> columns[time.chosen].unreadable + columns[target.chosen].unreadable,
             gated |-> IF p.regular THEN Gated(p, time.chosen) ELSE {}]

-----------------------------------------------------------------------------
Unread == raw = FALSE /\ table = None /\ profile = None /\ verdict = None /\ outcome = ""
Init == file \in Files /\ order \in Orders /\ Unread

Refuse == outcome' = "refused" /\ raw' = FALSE

\* validate_upload, and the file is on disk
Receive ==
    /\ outcome = "" /\ ~raw
    /\ IF file.suffix \in {"csv", "xlsx"} /\ file.size \in 1..MaxSize
       THEN raw' = TRUE /\ UNCHANGED outcome
       ELSE Refuse
    /\ UNCHANGED <<file, order, table, profile, verdict>>

\* read_tabular: what would lose values, or names two columns alike, is refused and removed
Tabulate ==
    /\ raw /\ table = None
    /\ LET t == TableOf(file)
       IN IF file.ragged > 0 \/ Height(file.columns) = 0
             \/ \E i, j \in DOMAIN t : i # j /\ t[i].head.name = t[j].head.name
          THEN Refuse /\ UNCHANGED table
          ELSE table' = t /\ UNCHANGED <<raw, outcome>>
    /\ UNCHANGED <<file, order, profile, verdict>>

Profile ==
    /\ table # None /\ profile = None
    /\ profile' = Profiled(table, order)
    /\ UNCHANGED <<file, order, raw, table, verdict, outcome>>

\* assess, and what is refused is removed; the rest becomes a dataset
Judge ==
    /\ profile # None /\ verdict = None
    /\ verdict' = Assessed(profile)
    /\ IF verdict'.says = "refuse" THEN Refuse ELSE outcome' = "stored" /\ UNCHANGED raw
    /\ UNCHANGED <<file, order, table, profile>>

Next == Receive \/ Tabulate \/ Profile \/ Judge
Spec == Init /\ [][Next]_vars

-----------------------------------------------------------------------------
\* what they hand on
DatasetProfile(p) ==
    /\ \A i \in DOMAIN p.columns :
          LET c == p.columns[i] IN
          /\ c.kind \in {"date", "number", "category", "text"}
          /\ c.dateScore > 0 => c.kind = "date"
          /\ c.unreadable >= 0 /\ Len(c.cells) = p.rows
    /\ p.roles \in [DOMAIN p.columns -> {"time", "target", "dimension", "weight", "measure", "ignored"}]
    /\ p.missing >= 0 /\ p.regular \in BOOLEAN
Verdict(v) ==
    /\ v.says \in {"proceed", "confirm", "refuse"}
    /\ v.questions \subseteq {"time", "target", "order", "duplicates", "spacing"}
    /\ v.says = "confirm" <=> v.questions # {}
    /\ v.quarantined >= 0

TypeOK ==
    /\ raw \in BOOLEAN /\ outcome \in {"", "refused", "stored"}
    /\ profile # None => DatasetProfile(profile)
    /\ verdict # None => Verdict(verdict)
    /\ outcome = "refused" => ~raw
    /\ outcome = "stored" => raw /\ verdict # None

\* What could not be read is a lesser part, and counts as missing: what is stored of a cell is a reading of
\* it; a column of the file loses no more than a fifth of what it held, so that neither a column of words
\* becomes a sparse one of numbers nor the other; and the count of what is missing is that of the blanks in
\* what is stored.  Of dates what was lost is told, by the three columns that lost most.  Of numbers it is
\* not: read_tabular has blanked them before the profile counts the unreadable, and they pass for cells that
\* were empty ("could not be read ... is reported as such", README, holds of dates).
LossIsCounted ==
    profile # None =>
        \* a table that was turned has other columns
        /\ Len(profile.columns) = Len(table) => \A i \in DOMAIN table :
              LET c == profile.columns[i]  held == Given(file)[i].cells IN
              /\ c.kind \in {"date", "number"} => Agrees(Filled(c.cells), Filled(held))
              /\ c.kind \in {"category", "text"} => c.cells = held
              /\ \A r \in DOMAIN held :
                    /\ held[r] = None => c.cells[r] = None
                    /\ c.layout \in {"one", "two", "mixed"} /\ c.cells[r] # None =>
                          c.cells[r] \in {OneWay(held[r]), DayFirst(held[r]), MonthFirst(held[r])}
        /\ profile.missing = MapThenSumSet(LAMBDA i : Nulls(profile.columns[i].cells), DOMAIN profile.columns)
        /\ \A i \in DOMAIN profile.columns : profile.columns[i].unreadable > 0 =>
              /\ profile.columns[i].kind = "date"
              /\ \/ <<"unreadable", i>> \in profile.warnings
                 \/ Cardinality({w \in profile.warnings : w[1] = "unreadable"}) = 3

\* "Day/month order is the one guess worth arguing about" (README): the same dates written the other way
\* round, day and month swapped in every cell, are read as the same dates, unless the profile says that
\* it guessed, somebody has said which it is, or cells that did not fit were told of.  One guess is told
\* nowhere: among dates of several layouts (_mixed_formats) those that read two ways are read day first
\* when nothing in the sample settles it, and the column does not say so.
Swapped(c) == IF c # None /\ c[1] = "two" THEN <<"two", c[3], c[2]>> ELSE c
OrderIsTold ==
    profile # None /\ order = "auto" =>
        \A i \in DOMAIN profile.columns :
           LET c == profile.columns[i]
               other == TextDates([r \in DOMAIN c.text |-> Swapped(c.text[r])], "auto")
           IN c.layout \in {"two", "mixed"} =>
                 \/ c.ambiguous /\ <<"order", i>> \in profile.warnings
                 \/ c.layout = "mixed" /\ Resolve(Probe(c.text)).ambiguous
                 \/ c.unreadable > 0
                 \/ other # None /\ other.cells = c.cells

\* A number that shows both separators says what they mean, and the whole column is read by it.
BothIsProof ==
    table # None =>
        \A i \in DOMAIN table :
           LET cells == Given(file)[i].cells
               conforms(c, decimal) == c = None \/ c[1] # "num" \/ c[3] = ""
                                       \/ c[3] = decimal \/ (c[3] \in {",", "."} /\ c[3] # decimal /\ c[4] = 3)
                                       \/ c[3] = (IF decimal = "," THEN ".," ELSE ",.")
           IN \A decimal \in {",", "."} :
                 /\ table[i].type = "number"
                 /\ \A r \in DOMAIN cells : conforms(cells[r], decimal)
                 /\ \E r \in DOMAIN Probe(cells) : Probe(cells)[r][1] = "num" /\ Probe(cells)[r][3] \in {",.", ".,"}
                 => \A r \in DOMAIN cells :
                       cells[r] # None => table[i].cells[r] = Number(cells[r], decimal)

\* What was judged is what was mapped: a dataset that is let through has a time column and another as
\* its target, the ones the verdict was about, no row shares its period and grain with another, and neither
\* its target nor, as far as the profile tells (see OrderIsTold), the order of its dates was guessed.
VerdictHolds ==
    verdict # None /\ verdict.says # "refuse" =>
        /\ verdict.target # None /\ profile.roles[verdict.target] = "target"
        /\ verdict.time # verdict.target
        /\ \E i \in DOMAIN profile.roles : profile.roles[i] = "time" => profile.roles[verdict.time] = "time"
        /\ verdict.says = "proceed" =>
              /\ profile.roles[verdict.time] = "time"
              /\ ~\E w \in profile.warnings : w = <<"order", verdict.time>> \/ w[1] = "guessed"
              /\ \A q, r \in 1..profile.rows :
                    q # r => \/ profile.columns[verdict.time].cells[q] # profile.columns[verdict.time].cells[r]
                             \/ Label(profile, q) # Label(profile, r)
====================================================================================
