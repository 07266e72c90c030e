---------------------------------- MODULE Mapping ----------------------------------
(***************************************************************************)
(* Which column of a stored table is what (app/schema and                  *)
(* mapping_service.py): every column is ranked for every role from its     *)
(* profile (roles.py), the fewest dimensions that keep the rows of a       *)
(* period apart become the keys (keys.py), what was accepted for this      *)
(* export or one like it is preferred to all of that (recall.py,           *)
(* resolve.py), and the table is brought to one row for a series and       *)
(* period (canonical.py).  How a column is profiled is in Reading, how two *)
(* requests meet in Datasets.                                              *)
(***************************************************************************)
EXTENDS Integers, Sequences, FiniteSets, FiniteSetsExt, SequencesExt

CONSTANTS
    None, Null,
    Files,          \* the stored tables, see below
    Norm,           \* normalise: what a name is compared by
    Place,          \* of a name in the alphabet
    Missing,        \* MISSING_KEY
    KeyCandidates, KeyWidth,    \* MAX_KEY_CANDIDATES, MAX_KEY_WIDTH
    MaxConsidered,
    Requests,       \* what people accept: [date, target, keys, covariates, frequency, aggregation]
    MaxAccepts

\* A table is [raw, columns, rows, frequency]: raw names the columns as they are stored and columns are
\* the profiles of them as they are read, the labels in the first rows promoted; a cell of a dimension is
\* a sequence, of the parts its text has between separators.
VARIABLES
    memory,     \* schema_mappings, the last updated first
    file, proposal,
    frame,      \* the canonical frame: what each period of each series may come to
    accepted,   \* history: for each fingerprint what was accepted for it last
    accepts

vars == <<memory, file, proposal, frame, accepted, accepts>>

-----------------------------------------------------------------------------
(* The table. *)
Names(f) == [i \in DOMAIN f.columns |-> f.columns[i].name]
Profile(f, name) == CHOOSE c \in ToSet(f.columns) : c.name = name
At(f, name) == CHOOSE i \in DOMAIN f.columns : f.columns[i].name = name
Column(f, name) == [r \in DOMAIN f.rows |-> f.rows[r][At(f, name)]]
Distinct(f, name) == Cardinality(ToSet(Column(f, name)))
Height(f) == Len(f.rows)

\* schema_fingerprint
Fingerprint(f) == {<<f.raw[i], f.columns[i].dtype>> : i \in DOMAIN f.raw}

Tuple(f, names, r) == [i \in DOMAIN names |-> f.rows[r][At(f, names[i])]]
\* _duplicate_rows, _series_count
Groups(f, names) == {Tuple(f, names, r) : r \in DOMAIN f.rows}
DuplicateRows(f, names) == Height(f) - Cardinality(Groups(f, names))

-----------------------------------------------------------------------------
(* roles.py: the candidates for a role, the best first *)
Ranked(S) ==
    SetToSortSeq(S, LAMBDA a, b : a.confidence > b.confidence
                                  \/ (a.confidence = b.confidence /\ Place[a.column] < Place[b.column]))

\* _monotonic_share, of 100
Ascending(v) ==
    LET known == SelectSeq(v, LAMBDA x : x # Null)
        steps == 1..(Len(known) - 1)
    IN IF steps = {} THEN 100 ELSE (100 * Cardinality({i \in steps : known[i + 1] >= known[i]})) \div Cardinality(steps)

DateCandidates(f) ==
    Ranked({[column |-> c.name,
             confidence |-> Min({100, c.score + Max({0, Ascending(Column(f, c.name)) - 50}) \div 5})] :
              c \in {d \in ToSet(f.columns) : d.kind = "date" /\ d.score >= 50}})

\* a column that tells nearly every row apart and is named like one is an identifier
TargetCandidates(f) ==
    Ranked({[column |-> c.name, confidence |-> c.score] :
              c \in {d \in ToSet(f.columns) :
                       /\ d.kind = "number" /\ d.score >= 40 /\ Distinct(f, d.name) > 1
                       /\ ~(d.id /\ 10 * Distinct(f, d.name) > 9 * Height(f) /\ Null \notin ToSet(Column(f, d.name)))}})
Best(ranked) == IF ranked = <<>> THEN None ELSE ranked[1].column

\* _repeat_share: the values that come at more than one date, of 100
Recurring(f, name, date) ==
    LET values == ToSet(Column(f, name))
        recur == {v \in values :
                    LET rows == {r \in DOMAIN f.rows : f.rows[r][At(f, name)] = v}
                    IN IF date = None THEN Cardinality(rows) > 1
                       ELSE Cardinality({f.rows[r][At(f, date)] : r \in rows}) > 1}
    IN (100 * Cardinality(recur)) \div Cardinality(values)

DimensionCandidates(f) ==
    LET date == Best(DateCandidates(f))
    IN Ranked({[column |-> c.name,
                confidence |-> Min({100, 60 - (40 * Distinct(f, c.name)) \div Height(f)
                                         + Recurring(f, c.name, date) \div 4 + IF c.hint THEN 15 ELSE 0})] :
                 c \in {d \in ToSet(f.columns) :
                          /\ d.kind = "category" /\ Distinct(f, d.name) > 1
                          /\ 2 * Distinct(f, d.name) <= Height(f)}})

CovariateCandidates(f) ==
    Ranked({[column |-> c.name, confidence |-> 450 + 3 * c.score] :
              c \in {d \in ToSet(f.columns) : /\ d.kind = "number" /\ Distinct(f, d.name) > 1
                                              /\ d.name # Best(TargetCandidates(f))}})
Columns(ranked) == [i \in DOMAIN ranked |-> ranked[i].column]

-----------------------------------------------------------------------------
(* keys.py *)
Considered(f) == SubSeq(Columns(DimensionCandidates(f)), 1, Min({KeyCandidates, Len(DimensionCandidates(f))}))

\* _could_separate: so few values cannot tell so many rows apart
CouldSeparateMore(f, date, names) ==
    FoldSeq(LAMBDA n, available : available * Distinct(f, n), Distinct(f, date), names) > Height(f)
CouldSeparate(f, date, names) ==
    FoldSeq(LAMBDA n, available : available * Distinct(f, n), Distinct(f, date), names) >= Height(f)

Before(a, b) == \E i \in DOMAIN a : Place[a[i]] < Place[b[i]] /\ \A j \in 1..(i - 1) : a[j] = b[j]
Subsets(offered, width) == {SelectSeq(offered, LAMBDA n : n \in S) : S \in kSubset(width, ToSet(offered))}
KeysAmong(f, date, offered) ==
    LET combined == DuplicateRows(f, <<date>>)
        exact == [w \in 1..Min({KeyWidth, Len(offered)}) |->
                     {names \in Subsets(offered, w) : CouldSeparate(f, date, names) /\ DuplicateRows(f, <<date>> \o names) = 0}]
        widths == {w \in DOMAIN exact : exact[w] # {}}
        fewest == exact[Min(widths)]
        count(names) == Cardinality(Groups(f, names))
    IN CASE combined = 0 -> <<>>
         [] combined > 0 /\ widths # {} ->
              CHOOSE a \in fewest : \A b \in fewest \ {a} :
                 count(a) < count(b) \/ (count(a) = count(b) /\ Before(a, b))
         [] OTHER -> offered
Keys(f, date) == IF date = None THEN <<>> ELSE KeysAmong(f, date, Considered(f))

\* _determined_by, _contains
Determines(f, names, column) == Cardinality(Groups(f, names)) = Cardinality(Groups(f, Append(names, column)))
\* _lineage, detect_hierarchy
Lineage(f, keys) ==
    LET ancestors == {n \in ToSet(Considered(f)) \ ToSet(keys) : Determines(f, keys, n)}
        ordered == SetToSortSeq(ancestors \cup ToSet(keys),
                       LAMBDA a, b : Distinct(f, a) < Distinct(f, b) \/ (Distinct(f, a) = Distinct(f, b) /\ Place[a] < Place[b]))
    IN IF /\ keys # <<>> /\ Len(ordered) >= 2
          /\ \A i \in 1..(Len(ordered) - 1) : Determines(f, <<ordered[i + 1]>>, ordered[i])
       THEN ordered ELSE <<>>

-----------------------------------------------------------------------------
(* recall.py *)
Similarity(a, b) == [of |-> Cardinality(a \cap b), all |-> Cardinality(a \cup b)]
\* round(score, 3)
Rounded(s) == (2000 * s.of + s.all) \div (2 * s.all)

\* by_name: of two columns with the same normalised name it is the last
Found(f, name) ==
    LET same == {i \in DOMAIN f.raw : Norm[f.raw[i]] = Norm[name]}
    IN IF same = {} THEN None ELSE f.raw[Max(same)]
\* _carry
Carries(f, stored) == Found(f, stored.date) # None /\ Found(f, stored.target) # None
FoundAll(f, names) == SelectSeq([i \in DOMAIN names |-> Found(f, names[i])], LAMBDA n : n # None)
Carried(f, stored, kind, score) ==
    [fields |-> [date |-> Found(f, stored.date), target |-> Found(f, stored.target),
                 keys |-> FoundAll(f, stored.keys), covariates |-> FoundAll(f, stored.covariates),
                 frequency |-> stored.frequency, aggregation |-> stored.aggregation],
     kind |-> kind, similarity |-> score,
     missing |-> {n \in ToSet(stored.keys) \cup ToSet(stored.covariates) : Found(f, n) = None}]

\* recall, as _remembered asks it: the exact one alone when there is one
NormsOf(names) == {Norm[n] : n \in names}
Recall(f, rows) ==
    LET exact == SelectSeq(rows, LAMBDA m : m.print = Fingerprint(f))
        near == SubSeq(rows, 1, Min({MaxConsidered, Len(rows)}))
        present == NormsOf(ToSet(f.raw))
        Better(m, best) ==
            LET s == Similarity(present, NormsOf(m.columns))
            IN IF /\ 10 * s.of >= 6 * s.all /\ Carries(f, m)
                  /\ best = None \/ 1000 * s.of > best.similarity * s.all
               THEN Carried(f, m, IF s.of = s.all THEN "same_columns" ELSE "similar_columns", Rounded(s))
               ELSE best
    IN IF exact # <<>> THEN Carried(f, exact[1], "exact", 1000)
       ELSE FoldLeft(LAMBDA best, m : Better(m, best), None, near)

-----------------------------------------------------------------------------
(* resolve.py *)
Lead(ranked) == ranked[1].confidence - IF Len(ranked) > 1 THEN ranked[2].confidence ELSE 0
Contested(ranked) == Len(ranked) >= 2 /\ Lead(ranked) < 12

\* _confidence, of 1000
Confidence(f, duplicates) ==
    LET ranked == {DateCandidates(f), TargetCandidates(f)}
    IN IF <<>> \in ranked THEN 0
       ELSE (Min({r[1].confidence * (IF Lead(r) >= 12 THEN 100 ELSE 85) : r \in ranked})
             * (IF duplicates > 0 THEN 8 ELSE 10)) \div 100

\* propose, before anything is remembered or overridden
InferredBy(f, date, target, keys, lineage, duplicates, confidence) ==
    LET named == IF lineage = <<>> THEN keys ELSE lineage
    IN [date |-> date, target |-> target, keys |-> named,
        covariates |-> SelectSeq(Columns(CovariateCandidates(f)), LAMBDA n : n \notin {date, target} \cup ToSet(named)),
        frequency |-> IF f.frequency = None THEN "monthly" ELSE f.frequency,
        aggregation |-> CASE target = None -> None
                          [] target # None /\ Profile(f, target).rate -> "mean"
                          [] OTHER -> "sum",
        confidence |-> IF f.frequency = None THEN Min({confidence, 540}) ELSE confidence,
        warnings |-> (IF date = None THEN {"no_date_column"} ELSE {})
                     \cup (IF target = None THEN {"no_target_column"} ELSE {})
                     \cup (IF Contested(DateCandidates(f)) THEN {"contested_date"} ELSE {})
                     \cup (IF Contested(TargetCandidates(f)) THEN {"contested_target"} ELSE {})
                     \cup (IF duplicates > 0 THEN {"duplicate_grain"} ELSE {})
                     \cup (IF f.frequency = None THEN {"frequency_not_inferred"} ELSE {}),
        print |-> Fingerprint(f), hierarchy |-> lineage, source |-> "inferred",
        choice |-> duplicates > 0,
        series |-> IF keys = <<>> THEN 1 ELSE Cardinality(Groups(f, keys))]
Keyed(f, date, target, keys) ==
    LET duplicates == IF date = None THEN 0 ELSE DuplicateRows(f, <<date>> \o keys)
    IN InferredBy(f, date, target, keys, Lineage(f, keys), duplicates, Confidence(f, duplicates))
Dated(f, date, target) == Keyed(f, date, target, Keys(f, date))
Inferred(f) == Dated(f, Best(DateCandidates(f)), Best(TargetCandidates(f)))

Complete(p) == p.date # None /\ p.target # None
Blocking == {"contested_date", "contested_target", "duplicate_grain", "no_date_column", "no_target_column",
             "frequency_not_inferred"}
NeedsConfirmation(p) ==
    \/ ~Complete(p) \/ p.choice
    \/ p.source = "inferred" /\ (p.warnings \cap Blocking # {} \/ p.confidence < 550)

\* apply_override: what is not given stays
Overridden(p, asked, source) ==
    LET q == [p EXCEPT !.date = asked.date, !.target = asked.target,
                       !.keys = asked.keys, !.covariates = asked.covariates,
                       !.frequency = IF asked.frequency = None THEN @ ELSE asked.frequency,
                       !.aggregation = IF asked.aggregation = None THEN @ ELSE asked.aggregation,
                       !.choice = @ /\ asked.aggregation = None, !.source = source]
    IN [q EXCEPT !.confidence = IF Complete(q) THEN 1000 ELSE @]

\* _apply_recall
Recalled(p, remembered) ==
    LET q == Overridden(p, remembered.fields, "remembered")
    IN CASE remembered.kind = "exact" -> q
         [] remembered.kind = "same_columns" -> [q EXCEPT !.warnings = @ \cup {"remembered_across_a_type_change"}]
         [] OTHER -> [q EXCEPT !.confidence = Min({@, remembered.similarity}),
                               !.warnings = @ \cup {"remembered_from_a_similar_file"}
                                            \cup IF remembered.missing = {} THEN {} ELSE {"remembered_columns_missing"}]
Proposed(f, rows) ==
    LET remembered == Recall(f, rows)
    IN IF remembered = None THEN Inferred(f) ELSE Recalled(Inferred(f), remembered)

-----------------------------------------------------------------------------
(* canonical.py *)
\* CanonicalConfig
Valid(p) == Complete(p) /\ p.date # p.target /\ ({p.date, p.target} \cup ToSet(p.keys)) \cap ToSet(p.covariates) = {}
Unknown(p, names) == ({p.date, p.target} \cup ToSet(p.keys) \cup ToSet(p.covariates)) \ names

\* what cannot be read as a date, or as a number, is empty
Cast(f, name, r) == IF Profile(f, name).kind \in {"date", "number"} THEN f.rows[r][At(f, name)] ELSE Null
\* the values of the keys as texts, with the separator between them
Text(f, name, r) ==
    LET value == f.rows[r][At(f, name)]
    IN CASE value = Null -> <<Missing>>
         [] value # Null /\ Profile(f, name).kind = "category" -> value
         [] OTHER -> <<value>>
Identity(f, keys, r) == FoldLeft(LAMBDA whole, n : whole \o Text(f, n, r), <<>>, keys)
\* dt.truncate: here a month has three days
Truncated(day, frequency) == IF frequency = "daily" THEN day ELSE 3 * (day \div 3)

Usable(f, p) == {r \in DOMAIN f.rows : Cast(f, p.date, r) # Null /\ Cast(f, p.target, r) # Null}
Cell(f, p, r) == <<Identity(f, p.keys, r), Truncated(Cast(f, p.date, r), p.frequency)>>
Total(f, p, rows) == MapThenSumSet(LAMBDA r : Cast(f, p.target, r), rows)

\* REDUCERS; the order of rows in the same period is lost in the sort, so the last is any of them
Reduced(f, p, rows) ==
    CASE p.aggregation \in {"sum", None} -> {Total(f, p, rows)}
      [] p.aggregation = "mean" -> {Total(f, p, rows) \div Cardinality(rows)}
      [] p.aggregation = "last" -> {Cast(f, p.target, r) : r \in rows}

\* to_canonical
Canonical(f, p) ==
    [cell \in {Cell(f, p, r) : r \in Usable(f, p)} |->
        Reduced(f, p, {r \in Usable(f, p) : Cell(f, p, r) = cell})]

-----------------------------------------------------------------------------
(* mapping_service.py *)
Init ==
    /\ memory = <<>> /\ file = None /\ proposal = None /\ frame = None
    /\ accepted = <<>> /\ accepts = 0

\* proposal_for
Propose ==
    /\ \E f \in Files : file' = f /\ proposal' = Proposed(f, memory)
    /\ frame' = None
    /\ UNCHANGED <<memory, accepted, accepts>>

\* coverage_for, report_for: from what is proposed now
Cover ==
    /\ proposal # None /\ frame = None
    /\ \E p \in {Proposed(file, memory)} :
          /\ proposal' = p
          /\ frame' = CASE ~Valid(p) -> [refused |-> "invalid"]
                        [] Valid(p) /\ Unknown(p, ToSet(Names(file))) # {} -> [refused |-> "unknown column"]
                        [] OTHER -> [refused |-> None, at |-> Canonical(file, p)]
    /\ UNCHANGED <<memory, file, accepted, accepts>>

\* MappingAcceptRequest: no column in two roles
Disjoint(asked) == Valid(asked)

\* remember: one row for a fingerprint, and it becomes the last updated
Remembered(p, f) ==
    [print |-> p.print, date |-> p.date, target |-> p.target, keys |-> p.keys, covariates |-> p.covariates,
     frequency |-> p.frequency, aggregation |-> p.aggregation, columns |-> ToSet(f.raw)]

\* accept: whatever is remembered is not asked
Accept ==
    /\ accepts < MaxAccepts /\ accepts' = accepts + 1
    /\ proposal # None
    /\ \E asked \in {request \in Requests : Disjoint(request)} :
       \E p \in {Overridden(Inferred(file), asked, "override")} :
          /\ proposal' = p
          /\ IF Unknown(p, ToSet(file.raw)) # {}
             THEN UNCHANGED <<memory, accepted>>
             ELSE /\ memory' = <<Remembered(p, file)>> \o SelectSeq(memory, LAMBDA m : m.print # p.print)
                  /\ accepted' = [k \in DOMAIN accepted \cup {p.print} |->
                                    IF k = p.print THEN asked ELSE accepted[k]]
    /\ frame' = None
    /\ UNCHANGED file

Next == Propose \/ Cover \/ Accept
Spec == Init /\ [][Next]_vars

-----------------------------------------------------------------------------
TypeOK ==
    /\ \A i, j \in DOMAIN memory : memory[i].print = memory[j].print => i = j
    /\ DOMAIN accepted = {memory[i].print : i \in DOMAIN memory}
    /\ proposal # None => proposal.source \in {"inferred", "remembered", "override"} /\ proposal.confidence \in 0..1000
    /\ proposal = None => frame = None

\* what normalise cannot tell apart, a label in the first rows, and a value that holds a separator
\* or says "missing" are outside of what is promised
Told(names) == \A a, b \in names : Norm[a] = Norm[b] => a = b
Plain(f) == f.raw = Names(f) /\ Told(ToSet(f.raw))
Apart(f, keys) ==
    \A r, q \in DOMAIN f.rows : Identity(f, keys, r) = Identity(f, keys, q) => Tuple(f, keys, r) = Tuple(f, keys, q)

\* Keys that nobody was asked about combine no two rows of the table, and are the fewest that do not:
\* neither a smaller number of dimensions nor, of the same number, one with fewer series would. When no
\* dimensions keep the rows apart it is asked how to combine them, and nothing else lets it pass.
KeysKeepRowsApart ==
    proposal # None /\ proposal.source = "inferred" /\ proposal.date # None =>
        LET Parts(S) == DuplicateRows(file, <<proposal.date>> \o SetToSeq(S)) = 0
            ways == {S \in SUBSET ToSet(Considered(file)) : Cardinality(S) <= KeyWidth /\ Parts(S)}
            width == Min({Cardinality(S) : S \in ways})
        IN /\ proposal.choice <=> (ways = {} /\ ~Parts(ToSet(Considered(file))))
           /\ proposal.choice => NeedsConfirmation(proposal)
           /\ ~proposal.choice => Parts(ToSet(proposal.keys))
           /\ ways # {} => proposal.series = Min({Cardinality(Groups(file, SetToSeq(S))) : S \in {T \in ways : Cardinality(T) = width}})
           /\ proposal.series = Cardinality(Groups(file, proposal.keys)) \/ proposal.choice
           /\ \A i \in 1..(Len(proposal.hierarchy) - 1) :
                 Determines(file, <<proposal.hierarchy[i + 1]>>, proposal.hierarchy[i])

\* What somebody accepted for an export is what is proposed the next time it comes, whole, whatever has
\* been accepted for others since; and it is asked about again only where rows share a period and nobody,
\* nor the profile, has ever said how to combine them.
AcceptedComesBack ==
    (proposal # None /\ Fingerprint(file) \in DOMAIN accepted /\ Plain(file)) =>
        LET p == IF proposal.source = "override" THEN Proposed(file, memory) ELSE proposal
            asked == accepted[Fingerprint(file)]
        IN /\ [date |-> p.date, target |-> p.target, keys |-> p.keys, covariates |-> p.covariates]
              = [date |-> asked.date, target |-> asked.target, keys |-> asked.keys, covariates |-> asked.covariates]
           /\ asked.frequency # None => p.frequency = asked.frequency
           /\ asked.aggregation # None => p.aggregation = asked.aggregation
           /\ NeedsConfirmation(p) => p.choice /\ p.aggregation = None

\* A table can be drawn by every complete mapping that is proposed for it, inferred or carried over from
\* another: it names columns the table has, none of them in two roles, and then no row with a date and a
\* figure is lost: what is summed is the sum of them all, and at daily grain keys that keep the rows
\* apart leave each its own period.
ProposalCanBeDrawn ==
    frame # None /\ Plain(file) /\ (\A i \in DOMAIN memory : Told(memory[i].columns)) =>
        IF ~Complete(proposal) THEN frame.refused = "invalid"
        ELSE /\ frame.refused = None
             /\ proposal.aggregation \in {"sum", None} =>
                   MapThenSumSet(LAMBDA cell : Min(frame.at[cell]), DOMAIN frame.at) = Total(file, proposal, Usable(file, proposal))
             /\ (proposal.source = "inferred" /\ ~proposal.choice /\ proposal.frequency = "daily" /\ Apart(file, proposal.keys)) =>
                   Cardinality(DOMAIN frame.at) = Cardinality(Usable(file, proposal))

\* A mapping is only carried over to a table that shares three fifths of the columns, and no more alike
\* one was remembered; a table that was accepted for is given its own.
OnlyAlike ==
    proposal # None /\ proposal.source = "remembered" /\ Plain(file) =>
        \E i \in DOMAIN memory :
            LET s(j) == Similarity(NormsOf(ToSet(file.raw)), NormsOf(memory[j].columns))
            IN /\ 5 * s(i).of >= 3 * s(i).all
               /\ Norm[memory[i].date] = Norm[proposal.date] /\ Norm[memory[i].target] = Norm[proposal.target]
               /\ \A j \in DOMAIN memory : Carries(file, memory[j]) => s(j).of * s(i).all <= s(i).of * s(j).all
====================================================================================
