---------------------------------- MODULE Scoring ---------------------------------
(***************************************************************************)
(* scoring_service.py and actuals_service.py: runs of one dataset graded   *)
(* against files that have since arrived.  Each scoring is a transaction   *)
(* (READ COMMITTED, and no version on a run's row); what it changes is     *)
(* written column by column, and a column given its own value is not       *)
(* written at all.                                                         *)
(***************************************************************************)
EXTENDS Integers, Sequences, FiniteSets, Functions

CONSTANTS
    Run,         \* completed runs of the dataset
    Horizon,     \* Horizon[r]: the periods it forecast, a set of numbers
    Predicted,   \* Predicted[r][p]: the forecast of its top line
    File,        \* the datasets it may be graded against
    Reach,       \* Reach[f]: the last period the file completes
    Total,       \* Total[f]: what it says of the periods it has rows for
    MaxScorings  \* bound: scorings that are begun

VARIABLES
    row,       \* the scorecard columns of a run's row
    actual,    \* actual of a run's points, Unread while there is none
    readings,  \* ActualObservation: the history of what was read
    scoring,   \* the transactions, in the order they began
    clock,
    answered,  \* history: what the last scoring of a run answered
    met        \* history: the pairs of scorings that were open at one time

vars == <<row, actual, readings, scoring, clock, answered, met>>

None == 0
Unread == -1
Period == UNION {Horizon[r] : r \in Run}
Distance(a, b) == IF a > b THEN a - b ELSE b - a

NoCard == [source |-> None, periods |-> 0, miss |-> 0, scoredAt |-> 0]

Settled(r, f) == {p \in Horizon[r] : p <= Reach[f]}
Misses(r, figure) == SumFunction([p \in DOMAIN figure |-> Distance(Predicted[r][p], figure[p])])

\* totals.get(period, 0.0): a settled period without rows is graded as nothing sold
Figure(f, p) == IF p \in DOMAIN Total[f] THEN Total[f][p] ELSE 0
Said(f, periods) == [p \in periods |-> Figure(f, p)]

TypeOK ==
    /\ \A r \in Run : /\ row[r].source \in File \cup {None} /\ row[r].periods \in 0..Cardinality(Horizon[r])
                      /\ row[r].miss \in {0} \cup {Misses(r, Said(f, Settled(r, f))) : f \in File}
                      /\ row[r].scoredAt \in 0..clock
                      /\ DOMAIN actual[r] = Horizon[r]
    /\ \A o \in readings : o.period \in Period /\ o.source \in File /\ o.revisedAt \in 1..clock
    /\ \A i \in DOMAIN scoring : scoring[i].phase \in {"graded", "recorded", "stored", "over"}

Init ==
    /\ row = [r \in Run |-> NoCard]
    /\ actual = [r \in Run |-> [p \in Horizon[r] |-> Unread]]
    /\ readings = {} /\ scoring = <<>> /\ clock = 0
    /\ answered = [r \in Run |-> <<>>] /\ met = {}

Open == {i \in DOMAIN scoring : scoring[i].phase # "over"}

-----------------------------------------------------------------------------
(* score_run *)

\* _score_top_line
Card(r, f, at) ==
    [source |-> f, periods |-> Cardinality(Settled(r, f)), miss |-> Misses(r, Said(f, Settled(r, f))),
     scoredAt |-> at]
Computed(r, f) ==
    [forecast |-> SumFunctionOnSet(Predicted[r], Settled(r, f)), actual |-> SumFunction(Said(f, Settled(r, f)))]

\* the columns that differ from what was loaded, and the rows they lock until the end: 0 is the run's
Touched(s) == {p \in s.settled : Figure(s.file, p) # s.loaded[p]}
Locks(s) == CASE s.phase = "graded" -> {}
              [] s.phase = "recorded" -> Touched(s)
              [] s.phase = "stored" -> Touched(s) \cup {0}
              [] OTHER -> {}
Waits(i, rows) == \E j \in Open : /\ j # i /\ scoring[j].run = scoring[i].run
                                  /\ Locks(scoring[j]) \cap rows # {}

\* the run and its points are loaded, the file is read, and the points are graded in memory
Begin(r, f) ==
    /\ Len(scoring) < MaxScorings
    /\ clock' = clock + 1
    /\ scoring' = Append(scoring,
          [run |-> r, file |-> f, phase |-> "graded", settled |-> Settled(r, f),
           loaded |-> actual[r], card |-> row[r], stamp |-> clock + 1, new |-> {}, scoredAt |-> 0])
    /\ met' = met \cup {{i, Len(scoring) + 1} : i \in Open}
    /\ UNCHANGED <<row, actual, readings, answered>>

\* actuals_service.current
InForceAt(p, stamp) ==
    LET known == {o \in readings : o.period = p /\ o.revisedAt <= stamp}
    IN IF known = {} THEN Unread
       ELSE (CHOOSE o \in known : \A other \in known : other.revisedAt <= o.revisedAt).value

\* _record_observations makes readings of the periods that have rows; record: the query flushes the
\* points first
Carried(f, periods) == periods \cap DOMAIN Total[f]
ChangedFirst(s) == {p \in Carried(s.file, s.settled) : InForceAt(p, s.stamp) = Unread}
Changed(s) == {p \in Carried(s.file, s.settled) : InForceAt(p, s.stamp) # Figure(s.file, p)}
Record(i) ==
    LET s == scoring[i]
        new == {[period |-> p, value |-> Figure(s.file, p), revisedAt |-> s.stamp, source |-> s.file,
                 by |-> i] : p \in Changed(s)}
    IN /\ s.phase = "graded" /\ ~Waits(i, Touched(s))
       /\ scoring' = [scoring EXCEPT ![i].phase = "recorded", ![i].new = new]
       /\ UNCHANGED <<row, actual, readings, clock, answered, met>>

\* _store; a file that settles nothing comes here at once
Store(i) ==
    /\ scoring[i].phase = "recorded" /\ ~Waits(i, {0})
    /\ clock' = clock + 1
    /\ scoring' = [scoring EXCEPT ![i].phase = "stored", ![i].scoredAt = clock']
    /\ UNCHANGED <<row, actual, readings, answered, met>>

GradedOnce(s) == {p \in Touched(s) : s.loaded[p] = Unread}
Graded(s) == Touched(s)
ScoredAt(s) == s.scoredAt
Flushed(new, loaded, now) == [c \in DOMAIN now |-> IF new[c] # loaded[c] THEN new[c] ELSE now[c]]
Commit(i) ==
    LET s == scoring[i]  r == s.run
    IN /\ s.phase = "stored"
       /\ row' = [row EXCEPT ![r] = Flushed(Card(r, s.file, ScoredAt(s)), s.card, @)]
       /\ actual' = [actual EXCEPT ![r] = [p \in Horizon[r] |-> IF p \in Graded(s) THEN Figure(s.file, p) ELSE @[p]]]
       /\ readings' = readings \cup s.new
       /\ answered' = [answered EXCEPT ![r] = <<i, Computed(r, s.file)>>]
       /\ scoring' = [scoring EXCEPT ![i].phase = "over", ![i].new = {}]
       /\ UNCHANGED <<clock, met>>

\* the request is given up, or the process stops
Abort(i) ==
    /\ i \in Open
    /\ scoring' = [scoring EXCEPT ![i].phase = "over", ![i].new = {}]
    /\ UNCHANGED <<row, actual, readings, clock, answered, met>>

Next ==
    \/ \E r \in Run, f \in File : Begin(r, f)
    \/ \E i \in DOMAIN scoring : Record(i) \/ Store(i) \/ Commit(i) \/ Abort(i)

Spec == Init /\ [][Next]_vars

-----------------------------------------------------------------------------
(* stored_scorecard *)

ReadBack(r) ==
    [forecast |-> SumFunctionOnSet(Predicted[r], Horizon[r]), actual |-> SumFunctionOnSet(actual[r], {p \in Horizon[r] : actual[r][p] # Unread})]
RestatedSince(r) == {o \in readings : o.revisedAt > row[r].scoredAt}
InForce(p) == InForceAt(p, clock)

Apart(r) == ~ \E i \in DOMAIN scoring : {answered[r][1], i} \in met
ApartFromItsOwn(r) == ~ \E i \in DOMAIN scoring : scoring[i].run = r /\ {answered[r][1], i} \in met

\* A run's card is that of one file: the periods it counts as scored carry what the file it names says
\* of them, or 0 where that has no row, and its error is the error of those; however often it was scored before, against longer and
\* shorter files, unless two scorings of the run overlapped, which can leave the columns of both.
CardIsOfOneFile ==
    \A r \in Run : answered[r] # <<>> /\ ApartFromItsOwn(r) /\ row[r].periods > 0 =>
        /\ row[r].periods = Cardinality(Settled(r, row[r].source))
        /\ \A p \in Settled(r, row[r].source) : actual[r][p] = Figure(row[r].source, p)
        /\ row[r].miss = Misses(r, [p \in Settled(r, row[r].source) |-> actual[r][p]])

\* Whoever scored what: a card that was measured against figures no longer in force says so, unless a
\* scoring of the dataset overlapped the one it is from.  Figures are what its file had rows for: a
\* period without rows is graded as 0 and recorded nowhere, so that what another file said of it stays
\* in force beside that 0, and nothing tells.
SupersededIsTold ==
    \A r \in Run :
        /\ answered[r] # <<>> /\ Apart(r) /\ row[r].periods > 0
        /\ \E p \in Carried(row[r].source, Settled(r, row[r].source)) : actual[r][p] # InForce(p)
        => RestatedSince(r) # {}

\* An unchanged number makes no revision: of two readings of a period that follow each other the later
\* one says something else, unless the scorings that wrote them overlapped.
RevisionsRevise ==
    \A o, next \in readings :
        /\ o.period = next.period /\ o.revisedAt < next.revisedAt
        /\ ~ \E m \in readings : m.period = o.period /\ m.revisedAt \in o.revisedAt + 1 .. next.revisedAt - 1
        => o.value # next.value \/ {o.by, next.by} \in met

RestatementsAreTold == SupersededIsTold /\ RevisionsRevise

\* test_scoring.py: reading a scorecard back gives what computing it gave.
ReadBackAgrees ==
    \A r \in Run : answered[r] # <<>> /\ ApartFromItsOwn(r) /\ row[r].periods > 0 =>
        ReadBack(r) = answered[r][2]
=================================================================================
