-------------------------------- MODULE Hierarchy --------------------------------
(***************************************************************************)
(* A grouped run: the series of its grain, the smallest of them pooled     *)
(* (queries.py), each fitted or not (engine.py), made to add up to the     *)
(* total that was forecast before them (hierarchy.py), stored with their   *)
(* parents (series_service.py) and split again by one of the columns       *)
(* (breakdown_service.py).  Amounts are fractions <<numerator,             *)
(* denominator>>, as the weights are quotients.                            *)
(***************************************************************************)
EXTENDS Integers, Sequences, FiniteSets, FiniteSetsExt

CONSTANTS
    None, Blocked,
    Tables,     \* what the file holds: a function from the key of each series to its history
    Totals,     \* the total path of a run, by step
    MaxSeries,  \* the limits a run may set
    Fits,       \* what fitting a series may give: a path and its band, by step, or Blocked
    Place       \* the place of each part of a key in the order of the database

VARIABLES
    table, total, limit,
    leaves,     \* the series to fit, in order, each with its key, label and history
    fits,       \* by their place: not fitted yet (None), blocked, or a fit
    rows        \* the nodes as they are stored, by path, or None

vars == <<table, total, limit, leaves, fits, rows>>

Others == "Others"
Pooled == "(others)"
Root == <<"Total">>

-----------------------------------------------------------------------------
(* Fractions. *)
Abs(x) == IF x < 0 THEN -x ELSE x
Divisor[a \in Nat, b \in Nat] == IF b = 0 THEN a ELSE Divisor[b, a % b]
Frac(n, d) == LET c == Divisor[Abs(n), Abs(d)] * (IF d < 0 THEN -1 ELSE 1) IN <<n \div c, d \div c>>
Whole(n) == <<n, 1>>
Plus(a, b) == Frac(a[1] * b[2] + b[1] * a[2], a[2] * b[2])
Times(a, n, d) == Frac(a[1] * n, a[2] * d)
Same(a, b) == a[1] * b[2] = b[1] * a[2]
AtMost(a, b) == a[1] * b[2] <= b[1] * a[2]
SumOver(S, f(_)) == FoldSet(LAMBDA x, y : f(x) + y, 0, S)
SumFrac(S, f(_)) == FoldSet(LAMBDA x, y : Plus(f(x), y), Whole(0), S)
Steps == DOMAIN total

-----------------------------------------------------------------------------
(* aggregate_grouped: all but the limit less one are pooled, by what they come to now. *)
Now(key) == table[key][Len(table[key])]
Before(k, l) ==
    \/ Now(k) > Now(l)
    \/ /\ Now(k) = Now(l)
       /\ \E i \in DOMAIN k : Place[k[i]] < Place[l[i]] /\ \A j \in 1..(i - 1) : k[j] = l[j]
Rank(key) == 1 + Cardinality({k \in DOMAIN table : Before(k, key)})
Kept == IF Cardinality(DOMAIN table) <= limit THEN DOMAIN table
        ELSE {key \in DOMAIN table : Rank(key) < limit}
Leaf(key, label, history) == [key |-> key, label |-> label, history |-> history]
PooledHistory(keys) ==
    LET any == CHOOSE k \in keys : TRUE
    IN [t \in DOMAIN table[any] |-> SumOver(keys, LAMBDA k : table[k][t])]

Grouped ==
    LET kept == [i \in 1..Cardinality(Kept) |-> CHOOSE key \in Kept : Rank(key) = i]
        rest == DOMAIN table \ Kept
        head == [i \in DOMAIN kept |-> Leaf(kept[i], kept[i], table[kept[i]])]
    IN IF rest = {} THEN head
       ELSE Append(head, Leaf([i \in DOMAIN kept[1] |-> Pooled], <<Others>>, PooledHistory(rest)))

-----------------------------------------------------------------------------
(* build_tree. *)
Depth == Len(leaves[1].key)
Nodes == UNION {{SubSeq(leaves[i].key, 1, d) : d \in 0..Depth} : i \in DOMAIN leaves}
Parent(p) == SubSeq(p, 1, Len(p) - 1)
Children(p) == {q \in Nodes : Len(q) = Len(p) + 1 /\ Parent(q) = p}
LeafAt(p) == CHOOSE i \in DOMAIN leaves : leaves[i].key = p
LeavesUnder(p) == {i \in DOMAIN leaves : SubSeq(leaves[i].key, 1, Len(p)) = p}
Label(p) == IF p = <<>> THEN Root ELSE IF Len(p) = Depth THEN leaves[LeafAt(p)].label ELSE p

\* what belongs to a series is looked up by its label, of which the last counts
Named(label) == {i \in DOMAIN leaves : leaves[i].label = label}
FitNamed(label) == {i \in Named(label) : fits[i] # Blocked}
BlockedNamed(label) == {i \in Named(label) : fits[i] = Blocked}
Fitted(i) == FitNamed(leaves[i].label) # {}

Current(i) == leaves[i].history[Len(leaves[i].history)]
AllCurrent == SumOver(DOMAIN leaves, LAMBDA i : Abs(Current(i)))
\* _shares, over one denominator
ShareUnit == IF AllCurrent = 0 THEN Len(leaves) ELSE AllCurrent
ShareOf(i) == IF AllCurrent = 0 THEN 1 ELSE Abs(Current(Max(Named(leaves[i].label))))

\* the path of a leaf in units of ShareUnit, and of a node by _roll_up
LeafPath(i, t) == IF Fitted(i) THEN fits[Max(FitNamed(leaves[i].label))].forecast[t] * ShareUnit
                  ELSE total[t] * ShareOf(i)
Path(p, t) == SumOver(LeavesUnder(p), LAMBDA i : LeafPath(i, t))
Weight(p) == SumOver(LeavesUnder(p), ShareOf)

NonNegative == \A i \in DOMAIN leaves : \A t \in DOMAIN leaves[i].history : leaves[i].history[t] >= 0
ClippedNot(x) == x
Clipped(x) == IF NonNegative /\ x < 0 THEN 0 ELSE x

\* reconcile_to_total: the part of its parent a node takes at a step
Part(p, t) ==
    LET family == Children(Parent(p))
        paths == SumOver(family, LAMBDA q : Clipped(Path(q, t)))
        weights == SumOver(family, Weight)
    IN IF paths # 0 THEN <<Clipped(Path(p, t)), paths>>
       ELSE IF weights # 0 THEN <<Weight(p), weights>>
       ELSE <<1, Cardinality(family)>>

\* reconcile_tree
Reconciled ==
    LET down[d \in 0..Depth] ==
          IF d = 0 THEN [p \in {<<>>} |-> [t \in Steps |-> Whole(total[t])]]
          ELSE [p \in {q \in Nodes : Len(q) <= d} |->
                  IF Len(p) < d THEN down[d - 1][p]
                  ELSE [t \in Steps |-> Times(down[d - 1][Parent(p)][t], Part(p, t)[1], Part(p, t)[2])]]
    IN down[Depth]

-----------------------------------------------------------------------------
(* assemble_grouped. *)
\* _rescale_band: the band moves with the path and stretches with it, and goes if it has to
\* stretch to more than twice what it was
Stretchable(fit, path) ==
    LET own == SumOver(Steps, LAMBDA t : fit.forecast[t])
        coherent == SumFrac(Steps, LAMBDA t : path[t])
        stretch == Times(coherent, 1, own)
    IN /\ \E t \in Steps : fit.forecast[t] # 0
       /\ own # 0 => ~AtMost(stretch, Whole(0)) /\ AtMost(stretch, Whole(2))
Rescaled(bound, fit, path) ==
    [t \in Steps |->
       IF fit.forecast[t] = 0 THEN Plus(path[t], Whole(bound[t]))
       ELSE Plus(path[t], Times(path[t], bound[t] - fit.forecast[t], fit.forecast[t]))]
Band(p, bound(_), path) ==
    LET own == FitNamed(Label(p))
    IN IF own = {} THEN None
       ELSE LET fit == fits[Max(own)]
            IN IF Stretchable(fit, path) THEN Rescaled(bound(fit), fit, path) ELSE None

\* walk, and the order persist stores what it gave: one level after another
Opened(p) == Min(LeavesUnder(p))
Below(p, q) == Len(q) < Len(p) /\ SubSeq(p, 1, Len(q)) = q
BranchesAhead(p, q) ==
    \E d \in DOMAIN p \cap DOMAIN q :
       /\ SubSeq(p, 1, d - 1) = SubSeq(q, 1, d - 1)
       /\ Opened(SubSeq(p, 1, d)) < Opened(SubSeq(q, 1, d))
Walked(p, q) == Below(q, p) \/ BranchesAhead(p, q)
StoredAhead(p, q) == Len(p) < Len(q) \/ (Len(p) = Len(q) /\ Walked(p, q))
Namesakes(p) == {q \in Nodes : Label(q) = Label(p)}
LastStored(S) == CHOOSE q \in S : \A p \in S \ {q} : StoredAhead(p, q)

\* _roll_up_actuals: children first, a leaf by its label, and under each label what was visited last
Visited(p, q) == Below(p, q) \/ BranchesAhead(p, q)
Measured(p) ==
    LET last == CHOOSE q \in Namesakes(p) : \A r \in Namesakes(p) \ {q} : Visited(r, q)
    IN SumOver(LeavesUnder(last), LAMBDA i : Current(Max(Named(leaves[i].label))))

\* _attach_parents tells the last of a name whose child it is; the row found under that name is its parent,
\* unless it is of the same level, when it has no id yet
ParentRow(p) ==
    LET row == LastStored({q \in Namesakes(Parent(p)) : StoredAhead(q, p)})
    IN IF p = <<>> \/ (\E q \in Namesakes(p) : Walked(p, q)) THEN None
       ELSE IF Len(row) = Len(p) THEN None ELSE row

\* whose series_id the points of a node are stored with
PointsRow(p) == LastStored(Namesakes(p))

Assembled ==
    LET paths == Reconciled IN
    [p \in Nodes |->
       [label |-> Label(p), parent |-> ParentRow(p), points |-> PointsRow(p), path |-> paths[p],
        lower |-> Band(p, LAMBDA fit : fit.lower, paths[p]),
        upper |-> Band(p, LAMBDA fit : fit.upper, paths[p]),
        measured |-> FitNamed(Label(p)) # {},
        blocked |-> BlockedNamed(Label(p)) # {},
        estimated |-> Len(p) = Depth /\ BlockedNamed(Label(p)) # {},
        current |-> Measured(p)]]

-----------------------------------------------------------------------------
Unread == leaves = <<>> /\ fits = <<>> /\ rows = None
Init == table \in Tables /\ total \in Totals /\ limit \in MaxSeries /\ Unread

Aggregate ==
    /\ leaves = <<>>
    /\ leaves' = Grouped
    /\ fits' = [i \in DOMAIN leaves' |-> None]
    /\ UNCHANGED <<table, total, limit, rows>>

\* fit_leaf, in a chunk that may finish at any time
FitLeaf(i) ==
    /\ fits[i] = None
    /\ \E fit \in Fits : fits' = [fits EXCEPT ![i] = fit]
    /\ UNCHANGED <<table, total, limit, leaves, rows>>

\* finalise and persist
Assemble ==
    /\ leaves # <<>> /\ rows = None /\ \A i \in DOMAIN fits : fits[i] # None
    /\ rows' = Assembled
    /\ UNCHANGED <<table, total, limit, leaves, fits>>

Next == Aggregate \/ (\E i \in DOMAIN fits : FitLeaf(i)) \/ Assemble
Spec == Init /\ [][Next]_vars

-----------------------------------------------------------------------------
(* _from_series: the leaves by one column, the pooled ones left out. *)
Values(column) == {leaves[i].key[column] : i \in DOMAIN leaves} \ {Pooled}
TotalOf(p) == SumFrac(Steps, LAMBDA t : rows[p].path[t])
Breakdown(column) ==
    [v \in Values(column) |->
       SumFrac({i \in DOMAIN leaves : leaves[i].key[column] = v}, LAMBDA i : TotalOf(leaves[i].key))]

LeafFit(fit) ==
    fit = Blocked \/ fit \in [forecast : [Steps -> Int], lower : [Steps -> Int], upper : [Steps -> Int]]

ForecastSeries(p) ==
    /\ rows[p].parent \in Nodes \cup {None} /\ rows[p].points \in Nodes /\ rows[p].current \in Int
    /\ \A t \in Steps : rows[p].path[t][2] > 0
    /\ rows[p].estimated => rows[p].blocked

TypeOK ==
    /\ \A i \in DOMAIN leaves : Len(leaves[i].key) = Depth /\ Cardinality(DOMAIN leaves) <= limit
    /\ \A i \in DOMAIN fits : fits[i] = None \/ LeafFit(fits[i])
    /\ rows # None => \A p \in DOMAIN rows : ForecastSeries(p)

LabelsDiffer == \A p, q \in Nodes : Label(p) = Label(q) => p = q

\* Whatever was fitted, pooled or blocked: the series under a node add up to it at every step, also
\* through two levels; none is negative when no history and no total is, and a band that was kept then
\* holds the path it was moved with at each step the fit had above zero; a breakdown by any column,
\* with what was pooled, adds up to the total of the run; and, unless one series is called what another
\* or the whole is called, each node has the actuals of its own series, its own points and its own
\* parent, and only what could not be fitted is called an estimate.
HierarchyAddsUp ==
    rows # None =>
    /\ \A p \in Nodes : Children(p) # {} =>
          \A t \in Steps : Same(SumFrac(Children(p), LAMBDA q : rows[q].path[t]), rows[p].path[t])
    /\ NonNegative /\ (\A t \in Steps : total[t] >= 0) =>
          \A p \in Nodes, t \in Steps :
             /\ rows[p].path[t][1] >= 0
             /\ rows[p].lower # None /\ fits[Max(FitNamed(Label(p)))].forecast[t] >= 0 =>
                  /\ AtMost(rows[p].lower[t], rows[p].path[t])
                  /\ AtMost(rows[p].path[t], rows[p].upper[t])
    /\ \A column \in 1..Depth :
          LET others == {i \in DOMAIN leaves : leaves[i].key[column] = Pooled} IN
          Same(Plus(SumFrac(Values(column), LAMBDA v : Breakdown(column)[v]),
                    SumFrac(others, LAMBDA i : TotalOf(leaves[i].key))),
               TotalOf(<<>>))
    /\ LabelsDiffer => \A p \in Nodes :
          /\ rows[p].current = SumOver(LeavesUnder(p), Current)
          /\ rows[p].points = p /\ (p # <<>> => rows[p].parent = Parent(p))
          /\ rows[p].estimated <=> Len(p) = Depth /\ ~Fitted(LeafAt(p))
=================================================================================
