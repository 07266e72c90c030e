---------------------------------- MODULE Backtest ---------------------------------
(***************************************************************************)
(* backtest.py: the folds a history of n periods affords (plan_backtest),  *)
(* and one candidate taken through them (run_backtest).  What a model does *)
(* with a fold is abstracted to whether the fold could be scored.          *)
(***************************************************************************)
EXTENDS Integers, Sequences

CONSTANTS
    Asked,     \* what runs are asked for: n periods of history, the horizon, the season and the
               \* folds, 0 being None
    MaxFolds   \* settings.forecast_max_folds

VARIABLES
    asked,
    cuts,     \* plan.cut_points, latest first, as the loop finds them
    cut,      \* where the loop looks next
    fold,     \* folds gone through, -1 while the plan is being made
    folds,    \* result.folds: the windows of those that were scored, in their order
    verdict   \* result.failed, once there is a result

vars == <<asked, cuts, cut, fold, folds, verdict>>

\* a season of one period is replaced by that of the frequency
Input == [n : Nat, horizon : Nat \ {0}, period : Nat \ {0, 1}, folds : Nat]

AtMost(a, b) == IF a < b THEN a ELSE b
AtLeast(a, b) == IF a > b THEN a ELSE b

Horizon(a) == AtLeast(1, AtMost(a.horizon, AtLeast(1, a.n \div 4)))
InitialUncapped(a) == AtLeast(AtMost(2 * a.period, a.n - Horizon(a)), AtLeast(3, a.n \div 2))
Initial(a) == AtMost(InitialUncapped(a), a.n - Horizon(a))

Affordable(a) == LET spare == a.n - Initial(a) - Horizon(a)
                 IN IF spare < 0 THEN 0 ELSE 1 + spare \div Horizon(a)

\* np.clip(.., MIN_FOLDS, MAX_FOLDS_CEILING)
Limit(a) == AtLeast(1, AtMost(12, IF a.folds > 0 THEN a.folds
                                  ELSE AtLeast(1, AtMost(Affordable(a), MaxFolds))))

\* ROLLING_WINDOW_SEASONS * 2 seasons held
Rolling(a) == a.n >= 8 * a.period

TypeOK ==
    /\ asked \in Input
    /\ cuts \in Seq(Nat) /\ cut \in Int
    /\ fold \in {-1} \cup (0..Len(cuts))
    /\ folds \in Seq([from : Nat, cut : Nat, to : Nat])
    /\ verdict \in {"none", "scored", "failed"}

Init ==
    /\ asked \in {a \in Asked : a \in Input}
    /\ cuts = <<>> /\ cut = asked.n - Horizon(asked)
    /\ fold = -1 /\ folds = <<>> /\ verdict = "none"

-----------------------------------------------------------------------------
(* plan_backtest *)

EarlierByOne == cut - 1
Earlier == cut - Horizon(asked)

Another == Initial(asked) >= 3 /\ cut >= Initial(asked) /\ Len(cuts) < Limit(asked)

Cut ==
    /\ fold = -1 /\ Another
    /\ cuts' = Append(cuts, cut) /\ cut' = Earlier
    /\ UNCHANGED <<asked, fold, folds, verdict>>

\* without a fold there is nothing to go through
Planned ==
    /\ fold = -1 /\ ~Another
    /\ fold' = 0
    /\ verdict' = IF cuts = <<>> THEN "failed" ELSE verdict
    /\ UNCHANGED <<asked, cuts, cut, folds>>

-----------------------------------------------------------------------------
(* run_backtest *)

\* the next fold, of what cut_points.reverse() left first
NextCut == cuts[Len(cuts) - fold]
Window ==
    [from |-> IF Rolling(asked) THEN AtLeast(0, NextCut - Initial(asked)) ELSE 0,
     cut |-> NextCut,
     to |-> AtMost(NextCut + Horizon(asked), asked.n)]

Walking == fold \in 0..(Len(cuts) - 1) /\ verdict = "none"

Score ==
    /\ Walking /\ fold' = fold + 1
    /\ folds' = Append(folds, Window)
    /\ UNCHANGED <<asked, cuts, cut, verdict>>

\* holes in the history, a model that raises, answers too little or diverges
LoseFold ==
    /\ Walking /\ fold' = fold + 1
    /\ UNCHANGED <<asked, cuts, cut, folds, verdict>>

\* MIN_FOLD_SHARE
Judge ==
    /\ fold = Len(cuts) /\ verdict = "none"
    /\ verdict' = IF folds # <<>> /\ 2 * Len(folds) >= Len(cuts) THEN "scored" ELSE "failed"
    /\ UNCHANGED <<asked, cuts, cut, fold, folds>>

Next == Cut \/ Planned \/ Score \/ LoseFold \/ Judge

Spec == Init /\ [][Next]_vars

-----------------------------------------------------------------------------
\* No model is scored on what it was trained on, nor twice on one period: each window begins where
\* its training ends, behind the windows before it and inside the history, and has at least three
\* periods of training and one, but no more than the horizon, of test.
FoldsAreHonest ==
    /\ \A i \in 1..Len(folds) :
          /\ folds[i].from >= 0 /\ folds[i].cut - folds[i].from >= 3
          /\ folds[i].to > folds[i].cut /\ folds[i].to <= asked.n
          /\ folds[i].to - folds[i].cut <= asked.horizon
    /\ \A i, j \in 1..Len(folds) : i < j => folds[i].to <= folds[j].cut
=================================================================================
