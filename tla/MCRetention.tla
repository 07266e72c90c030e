------------------------------ MODULE MCRetention ------------------------------
(***************************************************************************)
(* How long a run stays and how well it did, for TLC: three runs of which  *)
(* the newest is kept, and two passes that can overlap; and two runs, of   *)
(* two periods and of the second of them, scored against four files.       *)
(* Explored one at a time.                                                 *)
(***************************************************************************)
EXTENDS Retention, TLC

CONSTANTS hourly, byhand, Scored, Horizon, Predicted, File, Reach, Total, MaxScorings

MCRun == 1..3
MCPass == {hourly, byhand}
MCOnePass == {hourly}
MCSymmetry == Permutations(MCPass)

VARIABLES part, card, actual, readings, scoring, clock, answered, met
scores == <<card, actual, readings, scoring, clock, answered, met>>

\* two runs, of two periods and of the second of them; the first file completes nothing, the second one
\* period, and the last has no rows for the first and restates the second
MCHorizon == <<{1, 2}, {2}>>
MCPredicted == <<<<1, 2>>, <<1, 1>>>>
MCReach == <<0, 1, 2, 2>>
MCTotal == <<<<9, 9>>, <<1, 9>>, <<1, 2>>, 2 :> 1>>

ASSUME ScoringAssumption == \A r \in Scored : IsFiniteSet(Horizon[r])

G == INSTANCE Scoring WITH Run <- Scored, row <- card

MCInit == Init /\ G!Init /\ part \in {"kept", "scored"}
MCNext == \/ part = "kept" /\ Next /\ UNCHANGED <<part, scores>>
          \/ part = "scored" /\ G!Next /\ UNCHANGED <<part, vars>>
MCSpec == MCInit /\ [][MCNext]_<<part, vars, scores>>

\* see Scoring: a run's card is that of one file, one measured against figures of its file that were
\* restated since says so, and an unchanged number makes no revision
CardsAreHonest == part = "scored" => G!TypeOK /\ G!CardIsOfOneFile /\ G!RestatementsAreTold
================================================================================
