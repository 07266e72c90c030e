------------------------------ MODULE MCScheduler ------------------------------
(***************************************************************************)
(* Two pools for TLC, explored one at a time.  In the full one the chunks  *)
(* of a grouped run a compete with a single run b for two workers; in the  *)
(* other there is one worker, and callers that come back for ever.         *)
(***************************************************************************)
EXTENDS Scheduler, TLC

CONSTANTS a, b, a1, a2, a3, b1, f1, f2, g1

MCRun == {a, b}
MCPiece == {a1, a2, a3, b1}
MCRunOf == a1 :> a @@ a2 :> a @@ a3 :> a @@ b1 :> b
MCChunks == Permutations({a1, a2, a3})

FewPiece == {f1, f2, g1}
FewRunOf == f1 :> a @@ f2 :> a @@ g1 :> b

VARIABLES part,
          fewHeld, fewWaiting, fewEarlier, fewAdmitted, fewClosed,
          fewStep, fewCancelling, fewJob, fewAbandoned, fewBroken
few == <<fewHeld, fewWaiting, fewEarlier, fewAdmitted, fewClosed,
         fewStep, fewCancelling, fewJob, fewAbandoned, fewBroken>>

F == INSTANCE Scheduler WITH
        Piece <- FewPiece, RunOf <- FewRunOf, Slots <- 1,
        held <- fewHeld, waiting <- fewWaiting, earlier <- fewEarlier, admitted <- fewAdmitted,
        closed <- fewClosed, step <- fewStep, cancelling <- fewCancelling, job <- fewJob,
        abandoned <- fewAbandoned, broken <- fewBroken

MCInit == Init /\ F!Init /\ part \in {"full", "few"}
MCNext == \/ part = "full" /\ Next /\ UNCHANGED <<part, few>>
          \/ part = "few" /\ F!Next /\ UNCHANGED <<part, vars>>
MCSpec == /\ MCInit /\ [][MCNext]_<<part, vars, few>>
          /\ \A p \in FewPiece : /\ WF_few(part = "few" /\ F!Resume(p))
                                 /\ WF_few(part = "few" /\ F!Pick(p))
                                 /\ WF_few(part = "few" /\ F!Finish(p))
          /\ WF_few(part = "few" /\ F!FinishAbandoned)

\* see Scheduler: every waiter is eventually admitted or thrown out, and a drain that is given the time ends
FewAreServed == F!NoStarvation /\ F!DrainCompletes
================================================================================
