---------------------------- MODULE CircuitBreaker ----------------------------
(***************************************************************************)
(* class CircuitBreaker of core/breaker.py, as the threads that rewrite    *)
(* insights use it (_apply_rewrite and _call_llm_api of insights/llm.py),  *)
(* beside the probe behind "check the key", which asks for no leave.       *)
(*                                                                         *)
(* Every method holds the lock throughout, so it is one action.  A call to *)
(* the provider is not: what a thread was allowed to do and what it        *)
(* reports about it can lie any number of other threads' reports apart.    *)
(***************************************************************************)
EXTENDS Integers

CONSTANTS
    Caller,     \* the threads
    Threshold,  \* failure_threshold
    Reset,      \* reset_timeout_seconds, in ticks
    Probing     \* whether anybody presses "check the key"

ASSUME BreakerAssumption ==
    /\ Threshold \in Nat \ {0}
    /\ Reset \in Nat \ {0}
    /\ Probing \in BOOLEAN

VARIABLES
    state,     \* _state
    failures,  \* _failures, which counts on; beyond Threshold it tells nothing
    openFor,   \* the age of _opened_at, up to Reset, which is all that matters
    trialFor,  \* the age of _trial_started_at, up to Reset, or None
    call       \* what each thread is out for: a "free" call (the circuit was
               \* closed), the "trial" or a "probe"

breaker == <<state, failures, openFor, trialFor>>
vars == <<breaker, call>>

None == -1

TypeOK ==
    /\ state \in {"closed", "half_open", "open"}
    /\ failures \in 0..Threshold
    /\ openFor \in 0..Reset
    /\ trialFor \in {None} \cup (0..Reset)
    /\ call \in [Caller -> {"idle", "free", "trial", "probe"}]

Init ==
    /\ state = "closed" /\ failures = 0 /\ openFor = 0 /\ trialFor = None
    /\ call = [c \in Caller |-> "idle"]

Goes(c, k) == call' = [call EXCEPT ![c] = k]

\* _transition, as every reader of the state applies it first
Cooled == state = "open" /\ openFor = Reset
Current == IF Cooled THEN "half_open" ELSE state

\* any claim stands for as long as it is reported on
ClaimedForGood == ~Cooled /\ trialFor # None

\* _trial_claimed: a claim older than the cooldown is released
Claimed == ~Cooled /\ trialFor \in 0..(Reset - 1)

\* allows() answers yes to c
Allowed(c) ==
    /\ call[c] = "idle"
    /\ \/ /\ Current = "closed"
          /\ Goes(c, "free")
          /\ UNCHANGED breaker
       \/ /\ Current = "half_open" /\ ~Claimed
          /\ state' = "half_open"
          /\ trialFor' = 0
          /\ Goes(c, "trial")
          /\ UNCHANGED <<failures, openFor>>

\* allows() answers no, or snapshot() looks: only the transition shows
Look ==
    /\ Cooled
    /\ state' = "half_open" /\ trialFor' = None
    /\ UNCHANGED <<failures, openFor, call>>

Probe(c) ==
    /\ Probing /\ call[c] = "idle"
    /\ Goes(c, "probe")
    /\ UNCHANGED breaker

\* record_success: the provider answered, if only to say no
Succeed(c) ==
    /\ call[c] # "idle"
    /\ state' = "closed" /\ failures' = 0 /\ openFor' = 0 /\ trialFor' = None
    /\ Goes(c, "idle")

\* record_failure leaving the claim of the trial that failed
FailKeepsClaim(c) ==
    /\ call[c] # "idle"
    /\ failures' = IF failures < Threshold THEN failures + 1 ELSE failures
    /\ IF state = "half_open" \/ failures' = Threshold
       THEN state' = "open" /\ openFor' = 0
       ELSE UNCHANGED <<state, openFor>>
    /\ Goes(c, "idle")
    /\ UNCHANGED trialFor

\* record_failure: a transport failure
Fail(c) ==
    /\ call[c] # "idle"
    /\ failures' = IF failures < Threshold THEN failures + 1 ELSE failures
    /\ trialFor' = None
    /\ IF state = "half_open" \/ failures' = Threshold
       THEN state' = "open" /\ openFor' = 0
       ELSE UNCHANGED <<state, openFor>>
    /\ Goes(c, "idle")

\* release_trial: there was no key, so no call
HandBack(c) ==
    /\ call[c] \in {"free", "trial"}
    /\ trialFor' = None
    /\ Goes(c, "idle")
    /\ UNCHANGED <<state, failures, openFor>>

\* the thread dies with its process's executor and never reports
Vanish(c) ==
    /\ call[c] # "idle"
    /\ Goes(c, "idle")
    /\ UNCHANGED breaker

Older(age) == IF age \in 0..(Reset - 1) THEN age + 1 ELSE age

Tick ==
    /\ openFor' = IF state = "open" THEN Older(openFor) ELSE openFor
    /\ trialFor' = Older(trialFor)
    /\ <<openFor, trialFor>>' # <<openFor, trialFor>>
    /\ UNCHANGED <<state, failures, call>>

Next ==
    \/ \E c \in Caller : Allowed(c) \/ Probe(c) \/ Succeed(c) \/ Fail(c)
                         \/ HandBack(c) \/ Vanish(c)
    \/ Look \/ Tick

Spec == Init /\ [][Next]_vars

\* time passes
FairSpec == Spec /\ WF_vars(Tick)

-----------------------------------------------------------------------------
(* Properties. *)

\* The circuit is only ever off after Threshold transport failures with no
\* answer between them, whichever threads they came from: a stale report may
\* prolong an outage, and cannot invent one.
OffAfterThreshold == state # "closed" => failures = Threshold

\* A claimed trial belongs to a half-open circuit: no report, however late,
\* leaves a claim behind that would keep the next cooldown's trial away.
ClaimIsCurrent == trialFor # None => state = "half_open"

CouldCall == \/ Current = "closed"
             \/ Current = "half_open" /\ ~Claimed

\* A provider is always tried again: no trial that never reports and no late
\* failure wedges the circuit shut.  Only a probe pushes the next trial away,
\* and a probe is a try itself.
AlwaysTriedAgain == []<>(CouldCall \/ \E c \in Caller : call[c] = "probe")

\* "After a few transport failures calls stop for a cooldown, then one trial
\* decides for everybody": nothing else closes the circuit, a probe apart.
OneTrialDecides ==
    [][state # "closed" /\ state' = "closed" =>
         \E c \in Caller : call[c] \in {"trial", "probe"} /\ call'[c] = "idle"]_vars
===============================================================================
