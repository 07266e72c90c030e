--------------------------------- MODULE Admission --------------------------------
(***************************************************************************)
(* ratelimit.py and ConcurrencyLimitMiddleware: what decides whether a     *)
(* request is answered at all.  A window is kept per caller and rule, for  *)
(* the most recent callers only.                                           *)
(***************************************************************************)
EXTENDS Integers, Sequences, FiniteSets, SequencesExt

CONSTANTS
    Caller,      \* the pairs of identity and rule
    Limit,       \* limit of the rule
    Window,      \* window_seconds, in units of time
    Second,      \* the units of a second
    MaxTracked,  \* max_tracked
    Ceiling,     \* http_concurrency_limit
    MaxTime      \* bound: how long time goes on

VARIABLES
    now,
    seen,     \* _seen: the windows, the least recently used caller first
    inFlight, \* _in_flight
    admitted, \* history: when each caller was last let through since it was last forgotten
    told      \* history: a caller that was refused, and the time it was told to come back at

vars == <<now, seen, inFlight, admitted, told>>

CallersOf(windows) == {windows[i].caller : i \in DOMAIN windows}
Callers == CallersOf(seen)
TypeOK ==
    /\ now \in 0..MaxTime
    /\ Callers \subseteq Caller /\ Len(seen) <= MaxTracked
    /\ inFlight \in 0..Ceiling

Init ==
    /\ now = 0 /\ seen = <<>> /\ inFlight = 0
    /\ admitted = [c \in Caller |-> <<>>] /\ told = <<>>

\* popleft, as long as the oldest is out of the window
Expired(times) ==
    CHOOSE k \in 0..Len(times) : /\ \A i \in 1..k : times[i] <= now - Window
                                 /\ k < Len(times) => times[k + 1] > now - Window
Recent(times) == SubSeq(times, Expired(times) + 1, Len(times))

Place(c) == CHOOSE i \in DOMAIN seen : seen[i].caller = c
TimesOf(c) == IF c \in Callers THEN seen[Place(c)].times ELSE <<>>
Others(c) == IF c \in Callers THEN RemoveAt(seen, Place(c)) ELSE seen

\* no more of the history than a violation needs
LastFew(times) == IF Len(times) > Limit + 1 THEN Tail(times) ELSE times

Pruned(windows) == IF Len(windows) > MaxTracked THEN Tail(windows) ELSE windows

\* Rule.retry_after: whole seconds, and one more
RetryAfterRounded(oldest) == Second * ((oldest + Window - now) \div Second)
RetryAfter(oldest) == Second * ((oldest + Window - now) \div Second + 1)

\* SlidingWindow.check
Refuse(c) ==
    LET times == Recent(TimesOf(c)) IN
    /\ Len(times) >= Limit
    /\ seen' = Append(Others(c), [caller |-> c, times |-> times])
    /\ told' = <<c, now + RetryAfter(Head(times))>>
    /\ UNCHANGED <<now, inFlight, admitted>>

\* ConcurrencyLimitMiddleware comes behind it: a request it sheds has used up its place in the window
Admit(c) ==
    LET times == Recent(TimesOf(c))
        windows == Append(Others(c), [caller |-> c, times |-> Append(times, now)])
        kept == CallersOf(Pruned(windows))
    IN /\ Len(times) < Limit
       /\ inFlight' = IF inFlight >= Ceiling THEN inFlight ELSE inFlight + 1
       /\ seen' = Pruned(windows)
       /\ admitted' = [d \in Caller |-> IF d \notin kept THEN <<>>
                                        ELSE IF d = c THEN LastFew(Append(admitted[d], now)) ELSE admitted[d]]
       /\ told' = IF told # <<>> /\ told[1] = c THEN <<>> ELSE told
       /\ UNCHANGED now

\* the response is sent, or the handler raises
Finish ==
    /\ inFlight > 0 /\ inFlight' = inFlight - 1
    /\ UNCHANGED <<now, seen, admitted, told>>

Tick ==
    /\ now < MaxTime /\ now' = now + 1
    /\ UNCHANGED <<seen, inFlight, admitted, told>>

Next == Finish \/ Tick \/ \E c \in Caller : Refuse(c) \/ Admit(c)

Spec == Init /\ [][Next]_vars

-----------------------------------------------------------------------------
\* A caller the process has not forgotten is never let through more than limit times within a window,
\* wherever the window is laid; and one that is refused and waits as it was told is let through.
InOneWindow(times, t) == {i \in DOMAIN times : times[i] > t - Window /\ times[i] <= t}
LimitIsHonest ==
    /\ \A c \in Caller, t \in 0..MaxTime : Cardinality(InOneWindow(admitted[c], t)) <= Limit
    /\ told # <<>> /\ now >= told[2] => Len(Recent(TimesOf(told[1]))) < Limit
=================================================================================
