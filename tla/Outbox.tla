---------------------------------- MODULE Outbox ----------------------------------
(***************************************************************************)
(* mailer.py and mail_sender.py: every process passes over the outbox,     *)
(* hands what is due to the mail server and commits row by row.  A pass    *)
(* works on the rows as it loaded them, takes no lock on them, and writes  *)
(* the columns it assigned.                                                *)
(***************************************************************************)
EXTENDS Integers, FiniteSets, FiniteSetsExt

CONSTANTS
    Message,     \* the rows of mail_outbox
    Sender,      \* the processes, each with its MailSender
    MaxAttempts, \* MAX_ATTEMPTS
    Batch,       \* BATCH
    MaxFaults    \* bound: passes cut short, commits that fail, answers that are lost

VARIABLES
    box,       \* the committed row of each message
    pass,      \* what each sender has still to do of its pass: the attempts it read, per message
    sending,   \* the message each sender is handing over, and what came of it
    tries,     \* history: how often a message was handed over
    delivered, \* history: how often the mail server took it
    excused,   \* history: messages taken without that being known, or loaded by two passes
    faults

row == <<box, pass, sending>>
history == <<tries, delivered, excused>>
vars == <<row, history, faults>>

NoRow == [status |-> "none", attempts |-> 0, due |-> FALSE]
Nothing == [m \in {} |-> 0]
Resting == <<>>

TypeOK ==
    /\ box \in [Message -> [status : {"none", "pending", "sent", "failed"},
                            attempts : 0..MaxAttempts, due : BOOLEAN]]
    /\ \A s \in Sender : /\ DOMAIN pass[s] \subseteq Message
                         /\ Cardinality(DOMAIN pass[s]) <= Batch
                         /\ sending[s] # Resting => sending[s][1] \in DOMAIN pass[s]
    /\ excused \subseteq Message

Init ==
    /\ box = [m \in Message |-> NoRow]
    /\ pass = [s \in Sender |-> Nothing] /\ sending = [s \in Sender |-> Resting]
    /\ tries = [m \in Message |-> 0] /\ delivered = [m \in Message |-> 0]
    /\ excused = {} /\ faults = 0

\* queue, when the transaction that asked for the mail commits
Queue(m) ==
    /\ box[m].status = "none"
    /\ box' = [box EXCEPT ![m] = [status |-> "pending", attempts |-> 0, due |-> TRUE]]
    /\ UNCHANGED <<pass, sending, history, faults>>

\* the wait of BACKOFF_SECONDS is over
Wait(m) ==
    /\ box[m].status = "pending" /\ ~box[m].due
    /\ box' = [box EXCEPT ![m].due = TRUE]
    /\ UNCHANGED <<pass, sending, history, faults>>

Due == {m \in Message : box[m].status = "pending" /\ box[m].due}
Held(s) == UNION {DOMAIN pass[q] : q \in Sender \ {s}}

\* one SELECT; the rows keep the values it read
Load(s) ==
    /\ pass[s] = Nothing /\ sending[s] = Resting /\ Due # {}
    /\ \E batch \in kSubset(IF Cardinality(Due) < Batch THEN Cardinality(Due) ELSE Batch, Due) :
          /\ pass' = [pass EXCEPT ![s] = [m \in batch |-> box[m].attempts]]
          /\ excused' = excused \cup (batch \cap Held(s))
    /\ UNCHANGED <<box, sending, tries, delivered, faults>>

\* the histories count no further than the properties tell apart
UpTo(bound, n) == IF n < bound THEN n ELSE bound

\* _deliver: the server may take the mail and the answer be lost
Hand(s, m, outcome) ==
    /\ m \in DOMAIN pass[s] /\ sending[s] = Resting
    /\ outcome = "unknown" => faults < MaxFaults
    /\ sending' = [sending EXCEPT ![s] = <<m, IF outcome = "taken" THEN "sent" ELSE "error">>]
    /\ tries' = [tries EXCEPT ![m] = UpTo(MaxAttempts, @ + 1)]
    /\ delivered' = IF outcome = "refused" THEN delivered ELSE [delivered EXCEPT ![m] = UpTo(2, @ + 1)]
    /\ excused' = IF outcome = "unknown" THEN excused \cup {m} ELSE excused
    /\ faults' = IF outcome = "unknown" THEN faults + 1 ELSE faults
    /\ UNCHANGED <<box, pass>>

SentLater(now, attempts) == [now EXCEPT !.attempts = attempts]
Sent(now, attempts) == [now EXCEPT !.status = "sent", !.attempts = attempts]

RetriedForEver(now, attempts) == [now EXCEPT !.due = FALSE]
Retried(now, attempts) ==
    IF attempts >= MaxAttempts THEN [now EXCEPT !.attempts = attempts, !.status = "failed"]
                               ELSE [now EXCEPT !.attempts = attempts, !.due = FALSE]

Rest(s, m) ==
    /\ pass' = [pass EXCEPT ![s] = [q \in DOMAIN pass[s] \ {m} |-> pass[s][q]]]
    /\ sending' = [sending EXCEPT ![s] = Resting]

\* the commit after each message
Record(s) ==
    /\ sending[s] # Resting
    /\ LET m == sending[s][1]  attempts == pass[s][m] + 1
       IN /\ box' = [box EXCEPT ![m] = IF sending[s][2] = "sent" THEN Sent(@, attempts)
                                                                ELSE Retried(@, attempts)]
          /\ Rest(s, m)
    /\ UNCHANGED <<history, faults>>

\* a process that stops, or a commit that fails, ends the pass; what was handed over is not recorded
Abandon(s) ==
    /\ pass[s] # Nothing /\ faults < MaxFaults
    /\ faults' = faults + 1
    /\ pass' = [pass EXCEPT ![s] = Nothing] /\ sending' = [sending EXCEPT ![s] = Resting]
    /\ excused' = IF sending[s] = Resting THEN excused ELSE excused \cup {sending[s][1]}
    /\ UNCHANGED <<box, tries, delivered>>

Go(s) == \/ Load(s) \/ Record(s)
         \/ \E m \in Message, outcome \in {"taken", "refused", "unknown"} : Hand(s, m, outcome)

Next ==
    \/ \E m \in Message : Queue(m) \/ Wait(m)
    \/ \E s \in Sender : Go(s) \/ Abandon(s)

\* each sender passes every INTERVAL_SECONDS, and time goes by
Fairness == /\ \A s \in Sender : WF_vars(Go(s))
            /\ \A m \in Message : WF_vars(Wait(m))

Spec == Init /\ [][Next]_vars /\ Fairness

-----------------------------------------------------------------------------
\* Nobody is written to twice, unless the server took a mail and that was not recorded, or two
\* processes had loaded the row, which nothing prevents; and a message is given up only when it
\* has been handed over MAX_ATTEMPTS times, though two passes can count an attempt as one.
SentOnce == \A m \in Message : delivered[m] > 1 => m \in excused
TriedEnough == \A m \in Message : box[m].status = "failed" => tries[m] >= MaxAttempts
OneMailEach == SentOnce /\ TriedEnough

\* Whatever the mail server answers, and though passes overlap and are cut short, every mail that
\* was queued comes to be sent or given up.
EveryMailEnds == \A m \in Message : box[m].status = "pending" ~> box[m].status \in {"sent", "failed"}
=================================================================================
