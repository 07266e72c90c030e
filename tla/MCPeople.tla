--------------------------------- MODULE MCPeople ---------------------------------
(***************************************************************************)
(* People and their mail for TLC.  The outbox starts from rows that are    *)
(* committed, whoever queued them: it has a scene of its own, in which     *)
(* nobody asks for anything.                                               *)
(***************************************************************************)
EXTENDS Access, TLC

CONSTANTS ann, bob, cy, MailMessage, MailSender, MailAttempts, MailBatch, MailFaults

ASSUME MailSizes == IsFiniteSet(MailMessage) /\ MailAttempts \in Nat \ {0} /\ MailBatch \in Nat

VARIABLES box, pass, sending, tries, delivered, excused, mailFaults
mail == <<box, pass, sending, tries, delivered, excused, mailFaults>>

O == INSTANCE Outbox WITH Message <- MailMessage, Sender <- MailSender, MaxAttempts <- MailAttempts,
                          Batch <- MailBatch, MaxFaults <- MailFaults, faults <- mailFaults

MCPerson == {ann, bob, cy}
MCFounders == {ann, bob}

Accounts == {{ann}, {bob}, {cy}, {bob, cy}}
Scene(acting, about, waiting, watching, requests_, faults_) ==
    [acting |-> acting, about |-> about, waiting |-> waiting, watching |-> watching,
     requests |-> requests_, faults |-> faults_]
Postbox == Scene({}, {}, {}, {}, 0, 0)
MCScenes == {Scene({ann, bob}, Accounts, {cy}, {}, 2, 1),
             Scene({ann}, {{cy}}, {}, {cy}, 2, 0),
             Scene({ann}, {{cy}, {bob, cy}}, {}, {cy}, 1, 1),
             Postbox}

MCInit == Init /\ O!Init /\ (scene = Postbox => configured = {})
MCNext == \/ Next /\ UNCHANGED mail
          \/ scene = Postbox /\ O!Next /\ UNCHANGED vars
MCSpec == MCInit /\ [][MCNext]_<<vars, mail>> /\ Fairness /\ O!Fairness

\* see Access: an administrator remains unless two requests took each other for one or came between, and
\* every loss of access is on record
AccessIsKept == AdministratorsRemain /\ LossIsAudited

\* the states of both parts have their types, and, see Outbox: a mail is sent once unless that went
\* unnoticed, and given up only after every attempt
OneMailEach == TypeOK /\ O!TypeOK /\ O!OneMailEach

\* see Outbox: every queued mail comes to be sent or given up
EveryMailEnds == O!EveryMailEnds
================================================================================
