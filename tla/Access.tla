---------------------------------- MODULE Access ----------------------------------
(***************************************************************************)
(* user_service.py, routes/auth.py, broadcast.py and the browser's         *)
(* use-access-stream.ts: administrators decide who may come in, each in a  *)
(* transaction of its own that reads what others have committed, and the   *)
(* screens of the people concerned learn of it through a stream of topics. *)
(***************************************************************************)
EXTENDS Integers, FiniteSets, FiniteSetsExt

CONSTANTS
    Person,      \* the addresses; whoever signs in with one is its subject
    Founders,    \* the administrators at the start
    Watcher,     \* those who may have the application open
    Scenes,      \* bounds: who makes requests, about whom and how many, who waits and watches, the faults
    Remote,      \* the watchers whose stream is on another process
    QueueLimit   \* QUEUE_LIMIT of a subscriber

ASSUME AccessSizes ==
    /\ IsFiniteSet(Person) /\ Founders \subseteq Person /\ Founders # Person
    /\ Watcher \subseteq Person /\ QueueLimit \in Nat
    /\ \A s \in Scenes : s.about \subseteq SUBSET Person

VARIABLES
    scene,      \* one of Scenes
    configured, \* AUTH_ADMIN_EMAILS
    people,     \* the committed table app_users, by address
    nextId,     \* the next identifier of a row
    work,       \* the request each person has under way
    audit,      \* the committed rows of access_audit, as pairs <<what, whom>>
    outbox,     \* the committed rows of mail_outbox, as pairs <<what, to whom>>
    stream,     \* the event stream of each watcher
    wire,       \* topics published for other processes and not yet received
    due,        \* the watchers whose queries have been invalidated
    view,       \* what each watcher was last told
    requests, faults

deployment == <<scene, configured>>
table == <<people, nextId, audit, outbox>>
screens == <<stream, wire, due, view>>
bounds == <<requests, faults>>
vars == <<deployment, table, work, screens, bounds>>

NoRow == [id |-> 0]
Row == [id : Nat \ {0}, status : {"pending", "approved", "rejected"},
        role : {"admin", "member"}, subject : {"none", "known"}]

\* a column a transaction has not assigned another value than it read
Same == "same"
Untouched == [row |-> Same, status |-> Same, role |-> Same, subject |-> Same]

\* the topic of the list of people, beside those of a row
People == 0

Idle == [op |-> "none"]
Bulk == {"approve", "reject", "remove"}
Operation == Bulk \cup {"promote", "demote", "invite"}
Closed == [phase |-> "closed"]

TypeOK ==
    /\ configured \subseteq Person
    /\ people \in [Person -> Row \cup {NoRow}] /\ nextId \in Nat
    /\ \A p \in Person : work[p] # Idle =>
          /\ work[p].op \in Operation \cup {"signin"}
          /\ work[p].todo \subseteq Person
          /\ DOMAIN work[p].writes = Person
    /\ audit \subseteq Operation \X Person
    /\ outbox \subseteq {"received", "approved"} \X Person
    /\ \A p \in Watcher : stream[p] # Closed =>
          stream[p].topics \subseteq 0..nextId /\ stream[p].queued \in 0..QueueLimit
    /\ wire \subseteq 0..nextId
    /\ due \subseteq Watcher

Written(row, w, id) ==
    CASE w.row = "gone" -> NoRow
      [] w.row = "new"  -> [id |-> id, status |-> w.status, role |-> w.role, subject |-> w.subject]
      [] w.row \notin {"gone", "new"} /\ row = NoRow -> NoRow
      [] OTHER -> [row EXCEPT !.status = IF w.status = Same THEN @ ELSE w.status,
                              !.role = IF w.role = Same THEN @ ELSE w.role,
                              !.subject = IF w.subject = Same THEN @ ELSE w.subject]

\* what a statement of a's transaction reads: what is committed, and its own writes
Seen(a) == [p \in Person |-> Written(people[p], work[a].writes[p], work[a].id)]

Approved(table_, p) == table_[p] # NoRow /\ table_[p].status = "approved"
Administrators(table_) == {p \in Person : Approved(table_, p) /\ table_[p].role = "admin"}

\* is_admin, for the row its subject has
IsAdmin(table_, p) ==
    \/ p \in configured
    \/ table_[p] # NoRow /\ table_[p].subject = "known" /\ table_[p].role = "admin"

Identifier == CHOOSE i \in [Person -> 1..Cardinality(Person)] :
                 \A p, q \in Person : i[p] = i[q] => p = q
Account(p, status, role) ==
    [id |-> Identifier[p], status |-> status, role |-> role, subject |-> "known"]

Init ==
    /\ scene \in Scenes
    /\ configured \in {{}, {CHOOSE p \in Person : p \notin Founders}}
    /\ people = [p \in Person |->
                   CASE p \in Founders -> Account(p, "approved", "admin")
                     [] p \in scene.waiting -> Account(p, "pending", "member")
                     [] OTHER -> NoRow]
    /\ nextId = Cardinality(Person) + 1
    /\ work = [p \in Person |-> Idle]
    /\ audit = {} /\ outbox = {}
    /\ stream = [p \in Watcher |-> Closed] /\ wire = {}
    /\ due = {} /\ view = [p \in Watcher |-> NoRow]
    /\ requests = 0 /\ faults = 0

-----------------------------------------------------------------------------
(* broadcast: a topic reaches the queues of this process at once.  For the *)
(* other processes it is sent and may be lost; a full queue drops it.      *)

Wakes(topics, p) == /\ stream[p] # Closed /\ stream[p].phase = "open"
                    /\ stream[p].topics \cap topics # {}

Put(topics, to) ==
    [p \in Watcher |->
        IF p \in to /\ Wakes(topics, p) /\ stream[p].queued < QueueLimit
        THEN [stream[p] EXCEPT !.queued = @ + 1] ELSE stream[p]]

Announce(topics) ==
    /\ stream' = Put(topics, Watcher \ Remote)
    /\ wire' = IF Remote = {} THEN wire ELSE wire \cup topics

Receive(topic) ==
    /\ topic \in wire
    /\ wire' = wire \ {topic}
    /\ stream' \in {Put({topic}, Remote), stream}
    /\ UNCHANGED <<deployment, table, work, due, view, bounds>>

-----------------------------------------------------------------------------
(* A request: its reads, one target after the other, and its commit.       *)

Start(a, op, targets) ==
    [op |-> op, todo |-> targets, many |-> Cardinality(targets) > 1, target |-> a, was |-> <<>>,
     id |-> 0, writes |-> [p \in Person |-> Untouched], audit |-> {}, mail |-> {}, raced |-> FALSE]

\* _assert_admin
Request(a, op, targets) ==
    /\ a \in scene.acting /\ work[a] = Idle /\ requests < scene.requests
    /\ IsAdmin(people, a)
    /\ targets # {} /\ (Cardinality(targets) > 1 => op \in Bulk)
    /\ requests' = requests + 1
    /\ work' = [work EXCEPT ![a] = Start(a, op, targets)]
    /\ UNCHANGED <<deployment, table, screens, faults>>


\* the actor's own account, which a decision about several skips and one about it alone refuses
OwnAccount(a, t) ==
    /\ t = a /\ people[t] # NoRow /\ people[t].subject = "known"
    /\ work[a].many \/ work[a].op \in {"reject", "demote", "remove"}

\* _target, and the reads of resolve and invite
Look(a, t) ==
    /\ work[a] # Idle /\ t \in work[a].todo /\ work[a].was = <<>>
    /\ LET row == Seen(a)[t]
           skipped == \/ row = NoRow /\ work[a].op \notin {"invite", "signin"}
                      \/ OwnAccount(a, t)
       IN work' = [work EXCEPT ![a].todo = @ \ {t},
                               ![a].target = t,
                               ![a].was = IF skipped THEN <<>> ELSE <<row>>]
    /\ UNCHANGED <<deployment, table, screens, bounds>>

RefusedUncounted(a) == work[a].op \in {"reject", "demote", "remove"} /\ work[a].target \in configured

\* LastAdminError
Refused(a) ==
    LET t == work[a].target  alone == Cardinality(Administrators(Seen(a))) <= 1 IN
    CASE work[a].op = "reject" -> t \in configured
      [] work[a].op = "demote" -> t \in configured \/ alone
      [] work[a].op = "remove" -> t \in configured \/ (work[a].was[1].role = "admin" /\ alone)
      [] OTHER -> FALSE

\* a column that is assigned the value it had is not written
Column(was, new) == IF was = new THEN Same ELSE new

NewRow(status, role, subject) ==
    [row |-> "new", status |-> status, role |-> role, subject |-> subject]
Change(row, status, role, subject) ==
    [row |-> Same, status |-> Column(row.status, status), role |-> Column(row.role, role),
     subject |-> Column(row.subject, subject)]

\* what set_status, set_role, remove, invite and resolve assign
Write(op, t, row) ==
    CASE op = "approve" -> Change(row, "approved", row.role, row.subject)
      [] op = "reject"  -> Change(row, "rejected", row.role, row.subject)
      [] op = "promote" -> Change(row, "approved", "admin", row.subject)
      [] op = "demote"  -> Change(row, row.status, "member", row.subject)
      [] op = "remove"  -> [Untouched EXCEPT !.row = "gone"]
      [] op = "invite" /\ row = NoRow -> NewRow("approved", "member", "none")
      [] op = "invite" /\ row # NoRow -> Change(row, "approved", row.role, row.subject)
      [] op = "signin" /\ row = NoRow ->
            IF t \in configured THEN NewRow("approved", "admin", "known")
                                ELSE NewRow("pending", "member", "known")
      [] op = "signin" /\ row # NoRow ->
            IF t \in configured THEN Change(row, "approved", "admin", "known")
                                ELSE Change(row, row.status, row.role, "known")

NotableIfKnown(op, row, w) ==
    CASE op \in {"approve", "reject"} -> w.status # Same /\ row.status # "pending"
      [] op \in {"promote", "demote"} -> w.role # Same
      [] op = "signin" -> w.row = "new" /\ w.status = "pending"
      [] OTHER -> TRUE

\* a decision that changes nothing the reader saw is neither recorded nor announced
Notable(op, row, w) ==
    CASE op \in {"approve", "reject"} -> w.status # Same
      [] op \in {"promote", "demote"} -> w.role # Same
      [] op = "signin" -> w.row = "new" /\ w.status = "pending"
      [] OTHER -> TRUE

Mail(op, t, w) ==
    CASE op = "approve" /\ w.status # Same -> {<<"approved", t>>}
      [] op = "invite" -> {<<"approved", t>>}
      [] op = "signin" /\ w.row = "new" /\ w.status = "pending" -> {<<"received", t>>}
      [] OTHER -> {}

Skip(a) ==
    /\ work[a] # Idle /\ work[a].was # <<>> /\ Refused(a)
    /\ work' = [work EXCEPT ![a].was = <<>>]
    /\ UNCHANGED <<deployment, table, screens, bounds>>

\* the row a statement writes stays locked until its transaction ends
Locked(a, t) == \E b \in Person \ {a} : work[b] # Idle /\ work[b].writes[t] # Untouched

\* the row read is still there, or still is not
Current(a) == LET t == work[a].target  row == work[a].was[1] IN Seen(a)[t].id = row.id

\* the flush, and the announcement that follows it
Act(a) ==
    LET op == work[a].op  t == work[a].target  row == work[a].was[1]  w == Write(op, t, row)
        id == IF w.row = "new" THEN nextId ELSE row.id
        noted == Notable(op, row, w)
    IN /\ work[a] # Idle /\ work[a].was # <<>> /\ ~Refused(a)
       /\ ~Locked(a, t) /\ Current(a)
       /\ nextId' = IF w.row = "new" THEN nextId + 1 ELSE nextId
       /\ LET now == [work[a] EXCEPT !.was = <<>>, !.id = IF w.row = "new" THEN id ELSE @,
                                     !.writes[t] = w,
                                     !.audit = IF noted /\ op # "signin" THEN @ \cup {<<op, t>>} ELSE @,
                                     !.mail = @ \cup Mail(op, t, w)]
          IN work' = [work EXCEPT ![a] = now]
       /\ IF noted THEN Announce({id, People}) ELSE UNCHANGED <<stream, wire>>
       /\ UNCHANGED <<deployment, people, audit, outbox, due, view, bounds>>

Finished(a) == work[a] # Idle /\ work[a].todo = {} /\ work[a].was = <<>>

\* history: what a request that counts the administrators may have counted without
Upset(before, after) == ~(before \subseteq after) \/ (before = {} /\ after # {})

\* get_session commits when the handler has returned
Commit(a) ==
    /\ Finished(a)
    /\ people' = Seen(a)
    /\ audit' = audit \cup work[a].audit
    /\ outbox' = outbox \cup work[a].mail
    /\ LET upset == Upset(Administrators(people), Administrators(Seen(a)))
       IN work' = [b \in Person |->
                     IF b = a THEN Idle
                     ELSE IF upset /\ work[b].op \in {"demote", "remove"} THEN [work[b] EXCEPT !.raced = TRUE] ELSE work[b]]
    /\ view' = IF work[a].op = "signin" THEN [view EXCEPT ![a] = Seen(a)[a]] ELSE view
    /\ UNCHANGED <<deployment, nextId, stream, wire, due, bounds>>

Faulty == faults < scene.faults

Undo(a) ==
    /\ work' = [work EXCEPT ![a] = Idle]
    /\ UNCHANGED <<deployment, table, screens>>

\* the row was taken by another sign-in, or deleted: the flush fails
Stale(a) ==
    /\ work[a] # Idle /\ work[a].was # <<>> /\ ~Refused(a) /\ ~Locked(a, work[a].target)
    /\ ~Current(a)
    /\ Undo(a) /\ UNCHANGED bounds

\* statement_timeout ends a wait for a lock, and with it a deadlock
TimeOut(a) ==
    /\ work[a] # Idle /\ work[a].was # <<>> /\ ~Refused(a) /\ Locked(a, work[a].target)
    /\ Undo(a) /\ UNCHANGED bounds

Fault(a) ==
    /\ work[a] # Idle /\ Faulty
    /\ faults' = faults + 1
    /\ Undo(a) /\ UNCHANGED requests

-----------------------------------------------------------------------------
(* resolve, each time the browser asks who it is. *)

Due(p) == p \in due /\ work[p] = Idle

\* an account that is known is only read
Refresh(p) ==
    /\ Due(p) /\ people[p] # NoRow /\ Write("signin", p, people[p]) = Untouched
    /\ due' = due \ {p}
    /\ view' = [view EXCEPT ![p] = people[p]]
    /\ UNCHANGED <<deployment, table, work, stream, wire, bounds>>

SignIn(p) ==
    /\ Due(p) /\ (people[p] # NoRow => Write("signin", p, people[p]) # Untouched)
    /\ due' = due \ {p}
    /\ work' = [work EXCEPT ![p] = Start(p, "signin", {p})]
    /\ UNCHANGED <<deployment, table, stream, wire, view, bounds>>

Fetch(p) == Refresh(p) \/ SignIn(p)

-----------------------------------------------------------------------------
(* The stream: its topics are read once, then it subscribes and says sync. *)

Topics(p) == (IF people[p] # NoRow /\ people[p].subject = "known" THEN {people[p].id} ELSE {})
             \cup (IF people[p] # NoRow /\ IsAdmin(people, p) THEN {People} ELSE {})

Open(p) ==
    /\ p \in scene.watching /\ stream[p] = Closed
    /\ stream' = [stream EXCEPT ![p] = [phase |-> "opening", topics |-> Topics(p), queued |-> 0]]
    /\ UNCHANGED <<deployment, table, work, wire, due, view, bounds>>

SubscribeQuietly(p) ==
    /\ stream[p] # Closed /\ stream[p].phase = "opening"
    /\ stream' = [stream EXCEPT ![p].phase = "open"]
    /\ UNCHANGED <<deployment, table, work, wire, due, view, bounds>>

Subscribe(p) ==
    /\ stream[p] # Closed /\ stream[p].phase = "opening"
    /\ stream' = [stream EXCEPT ![p].phase = "open"]
    /\ due' = due \cup {p}
    /\ UNCHANGED <<deployment, table, work, wire, view, bounds>>

Hear(p) ==
    /\ stream[p] # Closed /\ stream[p].queued > 0
    /\ stream' = [stream EXCEPT ![p].queued = @ - 1]
    /\ due' = due \cup {p}
    /\ UNCHANGED <<deployment, table, work, wire, view, bounds>>

\* the deadline, or a restart of the process
Close(p) ==
    /\ stream[p] # Closed /\ stream[p].phase = "open"
    /\ stream' = [stream EXCEPT ![p] = Closed]
    /\ UNCHANGED <<deployment, table, work, wire, due, view, bounds>>

\* a connection that breaks before the response has begun
Break(p) ==
    /\ stream[p] # Closed /\ stream[p].phase = "opening" /\ Faulty
    /\ faults' = faults + 1
    /\ stream' = [stream EXCEPT ![p] = Closed]
    /\ UNCHANGED <<deployment, table, work, wire, due, view, requests>>

-----------------------------------------------------------------------------
Step(a) == \/ \E t \in Person : Look(a, t)
           \/ Skip(a) \/ Act(a) \/ Commit(a) \/ Stale(a) \/ TimeOut(a)

Browse(p) == Open(p) \/ Subscribe(p) \/ Hear(p)

Next ==
    \/ \E a \in Person : Step(a) \/ Fault(a)
    \/ \E a \in Person, op \in Operation, targets \in scene.about : Request(a, op, targets)
    \/ \E p \in Watcher : Fetch(p) \/ Browse(p) \/ Close(p) \/ Break(p)
    \/ \E topic \in wire : Receive(topic)

\* a handler runs on, a browser acts on what it hears, and a stream meets its deadline
Fairness ==
    /\ \A a \in Person : WF_vars(Step(a))
    /\ \A p \in Watcher : WF_vars(Browse(p)) /\ WF_vars(Fetch(p)) /\ WF_vars(Close(p))

Spec == Init /\ [][Next]_vars /\ Fairness

-----------------------------------------------------------------------------
Ends(a) == work[a] # Idle /\ work'[a] = Idle

\* set_role and remove look for another administrator before they take one away: the last one
\* goes only by a refusal, which looks for nobody, or when another request took one away, or made
\* the first there is, while this one was under way.
AdministratorsRemain ==
    [][Administrators(people) # {} /\ Administrators(people') = {} =>
         \E a \in Person : Ends(a) /\ (work[a].raced \/ work[a].op = "reject")]_vars

\* read_audit is "the only place that can answer why somebody lost access": a loss of access or of
\* the administrator's role is committed together with a row that says who it happened to, though
\* the request that caused it may have read an older state of the account.
LossIsAudited ==
    [][\A p \in Person :
         \/ Approved(people, p) /\ ~Approved(people', p)
         \/ p \in Administrators(people) \ Administrators(people')
         => \E a \in Person : Ends(a) /\ \E op \in {"reject", "demote", "remove"} :
                                 <<op, p>> \in work[a].audit /\ <<op, p>> \in audit']_vars

\* An announcement precedes the commit it is about, may be lost between processes, and names a row
\* the person may no longer have: still every open application comes to show what is committed,
\* because a stream ends at its deadline and the next one starts with sync.
AccessIsSeen == \A p \in Watcher : []<>(p \in scene.watching => view[p] = people[p])
=================================================================================
