------------------------------ MODULE PeopleProofs ------------------------------
(***************************************************************************)
(* Theorems about Access and Outbox, for any number of people, requests,   *)
(* messages, senders and faults.  The argument:                            *)
(*  - a row that a transaction has written is locked, so no other one      *)
(*    changes it before the commit, and what a commit takes from somebody  *)
(*    it has written into the audit when it decided to;                    *)
(*  - a request that took an administrator away counted another one that   *)
(*    it leaves, and as long as no commit of another request took one away *)
(*    or made the first, that one is there to stay;                        *)
(*  - a message that was not excused is in one pass at most, which loaded  *)
(*    it while it was pending and not yet delivered, and the attempts a    *)
(*    pass counts never exceed those that were made.                       *)
(***************************************************************************)
EXTENDS MCPeople, Sequences, FunctionTheorems, FiniteSetTheorems, TLAPS

-----------------------------------------------------------------------------
(* Access: the shape of what a request has under way. *)

Maybe == Row \cup {NoRow}

Assigned == [row : {Same, "gone", "new"}, status : {Same, "pending", "approved", "rejected"},
             role : {Same, "admin", "member"}, subject : {Same, "none", "known"}]

Busy == [op : Operation \cup {"signin"}, todo : SUBSET Person, many : BOOLEAN, target : Person,
         was : Seq(Maybe), id : Nat, writes : [Person -> Assigned],
         audit : SUBSET (Operation \X Person), mail : SUBSET ({"received", "approved"} \X Person),
         raced : BOOLEAN]

Listening == [phase : {"opening", "open"}, topics : SUBSET (0..nextId), queued : 0..QueueLimit]

\* every variable that a step reads has its type
Typed ==
    /\ scene \in Scenes /\ configured \subseteq Person
    /\ people \in [Person -> Maybe] /\ nextId \in Nat \ {0}
    /\ work \in [Person -> Busy \cup {Idle}]
    /\ audit \subseteq Operation \X Person
    /\ outbox \subseteq {"received", "approved"} \X Person
    /\ stream \in [Watcher -> Listening \cup {Closed}]
    /\ wire \subseteq 0..nextId /\ due \subseteq Watcher

\* identifiers are given out once
Numbered ==
    /\ \A p \in Person : people[p].id < nextId
    /\ \A a \in Person : work[a] # Idle =>
          /\ work[a].id < nextId
          /\ work[a].was # <<>> => work[a].was[1].id < nextId

\* only an invitation and a sign-in go on from an account that is not there
Fits(a) ==
    work[a].was # <<>> /\ work[a].was[1] = NoRow => work[a].op \in {"invite", "signin"}

\* what a request has written says what it is, and a loss is in its audit
Deeds(a) ==
    \A p \in Person : LET w == work[a].writes[p] IN
       /\ w.row = "new" => /\ people[p] = NoRow /\ work[a].op \in {"invite", "signin"}
                           /\ w.status # Same /\ w.role # Same /\ w.subject # Same /\ work[a].id # 0
       /\ w.row = "gone" => work[a].op = "remove" /\ <<"remove", p>> \in work[a].audit
       /\ w.row = Same /\ w.status \in {"pending", "rejected"} =>
             w.status = "rejected" /\ work[a].op = "reject" /\ <<"reject", p>> \in work[a].audit
       /\ w.row = Same /\ w.role = "member" =>
             work[a].op = "demote" /\ <<"demote", p>> \in work[a].audit

\* a request that counted the administrators leaves one
Counted(a) ==
    ~work[a].raced /\ work[a].op \in {"demote", "remove"} /\ Administrators(people) # {} =>
       /\ Administrators(Seen(a)) # {}
       /\ work[a].op = "remove" /\ work[a].was # <<>> /\ work[a].was[1].role # "admin" =>
             Administrators(Seen(a)) \ {work[a].target} # {}

Locks == \A a, b \in Person : a # b /\ work[a] # Idle /\ work[b] # Idle =>
            \A p \in Person : work[a].writes[p] = Untouched \/ work[b].writes[p] = Untouched

AccessInv ==
    /\ Typed /\ Numbered /\ Locks
    /\ \A a \in Person : work[a] # Idle => Fits(a) /\ Deeds(a) /\ Counted(a)

-----------------------------------------------------------------------------
(* What the operators of a request return. *)

\* A request's deeds stay what they are while it writes no more and nobody makes the account it makes.
LEMMA DeedsKept ==
  ASSUME NEW c \in Person, Deeds(c),
         work'[c].writes = work[c].writes, work'[c].op = work[c].op,
         work'[c].id = work[c].id, work'[c].audit = work[c].audit,
         \A p \in Person : work[c].writes[p].row = "new" => people'[p] = people[p]
  PROVE  Deeds(c)'
<1> SUFFICES ASSUME NEW p \in Person
             PROVE  LET w == work'[c].writes[p] IN
                    /\ w.row = "new" => /\ people'[p] = NoRow /\ work'[c].op \in {"invite", "signin"}
                                        /\ w.status # Same /\ w.role # Same /\ w.subject # Same /\ work'[c].id # 0
                    /\ w.row = "gone" => work'[c].op = "remove" /\ <<"remove", p>> \in work'[c].audit
                    /\ w.row = Same /\ w.status \in {"pending", "rejected"} =>
                          w.status = "rejected" /\ work'[c].op = "reject" /\ <<"reject", p>> \in work'[c].audit
                    /\ w.row = Same /\ w.role = "member" =>
                          work'[c].op = "demote" /\ <<"demote", p>> \in work'[c].audit
  BY DEF Deeds
<1> DEFINE w == work[c].writes[p]
<1>1. /\ w.row = "new" => /\ people[p] = NoRow /\ work[c].op \in {"invite", "signin"}
                          /\ w.status # Same /\ w.role # Same /\ w.subject # Same /\ work[c].id # 0
      /\ w.row = "gone" => work[c].op = "remove" /\ <<"remove", p>> \in work[c].audit
      /\ w.row = Same /\ w.status \in {"pending", "rejected"} =>
            w.status = "rejected" /\ work[c].op = "reject" /\ <<"reject", p>> \in work[c].audit
      /\ w.row = Same /\ w.role = "member" => work[c].op = "demote" /\ <<"demote", p>> \in work[c].audit
  BY DEF Deeds
<1> QED BY <1>1

\* A request under way is told from one that is not.
LEMMA BusyApart == \A b \in Busy : b # Idle
BY DEF Busy, Idle, Operation, Bulk

\* No row is no row.
LEMMA NoRowApart == /\ NoRow \notin Row /\ NoRow.id = 0
                    /\ \A r \in Row : r # NoRow /\ r.id \in Nat \ {0}
BY DEF NoRow, Row

\* What a decision writes has its type, and says which decision it was.
LEMMA WriteSays ==
  ASSUME NEW op \in Operation \cup {"signin"}, NEW t \in Person, NEW row \in Maybe,
         row = NoRow => op \in {"invite", "signin"}
  PROVE  /\ Write(op, t, row) \in Assigned
         /\ Write(op, t, row).row = "new" =>
               /\ row = NoRow /\ op \in {"invite", "signin"}
               /\ Write(op, t, row).status # Same /\ Write(op, t, row).role # Same
               /\ Write(op, t, row).subject # Same
         /\ Write(op, t, row).row = "gone" => op = "remove"
         /\ Write(op, t, row).row = Same /\ Write(op, t, row).status \in {"pending", "rejected"} =>
               op = "reject" /\ Write(op, t, row).status = "rejected" /\ Notable(op, row, Write(op, t, row))
         /\ Write(op, t, row).row = Same /\ Write(op, t, row).role = "member" =>
               op = "demote" /\ Notable(op, row, Write(op, t, row))
<1>0. op \in {"approve", "reject", "remove", "promote", "demote", "invite", "signin"}
  BY DEF Operation, Bulk
<1>1. CASE row = NoRow /\ op = "invite"
  BY <1>1 DEF Write, NewRow, Assigned, Same
<1>2. CASE row = NoRow /\ op = "signin"
  BY <1>2 DEF Write, NewRow, Assigned, Same
<1>3. CASE row # NoRow
  <2>1. row \in Row
    BY <1>3 DEF Maybe
  <2>2. CASE op = "approve"
    BY <2>1, <2>2 DEF Write, Change, Column, Assigned, Same, Row
  <2>3. CASE op = "reject"
    BY <2>1, <2>3 DEF Write, Change, Column, Assigned, Same, Row, Notable
  <2>4. CASE op = "promote"
    BY <2>1, <2>4 DEF Write, Change, Column, Assigned, Same, Row
  <2>5. CASE op = "demote"
    BY <2>1, <2>5 DEF Write, Change, Column, Assigned, Same, Row, Notable
  <2>6. CASE op = "remove"
    BY <2>6 DEF Write, Untouched, Assigned, Same
  <2>7. CASE op = "invite"
    BY <1>3, <2>1, <2>7 DEF Write, Change, Column, Assigned, Same, Row
  <2>8. CASE op = "signin"
    BY <1>3, <2>1, <2>8 DEF Write, Change, Column, Assigned, Same, Row
  <2> QED BY <1>0, <2>2, <2>3, <2>4, <2>5, <2>6, <2>7, <2>8
<1> QED BY <1>1, <1>2, <1>3

\* A row with what a transaction has assigned it is a row.
LEMMA WrittenTyped ==
  ASSUME NEW row \in Maybe, NEW w \in Assigned, NEW id \in Nat,
         w.row = "new" => w.status # Same /\ w.role # Same /\ w.subject # Same /\ id # 0
  PROVE  /\ Written(row, w, id) \in Maybe
         /\ Written(row, w, id).id = IF w.row = "gone" THEN 0 ELSE IF w.row = "new" THEN id ELSE row.id
         /\ w = Untouched => Written(row, w, id) = row
<1>1. CASE w.row = "gone"
  BY <1>1 DEF Written, Maybe, NoRow, Assigned, Untouched, Same
<1>2. CASE w.row = "new"
  BY <1>2 DEF Written, Maybe, Assigned, Same, Row, Untouched
<1>3. CASE w.row = Same /\ row = NoRow
  BY <1>3 DEF Written, Maybe, Same, NoRow
<1>4. CASE w.row = Same /\ row # NoRow
  <2>1. row \in Row
    BY <1>4 DEF Maybe
  <2>2. Written(row, w, id) = [row EXCEPT !.status = IF w.status = Same THEN @ ELSE w.status,
                                          !.role = IF w.role = Same THEN @ ELSE w.role,
                                          !.subject = IF w.subject = Same THEN @ ELSE w.subject]
    BY <1>4 DEF Written, Same
  <2>3. Written(row, w, id) \in Row /\ Written(row, w, id).id = row.id
    BY <2>1, <2>2 DEF Row, Assigned, Same
  <2>4. w = Untouched => Written(row, w, id) = row
    <3> SUFFICES ASSUME w = Untouched PROVE Written(row, w, id) = row
      OBVIOUS
    <3>1. w.status = Same /\ w.role = Same /\ w.subject = Same
      BY DEF Untouched
    <3>2. Written(row, w, id) = [row EXCEPT !.status = @, !.role = @, !.subject = @]
      BY <2>2, <3>1
    <3> QED BY <2>1, <3>2 DEF Row
  <2> QED BY <1>4, <2>3, <2>4 DEF Maybe, Same
<1> QED BY <1>1, <1>2, <1>3, <1>4 DEF Assigned

\* The transaction's view of the table has the table's type, and is the table
\* wherever the transaction has written nothing.
LEMMA SeenTyped ==
  ASSUME Typed, NEW a \in Person, work[a] # Idle, Deeds(a)
  PROVE  /\ Seen(a) \in [Person -> Maybe]
         /\ \A p \in Person :
               /\ Seen(a)[p] = Written(people[p], work[a].writes[p], work[a].id)
               /\ Seen(a)[p].id \in {0, work[a].id, people[p].id}
               /\ work[a].writes[p] = Untouched => Seen(a)[p] = people[p]
<1>1. work[a] \in Busy
  BY DEF Typed
<1>2. ASSUME NEW p \in Person
      PROVE  /\ Written(people[p], work[a].writes[p], work[a].id) \in Maybe
             /\ Written(people[p], work[a].writes[p], work[a].id).id \in {0, work[a].id, people[p].id}
             /\ work[a].writes[p] = Untouched =>
                   Written(people[p], work[a].writes[p], work[a].id) = people[p]
  <2>1. /\ people[p] \in Maybe /\ work[a].writes[p] \in Assigned /\ work[a].id \in Nat
    BY <1>1 DEF Typed, Busy
  <2>2. LET w == work[a].writes[p] IN w.row = "new" =>
           w.status # Same /\ w.role # Same /\ w.subject # Same /\ work[a].id # 0
    BY DEF Deeds
  <2> QED BY <2>1, <2>2, WrittenTyped
<1> QED BY <1>2 DEF Seen

-----------------------------------------------------------------------------
(* Access: the initial states. *)

LEMMA AccessInitInv == Init => AccessInv
<1> SUFFICES ASSUME Init PROVE AccessInv
  OBVIOUS
<1>1. Cardinality(Person) \in Nat
  BY FS_CardinalityType, AccessSizes
<1>2. \A p \in Person : Identifier[p] \in 1..Cardinality(Person)
  <2> DEFINE n == Cardinality(Person)
  <2>1. PICK f : f \in Injection(Person, 1..n)
    <3>1. ExistsBijection(1..n, Person)
      BY FS_CardinalityType, AccessSizes
    <3>2. ExistsBijection(Person, 1..n)
      BY <3>1, Fun_ExistsBijSymmetric
    <3> QED BY <3>2 DEF ExistsBijection, Bijection
  <2>2. \E i \in [Person -> 1..n] : \A p, q \in Person : i[p] = i[q] => p = q
    BY <2>1 DEF Injection, IsInjective
  <2> QED BY <2>2 DEF Identifier
<1>3. configured \subseteq Person
  <2>1. (CHOOSE p \in Person : p \notin Founders) \in Person
    BY AccessSizes
  <2> QED BY <2>1 DEF Init
<1>4. \A p \in Person : people[p] \in Maybe /\ people[p].id < nextId
  <2> SUFFICES ASSUME NEW p \in Person PROVE people[p] \in Maybe /\ people[p].id < nextId
    OBVIOUS
  <2>1. CASE p \in Founders
    BY <1>1, <1>2, <2>1 DEF Init, Account, Maybe, Row
  <2>2. CASE p \notin Founders /\ p \in scene.waiting
    BY <1>1, <1>2, <2>2 DEF Init, Account, Maybe, Row
  <2>3. CASE p \notin Founders /\ p \notin scene.waiting
    BY <1>1, <2>3 DEF Init, Maybe, NoRow
  <2> QED BY <2>1, <2>2, <2>3
<1>5. \A p \in Person : work[p] = Idle
  BY DEF Init
<1>6. Typed
  <2>1. people \in [Person -> Maybe] /\ nextId \in Nat \ {0}
    BY <1>1, <1>4 DEF Init
  <2>2. work \in [Person -> Busy \cup {Idle}] /\ stream \in [Watcher -> Listening \cup {Closed}]
    BY DEF Init
  <2> QED BY <1>3, <2>1, <2>2 DEF Init, Typed
<1> QED BY <1>4, <1>5, <1>6 DEF AccessInv, Numbered, Locks

-----------------------------------------------------------------------------
(* Access: the steps, by what they touch. *)

\* A stream that is put something keeps its type.
LEMMA PutTyped ==
  ASSUME Typed, NEW topics, NEW to
  PROVE  Put(topics, to) \in [Watcher -> Listening \cup {Closed}]
<1> SUFFICES ASSUME NEW p \in Watcher, Wakes(topics, p), stream[p].queued < QueueLimit
             PROVE  [stream[p] EXCEPT !.queued = @ + 1] \in Listening
  BY DEF Put, Typed
<1>1. stream[p] \in Listening
  BY DEF Typed, Wakes
<1> QED BY <1>1, AccessSizes DEF Listening

\* A step that touches the screens alone.
LEMMA ScreenStep ==
  ASSUME AccessInv, UNCHANGED <<deployment, table, work>>,
         stream' \in [Watcher -> Listening \cup {Closed}], wire' \subseteq 0..nextId, due' \subseteq Watcher
  PROVE  AccessInv'
<1> USE DEF deployment, table
<1>1. Typed'
  <2>1. Listening' = Listening
    BY DEF Listening
  <2> QED BY <2>1 DEF AccessInv, Typed
<1>2. Numbered' /\ Locks'
  BY DEF AccessInv, Numbered, Locks
<1>3. ASSUME NEW a \in Person, work'[a] # Idle PROVE Fits(a)' /\ Deeds(a)' /\ Counted(a)'
  <2>1. Fits(a) /\ Deeds(a) /\ Counted(a)
    BY <1>3 DEF AccessInv
  <2> QED BY <2>1 DEF Fits, Deeds, Counted, Seen, Administrators, Approved
<1> QED BY <1>1, <1>2, <1>3 DEF AccessInv

\* A step of one person's request that commits nothing.
LEMMA RequestStep ==
  ASSUME AccessInv, NEW a \in Person, NEW b \in Busy \cup {Idle},
         work' = [work EXCEPT ![a] = b], UNCHANGED <<deployment, people, audit, outbox>>,
         nextId' \in {nextId, nextId + 1},
         stream' \in [Watcher -> (Listening \cup {Closed})'], wire' \subseteq 0..nextId',
         due' \subseteq Watcher,
         b # Idle =>
            /\ b.id < nextId' /\ (b.was # <<>> => b.was[1].id < nextId')
            /\ Fits(a)' /\ Deeds(a)' /\ Counted(a)'
            /\ \A c \in Person \ {a}, p \in Person :
                  work[c] # Idle => b.writes[p] = Untouched \/ work[c].writes[p] = Untouched
  PROVE  AccessInv'
<1> USE DEF deployment
<1>1. work'[a] = b /\ \A c \in Person \ {a} : work'[c] = work[c]
  BY DEF AccessInv, Typed
<1>2. nextId' \in Nat \ {0} /\ nextId <= nextId'
  BY DEF AccessInv, Typed
<1>3. Typed'
  <2>1. work' \in [Person -> Busy \cup {Idle}]
    BY DEF AccessInv, Typed
  <2> QED BY <1>2, <2>1 DEF AccessInv, Typed
<1>4. Numbered'
  <2>1. \A p \in Person : people'[p].id < nextId'
    <3> SUFFICES ASSUME NEW p \in Person PROVE people[p].id < nextId'
      OBVIOUS
    <3>1. people[p].id < nextId /\ people[p].id \in Nat
      BY NoRowApart DEF AccessInv, Numbered, Typed, Maybe
    <3> QED BY <1>2, <3>1 DEF AccessInv, Typed
  <2>2. ASSUME NEW c \in Person \ {a}, work'[c] # Idle
        PROVE  work'[c].id < nextId' /\ (work'[c].was # <<>> => work'[c].was[1].id < nextId')
    <3>1. work[c].id < nextId /\ (work[c].was # <<>> => work[c].was[1].id < nextId)
      BY <1>1, <2>2 DEF AccessInv, Numbered
    <3>2. work[c] \in Busy
      BY <1>1, <2>2 DEF AccessInv, Typed
    <3>3. work[c].id \in Nat /\ (work[c].was # <<>> => work[c].was[1].id \in Nat)
      BY <3>2, NoRowApart DEF Busy, Maybe
    <3> QED BY <1>1, <1>2, <3>1, <3>3 DEF AccessInv, Typed
  <2> QED BY <1>1, <2>1, <2>2 DEF Numbered
<1>5. Locks'
  <2> SUFFICES ASSUME NEW c \in Person, NEW d \in Person, c # d, work'[c] # Idle, work'[d] # Idle, NEW p \in Person
               PROVE  work'[c].writes[p] = Untouched \/ work'[d].writes[p] = Untouched
    BY DEF Locks
  <2> QED BY <1>1 DEF AccessInv, Locks
<1>6. ASSUME NEW c \in Person \ {a}, work'[c] # Idle PROVE Fits(c)' /\ Deeds(c)' /\ Counted(c)'
  <2>1. Fits(c) /\ Deeds(c) /\ Counted(c) /\ work'[c] = work[c] /\ people' = people
    BY <1>1, <1>6 DEF AccessInv
  <2>2. Fits(c)'
    BY <2>1 DEF Fits
  <2>3. Deeds(c)'
    BY <2>1, DeedsKept
  <2>4. Counted(c)'
    <3>1. Seen(c)' = Seen(c)
      BY <2>1 DEF Seen
    <3>2. Administrators(Seen(c))' = Administrators(Seen(c)) /\ Administrators(people)' = Administrators(people)
      BY <2>1, <3>1 DEF Administrators, Approved
    <3> QED BY <2>1, <3>2 DEF Counted
  <2> QED BY <2>2, <2>3, <2>4
<1> QED BY <1>1, <1>3, <1>4, <1>5, <1>6 DEF AccessInv

\* A request that begins has written nothing and counted nobody.
LEMMA StartInv ==
  ASSUME AccessInv, NEW a \in Person, NEW op \in Operation \cup {"signin"}, NEW targets \in SUBSET Person,
         work' = [work EXCEPT ![a] = Start(a, op, targets)],
         UNCHANGED <<deployment, table, stream, wire>>, due' \subseteq Watcher
  PROVE  AccessInv'
<1> USE DEF deployment, table
<1> DEFINE b == Start(a, op, targets)
<1>1. /\ b.op = op /\ b.todo = targets /\ b.target = a /\ b.was = <<>> /\ b.id = 0
      /\ b.audit = {} /\ b.mail = {} /\ b.raced = FALSE
      /\ b.writes = [p \in Person |-> Untouched]
  BY DEF Start
<1>2. b \in Busy
  <2>1. Untouched \in Assigned
    BY DEF Untouched, Assigned, Same
  <2> QED BY <2>1 DEF Start, Busy
<1>3. work'[a] = b
  BY DEF AccessInv, Typed
<1> HIDE DEF b
<1>4. Fits(a)' /\ Deeds(a)'
  BY <1>1, <1>3 DEF Fits, Deeds, Untouched, Same
<1>5. Counted(a)'
  <2>1. Seen(a)' = people
    <3>1. \A p \in Person : Written(people[p], Untouched, 0) = people[p]
      <4> SUFFICES ASSUME NEW p \in Person PROVE Written(people[p], Untouched, 0) = people[p]
        OBVIOUS
      <4>1. people[p] \in Maybe /\ Untouched \in Assigned /\ Untouched.row # "new"
        BY DEF AccessInv, Typed, Untouched, Assigned, Same
      <4> QED BY <4>1, WrittenTyped
    <3>2. Seen(a)' = [p \in Person |-> Written(people[p], Untouched, 0)]
      BY <1>1, <1>3 DEF Seen
    <3> QED BY <3>1, <3>2 DEF AccessInv, Typed
  <2> QED BY <1>1, <1>3, <2>1 DEF Counted, Administrators, Approved
<1>6. \A p \in Person : b.writes[p] = Untouched
  BY <1>1
<1>7. 0 < nextId' /\ nextId' = nextId /\ (Listening \cup {Closed})' = Listening \cup {Closed}
  BY DEF AccessInv, Typed, Listening
<1> QED BY <1>1, <1>2, <1>3, <1>4, <1>5, <1>6, <1>7, RequestStep DEF AccessInv, Typed, b

\* A set that does not count one at most has another than any given one.
LEMMA AnotherOne ==
  ASSUME NEW S, NEW t, ~(Cardinality(S) <= 1)
  PROVE  S \ {t} # {}
<1> SUFFICES ASSUME S \ {t} = {} PROVE FALSE
  OBVIOUS
<1>1. S = {} \/ S = {t}
  OBVIOUS
<1> QED BY <1>1, FS_EmptySet, FS_Singleton

LEMMA LookInv ==
  ASSUME AccessInv, NEW a \in Person, NEW t \in Person, Look(a, t)
  PROVE  AccessInv'
<1> USE DEF deployment, table, screens
<1> DEFINE row == Seen(a)[t]
           skipped == \/ row = NoRow /\ work[a].op \notin {"invite", "signin"}
                      \/ OwnAccount(a, t)
           b == [work[a] EXCEPT !.todo = @ \ {t}, !.target = t, !.was = IF skipped THEN <<>> ELSE <<row>>]
<1>1. work[a] \in Busy /\ work[a] # Idle /\ Fits(a) /\ Deeds(a) /\ Counted(a)
  BY DEF Look, AccessInv, Typed
<1>2. row \in Maybe /\ row.id \in {0, work[a].id, people[t].id}
  BY <1>1, SeenTyped DEF AccessInv
<1>3. row.id < nextId
  BY <1>1, <1>2 DEF AccessInv, Numbered, Typed
<1>4. b \in Busy
  <2>1. (IF skipped THEN <<>> ELSE <<row>>) \in Seq(Maybe)
    BY <1>2
  <2>2. \A was_ \in Seq(Maybe) : [work[a] EXCEPT !.todo = @ \ {t}, !.target = t, !.was = was_] \in Busy
    BY <1>1 DEF Busy
  <2> QED BY <2>1, <2>2
<1>5. work' = [work EXCEPT ![a] = b]
  BY DEF Look
<1>6. work'[a] = b
  BY <1>5 DEF AccessInv, Typed
<1>7. /\ b.op = work[a].op /\ b.target = t /\ b.id = work[a].id /\ b.writes = work[a].writes
      /\ b.audit = work[a].audit /\ b.raced = work[a].raced
      /\ b.was = IF skipped THEN <<>> ELSE <<row>>
  BY <1>1 DEF Busy
<1> HIDE DEF b
<1>8. /\ b.was # <<>> => b.was[1] = row /\ ~skipped
  BY <1>7
<1>9. Fits(a)'
  BY <1>6, <1>7, <1>8 DEF Fits
<1>10. Deeds(a)'
  <2>1. people' = people
    BY DEF Look
  <2>2. Deeds(a) /\ a \in Person
    BY <1>1
  <2> QED BY <1>6, <1>7, <2>1, <2>2, DeedsKept
<1>11. Counted(a)'
  <2>1. people' = people
    BY DEF Look
  <2>2. Seen(a)' = Seen(a)
    BY <1>6, <1>7, <2>1 DEF Seen
  <2>3. row.role # "admin" => t \notin Administrators(Seen(a))
    BY DEF Administrators
  <2> QED BY <1>1, <1>6, <1>7, <1>8, <2>1, <2>2, <2>3 DEF Counted, Administrators, Approved
<1>12. b.id < nextId
  BY <1>1, <1>7 DEF AccessInv, Numbered
<1>13. \A c \in Person \ {a}, p \in Person :
          work[c] # Idle => b.writes[p] = Untouched \/ work[c].writes[p] = Untouched
  BY <1>1, <1>7 DEF AccessInv, Locks
<1>14. nextId' = nextId /\ (Listening \cup {Closed})' = Listening \cup {Closed}
  BY DEF Look, Listening
<1>15. /\ UNCHANGED <<deployment, people, audit, outbox>>
       /\ stream' = stream /\ wire' = wire /\ due' = due
  BY DEF Look
<1>16. stream \in [Watcher -> Listening \cup {Closed}] /\ wire \subseteq 0..nextId /\ due \subseteq Watcher
  BY DEF AccessInv, Typed
<1> QED BY <1>3, <1>4, <1>5, <1>8, <1>9, <1>10, <1>11, <1>12, <1>13, <1>14, <1>15, <1>16, RequestStep

LEMMA SkipInv ==
  ASSUME AccessInv, NEW a \in Person, Skip(a)
  PROVE  AccessInv'
<1> USE DEF deployment, table, screens
<1> DEFINE b == [work[a] EXCEPT !.was = <<>>]
<1>1. work[a] \in Busy /\ work[a] # Idle /\ Deeds(a) /\ Counted(a)
  BY DEF Skip, AccessInv, Typed
<1>2. b \in Busy /\ work' = [work EXCEPT ![a] = b]
  <2>1. b \in Busy
    <3>1. <<>> \in Seq(Maybe)
      OBVIOUS
    <3> QED BY <1>1, <3>1 DEF Busy
  <2> QED BY <2>1 DEF Skip
<1>3. work'[a] = b
  BY <1>2 DEF AccessInv, Typed
<1>4. /\ b.op = work[a].op /\ b.id = work[a].id /\ b.writes = work[a].writes
      /\ b.audit = work[a].audit /\ b.raced = work[a].raced /\ b.was = <<>>
  BY <1>1 DEF Busy
<1> HIDE DEF b
<1>5. /\ nextId' = nextId /\ UNCHANGED <<deployment, people, audit, outbox>>
      /\ stream' = stream /\ wire' = wire /\ due' = due
      /\ (Listening \cup {Closed})' = Listening \cup {Closed}
  BY DEF Skip, Listening
<1>6. Fits(a)' /\ Deeds(a)'
  BY <1>1, <1>3, <1>4, <1>5 DEF Fits, Deeds
<1>7. Counted(a)'
  <2>1. Seen(a)' = Seen(a)
    BY <1>3, <1>4, <1>5 DEF Seen
  <2> QED BY <1>1, <1>3, <1>4, <1>5, <2>1 DEF Counted, Administrators, Approved
<1>8. /\ b.id < nextId
      /\ \A c \in Person \ {a}, p \in Person :
            work[c] # Idle => b.writes[p] = Untouched \/ work[c].writes[p] = Untouched
  BY <1>1, <1>4 DEF AccessInv, Numbered, Locks
<1>9. stream \in [Watcher -> Listening \cup {Closed}] /\ wire \subseteq 0..nextId /\ due \subseteq Watcher
  BY DEF AccessInv, Typed
<1> QED BY <1>2, <1>4, <1>5, <1>6, <1>7, <1>8, <1>9, RequestStep

\* A request that is undone leaves nothing behind.
LEMMA UndoInv ==
  ASSUME AccessInv, NEW a \in Person, Undo(a)
  PROVE  AccessInv'
<1> USE DEF deployment, table, screens
<1>1. /\ nextId' = nextId /\ UNCHANGED <<deployment, people, audit, outbox>>
      /\ stream' = stream /\ wire' = wire /\ due' = due
      /\ (Listening \cup {Closed})' = Listening \cup {Closed}
      /\ work' = [work EXCEPT ![a] = Idle]
  BY DEF Undo, Listening
<1>2. stream \in [Watcher -> Listening \cup {Closed}] /\ wire \subseteq 0..nextId /\ due \subseteq Watcher
  BY DEF AccessInv, Typed
<1> QED BY <1>1, <1>2, RequestStep

LEMMA ActInv ==
  ASSUME AccessInv, NEW a \in Person, Act(a)
  PROVE  AccessInv'
<1> USE DEF deployment
<1> DEFINE op == work[a].op
           t == work[a].target
           row == work[a].was[1]
           w == Write(op, t, row)
           id == IF w.row = "new" THEN nextId ELSE row.id
           noted == Notable(op, row, w)
           b == [work[a] EXCEPT !.was = <<>>, !.id = IF w.row = "new" THEN id ELSE @,
                                !.writes[t] = w,
                                !.audit = IF noted /\ op # "signin" THEN @ \cup {<<op, t>>} ELSE @,
                                !.mail = @ \cup Mail(op, t, w)]
<1>1. /\ work[a] \in Busy /\ work[a] # Idle /\ work[a].was # <<>>
      /\ Fits(a) /\ Deeds(a) /\ Counted(a)
  BY DEF Act, AccessInv, Typed
<1>2. /\ op \in Operation \cup {"signin"} /\ t \in Person /\ row \in Maybe
      /\ row = NoRow => op \in {"invite", "signin"}
      /\ work[a].writes \in [Person -> Assigned] /\ work[a].id \in Nat
      /\ work[a].audit \subseteq Operation \X Person
  BY <1>1 DEF Busy, Fits
<1>3. /\ ~Refused(a) /\ ~Locked(a, t) /\ Current(a)
      /\ nextId' = IF w.row = "new" THEN nextId + 1 ELSE nextId
      /\ work' = [work EXCEPT ![a] = b]
      /\ IF noted THEN Announce({id, People}) ELSE UNCHANGED <<stream, wire>>
      /\ UNCHANGED <<deployment, people, audit, outbox, due, view, bounds>>
  BY DEF Act
<1>4. /\ w \in Assigned
      /\ w.row = "new" => /\ row = NoRow /\ op \in {"invite", "signin"}
                          /\ w.status # Same /\ w.role # Same /\ w.subject # Same
      /\ w.row = "gone" => op = "remove"
      /\ w.row = Same /\ w.status \in {"pending", "rejected"} => op = "reject" /\ w.status = "rejected" /\ noted
      /\ w.row = Same /\ w.role = "member" => op = "demote" /\ noted
  BY <1>2, WriteSays
<1>5. op = "remove" => noted
  BY DEF Notable
<1>6. id \in Nat /\ id <= nextId' /\ nextId' \in {nextId, nextId + 1} /\ nextId \in Nat \ {0}
  <2>1. row.id \in Nat /\ row.id < nextId
    BY <1>1, <1>2, NoRowApart DEF AccessInv, Numbered, Maybe
  <2> QED BY <1>3, <2>1 DEF AccessInv, Typed
<1>7. Mail(op, t, w) \subseteq {"received", "approved"} \X Person
  BY <1>2 DEF Mail
<1>8. /\ b \in Busy
      /\ b.op = op /\ b.target = t /\ b.was = <<>> /\ b.raced = work[a].raced
      /\ b.id = IF w.row = "new" THEN nextId ELSE work[a].id
      /\ b.writes = [work[a].writes EXCEPT ![t] = w]
      /\ b.audit = IF noted /\ op # "signin" THEN work[a].audit \cup {<<op, t>>} ELSE work[a].audit
  <2> HIDE DEF w, id, noted, op, t
  <2> DEFINE id_ == IF w.row = "new" THEN id ELSE work[a].id
             writes_ == [work[a].writes EXCEPT ![t] = w]
             audit_ == IF noted /\ op # "signin" THEN work[a].audit \cup {<<op, t>>} ELSE work[a].audit
             mail_ == work[a].mail \cup Mail(op, t, w)
  <2>1. id_ \in Nat /\ id_ = IF w.row = "new" THEN nextId ELSE work[a].id
    BY <1>2, <1>6 DEF id
  <2>2. writes_ \in [Person -> Assigned]
    BY <1>2, <1>4
  <2>3. audit_ \subseteq Operation \X Person
    BY <1>2
  <2>4. mail_ \subseteq {"received", "approved"} \X Person
    BY <1>1, <1>7 DEF Busy
  <2>5. b = [work[a] EXCEPT !.was = <<>>, !.id = id_, !.writes = writes_, !.audit = audit_, !.mail = mail_]
    BY <1>1 DEF Busy
  <2> HIDE DEF b, id_, writes_, audit_, mail_
  <2>6. <<>> \in Seq(Maybe)
    OBVIOUS
  <2>7. /\ b \in Busy
        /\ b.op = work[a].op /\ b.target = work[a].target /\ b.was = <<>> /\ b.raced = work[a].raced
        /\ b.id = id_ /\ b.writes = writes_ /\ b.audit = audit_
    BY <1>1, <2>1, <2>2, <2>3, <2>4, <2>5, <2>6 DEF Busy
  <2> QED BY <2>1, <2>7 DEF writes_, audit_, op, t
<1>9. work'[a] = b
  BY <1>3 DEF AccessInv, Typed
<1>10. people' = people
  BY <1>3
<1> HIDE DEF b, w, id, noted, row, op, t
<1>11. Fits(a)'
  BY <1>8, <1>9 DEF Fits
<1>12. Deeds(a)'
  <2> SUFFICES ASSUME NEW p \in Person
               PROVE  LET w_ == b.writes[p] IN
                  /\ w_.row = "new" => /\ people[p] = NoRow /\ op \in {"invite", "signin"}
                                       /\ w_.status # Same /\ w_.role # Same /\ w_.subject # Same /\ b.id # 0
                  /\ w_.row = "gone" => op = "remove" /\ <<"remove", p>> \in b.audit
                  /\ w_.row = Same /\ w_.status \in {"pending", "rejected"} =>
                        w_.status = "rejected" /\ op = "reject" /\ <<"reject", p>> \in b.audit
                  /\ w_.row = Same /\ w_.role = "member" => op = "demote" /\ <<"demote", p>> \in b.audit
    BY <1>8, <1>9, <1>10 DEF Deeds
  <2>1. CASE p = t
    <3>1. b.writes[p] = w
      BY <1>2, <1>8, <2>1
    <3>2. ASSUME w.row = "new" PROVE people[p] = NoRow
      <4>1. Seen(a)[t].id = 0 /\ op \in {"invite", "signin"}
        BY <1>3, <1>4, <3>2, NoRowApart DEF Current, t, row
      <4>2. /\ Seen(a)[t] = Written(people[t], work[a].writes[t], work[a].id)
            /\ people[t] \in Maybe /\ work[a].writes[t] \in Assigned
        BY <1>1, <1>2, SeenTyped DEF AccessInv, Typed
      <4>3. /\ work[a].writes[t].row # "gone"
            /\ work[a].writes[t].row = "new" => people[t] = NoRow
            /\ LET v == work[a].writes[t] IN
                  v.row = "new" => v.status # Same /\ v.role # Same /\ v.subject # Same /\ work[a].id # 0
        BY <1>1, <1>2, <4>1 DEF Deeds, op
      <4>4. CASE work[a].writes[t].row # "new"
        <5>1. people[t].id = 0
          BY <1>2, <4>1, <4>2, <4>3, <4>4, WrittenTyped
        <5> QED BY <2>1, <4>2, <5>1, NoRowApart DEF Maybe
      <4> QED BY <2>1, <4>3, <4>4
    <3>3. noted /\ op # "signin" => <<op, p>> \in b.audit
      BY <1>8, <2>1
    <3>4. w.row = "new" => b.id # 0
      BY <1>6, <1>8
    <3> QED BY <1>4, <1>5, <3>1, <3>2, <3>3, <3>4
  <2>2. CASE p # t
    <3>1. b.writes[p] = work[a].writes[p]
      BY <1>2, <1>8, <2>2
    <3>2. work[a].audit \subseteq b.audit /\ (work[a].id # 0 => b.id # 0)
      BY <1>6, <1>8
    <3> QED BY <1>1, <3>1, <3>2 DEF Deeds, op
  <2> QED BY <2>1, <2>2
<1>13. Counted(a)'
  <2> SUFFICES ASSUME ~work[a].raced, op \in {"demote", "remove"}, Administrators(people) # {}
               PROVE  Administrators(Seen(a)') # {}
    <3>1. Administrators(people)' = Administrators(people) /\ Administrators(Seen(a))' = Administrators(Seen(a)')
      BY <1>10 DEF Administrators, Approved
    <3> QED BY <1>8, <1>9, <3>1 DEF Counted
  <2>1. Administrators(Seen(a)) \ {t} # {}
    <3>1. CASE op = "demote"
      <4>1. ~(Cardinality(Administrators(Seen(a))) <= 1)
        BY <1>3, <3>1 DEF Refused, op
      <4> QED BY <4>1, AnotherOne
    <3>2. CASE op = "remove" /\ row.role = "admin"
      <4>1. ~(Cardinality(Administrators(Seen(a))) <= 1)
        BY <1>3, <3>2 DEF Refused, op, row
      <4> QED BY <4>1, AnotherOne
    <3>3. CASE op = "remove" /\ row.role # "admin"
      BY <1>1, <3>3 DEF Counted, op, row, t
    <3> QED BY <3>1, <3>2, <3>3
  <2>2. PICK q \in Person \ {t} : q \in Administrators(Seen(a))
    BY <2>1 DEF Administrators
  <2>3. Seen(a)'[q] = Seen(a)[q]
    <3>1. w.row # "new"
      BY <1>4
    <3>2. b.writes[q] = work[a].writes[q] /\ b.id = work[a].id
      BY <1>2, <1>8, <2>2, <3>1
    <3> QED BY <1>9, <1>10, <3>2 DEF Seen
  <2> QED BY <2>2, <2>3 DEF Administrators, Approved
<1>14. b.id < nextId'
  <2>1. work[a].id < nextId
    BY <1>1 DEF AccessInv, Numbered
  <2> QED BY <1>2, <1>3, <1>6, <1>8, <2>1
<1>15. \A c \in Person \ {a}, p \in Person :
          work[c] # Idle => b.writes[p] = Untouched \/ work[c].writes[p] = Untouched
  <2> SUFFICES ASSUME NEW c \in Person \ {a}, NEW p \in Person, work[c] # Idle
               PROVE  b.writes[p] = Untouched \/ work[c].writes[p] = Untouched
    OBVIOUS
  <2>1. p = t => work[c].writes[p] = Untouched
    BY <1>3 DEF Locked
  <2>2. p # t => b.writes[p] = work[a].writes[p]
    BY <1>2, <1>8
  <2> QED BY <1>1, <2>1, <2>2 DEF AccessInv, Locks
<1>16. /\ stream' \in [Watcher -> (Listening \cup {Closed})'] /\ wire' \subseteq 0..nextId'
       /\ due' \subseteq Watcher
  <2>1. Listening \cup {Closed} \subseteq (Listening \cup {Closed})'
    BY <1>6 DEF Listening
  <2>2. stream' \in [Watcher -> Listening \cup {Closed}]
    <3>1. CASE noted
      BY <1>3, <3>1, PutTyped DEF Announce, AccessInv
    <3>2. CASE ~noted
      BY <1>3, <3>2 DEF AccessInv, Typed
    <3> QED BY <3>1, <3>2
  <2>3. wire' \subseteq 0..nextId'
    <3>1. wire \subseteq 0..nextId'
      BY <1>6 DEF AccessInv, Typed
    <3>2. {id, People} \subseteq 0..nextId'
      BY <1>6 DEF People
    <3> QED BY <1>3, <3>1, <3>2 DEF Announce
  <2> QED BY <1>3, <2>1, <2>2, <2>3 DEF AccessInv, Typed
<1>17. UNCHANGED <<deployment, people, audit, outbox>>
  BY <1>3
<1> QED BY <1>3, <1>6, <1>8, <1>11, <1>12, <1>13, <1>14, <1>15, <1>16, <1>17, RequestStep

\* What a commit takes from somebody is a decision it has on record.
LEMMA LossSaid ==
  ASSUME Typed, NEW a \in Person, work[a] # Idle, Deeds(a), NEW p \in Person,
         \/ Approved(people, p) /\ ~Approved(Seen(a), p)
         \/ p \in Administrators(people) \ Administrators(Seen(a))
  PROVE  work[a].op \in {"reject", "demote", "remove"} /\ <<work[a].op, p>> \in work[a].audit
<1> DEFINE w == work[a].writes[p]
<1>1. w \in Assigned /\ people[p] \in Row /\ people[p].status = "approved"
  <2>1. work[a] \in Busy /\ people[p] \in Maybe
    BY DEF Typed
  <2> QED BY <2>1 DEF Busy, Maybe, Approved, Administrators
<1>2. Seen(a)[p] = Written(people[p], w, work[a].id)
  BY SeenTyped
<1>3. w.row # "new"
  BY <1>1, NoRowApart DEF Deeds
<1>4. CASE w.row = "gone"
  BY <1>4 DEF Deeds
<1>5. CASE w.row = Same
  <2>1. Seen(a)[p] = [people[p] EXCEPT !.status = IF w.status = Same THEN @ ELSE w.status,
                                       !.role = IF w.role = Same THEN @ ELSE w.role,
                                       !.subject = IF w.subject = Same THEN @ ELSE w.subject]
    BY <1>1, <1>2, <1>5, NoRowApart DEF Written, Same
  <2>2. /\ Seen(a)[p] \in Row
        /\ Seen(a)[p].status = IF w.status = Same THEN "approved" ELSE w.status
        /\ Seen(a)[p].role = IF w.role = Same THEN people[p].role ELSE w.role
    BY <1>1, <2>1 DEF Row, Assigned, Same
  <2>3. w.status \in {"pending", "rejected"} \/ w.role = "member"
    BY <1>1, <2>2, NoRowApart DEF Approved, Administrators, Assigned, Same
  <2> QED BY <1>5, <2>3 DEF Deeds
<1> QED BY <1>1, <1>3, <1>4, <1>5 DEF Assigned

LEMMA CommitInv ==
  ASSUME AccessInv, NEW a \in Person, Commit(a)
  PROVE  AccessInv'
<1> USE DEF deployment
<1> DEFINE upset == Upset(Administrators(people), Administrators(Seen(a)))
<1>1. work[a] \in Busy /\ work[a] # Idle /\ Deeds(a) /\ Typed
  BY DEF Commit, Finished, AccessInv, Typed
<1>2. /\ people' = Seen(a) /\ people' \in [Person -> Maybe]
      /\ \A p \in Person : /\ people'[p].id \in {0, work[a].id, people[p].id}
                           /\ work[a].writes[p] = Untouched => people'[p] = people[p]
  BY <1>1, SeenTyped DEF Commit
<1>3. /\ UNCHANGED <<deployment, nextId, stream, wire, due>>
      /\ audit' = audit \cup work[a].audit /\ outbox' = outbox \cup work[a].mail
      /\ work' = [b \in Person |->
                    IF b = a THEN Idle
                    ELSE IF upset /\ work[b].op \in {"demote", "remove"}
                         THEN [work[b] EXCEPT !.raced = TRUE] ELSE work[b]]
  BY DEF Commit
<1> HIDE DEF upset
<1>4. ASSUME NEW c \in Person, work'[c] # Idle
      PROVE  /\ c # a /\ work[c] # Idle /\ work[c] \in Busy /\ work'[c] \in Busy
             /\ work'[c].op = work[c].op /\ work'[c].id = work[c].id /\ work'[c].was = work[c].was
             /\ work'[c].target = work[c].target /\ work'[c].writes = work[c].writes
             /\ work'[c].audit = work[c].audit
             /\ ~work'[c].raced /\ work'[c].op \in {"demote", "remove"} => ~upset /\ ~work[c].raced
  <2>1. c # a
    BY <1>3, <1>4
  <2>2. work[c] # Idle
    <3> SUFFICES ASSUME work[c] = Idle PROVE FALSE
      OBVIOUS
    <3>1. work[c].op \notin {"demote", "remove"}
      BY DEF Idle
    <3> QED BY <1>3, <1>4, <2>1, <3>1
  <2>3. work[c] \in Busy
    BY <2>2 DEF AccessInv, Typed
  <2>4. CASE upset /\ work[c].op \in {"demote", "remove"}
    <3>1. work'[c] = [work[c] EXCEPT !.raced = TRUE]
      BY <1>3, <2>1, <2>4
    <3> QED BY <2>1, <2>2, <2>3, <3>1 DEF Busy
  <2>5. CASE ~(upset /\ work[c].op \in {"demote", "remove"})
    <3>1. work'[c] = work[c]
      BY <1>3, <2>1, <2>5
    <3> QED BY <2>1, <2>2, <2>3, <2>5, <3>1
  <2> QED BY <2>4, <2>5
<1>5. Typed'
  <2>1. work' \in [Person -> Busy \cup {Idle}]
    BY <1>3, <1>4
  <2>2. audit' \subseteq Operation \X Person /\ outbox' \subseteq {"received", "approved"} \X Person
    BY <1>1, <1>3 DEF Typed, Busy
  <2>3. (Listening \cup {Closed})' = Listening \cup {Closed}
    BY <1>3 DEF Listening
  <2> QED BY <1>2, <1>3, <2>1, <2>2, <2>3 DEF AccessInv, Typed
<1>6. Numbered'
  <2>1. \A p \in Person : people'[p].id < nextId
    BY <1>1, <1>2 DEF AccessInv, Numbered, Typed
  <2> QED BY <1>3, <1>4, <2>1 DEF AccessInv, Numbered
<1>7. Locks'
  <2> SUFFICES ASSUME NEW c \in Person, NEW d \in Person, c # d, work'[c] # Idle, work'[d] # Idle, NEW p \in Person
               PROVE  work'[c].writes[p] = Untouched \/ work'[d].writes[p] = Untouched
    BY DEF Locks
  <2> QED BY <1>4 DEF AccessInv, Locks
<1>8. ASSUME NEW c \in Person, work'[c] # Idle PROVE Fits(c)' /\ Deeds(c)' /\ Counted(c)'
  <2>1. Fits(c) /\ Deeds(c) /\ Counted(c)
    BY <1>4, <1>8 DEF AccessInv
  <2>2. \A p \in Person : work[c].writes[p] = Untouched \/ people'[p] = people[p]
    BY <1>1, <1>2, <1>4, <1>8 DEF AccessInv, Locks
  <2>3. Fits(c)'
    BY <1>4, <1>8, <2>1 DEF Fits
  <2>4. Deeds(c)'
    <3>1. \A p \in Person : work[c].writes[p].row = "new" => people'[p] = people[p]
      BY <2>2 DEF Untouched, Same
    <3>2. /\ work'[c].writes = work[c].writes /\ work'[c].op = work[c].op
          /\ work'[c].id = work[c].id /\ work'[c].audit = work[c].audit
      BY <1>4, <1>8
    <3> QED BY <2>1, <3>1, <3>2, DeedsKept
  <2>5. ASSUME NEW q \in Administrators(Seen(c)), ~upset, Administrators(people') # {}
        PROVE  q \in Administrators(Seen(c)')
    <3>1. q \in Person
      BY DEF Administrators
    <3>2. work[c].id \in Nat /\ people'[q] \in Maybe
      BY <1>2, <1>4, <1>8, <3>1 DEF Busy
    <3>3. Seen(c)'[q] = Written(people'[q], work[c].writes[q], work[c].id)
      BY <1>4, <1>8, <3>1 DEF Seen
    <3>4. Seen(c)[q] = Written(people[q], work[c].writes[q], work[c].id)
      BY <3>1 DEF Seen
    <3>5. CASE people'[q] = people[q]
      BY <3>1, <3>3, <3>4, <3>5 DEF Administrators, Approved
    <3>6. CASE work[c].writes[q] = Untouched
      <4>1. Seen(c)[q] = people[q]
        BY <1>1, <1>4, <1>8, <2>1, <3>1, <3>6, SeenTyped
      <4>2. q \in Administrators(people)
        BY <3>1, <4>1 DEF Administrators, Approved
      <4>3. q \in Administrators(people')
        BY <1>2, <2>5, <4>2 DEF upset, Upset
      <4>4. Seen(c)'[q] = people'[q]
        <5>1. Untouched \in Assigned /\ Untouched.row # "new"
          BY DEF Untouched, Assigned, Same
        <5> QED BY <3>2, <3>3, <3>6, <5>1, WrittenTyped
      <4> QED BY <3>1, <4>3, <4>4 DEF Administrators, Approved
    <3> QED BY <2>2, <3>1, <3>5, <3>6
  <2>6. Counted(c)'
    <3> SUFFICES ASSUME ~work'[c].raced, work'[c].op \in {"demote", "remove"}, Administrators(people') # {}
                 PROVE  /\ Administrators(Seen(c)') # {}
                        /\ work'[c].op = "remove" /\ work'[c].was # <<>> /\ work'[c].was[1].role # "admin" =>
                              Administrators(Seen(c)') \ {work'[c].target} # {}
      <4>1. Administrators(people)' = Administrators(people') /\ Administrators(Seen(c))' = Administrators(Seen(c)')
        BY DEF Administrators, Approved
      <4> QED BY <4>1 DEF Counted
    <3>1. ~upset /\ ~work[c].raced
      BY <1>4, <1>8
    <3>2. Administrators(people) # {}
      BY <1>2, <3>1 DEF upset, Upset
    <3>3. /\ Administrators(Seen(c)) # {}
          /\ work[c].op = "remove" /\ work[c].was # <<>> /\ work[c].was[1].role # "admin" =>
                Administrators(Seen(c)) \ {work[c].target} # {}
      BY <1>4, <1>8, <2>1, <3>1, <3>2 DEF Counted
    <3> QED BY <1>4, <1>8, <2>5, <3>1, <3>3
  <2> QED BY <2>3, <2>4, <2>6
<1> QED BY <1>5, <1>6, <1>7, <1>8 DEF AccessInv

-----------------------------------------------------------------------------
(* Access: every step. *)

LEMMA RequestInv ==
  ASSUME AccessInv, NEW a \in Person, NEW op \in Operation, NEW targets \in scene.about, Request(a, op, targets)
  PROVE  AccessInv'
<1>1. targets \in SUBSET Person
  BY AccessSizes DEF AccessInv, Typed
<1> QED BY <1>1, StartInv DEF Request, screens, AccessInv, Typed

LEMMA ScreenInv ==
  ASSUME AccessInv, NEW p \in Watcher,
         Refresh(p) \/ Open(p) \/ Subscribe(p) \/ Hear(p) \/ Close(p) \/ Break(p)
  PROVE  AccessInv'
<1>1. /\ stream \in [Watcher -> Listening \cup {Closed}] /\ wire \subseteq 0..nextId /\ due \subseteq Watcher
      /\ stream[p] # Closed => stream[p] \in Listening
      /\ nextId \in Nat \ {0} /\ p \in Person
  BY AccessSizes DEF AccessInv, Typed
<1>2. UNCHANGED <<deployment, table, work, wire>> /\ due' \subseteq Watcher
  BY <1>1 DEF Refresh, Open, Subscribe, Hear, Close, Break
<1>3. CASE Refresh(p)
  BY <1>1, <1>2, <1>3, ScreenStep DEF Refresh
<1>4. CASE Open(p)
  <2>1. Topics(p) \subseteq 0..nextId
    <3>1. people[p] # NoRow => people[p].id \in 0..nextId
      BY <1>1, NoRowApart DEF AccessInv, Typed, Numbered, Maybe
    <3> QED BY <1>1, <3>1 DEF Topics, People
  <2>2. [phase |-> "opening", topics |-> Topics(p), queued |-> 0] \in Listening
    BY <2>1, AccessSizes DEF Listening
  <2>3. stream' \in [Watcher -> Listening \cup {Closed}]
    BY <1>1, <1>4, <2>2 DEF Open
  <2> QED BY <1>1, <1>2, <2>3, ScreenStep
<1>5. CASE Subscribe(p)
  <2>1. [stream[p] EXCEPT !.phase = "open"] \in Listening
    BY <1>1, <1>5 DEF Subscribe, Listening
  <2>2. stream' = [stream EXCEPT ![p] = [stream[p] EXCEPT !.phase = "open"]]
    BY <1>5 DEF Subscribe
  <2>3. stream' \in [Watcher -> Listening \cup {Closed}]
    BY <1>1, <2>1, <2>2
  <2> QED BY <1>1, <1>2, <2>3, ScreenStep
<1>6. CASE Hear(p)
  <2>1. [stream[p] EXCEPT !.queued = @ - 1] \in Listening
    BY <1>1, <1>6, AccessSizes DEF Hear, Listening
  <2>2. stream' = [stream EXCEPT ![p] = [stream[p] EXCEPT !.queued = @ - 1]]
    BY <1>6 DEF Hear
  <2>3. stream' \in [Watcher -> Listening \cup {Closed}]
    BY <1>1, <2>1, <2>2
  <2> QED BY <1>1, <1>2, <2>3, ScreenStep
<1>7. CASE Close(p) \/ Break(p)
  <2>1. stream' \in [Watcher -> Listening \cup {Closed}]
    BY <1>1, <1>7 DEF Close, Break
  <2> QED BY <1>1, <1>2, <2>1, ScreenStep
<1> QED BY <1>3, <1>4, <1>5, <1>6, <1>7

LEMMA SignInInv ==
  ASSUME AccessInv, NEW p \in Watcher, SignIn(p)
  PROVE  AccessInv'
<1>1. p \in Person /\ due' \subseteq Watcher /\ "signin" \in Operation \cup {"signin"} /\ {p} \in SUBSET Person
  BY AccessSizes DEF SignIn, AccessInv, Typed
<1> QED BY <1>1, StartInv DEF SignIn

LEMMA ReceiveInv ==
  ASSUME AccessInv, NEW topic \in wire, Receive(topic)
  PROVE  AccessInv'
<1>1. stream' \in [Watcher -> Listening \cup {Closed}]
  BY PutTyped DEF Receive, AccessInv, Typed
<1>2. wire' \subseteq 0..nextId /\ due' \subseteq Watcher
  BY DEF Receive, AccessInv, Typed
<1> QED BY <1>1, <1>2, ScreenStep DEF Receive

LEMMA AccessStepInv == AccessInv /\ [Next]_vars => AccessInv'
<1> SUFFICES ASSUME AccessInv, [Next]_vars PROVE AccessInv'
  OBVIOUS
<1>1. ASSUME NEW a \in Person, Step(a) \/ Fault(a) PROVE AccessInv'
  <2>1. ASSUME NEW t \in Person, Look(a, t) PROVE AccessInv'
    BY <2>1, LookInv
  <2>2. CASE Stale(a) \/ TimeOut(a) \/ Fault(a)
    BY <2>2, UndoInv DEF Stale, TimeOut, Fault
  <2> QED BY <1>1, <2>1, <2>2, SkipInv, ActInv, CommitInv DEF Step
<1>2. ASSUME NEW p \in Watcher, Fetch(p) \/ Browse(p) \/ Close(p) \/ Break(p) PROVE AccessInv'
  BY <1>2, ScreenInv, SignInInv DEF Fetch, Browse
<1>3. CASE UNCHANGED vars
  <2>1. /\ UNCHANGED <<deployment, table, work>> /\ stream' = stream /\ wire' = wire /\ due' = due
    BY <1>3 DEF vars, screens
  <2> QED BY <2>1, ScreenStep DEF AccessInv, Typed
<1> QED BY <1>1, <1>2, <1>3, RequestInv, ReceiveInv DEF Next

-----------------------------------------------------------------------------
(* Outbox: what a pass holds, and what is known of a message that is not   *)
(* excused.                                                                *)

MailTyped ==
    /\ box \in [MailMessage -> [status : {"none", "pending", "sent", "failed"},
                                attempts : 0..MailAttempts, due : BOOLEAN]]
    /\ pass \in [MailSender -> UNION {[T -> 0..(MailAttempts - 1)] : T \in SUBSET MailMessage}]
    /\ sending \in [MailSender -> {O!Resting} \cup MailMessage \X {"sent", "error"}]
    /\ \A s \in MailSender : /\ O!Cardinality(DOMAIN pass[s]) <= MailBatch
                             /\ sending[s] # O!Resting => sending[s][1] \in DOMAIN pass[s]
    /\ tries \in [MailMessage -> 0..MailAttempts]
    /\ delivered \in [MailMessage -> 0..2]
    /\ excused \subseteq MailMessage

\* no more attempts are counted than were made, and a row that waits has some left
Tallied ==
    /\ \A m \in MailMessage : /\ box[m].attempts <= tries[m]
                              /\ box[m].status = "pending" => box[m].attempts < MailAttempts
                              /\ box[m].status = "failed" => tries[m] >= MailAttempts
    /\ \A s \in MailSender : \A m \in DOMAIN pass[s] :
          /\ pass[s][m] <= tries[m]
          /\ sending[s] # O!Resting /\ sending[s][1] = m => pass[s][m] + 1 <= tries[m]

\* a message that is not excused is in one pass at most, and was taken once at most
Single(m) ==
    /\ \A s, t \in MailSender : m \in DOMAIN pass[s] /\ m \in DOMAIN pass[t] => s = t
    /\ \A s \in MailSender : m \in DOMAIN pass[s] => box[m].status = "pending"
    /\ delivered[m] <= 1
    /\ delivered[m] = 1 => box[m].status = "sent" \/ \E s \in MailSender : sending[s] = <<m, "sent">>

MailInv == MailTyped /\ Tallied /\ \A m \in MailMessage \ excused : Single(m)

\* What the library counts is what it counts under another name.
LEMMA SameCount == \A S : O!Cardinality(S) = Cardinality(S)
BY DEF O!Cardinality, Cardinality, O!IsFiniteSet, IsFiniteSet

LEMMA PassTyped ==
  ASSUME MailTyped, NEW s \in MailSender
  PROVE  /\ DOMAIN pass[s] \subseteq MailMessage /\ IsFiniteSet(DOMAIN pass[s])
         /\ pass[s] \in [DOMAIN pass[s] -> 0..(MailAttempts - 1)]
<1>1. PICK T \in SUBSET MailMessage : pass[s] \in [T -> 0..(MailAttempts - 1)]
  BY DEF MailTyped
<1>2. DOMAIN pass[s] = T
  BY <1>1
<1> QED BY <1>1, <1>2, FS_Subset, MailSizes

\* A function from messages to attempts is a pass.
LEMMA IsPass ==
  ASSUME NEW T \in SUBSET MailMessage, NEW f \in [T -> 0..(MailAttempts - 1)]
  PROVE  f \in UNION {[U -> 0..(MailAttempts - 1)] : U \in SUBSET MailMessage}
OBVIOUS

LEMMA MailInitInv == O!Init => MailInv
<1> SUFFICES ASSUME O!Init PROVE MailInv
  OBVIOUS
<1>1. \A s \in MailSender : DOMAIN pass[s] = {} /\ sending[s] = O!Resting
  BY DEF O!Init, O!Nothing
<1>2. MailTyped
  <2>1. O!NoRow \in [status : {"none", "pending", "sent", "failed"}, attempts : 0..MailAttempts, due : BOOLEAN]
    BY MailSizes DEF O!NoRow
  <2>2. O!Nothing \in UNION {[U -> 0..(MailAttempts - 1)] : U \in SUBSET MailMessage}
    <3>1. O!Nothing \in [{} -> 0..(MailAttempts - 1)]
      BY DEF O!Nothing
    <3> QED BY <3>1, IsPass
  <2>3. Cardinality({}) = 0
    BY FS_EmptySet
  <2> QED BY <1>1, <2>1, <2>2, <2>3, SameCount, MailSizes DEF O!Init, MailTyped
<1>3. Tallied
  BY <1>1, MailSizes DEF O!Init, O!NoRow, Tallied
<1>4. ASSUME NEW m \in MailMessage PROVE Single(m)
  BY <1>1 DEF O!Init, Single
<1> QED BY <1>2, <1>3, <1>4 DEF MailInv

\* A message is queued, or comes to be due again.
LEMMA BoxInv ==
  ASSUME MailInv, NEW m \in MailMessage, O!Queue(m) \/ O!Wait(m)
  PROVE  MailInv'
<1>1. UNCHANGED <<pass, sending, tries, delivered, excused>>
  BY DEF O!Queue, O!Wait, O!history
<1>2. /\ box[m].status \in {"none", "pending"}
      /\ box' = [box EXCEPT ![m] = [status |-> "pending", attempts |-> IF box[m].status = "none" THEN 0 ELSE box[m].attempts,
                                    due |-> TRUE]]
  BY DEF O!Queue, O!Wait, MailInv, MailTyped
<1>3. /\ box' \in [MailMessage -> [status : {"none", "pending", "sent", "failed"},
                                   attempts : 0..MailAttempts, due : BOOLEAN]]
      /\ \A n \in MailMessage : /\ n # m => box'[n] = box[n]
                                /\ n = m => box'[n].status = "pending" /\ box'[n].attempts \in {0, box[m].attempts}
                                /\ box'[n].status = "pending" => box'[n].attempts < MailAttempts
  BY <1>2, MailSizes DEF MailInv, MailTyped, Tallied
<1>4. MailTyped'
  BY <1>1, <1>3 DEF MailInv, MailTyped
<1>5. Tallied'
  BY <1>1, <1>2, <1>3 DEF MailInv, MailTyped, Tallied
<1>6. ASSUME NEW n \in MailMessage \ excused PROVE Single(n)'
  <2>1. Single(n)
    BY DEF MailInv
  <2>2. box'[n].status = box[n].status \/ (box[n].status # "sent" /\ box'[n].status = "pending")
    BY <1>2, <1>3
  <2> QED BY <1>1, <2>1, <2>2 DEF Single
<1> QED BY <1>1, <1>4, <1>5, <1>6 DEF MailInv

\* A sender loads what is due.
LEMMA LoadInv ==
  ASSUME MailInv, NEW s \in MailSender, O!Load(s)
  PROVE  MailInv'
<1>1. /\ sending[s] = O!Resting
      /\ UNCHANGED <<box, sending, tries, delivered>>
  BY DEF O!Load
<1>2. PICK batch \in O!kSubset(IF O!Cardinality(O!Due) < MailBatch THEN O!Cardinality(O!Due) ELSE MailBatch, O!Due) :
         /\ pass' = [pass EXCEPT ![s] = [m \in batch |-> box[m].attempts]]
         /\ excused' = excused \cup (batch \cap O!Held(s))
  BY DEF O!Load
<1>3. batch \subseteq O!Due /\ O!Cardinality(batch) <= MailBatch
  <2>1. O!Due \subseteq MailMessage
    BY DEF O!Due
  <2>2. Cardinality(O!Due) \in Nat
    BY <2>1, FS_Subset, FS_CardinalityType, MailSizes
  <2> QED BY <2>2, <1>2, SameCount, MailSizes DEF O!kSubset
<1>4. \A m \in batch : m \in MailMessage /\ box[m].status = "pending"
  BY <1>3 DEF O!Due
<1>5. /\ pass'[s] = [m \in batch |-> box[m].attempts]
      /\ \A q \in MailSender \ {s} : pass'[q] = pass[q]
  BY <1>2 DEF MailInv, MailTyped
<1>6. MailTyped'
  <2>1. \A m \in batch : box[m].attempts \in 0..(MailAttempts - 1)
    BY <1>4, MailSizes DEF MailInv, MailTyped, Tallied
  <2>2. pass'[s] \in UNION {[U -> 0..(MailAttempts - 1)] : U \in SUBSET MailMessage}
    BY <1>4, <1>5, <2>1, IsPass
  <2>3. pass' \in [MailSender -> UNION {[U -> 0..(MailAttempts - 1)] : U \in SUBSET MailMessage}]
    BY <1>2, <1>5, <2>2 DEF MailInv, MailTyped
  <2>4. DOMAIN pass'[s] = batch
    BY <1>5
  <2>5. excused' \subseteq MailMessage
    BY <1>2, <1>4 DEF MailInv, MailTyped
  <2> QED BY <1>1, <1>3, <1>5, <2>3, <2>4, <2>5 DEF MailInv, MailTyped
<1>7. Tallied'
  <2>1. \A m \in batch : pass'[s][m] = box[m].attempts /\ box[m].attempts <= tries[m]
    BY <1>4, <1>5 DEF MailInv, Tallied
  <2>2. DOMAIN pass'[s] = batch
    BY <1>5
  <2> QED BY <1>1, <1>5, <2>1, <2>2 DEF MailInv, Tallied
<1>8. ASSUME NEW n \in MailMessage \ excused' PROVE Single(n)'
  <2>1. Single(n) /\ n \notin batch \cap O!Held(s)
    BY <1>2, <1>8 DEF MailInv
  <2>2. n \in DOMAIN pass'[s] <=> n \in batch
    BY <1>5
  <2>3. n \in batch => \A q \in MailSender \ {s} : n \notin DOMAIN pass'[q]
    BY <1>5, <2>1 DEF O!Held
  <2> QED BY <1>1, <1>4, <1>5, <2>1, <2>2, <2>3 DEF Single
<1> QED BY <1>6, <1>7, <1>8 DEF MailInv

\* A mail is handed over: the server takes it, refuses it, or takes it unheard.
LEMMA HandInv ==
  ASSUME MailInv, NEW s \in MailSender, NEW m \in MailMessage,
         NEW outcome \in {"taken", "refused", "unknown"}, O!Hand(s, m, outcome)
  PROVE  MailInv'
<1>1. /\ m \in DOMAIN pass[s] /\ sending[s] = O!Resting
      /\ UNCHANGED <<box, pass>>
      /\ sending' = [sending EXCEPT ![s] = <<m, IF outcome = "taken" THEN "sent" ELSE "error">>]
      /\ tries' = [tries EXCEPT ![m] = O!UpTo(MailAttempts, @ + 1)]
      /\ delivered' = IF outcome = "refused" THEN delivered ELSE [delivered EXCEPT ![m] = O!UpTo(2, @ + 1)]
      /\ excused' = IF outcome = "unknown" THEN excused \cup {m} ELSE excused
  BY DEF O!Hand
<1>2. /\ sending'[s] = <<m, IF outcome = "taken" THEN "sent" ELSE "error">> /\ sending'[s] # O!Resting
      /\ \A q \in MailSender \ {s} : sending'[q] = sending[q]
  BY <1>1 DEF MailInv, MailTyped, O!Resting
<1>3. /\ tries'[m] \in 0..MailAttempts /\ tries[m] <= tries'[m]
      /\ tries'[m] = MailAttempts \/ tries'[m] = tries[m] + 1
      /\ \A n \in MailMessage \ {m} : tries'[n] = tries[n]
      /\ tries' \in [MailMessage -> 0..MailAttempts]
  BY <1>1, MailSizes DEF MailInv, MailTyped, O!UpTo
<1>4. /\ delivered' \in [MailMessage -> 0..2]
      /\ \A n \in MailMessage \ {m} : delivered'[n] = delivered[n]
      /\ delivered[m] = 0 => delivered'[m] <= 1
      /\ outcome = "refused" => delivered'[m] = delivered[m]
  BY <1>1 DEF MailInv, MailTyped, O!UpTo
<1>5. MailTyped'
  <2>1. sending' \in [MailSender -> {O!Resting} \cup MailMessage \X {"sent", "error"}]
    BY <1>1 DEF MailInv, MailTyped
  <2>2. \A q \in MailSender : sending'[q] # O!Resting => sending'[q][1] \in DOMAIN pass[q]
    BY <1>1, <1>2 DEF MailInv, MailTyped
  <2> QED BY <1>1, <1>3, <1>4, <2>1, <2>2 DEF MailInv, MailTyped
<1>6. Tallied'
  <2>1. \A n \in MailMessage : tries[n] <= tries'[n] /\ tries[n] \in Nat /\ tries'[n] \in Nat
    BY <1>3 DEF MailInv, MailTyped
  <2>2. ASSUME NEW n \in MailMessage
        PROVE  /\ box[n].attempts <= tries'[n]
               /\ box[n].status = "failed" => tries'[n] >= MailAttempts
    BY <2>1, MailSizes DEF MailInv, MailTyped, Tallied
  <2>3. ASSUME NEW q \in MailSender, NEW n \in DOMAIN pass[q]
        PROVE  /\ pass[q][n] <= tries'[n]
               /\ sending'[q] # O!Resting /\ sending'[q][1] = n => pass[q][n] + 1 <= tries'[n]
    <3>1. n \in MailMessage /\ pass[q][n] \in 0..(MailAttempts - 1)
      BY <2>3, PassTyped DEF MailInv
    <3>2. pass[q][n] <= tries[n]
      BY <2>3 DEF MailInv, Tallied
    <3>3. pass[q][n] <= tries'[n]
      BY <2>1, <3>1, <3>2, MailSizes
    <3>4. CASE q = s /\ n = m
      BY <1>3, <2>1, <3>1, <3>2, <3>3, <3>4, MailSizes
    <3>5. CASE q = s /\ n # m
      BY <1>2, <3>3, <3>5
    <3>6. CASE q # s
      <4>1. sending[q] # O!Resting /\ sending[q][1] = n => pass[q][n] + 1 <= tries[n]
        BY <2>3 DEF MailInv, Tallied
      <4> QED BY <1>2, <2>1, <3>1, <3>3, <3>6, <4>1, MailSizes
    <3> QED BY <3>4, <3>5, <3>6
  <2> QED BY <1>1, <2>2, <2>3 DEF MailInv, Tallied
<1>7. ASSUME NEW n \in MailMessage \ excused' PROVE Single(n)'
  <2>1. Single(n)
    BY <1>1, <1>7 DEF MailInv
  <2>2. CASE n # m
    <3>1. ASSUME NEW q \in MailSender, sending[q] = <<n, "sent">> PROVE sending'[q] = <<n, "sent">>
      <4>1. q # s
        BY <1>1, <3>1 DEF O!Resting
      <4> QED BY <1>2, <3>1, <4>1
    <3> QED BY <1>1, <1>4, <2>1, <2>2, <3>1 DEF Single
  <2>3. CASE n = m
    <3>1. outcome \in {"taken", "refused"}
      BY <1>1, <1>7, <2>3
    <3>2. box[m].status = "pending"
      BY <1>1, <2>1, <2>3 DEF Single
    <3>3. \A q \in MailSender : sending[q] # <<m, "sent">>
      <4> SUFFICES ASSUME NEW q \in MailSender, sending[q] = <<m, "sent">> PROVE FALSE
        OBVIOUS
      <4>1. m \in DOMAIN pass[q]
        <5>1. sending[q] # O!Resting /\ sending[q][1] = m
          BY DEF O!Resting
        <5> QED BY <5>1 DEF MailInv, MailTyped
      <4>2. q = s
        BY <1>1, <2>1, <2>3, <4>1 DEF Single
      <4> QED BY <1>1, <4>2 DEF O!Resting
    <3>4. delivered[m] = 0
      BY <2>1, <2>3, <3>2, <3>3 DEF Single, MailInv, MailTyped
    <3>5. delivered'[m] <= 1 /\ (delivered'[m] = 1 => sending'[s] = <<m, "sent">>)
      BY <1>2, <1>4, <3>1, <3>4
    <3> QED BY <1>1, <2>1, <2>3, <3>5 DEF Single
  <2> QED BY <2>2, <2>3
<1> QED BY <1>5, <1>6, <1>7 DEF MailInv

\* What came of a mail is written to its row.
LEMMA RecordInv ==
  ASSUME MailInv, NEW s \in MailSender, O!Record(s)
  PROVE  MailInv'
<1> DEFINE m == sending[s][1]
           attempts == pass[s][m] + 1
           how == sending[s][2]
<1>1. /\ sending[s] # O!Resting
      /\ box' = [box EXCEPT ![m] = IF how = "sent" THEN O!Sent(@, attempts) ELSE O!Retried(@, attempts)]
      /\ pass' = [pass EXCEPT ![s] = [q \in DOMAIN pass[s] \ {m} |-> pass[s][q]]]
      /\ sending' = [sending EXCEPT ![s] = O!Resting]
      /\ UNCHANGED <<tries, delivered, excused>>
  BY DEF O!Record, O!Rest, O!history
<1>2. /\ m \in DOMAIN pass[s] /\ m \in MailMessage /\ how \in {"sent", "error"}
      /\ sending[s] = <<m, how>>
  BY <1>1 DEF MailInv, MailTyped
<1>3. /\ attempts \in 1..MailAttempts /\ attempts <= tries[m]
      /\ tries[m] \in 0..MailAttempts
  <2>1. pass[s][m] \in 0..(MailAttempts - 1)
    BY <1>2, PassTyped DEF MailInv
  <2> QED BY <1>1, <1>2, <2>1, MailSizes DEF MailInv, MailTyped, Tallied
<1> HIDE DEF m, attempts, how
<1>4. /\ pass'[s] = [q \in DOMAIN pass[s] \ {m} |-> pass[s][q]]
      /\ DOMAIN pass'[s] = DOMAIN pass[s] \ {m}
      /\ \A q \in MailSender \ {s} : pass'[q] = pass[q] /\ sending'[q] = sending[q]
      /\ sending'[s] = O!Resting
  BY <1>1 DEF MailInv, MailTyped
<1>5. /\ box' \in [MailMessage -> [status : {"none", "pending", "sent", "failed"},
                                   attempts : 0..MailAttempts, due : BOOLEAN]]
      /\ \A n \in MailMessage \ {m} : box'[n] = box[n]
      /\ box'[m].attempts = attempts
      /\ how = "sent" => box'[m].status = "sent"
      /\ how = "error" => box'[m].status = IF attempts >= MailAttempts THEN "failed" ELSE box[m].status
  <2> DEFINE Rows == [status : {"none", "pending", "sent", "failed"}, attempts : 0..MailAttempts, due : BOOLEAN]
             new == IF how = "sent" THEN O!Sent(box[m], attempts) ELSE O!Retried(box[m], attempts)
  <2>1. box[m] \in Rows /\ attempts \in 0..MailAttempts
    BY <1>2, <1>3 DEF MailInv, MailTyped
  <2>2. CASE how = "sent"
    <3>1. /\ new = [box[m] EXCEPT !.status = "sent", !.attempts = attempts]
      BY <2>2 DEF O!Sent
    <3>2. new \in Rows /\ new.attempts = attempts /\ new.status = "sent"
      BY <2>1, <3>1
    <3> QED BY <1>1, <1>2, <2>2, <3>2 DEF MailInv, MailTyped
  <2>3. CASE how = "error" /\ attempts >= MailAttempts
    <3>1. new = [box[m] EXCEPT !.attempts = attempts, !.status = "failed"]
      BY <2>3 DEF O!Retried
    <3>2. new \in Rows /\ new.attempts = attempts /\ new.status = "failed"
      BY <2>1, <3>1
    <3> QED BY <1>1, <1>2, <2>3, <3>2 DEF MailInv, MailTyped
  <2>4. CASE how = "error" /\ ~(attempts >= MailAttempts)
    <3>1. new = [box[m] EXCEPT !.attempts = attempts, !.due = FALSE]
      BY <2>4 DEF O!Retried
    <3>2. new \in Rows /\ new.attempts = attempts /\ new.status = box[m].status
      BY <2>1, <3>1
    <3> QED BY <1>1, <1>2, <2>4, <3>2 DEF MailInv, MailTyped
  <2> QED BY <1>2, <2>2, <2>3, <2>4
<1>6. MailTyped'
  <2>1. pass'[s] \in UNION {[U -> 0..(MailAttempts - 1)] : U \in SUBSET MailMessage}
    <3>1. /\ DOMAIN pass[s] \ {m} \in SUBSET MailMessage
          /\ pass'[s] \in [DOMAIN pass[s] \ {m} -> 0..(MailAttempts - 1)]
      BY <1>4, PassTyped DEF MailInv
    <3> QED BY <3>1, IsPass
  <2>2. pass' \in [MailSender -> UNION {[U -> 0..(MailAttempts - 1)] : U \in SUBSET MailMessage}]
    BY <1>1, <1>4, <2>1 DEF MailInv, MailTyped
  <2>3. Cardinality(DOMAIN pass'[s]) <= MailBatch
    <3>1. Cardinality(DOMAIN pass[s]) <= MailBatch
      BY SameCount DEF MailInv, MailTyped
    <3>2. /\ Cardinality(DOMAIN pass[s] \ {m}) <= Cardinality(DOMAIN pass[s])
          /\ Cardinality(DOMAIN pass[s] \ {m}) \in Nat /\ Cardinality(DOMAIN pass[s]) \in Nat
      BY PassTyped, FS_Subset, FS_CardinalityType DEF MailInv
    <3> QED BY <1>4, <3>1, <3>2, MailSizes
  <2>4. sending' \in [MailSender -> {O!Resting} \cup MailMessage \X {"sent", "error"}]
    BY <1>1 DEF MailInv, MailTyped
  <2>5. ASSUME NEW q \in MailSender
        PROVE  /\ O!Cardinality(DOMAIN pass'[q]) <= MailBatch
               /\ sending'[q] # O!Resting => sending'[q][1] \in DOMAIN pass'[q]
    BY <1>4, <2>3, SameCount DEF MailInv, MailTyped
  <2> QED BY <1>1, <1>5, <2>2, <2>4, <2>5 DEF MailInv, MailTyped
<1>7. Tallied'
  <2>1. ASSUME NEW n \in MailMessage
        PROVE  /\ box'[n].attempts <= tries[n]
               /\ box'[n].status = "pending" => box'[n].attempts < MailAttempts
               /\ box'[n].status = "failed" => tries[n] >= MailAttempts
    <3>1. CASE n # m
      BY <1>5, <3>1 DEF MailInv, Tallied
    <3>2. CASE n = m
      BY <1>2, <1>3, <1>5, <3>2, MailSizes DEF MailInv, Tallied
    <3> QED BY <3>1, <3>2
  <2>2. ASSUME NEW q \in MailSender, NEW n \in DOMAIN pass'[q]
        PROVE  /\ pass'[q][n] <= tries[n]
               /\ sending'[q] # O!Resting /\ sending'[q][1] = n => pass'[q][n] + 1 <= tries[n]
    <3>1. CASE q = s
      BY <1>4, <2>2, <3>1 DEF MailInv, Tallied
    <3>2. CASE q # s
      BY <1>4, <2>2, <3>2 DEF MailInv, Tallied
    <3> QED BY <3>1, <3>2
  <2> QED BY <1>1, <2>1, <2>2 DEF Tallied
<1>8. ASSUME NEW n \in MailMessage \ excused' PROVE Single(n)'
  <2>1. Single(n) /\ n \in MailMessage
    BY <1>1, <1>8 DEF MailInv
  <2>2. \A q \in MailSender : n \in DOMAIN pass'[q] => n \in DOMAIN pass[q] /\ ~(q = s /\ n = m)
    BY <1>4
  <2>3. CASE n # m
    <3>1. ASSUME NEW q \in MailSender, sending[q] = <<n, "sent">> PROVE sending'[q] = <<n, "sent">>
      <4>1. q # s
        BY <1>2, <2>3, <3>1
      <4> QED BY <1>4, <3>1, <4>1
    <3> QED BY <1>1, <1>5, <2>1, <2>2, <2>3, <3>1 DEF Single
  <2>4. CASE n = m
    <3>1. box[m].status = "pending" /\ \A q \in MailSender : m \notin DOMAIN pass'[q]
      BY <1>2, <2>1, <2>2, <2>4 DEF Single
    <3>2. ASSUME delivered[m] = 1 PROVE box'[m].status = "sent"
      <4>1. PICK q \in MailSender : sending[q] = <<m, "sent">>
        BY <2>1, <2>4, <3>1, <3>2 DEF Single
      <4>2. m \in DOMAIN pass[q]
        <5>1. sending[q] # O!Resting /\ sending[q][1] = m
          BY <4>1 DEF O!Resting
        <5> QED BY <5>1 DEF MailInv, MailTyped
      <4>3. q = s
        BY <1>2, <2>1, <2>4, <4>2 DEF Single
      <4>4. how = "sent"
        BY <1>2, <4>1, <4>3
      <4> QED BY <1>5, <4>4
    <3> QED BY <1>1, <2>1, <2>4, <3>1, <3>2 DEF Single
  <2> QED BY <2>3, <2>4
<1> QED BY <1>6, <1>7, <1>8 DEF MailInv

\* A pass is cut short.
LEMMA AbandonInv ==
  ASSUME MailInv, NEW s \in MailSender, O!Abandon(s)
  PROVE  MailInv'
<1>1. /\ pass' = [pass EXCEPT ![s] = O!Nothing] /\ sending' = [sending EXCEPT ![s] = O!Resting]
      /\ excused' = IF sending[s] = O!Resting THEN excused ELSE excused \cup {sending[s][1]}
      /\ UNCHANGED <<box, tries, delivered>>
  BY DEF O!Abandon
<1>2. /\ DOMAIN pass'[s] = {} /\ pass'[s] = O!Nothing /\ sending'[s] = O!Resting
      /\ \A q \in MailSender \ {s} : pass'[q] = pass[q] /\ sending'[q] = sending[q]
  BY <1>1 DEF MailInv, MailTyped, O!Nothing
<1>3. MailTyped'
  <2>1. O!Nothing \in UNION {[U -> 0..(MailAttempts - 1)] : U \in SUBSET MailMessage}
    <3>1. O!Nothing \in [{} -> 0..(MailAttempts - 1)]
      BY DEF O!Nothing
    <3> QED BY <3>1, IsPass
  <2>2. /\ pass' \in [MailSender -> UNION {[U -> 0..(MailAttempts - 1)] : U \in SUBSET MailMessage}]
        /\ sending' \in [MailSender -> {O!Resting} \cup MailMessage \X {"sent", "error"}]
    BY <1>1, <2>1 DEF MailInv, MailTyped
  <2>3. O!Cardinality({}) <= MailBatch
    BY SameCount, FS_EmptySet, MailSizes
  <2>4. ASSUME NEW q \in MailSender
        PROVE  /\ O!Cardinality(DOMAIN pass'[q]) <= MailBatch
               /\ sending'[q] # O!Resting => sending'[q][1] \in DOMAIN pass'[q]
    BY <1>2, <2>3 DEF MailInv, MailTyped
  <2>5. excused' \subseteq MailMessage
    BY <1>1 DEF MailInv, MailTyped
  <2> QED BY <1>1, <2>2, <2>4, <2>5 DEF MailInv, MailTyped
<1>4. Tallied'
  <2>1. ASSUME NEW q \in MailSender, NEW n \in DOMAIN pass'[q]
        PROVE  /\ pass'[q][n] <= tries[n]
               /\ sending'[q] # O!Resting /\ sending'[q][1] = n => pass'[q][n] + 1 <= tries[n]
    <3>1. q # s
      BY <1>2, <2>1
    <3> QED BY <1>2, <2>1, <3>1 DEF MailInv, Tallied
  <2> QED BY <1>1, <2>1 DEF MailInv, Tallied
<1>5. ASSUME NEW n \in MailMessage \ excused' PROVE Single(n)'
  <2>1. Single(n)
    BY <1>1, <1>5 DEF MailInv
  <2>2. ASSUME NEW q \in MailSender, sending[q] = <<n, "sent">> PROVE sending'[q] = <<n, "sent">>
    <3>1. sending[q] # O!Resting /\ sending[q][1] = n
      BY <2>2 DEF O!Resting
    <3>2. q # s
      BY <1>1, <1>5, <3>1
    <3> QED BY <1>2, <2>2, <3>2
  <2> QED BY <1>1, <1>2, <2>1, <2>2 DEF Single
<1> QED BY <1>3, <1>4, <1>5 DEF MailInv

LEMMA MailStepInv == MailInv /\ [O!Next]_(O!vars) => MailInv'
<1> SUFFICES ASSUME MailInv, [O!Next]_(O!vars) PROVE MailInv'
  OBVIOUS
<1>1. CASE UNCHANGED O!vars
  BY <1>1 DEF O!vars, O!row, O!history, MailInv, MailTyped, Tallied, Single
<1>2. ASSUME NEW s \in MailSender, O!Go(s) PROVE MailInv'
  BY <1>2, LoadInv, RecordInv, HandInv DEF O!Go
<1> QED BY <1>1, <1>2, BoxInv, AbandonInv DEF O!Next

-----------------------------------------------------------------------------
(* The theorems. *)

LEMMA PeopleInv == MCSpec => [](AccessInv /\ MailInv)
<1>1. MCInit => AccessInv /\ MailInv
  BY AccessInitInv, MailInitInv DEF MCInit
<1>2. AccessInv /\ MailInv /\ [MCNext]_<<vars, mail>> => (AccessInv /\ MailInv)'
  <2> SUFFICES ASSUME AccessInv, MailInv, [MCNext]_<<vars, mail>> PROVE AccessInv' /\ MailInv'
    OBVIOUS
  <2>1. [Next]_vars
    BY DEF MCNext
  <2>2. [O!Next]_(O!vars)
    BY DEF MCNext, mail, O!vars, O!row, O!history
  <2> QED BY <2>1, <2>2, AccessStepInv, MailStepInv
<1> QED BY <1>1, <1>2, PTL DEF MCSpec

\* For any number of messages, senders, attempts and faults, and however their
\* passes overlap: a message is delivered twice only if that went unnoticed or
\* two passes had loaded it, and is given up only after MAX_ATTEMPTS attempts;
\* the tables of people and of mail keep their types.
THEOREM MailIsSentOnce == MCSpec => []OneMailEach
<1>1. AccessInv => TypeOK
  <2> SUFFICES ASSUME AccessInv PROVE TypeOK
    OBVIOUS
  <2>1. ASSUME NEW p \in Person, work[p] # Idle
        PROVE  /\ work[p].op \in Operation \cup {"signin"} /\ work[p].todo \subseteq Person
               /\ DOMAIN work[p].writes = Person
    <3>1. work[p] \in Busy
      BY <2>1 DEF AccessInv, Typed
    <3> QED BY <3>1 DEF Busy
  <2>2. ASSUME NEW p \in Watcher, stream[p] # Closed
        PROVE  stream[p].topics \subseteq 0..nextId /\ stream[p].queued \in 0..QueueLimit
    <3>1. stream[p] \in Listening
      BY <2>2 DEF AccessInv, Typed
    <3> QED BY <3>1 DEF Listening
  <2> QED BY <2>1, <2>2 DEF AccessInv, Typed, TypeOK, Maybe
<1>2. MailInv => O!TypeOK /\ O!OneMailEach
  <2> SUFFICES ASSUME MailInv PROVE O!TypeOK /\ O!OneMailEach
    OBVIOUS
  <2>1. O!TypeOK
    BY PassTyped DEF MailInv, MailTyped, O!TypeOK
  <2>2. ASSUME NEW m \in MailMessage, delivered[m] > 1 PROVE m \in excused
    <3>1. delivered[m] \in 0..2
      BY DEF MailInv, MailTyped
    <3> QED BY <2>2, <3>1 DEF MailInv, Single
  <2>3. O!TriedEnough
    BY DEF MailInv, Tallied, O!TriedEnough
  <2> QED BY <2>1, <2>2, <2>3 DEF O!OneMailEach, O!SentOnce
<1> QED BY <1>1, <1>2, PeopleInv, PTL DEF OneMailEach

\* A step that changes who is an administrator, or whom the table lets in, is a
\* commit.
LEMMA OnlyCommits ==
  ASSUME AccessInv, [Next]_vars, people' # people
  PROVE  \E a \in Person : Commit(a)
<1>1. CASE UNCHANGED vars
  BY <1>1 DEF vars, table
<1>2. ASSUME NEW a \in Person, Step(a) \/ Fault(a) PROVE Commit(a)
  BY <1>2 DEF Step, Look, Skip, Act, Stale, TimeOut, Fault, Undo, table
<1>3. ASSUME NEW a \in Person, NEW op \in Operation, NEW targets \in scene.about, Request(a, op, targets) PROVE FALSE
  BY <1>3 DEF Request, table
<1>4. ASSUME NEW p \in Watcher, Fetch(p) \/ Browse(p) \/ Close(p) \/ Break(p) PROVE FALSE
  BY <1>4 DEF Fetch, Refresh, SignIn, Browse, Open, Subscribe, Hear, Close, Break, table
<1>5. ASSUME NEW topic \in wire, Receive(topic) PROVE FALSE
  BY <1>5 DEF Receive, table
<1> QED BY <1>1, <1>2, <1>3, <1>4, <1>5 DEF Next

\* For any number of people and of requests, whatever they read before another
\* one committed: the last administrator goes only by a refusal, or when an
\* administrator went, or the first came, while a request was under way; and
\* who loses access is in the audit of the commit that took it.
THEOREM AccessIsOnRecord == MCSpec => AccessIsKept
<1>1. ASSUME AccessInv, [Next]_vars, NEW a \in Person, Commit(a)
      PROVE  /\ Administrators(people) # {} /\ Administrators(people') = {} =>
                    Ends(a) /\ (work[a].raced \/ work[a].op = "reject")
             /\ \A p \in Person :
                   \/ Approved(people, p) /\ ~Approved(people', p)
                   \/ p \in Administrators(people) \ Administrators(people')
                   => Ends(a) /\ \E op \in {"reject", "demote", "remove"} :
                                    <<op, p>> \in work[a].audit /\ <<op, p>> \in audit'
  <2>1. work[a] # Idle /\ Deeds(a) /\ Counted(a) /\ Typed
    BY <1>1 DEF Commit, Finished, AccessInv
  <2>2. people' = Seen(a) /\ audit' = audit \cup work[a].audit
    BY <1>1 DEF Commit
  <2>3. Ends(a)
    BY <1>1, <2>1 DEF Commit, Ends
  <2>4. ASSUME NEW p \in Person,
               \/ Approved(people, p) /\ ~Approved(people', p)
               \/ p \in Administrators(people) \ Administrators(people')
        PROVE  work[a].op \in {"reject", "demote", "remove"} /\ <<work[a].op, p>> \in work[a].audit
    BY <2>1, <2>2, <2>4, LossSaid
  <2>5. ASSUME Administrators(people) # {}, Administrators(people') = {}
        PROVE  work[a].raced \/ work[a].op = "reject"
    <3>1. PICK p \in Person : p \in Administrators(people)
      BY <2>5 DEF Administrators
    <3>2. work[a].op \in {"reject", "demote", "remove"}
      BY <2>4, <2>5, <3>1
    <3> QED BY <2>1, <2>2, <2>5, <3>2 DEF Counted
  <2> QED BY <2>2, <2>3, <2>4, <2>5
<1>2. AccessInv /\ [MCNext]_<<vars, mail>> =>
         [Administrators(people) # {} /\ Administrators(people') = {} =>
            \E a \in Person : Ends(a) /\ (work[a].raced \/ work[a].op = "reject")]_vars
  <2> SUFFICES ASSUME AccessInv, [MCNext]_<<vars, mail>>, Administrators(people) # {}, Administrators(people') = {}
               PROVE  \E a \in Person : Ends(a) /\ (work[a].raced \/ work[a].op = "reject")
    OBVIOUS
  <2>1. [Next]_vars
    BY DEF MCNext
  <2>2. PICK a \in Person : Commit(a)
    BY <2>1, OnlyCommits
  <2> QED BY <1>1, <2>1, <2>2
<1>3. AccessInv /\ [MCNext]_<<vars, mail>> =>
         [\A p \in Person :
            \/ Approved(people, p) /\ ~Approved(people', p)
            \/ p \in Administrators(people) \ Administrators(people')
            => \E a \in Person : Ends(a) /\ \E op \in {"reject", "demote", "remove"} :
                                    <<op, p>> \in work[a].audit /\ <<op, p>> \in audit']_vars
  <2> SUFFICES ASSUME AccessInv, [MCNext]_<<vars, mail>>, NEW p \in Person,
                      \/ Approved(people, p) /\ ~Approved(people', p)
                      \/ p \in Administrators(people) \ Administrators(people')
               PROVE  \E a \in Person : Ends(a) /\ \E op \in {"reject", "demote", "remove"} :
                                           <<op, p>> \in work[a].audit /\ <<op, p>> \in audit'
    OBVIOUS
  <2>1. [Next]_vars
    BY DEF MCNext
  <2>2. people' # people
    OBVIOUS
  <2>3. PICK a \in Person : Commit(a)
    BY <2>1, <2>2, OnlyCommits
  <2> QED BY <1>1, <2>1, <2>3
<1> QED BY <1>2, <1>3, PeopleInv, PTL DEF MCSpec, AccessIsKept, AdministratorsRemain, LossIsAudited
=================================================================================
