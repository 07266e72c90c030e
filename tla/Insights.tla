--------------------------------- MODULE Insights ---------------------------------
(***************************************************************************)
(* The insights of one run: reworded by a provider and put back            *)
(* (insight_service.py, llm.py), by transactions that load, ask, write the *)
(* columns that differ and commit; and read by pages that keep what they   *)
(* were given for as long as the server says that it has not changed       *)
(* (routes/dashboard.py, httpcache.py, and cache.py between them).         *)
(***************************************************************************)
EXTENDS Integers, FiniteSets, FiniteSetsExt

CONSTANTS
    Insight,
    Writer,     \* requests that reword or put back, at one time
    Browser,
    MaxWrites,  \* bound: such requests ever made
    MaxReads    \* bound: times that a page asks

VARIABLES
    row,        \* committed: whose wording an insight has, 0 being the platform's, whether
                \* llm_rewritten says so, and updated_at
    events,     \* committed: of which requests' answers the usage events say that they were applied
    write,      \* the request of each writer
    writes,     \* how many there have been
    clock,
    version,    \* history: the commits that changed something
    cache,      \* dashboard_cache, by the token in the key
    page,       \* what each browser holds, and its ETag
    read,       \* the request of each browser
    reads,      \* how many there have been
    overlapped, \* history: two requests to write were open at one time
    behind      \* history: one was committed behind another that had written after it

stored == <<row, events, version, overlapped, behind>>
writing == <<write, writes, clock>>
reading == <<cache, page, read, reads>>
vars == <<stored, writing, reading>>

Platform == 0
Idle == [phase |-> "idle"]
Plain == [text |-> Platform, rewritten |-> FALSE]
Wording(of) == [i \in Insight |-> [text |-> of[i].text, rewritten |-> of[i].rewritten]]
Nothing == [token |-> -1, version |-> -1, items |-> Wording([i \in Insight |-> Plain])]

\* entity Insight, and LlmUsageEvent
Texts == 0..MaxWrites + 1
Row == [text : Texts, rewritten : BOOLEAN, updated : 0..clock]
Event == [of : Texts \ {Platform}, insight : Insight]

TypeOK ==
    /\ \A i \in Insight : row[i] \in Row
    /\ events \subseteq Event
    /\ \A w \in Writer : write[w].phase \in {"idle", "asking", "worded", "flushed"}
    /\ version \in 0..MaxWrites /\ writes \in 0..MaxWrites /\ reads \in 0..MaxReads
    /\ \A b \in Browser : /\ read[b].phase \in {"idle", "opened", "computed"}
                          /\ page[b].version \in -1..version
    /\ \A e, f \in cache : e.token = f.token => e = f

Untouched ==
    /\ events = {[of |-> row[i].text, insight |-> i] : i \in {j \in Insight : row[j].rewritten}}
    /\ write = [w \in Writer |-> Idle] /\ writes = 0 /\ clock = 0 /\ version = 0
    /\ cache = {} /\ page = [b \in Browser |-> Nothing] /\ read = [b \in Browser |-> Idle] /\ reads = 0
    /\ overlapped = FALSE /\ behind = FALSE

\* _persist_insights: each as it was computed, or as the provider put it
Init ==
    /\ row \in [Insight -> {[text |-> Platform, rewritten |-> FALSE, updated |-> 0],
                            [text |-> MaxWrites + 1, rewritten |-> TRUE, updated |-> 0]}]
    /\ Untouched

-----------------------------------------------------------------------------
(* rewrite and reset. *)
Goes(w, new) == write' = [write EXCEPT ![w] = new]

\* rewrite, or reset, which asks nobody; nor does rewrite when no key is configured
Load(w) ==
    /\ write[w] = Idle /\ writes < MaxWrites
    /\ writes' = writes + 1
    /\ \/ Goes(w, [phase |-> "asking", seen |-> Wording(row), of |-> writes + 1])
       \/ Goes(w, [phase |-> "worded", seen |-> Wording(row), stamp |-> 0, of |-> Platform,
                   draft |-> [i \in Insight |-> Plain]])
    /\ overlapped' = (overlapped \/ \E v \in Writer : write[v] # Idle)
    /\ UNCHANGED <<row, events, version, behind, clock, reading>>

\* _call_llm_api for one insight: nobody answers, or only to refuse; the answer is empty; or it is text
Answer == {"no answer", "empty", "text"}

\* what _apply_rewrite does: it keeps the computed wording when the circuit is open or there is no text, and
\* when the text is out of shape or changes a figure
Applicable(answer) == IF answer = "text" THEN BOOLEAN ELSE {FALSE}
Draft(w, applied) ==
    [i \in Insight |-> IF i \in applied THEN [text |-> write[w].of, rewritten |-> TRUE] ELSE Plain]

\* record_usage: one event for each insight that was asked about, of which those applied are kept here
Credited(q) == {[of |-> q.of, insight |-> i] : i \in {j \in Insight : q.draft[j].rewritten}}

Reword(w) ==
    /\ write[w].phase = "asking"
    /\ \E answer \in [Insight -> Answer] :
       \E applied \in {S \in SUBSET Insight : \A i \in Insight : (i \in S) \in Applicable(answer[i])} :
          Goes(w, [phase |-> "worded", seen |-> write[w].seen, stamp |-> 0, of |-> write[w].of,
                   draft |-> Draft(w, applied)])
    /\ UNCHANGED <<stored, writes, clock, reading>>

Touched(w) == {i \in Insight : write[w].draft[i] # write[w].seen[i]}
Locked(w) == UNION {Touched(v) : v \in {u \in Writer \ {w} : write[u].phase = "flushed"}}

\* the flush, and forget_run behind it, ahead of the commit
Flush(w) ==
    /\ write[w].phase = "worded" /\ Touched(w) \cap Locked(w) = {}
    /\ clock' = clock + 1
    /\ Goes(w, [write[w] EXCEPT !.phase = "flushed", !.stamp = clock'])
    /\ cache' = {}
    /\ UNCHANGED <<stored, writes, page, read, reads>>

Merge(old, new, now) == [c \in {"text", "rewritten"} |-> IF new[c] # old[c] THEN new[c] ELSE now[c]]

Commit(w) ==
    LET q == write[w] IN
    /\ q.phase = "flushed"
    /\ row' = [i \in Insight |->
                 IF i \notin Touched(w) THEN row[i]
                 ELSE LET m == Merge(q.seen[i], q.draft[i], row[i])
                      IN [text |-> m.text, rewritten |-> m.rewritten, updated |-> q.stamp]]
    /\ events' = events \cup Credited(q)
    /\ version' = IF Touched(w) = {} THEN version ELSE version + 1
    /\ behind' = (behind \/ (Touched(w) # {} /\ \E i \in Insight : row[i].updated > q.stamp))
    /\ Goes(w, Idle)
    /\ UNCHANGED <<overlapped, writes, clock, reading>>

\* the client is gone, or the database refuses
Abort(w) ==
    /\ write[w] # Idle /\ Goes(w, Idle)
    /\ UNCHANGED <<stored, writes, clock, reading>>

-----------------------------------------------------------------------------
(* _read. *)
\* revision, of which only the insights change here
RevisionOfRun == 0
Revision == Max({row[i].updated : i \in Insight})

Open(b) ==
    /\ read[b].phase = "idle" /\ reads < MaxReads
    /\ reads' = reads + 1
    /\ read' = [read EXCEPT ![b] = [phase |-> "opened", token |-> Revision, since |-> version]]
    /\ UNCHANGED <<stored, writing, cache, page>>

Answered(b, e) ==
    /\ page' = [page EXCEPT ![b] = [e EXCEPT !.token = read[b].token]]
    /\ read' = [read EXCEPT ![b] = [phase |-> "idle", since |-> read[b].since]]

\* conditional: 304
NotModified(b) ==
    /\ read[b].phase = "opened" /\ page[b].token = read[b].token
    /\ Answered(b, page[b])
    /\ UNCHANGED <<stored, writing, cache, reads>>

\* get_or_set, which AsyncCache has in full: the key holds the token
Hit(b) ==
    /\ read[b].phase = "opened" /\ page[b].token # read[b].token
    /\ \E e \in cache : e.token = read[b].token /\ Answered(b, e)
    /\ UNCHANGED <<stored, writing, cache, reads>>

\* compute, by the one who leads or was left by the one who did
Compute(b) ==
    /\ read[b].phase = "opened" /\ page[b].token # read[b].token
    /\ \A e \in cache : e.token # read[b].token
    /\ read' = [read EXCEPT ![b] = [phase |-> "computed", token |-> @.token, since |-> @.since,
                    made |-> [token |-> @.token, version |-> version, items |-> Wording(row)]]]
    /\ UNCHANGED <<stored, writing, cache, page, reads>>

Join(b, leader) ==
    /\ read[b].phase = "opened" /\ page[b].token # read[b].token
    /\ read[leader].phase = "computed" /\ read[leader].token = read[b].token
    /\ Answered(b, read[leader].made)
    /\ UNCHANGED <<stored, writing, cache, reads>>

Store(b) ==
    /\ read[b].phase = "computed"
    /\ cache' = {e \in cache : e.token # read[b].token} \cup {read[b].made}
    /\ Answered(b, read[b].made)
    /\ UNCHANGED <<stored, writing, reads>>

\* the page goes away before it is answered
Leave(b) ==
    /\ read[b].phase \in {"opened", "computed"}
    /\ read' = [read EXCEPT ![b] = Idle] /\ page' = [page EXCEPT ![b] = Nothing]
    /\ UNCHANGED <<stored, writing, cache, reads>>

\* an entry expires, or is evicted
Expire ==
    /\ \E e \in cache : cache' = cache \ {e}
    /\ UNCHANGED <<stored, writing, page, read, reads>>

Next ==
    \/ \E w \in Writer : Load(w) \/ Reword(w) \/ Flush(w) \/ Commit(w) \/ Abort(w)
    \/ \E b \in Browser :
          \/ Open(b) \/ NotModified(b) \/ Hit(b) \/ Compute(b) \/ Store(b) \/ Leave(b)
          \/ \E leader \in Browser \ {b} : Join(b, leader)
    \/ Expire

Spec == Init /\ [][Next]_vars

-----------------------------------------------------------------------------
\* A page that has its answer shows whatever was committed when it asked, be the answer computed,
\* cached, joined or "not modified", and though the cache is emptied before the commit it is emptied
\* for; unless requests were committed in another order than they wrote in, when the newest time of
\* writing stands still.  And an insight is marked as reworded exactly when its words are the
\* provider's, in the table and on every page, however often it was reworded and put back; unless two
\* such requests overlapped.  Words of the provider that are shown have a usage event that says they
\* were applied, overlapping or not.
PageIsCurrent ==
    \A b \in Browser : page[b] # Nothing /\ "since" \in DOMAIN read[b] /\ read[b].phase = "idle" =>
        page[b].version >= read[b].since \/ behind
WordingIsMarked ==
    overlapped \/
    /\ \A i \in Insight : row[i].rewritten <=> row[i].text # Platform
    /\ \A b \in Browser, i \in Insight : page[b].items[i].rewritten <=> page[b].items[i].text # Platform
WordingIsCredited ==
    \A i \in Insight : row[i].text # Platform => [of |-> row[i].text, insight |-> i] \in events
InsightsAreHonest == PageIsCurrent /\ WordingIsMarked /\ WordingIsCredited
=================================================================================
