---------------------------------- MODULE Datasets ---------------------------------
(***************************************************************************)
(* Datasets of one export, each a row with its columns and its two files,  *)
(* and the mapping that is remembered for the export: uploaded, configured,*)
(* mapped and deleted by requests that overlap (dataset_service.py,        *)
(* mapping_service.py, ingest.py).  A request is one transaction: it loads,*)
(* it writes the attributes that differ from what it loaded, which keeps   *)
(* other writers of that row waiting, and it commits.                      *)
(***************************************************************************)
EXTENDS Integers, FiniteSets

CONSTANTS
    Dataset, Column,
    Inferred,  \* the roles the profiler gives an export's columns
    Asked,     \* the choices of a time and a target column that people make
    Request,
    First,     \* the dataset there is to begin with
    MaxRequests, \* bound: requests ever made
    None

VARIABLES
    row,      \* datasets and dataset_columns, as committed
    files,    \* which of its files each dataset has on disk
    memory,   \* the schema_mappings row of the export
    request,  \* what each request has loaded and is about to write
    requests, \* how many there have been
    begun,    \* the datasets an identifier was drawn for
    kept,     \* history: the datasets whose files a failure may have left, or taken
    crossed,  \* history: a request wrote over what it had not seen
    tidy      \* history: the datasets whose mapping came with its roles

vars == <<row, files, memory, request, requests, begun, kept, crossed, tidy>>

File == {"raw", "parquet"}

ColumnWith(role) == CHOOSE c \in Column : Inferred[c] = role
Guess == [time |-> ColumnWith("time"), target |-> ColumnWith("target")]
Mapping == [time : Column, target : Column]
Row == [time : Column, target : Column, role : [Column -> {"time", "target", "measure"}]]
RowOf(mapping) == [time |-> mapping.time, target |-> mapping.target, role |-> Inferred]
MappingOf(r) == [time |-> r.time, target |-> r.target]

Kind == {"upload", "configure", "accept", "delete"}
Phase == {"received", "converted", "mapped", "loaded", "recalled", "remembered", "written", "removed"}
Pending == [kind : Kind, phase : Phase, of : Dataset, asked : Mapping,
            seen : {None} \cup Row, known : {None} \cup Mapping]

Begin(kind, phase, d, a) ==
    [kind |-> kind, phase |-> phase, of |-> d, asked |-> a, seen |-> row[d], known |-> None]

TypeOK ==
    /\ row \in [Dataset -> {None} \cup Row]
    /\ files \in [Dataset -> SUBSET File]
    /\ memory \in {None} \cup Mapping
    /\ request \in [Request -> {None} \cup Pending]
    /\ \A r \in Request : request[r] # None => request[r].of \in begun
    /\ requests \in 0..MaxRequests
    /\ begun \subseteq Dataset /\ kept \subseteq Dataset /\ tidy \subseteq Dataset
    /\ crossed \in BOOLEAN

Init ==
    /\ row = [d \in Dataset |-> IF d = First THEN RowOf(Guess) ELSE None]
    /\ files = [d \in Dataset |-> IF d = First THEN File ELSE {}]
    /\ memory = None /\ request = [r \in Request |-> None] /\ requests = 0
    /\ begun = {First} /\ kept = {} /\ crossed = FALSE /\ tidy = {First}

At(r, kind, phase) == request[r] # None /\ request[r].kind = kind /\ request[r].phase = phase
Becomes(r, new) ==
    /\ request' = [request EXCEPT ![r] = new]
    /\ requests' = IF request[r] = None THEN requests + 1 ELSE requests
Goes(r, phase) == Becomes(r, [request[r] EXCEPT !.phase = phase])

\* the session rolls back; the files stay as they are
Fails(r) ==
    /\ Becomes(r, None)
    /\ kept' = IF request[r].kind = "upload" \/ request[r].phase = "removed"
               THEN kept \cup {request[r].of} ELSE kept
    /\ UNCHANGED <<row, files, memory, begun, crossed, tidy>>

-----------------------------------------------------------------------------
(* create_from_upload, of a dataset that nobody can address before it commits. *)

Receive(r) ==
    /\ request[r] = None /\ requests < MaxRequests
    /\ \E d \in Dataset \ begun :
          /\ begun' = begun \cup {d}
          /\ files' = [files EXCEPT ![d] = {"raw"}]
          /\ Becomes(r, Begin("upload", "received", d, Guess))
    /\ UNCHANGED <<row, memory, kept, crossed, tidy>>

\* unreadable, or nothing to forecast
RefuseOnly(r) ==
    /\ At(r, "upload", "received")
    /\ Becomes(r, None)
    /\ UNCHANGED <<row, files, memory, begun, kept, crossed, tidy>>
Refuse(r) ==
    /\ At(r, "upload", "received")
    /\ Becomes(r, None)
    /\ files' = [files EXCEPT ![request[r].of] = @ \ {"raw"}]
    /\ UNCHANGED <<row, memory, begun, kept, crossed, tidy>>

\* write_parquet
Convert(r) ==
    /\ At(r, "upload", "received")
    /\ files' = [files EXCEPT ![request[r].of] = @ \cup {"parquet"}]
    /\ Goes(r, "converted")
    /\ UNCHANGED <<row, memory, begun, kept, crossed, tidy>>

\* _mapped_columns: the columns that were remembered, with the roles that were inferred
Map(r) ==
    /\ At(r, "upload", "converted")
    /\ Becomes(r, [request[r] EXCEPT !.phase = "mapped",
                                     !.asked = IF memory = None THEN Guess ELSE memory])
    /\ UNCHANGED <<row, files, memory, begun, kept, crossed, tidy>>

CommitUpload(r) ==
    /\ At(r, "upload", "mapped")
    /\ row' = [row EXCEPT ![request[r].of] = RowOf(request[r].asked)]
    /\ tidy' = IF request[r].asked = Guess THEN tidy \cup {request[r].of} ELSE tidy
    /\ Becomes(r, None)
    /\ UNCHANGED <<files, memory, begun, kept, crossed>>

-----------------------------------------------------------------------------
(* What configure, accept and delete_dataset have in common. *)

\* get_dataset; accept reads the table as well, and recalls nothing
Load(r) ==
    /\ request[r] = None /\ requests < MaxRequests
    /\ \E d \in Dataset :
          /\ row[d] # None
          /\ \/ \E a \in Asked : Becomes(r, Begin("configure", "loaded", d, a))
             \/ "parquet" \in files[d] /\ \E a \in Asked : Becomes(r, Begin("accept", "loaded", d, a))
             \/ Becomes(r, Begin("delete", "loaded", d, Guess))
    /\ UNCHANGED <<row, files, memory, begun, kept, crossed, tidy>>

Active == {r \in Request : request[r] # None}
Writers(d) == {r \in Active : request[r].of = d /\ request[r].phase \in {"written", "removed"}}

\* what has differed from what was loaded, over what is committed now
Merge(loaded, wanted, now) ==
    [f \in DOMAIN now |-> IF wanted[f] = loaded[f] THEN now[f] ELSE wanted[f]]

\* configure's loop over the columns
RolesLeftBehind(a, loaded) ==
    [c \in Column |-> IF c = a.time THEN "time" ELSE IF c = a.target THEN "target" ELSE loaded[c]]
RolesOf(a, loaded) ==
    [c \in Column |-> IF c = a.time THEN "time" ELSE IF c = a.target THEN "target"
                      ELSE IF loaded[c] \in {"time", "target"} THEN "measure" ELSE loaded[c]]

\* the statement; a row that is gone by now is found out, or deleted twice
Write(r) ==
    /\ At(r, "configure", "loaded") \/ At(r, "accept", "remembered") \/ At(r, "delete", "loaded")
    /\ Writers(request[r].of) = {} /\ row[request[r].of] # None
    /\ Goes(r, "written")
    /\ UNCHANGED <<row, files, memory, begun, kept, crossed, tidy>>

NotFound(r) ==
    /\ At(r, "configure", "loaded") \/ At(r, "accept", "remembered")
    /\ row[request[r].of] = None
    /\ Fails(r)

-----------------------------------------------------------------------------
(* accept: remember comes first, and keeps other writers of the memory waiting. *)

Recall(r) ==
    /\ At(r, "accept", "loaded")
    /\ Becomes(r, [request[r] EXCEPT !.phase = "recalled", !.known = memory])
    /\ UNCHANGED <<row, files, memory, begun, kept, crossed, tidy>>

Remember(r) ==
    /\ At(r, "accept", "recalled")
    /\ ~\E q \in Request : At(q, "accept", "remembered") \/ At(q, "accept", "written")
    /\ IF request[r].known = None /\ memory # None
       THEN Fails(r)  \* the unique fingerprint
       ELSE /\ Goes(r, "remembered")
            /\ UNCHANGED <<row, files, memory, begun, kept, crossed, tidy>>

-----------------------------------------------------------------------------
(* The ends. *)

\* accept leaves the columns' roles alone
Overwritten(q, now) ==
    LET new == Merge(MappingOf(q.seen), q.asked, MappingOf(now))
        role == IF q.kind = "configure" THEN RolesOf(q.asked, q.seen.role) ELSE q.seen.role
    IN [time |-> new.time, target |-> new.target, role |-> Merge(q.seen.role, role, now.role)]

Commit(r) ==
    /\ At(r, "configure", "written") \/ At(r, "accept", "written")
    /\ LET q == request[r]
       IN /\ row' = [row EXCEPT ![q.of] = Overwritten(q, @)]
          /\ memory' = IF q.kind = "configure" THEN memory
                       ELSE IF memory = None THEN q.asked ELSE Merge(q.known, q.asked, memory)
          /\ crossed' = (crossed \/ q.seen # row[q.of] \/ (q.kind = "accept" /\ q.known # memory))
          /\ tidy' = IF q.kind = "configure" THEN tidy \cup {q.of} ELSE tidy \ {q.of}
    /\ Becomes(r, None)
    /\ UNCHANGED <<files, begun, kept>>

\* delete_dataset: the files before the commit, each as far as the disk lets it
RemoveFiles(r) ==
    /\ At(r, "delete", "written")
    /\ \E left \in SUBSET files[request[r].of] :
          /\ files' = [files EXCEPT ![request[r].of] = left]
          /\ kept' = IF left = {} THEN kept ELSE kept \cup {request[r].of}
    /\ Goes(r, "removed")
    /\ UNCHANGED <<row, memory, begun, crossed, tidy>>

CommitDelete(r) ==
    /\ At(r, "delete", "removed")
    /\ row' = [row EXCEPT ![request[r].of] = None]
    /\ Becomes(r, None)
    /\ UNCHANGED <<files, memory, begun, kept, crossed, tidy>>

\* a deletion that finds nothing to delete removes the files all the same
DeletedTwice(r) ==
    /\ At(r, "delete", "loaded") /\ row[request[r].of] = None
    /\ files' = [files EXCEPT ![request[r].of] = {}]
    /\ Becomes(r, None)
    /\ UNCHANGED <<row, memory, begun, kept, crossed, tidy>>

\* a fault, a disconnected client or a process that dies
Abort(r) == request[r] # None /\ Fails(r)

Next ==
    \E r \in Request :
        \/ Receive(r) \/ Refuse(r) \/ Convert(r) \/ Map(r) \/ CommitUpload(r)
        \/ Load(r) \/ Write(r) \/ NotFound(r) \/ Recall(r) \/ Remember(r) \/ Commit(r)
        \/ RemoveFiles(r) \/ CommitDelete(r) \/ DeletedTwice(r) \/ Abort(r)

Spec == Init /\ [][Next]_vars

-----------------------------------------------------------------------------
\* A dataset's time column is never its target, nor is it so in what is remembered for the next
\* upload, and after a configuration each has its role and no other column has it; unless two
\* requests overlapped, when each writes only what differs from what it had loaded.
MappingHolds ==
    crossed \/
    /\ memory # None => memory.time # memory.target
    /\ \A d \in Dataset : row[d] # None =>
          /\ row[d].time # row[d].target
          /\ d \in tidy => \A c \in Column : /\ row[d].role[c] = "time" <=> c = row[d].time
                                             /\ row[d].role[c] = "target" <=> c = row[d].target

\* A dataset that can be opened has its table, and one that is gone or was refused leaves no file
\* behind, unless a request on it failed half way.
FilesFollowRows ==
    \A d \in Dataset \ kept :
        LET at == {r \in Active : request[r].kind \in {"upload", "delete"} /\ request[r].of = d}
        IN at = {} => IF row[d] # None THEN files[d] = File ELSE files[d] = {}
=================================================================================
