------------------------------- MODULE Ingest --------------------------------
(* An archive's way into a domain: the upload that makes a batch             *)
(* (api/documents.py, web/documents.py, bot/handlers/upload.py) and          *)
(* process_archive (services/ingest.py), which takes the entries in one by   *)
(* one, in one transaction to the end.  Meanwhile others upload, trash,      *)
(* restore and purge in the same domain.                                     *)
EXTENDS Integers, FiniteSets, Sequences

CONSTANTS
    Archives,   \* the archives uploaded
    Extracted(_), \* [archive -> the files taken out of it, in order, and whether
                \* that ended in a fault]: what Unpacking makes of it
    Uploads,    \* the single files others upload: [name, content]
    Size,       \* [content -> its size]
    Ext,        \* [content -> its extension]
    Master, Default, Setting,   \* sets of extensions or None: the instance's
                \* ceiling, its default, and what the domain's settings say
    Quota,      \* the domain's quota
    None

(* What the code lets one assume of the constants.                           *)
Entries == UNION {{Extracted(a).out[i] : i \in DOMAIN Extracted(a).out} : a \in Archives}
IngestAssumption ==
    /\ Quota \in Nat
    /\ \A x \in Entries \cup Uploads : Size[x.content] \in Nat
    /\ \A a \in Archives : /\ Extracted(a).out \in Seq(Entries)
                          /\ Extracted(a).fault \in {"none", "bomb", "broken"}

VARIABLES
    live,     \* the domain exists
    docs,     \* its documents: [name, content, trashed]
    batch,    \* the upload_batch row, with its items, or None
    job,      \* process_archive: where it is, and what its session holds
    upload    \* one other upload: what it read, and whether it has flushed
VARIABLE stuck  \* history: the job was cut short by what nobody handles

vars == <<live, docs, batch, job, upload, stuck>>

Doc(n, c) == [name |-> n, content |-> c, trashed |-> FALSE]
InTrash(n, c) == [name |-> n, content |-> c, trashed |-> TRUE]
LiveIn(S) == {d \in S : ~d.trashed}
\* The sum of the sizes, counted byte by byte.
Bytes(S) == UNION {{d} \X (1..Size[d.content]) : d \in LiveIn(S)}
Used(S) == Cardinality(Bytes(S))

-----------------------------------------------------------------------------
(* The batch and its job. *)

NoJob == [at |-> "none"]
Working == job.at \in {"entries", "flush"}

(* The batch is committed before the job is dispatched; the web and the bot  *)
(* run it in the request.                                                    *)
UploadArchive(a, mode) ==
    /\ live /\ batch = None /\ job = NoJob
    /\ batch' = [archive |-> a, status |-> "processing", items |-> <<>>, created |-> 0,
                 conflicts |-> 0]
    /\ job' = [at |-> "committed", mode |-> mode]
    /\ stuck' = FALSE
    /\ UNCHANGED <<live, docs, upload>>

(* A fault: a bomb is not among the errors of an archive. *)
FaultBombUnhandled(fault) == "processing"

StatusAfter(fault) == IF fault = "bomb" THEN "failed" ELSE "processing"

(* process_archive up to the first entry.  What is wrong with the archive    *)
(* fails the batch if it is an ArchiveError; a file that is no archive is    *)
(* not, and ends the job.                                                    *)
JobExtracts ==
    /\ job.at = "committed"
    /\ LET x == IF batch = None THEN [fault |-> "gone"] ELSE Extracted(batch.archive)
       IN  /\ job' = IF x.fault # "none" THEN NoJob
                     ELSE [at |-> "entries", mode |-> job.mode, todo |-> x.out, items |-> <<>>,
                           own |-> {}, back |-> {}, stop |-> FALSE, write |-> None,
                           overtaken |-> FALSE]
           /\ batch' = IF x.fault \in {"bomb", "broken"}
                       THEN [batch EXCEPT !.status = StatusAfter(x.fault)] ELSE batch
           /\ stuck' = (stuck \/ x.fault = "broken")
    /\ UNCHANGED <<live, docs, upload>>

(* What the job's session sees: the commits of others, and its own writes.   *)
Seen == (docs \ job.back) \cup job.own

(* A fault: the new file itself is not counted. *)
FaultFits(S, c) == Used(S) <= Quota

Fits(S, c) == Used(S) + Size[c] <= Quota

(* effective_allowed_types: the domain narrows the ceiling. *)
Allowed ==
    LET chosen == IF Setting = None THEN Default ELSE Setting
    IN  IF Master = None THEN chosen
        ELSE IF chosen = None THEN Master ELSE chosen \cap Master
Refused(c) == Allowed # None /\ Ext[c] \notin Allowed

(* ingest_upload: what becomes of a file, from what the session sees.        *)
Outcome(S, n, c, mode) ==
    IF Refused(c) THEN "skipped_type"
    ELSE IF ~Fits(S, c) THEN "error"
    ELSE IF \E d \in LiveIn(S) : d.content = c THEN "deduplicated"
    ELSE IF InTrash(n, c) \in S THEN "restored"
    ELSE IF \A d \in LiveIn(S) : d.name # n THEN "created"
    ELSE IF mode = "new" THEN "new_from_conflict" ELSE "skipped"

(* An item, with what its note says of an error: the quota, or anything else.*)
Item(e, outcome, note) == [entry |-> e, outcome |-> outcome, note |-> note]
Record(j, item) ==
    [j EXCEPT !.at = "entries", !.todo = Tail(@), !.write = None, !.items = Append(@, item)]

(* An entry that writes nothing is recorded at once; the others have read    *)
(* and will flush.  Over the quota, the rest of the archive is dropped.      *)
EntryReads ==
    /\ job.at = "entries" /\ job.todo # <<>> /\ ~job.stop
    /\ LET e == Head(job.todo)
           o == Outcome(Seen, e.name, e.content, job.mode)
       IN  job' = CASE o = "error" -> [Record(job, Item(e, o, "quota")) EXCEPT !.stop = TRUE]
                    [] o \in {"skipped", "skipped_type", "deduplicated"} ->
                         Record(job, Item(e, o, "none"))
                    [] OTHER -> [job EXCEPT !.at = "flush", !.write = o]
    /\ UNCHANGED <<live, docs, batch, upload, stuck>>

(* A fault: any error ends the loop as the quota does. *)
FaultErrorStops ==
    /\ job.at = "entries" /\ job.todo # <<>> /\ ~job.stop
    /\ job' = [Record(job, Item(Head(job.todo), "error", "failure")) EXCEPT !.stop = TRUE]
    /\ UNCHANGED <<live, docs, batch, upload, stuck>>

(* The disk is full, the file cannot be opened or read, its blob is gone     *)
(* before it is probed: ingest_upload raises before it asks the database for *)
(* anything.  The error is recorded and the next entry is taken.             *)
EntryFails ==
    /\ job.at = "entries" /\ job.todo # <<>> /\ ~job.stop
    /\ job' = Record(job, Item(Head(job.todo), "error", "failure"))
    /\ UNCHANGED <<live, docs, batch, upload, stuck>>

(* The content of another's flush, not committed yet: the index makes us wait*)
Waits(c) == upload.at = "flushed" /\ upload.doc.content = c

(* The unique index refuses the insert or the restored row, that row is      *)
(* gone, or the domain is.                                                   *)
Refuses(e) ==
    \/ ~live
    \/ job.write = "restored" /\ InTrash(e.name, e.content) \notin docs
    \/ \E d \in LiveIn(docs) : d.content = e.content

EntryFlushes ==
    /\ job.at = "flush"
    /\ LET e == Head(job.todo)
       IN  /\ ~Waits(e.content) /\ ~Refuses(e)
           /\ job' = LET j == Record(job, Item(e, job.write, "none"))
                     IN  [j EXCEPT !.own = @ \cup {Doc(e.name, e.content)},
                                   !.back = IF job.write = "restored"
                                            THEN @ \cup {InTrash(e.name, e.content)} ELSE @]
    /\ UNCHANGED <<live, docs, batch, upload, stuck>>

(* The error is caught, but the session cannot be used any more: the next    *)
(* flush raises, outside the try, and all of the batch is rolled back.       *)
EntryPoisons ==
    /\ job.at = "flush"
    /\ ~Waits(Head(job.todo).content) /\ Refuses(Head(job.todo))
    /\ job' = NoJob
    /\ stuck' = TRUE
    /\ UNCHANGED <<live, docs, batch, upload>>

Count(items, outcomes) == Cardinality({i \in DOMAIN items : items[i].outcome \in outcomes})

FinalStatus(j) == IF j.stop \/ Count(j.items, {"error"}) > 0 THEN "partial" ELSE "done"

(* The one commit. *)
JobCommits ==
    /\ job.at = "entries" /\ (job.todo = <<>> \/ job.stop) /\ live
    /\ docs' = Seen
    /\ batch' = [batch EXCEPT !.status = FinalStatus(job), !.items = job.items,
                              !.created = Count(job.items, {"created", "new_from_conflict"}),
                              !.conflicts = Count(job.items, {"skipped"})]
    /\ job' = NoJob
    /\ upload' = IF upload.at = "none" THEN upload ELSE [upload EXCEPT !.overtaken = TRUE]
    /\ UNCHANGED <<live, stuck>>

(* The process is killed or the job times out, or the domain went under it:  *)
(* nothing is committed, and nothing runs it again.                          *)
JobDies ==
    /\ job.at # "none"
    /\ job' = NoJob
    /\ stuck' = TRUE
    /\ UNCHANGED <<live, docs, batch, upload>>

-----------------------------------------------------------------------------
(* The others.  Whatever they commit, the job may have read before.          *)

NoUpload == [at |-> "none"]
Overtake == job' = IF Working THEN [job EXCEPT !.overtaken = TRUE] ELSE job

UploadReads(x) ==
    /\ live /\ upload.at = "none"
    /\ Outcome(docs, x.name, x.content, "skip") = "created"
    /\ upload' = [at |-> "read", doc |-> Doc(x.name, x.content), overtaken |-> FALSE]
    /\ UNCHANGED <<live, docs, batch, job, stuck>>

(* It waits for the job's flush of the same content, to fail if that commits.*)
UploadFlushes ==
    /\ upload.at = "read" /\ live
    /\ ~(Working /\ \E d \in job.own : d.content = upload.doc.content)
    /\ upload' = IF \E d \in LiveIn(docs) : d.content = upload.doc.content THEN NoUpload
                                            ELSE [upload EXCEPT !.at = "flushed"]
    /\ UNCHANGED <<live, docs, batch, job, stuck>>

UploadCommits ==
    /\ upload.at = "flushed" /\ live
    /\ docs' = docs \cup {upload.doc}
    /\ upload' = NoUpload
    /\ Overtake
    /\ UNCHANGED <<live, batch, stuck>>

(* Trash: of rows that are not locked by the job.  Restoring is refused if   *)
(* the content is back already, and asks for no quota.                       *)
Trash(d) ==
    /\ d \in LiveIn(docs) /\ InTrash(d.name, d.content) \notin docs
    /\ docs' = (docs \ {d}) \cup {InTrash(d.name, d.content)}
    /\ UNCHANGED <<live, batch, job, upload, stuck>>

Free(d) == Working => d \notin job.back /\ \A o \in job.own : o.content # d.content

Restore(d) ==
    /\ d \in docs \ LiveIn(docs) /\ Free(d) /\ ~Waits(d.content)
    /\ \A x \in LiveIn(docs) : x.content # d.content
    /\ docs' = (docs \ {d}) \cup {Doc(d.name, d.content)}
    /\ Overtake
    /\ upload' = IF upload.at = "none" THEN upload ELSE [upload EXCEPT !.overtaken = TRUE]
    /\ UNCHANGED <<live, batch, stuck>>

Purge(d) ==
    /\ d \in docs \ LiveIn(docs) /\ Free(d)
    /\ docs' = docs \ {d}
    /\ UNCHANGED <<live, batch, job, upload, stuck>>

DeleteDomain ==
    /\ live
    /\ live' = FALSE /\ docs' = {} /\ batch' = None
    /\ upload' = NoUpload
    /\ UNCHANGED <<job, stuck>>

-----------------------------------------------------------------------------
Init ==
    /\ live = TRUE /\ docs = {} /\ batch = None
    /\ job = NoJob /\ upload = NoUpload /\ stuck = FALSE

Next ==
    \/ \E a \in Archives, mode \in {"skip", "new"} : UploadArchive(a, mode)
    \/ JobExtracts \/ EntryReads \/ EntryFails \/ EntryFlushes \/ EntryPoisons
    \/ JobCommits \/ JobDies
    \/ \E x \in Uploads : UploadReads(x)
    \/ UploadFlushes \/ UploadCommits
    \/ \E d \in docs : Trash(d) \/ Restore(d) \/ Purge(d)
    \/ DeleteDomain

Spec == Init /\ [][Next]_vars

-----------------------------------------------------------------------------
Outcomes == {"created", "new_from_conflict", "restored", "deduplicated", "skipped",
             "skipped_type", "error"}

(* One document of a content at a time, the trash aside.                     *)
TypeOK ==
    /\ live \in BOOLEAN /\ stuck \in BOOLEAN
    /\ \A d, e \in LiveIn(docs) : d # e => d.content # e.content
    /\ batch # None => /\ batch.archive \in Archives
                       /\ batch.status \in {"processing", "done", "partial", "failed"}
                       /\ \A i \in DOMAIN batch.items : batch.items[i].outcome \in Outcomes
    /\ job.at \in {"none", "committed", "entries", "flush"}
    /\ upload.at \in {"none", "read", "flushed"}

(* A batch in processing is being processed, unless its job was cut short -  *)
(* killed, poisoned, or by an archive that is none.                          *)
ProcessingIsUnderWay ==
    batch # None /\ batch.status = "processing" => job.at # "none" \/ stuck

(* What a finished batch says is so.  Its items are the archive's files in   *)
(* their order, and files are missing at the end only behind the one that    *)
(* did not fit the quota: any other error is recorded and the files after it *)
(* are taken.  Done means that none is an error, partial that one is, and    *)
(* the counts agree.                                                         *)
BatchTellsAll ==
    batch # None /\ batch.status \in {"done", "partial"} =>
        LET files == Extracted(batch.archive).out
            n == Len(batch.items)
        IN  /\ [i \in 1..n |-> batch.items[i].entry] = SubSeq(files, 1, n)
            /\ n < Len(files) => n > 0 /\ batch.items[n].note = "quota"
            /\ \A i \in 1..n : batch.items[i].note = "quota" => i = n
            /\ batch.status = "done" <=> Count(batch.items, {"error"}) = 0
            /\ batch.created + batch.conflicts <= n

(* The quota, as the code counts it: of the documents that are not in the    *)
(* trash, which is less than the docs say (QuotaCountsTrash).  The domain    *)
(* outgrows it by a restore from the trash, which does not look at it, or by *)
(* a file that was checked before another came in.                           *)
Outgrows ==
    Used(docs') > Quota /\ Used(docs') > Used(docs) =>
        \/ \E d \in docs : d.trashed /\ docs' = (docs \ {d}) \cup {Doc(d.name, d.content)}
        \/ job.at = "entries" /\ job.overtaken /\ job'.at = "none"
        \/ upload.at = "flushed" /\ upload.overtaken
QuotaHeldUnlessRaced == [][Outgrows]_vars

(* "Storage quota counts trashed documents until they are purged" (10 of     *)
(* docs/architecture.md, 678-680, and 987): a file that nothing overtook     *)
(* since it was checked leaves the documents and the trash within the quota. *)
(* The code does not do this.                                                *)
UsedWithTrash(S) == Cardinality(UNION {{d} \X (1..Size[d.content]) : d \in S})
QuotaCountsTrash ==
    [][upload.at = "flushed" /\ ~upload.overtaken /\ UploadCommits =>
           UsedWithTrash(docs') <= Quota]_vars
=============================================================================
