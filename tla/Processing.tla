------------------------------ MODULE Processing ------------------------------
(***************************************************************************)
(* Text, search vector and OCR of a document: index_document               *)
(* (app/services/search.py), update_document, the ocr_document job         *)
(* (app/ocr/tasks.py) and every endpoint that asks for them.               *)
(*                                                                         *)
(* A request asks for OCR by writing "pending" and enqueueing the job, in  *)
(* that order, and commits afterwards: the job may run first.  Sessions    *)
(* write the columns that differ from what they loaded, and write them     *)
(* when they are flushed; the search vector is set by a statement of its   *)
(* own, from what the database has at that moment.                         *)
(***************************************************************************)
EXTENDS Naturals, FiniteSets

CONSTANTS
    Docs,
    Titles,
    Contents,     \* files
    TextLayer,    \* those a text can be parsed from
    Scans,        \* those the OCR engine supports
    Requests,
    Workers,      \* the worker's concurrency
    MaxQueue,     \* bound on the OCR jobs waiting for a document
    None          \* SQL NULL, an absent row, an idle process

ASSUME FilesAssumption == TextLayer \subseteq Contents /\ Scans \subseteq Contents
ASSUME MaxQueueAssumption == MaxQueue \in Nat \ {0}

Text == Contents \cup {None}       \* extracted_text, named by the file it is of
TextSource == {"none", "parsed", "ocr"}
OcrStatus == {"none", "pending", "done", "failed", "unsupported"}
Vector == [title: Titles, text: Text]
Row ==
    [title: Titles, content: Contents, text: Text, text_source: TextSource,
     search_tsv: Vector \cup {None},
     index_status: {"none", "done"}, ocr_status: OcrStatus, trashed: BOOLEAN]

\* What a session remembers of the row it loaded.
Loaded ==
    [title: Titles, content: Contents, text_source: TextSource,
     index_status: {"none", "done"}, ocr_status: OcrStatus]

Request ==
    [op: {"upload", "replace", "ocr", "title", "index"},
     doc: Docs,
     loaded: Loaded \cup {None},
     title: Titles \cup {None},         \* upload, title: the title to write
     content: Contents \cup {None},     \* upload, replace: the file
     pending: BOOLEAN,                  \* it writes ocr_status = pending
     reparse: BOOLEAN,
     index: BOOLEAN]                    \* upload, replace: index as well

Job == [doc: Docs, loaded: Loaded]

ASSUME NoneAssumption ==
    None \notin Vector /\ None \notin Row /\ None \notin Request /\ None \notin Job

VARIABLES
    row,        \* committed rows of `document`
    queue,      \* ocr_document jobs waiting, per document
    request,
    job,        \* jobs running, by worker
    stranded,   \* history: documents whose last OCR job ended unseen: it ran
                \* before the request's commit, in the trash, or died
    behind,     \* history: documents whose last index parsed the text as well
    raced       \* history: retitled by a request that had not seen the index

vars == <<row, queue, request, job, stranded, behind, raced>>
history == <<stranded, behind, raced>>

Present(d) == row[d] # None
Load(d) ==
    [title |-> row[d].title, content |-> row[d].content,
     text_source |-> row[d].text_source, index_status |-> row[d].index_status,
     ocr_status |-> row[d].ocr_status]
Asked(r) == request[r] # None
\* A flushed and uncommitted UPDATE holds the row.
Unlocked(d) ==
    \A r \in Requests : Asked(r) /\ request[r].doc = d =>
        ~(request[r].op = "replace" \/ (request[r].op = "ocr" /\ request[r].pending))

-----------------------------------------------------------------------------
Init ==
    /\ row = [d \in Docs |-> None]
    /\ queue = [d \in Docs |-> 0]
    /\ request = [r \in Requests |-> None]
    /\ job = [w \in Workers |-> None]
    /\ stranded = {} /\ behind = {} /\ raced = {}

-----------------------------------------------------------------------------
(* index_document. *)

\* extract_text, as index_document stores it: no text is NULL.
Parsed(c) == IF c \in TextLayer THEN c ELSE None

\* x: the row in the database, the session's flushed changes included; s: what
\* the session takes the row to be.  The parsed text is assigned but not flushed
\* (autoflush is off) when the statement that sets search_tsv runs.
Parses(s, reparse) == s.text_source = "none" \/ reparse
FaultVectorAsLoaded(x, s, reparse) ==
    [x EXCEPT !.search_tsv = [title |-> s.title, text |-> x.text], !.index_status = "done"]
IndexDocument(x, s, reparse) ==
    LET body == Parsed(s.content)
        source == IF body # None THEN "parsed" ELSE "none"
        vector == [x EXCEPT !.search_tsv = [title |-> x.title, text |-> x.text]]
        parsed == IF Parses(s, reparse)
                  THEN [vector EXCEPT
                          !.text = body,
                          !.text_source = IF source # s.text_source THEN source ELSE @]
                  ELSE vector
    IN  [parsed EXCEPT !.index_status = IF s.index_status # "done" THEN "done" ELSE @]

BehindAfter(d, s, reparse) ==
    IF Parses(s, reparse) THEN behind \cup {d} ELSE behind \ {d}

-----------------------------------------------------------------------------
(* Requests that flush, dispatch, and commit at the end. *)

Enqueue(d) ==
    /\ queue[d] < MaxQueue
    /\ queue' = [queue EXCEPT ![d] = @ + 1]
    /\ stranded' = stranded \ {d}

Open(r, q) ==
    /\ request[r] = None
    /\ request' = [request EXCEPT ![r] = q]
Ask(op, d) ==
    [op |-> op, doc |-> d, loaded |-> None, title |-> None, content |-> None,
     pending |-> FALSE, reparse |-> FALSE, index |-> FALSE]

\* Domains may ask for OCR of what is uploaded.
AutoOcr(d, c) ==
    \/ c \in Scans /\ Enqueue(d)
    \/ UNCHANGED <<queue, stranded>>

FaultNoDispatch(r, d) ==
    /\ Present(d) /\ row[d].content \in Scans
    /\ row[d].ocr_status # "pending" => Unlocked(d)
    /\ Open(r, [Ask("ocr", d) EXCEPT !.pending = row[d].ocr_status # "pending"])
    /\ UNCHANGED <<row, queue, job, history>>

\* POST /documents/{id}/ocr, its web and bot twins, and the bulk action: the
\* status is flushed before the job is enqueued, and committed after.
RequestOcr(r, d) ==
    /\ Present(d) /\ row[d].content \in Scans
    /\ row[d].ocr_status # "pending" => Unlocked(d)
    /\ Open(r, [Ask("ocr", d) EXCEPT !.pending = row[d].ocr_status # "pending"])
    /\ Enqueue(d)
    /\ UNCHANGED <<row, job, behind, raced>>

\* The API marks what the engine does not support; the others only refuse.
RequestOcrUnsupported(d) ==
    /\ Present(d) /\ row[d].content \notin Scans /\ Unlocked(d)
    /\ row' = [row EXCEPT ![d].ocr_status = "unsupported"]
    /\ UNCHANGED <<queue, request, job, history>>

\* A new document, with the domain's automatic OCR and indexing (the API does
\* not index).
Upload(r, d, c) ==
    /\ ~Present(d) /\ \A p \in Requests : ~(Asked(p) /\ request[p].doc = d)
    /\ queue[d] = 0 /\ \A w \in Workers : job[w] # None => job[w].doc # d
    /\ AutoOcr(d, c)
    /\ \E t \in Titles, index \in BOOLEAN :
           Open(r, [Ask("upload", d) EXCEPT !.title = t, !.content = c, !.index = index,
                                            !.pending = queue' # queue])
    /\ UNCHANGED <<row, job, behind, raced>>

\* on_conflict=replace: only the file changes, status and texts stay.
Replace(r, d, c) ==
    /\ Present(d) /\ ~row[d].trashed /\ row[d].content # c /\ Unlocked(d)
    /\ AutoOcr(d, c)
    /\ \E index \in BOOLEAN :
           Open(r, [Ask("replace", d) EXCEPT !.content = c, !.index = index,
                                             !.pending = queue' # queue])
    /\ UNCHANGED <<row, job, behind, raced>>

\* What a request has flushed by the time it commits.
Flushed(q) ==
    CASE q.op = "upload" ->
           [title |-> q.title, content |-> q.content, text |-> None,
            text_source |-> "none", search_tsv |-> None, index_status |-> "none",
            ocr_status |-> IF q.pending THEN "pending" ELSE "none", trashed |-> FALSE]
      [] q.op = "replace" ->
           [row[q.doc] EXCEPT !.content = q.content,
                              !.ocr_status = IF q.pending THEN "pending" ELSE @]
      [] q.op = "ocr" ->
           IF q.pending THEN [row[q.doc] EXCEPT !.ocr_status = "pending"] ELSE row[q.doc]

Commit(r) ==
    LET q == request[r]
        x == Flushed(q)
    IN  /\ Asked(r) /\ q.op \in {"upload", "replace", "ocr"}
        /\ row' = [row EXCEPT ![q.doc] = IF q.index THEN IndexDocument(x, x, FALSE) ELSE x]
        /\ behind' = IF q.index THEN BehindAfter(q.doc, x, FALSE) ELSE behind
        /\ raced' = IF q.index THEN raced \ {q.doc} ELSE raced
        /\ request' = [request EXCEPT ![r] = None]
        /\ UNCHANGED <<queue, job, stranded>>

-----------------------------------------------------------------------------
(* Requests that load, and later write and commit. *)

\* PATCH /documents/{id}, the web's form and inbox card, the bot's title prompt.
StartUpdate(r, d) ==
    /\ Present(d)
    /\ \E t \in Titles :
           Open(r, [Ask("title", d) EXCEPT !.title = t, !.loaded = Load(d)])
    /\ UNCHANGED <<row, queue, job, history>>

\* POST /documents/{id}/index and its web, bulk and bot twins; only the API asks
\* for a reparse.
StartIndex(r, d) ==
    /\ Present(d)
    /\ \E reparse \in BOOLEAN :
           Open(r, [Ask("index", d) EXCEPT !.loaded = Load(d), !.reparse = reparse])
    /\ UNCHANGED <<row, queue, job, history>>

\* update_document: a new title is flushed, then the index is refreshed if the
\* row was loaded as indexed.
UpdateDocument(r) ==
    LET q == request[r]
        d == q.doc
        retitled == q.title # q.loaded.title
        titled == [row[d] EXCEPT !.title = IF retitled THEN q.title ELSE @]
        refresh == retitled /\ q.loaded.index_status = "done"
    IN  /\ Asked(r) /\ q.op = "title"
        /\ Present(d) /\ Unlocked(d)
        /\ row' = [row EXCEPT ![d] =
               IF refresh THEN IndexDocument(titled, q.loaded, FALSE) ELSE titled]
        /\ behind' = IF refresh THEN BehindAfter(d, q.loaded, FALSE) ELSE behind
        /\ raced' = IF refresh THEN raced \ {d}
                    ELSE IF retitled /\ q.loaded.index_status # row[d].index_status THEN raced \cup {d}
                    ELSE raced
        /\ request' = [request EXCEPT ![r] = None]
        /\ UNCHANGED <<queue, job, stranded>>

Index(r) ==
    LET q == request[r]
        d == q.doc
    IN  /\ Asked(r) /\ q.op = "index"
        /\ Present(d) /\ Unlocked(d)
        /\ row' = [row EXCEPT ![d] = IndexDocument(row[d], q.loaded, q.reparse)]
        /\ behind' = BehindAfter(d, q.loaded, q.reparse)
        /\ raced' = raced \ {d}
        /\ request' = [request EXCEPT ![r] = None]
        /\ UNCHANGED <<queue, job, stranded>>

\* The row was purged meanwhile: StaleDataError, rolled back.
Vanished(r) ==
    /\ Asked(r) /\ request[r].op \in {"title", "index"} /\ ~Present(request[r].doc)
    /\ request' = [request EXCEPT ![r] = None]
    /\ UNCHANGED <<row, queue, job, history>>

-----------------------------------------------------------------------------
(* The ocr_document job. *)

Take(d) == queue[d] > 0 /\ queue' = [queue EXCEPT ![d] = @ - 1]

\* No row yet, or no longer, or one in the trash: the job ends.
JobSkip(d) ==
    /\ Take(d)
    /\ Present(d) => row[d].trashed
    /\ stranded' = stranded \cup {d}
    /\ UNCHANGED <<row, request, job, behind, raced>>

FaultSilentlyUnsupported(d) ==
    /\ Take(d)
    /\ Present(d) /\ ~row[d].trashed /\ row[d].content \notin Scans
    /\ UNCHANGED <<row, request, job, history>>

JobUnsupported(d) ==
    /\ Take(d)
    /\ Present(d) /\ ~row[d].trashed /\ row[d].content \notin Scans /\ Unlocked(d)
    /\ row' = [row EXCEPT ![d].ocr_status = "unsupported"]
    /\ UNCHANGED <<request, job, history>>

JobStart(w, d) ==
    /\ job[w] = None /\ Take(d)
    /\ Present(d) /\ ~row[d].trashed /\ row[d].content \in Scans
    /\ job' = [job EXCEPT ![w] = [doc |-> d, loaded |-> Load(d)]]
    /\ UNCHANGED <<row, request, history>>

\* The status is written where it differs from the one the job loaded.
Written(loaded, now, status) == IF loaded # status THEN status ELSE now
Unseen(w, status) ==
    IF job[w].loaded.ocr_status = status THEN stranded \cup {job[w].doc} ELSE stranded

\* The engine raised, or the file was missing.
JobFail(w) ==
    LET d == job[w].doc
    IN  /\ job[w] # None /\ Present(d) /\ Unlocked(d)
        /\ row' = [row EXCEPT ![d].ocr_status =
                      Written(job[w].loaded.ocr_status, @, "failed")]
        /\ stranded' = Unseen(w, "failed")
        /\ job' = [job EXCEPT ![w] = None]
        /\ UNCHANGED <<queue, request, behind, raced>>

\* The engine's text, if any, replaces the old one; the index is refreshed,
\* which indexes the document whether or not it was.
JobFinish(w) ==
    LET d == job[w].doc
        s == job[w].loaded
    IN  /\ job[w] # None /\ Present(d) /\ Unlocked(d)
        /\ \E found \in BOOLEAN :
             LET source == IF found THEN "ocr" ELSE s.text_source
                 flushed == [row[d] EXCEPT
                     !.text = IF found THEN s.content ELSE @,
                     !.text_source = IF found /\ s.text_source # "ocr" THEN "ocr" ELSE @,
                     !.ocr_status = Written(s.ocr_status, @, "done")]
                 session == [s EXCEPT !.text_source = source]
             IN  /\ row' = [row EXCEPT ![d] = IndexDocument(flushed, session, FALSE)]
                 /\ behind' = BehindAfter(d, session, FALSE)
        /\ stranded' = Unseen(w, "done")
        /\ raced' = raced \ {d}
        /\ job' = [job EXCEPT ![w] = None]
        /\ UNCHANGED <<queue, request>>

\* The queue's ten seconds are over, the worker restarts, or the row is gone:
\* nothing is written and the job is not repeated.
JobDie(w) ==
    /\ job[w] # None
    /\ stranded' = stranded \cup {job[w].doc}
    /\ job' = [job EXCEPT ![w] = None]
    /\ UNCHANGED <<row, queue, request, behind, raced>>

-----------------------------------------------------------------------------
(* The trash. *)

ToTrash(d) ==
    /\ Present(d) /\ ~row[d].trashed /\ Unlocked(d)
    /\ row' = [row EXCEPT ![d].trashed = TRUE]
    /\ UNCHANGED <<queue, request, job, history>>

Restore(d) ==
    /\ Present(d) /\ row[d].trashed /\ Unlocked(d)
    /\ row' = [row EXCEPT ![d].trashed = FALSE]
    /\ UNCHANGED <<queue, request, job, history>>

Purge(d) ==
    /\ Present(d) /\ row[d].trashed /\ Unlocked(d)
    /\ row' = [row EXCEPT ![d] = None]
    /\ behind' = behind \ {d} /\ raced' = raced \ {d}
    /\ UNCHANGED <<queue, request, job, stranded>>

-----------------------------------------------------------------------------
Finish(r) == Commit(r) \/ UpdateDocument(r) \/ Index(r) \/ Vanished(r)
Work ==
    \/ \E d \in Docs : JobSkip(d) \/ JobUnsupported(d)
    \/ \E w \in Workers, d \in Docs : JobStart(w, d)
    \/ \E w \in Workers : JobFail(w) \/ JobFinish(w) \/ JobDie(w)

Next ==
    \/ \E r \in Requests, d \in Docs :
           \/ RequestOcr(r, d) \/ StartUpdate(r, d) \/ StartIndex(r, d)
           \/ \E c \in Contents : Upload(r, d, c) \/ Replace(r, d, c)
    \/ \E d \in Docs : RequestOcrUnsupported(d)
    \/ \E r \in Requests : Finish(r)
    \/ Work
    \/ \E d \in Docs : ToTrash(d) \/ Restore(d) \/ Purge(d)

Spec == Init /\ [][Next]_vars

\* Requests end; the worker takes what is queued and ends what it took.
Fairness ==
    /\ \A r \in Requests : WF_vars(Finish(r))
    /\ \A d \in Docs :
           SF_vars(JobSkip(d) \/ JobUnsupported(d) \/ \E w \in Workers : JobStart(w, d))
    /\ \A w \in Workers : WF_vars(JobFail(w) \/ JobFinish(w) \/ JobDie(w))

FairSpec == Spec /\ Fairness

-----------------------------------------------------------------------------
TypeOK ==
    /\ row \in [Docs -> Row \cup {None}]
    /\ queue \in [Docs -> 0..MaxQueue]
    /\ request \in [Requests -> Request \cup {None}]
    /\ job \in [Workers -> Job \cup {None}]
    /\ stranded \subseteq Docs /\ behind \subseteq Docs /\ raced \subseteq Docs
    \* indexed is having a search vector
    /\ \A d \in Docs : Present(d) =>
           (row[d].index_status = "done" <=> row[d].search_tsv # None)

\* "Sent to recognition" is not left standing: while a document says so, a job
\* for it waits or runs, unless its last job could not answer: it ran before
\* the request had committed, found the document in the trash, or died.
PendingIsOwed ==
    \A d \in Docs : Present(d) /\ row[d].ocr_status = "pending" =>
        \/ d \in stranded
        \/ queue[d] > 0
        \/ \E w \in Workers : job[w] # None /\ job[w].doc = d

\* ... and is answered, or becomes one of those.
PendingIsAnswered ==
    \A d \in Docs :
        (Present(d) /\ row[d].ocr_status = "pending")
            ~> (~Present(d) \/ row[d].ocr_status # "pending" \/ d \in stranded)

\* The search vector of an indexed document is made of its title and its text,
\* after edits of the title and OCR as well, but for two gaps: an index that
\* parsed the text itself, and a retitling that raced the first index.
VectorIsCurrent ==
    \A d \in Docs : Present(d) /\ row[d].index_status = "done" =>
        /\ d \notin raced => row[d].search_tsv.title = row[d].title
        /\ d \notin behind => row[d].search_tsv.text = row[d].text

\* What the index action promises: the vector is built from title and text.
IndexCoversBody ==
    \A d \in Docs : Present(d) /\ row[d].index_status = "done" =>
        row[d].search_tsv.text = row[d].text
=============================================================================
