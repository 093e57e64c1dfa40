---------------------------- MODULE DocumentStore ----------------------------
(***************************************************************************)
(* Documents, their replaced versions, and the content-addressed blobs on  *)
(* disk that both refer to (app/services/documents.py, app/services/       *)
(* trash.py, app/services/cleanup.py step 1 and 4, app/storage/blobs.py).  *)
(*                                                                         *)
(* The database is transactional, the blob directory is not.  Every request *)
(* runs in one READ COMMITTED transaction: its SELECTs see what other      *)
(* requests committed so far, its writes become visible when it ends.  An  *)
(* upload is therefore several steps (store the blob, look the content up, *)
(* look the name up, write), and so is a purge (delete rows, then look at  *)
(* each hash and unlink its file, then commit) and the nightly sweep.      *)
(***************************************************************************)
EXTENDS Naturals, FiniteSets

CONSTANTS
    Domains,      \* domain ids
    Hashes,       \* SHA-256 digests: the contents users upload
    Names,        \* original file names
    DocIds,       \* document ids (uuid4): a bound on the rows alive at once
    Requests,     \* concurrent upload requests
    Purgers,      \* concurrent transactions that hard-purge documents
    Sweeper,      \* the orphan sweep at the end of run_cleanup
    MaxVersion,   \* bound on document.version
    None          \* SQL NULL, an absent row, an idle process

ASSUME SweeperAssumption == Sweeper \notin Purgers
ASSUME MaxVersionAssumption == MaxVersion \in Nat \ {0}

\* A row of `document`: the columns that decide what happens to its content.
DocRow ==
    [domain: Domains, sha256: Hashes, name: Names,
     version: 1..MaxVersion, trashed: BOOLEAN]

\* A row of `document_version`, written when a document is replaced.
VersionRow == [version_no: 1..MaxVersion, sha256: Hashes]

\* What a request remembers of a row it loaded: later UPDATEs are absolute
\* writes computed from these values, not from the row as it is then.
Loaded == [id: DocIds, version: 1..MaxVersion, sha256: Hashes]

\* The client's on_conflict.  It is looked at once, where a name is taken, and
\* drawn there instead of being carried along from the start of the request.
Conflict == {"ask", "replace", "new"}

Upload ==
    [step: {"stored", "looked", "restore", "replace", "create"},
     domain: Domains, sha256: Hashes, name: Names, row: Loaded \cup {None}]

Purge ==
    [todo: SUBSET [id: DocIds, sha256: Hashes],
     dead: SUBSET DocIds,
     hashes: SUBSET Hashes,
     unlinked: SUBSET Hashes]

ASSUME NoneAssumption ==
    /\ None \notin DocRow \cup Upload \cup Loaded \cup Purge
    /\ \A S \in SUBSET Hashes : S # None

VARIABLES
    domains,     \* rows of `domain`
    doc,         \* rows of `document`; None where there is no row
    versions,    \* rows of `document_version` of each document
    blobs,       \* hashes whose blob file is on disk
    req,         \* upload requests in flight
    purge,       \* hard-purge transactions in flight
    listing,     \* the sweep's listing of the blob directory; None when idle
    candidates,  \* per purge and for the sweep: hashes its SELECT from document
                 \* did not find, its SELECT from document_version still to come
    condemned,   \* likewise: hashes neither SELECT found, their files not
                 \* unlinked yet
    contested,   \* history: candidate and condemned hashes that an upload
                 \* carried since the first of the two SELECTs
    torn,        \* history: hashes whose file a purge or the sweep unlinked
                 \* while contested, or before its own rollback
    rescued      \* history: per purge, the documents restored between its
                 \* SELECT and its DELETE of them

gcVars == <<purge, listing, candidates, condemned>>
vars == <<domains, doc, versions, blobs, req, purge, listing,
          candidates, condemned, contested, torn, rescued>>

Collectors == Purgers \cup {Sweeper}

-----------------------------------------------------------------------------
(* What the committed database says. *)

Rows == {d \in DocIds : doc[d] # None}
Active == {d \in Rows : ~doc[d].trashed}
Trashed == {d \in Rows : doc[d].trashed}

HashesOf(d) == {doc[d].sha256} \cup {v.sha256 : v \in versions[d]}

\* Seeded faults: the trash, or the replaced versions, are forgotten.
FaultOnlyActive(gone) == {doc[d].sha256 : d \in Active \ gone}
FaultNoVersions(gone) == {}

\* The contents that document rows point at, and that version rows do, to a
\* transaction that has deleted the documents in `gone`.
HeldByDocument(gone) == {doc[d].sha256 : d \in Rows \ gone}
HeldByVersion(gone) == {v.sha256 : v \in UNION {versions[d] : d \in Rows \ gone}}

\* The contents that uploads in flight will make a row refer to when they
\* commit: the one they stored and, replacing, the one they will snapshot.
Carries(u) == {u.sha256} \cup (IF u.row = None THEN {} ELSE {u.row.sha256})
InFlight == UNION {Carries(req[r]) : r \in {q \in Requests : req[q] # None}}

\* The row locks a purge takes with its DELETEs and holds until it ends.
Locked(d) == \E k \in Purgers : purge[k] # None /\ d \in purge[k].dead

\* uuid4 never repeats, so an id some process still remembers is not reused.
Remembered(d) ==
    \/ \E r \in Requests : req[r] # None /\ req[r].row # None /\ req[r].row.id = d
    \/ \E k \in Purgers : purge[k] # None
                          /\ (d \in purge[k].dead \/ \E t \in purge[k].todo : t.id = d)

\* What `rescued` becomes when document d is restored.
Rescue(d) ==
    [k \in Purgers |->
        IF purge[k] # None /\ (\E t \in purge[k].todo : t.id = d)
        THEN rescued[k] \cup {d} ELSE rescued[k]]

\* Seeded fault: the index is missing.
FaultNoIndex(d, dom, h) == TRUE

\* The partial unique index uq_document_domain_id_sha256: no other active row
\* of domain dom holds content h.
IndexAllows(d, dom, h) ==
    \A e \in Active \ {d} : ~(doc[e].domain = dom /\ doc[e].sha256 = h)

-----------------------------------------------------------------------------
Init ==
    /\ domains = Domains
    /\ doc = [d \in DocIds |-> None]
    /\ versions = [d \in DocIds |-> {}]
    /\ blobs = {}
    /\ req = [r \in Requests |-> None]
    /\ purge = [k \in Purgers |-> None]
    /\ listing = None
    /\ candidates = [c \in Collectors |-> {}]
    /\ condemned = [c \in Collectors |-> {}]
    /\ contested = [c \in Collectors |-> {}]
    /\ torn = {}
    /\ rescued = [k \in Purgers |-> {}]

-----------------------------------------------------------------------------
(* Uploads: store_and_probe, then ingest_upload. *)

\* store_stream places the file unless its hash is already on disk; either way
\* the file is there when it returns.
StoreAndProbe(r) ==
    /\ req[r] = None
    /\ \E dom \in domains, h \in Hashes, n \in Names :
        /\ req' = [req EXCEPT ![r] =
                [step |-> "stored", domain |-> dom, sha256 |-> h, name |-> n,
                 row |-> None]]
        /\ blobs' = blobs \cup {h}
        /\ torn' = torn \ {h}
        /\ contested' = [c \in Collectors |-> contested[c]
                            \cup ((candidates[c] \cup condemned[c]) \cap {h})]
    /\ UNCHANGED <<domains, doc, versions, gcVars, rescued>>

\* The request ends with a rollback: a type or quota refusal, a probe that
\* finds no file, a constraint or stale-row error, a disconnect, a crash.  The
\* stored blob stays.
IngestAbort(r) ==
    /\ req[r] # None
    /\ req' = [req EXCEPT ![r] = None]
    /\ UNCHANGED <<domains, doc, versions, blobs, gcVars, contested, torn, rescued>>

SameContent(u) ==
    {d \in Active : doc[d].domain = u.domain /\ doc[d].sha256 = u.sha256}
TrashedTwin(u) ==
    {d \in Trashed : /\ doc[d].domain = u.domain
                     /\ doc[d].sha256 = u.sha256
                     /\ doc[d].name = u.name}
SameName(u) ==
    {d \in Active : doc[d].domain = u.domain /\ doc[d].name = u.name}

Load(d) == [id |-> d, version |-> doc[d].version, sha256 |-> doc[d].sha256]

\* Steps 1 and 2 of ingest_upload: the content is here already (the request
\* answers "deduplicated" and writes nothing), or it waits in the trash under
\* the same name, or it is new to the domain.
LookUpContent(r) ==
    /\ req[r] # None /\ req[r].step = "stored"
    /\ \/ /\ SameContent(req[r]) # {}
          /\ req' = [req EXCEPT ![r] = None]
       \/ /\ SameContent(req[r]) = {}
          /\ \E d \in TrashedTwin(req[r]) :
                req' = [req EXCEPT ![r].step = "restore", ![r].row = Load(d)]
       \/ /\ SameContent(req[r]) = {}
          /\ TrashedTwin(req[r]) = {}
          /\ req' = [req EXCEPT ![r].step = "looked"]
    /\ UNCHANGED <<domains, doc, versions, blobs, gcVars, contested, torn, rescued>>

\* Step 3: a document of that name exists and the client chose (or has to
\* choose, 409), or the name is free.
LookUpName(r) ==
    /\ req[r] # None /\ req[r].step = "looked"
    /\ \E on_conflict \in Conflict :
        \/ /\ SameName(req[r]) # {} /\ on_conflict = "ask"
           /\ req' = [req EXCEPT ![r] = None]
        \/ /\ on_conflict = "replace"
           /\ \E d \in SameName(req[r]) :
                req' = [req EXCEPT ![r].step = "replace", ![r].row = Load(d)]
        \/ /\ SameName(req[r]) = {} \/ on_conflict = "new"
           /\ req' = [req EXCEPT ![r].step = "create"]
    /\ UNCHANGED <<domains, doc, versions, blobs, gcVars, contested, torn, rescued>>

\* "restored": clear deleted_at of the row found in the trash.
CommitRestored(r) ==
    /\ req[r] # None /\ req[r].step = "restore"
    /\ LET d == req[r].row.id IN
        /\ d \in Rows /\ ~Locked(d)
        /\ IndexAllows(d, doc[d].domain, doc[d].sha256)
        /\ doc' = [doc EXCEPT ![d].trashed = FALSE]
        /\ rescued' = Rescue(d)
    /\ req' = [req EXCEPT ![r] = None]
    /\ UNCHANGED <<domains, versions, blobs, gcVars, contested, torn>>

\* Seeded fault: the snapshot is numbered after the new version.
FaultSnapshotAfter(old) == [version_no |-> old.version + 1, sha256 |-> old.sha256]

\* _snapshot_version: the row as the request loaded it.
Snapshot(old) == [version_no |-> old.version, sha256 |-> old.sha256]

\* "replaced": snapshot the row as it was loaded and point it at the new
\* content.  An UPDATE leaves out a column whose value did not change.
CommitReplaced(r) ==
    /\ req[r] # None /\ req[r].step = "replace"
    /\ LET d == req[r].row.id
           old == req[r].row
           new == IF req[r].sha256 = old.sha256
                  THEN doc[d].sha256 ELSE req[r].sha256
       IN
        /\ d \in Rows /\ ~Locked(d)
        /\ old.version < MaxVersion
        /\ ~doc[d].trashed => IndexAllows(d, doc[d].domain, new)
        /\ doc' = [doc EXCEPT ![d].sha256 = new, ![d].version = old.version + 1]
        /\ versions' = [versions EXCEPT ![d] = @ \cup {Snapshot(old)}]
    /\ req' = [req EXCEPT ![r] = None]
    /\ UNCHANGED <<domains, blobs, gcVars, contested, torn, rescued>>

\* "created" and "new_from_conflict": insert a row.
CommitCreated(r) ==
    /\ req[r] # None /\ req[r].step = "create"
    /\ req[r].domain \in domains
    /\ \E d \in DocIds \ Rows :
        /\ ~Remembered(d)
        /\ IndexAllows(d, req[r].domain, req[r].sha256)
        /\ doc' = [doc EXCEPT ![d] =
                [domain |-> req[r].domain, sha256 |-> req[r].sha256,
                 name |-> req[r].name, version |-> 1, trashed |-> FALSE]]
    /\ req' = [req EXCEPT ![r] = None]
    /\ UNCHANGED <<domains, versions, blobs, gcVars, contested, torn, rescued>>

-----------------------------------------------------------------------------
(* Trash: soft_delete, restore; domain deletion. *)

SoftDelete(d) ==
    /\ d \in Active /\ ~Locked(d)
    /\ doc' = [doc EXCEPT ![d].trashed = TRUE]
    /\ UNCHANGED <<domains, versions, blobs, req, gcVars, contested, torn, rescued>>

Restore(d) ==
    /\ d \in Trashed /\ ~Locked(d)
    /\ IndexAllows(d, doc[d].domain, doc[d].sha256)
    /\ doc' = [doc EXCEPT ![d].trashed = FALSE]
    /\ rescued' = Rescue(d)
    /\ UNCHANGED <<domains, versions, blobs, req, gcVars, contested, torn>>

\* The rows go by ON DELETE CASCADE; no blob is touched.
DeleteDomain(dom) ==
    /\ dom \in domains
    /\ LET own == {d \in Rows : doc[d].domain = dom} IN
        /\ \A d \in own : ~Locked(d)
        /\ doc' = [d \in DocIds |-> IF d \in own THEN None ELSE doc[d]]
        /\ versions' = [d \in DocIds |-> IF d \in own THEN {} ELSE versions[d]]
    /\ domains' = domains \ {dom}
    /\ UNCHANGED <<blobs, req, gcVars, contested, torn, rescued>>

-----------------------------------------------------------------------------
(* hard_purge, as called for a bulk selection, for a whole domain's trash   *)
(* and for the documents past their retention: one transaction over a set   *)
(* of documents that were in the trash when it selected them.               *)

\* Seeded fault: deleted_at is not asked for.
FaultPurgeable == Rows

Purgeable == Trashed

PurgeSelect(k) ==
    /\ purge[k] = None
    /\ \E D \in (SUBSET Purgeable) \ {{}} :
        purge' = [purge EXCEPT ![k] =
            [todo |-> {[id |-> d, sha256 |-> doc[d].sha256] : d \in D},
             dead |-> {}, hashes |-> {}, unlinked |-> {}]]
    /\ UNCHANGED <<domains, doc, versions, blobs, req, listing, candidates,
                   condemned, contested, torn, rescued>>

\* Collect the document's hashes and delete its rows.  The DELETE asks for the
\* id only: it does not look at deleted_at again.
PurgeRows(k) ==
    /\ purge[k] # None
    /\ purge[k].hashes = {} /\ candidates[k] = {} /\ condemned[k] = {}
    /\ \E t \in purge[k].todo :
        /\ \A j \in Purgers \ {k} : purge[j] # None => t.id \notin purge[j].dead
        /\ purge' = [purge EXCEPT
                ![k].todo = @ \ {t},
                ![k].dead = @ \cup {t.id},
                ![k].hashes = {t.sha256} \cup {v.sha256 : v \in versions[t.id]}]
    /\ UNCHANGED <<domains, doc, versions, blobs, req, listing, candidates,
                   condemned, contested, torn, rescued>>

\* _blob_referenced, its SELECT from document: the purge sees its own deletes,
\* not those of others.
PurgeSeekDocuments(k) ==
    /\ purge[k] # None /\ candidates[k] = {} /\ condemned[k] = {}
    /\ \E h \in purge[k].hashes :
        LET found == {h} \ HeldByDocument(purge[k].dead) IN
        /\ purge' = [purge EXCEPT ![k].hashes = @ \ {h}]
        /\ candidates' = [candidates EXCEPT ![k] = found]
        /\ contested' = [contested EXCEPT ![k] = found \cap InFlight]
    /\ UNCHANGED <<domains, doc, versions, blobs, req, listing, condemned, torn, rescued>>

\* The SELECT from document_version that follows when the first found nothing.
PurgeSeekVersions(k) ==
    /\ purge[k] # None /\ candidates[k] # {}
    /\ LET found == candidates[k] \ HeldByVersion(purge[k].dead) IN
        /\ condemned' = [condemned EXCEPT ![k] = found]
        /\ contested' = [contested EXCEPT ![k] = @ \cap found]
    /\ candidates' = [candidates EXCEPT ![k] = {}]
    /\ UNCHANGED <<domains, doc, versions, blobs, req, purge, listing, torn, rescued>>

\* delete_blob, before the transaction commits.
PurgeUnlink(k) ==
    /\ purge[k] # None /\ condemned[k] # {}
    /\ blobs' = blobs \ condemned[k]
    /\ purge' = [purge EXCEPT ![k].unlinked = @ \cup condemned[k]]
    /\ torn' = torn \cup contested[k]
    /\ condemned' = [condemned EXCEPT ![k] = {}]
    /\ contested' = [contested EXCEPT ![k] = {}]
    /\ UNCHANGED <<domains, doc, versions, req, listing, candidates, rescued>>

PurgeCommit(k) ==
    /\ purge[k] # None
    /\ purge[k].todo = {} /\ purge[k].hashes = {}
    /\ candidates[k] = {} /\ condemned[k] = {}
    /\ doc' = [d \in DocIds |-> IF d \in purge[k].dead THEN None ELSE doc[d]]
    /\ versions' = [d \in DocIds |->
                        IF d \in purge[k].dead THEN {} ELSE versions[d]]
    /\ purge' = [purge EXCEPT ![k] = None]
    /\ rescued' = [rescued EXCEPT ![k] = {}]
    /\ UNCHANGED <<domains, blobs, req, listing, candidates, condemned,
                   contested, torn>>

\* An error or a crash before the commit: the rows stay, the unlinked files
\* do not come back.
PurgeRollback(k) ==
    /\ purge[k] # None
    /\ purge' = [purge EXCEPT ![k] = None]
    /\ torn' = torn \cup (purge[k].unlinked \ blobs)
    /\ candidates' = [candidates EXCEPT ![k] = {}]
    /\ condemned' = [condemned EXCEPT ![k] = {}]
    /\ contested' = [contested EXCEPT ![k] = {}]
    /\ rescued' = [rescued EXCEPT ![k] = {}]
    /\ UNCHANGED <<domains, doc, versions, blobs, req, listing>>

-----------------------------------------------------------------------------
(* The orphan sweep of run_cleanup (step 4). *)

SweepIdle == listing = None /\ candidates[Sweeper] = {} /\ condemned[Sweeper] = {}

SweepList ==
    /\ SweepIdle /\ blobs # {}
    /\ listing' = blobs
    /\ UNCHANGED <<domains, doc, versions, blobs, req, purge, candidates,
                   condemned, contested, torn, rescued>>

\* SELECT DISTINCT sha256 FROM document, then the same from document_version.
SweepDocuments ==
    /\ listing # None
    /\ LET found == listing \ HeldByDocument({}) IN
        /\ candidates' = [candidates EXCEPT ![Sweeper] = found]
        /\ contested' = [contested EXCEPT ![Sweeper] = found \cap InFlight]
    /\ listing' = None
    /\ UNCHANGED <<domains, doc, versions, blobs, req, purge, condemned, torn, rescued>>

SweepVersions ==
    /\ candidates[Sweeper] # {}
    /\ LET found == candidates[Sweeper] \ HeldByVersion({}) IN
        /\ condemned' = [condemned EXCEPT ![Sweeper] = found]
        /\ contested' = [contested EXCEPT ![Sweeper] = @ \cap found]
    /\ candidates' = [candidates EXCEPT ![Sweeper] = {}]
    /\ UNCHANGED <<domains, doc, versions, blobs, req, purge, listing, torn, rescued>>

\* Seeded fault: the file is looked for under another key.
FaultUnlinkNothing(h) ==
    /\ h \in condemned[Sweeper]
    /\ condemned' = [condemned EXCEPT ![Sweeper] = @ \ {h}]
    /\ UNCHANGED <<domains, doc, versions, blobs, req, purge, listing, candidates,
                   contested, torn, rescued>>

SweepUnlink(h) ==
    /\ h \in condemned[Sweeper]
    /\ blobs' = blobs \ {h}
    /\ torn' = torn \cup (contested[Sweeper] \cap {h})
    /\ condemned' = [condemned EXCEPT ![Sweeper] = @ \ {h}]
    /\ contested' = [contested EXCEPT ![Sweeper] = @ \ {h}]
    /\ UNCHANGED <<domains, doc, versions, req, purge, listing, candidates, rescued>>

\* The job is killed (worker restart, job timeout) and not retried.
SweepAbort ==
    /\ ~SweepIdle
    /\ listing' = None
    /\ candidates' = [candidates EXCEPT ![Sweeper] = {}]
    /\ condemned' = [condemned EXCEPT ![Sweeper] = {}]
    /\ contested' = [contested EXCEPT ![Sweeper] = {}]
    /\ UNCHANGED <<domains, doc, versions, blobs, req, purge, torn, rescued>>

-----------------------------------------------------------------------------
Next ==
    \/ \E r \in Requests :
        \/ StoreAndProbe(r) \/ IngestAbort(r)
        \/ LookUpContent(r) \/ LookUpName(r)
        \/ CommitRestored(r) \/ CommitReplaced(r) \/ CommitCreated(r)
    \/ \E d \in DocIds : SoftDelete(d) \/ Restore(d)
    \/ \E dom \in Domains : DeleteDomain(dom)
    \/ \E k \in Purgers :
        \/ PurgeSelect(k) \/ PurgeRows(k)
        \/ PurgeSeekDocuments(k) \/ PurgeSeekVersions(k)
        \/ PurgeUnlink(k) \/ PurgeCommit(k) \/ PurgeRollback(k)
    \/ SweepList \/ SweepDocuments \/ SweepVersions \/ SweepAbort
    \/ \E h \in Hashes : SweepUnlink(h)

Spec == Init /\ [][Next]_vars
-----------------------------------------------------------------------------
(* Properties *)

\* Every variable stays in its range.
TypeOK ==
    /\ domains \subseteq Domains
    /\ doc \in [DocIds -> DocRow \cup {None}]
    /\ versions \in [DocIds -> SUBSET VersionRow]
    /\ blobs \subseteq Hashes
    /\ req \in [Requests -> Upload \cup {None}]
    /\ purge \in [Purgers -> Purge \cup {None}]
    /\ listing \in {None} \cup SUBSET Hashes
    /\ candidates \in [Collectors -> SUBSET Hashes]
    /\ condemned \in [Collectors -> SUBSET Hashes]
    /\ contested \in [Collectors -> SUBSET Hashes]
    /\ torn \subseteq Hashes
    /\ rescued \in [Purgers -> SUBSET DocIds]

\* At most one active document per (domain, content), whatever uploads,
\* replacements, restores and re-uploads from the trash interleave.
ActiveUnique ==
    \A d, e \in Active :
        doc[d].domain = doc[e].domain /\ doc[d].sha256 = doc[e].sha256 => d = e

\* Every version below the current one has its snapshot row, even when
\* replacements computed from stale rows overwrite each other.
HistoryGapless ==
    \A d \in Rows : \A n \in 1..doc[d].version :
        n < doc[d].version => \E v \in versions[d] : v.version_no = n

\* A file that a document or one of its versions needs goes missing only by a
\* race of an upload with the unlink, or by the rollback of a purge that had
\* unlinked already: no other order of steps loses content.
LostOnlyIfTorn ==
    \A d \in Rows : ~Locked(d) => HashesOf(d) \subseteq blobs \cup torn

\* An active document goes only with its domain, or by a purge that selected it
\* in the trash before it was restored: the purge deletes by id and does not
\* look at deleted_at again, and this is all it can cost.
ActiveGoesOnlyIfRescued ==
    [][\A d \in Active : d \notin Rows' =>
            \/ doc[d].domain \notin domains'
            \/ \E k \in Purgers : d \in rescued[k]]_vars

\* What section 14 promises: a blob is removed at refcount 0, so whatever a
\* document refers to is on disk.
BlobsPresent ==
    \A d \in Rows : ~Locked(d) => HashesOf(d) \subseteq blobs

-----------------------------------------------------------------------------
(* Liveness: the nightly sweep. *)

\* The cron job comes back every night, and is not killed at the same point
\* for ever.
SweepFairness ==
    /\ WF_vars(SweepList)
    /\ SF_vars(SweepDocuments)
    /\ SF_vars(SweepVersions)
    /\ \A h \in Hashes : SF_vars(SweepUnlink(h))

FairSpec == Spec /\ SweepFairness

Orphan(h) == h \in blobs /\ h \notin HeldByDocument({}) \cup HeldByVersion({})

\* A blob that nothing refers to does not stay on disk for ever.
OrphansReclaimed == \A h \in Hashes : []<>~Orphan(h)
=============================================================================
