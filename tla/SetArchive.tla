------------------------------ MODULE SetArchive ------------------------------
(***************************************************************************)
(* The shared archive of one document set (app/services/docsets.py:        *)
(* ensure_current_archive, archive_is_ready, build_set_archive; its        *)
(* readers in app/api/docsets.py, app/web/sets.py and app/bot; step 3 of   *)
(* app/services/cleanup.py).                                               *)
(*                                                                         *)
(* The archive is a cache: an artifact row says which contents the zip on  *)
(* disk has, and every access compares that with what the set resolves to  *)
(* now.  Rows are read in one statement and written back in another, only  *)
(* the columns that changed; the zip is written in place, at one path per  *)
(* set, by jobs that nothing keeps from running at the same time.          *)
(***************************************************************************)
EXTENDS Naturals, FiniteSets

CONSTANTS
    Docs,          \* documents the set may resolve to
    ArtifactIds,   \* ids of artifact rows
    Hits,          \* requests that access the archive
    LinkHits,      \* those that may come through a share link
    Builders,      \* job slots of the worker
    MaxDocs,       \* SET_MAX_DOCS: more documents than this are refused
    Mishaps,       \* what may happen besides: an archive's lifetime passes
                   \* ("lapse"); a write fails, a job or its process dies ("loss")
    MaxQueue,      \* bound on the build jobs waiting
    None           \* SQL NULL, an absent row or file, an idle process

ASSUME LinkHitsAssumption == LinkHits \subseteq Hits
ASSUME MaxDocsAssumption == MaxDocs \in Nat
ASSUME MishapsAssumption == Mishaps \subseteq {"lapse", "loss"}
ASSUME MaxQueueAssumption == MaxQueue \in Nat \ {0}

\* What the set resolves to in its share view.  The content hash covers
\* exactly what the archive shows of it, so it is not told apart from it.
View == SUBSET Docs

Status == {"building", "ready", "failed"}

\* A row of `artifact` of kind set_archive; expired: expires_at has passed.
Row ==
    [status: Status,
     storage_key: BOOLEAN,
     content_hash: View \cup {None},
     snapshot: [doc_ids: View \cup {None}, target_hash: View],
     expired: BOOLEAN]

\* The zip on disk; one that is being written, or that two builders wrote over
\* each other, is not whole.
Zip == [docs: View, whole: BOOLEAN]

\* An UPDATE sets a column only where the new value differs from the loaded
\* one; elsewhere the row keeps what others have written meanwhile.  A process
\* therefore remembers of the row it loaded which columns its UPDATE will set.
Column == {"status", "storage_key", "content_hash", "snapshot"}

Hit ==
    [step: {"followed", "resolved", "retarget", "fresh"},
     linked: Row \cup {None},        \* the row, where the link led to it first
     current: View,
     id: ArtifactIds \cup {None},
     doc_ids: View \cup {None},     \* of the snapshot it loaded
     writes: SUBSET Column]

Build ==
    [step: {"loaded", "resolved", "writing", "written", "adrift"},
     id: ArtifactIds,
     row: Row \cup {None},          \* the row it loaded, until docs is known
     docs: View,
     status: Status \cup {None},     \* of the row it loaded, until it has written
     writes: SUBSET Column,
     clash: BOOLEAN]                \* another builder had the file open as well

ASSUME NoneAssumption == None \notin Row /\ None \notin Build /\ None \notin ArtifactIds

VARIABLES
    public,      \* what the set's share view resolves to
    artifact,    \* rows of `artifact`
    file,        \* the zip at set_archive_path
    queue,       \* build jobs waiting
    hit,         \* accesses in progress
    build,       \* build jobs running
    cleanup,     \* the expired artifacts the cleanup has loaded (due) and those
                 \* whose status it will set (resets); None when idle
    dropped,     \* history: a build was asked for and its job got lost, or the
                 \* cleanup reset a record that had been renewed
    spoiled      \* history: the last build to start found another one running,
                 \* or a build has died since

vars == <<public, artifact, file, queue, hit, build, cleanup,
          dropped, spoiled>>
history == <<dropped, spoiled>>

Idle(p) == p = None
Artifacts == {a \in ArtifactIds : artifact[a] # None}
Running == {b \in Builders : build[b] # None}
Writing == {b \in Running : build[b].step \in {"writing", "adrift"}}

-----------------------------------------------------------------------------
Init ==
    /\ public \in View
    /\ artifact = [a \in ArtifactIds |-> None]
    /\ file = None
    /\ queue = 0
    /\ hit = [h \in Hits |-> None]
    /\ build = [b \in Builders |-> None]
    /\ cleanup = None
    /\ dropped = FALSE
    /\ spoiled = FALSE

-----------------------------------------------------------------------------
(* The set's contents, and time. *)

\* A document begins to match: uploaded, tagged, added, made public, restored,
\* or the owner's membership.
Publish(d) ==
    /\ d \notin public
    /\ public' = public \cup {d}
    /\ UNCHANGED <<artifact, file, queue, hit, build, cleanup, history>>

\* It stops matching: trashed, made private, untagged, membership lost.
Hide(d) ==
    /\ d \in public
    /\ public' = public \ {d}
    /\ UNCHANGED <<artifact, file, queue, hit, build, cleanup, history>>

\* SET_ARCHIVE_TTL_DAYS pass.
Expire(a) ==
    /\ "lapse" \in Mishaps /\ a \in Artifacts /\ ~artifact[a].expired
    /\ artifact' = [artifact EXCEPT ![a].expired = TRUE]
    /\ UNCHANGED <<public, file, queue, hit, build, cleanup, history>>

-----------------------------------------------------------------------------
(* ensure_current_archive and the response built on it. *)

NewHit == [step |-> "followed", linked |-> None, current |-> {}, id |-> None,
           doc_ids |-> None, writes |-> {}]

\* public_download loads the link's artifact.  The session keeps that object,
\* and get_set_artifact below will return it as it was loaded here.
HitFollow(h) ==
    /\ Idle(hit[h]) /\ h \in LinkHits
    /\ \E a \in Artifacts :
        hit' = [hit EXCEPT ![h] = [NewHit EXCEPT !.id = a,
                                                !.linked = artifact[a]]]
    /\ UNCHANGED <<public, artifact, file, queue, build, cleanup, history>>

\* resolve_set and set_content_hash.
HitResolve(h) ==
    /\ \/ /\ Idle(hit[h])
          /\ hit' = [hit EXCEPT ![h] =
                [NewHit EXCEPT !.step = "resolved", !.current = public]]
       \/ /\ ~Idle(hit[h]) /\ hit[h].step = "followed"
          /\ hit' = [hit EXCEPT ![h].step = "resolved", ![h].current = public]
    /\ UNCHANGED <<public, artifact, file, queue, build, cleanup, history>>

Fresh(row, current) ==
    /\ row.status = "ready" /\ row.content_hash = current
    /\ row.storage_key /\ file # None
    /\ ~row.expired

\* Seeded fault: an expired request for a build still counts.
FaultEverBuilding(row, current) ==
    row.status = "building" /\ row.snapshot.target_hash = current

BuildingThis(row, current) ==
    /\ row.status = "building"
    /\ row.snapshot.target_hash = current
    /\ ~row.expired

\* The columns that asking for a build changes.
Retargeted(row, current) ==
    {c \in {"status", "snapshot"} :
        CASE c = "status" -> row.status # "building"
          [] c = "snapshot" -> row.snapshot.target_hash # current}

\* get_set_artifact: the row loaded before, or else any of the set's rows.
Loaded(h) ==
    IF hit[h].linked # None
    THEN {<<hit[h].id, hit[h].linked>>}
    ELSE {<<a, artifact[a]>> : a \in Artifacts}

\* The three outcomes: a fresh archive; a build on its way (202, nothing to do);
\* a build to ask for.
HitLoad(h) ==
    /\ ~Idle(hit[h]) /\ hit[h].step = "resolved"
    /\ \/ /\ Loaded(h) = {}
          /\ hit' = [hit EXCEPT ![h].step = "retarget"]
       \/ \E found \in Loaded(h) :
            LET row == found[2]
                current == hit[h].current
            IN
            \/ /\ Fresh(row, current)
               /\ hit' = [hit EXCEPT ![h] =
                        [NewHit EXCEPT !.step = "fresh", !.current = current]]
            \/ /\ ~Fresh(row, current) /\ BuildingThis(row, current)
               /\ hit' = [hit EXCEPT ![h] = None]
            \/ /\ ~Fresh(row, current) /\ ~BuildingThis(row, current)
               /\ hit' = [hit EXCEPT ![h] =
                        [NewHit EXCEPT !.step = "retarget",
                                       !.current = current, !.id = found[1],
                                       !.doc_ids = row.snapshot.doc_ids,
                                       !.writes = Retargeted(row, current)]]
    /\ UNCHANGED <<public, artifact, file, queue, build, cleanup, history>>

NewRow(current) ==
    [status |-> "building", storage_key |-> FALSE, content_hash |-> None,
     snapshot |-> [doc_ids |-> None, target_hash |-> current], expired |-> FALSE]

\* status = building, a new target and a new expires_at (the present plus the
\* lifetime, never what it was); commit.
Retarget(h) ==
    LET id == hit[h].id
        writes == hit[h].writes
    IN
    /\ ~Idle(hit[h]) /\ hit[h].step = "retarget"
    /\ \/ /\ id = None
          /\ \E a \in ArtifactIds \ Artifacts :
                artifact' = [artifact EXCEPT ![a] = NewRow(hit[h].current)]
       \/ /\ id # None
          /\ artifact' = [artifact EXCEPT
                ![id].status = IF "status" \in writes THEN "building" ELSE @,
                ![id].snapshot =
                    IF "snapshot" \in writes
                    THEN [doc_ids |-> hit[h].doc_ids,
                          target_hash |-> hit[h].current]
                    ELSE @,
                ![id].expired = FALSE]
    /\ hit' = [hit EXCEPT ![h] = None]
    /\ UNCHANGED <<public, file, build, cleanup, spoiled>>

\* dispatch after the commit: the job is in the queue; the client gets 202.
HitRequest(h) ==
    /\ Retarget(h)
    /\ queue < MaxQueue
    /\ queue' = queue + 1
    /\ dropped' = FALSE

\* The process dies, or the queue refuses the job, after the commit.
HitRequestLost(h) ==
    /\ "loss" \in Mishaps
    /\ Retarget(h)
    /\ queue' = queue
    /\ dropped' = TRUE

\* archive_is_ready looks for the file again; with an empty archive the answer
\* is 410; otherwise FileResponse opens what is at the path by now and streams
\* it.
HitServe(h) ==
    /\ ~Idle(hit[h]) /\ hit[h].step = "fresh"
    /\ hit' = [hit EXCEPT ![h] = None]
    /\ UNCHANGED <<public, artifact, file, queue, build, cleanup, history>>

\* The client or the process goes away before anything is written.
HitEnd(h) ==
    /\ ~Idle(hit[h]) /\ hit[h].step # "fresh"
    /\ hit' = [hit EXCEPT ![h] = None]
    /\ UNCHANGED <<public, artifact, file, queue, build, cleanup, history>>

-----------------------------------------------------------------------------
(* build_set_archive, in a session of its own. *)

\* The worker takes the job; it loads the artifact.
BuildStart(b) ==
    /\ Idle(build[b]) /\ queue > 0
    /\ queue' = queue - 1
    /\ \E a \in Artifacts :
        build' = [build EXCEPT ![b] =
            [step |-> "loaded", id |-> a, row |-> artifact[a], docs |-> {},
             status |-> artifact[a].status, writes |-> {}, clash |-> FALSE]]
    /\ spoiled' = (Running # {})
    /\ UNCHANGED <<public, artifact, file, hit, cleanup, dropped>>

\* The columns that recording a finished build changes.
Finished(row, docs) ==
    {c \in Column :
        CASE c = "status" -> row.status # "ready"
          [] c = "storage_key" -> ~row.storage_key
          [] c = "content_hash" -> row.content_hash # docs
          [] c = "snapshot" ->
                row.snapshot # [doc_ids |-> docs, target_hash |-> docs]}

\* The share view as it is now.
BuildResolve(b) ==
    /\ ~Idle(build[b]) /\ build[b].step = "loaded"
    /\ build' = [build EXCEPT
            ![b].step = "resolved", ![b].docs = public, ![b].row = None,
            ![b].writes = Finished(build[b].row, public)]
    /\ UNCHANGED <<public, artifact, file, queue, hit, cleanup, history>>

\* Seeded fault: a failure is not recorded.
FaultUnrecorded(b) ==
    /\ artifact' = artifact
    /\ build' = [build EXCEPT ![b] = None]

\* Record a failure: over the limits, or an exception while writing.
Failed(b) ==
    /\ artifact' = [artifact EXCEPT ![build[b].id].status =
                        IF build[b].status # "failed" THEN "failed" ELSE @]
    /\ build' = [build EXCEPT ![b] = None]

OverLimit(docs) == Cardinality(docs) > MaxDocs

BuildRefused(b) ==
    /\ ~Idle(build[b]) /\ build[b].step = "resolved"
    /\ OverLimit(build[b].docs)
    /\ Failed(b)
    /\ UNCHANGED <<public, file, queue, hit, cleanup, history>>

\* ZipFile(path, "w") truncates what is there.
BuildOpen(b) ==
    /\ ~Idle(build[b]) /\ build[b].step = "resolved"
    /\ ~OverLimit(build[b].docs)
    /\ file' = [docs |-> build[b].docs, whole |-> FALSE]
    /\ build' = [c \in Builders |->
            CASE c = b -> [build[b] EXCEPT !.step = "writing",
                                           !.clash = Writing # {}]
              [] c \in Writing -> [build[c] EXCEPT !.clash = TRUE]
              [] OTHER -> build[c]]
    /\ UNCHANGED <<public, artifact, queue, hit, cleanup, history>>

\* What the file may end as when b writes its last bytes.  Where two builders
\* had it open at once it ends as this one's, as neither's, or, when it was
\* unlinked in between and this one wrote to the old inode, as it is.
Closed(b) ==
    IF file = None THEN {None}
    ELSE {[docs |-> build[b].docs, whole |-> TRUE]}
         \cup IF build[b].clash
              THEN {file, [docs |-> build[b].docs, whole |-> FALSE]}
              ELSE {}

\* ... and when it stops short.
Stopped(b) ==
    IF b \in Writing /\ build[b].clash /\ file # None
    THEN {file, [file EXCEPT !.whole = FALSE]}
    ELSE {file}

BuildClose(b) ==
    /\ ~Idle(build[b]) /\ build[b].step = "writing"
    /\ file # None        \* path.stat()
    /\ file' \in Closed(b)
    /\ build' = [build EXCEPT ![b].step = "written", ![b].status = None,
                              ![b].clash = FALSE]
    /\ UNCHANGED <<public, artifact, queue, hit, cleanup, history>>

\* Any exception in write_document_zip, as for a file that vanished.
BuildFail(b) ==
    /\ file = None \/ "loss" \in Mishaps
    /\ ~Idle(build[b]) /\ build[b].step = "writing"
    /\ Failed(b)
    /\ file' \in Stopped(b)
    /\ UNCHANGED <<public, queue, hit, cleanup, history>>

\* Seeded fault: the record gets the hash of what the set is now.
FaultHashedLate(b) == public

Built(b) == build[b].docs

BuildCommit(b) ==
    LET id == build[b].id
        writes == build[b].writes
    IN
    /\ ~Idle(build[b]) /\ build[b].step = "written"
    /\ artifact' = [artifact EXCEPT
            ![id].storage_key = @ \/ "storage_key" \in writes,
            ![id].content_hash =
                IF "content_hash" \in writes THEN Built(b) ELSE @,
            ![id].snapshot =
                IF "snapshot" \in writes
                THEN [doc_ids |-> build[b].docs, target_hash |-> Built(b)]
                ELSE @,
            ![id].status = IF "status" \in writes THEN "ready" ELSE @]
    /\ build' = [build EXCEPT ![b] = None]
    /\ UNCHANGED <<public, file, queue, hit, cleanup, history>>

\* The worker is killed, or the job is cancelled between two awaits.
BuildDie(b) ==
    /\ "loss" \in Mishaps
    /\ ~Idle(build[b])
    /\ build' = [build EXCEPT ![b] = None]
    /\ file' \in Stopped(b)
    /\ dropped' = TRUE
    /\ spoiled' = TRUE
    /\ UNCHANGED <<public, artifact, queue, hit, cleanup>>

\* The job runs into its timeout: the coroutine is cancelled and not retried,
\* while the thread that writes the zip goes on, ...
BuildTimeout(b) ==
    /\ "loss" \in Mishaps
    /\ ~Idle(build[b]) /\ build[b].step = "writing"
    /\ build' = [build EXCEPT ![b].step = "adrift", ![b].status = None,
                              ![b].writes = {}]
    /\ dropped' = TRUE
    /\ spoiled' = TRUE
    /\ UNCHANGED <<public, artifact, file, queue, hit, cleanup>>

\* ... to its end.
DriftEnd(b) ==
    /\ ~Idle(build[b]) /\ build[b].step = "adrift"
    /\ build' = [build EXCEPT ![b] = None]
    /\ file' \in Closed(b)
    /\ UNCHANGED <<public, artifact, queue, hit, cleanup, history>>

-----------------------------------------------------------------------------
(* Step 3 of run_cleanup: select, unlink, and commit with everything else. *)

CleanupSelect ==
    LET due == {a \in Artifacts : artifact[a].storage_key
                                  /\ artifact[a].expired}
    IN
    /\ Idle(cleanup) /\ due # {}
    /\ cleanup' = [unlinked |-> FALSE, due |-> due,
                   resets |-> {a \in due : artifact[a].status # "building"}]
    /\ UNCHANGED <<public, artifact, file, queue, hit, build, history>>

CleanupUnlink ==
    /\ ~Idle(cleanup) /\ ~cleanup.unlinked
    /\ file' = None
    /\ cleanup' = [cleanup EXCEPT !.unlinked = TRUE]
    /\ UNCHANGED <<public, artifact, queue, hit, build, history>>

CleanupCommit ==
    /\ ~Idle(cleanup) /\ cleanup.unlinked
    /\ artifact' = [a \in ArtifactIds |->
            IF a \notin cleanup.due THEN artifact[a]
            ELSE [artifact[a] EXCEPT
                    !.storage_key = FALSE,
                    !.status = IF a \in cleanup.resets THEN "building" ELSE @]]
    /\ dropped' = (dropped \/ \E a \in cleanup.due : ~artifact[a].expired)
    /\ cleanup' = None
    /\ UNCHANGED <<public, file, queue, hit, build, spoiled>>

\* A failure in a later step, or a kill: the rows stay, the file is gone.
CleanupAbort ==
    /\ ~Idle(cleanup)
    /\ cleanup' = None
    /\ UNCHANGED <<public, artifact, file, queue, hit, build, history>>

-----------------------------------------------------------------------------
Next ==
    \/ \E d \in Docs : Publish(d) \/ Hide(d)
    \/ \E a \in ArtifactIds : Expire(a)
    \/ \E h \in Hits :
        \/ HitFollow(h) \/ HitResolve(h) \/ HitLoad(h)
        \/ HitRequest(h) \/ HitRequestLost(h) \/ HitServe(h) \/ HitEnd(h)
    \/ \E b \in Builders :
        \/ BuildStart(b) \/ BuildResolve(b) \/ BuildRefused(b) \/ BuildOpen(b)
        \/ BuildClose(b) \/ BuildFail(b) \/ BuildCommit(b)
        \/ BuildDie(b) \/ BuildTimeout(b) \/ DriftEnd(b)
    \/ CleanupSelect \/ CleanupUnlink \/ CleanupCommit \/ CleanupAbort

Spec == Init /\ [][Next]_vars
-----------------------------------------------------------------------------
(* Properties *)

\* Every variable stays in its range.
TypeOK ==
    /\ public \in View
    /\ artifact \in [ArtifactIds -> Row \cup {None}]
    /\ file \in Zip \cup {None}
    /\ queue \in 0..MaxQueue
    /\ hit \in [Hits -> Hit \cup {None}]
    /\ build \in [Builders -> Build \cup {None}]
    /\ \/ cleanup = None
       \/ cleanup \in [unlinked: BOOLEAN, due: SUBSET ArtifactIds,
                      resets: SUBSET ArtifactIds]
    /\ dropped \in BOOLEAN /\ spoiled \in BOOLEAN

\* While builds keep to themselves (no two at a time, none that died), a record
\* that says ready, with its file in place, tells what is in the file.
RecordTellsFile ==
    Running = {} /\ ~spoiled /\ file # None =>
        \A a \in Artifacts :
            artifact[a].status = "ready" /\ artifact[a].storage_key =>
                file = [docs |-> artifact[a].content_hash, whole |-> TRUE]

\* Nobody is told to wait for a build that is not coming, unless its job was
\* lost or the cleanup overwrote the answer.
BuildOwed ==
    (\E a \in Artifacts : artifact[a].status = "building"
                          /\ ~artifact[a].expired)
        => queue > 0 \/ Running # {} \/ dropped

\* Section 15 of the architecture: a share link only ever exposes documents
\* flagged public.  Whatever public_download sends is public as it is sent, or was
\* when resolve_set looked.
ExposesPublicOnly ==
    [][\A h \in Hits :
        HitServe(h) /\ file # None /\ file.whole /\ hit[h].current # {}
            => file.docs \subseteq hit[h].current \cup public]_vars
-----------------------------------------------------------------------------
(* Liveness *)

\* Somebody keeps asking for the archive, time passes, requests that come again
\* and again are not cut short every time.
AccessFairness ==
    /\ \A a \in ArtifactIds : WF_vars(Expire(a))
    /\ \E h \in Hits : /\ WF_vars(HitResolve(h))
                       /\ SF_vars(HitLoad(h))
                       /\ SF_vars(HitRequest(h))
                       /\ WF_vars(HitServe(h))

FairSpec == Spec /\ AccessFairness

Abandoned ==
    /\ \E a \in Artifacts : artifact[a].status = "building"
    /\ queue = 0 /\ Running = {}

\* A record that waits for a build nobody is doing does not do so for ever: it
\* expires, and the next access asks again.
AbandonedIsTakenUp == Abandoned ~> ~Abandoned
=============================================================================
