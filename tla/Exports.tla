------------------------------- MODULE Exports -------------------------------
(* Exports: services/export.py, the full export of a set, the routes that    *)
(* ask for one and download it, and the cleanup of the expired ones.  An     *)
(* export is a snapshot of document ids taken by the request; a job writes   *)
(* the zip of what is left of them; after 48 hours the row and its file go.  *)
EXTENDS Integers, FiniteSets

CONSTANTS
    Docs,
    Ids,        \* artifact ids
    Picks,      \* the snapshots asked for: sets of documents
    None

VARIABLES
    docs,      \* [Docs -> "live", "trashed" or "gone"]
    domain,    \* the domain exists
    member,    \* whether the requester may download from it
    row,       \* the artifact table: [Ids -> row or None]
    file,      \* [Ids -> the zip: "none", "torn" or "whole", the documents its
               \* manifest lists, and those whose file is in it]
    job,       \* [Ids -> the build: where it is, and what it loaded]
    sweep      \* the expired rows a running cleanup has unlinked
VARIABLE leaked  \* history: why a file may be left without a row

vars == <<docs, domain, member, row, file, job, sweep, leaked>>

Rows == [full : BOOLEAN, ids : SUBSET Docs, status : {"building", "ready", "failed"},
         key : BOOLEAN, items : 0..Cardinality(Docs), missing : 0..Cardinality(Docs),
         expired : BOOLEAN]

(* What the code lets one assume of the constants.                           *)
PicksAssumption == IsFiniteSet(Docs) /\ Picks \subseteq SUBSET Docs /\ None \notin Rows

NoFile == [is |-> "none", listed |-> {}, docs |-> {}]
Torn == [is |-> "torn", listed |-> {}, docs |-> {}]
At(step) == [at |-> step, docs |-> {}]
Exists(e) == row[e] # None
Left(S) == {d \in S : docs[d] = "live"}

-----------------------------------------------------------------------------
(* Asking. *)

NewRow(S, full) == [full |-> full, ids |-> S, status |-> "building", key |-> FALSE,
                    items |-> Cardinality(S), missing |-> 0, expired |-> FALSE]

Ask(e, S, full) ==
    /\ row[e] = None /\ file[e] = NoFile /\ job[e] = At("none") /\ e \notin leaked \cup sweep
    /\ row' = [row EXCEPT ![e] = NewRow(S, full)]
    /\ job' = [job EXCEPT ![e] = At("committed")]
    /\ UNCHANGED <<docs, domain, member, file, sweep, leaked>>

(* create_export: of the documents named, or found by a search, those of the *)
(* domain that are not in the trash.                                         *)
CreateExport(e, S) == domain /\ member /\ Ask(e, Left(S), FALSE)

(* start_full_export: of what the set resolves to for its owner; the set     *)
(* refuses one over its limits.                                              *)
StartFullExport(e, S) == Ask(e, IF member THEN Left(S) ELSE {}, TRUE)

(* Committed, then enqueued; a kill in between leaves a row without a job.   *)
Dispatch(e) ==
    /\ job[e] = At("committed")
    /\ job' = [job EXCEPT ![e] = At("queued")]
    /\ UNCHANGED <<docs, domain, member, row, file, sweep, leaked>>

-----------------------------------------------------------------------------
(* Building. *)

(* build_artifact loads the row and what is left of its documents.           *)
BuildLoads(e) ==
    /\ job[e] = At("queued")
    /\ job' = [job EXCEPT ![e] = IF Exists(e) THEN [at |-> "writing", docs |-> Left(row[e].ids)]
                                              ELSE At("none")]
    /\ UNCHANGED <<docs, domain, member, row, file, sweep, leaked>>

Writing(e) == job[e].at = "writing"

(* A fault: the missing ones are counted at the end of the build.            *)
FaultCountsLate(e, loaded) ==
    [row[e] EXCEPT !.status = "ready", !.key = TRUE, !.items = Cardinality(loaded),
                   !.missing = Cardinality(row[e].ids) - Cardinality(Left(row[e].ids))]

(* The counts the job records, from what it loaded.                          *)
Record(e, loaded) ==
    [row[e] EXCEPT !.status = "ready", !.key = TRUE, !.items = Cardinality(loaded),
                   !.missing = Cardinality(row[e].ids) - Cardinality(loaded)]

(* The zip is written.  A document that was purged since it was loaded may   *)
(* have no blob any more: it is listed, and counted, without its file.  The  *)
(* record fails if the row is gone by then.                                  *)
BuildEnds(e) ==
    /\ Writing(e)
    /\ \E skipped \in SUBSET {d \in job[e].docs : docs[d] = "gone"} :
           file' = [file EXCEPT ![e] = [is |-> "whole", listed |-> job[e].docs,
                                        docs |-> job[e].docs \ skipped]]
    /\ row' = IF Exists(e) THEN [row EXCEPT ![e] = Record(e, job[e].docs)] ELSE row
    /\ leaked' = IF Exists(e) /\ e \notin sweep THEN leaked ELSE leaked \cup {e}
    /\ job' = [job EXCEPT ![e] = At("none")]
    /\ UNCHANGED <<docs, domain, member, sweep>>

(* Writing raises: what was written stays, the row has no file name.         *)
BuildFails(e) ==
    /\ Writing(e)
    /\ file' = [file EXCEPT ![e] = Torn]
    /\ row' = IF Exists(e) THEN [row EXCEPT ![e].status = "failed"] ELSE row
    /\ leaked' = leaked \cup {e}
    /\ job' = [job EXCEPT ![e] = At("none")]
    /\ UNCHANGED <<docs, domain, member, sweep>>

(* The process dies or the job times out; nothing runs it again.             *)
BuildDies(e) ==
    /\ job[e].at # "none"
    /\ file' = IF Writing(e) THEN [file EXCEPT ![e] = Torn] ELSE file
    /\ leaked' = IF Writing(e) THEN leaked \cup {e} ELSE leaked
    /\ job' = [job EXCEPT ![e] = At("none")]
    /\ UNCHANGED <<docs, domain, member, row, sweep>>

-----------------------------------------------------------------------------
(* Expiry and the nightly cleanup. *)

Expire(e) ==
    /\ Exists(e) /\ ~row[e].expired
    /\ row' = [row EXCEPT ![e].expired = TRUE]
    /\ UNCHANGED <<docs, domain, member, file, job, sweep, leaked>>

(* A fault: the files stay. *)
FaultKeepsFile(e) == file[e]

FileOfSwept(e) == IF row[e].key THEN NoFile ELSE file[e]

(* The files of the expired rows go at once ...                              *)
SweepUnlinks ==
    /\ sweep = {}
    /\ sweep' = {e \in Ids : Exists(e) /\ row[e].expired} /\ sweep' # {}
    /\ file' = [e \in Ids |-> IF e \in sweep' THEN FileOfSwept(e) ELSE file[e]]
    /\ UNCHANGED <<docs, domain, member, row, job, leaked>>

(* ... and the rows with the commit at the end.                              *)
SweepCommits ==
    /\ sweep # {}
    /\ row' = [e \in Ids |-> IF e \in sweep THEN None ELSE row[e]]
    /\ sweep' = {}
    /\ UNCHANGED <<docs, domain, member, file, job, leaked>>

SweepDies ==
    /\ sweep # {}
    /\ sweep' = {}
    /\ UNCHANGED <<docs, domain, member, row, file, job, leaked>>

-----------------------------------------------------------------------------
(* The rest of the program. *)

Trash(d) == docs[d] = "live" /\ docs' = [docs EXCEPT ![d] = "trashed"]
Restore(d) == docs[d] = "trashed" /\ docs' = [docs EXCEPT ![d] = "live"]
Purge(d) == docs[d] = "trashed" /\ docs' = [docs EXCEPT ![d] = "gone"]
Documents == /\ \E d \in Docs : Trash(d) \/ Restore(d) \/ Purge(d)
             /\ UNCHANGED <<domain, member, row, file, job, sweep, leaked>>

Membership == member' = ~member /\ UNCHANGED <<docs, domain, row, file, job, sweep, leaked>>

(* The rows of its exports go with a domain, their files do not.             *)
DeleteDomain ==
    /\ domain
    /\ domain' = FALSE /\ member' = FALSE
    /\ docs' = [d \in Docs |-> "gone"]
    /\ row' = [e \in Ids |-> IF Exists(e) /\ ~row[e].full THEN None ELSE row[e]]
    /\ leaked' = leaked \cup {e \in Ids : Exists(e) /\ ~row[e].full /\ file[e] # NoFile}
    /\ UNCHANGED <<file, job, sweep>>

-----------------------------------------------------------------------------
Init ==
    /\ docs = [d \in Docs |-> "live"] /\ domain = TRUE /\ member = TRUE
    /\ row = [e \in Ids |-> None] /\ file = [e \in Ids |-> NoFile]
    /\ job = [e \in Ids |-> At("none")] /\ sweep = {} /\ leaked = {}

Next ==
    \/ \E e \in Ids :
          \/ \E S \in Picks : CreateExport(e, S) \/ StartFullExport(e, S)
          \/ Dispatch(e) \/ BuildLoads(e) \/ BuildEnds(e) \/ BuildFails(e) \/ BuildDies(e)
          \/ Expire(e)
    \/ SweepUnlinks \/ SweepCommits \/ SweepDies
    \/ Documents \/ DeleteDomain \/ (domain /\ Membership)

Spec == Init /\ [][Next]_vars
-----------------------------------------------------------------------------
TypeOK ==
    /\ docs \in [Docs -> {"live", "trashed", "gone"}]
    /\ domain \in BOOLEAN /\ member \in BOOLEAN
    /\ row \in [Ids -> Rows \cup {None}]
    /\ file \in [Ids -> [is : {"none", "torn", "whole"},
                         listed : SUBSET Docs, docs : SUBSET Docs]]
    /\ job \in [Ids -> [at : {"none", "committed", "queued", "writing"}, docs : SUBSET Docs]]
    /\ sweep \subseteq Ids /\ leaked \subseteq Ids

(* What the download routes accept: the requester's own full export, or one  *)
(* of a domain he may still download from.                                   *)
Downloadable(e) ==
    /\ Exists(e) /\ (row[e].full \/ member)
    /\ row[e].status = "ready" /\ row[e].key /\ ~row[e].expired /\ file[e] # NoFile

(* What can be downloaded is whole and described by its counts: those of the *)
(* snapshot that its manifest lists, and those it does not, which the zip    *)
(* itself names nowhere.  It has the file of each document it lists, but for *)
(* one purged while the build ran, which counts as one of its items.         *)
DownloadIsAccountedFor ==
    \A e \in Ids : Downloadable(e) =>
        /\ file[e].is = "whole" /\ Cardinality(file[e].listed) = row[e].items
        /\ file[e].docs \subseteq file[e].listed /\ file[e].listed \subseteq row[e].ids
        /\ \A d \in file[e].listed \ file[e].docs : docs[d] = "gone"
        /\ row[e].items + row[e].missing = Cardinality(row[e].ids)

(* A file without a row is never swept again.  It takes a build that was cut *)
(* short or overtaken by the cleanup, or the deletion of the domain.         *)
FilesHaveRowsUnlessLeaked == \A e \in Ids : file[e] # NoFile => Exists(e) \/ e \in leaked
=============================================================================
