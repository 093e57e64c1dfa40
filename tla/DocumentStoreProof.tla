-------------------------- MODULE DocumentStoreProof --------------------------
(***************************************************************************)
(* Proofs about DocumentStore for every set of domains, contents, names,   *)
(* document ids, uploads and purges, and every version bound.              *)
(***************************************************************************)
EXTENDS DocumentStore, TLAPS

-----------------------------------------------------------------------------
(* The inductive invariant, in named parts. *)

\* A request about to restore or replace remembers the row it loaded.
LoadedWhenNeeded ==
    \A r \in Requests :
        req[r] # None /\ req[r].step \in {"restore", "replace"}
            => req[r].row # None

\* The history below the version a request loaded is complete already.
LoadedHistory ==
    \A r \in Requests :
        req[r] # None /\ req[r].row # None /\ req[r].row.id \in Rows
            => \A n \in 1..req[r].row.version :
                n < req[r].row.version =>
                    \E v \in versions[req[r].row.id] : v.version_no = n

\* What a purge regards as deleted.
Gone(c) == IF c \in Purgers /\ purge[c] # None THEN purge[c].dead ELSE {}

\* Some upload in flight stored content h, and will make a row refer to it.
StoredBy(h) == \E r \in Requests : req[r] # None /\ req[r].sha256 = h

\* Document d refers to h now, or an upload that loaded its row when it did
\* is about to write a snapshot of it.
PointsAt(d, h) ==
    \/ h = doc[d].sha256
    \/ \E r \in Requests :
        /\ req[r] # None /\ req[r].row # None
        /\ req[r].row.id = d /\ req[r].row.sha256 = h

\* Document d needs the file of h, now or for a version.
Needs(d, h) == PointsAt(d, h) \/ \E v \in versions[d] : v.sha256 = h

\* Versions go with their document.
NoStrayVersions == \A d \in DocIds : d \notin Rows => versions[d] = {}

\* A hash the first SELECT missed though a document points at it, a hash both
\* missed though a document needs it, and either though an upload in flight
\* has stored it: all contested.
CandidatesPointedAt ==
    \A c \in Collectors : \A d \in Rows \ Gone(c) : \A h \in candidates[c] :
        PointsAt(d, h) => h \in contested[c]
CondemnedNeeded ==
    \A c \in Collectors : \A d \in Rows \ Gone(c) : \A h \in condemned[c] :
        Needs(d, h) => h \in contested[c]
WatchedStored ==
    \A c \in Collectors : \A h \in candidates[c] \cup condemned[c] :
        StoredBy(h) => h \in contested[c]

\* Where the files of stored and of needed contents are; only a purge that has
\* deleted the document itself may have unlinked one of its files.
StoredOnDisk == \A h \in Hashes : StoredBy(h) => h \in blobs \cup torn
NeededOnDisk ==
    \A d \in Rows : \A h \in Hashes :
        Needs(d, h) =>
            \/ h \in blobs \cup torn
            \/ \E k \in Purgers : /\ purge[k] # None
                                  /\ d \in purge[k].dead
                                  /\ h \in purge[k].unlinked

\* A collector's two SELECTs and its unlinking do not overlap.
StagesInOrder ==
    /\ \A c \in Collectors : candidates[c] = {} \/ condemned[c] = {}
    /\ listing # None => candidates[Sweeper] = {} /\ condemned[Sweeper] = {}

FilesInv ==
    /\ CandidatesPointedAt /\ CondemnedNeeded /\ WatchedStored
    /\ StoredOnDisk /\ NeededOnDisk

\* What a purge selected, deleted by it by now or not, is in the trash, unless
\* it was restored before the purge deleted it.
Taken(k) == purge[k].dead \cup {t.id : t \in purge[k].todo}
TakenFromTrash ==
    \A k \in Purgers : purge[k] # None => Taken(k) \cap Active \subseteq rescued[k]

HistoryInv == HistoryGapless /\ LoadedWhenNeeded /\ LoadedHistory

IInv == TypeOK /\ ActiveUnique /\ HistoryInv /\ NoStrayVersions
        /\ StagesInOrder /\ FilesInv /\ TakenFromTrash

-----------------------------------------------------------------------------
(* Types. *)

\* Every variable has its type in every initial state.
LEMMA TypeInit == Init => TypeOK
BY DEF Init, TypeOK

\* Only documents are rescued.
LEMMA RescueType ==
    ASSUME TypeOK, NEW d \in DocIds
    PROVE  Rescue(d) \in [Purgers -> SUBSET DocIds]
BY DEF Rescue, TypeOK

\* An upload's steps keep the types.
LEMMA TypeUpload ==
    ASSUME TypeOK, LoadedWhenNeeded, NEW r \in Requests,
           \/ StoreAndProbe(r) \/ IngestAbort(r)
           \/ LookUpContent(r) \/ LookUpName(r)
           \/ CommitRestored(r) \/ CommitReplaced(r) \/ CommitCreated(r)
    PROVE  TypeOK'
<1>. USE DEF TypeOK
<1>1. CASE StoreAndProbe(r)
    BY <1>1 DEF StoreAndProbe, Upload, gcVars
<1>2. CASE IngestAbort(r)
    BY <1>2 DEF IngestAbort, gcVars
<1>3. CASE LookUpContent(r)
    BY <1>3 DEF LookUpContent, gcVars, Upload, Loaded, TrashedTwin, Trashed, Rows, Load, DocRow
<1>4. CASE LookUpName(r)
    BY <1>4 DEF LookUpName, gcVars, Upload, Loaded, SameName, Active, Rows, Load, DocRow
<1>5. CASE CommitRestored(r)
    <2>1. PICK d \in Rows : doc' = [doc EXCEPT ![d].trashed = FALSE]
        BY <1>5 DEF CommitRestored
    <2>2. doc[d] \in DocRow
        BY DEF Rows
    <2>3. doc' \in [DocIds -> DocRow \cup {None}]
        BY <2>1, <2>2 DEF DocRow
    <2>4. rescued' \in [Purgers -> SUBSET DocIds]
        BY <1>5, RescueType DEF CommitRestored, Rows
    <2>5. QED
        BY <1>5, <2>3, <2>4 DEF CommitRestored, gcVars
<1>6. CASE CommitReplaced(r)
    <2> DEFINE d == req[r].row.id
               new == IF req[r].sha256 = req[r].row.sha256
                      THEN doc[d].sha256 ELSE req[r].sha256
    <2>1. /\ d \in DocIds /\ doc[d] \in DocRow
          /\ req[r] \in Upload
          /\ req[r].row.version < MaxVersion
        BY <1>6 DEF CommitReplaced, Rows
    <2>2. req[r].row \in Loaded
        BY <1>6, <2>1 DEF LoadedWhenNeeded, CommitReplaced, Upload
    <2>3. new \in Hashes /\ req[r].row.version + 1 \in 1..MaxVersion
        BY <2>1, <2>2, MaxVersionAssumption DEF Upload, Loaded, DocRow
    <2>4. doc' = [doc EXCEPT ![d].sha256 = new,
                             ![d].version = req[r].row.version + 1]
        BY <1>6 DEF CommitReplaced
    <2>5. doc' \in [DocIds -> DocRow \cup {None}]
        <3> HIDE DEF new
        <3> QED
            BY <2>1, <2>3, <2>4 DEF DocRow
    <2>6. Snapshot(req[r].row) \in VersionRow
        BY <2>2 DEF Snapshot, VersionRow, Loaded
    <2>7. versions' \in [DocIds -> SUBSET VersionRow]
        BY <1>6, <2>1, <2>6 DEF CommitReplaced
    <2>8. QED
        BY <1>6, <2>5, <2>7 DEF CommitReplaced, gcVars
<1>7. CASE CommitCreated(r)
    BY <1>7, MaxVersionAssumption DEF CommitCreated, gcVars, DocRow, Rows, Upload
<1>8. QED
    BY <1>1, <1>2, <1>3, <1>4, <1>5, <1>6, <1>7

\* Trash operations keep the types.
LEMMA TypeTrash ==
    ASSUME TypeOK,
           \/ \E d \in DocIds : SoftDelete(d) \/ Restore(d)
           \/ \E dom \in Domains : DeleteDomain(dom)
    PROVE  TypeOK'
<1>. USE DEF TypeOK
<1>1. CASE \E d \in DocIds : SoftDelete(d)
    <2>1. PICK d \in DocIds : SoftDelete(d)
        BY <1>1
    <2>2. doc[d] \in DocRow
        BY <2>1 DEF SoftDelete, Active, Rows
    <2>3. doc' \in [DocIds -> DocRow \cup {None}]
        BY <2>1, <2>2 DEF SoftDelete, DocRow
    <2>4. QED
        BY <2>1, <2>3 DEF SoftDelete, gcVars
<1>2. CASE \E d \in DocIds : Restore(d)
    <2>1. PICK d \in DocIds : Restore(d)
        BY <1>2
    <2>2. doc[d] \in DocRow
        BY <2>1 DEF Restore, Trashed, Rows
    <2>3. doc' \in [DocIds -> DocRow \cup {None}]
        BY <2>1, <2>2 DEF Restore, DocRow
    <2>4. QED
        BY <2>1, <2>3, RescueType DEF Restore, gcVars
<1>3. CASE \E dom \in Domains : DeleteDomain(dom)
    BY <1>3 DEF DeleteDomain, gcVars
<1>4. QED
    BY <1>1, <1>2, <1>3

\* A purge's steps keep the types.
LEMMA TypePurge ==
    ASSUME TypeOK, NEW k \in Purgers,
           \/ PurgeSelect(k) \/ PurgeRows(k)
           \/ PurgeSeekDocuments(k) \/ PurgeSeekVersions(k)
           \/ PurgeUnlink(k) \/ PurgeCommit(k) \/ PurgeRollback(k)
    PROVE  TypeOK'
<1>. USE DEF TypeOK
<1>0. k \in Collectors
    BY DEF Collectors
<1>1. CASE PurgeSelect(k)
    BY <1>1 DEF PurgeSelect, Purgeable, Purge, Trashed, Rows, DocRow
<1>2. CASE PurgeRows(k)
    <2>1. PICK t \in purge[k].todo :
            purge' = [purge EXCEPT
                ![k].todo = @ \ {t},
                ![k].dead = @ \cup {t.id},
                ![k].hashes = {t.sha256} \cup {v.sha256 : v \in versions[t.id]}]
        BY <1>2 DEF PurgeRows
    <2>2. purge[k] \in Purge
        BY <1>2 DEF PurgeRows
    <2>3. t \in [id: DocIds, sha256: Hashes]
        BY <2>2 DEF Purge
    <2>4. {v.sha256 : v \in versions[t.id]} \subseteq Hashes
        BY <2>3 DEF VersionRow
    <2>5. purge' \in [Purgers -> Purge \cup {None}]
        BY <2>1, <2>2, <2>3, <2>4 DEF Purge
    <2>6. QED
        BY <1>2, <2>5 DEF PurgeRows
<1>3. CASE PurgeSeekDocuments(k)
    BY <1>0, <1>3 DEF PurgeSeekDocuments, Purge
<1>8. CASE PurgeSeekVersions(k)
    BY <1>0, <1>8 DEF PurgeSeekVersions, Purge
<1>4. CASE PurgeUnlink(k)
    BY <1>0, <1>4 DEF PurgeUnlink, Purge
<1>5. CASE PurgeCommit(k)
    BY <1>5 DEF PurgeCommit
<1>6. CASE PurgeRollback(k)
    BY <1>0, <1>6 DEF PurgeRollback, Purge
<1>7. QED
    BY <1>1, <1>2, <1>3, <1>4, <1>5, <1>6, <1>8

\* The sweep's steps keep the types.
LEMMA TypeSweep ==
    ASSUME TypeOK,
           \/ SweepList \/ SweepDocuments \/ SweepVersions \/ SweepAbort
           \/ \E h \in Hashes : SweepUnlink(h)
    PROVE  TypeOK'
<1>. USE DEF TypeOK
<1>0. Sweeper \in Collectors
    BY DEF Collectors
<1>1. CASE SweepList
    BY <1>1 DEF SweepList
<1>2. CASE SweepDocuments
    BY <1>0, <1>2, NoneAssumption DEF SweepDocuments
<1>6. CASE SweepVersions
    BY <1>0, <1>6 DEF SweepVersions
<1>3. CASE SweepAbort
    BY <1>0, <1>3 DEF SweepAbort
<1>4. CASE \E h \in Hashes : SweepUnlink(h)
    BY <1>0, <1>4 DEF SweepUnlink
<1>5. QED
    BY <1>1, <1>2, <1>3, <1>4, <1>6

\* The steps that leave the uploads alone.
LEMMA OthersKeepRequests ==
    ASSUME \/ \E d \in DocIds : SoftDelete(d) \/ Restore(d)
           \/ \E dom \in Domains : DeleteDomain(dom)
           \/ \E k \in Purgers :
                \/ PurgeSelect(k) \/ PurgeRows(k)
                \/ PurgeSeekDocuments(k) \/ PurgeSeekVersions(k)
                \/ PurgeUnlink(k) \/ PurgeCommit(k) \/ PurgeRollback(k)
           \/ SweepList \/ SweepDocuments \/ SweepVersions \/ SweepAbort
           \/ \E h \in Hashes : SweepUnlink(h)
    PROVE  req' = req
BY DEF SoftDelete, Restore, DeleteDomain, PurgeSelect, PurgeRows,
       PurgeSeekDocuments, PurgeSeekVersions, PurgeUnlink, PurgeCommit,
       PurgeRollback, SweepList, SweepDocuments, SweepVersions, SweepAbort,
       SweepUnlink

\* A request that will restore or replace has loaded a row.
LEMMA LoadedStep == TypeOK /\ LoadedWhenNeeded /\ [Next]_vars => LoadedWhenNeeded'
<1> SUFFICES ASSUME TypeOK, LoadedWhenNeeded, [Next]_vars
             PROVE  LoadedWhenNeeded'
    OBVIOUS
<1>1. ASSUME req' = req
      PROVE  LoadedWhenNeeded'
    BY <1>1 DEF LoadedWhenNeeded
<1>2. ASSUME NEW r \in Requests, req' = [req EXCEPT ![r] = None]
      PROVE  LoadedWhenNeeded'
    BY <1>2 DEF LoadedWhenNeeded, TypeOK
<1>3. ASSUME NEW r \in Requests, StoreAndProbe(r)
      PROVE  LoadedWhenNeeded'
    BY <1>3 DEF StoreAndProbe, LoadedWhenNeeded, TypeOK
<1>4. ASSUME NEW d \in Rows
      PROVE  Load(d) # None
    BY <1>4, NoneAssumption DEF Load, Loaded, TypeOK, Rows, DocRow
<1>5. ASSUME NEW r \in Requests, LookUpContent(r)
      PROVE  LoadedWhenNeeded'
    <2>1. req[r] \in Upload
        BY <1>5 DEF LookUpContent, TypeOK
    <2>2. CASE req' = [req EXCEPT ![r] = None]
        BY <1>2, <2>2
    <2>3. CASE \E d \in TrashedTwin(req[r]) :
                req' = [req EXCEPT ![r].step = "restore", ![r].row = Load(d)]
        BY <2>1, <2>3, <1>4 DEF LoadedWhenNeeded, TrashedTwin, Trashed, Upload, TypeOK
    <2>4. CASE req' = [req EXCEPT ![r].step = "looked"]
        BY <2>1, <2>4 DEF LoadedWhenNeeded, Upload, TypeOK
    <2>5. QED
        BY <1>5, <2>2, <2>3, <2>4 DEF LookUpContent
<1>6. ASSUME NEW r \in Requests, LookUpName(r)
      PROVE  LoadedWhenNeeded'
    <2>1. req[r] \in Upload
        BY <1>6 DEF LookUpName, TypeOK
    <2>2. CASE req' = [req EXCEPT ![r] = None]
        BY <1>2, <2>2
    <2>3. CASE \E d \in SameName(req[r]) :
                req' = [req EXCEPT ![r].step = "replace", ![r].row = Load(d)]
        BY <2>1, <2>3, <1>4 DEF LoadedWhenNeeded, SameName, Active, Upload, TypeOK
    <2>4. CASE req' = [req EXCEPT ![r].step = "create"]
        BY <2>1, <2>4 DEF LoadedWhenNeeded, Upload, TypeOK
    <2>5. QED
        BY <1>6, <2>2, <2>3, <2>4 DEF LookUpName
<1>7. QED
    BY <1>1, <1>2, <1>3, <1>5, <1>6, OthersKeepRequests
    DEF Next, vars, IngestAbort, CommitRestored, CommitReplaced, CommitCreated

\* Together the two are inductive.
LEMMA TypeStep ==
    TypeOK /\ LoadedWhenNeeded /\ [Next]_vars => TypeOK' /\ LoadedWhenNeeded'
<1> SUFFICES ASSUME TypeOK, LoadedWhenNeeded, [Next]_vars
             PROVE  TypeOK'
    BY LoadedStep
<1>1. CASE UNCHANGED vars
    BY <1>1 DEF vars, TypeOK
<1>2. CASE Next
    BY <1>2, TypeUpload, TypeTrash, TypePurge, TypeSweep DEF Next
<1>3. QED
    BY <1>1, <1>2

\* Documents, versions, requests, purges and the sweep keep their types in
\* every behaviour of the store.
THEOREM TypeCorrect == Spec => []TypeOK
<1>1. Init => TypeOK /\ LoadedWhenNeeded
    BY TypeInit DEF Init, LoadedWhenNeeded
<1>2. QED
    BY <1>1, TypeStep, PTL DEF Spec

-----------------------------------------------------------------------------
(* One active document per content and domain. *)

\* The steps that leave the document and version rows alone.
LEMMA OthersKeepRows ==
    ASSUME \/ \E r \in Requests :
                \/ StoreAndProbe(r) \/ IngestAbort(r)
                \/ LookUpContent(r) \/ LookUpName(r)
           \/ \E k \in Purgers :
                \/ PurgeSelect(k) \/ PurgeRows(k)
                \/ PurgeSeekDocuments(k) \/ PurgeSeekVersions(k)
                \/ PurgeUnlink(k) \/ PurgeRollback(k)
           \/ SweepList \/ SweepDocuments \/ SweepVersions \/ SweepAbort
           \/ \E h \in Hashes : SweepUnlink(h)
           \/ UNCHANGED vars
    PROVE  doc' = doc /\ versions' = versions
BY DEF StoreAndProbe, IngestAbort, LookUpContent, LookUpName, PurgeSelect,
       PurgeRows, PurgeSeekDocuments, PurgeSeekVersions, PurgeUnlink,
       PurgeRollback, SweepList, SweepDocuments, SweepVersions, SweepAbort,
       SweepUnlink, vars

\* A write to one row that the unique index admits keeps ActiveUnique.
LEMMA UniqueAfterWrite ==
    ASSUME ActiveUnique, NEW d \in DocIds,
           \A e \in DocIds \ {d} : doc'[e] = doc[e],
           d \in Active' => IndexAllows(d, doc'[d].domain, doc'[d].sha256)
    PROVE  ActiveUnique'
BY DEF ActiveUnique, IndexAllows, Active, Rows

\* So does the removal of rows.
LEMMA UniqueAfterDelete ==
    ASSUME ActiveUnique, \A e \in DocIds : doc'[e] \in {doc[e], None}
    PROVE  ActiveUnique'
BY DEF ActiveUnique, Active, Rows

\* No step makes two active documents of a domain share a content.
LEMMA UniqueStep == TypeOK /\ ActiveUnique /\ [Next]_vars => ActiveUnique'
<1> SUFFICES ASSUME TypeOK, ActiveUnique, [Next]_vars
             PROVE  ActiveUnique'
    OBVIOUS
<1>1. CASE doc' = doc
    BY <1>1 DEF ActiveUnique, Active, Rows
<1>2. ASSUME NEW r \in Requests, CommitRestored(r)
      PROVE  ActiveUnique'
    <2> DEFINE d == req[r].row.id
    <2>1. d \in DocIds /\ IndexAllows(d, doc[d].domain, doc[d].sha256)
        BY <1>2 DEF CommitRestored, Rows
    <2>2. doc[d] \in DocRow
        BY <1>2 DEF CommitRestored, TypeOK, Rows
    <2>3. doc' = [doc EXCEPT ![d].trashed = FALSE]
        BY <1>2 DEF CommitRestored
    <2>4. doc'[d].domain = doc[d].domain /\ doc'[d].sha256 = doc[d].sha256
        BY <2>1, <2>2, <2>3 DEF TypeOK, DocRow
    <2>5. \A e \in DocIds \ {d} : doc'[e] = doc[e]
        BY <2>3 DEF TypeOK
    <2>6. QED
        BY <2>1, <2>4, <2>5, UniqueAfterWrite
<1>3. ASSUME NEW r \in Requests, CommitReplaced(r)
      PROVE  ActiveUnique'
    <2> DEFINE d == req[r].row.id
               new == IF req[r].sha256 = req[r].row.sha256
                      THEN doc[d].sha256 ELSE req[r].sha256
    <2>1. d \in DocIds /\ doc[d] \in DocRow
        BY <1>3 DEF CommitReplaced, TypeOK, Rows
    <2>2. ~doc[d].trashed => IndexAllows(d, doc[d].domain, new)
        BY <1>3 DEF CommitReplaced
    <2>3. doc' = [doc EXCEPT ![d].sha256 = new,
                             ![d].version = req[r].row.version + 1]
        BY <1>3 DEF CommitReplaced
    <2>4. /\ doc'[d].domain = doc[d].domain /\ doc'[d].sha256 = new
          /\ doc'[d].trashed = doc[d].trashed
        <3> HIDE DEF new
        <3> QED
            BY <2>1, <2>3 DEF TypeOK, DocRow
    <2>5. \A e \in DocIds \ {d} : doc'[e] = doc[e]
        BY <2>3 DEF TypeOK
    <2>6. d \in Active' => IndexAllows(d, doc'[d].domain, doc'[d].sha256)
        BY <2>2, <2>4 DEF Active
    <2>7. QED
        BY <2>1, <2>5, <2>6, UniqueAfterWrite
<1>4. ASSUME NEW r \in Requests, CommitCreated(r)
      PROVE  ActiveUnique'
    <2>1. PICK d \in DocIds :
            /\ IndexAllows(d, req[r].domain, req[r].sha256)
            /\ doc' = [doc EXCEPT ![d] =
                [domain |-> req[r].domain, sha256 |-> req[r].sha256,
                 name |-> req[r].name, version |-> 1, trashed |-> FALSE]]
        BY <1>4 DEF CommitCreated
    <2>2. doc'[d].domain = req[r].domain /\ doc'[d].sha256 = req[r].sha256
        BY <2>1 DEF TypeOK
    <2>3. \A e \in DocIds \ {d} : doc'[e] = doc[e]
        BY <2>1 DEF TypeOK
    <2>4. QED
        BY <2>1, <2>2, <2>3, UniqueAfterWrite
<1>5. ASSUME NEW d \in DocIds, SoftDelete(d)
      PROVE  ActiveUnique'
    <2>1. doc[d] \in DocRow /\ doc' = [doc EXCEPT ![d].trashed = TRUE]
        BY <1>5 DEF SoftDelete, Active, Rows, TypeOK
    <2>2. d \notin Active'
        BY <2>1 DEF Active, TypeOK, DocRow
    <2>3. \A e \in DocIds \ {d} : doc'[e] = doc[e]
        BY <2>1 DEF TypeOK
    <2>4. QED
        BY <2>2, <2>3, UniqueAfterWrite
<1>6. ASSUME NEW d \in DocIds, Restore(d)
      PROVE  ActiveUnique'
    <2>1. /\ doc[d] \in DocRow /\ doc' = [doc EXCEPT ![d].trashed = FALSE]
          /\ IndexAllows(d, doc[d].domain, doc[d].sha256)
        BY <1>6 DEF Restore, Trashed, Rows, TypeOK
    <2>2. doc'[d].domain = doc[d].domain /\ doc'[d].sha256 = doc[d].sha256
        BY <2>1 DEF TypeOK, DocRow
    <2>3. \A e \in DocIds \ {d} : doc'[e] = doc[e]
        BY <2>1 DEF TypeOK
    <2>4. QED
        BY <2>1, <2>2, <2>3, UniqueAfterWrite
<1>7. ASSUME NEW dom \in Domains, DeleteDomain(dom)
      PROVE  ActiveUnique'
    BY <1>7, UniqueAfterDelete DEF DeleteDomain
<1>8. ASSUME NEW k \in Purgers, PurgeCommit(k)
      PROVE  ActiveUnique'
    BY <1>8, UniqueAfterDelete DEF PurgeCommit
<1>9. QED
    BY <1>1, <1>2, <1>3, <1>4, <1>5, <1>6, <1>7, <1>8, OthersKeepRows DEF Next

-----------------------------------------------------------------------------
(* The version history has no gap. *)

\* Rows go, snapshots come, uploads end: nothing is missing afterwards.
LEMMA HistoryKept ==
    ASSUME HistoryGapless, LoadedHistory, Rows' \subseteq Rows,
           \A d \in Rows' : doc'[d].version = doc[d].version
                           /\ versions[d] \subseteq versions'[d],
           \A r \in Requests : req'[r] # None =>
                req[r] # None /\ req'[r].row = req[r].row
    PROVE  HistoryGapless' /\ LoadedHistory'
<1>1. HistoryGapless'
    BY DEF HistoryGapless
<1>2. LoadedHistory'
    BY DEF LoadedHistory
<1>3. QED
    BY <1>1, <1>2

\* A request that loads an existing row finds its history complete.
LEMMA HistoryLoaded ==
    ASSUME TypeOK, HistoryGapless, LoadedHistory, doc' = doc, versions' = versions,
           NEW r \in Requests, NEW d \in Rows, req[r] # None, NEW s,
           req' = [req EXCEPT ![r].step = s, ![r].row = Load(d)]
    PROVE  HistoryGapless' /\ LoadedHistory'
<1>1. HistoryGapless'
    BY DEF HistoryGapless, Rows
<1>2. req'[r].row = Load(d)
    BY DEF TypeOK, Upload
<1>3. \A q \in Requests \ {r} : req'[q] = req[q]
    BY DEF TypeOK
<1>4. Load(d).id = d /\ Load(d).version = doc[d].version
    BY DEF Load
<1>5. ASSUME NEW q \in Requests, req'[q] # None, req'[q].row # None,
             req'[q].row.id \in Rows'
      PROVE  \A n \in 1..req'[q].row.version :
                n < req'[q].row.version =>
                    \E v \in versions'[req'[q].row.id] : v.version_no = n
    <2>1. CASE q = r
        BY <1>2, <1>4, <2>1 DEF HistoryGapless
    <2>2. CASE q # r
        BY <1>3, <1>5, <2>2 DEF LoadedHistory, Rows
    <2>3. QED
        BY <2>1, <2>2
<1>6. LoadedHistory'
    BY <1>5 DEF LoadedHistory
<1>7. QED
    BY <1>1, <1>6

\* A replacement adds the one snapshot its new version needs.
LEMMA HistoryReplaced ==
    ASSUME TypeOK, HistoryInv, NEW r \in Requests, CommitReplaced(r)
    PROVE  HistoryGapless' /\ LoadedHistory'
<1> DEFINE d == req[r].row.id
           old == req[r].row
<1>1. /\ d \in Rows /\ d \in DocIds /\ doc[d] \in DocRow /\ old # None
      /\ old \in Loaded
    BY DEF CommitReplaced, Rows, TypeOK, HistoryInv, LoadedWhenNeeded, Upload
<1>2. versions' = [versions EXCEPT ![d] = @ \cup {Snapshot(old)}]
    BY DEF CommitReplaced
<1>3. versions'[d] = versions[d] \cup {Snapshot(old)}
    BY <1>1, <1>2 DEF TypeOK
<1>4. \A e \in DocIds : versions[e] \subseteq versions'[e]
    BY <1>1, <1>2, <1>3 DEF TypeOK
<1>5. doc'[d].version = old.version + 1
    BY <1>1 DEF CommitReplaced, TypeOK, DocRow
<1>6. \A e \in DocIds \ {d} : doc'[e] = doc[e]
    BY DEF CommitReplaced, TypeOK
<1>7. Rows' \subseteq Rows
    BY <1>1, <1>6 DEF Rows
<1>8. \A n \in 1..old.version : n < old.version =>
            \E v \in versions[d] : v.version_no = n
    BY <1>1 DEF LoadedHistory, CommitReplaced, HistoryInv
<1>9. \A n \in 1..(old.version + 1) : n < old.version + 1 =>
            \E v \in versions'[d] : v.version_no = n
    <2> TAKE n \in 1..(old.version + 1)
    <2> HAVE n < old.version + 1
    <2>1. old.version \in Nat /\ n \in Nat
        BY <1>1, MaxVersionAssumption DEF Loaded
    <2>2. CASE n < old.version
        BY <1>3, <1>8, <2>1, <2>2
    <2>3. CASE n = old.version
        <3>1. Snapshot(old).version_no = n
            BY <2>3 DEF Snapshot
        <3>2. Snapshot(old) \in versions'[d]
            BY <1>3
        <3>3. QED
            BY <3>1, <3>2
    <2>4. QED
        BY <2>1, <2>2, <2>3
<1>10. HistoryGapless'
    <2> SUFFICES ASSUME NEW e \in Rows'
                 PROVE  \A n \in 1..doc'[e].version : n < doc'[e].version =>
                            \E v \in versions'[e] : v.version_no = n
        BY DEF HistoryGapless
    <2>1. CASE e = d
        BY <1>5, <1>9, <2>1
    <2>2. CASE e # d
        BY <1>4, <1>6, <1>7, <2>2 DEF HistoryGapless, HistoryInv, Rows
    <2>3. QED
        BY <2>1, <2>2
<1>11. \A q \in Requests : req'[q] # None =>
            req[q] # None /\ req'[q].row = req[q].row
    BY DEF CommitReplaced, TypeOK
<1>12. LoadedHistory'
    BY <1>4, <1>7, <1>11 DEF LoadedHistory, HistoryInv, Rows
<1>13. QED
    BY <1>10, <1>12

\* A new document starts without history, under an id no request remembers.
LEMMA HistoryCreated ==
    ASSUME TypeOK, HistoryInv, NEW r \in Requests, CommitCreated(r)
    PROVE  HistoryGapless' /\ LoadedHistory'
<1>1. PICK d \in DocIds :
        /\ ~Remembered(d)
        /\ doc' = [doc EXCEPT ![d] =
            [domain |-> req[r].domain, sha256 |-> req[r].sha256,
             name |-> req[r].name, version |-> 1, trashed |-> FALSE]]
    BY DEF CommitCreated
<1>2. doc'[d].version = 1 /\ versions' = versions
    BY <1>1 DEF CommitCreated, TypeOK
<1>3. \A e \in DocIds \ {d} : doc'[e] = doc[e]
    BY <1>1 DEF TypeOK
<1>4. HistoryGapless'
    BY <1>2, <1>3 DEF HistoryGapless, HistoryInv, Rows
<1>5. \A q \in Requests : req'[q] # None => req'[q] = req[q]
    BY DEF CommitCreated, TypeOK
<1>6. \A q \in Requests : req[q] # None /\ req[q].row # None => req[q].row.id # d
    BY <1>1 DEF Remembered
<1>7. LoadedHistory'
    BY <1>2, <1>3, <1>5, <1>6 DEF LoadedHistory, HistoryInv, Rows
<1>8. QED
    BY <1>4, <1>7

\* No step leaves a gap in a document's history.
LEMMA HistoryStep ==
    TypeOK /\ HistoryInv /\ [Next]_vars => HistoryGapless' /\ LoadedHistory'
<1> SUFFICES ASSUME TypeOK, HistoryInv, [Next]_vars
             PROVE  HistoryGapless' /\ LoadedHistory'
    OBVIOUS
<1>. USE DEF HistoryInv
<1>1. CASE doc' = doc /\ versions' = versions /\ req' = req
    BY <1>1, HistoryKept DEF Rows
<1>2. ASSUME NEW r \in Requests, doc' = doc, versions' = versions,
             req' = [req EXCEPT ![r] = None]
      PROVE  HistoryGapless' /\ LoadedHistory'
    BY <1>2, HistoryKept DEF Rows, TypeOK
<1>3. ASSUME NEW r \in Requests, StoreAndProbe(r)
      PROVE  HistoryGapless' /\ LoadedHistory'
    BY <1>3 DEF StoreAndProbe, HistoryGapless, LoadedHistory, TypeOK, Rows
<1>4. ASSUME NEW r \in Requests, LookUpContent(r)
      PROVE  HistoryGapless' /\ LoadedHistory'
    <2>1. req[r] \in Upload /\ req[r] # None /\ doc' = doc /\ versions' = versions
        BY <1>4 DEF LookUpContent, TypeOK
    <2>2. CASE req' = [req EXCEPT ![r] = None]
        BY <1>2, <2>1, <2>2
    <2>3. CASE \E d \in TrashedTwin(req[r]) :
                req' = [req EXCEPT ![r].step = "restore", ![r].row = Load(d)]
        BY <2>1, <2>3, HistoryLoaded DEF TrashedTwin, Trashed
    <2>4. CASE req' = [req EXCEPT ![r].step = "looked"]
        BY <2>1, <2>4, HistoryKept DEF Upload, TypeOK, Rows
    <2>5. QED
        BY <1>4, <2>2, <2>3, <2>4 DEF LookUpContent
<1>5. ASSUME NEW r \in Requests, LookUpName(r)
      PROVE  HistoryGapless' /\ LoadedHistory'
    <2>1. req[r] \in Upload /\ req[r] # None /\ doc' = doc /\ versions' = versions
        BY <1>5 DEF LookUpName, TypeOK
    <2>2. CASE req' = [req EXCEPT ![r] = None]
        BY <1>2, <2>1, <2>2
    <2>3. CASE \E d \in SameName(req[r]) :
                req' = [req EXCEPT ![r].step = "replace", ![r].row = Load(d)]
        BY <2>1, <2>3, HistoryLoaded DEF SameName, Active
    <2>4. CASE req' = [req EXCEPT ![r].step = "create"]
        BY <2>1, <2>4, HistoryKept DEF Upload, TypeOK, Rows
    <2>5. QED
        BY <1>5, <2>2, <2>3, <2>4 DEF LookUpName
<1>6. ASSUME NEW d \in DocIds, doc[d] \in DocRow,
             \E b \in BOOLEAN : doc' = [doc EXCEPT ![d].trashed = b],
             versions' = versions,
             \A r \in Requests : req'[r] # None => req'[r] = req[r]
      PROVE  HistoryGapless' /\ LoadedHistory'
    <2>1. \A e \in DocIds : doc[e] # None => doc'[e].version = doc[e].version
        BY <1>6 DEF TypeOK, DocRow
    <2>2. Rows' \subseteq Rows
        BY <1>6, NoneAssumption DEF Rows, TypeOK
    <2>3. QED
        BY <1>6, <2>1, <2>2, HistoryKept DEF Rows
<1>7. ASSUME NEW r \in Requests, CommitRestored(r)
      PROVE  HistoryGapless' /\ LoadedHistory'
    BY <1>6, <1>7 DEF CommitRestored, Rows, TypeOK
<1>8. ASSUME NEW d \in DocIds, SoftDelete(d) \/ Restore(d)
      PROVE  HistoryGapless' /\ LoadedHistory'
    BY <1>6, <1>8 DEF SoftDelete, Restore, Active, Trashed, Rows, TypeOK
<1>9. ASSUME NEW dom \in Domains, DeleteDomain(dom)
      PROVE  HistoryGapless' /\ LoadedHistory'
    BY <1>9, HistoryKept DEF DeleteDomain, Rows
<1>10. ASSUME NEW k \in Purgers, PurgeCommit(k)
       PROVE  HistoryGapless' /\ LoadedHistory'
    BY <1>10, HistoryKept DEF PurgeCommit, Rows
<1>11. QED
    BY <1>1, <1>2, <1>3, <1>4, <1>5, <1>7, <1>8, <1>9, <1>10, HistoryReplaced,
       HistoryCreated, OthersKeepRows, OthersKeepRequests DEF Next, IngestAbort, vars

-----------------------------------------------------------------------------
(* No content is lost but by a race with an unlink or by a rollback. *)

\* A step of an upload, the trash or a domain deletion: no new need arises but
\* for what an upload has stored, and the collectors stand still.
LEMMA FilesKept ==
    ASSUME TypeOK, FilesInv,
           UNCHANGED <<blobs, purge, candidates, condemned, contested, torn>>,
           \A d \in Rows' : \A h \in Hashes :
                /\ PointsAt(d, h)' => (d \in Rows /\ PointsAt(d, h)) \/ StoredBy(h)
                /\ Needs(d, h)' => (d \in Rows /\ Needs(d, h)) \/ StoredBy(h),
           \A h \in Hashes : StoredBy(h)' => StoredBy(h)
    PROVE  FilesInv'
<1>. USE DEF FilesInv
<1>0. \A c \in Collectors : candidates[c] \cup condemned[c] \subseteq Hashes
    BY DEF TypeOK
<1>1. CandidatesPointedAt'
    BY <1>0 DEF CandidatesPointedAt, WatchedStored, Gone
<1>2. CondemnedNeeded'
    BY <1>0 DEF CondemnedNeeded, WatchedStored, Gone
<1>3. WatchedStored'
    BY <1>0 DEF WatchedStored
<1>4. StoredOnDisk'
    BY DEF StoredOnDisk
<1>5. NeededOnDisk'
    BY DEF StoredOnDisk, NeededOnDisk
<1>6. QED
    BY <1>1, <1>2, <1>3, <1>4, <1>5

\* A step that adds no reference to any row and leaves the uploads alone but
\* for one that ends.
LEMMA FilesFewerNeeds ==
    ASSUME TypeOK, FilesInv,
           UNCHANGED <<blobs, purge, candidates, condemned, contested, torn>>,
           Rows' \subseteq Rows,
           \A d \in Rows' : /\ doc'[d].sha256 = doc[d].sha256
                            /\ versions'[d] \subseteq versions[d],
           \A r \in Requests : req'[r] # None =>
                /\ req[r] # None /\ req'[r].row = req[r].row
                /\ req'[r].sha256 = req[r].sha256
    PROVE  FilesInv'
<1>1. \A d \in Rows' : \A h \in Hashes : PointsAt(d, h)' => PointsAt(d, h)
    BY DEF PointsAt
<1>2. \A d \in Rows' : \A h \in Hashes : Needs(d, h)' => Needs(d, h)
    BY <1>1 DEF Needs
<1>3. \A h \in Hashes : StoredBy(h)' => StoredBy(h)
    BY DEF StoredBy
<1>4. QED
    BY <1>1, <1>2, <1>3, FilesKept

\* Loading a row adds no need: the row refers to that content already.
LEMMA FilesLoaded ==
    ASSUME TypeOK, FilesInv,
           UNCHANGED <<blobs, purge, candidates, condemned, contested, torn>>,
           doc' = doc, versions' = versions,
           NEW r \in Requests, NEW d \in Rows, req[r] # None, NEW s,
           req' = [req EXCEPT ![r].step = s, ![r].row = Load(d)]
    PROVE  FilesInv'
<1>1. /\ req'[r].row = Load(d) /\ req'[r].sha256 = req[r].sha256
      /\ \A q \in Requests \ {r} : req'[q] = req[q]
    BY DEF TypeOK, Upload
<1>2. Load(d).id = d /\ Load(d).sha256 = doc[d].sha256
    BY DEF Load
<1>3. Rows' = Rows
    BY DEF Rows
<1>4. ASSUME NEW e \in Rows', NEW h \in Hashes, PointsAt(e, h)'
      PROVE  PointsAt(e, h)
    <2>1. CASE h = doc'[e].sha256
        BY <2>1 DEF PointsAt
    <2>2. CASE \E q \in Requests :
                /\ req'[q] # None /\ req'[q].row # None
                /\ req'[q].row.id = e /\ req'[q].row.sha256 = h
        <3>1. PICK q \in Requests :
                /\ req'[q] # None /\ req'[q].row # None
                /\ req'[q].row.id = e /\ req'[q].row.sha256 = h
            BY <2>2
        <3>2. CASE q = r
            BY <1>1, <1>2, <3>1, <3>2 DEF PointsAt
        <3>3. CASE q # r
            BY <1>1, <3>1, <3>3 DEF PointsAt
        <3>4. QED
            BY <3>2, <3>3
    <2>3. QED
        BY <1>4, <2>1, <2>2 DEF PointsAt
<1>5. \A e \in Rows' : \A h \in Hashes : Needs(e, h)' => Needs(e, h)
    BY <1>4 DEF Needs
<1>6. \A h \in Hashes : StoredBy(h)' => StoredBy(h)
    BY <1>1 DEF StoredBy
<1>7. QED
    BY <1>3, <1>4, <1>5, <1>6, FilesKept

\* A replacement refers to the content it stored and snapshots the one it
\* loaded.
LEMMA FilesReplaced ==
    ASSUME TypeOK, LoadedWhenNeeded, FilesInv, NEW r \in Requests, CommitReplaced(r)
    PROVE  FilesInv'
<1> PICK d \in Rows : d = req[r].row.id
    BY DEF CommitReplaced
<1> DEFINE old == req[r].row
           new == IF req[r].sha256 = old.sha256 THEN doc[d].sha256 ELSE req[r].sha256
<1>1. d \in DocIds /\ doc[d] \in DocRow /\ req[r] # None /\ old # None
    BY DEF CommitReplaced, Rows, TypeOK, LoadedWhenNeeded
<1>2. UNCHANGED <<blobs, purge, candidates, condemned, contested, torn>>
    BY DEF CommitReplaced, gcVars
<1>3. doc' = [doc EXCEPT ![d].sha256 = new, ![d].version = old.version + 1]
    BY DEF CommitReplaced
<1>4. doc'[d].sha256 = new /\ \A e \in DocIds \ {d} : doc'[e] = doc[e]
    <2> HIDE DEF new
    <2> QED
        BY <1>1, <1>3 DEF TypeOK, DocRow
<1>5. /\ \A v \in versions'[d] : v \in versions[d] \/ v = Snapshot(old)
      /\ \A e \in DocIds \ {d} : versions'[e] = versions[e]
    BY <1>1 DEF CommitReplaced, TypeOK
<1>6. Snapshot(old).sha256 = old.sha256 /\ PointsAt(d, old.sha256)
    BY <1>1 DEF Snapshot, PointsAt
<1>7. Rows' \subseteq Rows
    BY <1>1, <1>4 DEF Rows
<1>8. \A q \in Requests : req'[q] # None => req'[q] = req[q]
    BY DEF CommitReplaced, TypeOK
<1>9. doc'[d].sha256 = doc[d].sha256 \/ StoredBy(doc'[d].sha256)
    BY <1>1, <1>4 DEF StoredBy
<1>10. ASSUME NEW e \in Rows', NEW h \in Hashes, PointsAt(e, h)'
       PROVE  PointsAt(e, h) \/ StoredBy(h)
    BY <1>4, <1>7, <1>8, <1>9, <1>10 DEF PointsAt, Rows
<1>11. ASSUME NEW e \in Rows', NEW h \in Hashes, Needs(e, h)'
       PROVE  Needs(e, h) \/ StoredBy(h)
    <2>1. CASE PointsAt(e, h)'
        BY <1>10, <2>1 DEF Needs
    <2>2. CASE \E v \in versions'[e] : v.sha256 = h
        <3>1. (\E v \in versions[e] : v.sha256 = h) \/ (e = d /\ h = old.sha256)
            BY <1>5, <1>6, <1>7, <2>2 DEF Rows
        <3>2. QED
            BY <1>6, <3>1 DEF Needs
    <2>3. QED
        BY <1>11, <2>1, <2>2 DEF Needs
<1>12. \A h \in Hashes : StoredBy(h)' => StoredBy(h)
    BY <1>8 DEF StoredBy
<1>13. QED
    BY <1>2, <1>7, <1>10, <1>11, <1>12, FilesKept

\* A new document refers to the content its upload stored, and to no other.
LEMMA FilesCreated ==
    ASSUME TypeOK, NoStrayVersions, FilesInv, NEW r \in Requests, CommitCreated(r)
    PROVE  FilesInv'
<1>1. PICK d \in DocIds \ Rows :
        /\ ~Remembered(d)
        /\ doc' = [doc EXCEPT ![d] =
            [domain |-> req[r].domain, sha256 |-> req[r].sha256,
             name |-> req[r].name, version |-> 1, trashed |-> FALSE]]
    BY DEF CommitCreated
<1>2. /\ UNCHANGED <<blobs, purge, candidates, condemned, contested, torn>>
      /\ versions' = versions /\ versions[d] = {}
    BY <1>1 DEF CommitCreated, gcVars, NoStrayVersions
<1>3. doc'[d].sha256 = req[r].sha256 /\ \A e \in DocIds \ {d} : doc'[e] = doc[e]
    BY <1>1 DEF TypeOK
<1>4. \A e \in Rows' \ {d} : e \in Rows /\ e \in DocIds
    BY <1>3 DEF Rows
<1>5. \A q \in Requests : req'[q] # None => req'[q] = req[q]
    BY DEF CommitCreated, TypeOK
<1>6. \A q \in Requests : req[q] # None /\ req[q].row # None => req[q].row.id # d
    BY <1>1 DEF Remembered
<1>7. StoredBy(req[r].sha256)
    BY DEF CommitCreated, StoredBy
<1>8. ASSUME NEW e \in Rows', NEW h \in Hashes, PointsAt(e, h)'
      PROVE  (e \in Rows /\ PointsAt(e, h)) \/ StoredBy(h)
    <2>1. CASE e = d
        BY <1>3, <1>5, <1>6, <1>7, <1>8, <2>1 DEF PointsAt
    <2>2. CASE e # d
        BY <1>3, <1>4, <1>5, <1>8, <2>2 DEF PointsAt
    <2>3. QED
        BY <2>1, <2>2
<1>9. ASSUME NEW e \in Rows', NEW h \in Hashes, Needs(e, h)'
      PROVE  (e \in Rows /\ Needs(e, h)) \/ StoredBy(h)
    BY <1>2, <1>4, <1>8, <1>9 DEF Needs
<1>10. \A h \in Hashes : StoredBy(h)' => StoredBy(h)
    BY <1>5 DEF StoredBy
<1>11. QED
    BY <1>2, <1>8, <1>9, <1>10, FilesKept

\* The upload's other steps, the trash and domain deletions.
LEMMA FilesRequests ==
    ASSUME TypeOK, LoadedWhenNeeded, NoStrayVersions, FilesInv,
           \/ \E r \in Requests :
                \/ IngestAbort(r) \/ LookUpContent(r) \/ LookUpName(r)
                \/ CommitRestored(r) \/ CommitReplaced(r) \/ CommitCreated(r)
           \/ \E d \in DocIds : SoftDelete(d) \/ Restore(d)
           \/ \E dom \in Domains : DeleteDomain(dom)
    PROVE  FilesInv'
<1>1. ASSUME NEW r \in Requests, IngestAbort(r) PROVE FilesInv'
    BY <1>1, FilesFewerNeeds DEF IngestAbort, gcVars, Rows, TypeOK
<1>2. ASSUME NEW r \in Requests, LookUpContent(r) PROVE FilesInv'
    <2>1. /\ req[r] \in Upload /\ req[r] # None /\ doc' = doc /\ versions' = versions
          /\ UNCHANGED <<blobs, purge, candidates, condemned, contested, torn>>
        BY <1>2 DEF LookUpContent, TypeOK, gcVars
    <2>2. CASE req' = [req EXCEPT ![r] = None]
        BY <2>1, <2>2, FilesFewerNeeds DEF Rows, TypeOK
    <2>3. CASE \E d \in TrashedTwin(req[r]) :
                req' = [req EXCEPT ![r].step = "restore", ![r].row = Load(d)]
        BY <2>1, <2>3, FilesLoaded DEF TrashedTwin, Trashed
    <2>4. CASE req' = [req EXCEPT ![r].step = "looked"]
        BY <2>1, <2>4, FilesFewerNeeds DEF Rows, TypeOK, Upload
    <2>5. QED
        BY <1>2, <2>2, <2>3, <2>4 DEF LookUpContent
<1>3. ASSUME NEW r \in Requests, LookUpName(r) PROVE FilesInv'
    <2>1. /\ req[r] \in Upload /\ req[r] # None /\ doc' = doc /\ versions' = versions
          /\ UNCHANGED <<blobs, purge, candidates, condemned, contested, torn>>
        BY <1>3 DEF LookUpName, TypeOK, gcVars
    <2>2. CASE req' = [req EXCEPT ![r] = None]
        BY <2>1, <2>2, FilesFewerNeeds DEF Rows, TypeOK
    <2>3. CASE \E d \in SameName(req[r]) :
                req' = [req EXCEPT ![r].step = "replace", ![r].row = Load(d)]
        BY <2>1, <2>3, FilesLoaded DEF SameName, Active
    <2>4. CASE req' = [req EXCEPT ![r].step = "create"]
        BY <2>1, <2>4, FilesFewerNeeds DEF Rows, TypeOK, Upload
    <2>5. QED
        BY <1>3, <2>2, <2>3, <2>4 DEF LookUpName
<1>4. ASSUME NEW d \in Rows, \E b \in BOOLEAN : doc' = [doc EXCEPT ![d].trashed = b],
             UNCHANGED <<blobs, purge, candidates, condemned, contested, torn>>,
             versions' = versions,
             \A r \in Requests : req'[r] # None => req'[r] = req[r]
      PROVE  FilesInv'
    <2>1. doc[d] \in DocRow
        BY DEF Rows, TypeOK
    <2>2. \A e \in Rows : doc'[e].sha256 = doc[e].sha256
        BY <1>4, <2>1 DEF TypeOK, DocRow, Rows
    <2>3. Rows' \subseteq Rows
        BY <1>4 DEF Rows, TypeOK
    <2>4. QED
        BY <1>4, <2>2, <2>3, FilesFewerNeeds
<1>5. ASSUME NEW r \in Requests, CommitRestored(r) PROVE FilesInv'
    BY <1>4, <1>5 DEF CommitRestored, gcVars, TypeOK
<1>6. ASSUME NEW d \in DocIds, SoftDelete(d) \/ Restore(d) PROVE FilesInv'
    BY <1>4, <1>6 DEF SoftDelete, Restore, Active, Trashed, gcVars
<1>7. ASSUME NEW dom \in Domains, DeleteDomain(dom) PROVE FilesInv'
    <2>1. /\ Rows' \subseteq Rows
          /\ \A d \in Rows' : doc'[d] = doc[d] /\ versions'[d] = versions[d]
        BY <1>7 DEF DeleteDomain, Rows
    <2>2. QED
        BY <1>7, <2>1, FilesFewerNeeds DEF DeleteDomain, gcVars
<1>8. QED
    BY <1>1, <1>2, <1>3, <1>5, <1>6, <1>7, FilesReplaced, FilesCreated

\* A stored blob is on disk, and contests every decision to unlink it.
LEMMA FilesStored ==
    ASSUME TypeOK, FilesInv, NEW r \in Requests, StoreAndProbe(r)
    PROVE  FilesInv'
<1>. USE DEF FilesInv
<1>1. PICK h \in Hashes :
        /\ req[r] = None
        /\ req'[r].row = None /\ req'[r].sha256 = h
        /\ \A q \in Requests \ {r} : req'[q] = req[q]
        /\ blobs' = blobs \cup {h} /\ torn' = torn \ {h}
        /\ contested' = [c \in Collectors |-> contested[c]
                            \cup ((candidates[c] \cup condemned[c]) \cap {h})]
        /\ doc' = doc /\ versions' = versions /\ purge' = purge
        /\ candidates' = candidates /\ condemned' = condemned
    BY DEF StoreAndProbe, gcVars, TypeOK
<1>2. Rows' = Rows
    BY <1>1 DEF Rows
<1>3. \A d, g : PointsAt(d, g)' => PointsAt(d, g)
    BY <1>1 DEF PointsAt
<1>4. \A d, g : Needs(d, g)' => Needs(d, g)
    BY <1>1, <1>3 DEF Needs
<1>5. \A g : StoredBy(g)' => StoredBy(g) \/ g = h
    BY <1>1 DEF StoredBy
<1>6. CandidatesPointedAt'
    BY <1>1, <1>2, <1>3 DEF CandidatesPointedAt, Gone
<1>7. CondemnedNeeded'
    BY <1>1, <1>2, <1>4 DEF CondemnedNeeded, Gone
<1>8. WatchedStored'
    BY <1>1, <1>5 DEF WatchedStored
<1>9. StoredOnDisk'
    BY <1>1, <1>5 DEF StoredOnDisk
<1>10. NeededOnDisk'
    BY <1>1, <1>2, <1>4 DEF NeededOnDisk
<1>11. QED
    BY <1>6, <1>7, <1>8, <1>9, <1>10

\* Needs are read off the rows and the uploads.
LEMMA NeedsStay ==
    ASSUME doc' = doc, versions' = versions, req' = req
    PROVE  /\ Rows' = Rows
           /\ \A d, h : PointsAt(d, h)' <=> PointsAt(d, h)
           /\ \A d, h : Needs(d, h)' <=> Needs(d, h)
           /\ \A h : StoredBy(h)' <=> StoredBy(h)
BY DEF Rows, Needs, PointsAt, StoredBy

\* The collectors have found nothing new, and unlink nothing.
LEMMA FilesIdle ==
    ASSUME TypeOK, FilesInv, doc' = doc, versions' = versions, req' = req,
           blobs' = blobs, torn \subseteq torn',
           \A c \in Collectors :
                /\ candidates'[c] \subseteq candidates[c]
                /\ condemned'[c] \subseteq condemned[c]
                /\ candidates'[c] # {} \/ condemned'[c] # {} =>
                        contested'[c] = contested[c] /\ Gone(c)' = Gone(c),
           \A k \in Purgers : purge[k] # None =>
                \/ /\ purge'[k] # None
                   /\ purge[k].dead \subseteq purge'[k].dead
                   /\ purge[k].unlinked \subseteq purge'[k].unlinked
                \/ purge[k].unlinked \subseteq blobs \cup torn'
    PROVE  FilesInv'
<1>. USE DEF FilesInv
<1>1. CandidatesPointedAt'
    BY NeedsStay DEF CandidatesPointedAt
<1>2. CondemnedNeeded'
    BY NeedsStay DEF CondemnedNeeded
<1>3. WatchedStored'
    BY NeedsStay DEF WatchedStored
<1>4. StoredOnDisk'
    BY NeedsStay DEF StoredOnDisk
<1>5. NeededOnDisk'
    BY NeedsStay DEF NeededOnDisk
<1>6. QED
    BY <1>1, <1>2, <1>3, <1>4, <1>5

\* A collector stands in the middle of a decision: the purges' own records of
\* what they deleted and unlinked do not change.
PurgesStand ==
    \A k \in Purgers : purge[k] # None =>
        /\ purge'[k] # None
        /\ purge'[k].dead = purge[k].dead
        /\ purge'[k].unlinked = purge[k].unlinked

\* The first SELECT of collector c: no document row it sees holds what it
\* found, and what an upload in flight carries is contested.
LEMMA FilesSought ==
    ASSUME TypeOK, FilesInv, doc' = doc, versions' = versions, req' = req,
           blobs' = blobs, torn' = torn, condemned' = condemned, PurgesStand,
           NEW c \in Collectors, condemned[c] = {},
           \A b \in Collectors : Gone(b)' = Gone(b),
           NEW found \in SUBSET Hashes, found \cap HeldByDocument(Gone(c)) = {},
           candidates' = [candidates EXCEPT ![c] = found],
           contested' = [contested EXCEPT ![c] = found \cap InFlight]
    PROVE  FilesInv'
<1>. USE DEF FilesInv
<1>1. /\ candidates'[c] = found /\ contested'[c] = found \cap InFlight
      /\ \A b \in Collectors \ {c} :
            candidates'[b] = candidates[b] /\ contested'[b] = contested[b]
    BY DEF TypeOK
<1>2. \A d \in Rows \ Gone(c) : doc[d].sha256 \in HeldByDocument(Gone(c))
    BY DEF HeldByDocument
<1>3. \A d \in Rows \ Gone(c) : \A h \in found : PointsAt(d, h) => h \in InFlight
    BY <1>2 DEF PointsAt, InFlight, Carries
<1>4. \A h \in found : StoredBy(h) => h \in InFlight
    BY DEF StoredBy, InFlight, Carries
<1>5. CandidatesPointedAt'
    BY <1>1, <1>3, NeedsStay DEF CandidatesPointedAt
<1>6. CondemnedNeeded'
    BY <1>1, NeedsStay DEF CondemnedNeeded
<1>7. WatchedStored'
    BY <1>1, <1>4, NeedsStay DEF WatchedStored
<1>8. StoredOnDisk'
    BY NeedsStay DEF StoredOnDisk
<1>9. NeededOnDisk'
    BY NeedsStay DEF NeededOnDisk, PurgesStand
<1>10. QED
    BY <1>5, <1>6, <1>7, <1>8, <1>9

\* The second SELECT of collector c: what it condemns no version row it sees
\* holds either.
LEMMA FilesCondemned ==
    ASSUME TypeOK, FilesInv, doc' = doc, versions' = versions, req' = req,
           blobs' = blobs, torn' = torn, PurgesStand, NEW c \in Collectors,
           \A b \in Collectors : Gone(b)' = Gone(b),
           candidates' = [candidates EXCEPT ![c] = {}],
           condemned' = [condemned EXCEPT
                            ![c] = candidates[c] \ HeldByVersion(Gone(c))],
           contested' = [contested EXCEPT
                            ![c] = @ \cap (candidates[c] \ HeldByVersion(Gone(c)))]
    PROVE  FilesInv'
<1>. USE DEF FilesInv
<1> DEFINE found == candidates[c] \ HeldByVersion(Gone(c))
<1>1. /\ candidates'[c] = {} /\ condemned'[c] = found
      /\ contested'[c] = contested[c] \cap found
      /\ \A b \in Collectors \ {c} :
            /\ candidates'[b] = candidates[b] /\ condemned'[b] = condemned[b]
            /\ contested'[b] = contested[b]
    BY DEF TypeOK
<1>2. \A d \in Rows \ Gone(c) : \A v \in versions[d] :
            v.sha256 \in HeldByVersion(Gone(c))
    BY DEF HeldByVersion
<1>3. \A d \in Rows \ Gone(c) : \A h \in found : Needs(d, h) => h \in contested[c]
    BY <1>2 DEF Needs, CandidatesPointedAt
<1>4. found \subseteq candidates[c]
    OBVIOUS
<1> HIDE DEF found
<1>5. CandidatesPointedAt'
    BY <1>1, NeedsStay DEF CandidatesPointedAt
<1>6. CondemnedNeeded'
    BY <1>1, <1>3, NeedsStay DEF CondemnedNeeded
<1>7. WatchedStored'
    BY <1>1, <1>4, NeedsStay DEF WatchedStored
<1>8. StoredOnDisk'
    BY NeedsStay DEF StoredOnDisk
<1>9. NeededOnDisk'
    BY NeedsStay DEF NeededOnDisk, PurgesStand
<1>10. QED
    BY <1>5, <1>6, <1>7, <1>8, <1>9

\* Collector c unlinks the files of H, which it had condemned: a contested one
\* is torn, and what only its own deleted documents need it keeps account of.
LEMMA FilesUnlinked ==
    ASSUME TypeOK, FilesInv, doc' = doc, versions' = versions, req' = req,
           candidates' = candidates,
           NEW c \in Collectors, candidates[c] = {}, NEW H \in SUBSET condemned[c],
           blobs' = blobs \ H, torn \cup (contested[c] \cap H) \subseteq torn',
           \A b \in Collectors : Gone(b)' = Gone(b),
           condemned' = [condemned EXCEPT ![c] = @ \ H],
           \A b \in Collectors \ {c} : contested'[b] = contested[b],
           condemned'[c] \cap contested[c] \subseteq contested'[c],
           \A k \in Purgers : purge[k] # None =>
                /\ purge'[k] # None
                /\ purge'[k].dead = purge[k].dead
                /\ purge[k].unlinked \subseteq purge'[k].unlinked
                /\ k = c => H \subseteq purge'[k].unlinked
    PROVE  FilesInv'
<1>. USE DEF FilesInv
<1>1. /\ condemned'[c] \subseteq condemned[c]
      /\ \A b \in Collectors \ {c} : condemned'[b] = condemned[b]
    BY DEF TypeOK
<1>2. CandidatesPointedAt'
    BY <1>1, NeedsStay DEF CandidatesPointedAt
<1>3. CondemnedNeeded'
    BY <1>1, NeedsStay DEF CondemnedNeeded
<1>4. WatchedStored'
    BY <1>1, NeedsStay DEF WatchedStored
<1>5. StoredOnDisk'
    BY NeedsStay DEF StoredOnDisk, WatchedStored
<1>6. ASSUME NEW d \in Rows', NEW h \in Hashes, Needs(d, h)'
      PROVE  \/ h \in blobs' \cup torn'
             \/ \E k \in Purgers : /\ purge'[k] # None
                                   /\ d \in purge'[k].dead
                                   /\ h \in purge'[k].unlinked
    <2>1. d \in Rows /\ Needs(d, h)
        BY <1>6, NeedsStay
    <2>2. CASE h \notin H
        BY <2>1, <2>2 DEF NeededOnDisk
    <2>3. CASE h \in H /\ d \notin Gone(c)
        BY <2>1, <2>3 DEF CondemnedNeeded
    <2>4. CASE h \in H /\ d \in Gone(c)
        BY <2>4 DEF Gone
    <2>5. QED
        BY <2>2, <2>3, <2>4
<1>7. NeededOnDisk'
    BY <1>6 DEF NeededOnDisk
<1>8. QED
    BY <1>2, <1>3, <1>4, <1>5, <1>7

\* A purge's steps.
LEMMA FilesPurge ==
    ASSUME TypeOK, StagesInOrder, FilesInv, NEW k \in Purgers,
           \/ PurgeSelect(k) \/ PurgeRows(k)
           \/ PurgeSeekDocuments(k) \/ PurgeSeekVersions(k)
           \/ PurgeUnlink(k) \/ PurgeCommit(k) \/ PurgeRollback(k)
    PROVE  FilesInv'
<1>0. k \in Collectors /\ \A j \in Purgers : purge[j] # None => purge[j] \in Purge
    BY DEF Collectors, TypeOK
<1>1. CASE PurgeSelect(k)
    <2>1. PICK todo : purge' = [purge EXCEPT ![k] =
            [todo |-> todo, dead |-> {}, hashes |-> {}, unlinked |-> {}]]
        BY <1>1 DEF PurgeSelect
    <2>2. purge[k] = None /\ \A c \in Collectors : Gone(c)' = Gone(c)
        BY <1>1, <2>1 DEF PurgeSelect, Gone, TypeOK
    <2>3. QED
        BY <1>1, <2>1, <2>2, FilesIdle DEF PurgeSelect, TypeOK
<1>2. CASE PurgeRows(k)
    <2>1. PICK t \in purge[k].todo, H \in SUBSET Hashes :
            purge' = [purge EXCEPT ![k].todo = @ \ {t},
                                   ![k].dead = @ \cup {t.id}, ![k].hashes = H]
        <3>1. PICK t \in purge[k].todo :
            purge' = [purge EXCEPT
                ![k].todo = @ \ {t},
                ![k].dead = @ \cup {t.id},
                ![k].hashes = {t.sha256} \cup {v.sha256 : v \in versions[t.id]}]
            BY <1>2 DEF PurgeRows
        <3>2. t.sha256 \in Hashes /\ t.id \in DocIds
            BY <1>0, <1>2, <3>1 DEF PurgeRows, Purge
        <3>3. {t.sha256} \cup {v.sha256 : v \in versions[t.id]} \in SUBSET Hashes
            BY <3>2 DEF TypeOK, VersionRow
        <3>4. QED
            BY <3>1, <3>3
    <2>2. /\ purge[k] \in Purge
          /\ candidates[k] = {} /\ candidates' = candidates
          /\ condemned[k] = {} /\ condemned' = condemned /\ contested' = contested
        BY <1>0, <1>2 DEF PurgeRows
    <2>3. /\ \A j \in Purgers \ {k} : purge'[j] = purge[j]
          /\ purge'[k].dead = purge[k].dead \cup {t.id}
          /\ purge'[k].unlinked = purge[k].unlinked
        BY <2>1, <2>2 DEF TypeOK, Purge
    <2>4. purge'[k] # None
        <3>1. t.id \in DocIds
            BY <2>2 DEF Purge
        <3>2. purge'[k] \in Purge
            BY <2>1, <2>2, <3>1 DEF TypeOK, Purge
        <3>3. QED
            BY <3>2, NoneAssumption
    <2>5. \A c \in Collectors : c # k => Gone(c)' = Gone(c)
        BY <2>3 DEF Gone
    <2>6. QED
        BY <1>2, <2>2, <2>3, <2>4, <2>5, FilesIdle DEF PurgeRows
<1>3. CASE PurgeSeekDocuments(k)
    <2>1. PICK h \in purge[k].hashes :
            /\ purge' = [purge EXCEPT ![k].hashes = @ \ {h}]
            /\ candidates' = [candidates EXCEPT
                    ![k] = {h} \ HeldByDocument(purge[k].dead)]
            /\ contested' = [contested EXCEPT
                    ![k] = ({h} \ HeldByDocument(purge[k].dead)) \cap InFlight]
        BY <1>3 DEF PurgeSeekDocuments
    <2> DEFINE found == {h} \ HeldByDocument(purge[k].dead)
    <2>2. purge[k] \in Purge /\ purge[k] # None /\ h \in Hashes
        BY <1>0, <1>3 DEF PurgeSeekDocuments, Purge
    <2>3. /\ \A j \in Purgers \ {k} : purge'[j] = purge[j]
          /\ purge'[k].dead = purge[k].dead
          /\ purge'[k].unlinked = purge[k].unlinked
        BY <2>1, <2>2 DEF TypeOK, Purge
    <2>4. purge'[k] # None
        BY <2>1, <2>2, NoneAssumption DEF TypeOK, Purge
    <2>5. PurgesStand /\ \A c \in Collectors : Gone(c)' = Gone(c)
        BY <2>2, <2>3, <2>4 DEF Gone, PurgesStand
    <2>6. found \in SUBSET Hashes /\ found \cap HeldByDocument(Gone(k)) = {}
        BY <2>2 DEF Gone
    <2>7. /\ candidates' = [candidates EXCEPT ![k] = found]
          /\ contested' = [contested EXCEPT ![k] = found \cap InFlight]
        BY <2>1
    <2> HIDE DEF found
    <2>8. QED
        BY <1>0, <1>3, <2>5, <2>6, <2>7, FilesSought DEF PurgeSeekDocuments
<1>7. CASE PurgeSeekVersions(k)
    <2>1. PurgesStand /\ purge' = purge /\ Gone(k) = purge[k].dead
        BY <1>7 DEF PurgeSeekVersions, PurgesStand, Gone
    <2>2. \A c \in Collectors : Gone(c)' = Gone(c)
        BY <2>1 DEF Gone
    <2>3. QED
        BY <1>0, <1>7, <2>1, <2>2, FilesCondemned DEF PurgeSeekVersions
<1>4. CASE PurgeUnlink(k)
    <2>1. purge[k] \in Purge /\ purge[k] # None
        BY <1>0, <1>4 DEF PurgeUnlink
    <2>2. purge' = [purge EXCEPT ![k].unlinked = @ \cup condemned[k]]
        BY <1>4 DEF PurgeUnlink
    <2>3. /\ \A j \in Purgers \ {k} : purge'[j] = purge[j]
          /\ purge'[k].dead = purge[k].dead
          /\ purge'[k].unlinked = purge[k].unlinked \cup condemned[k]
        BY <2>1, <2>2 DEF TypeOK, Purge
    <2>4. purge'[k] # None
        BY <1>0, <2>1, <2>2, NoneAssumption DEF TypeOK, Purge
    <2>5. \A c \in Collectors : Gone(c)' = Gone(c)
        BY <2>1, <2>3, <2>4 DEF Gone
    <2>6. /\ condemned' = [condemned EXCEPT ![k] = @ \ condemned[k]]
          /\ condemned'[k] = {} /\ candidates[k] = {} /\ candidates' = candidates
          /\ \A b \in Collectors \ {k} : contested'[b] = contested[b]
        BY <1>0, <1>4 DEF PurgeUnlink, StagesInOrder, TypeOK
    <2>7. \A j \in Purgers : purge[j] # None =>
            /\ purge'[j] # None
            /\ purge'[j].dead = purge[j].dead
            /\ purge[j].unlinked \subseteq purge'[j].unlinked
            /\ j = k => condemned[k] \subseteq purge'[j].unlinked
        BY <2>3, <2>4
    <2>8. /\ doc' = doc /\ versions' = versions /\ req' = req
          /\ blobs' = blobs \ condemned[k]
          /\ torn \cup (contested[k] \cap condemned[k]) \subseteq torn'
        BY <1>4 DEF PurgeUnlink
    <2> DEFINE H == condemned[k]
    <2>9. /\ H \in SUBSET condemned[k] /\ blobs' = blobs \ H
          /\ torn \cup (contested[k] \cap H) \subseteq torn'
          /\ condemned' = [condemned EXCEPT ![k] = @ \ H]
          /\ \A j \in Purgers : purge[j] # None =>
                /\ purge'[j] # None
                /\ purge'[j].dead = purge[j].dead
                /\ purge[j].unlinked \subseteq purge'[j].unlinked
                /\ j = k => H \subseteq purge'[j].unlinked
        BY <2>6, <2>7, <2>8
    <2> HIDE DEF H
    <2>10. QED
        BY <1>0, <2>5, <2>6, <2>8, <2>9, FilesUnlinked
<1>5. CASE PurgeCommit(k)
    <2>1. /\ doc' = [d \in DocIds |-> IF d \in purge[k].dead THEN None ELSE doc[d]]
          /\ versions' = [d \in DocIds |->
                            IF d \in purge[k].dead THEN {} ELSE versions[d]]
          /\ purge[k] # None /\ purge' = [purge EXCEPT ![k] = None]
          /\ candidates[k] = {} /\ condemned[k] = {} /\ req' = req
          /\ UNCHANGED <<blobs, candidates, condemned, contested, torn>>
        BY <1>5 DEF PurgeCommit
    <2>2. /\ Rows' = Rows \ purge[k].dead
          /\ \A d \in Rows' : doc'[d] = doc[d] /\ versions'[d] = versions[d]
        BY <2>1 DEF Rows
    <2>3. \A d \in Rows', h \in Hashes :
            /\ PointsAt(d, h)' => PointsAt(d, h)
            /\ Needs(d, h)' => Needs(d, h)
        BY <2>1, <2>2 DEF Needs, PointsAt
    <2>4. \A h : StoredBy(h)' => StoredBy(h)
        BY <2>1 DEF StoredBy
    <2>5. /\ \A j \in Purgers \ {k} : purge'[j] = purge[j]
          /\ \A c \in Collectors : c # k => Gone(c)' = Gone(c)
        BY <2>1 DEF TypeOK, Gone
    <2>6. \A c \in Collectors : candidates[c] \cup condemned[c] \subseteq Hashes
        BY DEF TypeOK
    <2>7. CandidatesPointedAt'
        BY <2>1, <2>2, <2>3, <2>5, <2>6 DEF FilesInv, CandidatesPointedAt
    <2>8. CondemnedNeeded'
        BY <2>1, <2>2, <2>3, <2>5, <2>6 DEF FilesInv, CondemnedNeeded
    <2>9. WatchedStored'
        BY <2>1, <2>4 DEF FilesInv, WatchedStored
    <2>10. StoredOnDisk'
        BY <2>1, <2>4 DEF FilesInv, StoredOnDisk
    <2>11. NeededOnDisk'
        BY <2>1, <2>2, <2>3, <2>5 DEF FilesInv, NeededOnDisk
    <2>12. QED
        BY <2>7, <2>8, <2>9, <2>10, <2>11 DEF FilesInv
<1>6. CASE PurgeRollback(k)
    <2>1. /\ purge' = [purge EXCEPT ![k] = None]
          /\ torn' = torn \cup (purge[k].unlinked \ blobs)
          /\ candidates' = [candidates EXCEPT ![k] = {}]
          /\ condemned' = [condemned EXCEPT ![k] = {}]
          /\ contested' = [contested EXCEPT ![k] = {}]
          /\ UNCHANGED <<doc, versions, blobs, req>>
        BY <1>6 DEF PurgeRollback
    <2>2. \A j \in Purgers \ {k} : purge'[j] = purge[j]
        BY <2>1 DEF TypeOK
    <2>3. \A c \in Collectors : c # k =>
            /\ Gone(c)' = Gone(c)
            /\ candidates'[c] = candidates[c] /\ condemned'[c] = condemned[c]
            /\ contested'[c] = contested[c]
        BY <2>1, <2>2 DEF Gone, TypeOK
    <2>4. candidates'[k] = {} /\ condemned'[k] = {}
        BY <1>0, <2>1 DEF TypeOK
    <2>5. QED
        BY <2>1, <2>2, <2>3, <2>4, FilesIdle
<1>8. QED
    BY <1>1, <1>2, <1>3, <1>4, <1>5, <1>6, <1>7

\* The sweep's steps; it regards nothing as deleted.
LEMMA FilesSweep ==
    ASSUME TypeOK, StagesInOrder, FilesInv,
           \/ SweepList \/ SweepDocuments \/ SweepVersions \/ SweepAbort
           \/ \E h \in Hashes : SweepUnlink(h)
    PROVE  FilesInv'
<1>0. /\ Sweeper \in Collectors /\ Gone(Sweeper) = {}
      /\ purge' = purge => PurgesStand /\ \A c \in Collectors : Gone(c)' = Gone(c)
    BY SweeperAssumption DEF Collectors, Gone, PurgesStand
<1>1. CASE SweepList
    BY <1>0, <1>1, FilesIdle DEF SweepList
<1>2. CASE SweepDocuments
    <2> DEFINE found == listing \ HeldByDocument({})
    <2>1. found \in SUBSET Hashes /\ condemned[Sweeper] = {}
        BY <1>2 DEF SweepDocuments, StagesInOrder, TypeOK
    <2>2. found \cap HeldByDocument(Gone(Sweeper)) = {}
        BY <1>0
    <2>3. /\ doc' = doc /\ versions' = versions /\ req' = req
          /\ blobs' = blobs /\ torn' = torn /\ purge' = purge
          /\ condemned' = condemned
          /\ candidates' = [candidates EXCEPT ![Sweeper] = found]
          /\ contested' = [contested EXCEPT ![Sweeper] = found \cap InFlight]
        BY <1>2 DEF SweepDocuments
    <2> HIDE DEF found
    <2>4. QED
        BY <1>0, <2>1, <2>2, <2>3, FilesSought
<1>3. CASE SweepVersions
    BY <1>0, <1>3, FilesCondemned DEF SweepVersions
<1>4. CASE SweepAbort
    <2>1. \A c \in Collectors : c # Sweeper =>
            /\ candidates'[c] = candidates[c] /\ condemned'[c] = condemned[c]
            /\ contested'[c] = contested[c]
        BY <1>4 DEF SweepAbort, TypeOK
    <2>2. candidates'[Sweeper] = {} /\ condemned'[Sweeper] = {}
        BY <1>0, <1>4 DEF SweepAbort, TypeOK
    <2>3. QED
        BY <1>0, <1>4, <2>1, <2>2, FilesIdle DEF SweepAbort
<1>5. ASSUME NEW h \in Hashes, SweepUnlink(h) PROVE FilesInv'
    <2> DEFINE H == {h}
    <2>1. /\ H \in SUBSET condemned[Sweeper] /\ blobs' = blobs \ H
          /\ torn \cup (contested[Sweeper] \cap H) \subseteq torn'
          /\ condemned' = [condemned EXCEPT ![Sweeper] = @ \ H]
          /\ doc' = doc /\ versions' = versions /\ req' = req /\ purge' = purge
          /\ candidates' = candidates
        BY <1>5 DEF SweepUnlink
    <2>2. /\ condemned'[Sweeper] \cap contested[Sweeper] \subseteq contested'[Sweeper]
          /\ \A b \in Collectors \ {Sweeper} : contested'[b] = contested[b]
          /\ candidates[Sweeper] = {}
        BY <1>0, <1>5 DEF SweepUnlink, StagesInOrder, TypeOK
    <2>3. \A j \in Purgers : purge[j] # None =>
            /\ purge'[j] # None
            /\ purge'[j].dead = purge[j].dead
            /\ purge[j].unlinked \subseteq purge'[j].unlinked
            /\ j = Sweeper => H \subseteq purge'[j].unlinked
        BY <2>1, SweeperAssumption
    <2> HIDE DEF H
    <2>4. QED
        BY <1>0, <2>1, <2>2, <2>3, FilesUnlinked
<1>6. QED
    BY <1>1, <1>2, <1>3, <1>4, <1>5

\* A document written to keeps its row.
LEMMA RowsKept ==
    ASSUME TypeOK, LoadedWhenNeeded,
           \/ \E r \in Requests : CommitRestored(r) \/ CommitReplaced(r) \/ CommitCreated(r)
           \/ \E d \in DocIds : SoftDelete(d) \/ Restore(d)
    PROVE  Rows \subseteq Rows'
<1>1. ASSUME NEW d \in Rows, \E b \in BOOLEAN : doc' = [doc EXCEPT ![d].trashed = b]
      PROVE  Rows \subseteq Rows'
    <2>1. doc[d] \in DocRow
        BY DEF Rows, TypeOK
    <2>2. \A b \in BOOLEAN : [doc[d] EXCEPT !.trashed = b] \in DocRow
        BY <2>1 DEF DocRow
    <2>3. doc'[d] \in DocRow /\ \A e \in DocIds \ {d} : doc'[e] = doc[e]
        BY <1>1, <2>2 DEF Rows, TypeOK
    <2>4. QED
        BY <2>3, NoneAssumption DEF Rows
<1>2. ASSUME NEW r \in Requests, CommitRestored(r)
      PROVE  Rows \subseteq Rows'
    BY <1>1, <1>2 DEF CommitRestored
<1>3. ASSUME NEW d \in DocIds, SoftDelete(d) \/ Restore(d)
      PROVE  Rows \subseteq Rows'
    BY <1>1, <1>3 DEF SoftDelete, Restore, Active, Trashed
<1>4. ASSUME NEW r \in Requests, CommitReplaced(r)
      PROVE  Rows \subseteq Rows'
    <2>1. PICK d \in Rows : d = req[r].row.id
        BY <1>4 DEF CommitReplaced
    <2>2. \A e \in DocIds \ {d} : doc'[e] = doc[e]
        BY <1>4, <2>1 DEF CommitReplaced, TypeOK
    <2>3. doc[d] \in DocRow
        BY <2>1 DEF Rows, TypeOK
    <2>4. req[r] \in Upload /\ req[r].row \in Loaded
        BY <1>4 DEF CommitReplaced, LoadedWhenNeeded, Upload, TypeOK
    <2> DEFINE new == IF req[r].sha256 = req[r].row.sha256
                      THEN doc[d].sha256 ELSE req[r].sha256
               version == req[r].row.version + 1
    <2>5. new \in Hashes
        BY <2>3, <2>4 DEF DocRow, Upload, Loaded
    <2>6. version \in 1..MaxVersion
        <3>1. req[r].row.version \in 1..MaxVersion /\ req[r].row.version < MaxVersion
            BY <1>4, <2>4 DEF CommitReplaced, Loaded
        <3>2. QED
            BY <3>1, MaxVersionAssumption
    <2>7. doc' = [doc EXCEPT ![d].sha256 = new, ![d].version = version]
        BY <1>4, <2>1 DEF CommitReplaced
    <2>8. doc'[d] \in DocRow
        <3> HIDE DEF new, version
        <3> QED
            BY <2>3, <2>5, <2>6, <2>7 DEF TypeOK, DocRow
    <2>9. QED
        BY <2>2, <2>8, NoneAssumption DEF Rows
<1>5. ASSUME NEW r \in Requests, CommitCreated(r)
      PROVE  Rows \subseteq Rows'
    <2>1. PICK d \in DocIds \ Rows : \A e \in DocIds \ {d} : doc'[e] = doc[e]
        BY <1>5 DEF CommitCreated, TypeOK
    <2>2. QED
        BY <2>1 DEF Rows
<1>6. QED
    BY <1>2, <1>3, <1>4, <1>5

\* Versions are written for rows, and go with them.
LEMMA NoStrayStep ==
    TypeOK /\ LoadedWhenNeeded /\ NoStrayVersions /\ [Next]_vars => NoStrayVersions'
<1> SUFFICES ASSUME TypeOK, LoadedWhenNeeded, NoStrayVersions, [Next]_vars
             PROVE  NoStrayVersions'
    OBVIOUS
<1>1. CASE doc' = doc /\ versions' = versions
    BY <1>1 DEF NoStrayVersions, Rows
<1>2. ASSUME NEW d \in Rows, NEW row \in DocRow, doc' = [doc EXCEPT ![d] = row],
             \A e \in DocIds \ {d} : versions'[e] = versions[e]
      PROVE  NoStrayVersions'
    BY <1>2, NoneAssumption DEF NoStrayVersions, Rows, TypeOK
<1>3. ASSUME NEW d \in Rows, \E b \in BOOLEAN : doc' = [doc EXCEPT ![d].trashed = b],
             versions' = versions
      PROVE  NoStrayVersions'
    <2>1. doc[d] \in DocRow
        BY DEF Rows, TypeOK
    <2>2. \A b \in BOOLEAN : [doc[d] EXCEPT !.trashed = b] \in DocRow
        BY <2>1 DEF DocRow
    <2>3. QED
        BY <1>2, <1>3, <2>2
<1>4. ASSUME NEW r \in Requests, CommitRestored(r)
      PROVE  NoStrayVersions'
    BY <1>3, <1>4 DEF CommitRestored
<1>5. ASSUME NEW d \in DocIds, SoftDelete(d) \/ Restore(d)
      PROVE  NoStrayVersions'
    BY <1>3, <1>5 DEF SoftDelete, Restore, Active, Trashed
<1>6. ASSUME NEW r \in Requests, CommitReplaced(r)
      PROVE  NoStrayVersions'
    <2>1. PICK d \in Rows : d = req[r].row.id
        BY <1>6 DEF CommitReplaced
    <2>2. \A e \in DocIds \ {d} : versions'[e] = versions[e] /\ doc'[e] = doc[e]
        BY <1>6, <2>1 DEF CommitReplaced, TypeOK
    <2>3. doc'[d] # None
        BY <1>6, <2>1, RowsKept DEF Rows
    <2>4. QED
        BY <2>1, <2>2, <2>3 DEF NoStrayVersions, Rows
<1>7. ASSUME NEW r \in Requests, CommitCreated(r)
      PROVE  NoStrayVersions'
    <2>1. PICK d \in DocIds : \A e \in DocIds \ {d} : doc'[e] = doc[e]
        BY <1>7 DEF CommitCreated, TypeOK
    <2>2. QED
        BY <1>7, NoneAssumption DEF CommitCreated, NoStrayVersions, Rows, TypeOK
<1>8. ASSUME NEW dom \in Domains, DeleteDomain(dom)
      PROVE  NoStrayVersions'
    BY <1>8 DEF DeleteDomain, NoStrayVersions, Rows
<1>9. ASSUME NEW k \in Purgers, PurgeCommit(k)
      PROVE  NoStrayVersions'
    BY <1>9 DEF PurgeCommit, NoStrayVersions, Rows
<1>10. QED
    BY <1>1, <1>4, <1>5, <1>6, <1>7, <1>8, <1>9, OthersKeepRows DEF Next

\* The stages of a purge and of the sweep follow each other.
LEMMA StagesStep == TypeOK /\ StagesInOrder /\ [Next]_vars => StagesInOrder'
<1> SUFFICES ASSUME TypeOK, StagesInOrder, [Next]_vars
             PROVE  StagesInOrder'
    OBVIOUS
<1>. USE DEF StagesInOrder
<1>1. CASE candidates' = candidates /\ condemned' = condemned /\ listing' = listing
    BY <1>1
<1>2. ASSUME NEW k \in Purgers, PurgeSeekDocuments(k) PROVE StagesInOrder'
    BY <1>2, SweeperAssumption DEF PurgeSeekDocuments, TypeOK, Collectors
<1>3. ASSUME NEW k \in Purgers, PurgeSeekVersions(k) PROVE StagesInOrder'
    BY <1>3, SweeperAssumption DEF PurgeSeekVersions, TypeOK, Collectors
<1>4. ASSUME NEW k \in Purgers, PurgeUnlink(k) \/ PurgeRollback(k)
      PROVE  StagesInOrder'
    BY <1>4, SweeperAssumption DEF PurgeUnlink, PurgeRollback, TypeOK, Collectors
<1>5. CASE SweepList
    BY <1>5 DEF SweepList, SweepIdle
<1>6. CASE SweepDocuments
    BY <1>6 DEF SweepDocuments, TypeOK, Collectors
<1>7. CASE SweepVersions
    BY <1>7 DEF SweepVersions, TypeOK, Collectors
<1>8. CASE SweepAbort
    BY <1>8 DEF SweepAbort, TypeOK, Collectors
<1>9. ASSUME NEW h \in Hashes, SweepUnlink(h) PROVE StagesInOrder'
    BY <1>9 DEF SweepUnlink, TypeOK, Collectors
<1>10. QED
    BY <1>1, <1>2, <1>3, <1>4, <1>5, <1>6, <1>7, <1>8, <1>9
    DEF Next, vars, gcVars, StoreAndProbe, IngestAbort, LookUpContent, LookUpName,
        CommitRestored, CommitReplaced, CommitCreated, SoftDelete, Restore,
        DeleteDomain, PurgeSelect, PurgeRows, PurgeCommit

\* The invariant about the files on disk is inductive.
LEMMA FilesStep ==
    ASSUME TypeOK, LoadedWhenNeeded, NoStrayVersions, StagesInOrder, FilesInv,
           [Next]_vars
    PROVE  FilesInv'
<1>1. CASE UNCHANGED vars
    BY <1>1, FilesIdle DEF vars, Gone
<1>2. CASE Next
    BY <1>2, FilesRequests, FilesStored, FilesPurge, FilesSweep DEF Next
<1>3. QED
    BY <1>1, <1>2

\* A purge goes on holding what it selected, in its list or deleted.
LEMMA TakenKept ==
    ASSUME TypeOK, TakenFromTrash, NEW k \in Purgers,
           PurgeRows(k) \/ PurgeSeekDocuments(k) \/ PurgeSeekVersions(k) \/ PurgeUnlink(k)
    PROVE  TakenFromTrash'
<1>1. doc' = doc /\ rescued' = rescued
    BY DEF PurgeRows, PurgeSeekDocuments, PurgeSeekVersions, PurgeUnlink
<1>2. \A j \in Purgers \ {k} : purge'[j] = purge[j]
    BY DEF PurgeRows, PurgeSeekDocuments, PurgeSeekVersions, PurgeUnlink, TypeOK
<1>3. purge[k] # None
    BY DEF PurgeRows, PurgeSeekDocuments, PurgeSeekVersions, PurgeUnlink
<1>4. purge[k] \in Purge
    BY <1>3 DEF TypeOK
<1>5. /\ {t.id : t \in purge'[k].todo} \subseteq {t.id : t \in purge[k].todo}
      /\ purge'[k].dead \subseteq Taken(k)
    <2>1. CASE PurgeRows(k)
        <3>1. PICK t \in purge[k].todo : purge' = [purge EXCEPT
                ![k].todo = @ \ {t},
                ![k].dead = @ \cup {t.id},
                ![k].hashes = {t.sha256} \cup {v.sha256 : v \in versions[t.id]}]
            BY <2>1 DEF PurgeRows
        <3>2. /\ purge'[k].todo = purge[k].todo \ {t}
              /\ purge'[k].dead = purge[k].dead \cup {t.id}
            BY <1>4, <3>1 DEF TypeOK, Purge
        <3>3. QED
            BY <3>2 DEF Taken
    <2>2. CASE PurgeSeekDocuments(k)
        BY <1>4, <2>2 DEF PurgeSeekDocuments, TypeOK, Purge, Taken
    <2>3. CASE PurgeSeekVersions(k)
        BY <1>4, <2>3 DEF PurgeSeekVersions, TypeOK, Purge, Taken
    <2>4. CASE PurgeUnlink(k)
        BY <1>4, <2>4 DEF PurgeUnlink, TypeOK, Purge, Taken
    <2>5. QED
        BY <2>1, <2>2, <2>3, <2>4
<1>6. Active' = Active
    BY <1>1 DEF Active, Rows
<1>7. QED
    BY <1>1, <1>2, <1>3, <1>5, <1>6 DEF TakenFromTrash, Taken

\* A restore tells the purges that have the document in their lists, and waits
\* for those that have deleted it.
LEMMA TakenRestored ==
    ASSUME TypeOK, TakenFromTrash, NEW d \in Rows, ~Locked(d),
           doc' = [doc EXCEPT ![d].trashed = FALSE], rescued' = Rescue(d), purge' = purge
    PROVE  TakenFromTrash'
<1>1. Active' \subseteq Active \cup {d}
    BY DEF Active, Rows, TypeOK
<1>2. \A k \in Purgers : rescued[k] \subseteq rescued'[k]
    BY DEF Rescue
<1>3. ASSUME NEW k \in Purgers, purge[k] # None, d \in Taken(k)
      PROVE  d \in rescued'[k]
    <2>1. \E t \in purge[k].todo : t.id = d
        BY <1>3 DEF Taken, Locked
    <2>2. QED
        BY <1>3, <2>1 DEF Rescue
<1>4. QED
    BY <1>1, <1>2, <1>3 DEF TakenFromTrash, Taken

\* Every step keeps TakenFromTrash.
LEMMA TakenStep ==
    TypeOK /\ TakenFromTrash /\ [Next]_vars => TakenFromTrash'
<1> SUFFICES ASSUME TypeOK, TakenFromTrash, [Next]_vars
             PROVE  TakenFromTrash'
    OBVIOUS
<1>1. ASSUME Active' \subseteq Active, purge' = purge, rescued' = rescued
      PROVE  TakenFromTrash'
    BY <1>1 DEF TakenFromTrash, Taken
<1>2. ASSUME NEW r \in Requests,
             \/ StoreAndProbe(r) \/ IngestAbort(r) \/ LookUpContent(r) \/ LookUpName(r)
      PROVE  TakenFromTrash'
    BY <1>1, <1>2 DEF StoreAndProbe, IngestAbort, LookUpContent, LookUpName, gcVars,
                      Active, Rows
<1>3. ASSUME NEW r \in Requests, CommitRestored(r)
      PROVE  TakenFromTrash'
    BY <1>3, TakenRestored DEF CommitRestored, gcVars
<1>4. ASSUME NEW r \in Requests, CommitReplaced(r)
      PROVE  TakenFromTrash'
    <2>1. PICK d \in Rows :
            \E h, n : doc' = [doc EXCEPT ![d].sha256 = h, ![d].version = n]
        BY <1>4 DEF CommitReplaced
    <2>2. doc[d] \in DocRow
        BY <2>1 DEF Rows, TypeOK
    <2>3. /\ \A e \in DocIds \ {d} : doc'[e] = doc[e]
          /\ doc'[d].trashed = doc[d].trashed
        BY <2>1, <2>2 DEF TypeOK, DocRow, Rows
    <2>4. Active' \subseteq Active
        BY <2>1, <2>3 DEF Active, Rows
    <2>5. QED
        BY <1>1, <1>4, <2>4 DEF CommitReplaced, gcVars
<1>5. ASSUME NEW r \in Requests, CommitCreated(r)
      PROVE  TakenFromTrash'
    <2>1. PICK d \in DocIds : ~Remembered(d) /\ \A e \in DocIds \ {d} : doc'[e] = doc[e]
        BY <1>5 DEF CommitCreated, TypeOK
    <2>2. Active' \subseteq Active \cup {d}
        BY <2>1 DEF Active, Rows
    <2>3. \A k \in Purgers : purge[k] # None => d \notin Taken(k)
        BY <2>1 DEF Remembered, Taken
    <2>4. QED
        BY <1>5, <2>2, <2>3 DEF CommitCreated, gcVars, TakenFromTrash, Taken
<1>6. ASSUME NEW d \in DocIds, SoftDelete(d)
      PROVE  TakenFromTrash'
    BY <1>1, <1>6 DEF SoftDelete, gcVars, Active, Rows, TypeOK
<1>7. ASSUME NEW d \in DocIds, Restore(d)
      PROVE  TakenFromTrash'
    BY <1>7, TakenRestored DEF Restore, Trashed, gcVars
<1>8. ASSUME NEW dom \in Domains, DeleteDomain(dom)
      PROVE  TakenFromTrash'
    BY <1>1, <1>8 DEF DeleteDomain, gcVars, Active, Rows
<1>9. ASSUME NEW k \in Purgers, PurgeSelect(k)
      PROVE  TakenFromTrash'
    <2>1. PICK D \in SUBSET Trashed :
            purge' = [purge EXCEPT ![k] =
                [todo |-> {[id |-> d, sha256 |-> doc[d].sha256] : d \in D},
                 dead |-> {}, hashes |-> {}, unlinked |-> {}]]
        BY <1>9 DEF PurgeSelect, Purgeable
    <2>2. Taken(k)' = D
        <3>1. /\ purge'[k].dead = {}
              /\ purge'[k].todo = {[id |-> d, sha256 |-> doc[d].sha256] : d \in D}
            BY <2>1 DEF TypeOK
        <3>2. \A d \in D : [id |-> d, sha256 |-> doc[d].sha256] \in purge'[k].todo
            BY <3>1
        <3>3. \A t \in purge'[k].todo : t.id \in D
            BY <3>1
        <3>4. \A d \in D : \E t \in purge'[k].todo : t.id = d
            BY <3>2
        <3>5. {t.id : t \in purge'[k].todo} = D
            <4> DEFINE todo == purge'[k].todo
            <4> HIDE DEF todo
            <4> QED
                BY <3>3, <3>4 DEF todo
        <3>6. QED
            BY <3>1, <3>5 DEF Taken
    <2>3. D \cap Active = {}
        BY DEF Trashed, Active
    <2>4. Active' = Active /\ rescued' = rescued
        BY <1>9 DEF PurgeSelect, Active, Rows
    <2>5. \A j \in Purgers \ {k} : purge'[j] = purge[j]
        BY <2>1 DEF TypeOK
    <2>6. QED
        BY <2>2, <2>3, <2>4, <2>5 DEF TakenFromTrash, Taken
<1>10. ASSUME NEW k \in Purgers, PurgeCommit(k) \/ PurgeRollback(k)
       PROVE  TakenFromTrash'
    <2>1. Active' \subseteq Active
        BY <1>10 DEF PurgeCommit, PurgeRollback, Active, Rows
    <2>2. /\ purge'[k] = None
          /\ \A j \in Purgers \ {k} : purge'[j] = purge[j] /\ rescued'[j] = rescued[j]
        BY <1>10 DEF PurgeCommit, PurgeRollback, TypeOK
    <2>3. QED
        BY <2>1, <2>2 DEF TakenFromTrash, Taken
<1>11. CASE \/ SweepList \/ SweepDocuments \/ SweepVersions \/ SweepAbort
            \/ \E h \in Hashes : SweepUnlink(h)
            \/ UNCHANGED vars
    BY <1>1, <1>11 DEF SweepList, SweepDocuments, SweepVersions, SweepAbort, SweepUnlink,
                       vars, Active, Rows
<1>12. QED
    BY <1>2, <1>3, <1>4, <1>5, <1>6, <1>7, <1>8, <1>9, <1>10, <1>11, TakenKept DEF Next

\* Types, uniqueness, history and disk together: the invariant that carries the
\* results below.
THEOREM InductiveInvariant == Spec => []IInv
<1>1. Init => IInv
    BY TypeInit DEF Init, IInv, HistoryInv, HistoryGapless, LoadedHistory,
                    ActiveUnique, Active, LoadedWhenNeeded, NoStrayVersions,
                    StagesInOrder, FilesInv, CandidatesPointedAt,
                    CondemnedNeeded, WatchedStored, StoredBy, StoredOnDisk,
                    NeededOnDisk, Rows, Collectors, TakenFromTrash
<1>2. IInv /\ [Next]_vars => IInv'
    <2> SUFFICES ASSUME IInv, [Next]_vars PROVE IInv'
        OBVIOUS
    <2>1. TypeOK' /\ LoadedWhenNeeded'
        BY TypeStep DEF IInv, HistoryInv
    <2>2. ActiveUnique' /\ HistoryInv'
        BY <2>1, UniqueStep, HistoryStep DEF IInv, HistoryInv
    <2>3. NoStrayVersions' /\ StagesInOrder' /\ FilesInv' /\ TakenFromTrash'
        BY NoStrayStep, StagesStep, FilesStep, TakenStep DEF IInv, HistoryInv
    <2>4. QED
        BY <2>1, <2>2, <2>3 DEF IInv
<1>3. QED
    BY <1>1, <1>2, PTL DEF Spec

\* Whatever uploads, replacements, restores, domain deletions and purges
\* interleave, a domain never holds two active documents of one content.
THEOREM ActiveUniqueInvariant == Spec => []ActiveUnique
<1>1. IInv => ActiveUnique
    BY DEF IInv
<1>2. QED
    BY <1>1, InductiveInvariant, PTL

\* Every version below a document's current one has its snapshot row, even
\* when replacements computed from stale rows overwrite each other.
THEOREM HistoryGaplessInvariant == Spec => []HistoryGapless
<1>1. IInv => HistoryGapless
    BY DEF IInv, HistoryInv
<1>2. QED
    BY <1>1, InductiveInvariant, PTL

\* A file that a document or one of its versions needs goes missing only by a
\* race of an upload with the unlink, or by a purge that unlinks and then rolls
\* back: whatever other uploads, purges and sweeps do, no content is lost.
THEOREM LostOnlyIfTornInvariant == Spec => []LostOnlyIfTorn
<1>1. IInv => LostOnlyIfTorn
    <2>1. TypeOK => \A d \in Rows : HashesOf(d) \subseteq Hashes
        BY DEF TypeOK, Rows, HashesOf, DocRow, VersionRow
    <2>2. QED
        BY <2>1 DEF IInv, FilesInv, NeededOnDisk, Needs, PointsAt, HashesOf,
                    LostOnlyIfTorn, Locked
<1>2. QED
    BY <1>1, InductiveInvariant, PTL

\* No step deletes an active document, but the deletion of its domain and the
\* commit of a purge that had selected it in the trash before it was restored.
THEOREM ActiveGoesOnlyIfRescuedHolds == Spec => ActiveGoesOnlyIfRescued
<1> DEFINE Step ==
    \A d \in Active : d \notin Rows' =>
        \/ doc[d].domain \notin domains'
        \/ \E k \in Purgers : d \in rescued[k]
<1>1. ASSUME IInv, [Next]_vars PROVE Step
    <2> SUFFICES ASSUME NEW d \in Active, d \notin Rows',
                        doc[d].domain \in domains'
                 PROVE  \E k \in Purgers : d \in rescued[k]
        OBVIOUS
    <2>1. d \in Rows /\ d \notin Rows' /\ d \in DocIds
        BY DEF Active, Rows
    <2>2. ~ UNCHANGED <<doc>>
        BY <2>1 DEF Rows
    <2>3. ASSUME NEW dom \in Domains, DeleteDomain(dom)
          PROVE  FALSE
        BY <2>1, <2>3 DEF DeleteDomain, Rows
    <2>4. ASSUME NEW k \in Purgers, PurgeCommit(k)
          PROVE  d \in rescued[k]
        <3>1. purge[k] # None /\ d \in purge[k].dead
            BY <2>1, <2>4 DEF PurgeCommit, Rows
        <3>2. QED
            BY <1>1, <3>1 DEF IInv, TakenFromTrash, Taken
    <2>5. TypeOK /\ LoadedWhenNeeded
        BY <1>1 DEF IInv, HistoryInv
    <2>6. QED
        BY <1>1, <2>1, <2>2, <2>3, <2>4, <2>5, RowsKept, OthersKeepRows DEF Next
<1>2. QED
    BY <1>1, InductiveInvariant, PTL DEF Spec, ActiveGoesOnlyIfRescued
=============================================================================
