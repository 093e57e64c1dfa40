----------------------------- MODULE SharingProof ----------------------------
(* Proofs about what MCSharing makes of documents for others, for every set  *)
(* of documents, requests and searches: exports, what a set holds and       *)
(* shares, its saved searches, and the pages of the bot.                     *)
EXTENDS MCSharing, ShareLinksProof, Sequences, FiniteSetTheorems, WellFoundedInduction, TLAPS

-----------------------------------------------------------------------------
(* Exports: the inductive invariant. *)

\* A build is of an export that is still to be built.
BuildsUnbuilt(e) ==
    job[e].at # "none" /\ EX!Exists(e) => artifact[e].status = "building" /\ ~artifact[e].key

\* What a build writes is part of the snapshot.
WritesSnapshot(e) == EX!Writing(e) /\ EX!Exists(e) => job[e].docs \subseteq artifact[e].ids

\* A file without a name in its row is not seen by any cleanup.
NamelessIsLeaked(e) ==
    EX!Exists(e) /\ ~artifact[e].key /\ file[e] # EX!NoFile => e \in leaked

\* What the running cleanup has unlinked is gone, or was written since.
SweptIsGone(e) == e \in sweep => file[e] = EX!NoFile \/ e \in leaked

\* What a ready export tells of its file is true.
ReadyTells(e) ==
    EX!Exists(e) /\ artifact[e].status = "ready" /\ file[e] # EX!NoFile =>
        /\ file[e].is = "whole" /\ EX!Cardinality(file[e].listed) = artifact[e].items
        /\ file[e].docs \subseteq file[e].listed /\ file[e].listed \subseteq artifact[e].ids
        /\ \A d \in file[e].listed \ file[e].docs : store[d] = "gone"
        /\ artifact[e].items + artifact[e].missing = EX!Cardinality(artifact[e].ids)

FileHasRow(e) == file[e] # EX!NoFile => EX!Exists(e) \/ e \in leaked

ExportInv(e) ==
    BuildsUnbuilt(e) /\ WritesSnapshot(e) /\ NamelessIsLeaked(e) /\ SweptIsGone(e)
    /\ ReadyTells(e) /\ FileHasRow(e)

ExportsInv == EX!TypeOK /\ \A e \in Ids : ExportInv(e)

-----------------------------------------------------------------------------
(* Exports: every step keeps the invariant. *)

LEMMA ExConstants == IsFiniteSet(Files) /\ Picks \subseteq SUBSET Files /\ None \notin EX!Rows
BY SharingAssumption DEF EX!PicksAssumption, EX!IsFiniteSet, IsFiniteSet

\* A snapshot is counted; a part of it has no more documents.
LEMMA ExCounting ==
    ASSUME NEW S \in SUBSET Files, NEW T \in SUBSET S
    PROVE  /\ EX!Cardinality(T) \in Nat /\ EX!Cardinality(S) \in Nat
           /\ EX!Cardinality(Files) \in Nat
           /\ EX!Cardinality(T) <= EX!Cardinality(S)
           /\ EX!Cardinality(S) <= EX!Cardinality(Files)
<1>1. IsFiniteSet(S) /\ IsFiniteSet(Files)
    BY ExConstants, FS_Subset
<1>2. /\ Cardinality(T) <= Cardinality(S) /\ Cardinality(S) <= Cardinality(Files)
      /\ Cardinality(T) \in Nat /\ Cardinality(S) \in Nat /\ Cardinality(Files) \in Nat
    BY <1>1, FS_Subset, FS_CardinalityType
<1>3. \A U : EX!Cardinality(U) = Cardinality(U)
    BY DEF EX!Cardinality, Cardinality
<1>4. QED
    BY <1>2, <1>3

LEMMA ExInit == EX!Init => ExportsInv
BY ExConstants
DEF EX!Init, ExportsInv, ExportInv, EX!TypeOK, BuildsUnbuilt, WritesSnapshot, NamelessIsLeaked,
    SweptIsGone, ReadyTells, FileHasRow, EX!Exists, EX!Writing, EX!At, EX!NoFile

\* A step that is about one export leaves the others as they are.
LEMMA ExOne ==
    ASSUME ExportsInv, EX!TypeOK', NEW e \in Ids, store' = store, sweep' = sweep,
           leaked \subseteq leaked',
           \A x \in Ids \ {e} : /\ artifact'[x] = artifact[x] /\ file'[x] = file[x]
                                /\ job'[x] = job[x],
           ExportInv(e)'
    PROVE  ExportsInv'
<1>1. ASSUME NEW x \in Ids \ {e} PROVE ExportInv(x)'
    <2>1. ExportInv(x)
        BY DEF ExportsInv
    <2>2. artifact'[x] = artifact[x] /\ file'[x] = file[x] /\ job'[x] = job[x]
        OBVIOUS
    <2>3. QED
        BY <2>1, <2>2
        DEF ExportInv, BuildsUnbuilt, WritesSnapshot, NamelessIsLeaked, SweptIsGone, ReadyTells,
            FileHasRow, EX!Exists, EX!Writing
<1>2. QED
    BY <1>1 DEF ExportsInv

LEMMA ExAsk ==
    ASSUME ExportsInv, NEW e \in Ids, NEW S \in SUBSET Files, NEW full \in BOOLEAN,
           EX!Ask(e, S, full)
    PROVE  ExportsInv'
<1>1. EX!NewRow(S, full) \in EX!Rows
    <2>1. EX!Cardinality(S) \in 0..EX!Cardinality(Files) /\ 0 \in 0..EX!Cardinality(Files)
        BY ExCounting
    <2>2. QED
        BY <2>1 DEF EX!NewRow, EX!Rows
<1>2. EX!TypeOK'
    BY <1>1 DEF ExportsInv, EX!TypeOK, EX!Ask, EX!At
<1>3. artifact'[e] = EX!NewRow(S, full) /\ job'[e] = EX!At("committed")
    BY DEF ExportsInv, EX!TypeOK, EX!Ask
<1>4. \A x \in Ids \ {e} : artifact'[x] = artifact[x] /\ job'[x] = job[x] /\ file'[x] = file[x]
    BY DEF ExportsInv, EX!TypeOK, EX!Ask
<1>5. file'[e] = EX!NoFile /\ UNCHANGED <<store, sweep, leaked>>
    BY DEF EX!Ask
<1>6. ExportInv(e)'
    BY <1>3, <1>5
    DEF ExportInv, BuildsUnbuilt, WritesSnapshot, NamelessIsLeaked, SweptIsGone, ReadyTells,
        FileHasRow, EX!Exists, EX!Writing, EX!At, EX!NewRow
<1>7. QED
    BY <1>2, <1>4, <1>5, <1>6, ExOne

LEMMA ExAsks ==
    ASSUME ExportsInv, NEW e \in Ids, NEW S \in Picks,
           EX!CreateExport(e, S) \/ EX!StartFullExport(e, S)
    PROVE  ExportsInv'
<1>1. EX!Left(S) \in SUBSET Files
    BY ExConstants DEF EX!Left
<1>2. CASE EX!CreateExport(e, S)
    BY <1>1, <1>2, ExAsk DEF EX!CreateExport
<1>3. CASE EX!StartFullExport(e, S)
    BY <1>1, <1>3, ExAsk DEF EX!StartFullExport
<1>4. QED
    BY <1>2, <1>3

\* The build, up to the writing.
LEMMA ExLoads ==
    ASSUME ExportsInv, NEW e \in Ids, EX!Dispatch(e) \/ EX!BuildLoads(e)
    PROVE  ExportsInv'
<1>1. UNCHANGED <<store, artifact, file, sweep, leaked>> /\ job[e].at # "none"
    BY DEF EX!Dispatch, EX!BuildLoads, EX!At
<1>2. \A x \in Ids \ {e} : job'[x] = job[x]
    BY DEF ExportsInv, EX!TypeOK, EX!Dispatch, EX!BuildLoads
<1>3. /\ EX!TypeOK'
      /\ job'[e].at = "writing" => /\ EX!Exists(e)
                                   /\ job'[e].docs \subseteq artifact[e].ids
    <2>1. CASE EX!Dispatch(e)
        BY <2>1 DEF ExportsInv, EX!TypeOK, EX!Dispatch, EX!At
    <2>2. CASE EX!BuildLoads(e)
        <3>1. EX!Exists(e) => EX!Left(artifact[e].ids) \in SUBSET Files
                              /\ EX!Left(artifact[e].ids) \subseteq artifact[e].ids
            BY DEF ExportsInv, EX!TypeOK, EX!Rows, EX!Exists, EX!Left
        <3>2. QED
            BY <2>2, <3>1 DEF ExportsInv, EX!TypeOK, EX!BuildLoads, EX!At
    <2>3. QED
        BY <2>1, <2>2
<1>4. ExportInv(e)
    BY DEF ExportsInv
<1>5. ExportInv(e)'
    BY <1>1, <1>3, <1>4
    DEF ExportInv, BuildsUnbuilt, WritesSnapshot, NamelessIsLeaked, SweptIsGone, ReadyTells,
        FileHasRow, EX!Exists, EX!Writing
<1>6. QED
    BY <1>1, <1>2, <1>3, <1>5, ExOne

\* The counts a build records are those of what it loaded.
LEMMA ExRecord ==
    ASSUME ExportsInv, NEW e \in Ids, EX!Writing(e), EX!Exists(e)
    PROVE  LET new == EX!Record(e, job[e].docs)
           IN  /\ new \in EX!Rows /\ new.status = "ready" /\ new.key
               /\ new.ids = artifact[e].ids /\ job[e].docs \subseteq new.ids
               /\ new.items = EX!Cardinality(job[e].docs)
               /\ new.items + new.missing = EX!Cardinality(new.ids)
<1>1. artifact[e] \in EX!Rows /\ artifact[e].ids \in SUBSET Files
    BY DEF ExportsInv, EX!TypeOK, EX!Exists, EX!Rows
<1>2. job[e].docs \in SUBSET artifact[e].ids
    BY DEF ExportsInv, ExportInv, WritesSnapshot
<1>3. PICK n \in Nat : n = EX!Cardinality(Files)
    BY ExCounting
<1>4. PICK m \in 0..n : m = EX!Cardinality(artifact[e].ids)
    BY <1>1, <1>2, <1>3, ExCounting
<1>5. PICK k \in 0..m : k = EX!Cardinality(job[e].docs)
    BY <1>1, <1>2, <1>4, ExCounting
<1>6. EX!Record(e, job[e].docs) =
        [artifact[e] EXCEPT !.status = "ready", !.key = TRUE, !.items = k, !.missing = m - k]
    BY <1>4, <1>5 DEF EX!Record
<1>7. k \in 0..n /\ m - k \in 0..n /\ k + (m - k) = m
    BY <1>3, <1>4, <1>5
<1>8. EX!Record(e, job[e].docs) \in EX!Rows
    BY <1>1, <1>3, <1>6, <1>7 DEF EX!Rows
<1>9. QED
    BY <1>1, <1>2, <1>4, <1>5, <1>6, <1>7, <1>8 DEF EX!Rows

LEMMA ExBuildEnds ==
    ASSUME ExportsInv, NEW e \in Ids, EX!BuildEnds(e)
    PROVE  ExportsInv'
<1> DEFINE new == EX!Record(e, job[e].docs)
<1>a. PICK skipped \in SUBSET {d \in job[e].docs : store[d] = "gone"} :
          file' = [file EXCEPT ![e] = [is |-> "whole", listed |-> job[e].docs,
                                       docs |-> job[e].docs \ skipped]]
    BY DEF EX!BuildEnds
<1>1. /\ UNCHANGED <<store, sweep>> /\ leaked \subseteq leaked'
      /\ job'[e] = EX!At("none")
      /\ file'[e] = [is |-> "whole", listed |-> job[e].docs, docs |-> job[e].docs \ skipped]
      /\ artifact'[e] = IF EX!Exists(e) THEN new ELSE None
      /\ (EX!Exists(e) /\ e \notin sweep) \/ e \in leaked'
    BY <1>a DEF ExportsInv, EX!TypeOK, EX!BuildEnds, EX!Exists
<1>2. \A x \in Ids \ {e} : artifact'[x] = artifact[x] /\ job'[x] = job[x] /\ file'[x] = file[x]
    BY <1>a DEF ExportsInv, EX!TypeOK, EX!BuildEnds
<1>3. EX!Exists(e) =>
          /\ new \in EX!Rows /\ new.status = "ready" /\ new.key
          /\ job[e].docs \subseteq new.ids /\ new.items = EX!Cardinality(job[e].docs)
          /\ new.items + new.missing = EX!Cardinality(new.ids)
    BY ExRecord DEF EX!BuildEnds
<1> HIDE DEF new
<1>4. EX!TypeOK'
    <2>1. /\ artifact' \in [Ids -> EX!Rows \cup {None}]
          /\ leaked' \subseteq Ids
        BY <1>3 DEF ExportsInv, EX!TypeOK, EX!BuildEnds, new
    <2>2. file' \in [Ids -> [is : {"none", "torn", "whole"},
                             listed : SUBSET Files, docs : SUBSET Files]]
        <3>1. job[e].docs \in SUBSET Files /\ job[e].docs \ skipped \in SUBSET Files
            BY DEF ExportsInv, EX!TypeOK
        <3>2. QED
            BY <1>a, <3>1 DEF ExportsInv, EX!TypeOK
    <2>3. QED
        BY <2>1, <2>2 DEF ExportsInv, EX!TypeOK, EX!BuildEnds, EX!At
<1>5. ExportInv(e)'
    BY <1>1, <1>3, ExConstants
    DEF ExportInv, BuildsUnbuilt, WritesSnapshot, NamelessIsLeaked, SweptIsGone, ReadyTells,
        FileHasRow, EX!Exists, EX!Writing, EX!At
<1>6. QED
    BY <1>1, <1>2, <1>4, <1>5, ExOne

LEMMA ExBuildStops ==
    ASSUME ExportsInv, NEW e \in Ids, EX!BuildFails(e) \/ EX!BuildDies(e)
    PROVE  ExportsInv'
<1>1. /\ UNCHANGED <<store, sweep>> /\ leaked \subseteq leaked'
      /\ job[e].at # "none" /\ job'[e] = EX!At("none")
      /\ file'[e] = file[e] \/ e \in leaked'
      /\ EX!Exists(e) <=> EX!Exists(e)'
      /\ EX!Exists(e) => artifact'[e].status \in {"building", "failed"}
    <2>1. EX!Exists(e) /\ job[e].at # "none" => artifact[e].status = "building"
        BY DEF ExportsInv, ExportInv, BuildsUnbuilt
    <2>2. EX!Exists(e) => artifact[e] \in EX!Rows
        BY DEF ExportsInv, EX!TypeOK, EX!Exists
    <2>3. CASE EX!BuildFails(e)
        BY <2>2, <2>3, ExConstants
        DEF ExportsInv, EX!TypeOK, EX!BuildFails, EX!Exists, EX!Writing, EX!Rows
    <2>4. CASE EX!BuildDies(e)
        BY <2>1, <2>4 DEF ExportsInv, EX!TypeOK, EX!BuildDies, EX!Exists, EX!Writing
    <2>5. QED
        BY <2>3, <2>4
<1>2. \A x \in Ids \ {e} : artifact'[x] = artifact[x] /\ job'[x] = job[x] /\ file'[x] = file[x]
    BY DEF ExportsInv, EX!TypeOK, EX!BuildFails, EX!BuildDies
<1>3. EX!TypeOK'
    <2>1. CASE EX!BuildFails(e)
        <3>1. EX!Exists(e) => [artifact[e] EXCEPT !.status = "failed"] \in EX!Rows
            BY DEF ExportsInv, EX!TypeOK, EX!Exists, EX!Rows
        <3>2. artifact' \in [Ids -> EX!Rows \cup {None}]
            BY <2>1, <3>1 DEF ExportsInv, EX!TypeOK, EX!BuildFails
        <3>3. QED
            BY <2>1, <3>2 DEF ExportsInv, EX!TypeOK, EX!BuildFails, EX!At, EX!Torn
    <2>2. CASE EX!BuildDies(e)
        BY <2>2 DEF ExportsInv, EX!TypeOK, EX!BuildDies, EX!At, EX!Torn
    <2>3. QED
        BY <2>1, <2>2
<1>4. ExportInv(e)
    BY DEF ExportsInv
<1>5. ExportInv(e)'
    <2>1. EX!Exists(e) => artifact'[e].status # "ready"
        BY <1>1
    <2>2. EX!Exists(e) => ~artifact[e].key
        BY <1>1, <1>4 DEF ExportInv, BuildsUnbuilt
    <2>3. QED
        BY <1>1, <1>4, <2>1, <2>2
        DEF ExportInv, BuildsUnbuilt, WritesSnapshot, NamelessIsLeaked, SweptIsGone, ReadyTells,
            FileHasRow, EX!Writing, EX!At, EX!Exists
<1>6. QED
    BY <1>1, <1>2, <1>3, <1>5, ExOne

LEMMA ExExpire ==
    ASSUME ExportsInv, NEW e \in Ids, EX!Expire(e)
    PROVE  ExportsInv'
<1>1. artifact[e] \in EX!Rows
    BY DEF ExportsInv, EX!TypeOK, EX!Expire, EX!Exists
<1>2. artifact'[e] = [artifact[e] EXCEPT !.expired = TRUE]
    BY DEF ExportsInv, EX!TypeOK, EX!Expire
<1>3. /\ artifact'[e] \in EX!Rows
      /\ artifact'[e].ids = artifact[e].ids /\ artifact'[e].status = artifact[e].status
      /\ artifact'[e].key = artifact[e].key /\ artifact'[e].items = artifact[e].items
      /\ artifact'[e].missing = artifact[e].missing
    BY <1>1, <1>2 DEF EX!Rows
<1>4. EX!TypeOK'
    BY <1>2, <1>3 DEF ExportsInv, EX!TypeOK, EX!Expire
<1>5. ExportInv(e) /\ EX!Exists(e)
    BY DEF ExportsInv, EX!Expire
<1>6. UNCHANGED <<store, file, job, sweep, leaked>>
    BY DEF EX!Expire
<1>7. ExportInv(e)'
    BY <1>3, <1>5, <1>6, ExConstants
    DEF ExportInv, BuildsUnbuilt, WritesSnapshot, NamelessIsLeaked, SweptIsGone, ReadyTells,
        FileHasRow, EX!Exists, EX!Writing
<1>8. \A x \in Ids \ {e} : artifact'[x] = artifact[x]
    BY DEF ExportsInv, EX!TypeOK, EX!Expire
<1>9. QED
    BY <1>4, <1>6, <1>7, <1>8, ExOne

\* The cleanup, and the deletion of a domain, are about all at once.
LEMMA ExSweepUnlinks == ExportsInv /\ EX!SweepUnlinks => ExportsInv'
<1>1. SUFFICES ASSUME ExportsInv, EX!SweepUnlinks PROVE ExportsInv'
    OBVIOUS
<1>2. /\ UNCHANGED <<store, domain, member, artifact, job, leaked>> /\ sweep = {}
      /\ \A e \in Ids : file'[e] = IF e \in sweep' THEN EX!FileOfSwept(e) ELSE file[e]
      /\ \A e \in sweep' : e \in Ids /\ EX!Exists(e)
    BY <1>1 DEF EX!SweepUnlinks
<1>3. \A e \in Ids : file'[e] = file[e] \/ file'[e] = EX!NoFile
    BY <1>2 DEF EX!FileOfSwept
<1>4. EX!TypeOK'
    BY <1>1, <1>2, <1>3 DEF ExportsInv, EX!TypeOK, EX!SweepUnlinks, EX!NoFile
<1>5. ASSUME NEW e \in Ids PROVE ExportInv(e)'
    <2>1. ExportInv(e)
        BY <1>1 DEF ExportsInv
    <2>2. e \in sweep' => file'[e] = EX!NoFile \/ e \in leaked
        BY <1>2, <2>1 DEF EX!FileOfSwept, ExportInv, NamelessIsLeaked
    <2>3. QED
        BY <1>2, <1>3, <2>1, <2>2
        DEF ExportInv, BuildsUnbuilt, WritesSnapshot, NamelessIsLeaked, SweptIsGone, ReadyTells,
            FileHasRow, EX!Exists, EX!Writing
<1>6. QED
    BY <1>4, <1>5 DEF ExportsInv

LEMMA ExSweepCommits == ExportsInv /\ EX!SweepCommits => ExportsInv'
<1>1. SUFFICES ASSUME ExportsInv, EX!SweepCommits PROVE ExportsInv'
    OBVIOUS
<1>2. /\ UNCHANGED <<store, domain, member, file, job, leaked>> /\ sweep' = {}
      /\ \A e \in Ids : artifact'[e] = IF e \in sweep THEN None ELSE artifact[e]
    BY <1>1 DEF EX!SweepCommits
<1>3. EX!TypeOK'
    BY <1>1, <1>2 DEF ExportsInv, EX!TypeOK, EX!SweepCommits
<1>4. ASSUME NEW e \in Ids PROVE ExportInv(e)'
    <2>1. ExportInv(e)
        BY <1>1 DEF ExportsInv
    <2>2. QED
        BY <1>2, <2>1
        DEF ExportInv, BuildsUnbuilt, WritesSnapshot, NamelessIsLeaked, SweptIsGone, ReadyTells,
            FileHasRow, EX!Exists, EX!Writing
<1>5. QED
    BY <1>3, <1>4 DEF ExportsInv

LEMMA ExDeleteDomain == ExportsInv /\ EX!DeleteDomain => ExportsInv'
<1>1. SUFFICES ASSUME ExportsInv, EX!DeleteDomain PROVE ExportsInv'
    OBVIOUS
<1>2. /\ UNCHANGED <<file, job, sweep>> /\ leaked \subseteq leaked'
      /\ \A d \in Files : store'[d] = "gone"
      /\ \A e \in Ids : artifact'[e] = artifact[e] \/ artifact'[e] = None
      /\ \A e \in Ids : EX!Exists(e) /\ artifact'[e] = None /\ file[e] # EX!NoFile => e \in leaked'
    BY <1>1 DEF EX!DeleteDomain, EX!Exists
<1>3. EX!TypeOK'
    BY <1>1, <1>2 DEF ExportsInv, EX!TypeOK, EX!DeleteDomain
<1>4. ASSUME NEW e \in Ids PROVE ExportInv(e)'
    <2>1. ExportInv(e)
        BY <1>1 DEF ExportsInv
    <2>2. file[e].listed \subseteq Files
        BY <1>1 DEF ExportsInv, EX!TypeOK
    <2>3. QED
        BY <1>2, <2>1, <2>2
        DEF ExportInv, BuildsUnbuilt, WritesSnapshot, NamelessIsLeaked, SweptIsGone, ReadyTells,
            FileHasRow, EX!Exists, EX!Writing
<1>5. QED
    BY <1>3, <1>4 DEF ExportsInv

\* What is left does not touch rows, files or builds.
LEMMA ExOthers ==
    ASSUME ExportsInv,
           EX!SweepDies \/ EX!Documents \/ EX!Membership \/ UNCHANGED exvars
    PROVE  ExportsInv'
<1>1. UNCHANGED <<artifact, file, job, leaked>> /\ (sweep' = sweep \/ sweep' = {})
    BY DEF EX!SweepDies, EX!Documents, EX!Membership, exvars
<1>2. EX!TypeOK'
    <2>1. CASE EX!Documents
        BY <2>1
        DEF ExportsInv, EX!TypeOK, EX!Documents, EX!Trash, EX!Restore, EX!Purge
    <2>2. CASE EX!SweepDies \/ EX!Membership \/ UNCHANGED exvars
        BY <2>2 DEF ExportsInv, EX!TypeOK, EX!SweepDies, EX!Membership, exvars
    <2>3. QED
        BY <2>1, <2>2
<1>3. \A d \in Files : store[d] = "gone" => store'[d] = "gone"
    BY DEF ExportsInv, EX!TypeOK, EX!SweepDies, EX!Documents, EX!Membership, exvars,
           EX!Trash, EX!Restore, EX!Purge
<1>4. ASSUME NEW e \in Ids PROVE ExportInv(e)'
    <2>1. ExportInv(e) /\ file[e].listed \subseteq Files
        BY DEF ExportsInv, EX!TypeOK
    <2>2. QED
        BY <1>1, <1>3, <2>1
        DEF ExportInv, BuildsUnbuilt, WritesSnapshot, NamelessIsLeaked, SweptIsGone, ReadyTells,
            FileHasRow, EX!Exists, EX!Writing
<1>5. QED
    BY <1>2, <1>4 DEF ExportsInv

LEMMA ExNext == ExportsInv /\ (EX!Next \/ UNCHANGED exvars) => ExportsInv'
BY ExAsks, ExLoads, ExBuildEnds, ExBuildStops, ExExpire, ExSweepUnlinks, ExSweepCommits,
   ExDeleteDomain, ExOthers
DEF EX!Next

-----------------------------------------------------------------------------
(* The filters of a set: the inductive invariant. *)

\* A request that adds a filter without having been overtaken knows the set as
\* it is: its filter is new, and comes after all the others.
KnowsTheFilters ==
    \A r \in Requests : edits[r].op = "filter" /\ r \notin overlapped =>
        \A x \in filters : x.hash # edits[r].row.hash /\ x.position < edits[r].row.position

\* Without a set there are no filters, and nothing is added to it.
NothingWithoutSet ==
    ~set => filters = {} /\ \A r \in Requests : edits[r].op # "filter"

\* The filters are finitely many and have their places, the ones under way too.
Numbered ==
    /\ IsFiniteSet(filters) /\ \A x \in filters : x.position \in Nat
    /\ edits = [r \in Requests |-> edits[r]]
    /\ \A r \in Requests : edits[r].op = "filter" => edits[r].row.position \in Nat

FiltersInv ==
    Numbered /\ NothingWithoutSet /\ KnowsTheFilters /\ DS!FiltersDistinctUnlessRaced

\* A finite set of numbers has a last one: the elements above one of them are a
\* finite set, and one of those is least by inclusion.
LEMMA Greatest ==
    ASSUME NEW Q \in SUBSET Nat, IsFiniteSet(Q), Q # {}
    PROVE  \E d \in Q : \A e \in Q : e <= d
<1> DEFINE Above(d) == {e \in Q : e > d}
           T == {Above(d) : d \in Q}
<1>1. ASSUME NEW d \in Q
      PROVE  Above(d) \in FiniteSubsetsOf(Nat)
    <2>1. Above(d) \subseteq Q /\ Above(d) \subseteq Nat
        OBVIOUS
    <2>2. IsFiniteSet(Above(d))
        BY <2>1, FS_Subset
    <2>3. QED
        BY <2>1, <2>2 DEF FiniteSubsetsOf
<1>2. T \subseteq FiniteSubsetsOf(Nat) /\ T # {}
    BY <1>1
<1>3. PICK x \in T : \A y \in T : ~ (<<y, x>> \in StrictSubsetOrdering(Nat))
    <2>1. IsWellFoundedOn(StrictSubsetOrdering(Nat), FiniteSubsetsOf(Nat))
        BY FS_StrictSubsetOrderingWellFounded
    <2> HIDE DEF T
    <2>2. QED
        BY <1>2, <2>1, WFMin
<1>4. PICK d \in Q : x = Above(d)
    BY <1>3
<1>5. ASSUME NEW e \in Q, e > d
      PROVE  FALSE
    <2>1. e \in Nat /\ d \in Nat /\ e > d
        BY <1>5
    <2>2. e \in Above(d) /\ e \notin Above(e)
        BY <2>1
    <2>3. ASSUME NEW c \in Above(e)
          PROVE  c \in Above(d)
        <3>1. c \in Q /\ c \in Nat /\ c > e
            OBVIOUS
        <3>2. QED
            BY <2>1, <3>1
    <2>4. Above(e) \subseteq Above(d)
        BY <2>3
    <2>5. <<Above(e), Above(d)>> \in StrictSubsetOrdering(Nat)
        BY <2>2, <2>4 DEF StrictSubsetOrdering
    <2>6. QED
        BY <1>3, <1>4, <2>5
<1>6. QED
    BY <1>5

\* The next position is after all that are taken.
LEMMA NextIsAfter ==
    ASSUME NEW Q \in SUBSET Nat, IsFiniteSet(Q)
    PROVE  DS!NextPosition(Q) \in Nat /\ \A p \in Q : p < DS!NextPosition(Q)
<1>1. CASE Q = {}
    BY <1>1 DEF DS!NextPosition
<1>2. CASE Q # {}
    <2>1. PICK d \in Q : \A e \in Q : e <= d
        BY <1>2, Greatest
    <2>2. d + 1 \in {p + 1 : p \in Q} /\ \A p \in Q : d + 1 > p
        BY <2>1
    <2>3. \E n \in {p + 1 : p \in Q} : \A p \in Q : n > p
        BY <2>2
    <2>4. /\ DS!NextPosition(Q) \in {p + 1 : p \in Q}
          /\ \A p \in Q : DS!NextPosition(Q) > p
        BY <1>2, <2>3 DEF DS!NextPosition
    <2>5. QED
        BY <2>4
<1>3. QED
    BY <1>1, <1>2

-----------------------------------------------------------------------------
(* The filters of a set: every step keeps the invariant. *)

LEMMA DsInit == DS!Init => FiltersInv
BY FS_EmptySet
DEF DS!Init, FiltersInv, Numbered, NothingWithoutSet, KnowsTheFilters,
    DS!FiltersDistinctUnlessRaced, DS!Idle

LEMMA DsAddFilter ==
    ASSUME FiltersInv, NEW r \in Requests, NEW f, NEW form, DS!AddFilter(r, f, form)
    PROVE  FiltersInv'
<1> DEFINE taken == {x.position : x \in filters}
           row == DS!FilterRow(DS!NextPosition(taken), f, form)
<1>1. taken \in SUBSET Nat /\ IsFiniteSet(taken)
    <2> DEFINE places == [x \in filters |-> x.position]
    <2>1. places \in Surjection(filters, taken)
        BY DEF Surjection
    <2>2. IsFiniteSet(taken)
        BY <2>1, FS_Surjection DEF FiltersInv, Numbered
    <2>3. QED
        BY <2>2 DEF FiltersInv, Numbered
<1>2. DS!NextPosition(taken) \in Nat /\ \A x \in filters : x.position < DS!NextPosition(taken)
    BY <1>1, NextIsAfter
<1>3. /\ row.position = DS!NextPosition(taken) /\ row.hash = DS!CanonicalHash(f)
      /\ \A x \in filters : x.hash # row.hash
    BY DEF DS!FilterRow, DS!AddFilter, DS!Duplicate
<1>4. /\ set /\ UNCHANGED <<filters, set>> /\ overlapped' \subseteq overlapped
      /\ edits' = [edits EXCEPT ![r] = [op |-> "filter", row |-> row]]
      /\ \A x \in Requests \ {r} : x \in overlapped => x \in overlapped'
    BY DEF DS!AddFilter
<1> HIDE DEF taken, row
<1>5. /\ edits'[r].op = "filter" /\ edits'[r].row = row
      /\ \A x \in Requests \ {r} : edits'[x] = edits[x]
      /\ edits' = [x \in Requests |-> edits'[x]]
    BY <1>4 DEF FiltersInv, Numbered
<1>6. Numbered'
    BY <1>2, <1>3, <1>4, <1>5 DEF FiltersInv, Numbered
<1>7. KnowsTheFilters'
    BY <1>2, <1>3, <1>4, <1>5 DEF FiltersInv, KnowsTheFilters
<1>8. QED
    BY <1>4, <1>6, <1>7 DEF FiltersInv, NothingWithoutSet, DS!FiltersDistinctUnlessRaced

LEMMA DsCommitFilter ==
    ASSUME FiltersInv, NEW r \in Requests, DS!CommitFilter(r)
    PROVE  FiltersInv'
<1> DEFINE new == DS!Inserted(edits[r].row, r \in overlapped)
<1>1. /\ new.position = edits[r].row.position /\ new.hash = edits[r].row.hash
      /\ new.raced = (r \in overlapped)
    BY DEF DS!Inserted
<1>2. /\ filters' = filters \cup {new} /\ UNCHANGED set
      /\ edits[r].op = "filter" /\ edits' = [edits EXCEPT ![r] = DS!Idle]
      /\ \A x \in Requests : edits[x].op = "filter" => x \in overlapped'
    BY DEF DS!CommitFilter, DS!Touch
<1> HIDE DEF new
<1>3. /\ edits'[r].op = "none" /\ \A x \in Requests \ {r} : edits'[x] = edits[x]
      /\ edits' = [x \in Requests |-> edits'[x]]
    BY <1>2 DEF FiltersInv, Numbered, DS!Idle
<1>4. set /\ new.position \in Nat
    BY <1>1, <1>2 DEF FiltersInv, Numbered, NothingWithoutSet
<1>5. IsFiniteSet(filters')
    BY <1>2, FS_AddElement DEF FiltersInv, Numbered
<1>6. Numbered' /\ NothingWithoutSet' /\ KnowsTheFilters'
    BY <1>2, <1>3, <1>4, <1>5 DEF FiltersInv, Numbered, NothingWithoutSet, KnowsTheFilters
<1>7. ASSUME NEW x \in filters, r \notin overlapped
      PROVE  x.hash # new.hash /\ x.position # new.position
    <2>1. x.hash # new.hash /\ x.position < new.position
        BY <1>1, <1>2, <1>7 DEF FiltersInv, KnowsTheFilters
    <2>2. x.position \in Nat
        BY DEF FiltersInv, Numbered
    <2>3. QED
        BY <1>4, <2>1, <2>2
<1>8. DS!FiltersDistinctUnlessRaced'
    BY <1>1, <1>2, <1>7 DEF FiltersInv, DS!FiltersDistinctUnlessRaced
<1>9. QED
    BY <1>6, <1>8 DEF FiltersInv

LEMMA DsNewSetOfFilter ==
    ASSUME FiltersInv, NEW p, DS!WebNewSetOfFilter(p)
    PROVE  FiltersInv'
<1> DEFINE new == DS!Inserted(DS!FilterRow(1, DS!SavedFilter(p, DS!Member), p), FALSE)
<1>1. new.position = 1
    BY DEF DS!Inserted, DS!FilterRow
<1>2. filters' = {new} /\ ~set /\ set' /\ UNCHANGED <<edits, overlapped>>
    BY DEF DS!WebNewSetOfFilter
<1> HIDE DEF new
<1>3. IsFiniteSet(filters')
    BY <1>2, FS_Singleton
<1>4. QED
    BY <1>1, <1>2, <1>3
    DEF FiltersInv, Numbered, NothingWithoutSet, KnowsTheFilters, DS!FiltersDistinctUnlessRaced

\* A step that adds no filter and starts no request that does.
LEMMA DsFewer ==
    ASSUME FiltersInv, filters' \subseteq filters, set' => set \/ filters' = {},
           ~set' => filters' = {} /\ \A r \in Requests : edits'[r].op # "filter",
           edits' = [r \in Requests |-> edits'[r]],
           \A r \in Requests : edits'[r].op = "filter" =>
               edits'[r] = edits[r] /\ (r \in overlapped => r \in overlapped')
    PROVE  FiltersInv'
<1>1. IsFiniteSet(filters')
    BY FS_Subset DEF FiltersInv, Numbered
<1>2. Numbered'
    BY <1>1 DEF FiltersInv, Numbered
<1>3. KnowsTheFilters'
    BY DEF FiltersInv, KnowsTheFilters
<1>4. QED
    BY <1>2, <1>3 DEF FiltersInv, NothingWithoutSet, DS!FiltersDistinctUnlessRaced

LEMMA DsRequests ==
    ASSUME FiltersInv, NEW r \in Requests,
           \/ \E D \in Selections : DS!AddItems(r, D)
           \/ DS!CommitItems(r) \/ DS!RollBack(r) \/ DS!BotAddToSet(r)
    PROVE  FiltersInv'
<1>1. /\ UNCHANGED <<filters, set>>
      /\ \A x \in Requests \ {r} : x \in overlapped => x \in overlapped'
      /\ \E q : q.op \in {"none", "items"} /\ edits' = [edits EXCEPT ![r] = q]
    BY DEF DS!AddItems, DS!CommitItems, DS!RollBack, DS!BotAddToSet, DS!Touch, DS!Idle
<1>2. /\ edits'[r].op # "filter" /\ \A x \in Requests \ {r} : edits'[x] = edits[x]
      /\ edits' = [x \in Requests |-> edits'[x]]
    BY <1>1 DEF FiltersInv, Numbered
<1>3. \A x \in Requests : edits'[x].op = "filter" =>
          edits'[x] = edits[x] /\ (x \in overlapped => x \in overlapped')
    BY <1>1, <1>2
<1>4. ~set' => filters' = {} /\ \A x \in Requests : edits'[x].op # "filter"
    BY <1>1, <1>2 DEF FiltersInv, NothingWithoutSet
<1>5. set' => set \/ filters' = {}
    BY <1>1
<1>6. filters' \subseteq filters
    BY <1>1
<1>7. QED
    BY <1>2, <1>3, <1>4, <1>5, <1>6, DsFewer

LEMMA DsSets ==
    ASSUME FiltersInv,
           \/ \E row \in filters : DS!RemoveFilter(row)
           \/ \E D \in Selections \cup {{}} : DS!CreateSet(D)
           \/ DS!DeleteSet \/ DS!BotNewSet
           \/ \E i : DS!RemoveItem(i) \/ DS!BotChooseSet(i) \/ DS!Purge(i)
           \/ \E i, col : DS!Toggle(i, col)
           \/ \E m : DS!RemoveMember(m) \/ \E to : DS!SetRole(m, to)
           \/ UNCHANGED dsvars
    PROVE  FiltersInv'
<1>1. filters' \subseteq filters /\ overlapped' = overlapped
    BY DEF FiltersInv, NothingWithoutSet, DS!RemoveFilter, DS!CreateSet, DS!DeleteSet,
           DS!BotNewSet, DS!RemoveItem, DS!BotChooseSet, DS!Purge, DS!Toggle, DS!SetRole,
           DS!RemoveMember, dsvars
<1>2. /\ set' => set \/ filters' = {}
      /\ ~set' => filters' = {}
    <2>1. CASE \E row \in filters : DS!RemoveFilter(row)
        BY <2>1 DEF FiltersInv, NothingWithoutSet, DS!RemoveFilter
    <2>2. CASE DS!DeleteSet
        BY <2>2 DEF DS!DeleteSet
    <2>3. CASE ~set
        BY <1>1, <2>3 DEF FiltersInv, NothingWithoutSet
    <2>4. CASE set /\ UNCHANGED set
        BY <2>4
    <2>5. QED
        BY <2>1, <2>2, <2>3, <2>4
        DEF DS!CreateSet, DS!BotNewSet, DS!RemoveItem, DS!BotChooseSet, DS!Purge, DS!Toggle,
            DS!SetRole, DS!RemoveMember, dsvars
<1>3. \/ set /\ ~set' /\ DS!DeleteSet
      \/ (~set \/ set') /\ edits' = edits
    BY DEF DS!RemoveFilter, DS!CreateSet, DS!DeleteSet, DS!BotNewSet, DS!RemoveItem,
           DS!BotChooseSet, DS!Purge, DS!Toggle, DS!SetRole, DS!RemoveMember, dsvars
<1>4. ~set' => \A r \in Requests : edits'[r].op # "filter"
    <2>1. CASE set /\ ~set'
        BY <1>3, <2>1 DEF DS!DeleteSet, DS!Idle
    <2>2. CASE ~set /\ ~set'
        BY <1>3, <2>2 DEF FiltersInv, NothingWithoutSet
    <2>3. QED
        BY <2>1, <2>2
<1>5. edits' = [r \in Requests |-> edits'[r]]
    BY <1>3 DEF FiltersInv, Numbered, DS!DeleteSet
<1>6. \A r \in Requests : edits'[r].op = "filter" =>
          edits'[r] = edits[r] /\ (r \in overlapped => r \in overlapped')
    BY <1>1, <1>3, <1>4
<1>7. QED
    BY <1>1, <1>2, <1>4, <1>5, <1>6, DsFewer

LEMMA DsNext == FiltersInv /\ (DS!Next \/ UNCHANGED dsvars) => FiltersInv'
<1>1. SUFFICES ASSUME FiltersInv, DS!Next \/ UNCHANGED dsvars PROVE FiltersInv'
    OBVIOUS
<1>2. ASSUME NEW r \in Requests,
             \/ \E p \in Forms : DS!WebSaveFilter(r, p)
             \/ \E d \in Posted : DS!ApiAddFilter(r, d)
      PROVE  FiltersInv'
    BY <1>1, <1>2, DsAddFilter DEF DS!WebSaveFilter, DS!ApiAddFilter
<1>3. QED
    BY <1>1, <1>2, DsCommitFilter, DsNewSetOfFilter, DsRequests, DsSets DEF DS!Next

-----------------------------------------------------------------------------
(* A saved search: what becomes of the fields of a filter.                   *)

\* The fields a search narrows by.
Narrowing ==
    {"only_trash", "include_trash", "status", "types", "ext", "mime", "size_min", "size_max",
     "doc_date", "uploaded", "indexed", "ocr", "uploaded_by", "has_index", "has_ocr",
     "text_source", "tags_all", "tags_any", "tags_none", "q"}

\* Two filters that agree on those find the same.
LEMMA AlikeFindTheSame ==
    ASSUME NEW f, NEW g, \A k \in Narrowing : f[k] = g[k], NEW rows, NEW scope
    PROVE  DS!Selected(rows, scope, f) = DS!Selected(rows, scope, g)
<1>1. \A d : DS!Selects(f, d) = DS!Selects(g, d)
    BY DEF Narrowing, DS!Selects
<1>2. QED
    BY <1>1 DEF DS!Selected

FormFields == {"q", "tags_all", "tags_none", "types", "status", "has_ocr", "has_index"}

\* The form narrows by seven fields, and leaves the others at what selects all.
LEMMA FormFilter ==
    ASSUME NEW p
    PROVE  LET f == DS!FiltersFromParams(p)
               tags == DS!TagTokens(p.tags)
           IN  /\ DOMAIN f = DOMAIN DS!SearchFilters
               /\ f.q = p.q /\ f.tags_all = tags.all /\ f.tags_none = tags.none
               /\ f.types = DS!TypeList(p.types) /\ f.status = DS!StatusOf(p.status)
               /\ f.has_ocr = DS!WebTri(p.has_ocr) /\ f.has_index = DS!WebTri(p.has_index)
               /\ \A k \in DOMAIN DS!SearchFilters \ FormFields : f[k] = DS!SearchFilters[k]
BY DEF DS!FiltersFromParams, DS!SearchFilters, FormFields

\* Saved and read back, a field that counts as not set is the default again.
LEMMA ReadBack ==
    ASSUME NEW f, DOMAIN f = DOMAIN DS!SearchFilters, NEW k \in DOMAIN DS!SearchFilters
    PROVE  DS!FromDict(DS!ToDict(f))[k] =
               IF k \in {"only_trash", "page", "page_size"} \/ DS!Unset(k, f[k])
               THEN DS!SearchFilters[k] ELSE f[k]
BY DEF DS!FromDict, DS!ToDict

LEMMA SavedAndRead ==
    ASSUME NEW p, NEW M
    PROVE  LET f == DS!FiltersFromParams(p)
               g == DS!FromDict(DS!ToDict(DS!SavedFilter(p, M)))
           IN  /\ \A k \in Narrowing \ {"has_ocr", "has_index"} : g[k] = f[k]
               /\ g.has_ocr = IF f.has_ocr = TRUE THEN TRUE ELSE None
               /\ g.has_index = IF f.has_index = TRUE THEN TRUE ELSE None
               /\ g.domain_ids = DS!Picked(p, M)
<1> DEFINE f == DS!FiltersFromParams(p)
           s == DS!SavedFilter(p, M)
           g == DS!FromDict(DS!ToDict(s))
<1>1. /\ DOMAIN s = DOMAIN DS!SearchFilters /\ s.domain_ids = DS!Picked(p, M)
      /\ \A k \in DOMAIN DS!SearchFilters \ {"domain_ids"} : s[k] = f[k]
    <2>1. s = [f EXCEPT !.domain_ids = DS!Picked(p, M)]
        BY DEF DS!SavedFilter
    <2>2. "domain_ids" \in DOMAIN DS!SearchFilters
        BY DEF DS!SearchFilters
    <2>3. QED
        BY <2>1, <2>2, FormFilter
<1> HIDE DEF s, f
<1>2. \A k \in DOMAIN DS!SearchFilters \ FormFields : f[k] = DS!SearchFilters[k]
    BY FormFilter DEF f
<1>3. \A k \in DOMAIN DS!SearchFilters :
          g[k] = IF k \in {"only_trash", "page", "page_size"} \/ DS!Unset(k, s[k])
                 THEN DS!SearchFilters[k] ELSE s[k]
    BY <1>1, ReadBack
<1> HIDE DEF g
<1>4. Narrowing \subseteq DOMAIN DS!SearchFilters \ {"domain_ids"}
    BY DEF Narrowing, DS!SearchFilters
<1>5. ASSUME NEW k \in Narrowing \ {"has_ocr", "has_index"} PROVE g[k] = f[k]
    <2>1. CASE k \notin FormFields
        BY <1>1, <1>2, <1>3, <1>4, <2>1
    <2>2. CASE k \in {"q", "status"}
        <3>1. \A v : DS!Unset(k, v) => v = None
            BY <2>2 DEF DS!Unset, DS!Numbers, DS!Flags, DS!Lists, DS!Dates
        <3>2. DS!SearchFilters[k] = None /\ k \notin {"only_trash", "page", "page_size"}
            BY <2>2 DEF DS!SearchFilters
        <3>3. QED
            BY <1>1, <1>3, <1>4, <3>1, <3>2
    <2>3. CASE k \in {"tags_all", "tags_none", "types"}
        <3>1. \A v : DS!Unset(k, v) => v = {}
            BY <2>3 DEF DS!Unset, DS!Numbers, DS!Flags, DS!Lists, DS!Dates
        <3>2. DS!SearchFilters[k] = {} /\ k \notin {"only_trash", "page", "page_size"}
            BY <2>3 DEF DS!SearchFilters
        <3>3. QED
            BY <1>1, <1>3, <1>4, <3>1, <3>2
    <2>4. QED
        BY <1>5, <2>1, <2>2, <2>3 DEF FormFields
<1>6. ASSUME NEW k \in {"has_ocr", "has_index"}
      PROVE  g[k] = IF f[k] = TRUE THEN TRUE ELSE None
    <2>1. \A v : DS!Unset(k, v) <=> v # TRUE
        BY DEF DS!Unset, DS!Numbers, DS!Flags, DS!Lists, DS!Dates
    <2>2. DS!SearchFilters[k] = None /\ k \in DOMAIN DS!SearchFilters \ {"domain_ids"}
          /\ k \notin {"only_trash", "page", "page_size"}
        BY DEF DS!SearchFilters
    <2>3. QED
        BY <1>1, <1>3, <2>1, <2>2
<1>7. g.domain_ids = DS!Picked(p, M)
    <2>1. \A v : DS!Unset("domain_ids", v) <=> v = {}
        BY DEF DS!Unset, DS!Numbers, DS!Flags, DS!Lists, DS!Dates
    <2>2. DS!SearchFilters.domain_ids = {} /\ "domain_ids" \in DOMAIN DS!SearchFilters
        BY DEF DS!SearchFilters
    <2>3. QED
        BY <1>1, <1>3, <2>1, <2>2
<1>8. QED
    BY <1>5, <1>6, <1>7 DEF f, g, s

\* A finite set, listed, is the set of what is on the list.
LEMMA Listed ==
    ASSUME NEW S, IsFiniteSet(S)
    PROVE  DS!ToSet(DS!SetToSeq(S)) = S /\ DOMAIN DS!SetToSeq(S) \subseteq Nat \ {0}
<1>1. PICK n \in Nat : n = DS!Cardinality(S) /\ n = Cardinality(S)
    BY FS_CardinalityType DEF DS!Cardinality, Cardinality
<1>2. PICK b : b \in Bijection(1..n, S)
    BY <1>1, FS_CardinalityType DEF ExistsBijection
<1>3. b \in [1..n -> S] /\ DS!IsInjective(b)
    BY <1>2 DEF Bijection, Injection, IsInjective, DS!IsInjective
<1> DEFINE list == DS!SetToSeq(S)
<1>4. list \in [1..n -> S] /\ DS!IsInjective(list)
    BY <1>1, <1>3 DEF DS!SetToSeq
<1>5. list \in Injection(1..n, S)
    BY <1>4 DEF Injection, IsInjective, DS!IsInjective
<1>6. Cardinality(1..n) = n
    BY FS_Interval
<1>7. list \in Surjection(1..n, S)
    BY <1>1, <1>5, <1>6, FS_Injection
<1>8. QED
    BY <1>4, <1>7 DEF Surjection, DS!ToSet

\* Scopes: the domain picked, or all.
LEMMA PickedOne ==
    ASSUME NEW p, NEW M
    PROVE  DS!Picked(p, M) = IF p.domain_id \in M THEN {p.domain_id} ELSE {}
BY DEF DS!Picked

\* The page on the plain tab narrows by the form alone.
LEMMA PlainTab ==
    ASSUME NEW p, p.preset = "active", NEW k \in Narrowing
    PROVE  DS!PageFilter(p)[k] = DS!FiltersFromParams(p)[k]
<1> DEFINE f == DS!FiltersFromParams(p)
<1>1. DS!PageFilter(p) =
        [f EXCEPT !.sort = IF p.sort \in {"uploaded_at", "doc_date", "title", "size"}
                           THEN p.sort ELSE "uploaded_at",
                  !.sort_dir = IF p.dir = "asc" THEN "asc" ELSE "desc"]
    BY DEF DS!PageFilter
<1>2. k \notin {"sort", "sort_dir"} /\ k \in DOMAIN f
    <2>1. Narrowing \subseteq DOMAIN DS!SearchFilters
        BY DEF Narrowing, DS!SearchFilters
    <2>2. DOMAIN f = DOMAIN DS!SearchFilters
        BY FormFilter
    <2>3. QED
        BY <2>1, <2>2 DEF Narrowing
<1> HIDE DEF f
<1>3. QED
    BY <1>1, <1>2 DEF f

\* The link back, read as a form, narrows as the saved filter does; its domain
\* is picked by who is a member of it, be it then (M) or now (N).
LEMMA LinkBack ==
    ASSUME NEW p, NEW M, NEW N, None \notin N, IsFiniteSet(DS!TypeList(p.types))
    PROVE  LET d == DS!ToDict(DS!SavedFilter(p, M))
               g == DS!FromDict(d)
               back == DS!FilterLink(d)
           IN  /\ \A k \in Narrowing : DS!FiltersFromParams(back)[k] = g[k]
               /\ g.domain_ids \subseteq N => DS!Picked(back, N) = g.domain_ids
               /\ back.preset = "active"
<1> DEFINE d == DS!ToDict(DS!SavedFilter(p, M))
           g == DS!FromDict(d)
           back == DS!FilterLink(d)
           f == DS!FiltersFromParams(p)
           h == DS!FiltersFromParams(back)
           types == DS!SetToSeq(g.types)
           Told(flag) == IF flag = TRUE THEN "yes" ELSE ""
<1>1. /\ \A k \in Narrowing \ {"has_ocr", "has_index"} : g[k] = f[k]
      /\ g.has_ocr = IF f.has_ocr = TRUE THEN TRUE ELSE None
      /\ g.has_index = IF f.has_index = TRUE THEN TRUE ELSE None
      /\ g.domain_ids = DS!Picked(p, M)
    BY SavedAndRead
<1>2. /\ g.q = p.q
      /\ g.tags_all = DS!TagTokens(p.tags).all /\ g.tags_none = DS!TagTokens(p.tags).none
      /\ g.types = DS!TypeList(p.types) /\ g.status = DS!StatusOf(p.status) /\ g.ext = None
      /\ \A k \in Narrowing \ FormFields : g[k] = DS!SearchFilters[k]
    <2>1. /\ {"q", "tags_all", "tags_none", "types", "status", "ext"} \subseteq
                 Narrowing \ {"has_ocr", "has_index"}
          /\ Narrowing \ FormFields \subseteq Narrowing \ {"has_ocr", "has_index"}
          /\ Narrowing \ FormFields \subseteq DOMAIN DS!SearchFilters \ FormFields
          /\ "ext" \in DOMAIN DS!SearchFilters \ FormFields /\ DS!SearchFilters.ext = None
        BY DEF Narrowing, FormFields, DS!SearchFilters
    <2> HIDE DEF g
    <2>2. QED
        BY <1>1, <2>1, FormFilter
<1>3. /\ back.q = g.q /\ back.status = g.status
      /\ back.tags = {[name |-> t, dash |-> FALSE] : t \in g.tags_all}
                     \cup {[name |-> t, dash |-> TRUE] : t \in g.tags_none}
      /\ back.types = [n \in DOMAIN types |-> <<types[n]>>]
      /\ back.has_ocr = Told(g.has_ocr) /\ back.has_index = Told(g.has_index)
      /\ back.domain_id = IF DS!Cardinality(g.domain_ids) = 1
                          THEN CHOOSE m \in g.domain_ids : TRUE ELSE None
      /\ back.preset = "active"
    <2>1. g.types \cup ({g.ext} \ {None}) = g.types
        BY <1>2
    <2>2. QED
        BY <2>1 DEF DS!FilterLink
<1> HIDE DEF g, back
<1>4. /\ h.q = back.q /\ h.tags_all = DS!TagTokens(back.tags).all
      /\ h.tags_none = DS!TagTokens(back.tags).none
      /\ h.types = DS!TypeList(back.types) /\ h.status = DS!StatusOf(back.status)
      /\ h.has_ocr = DS!WebTri(back.has_ocr) /\ h.has_index = DS!WebTri(back.has_index)
      /\ \A k \in DOMAIN DS!SearchFilters \ FormFields : h[k] = DS!SearchFilters[k]
    BY FormFilter
<1> HIDE DEF h
<1>5. h.q = g.q /\ h.status = g.status
    BY <1>2, <1>3, <1>4 DEF DS!StatusOf
<1>6. h.tags_all = g.tags_all /\ h.tags_none = g.tags_none
    <2>1. "" \notin g.tags_all /\ "" \notin g.tags_none
        BY <1>2 DEF DS!TagTokens
    <2>2. DS!TagTokens(back.tags).all = g.tags_all
        <3>1. ASSUME NEW x \in DS!TagTokens(back.tags).all PROVE x \in g.tags_all
            <4>1. PICK t \in back.tags : ~t.dash /\ t.name = x
                BY DEF DS!TagTokens
            <4>2. \/ \E y \in g.tags_all : t = [name |-> y, dash |-> FALSE]
                  \/ \E y \in g.tags_none : t = [name |-> y, dash |-> TRUE]
                BY <1>3, <4>1
            <4>3. ~ \E y : t = [name |-> y, dash |-> TRUE]
                BY <4>1
            <4>4. QED
                BY <4>1, <4>2, <4>3
        <3>2. ASSUME NEW x \in g.tags_all PROVE x \in DS!TagTokens(back.tags).all
            <4>1. PICK t : t = [name |-> x, dash |-> FALSE]
                OBVIOUS
            <4>2. t \in back.tags /\ t.name = x /\ ~t.dash /\ t.name # ""
                BY <1>3, <2>1, <4>1
            <4>3. QED
                BY <4>2 DEF DS!TagTokens
        <3>3. QED
            BY <3>1, <3>2
    <2>3. DS!TagTokens(back.tags).none = g.tags_none
        <3>1. ASSUME NEW x \in DS!TagTokens(back.tags).none PROVE x \in g.tags_none
            <4>1. PICK t \in back.tags : t.dash /\ t.name = x
                BY DEF DS!TagTokens
            <4>2. \/ \E y \in g.tags_none : t = [name |-> y, dash |-> TRUE]
                  \/ \E y \in g.tags_all : t = [name |-> y, dash |-> FALSE]
                BY <1>3, <4>1
            <4>3. ~ \E y : t = [name |-> y, dash |-> FALSE]
                BY <4>1
            <4>4. QED
                BY <4>1, <4>2, <4>3
        <3>2. ASSUME NEW x \in g.tags_none PROVE x \in DS!TagTokens(back.tags).none
            <4>1. PICK t : t = [name |-> x, dash |-> TRUE]
                OBVIOUS
            <4>2. t \in back.tags /\ t.name = x /\ t.dash /\ t.name # ""
                BY <1>3, <2>1, <4>1
            <4>3. QED
                BY <4>2 DEF DS!TagTokens
        <3>3. QED
            BY <3>1, <3>2
    <2>4. QED
        BY <1>4, <2>2, <2>3
<1>7. h.types = g.types
    <2>1. DS!ToSet(types) = g.types
        BY <1>2, Listed
    <2>2. "" \notin g.types
        BY <1>2 DEF DS!TypeList
    <2> HIDE DEF types
    <2>3. /\ DOMAIN back.types = DOMAIN types
          /\ \A n \in DOMAIN types : back.types[n] = <<types[n]>>
        BY <1>3
    <2>4. \A t : DS!ToSet(<<t>>) = {t}
        BY DEF DS!ToSet
    <2>5. ASSUME NEW x \in UNION {DS!ToSet(v) : v \in DS!ToSet(back.types)}
          PROVE  x \in DS!ToSet(types)
        <3>1. PICK n \in DOMAIN types : x \in DS!ToSet(back.types[n])
            BY <2>3 DEF DS!ToSet
        <3>2. x = types[n]
            BY <2>3, <2>4, <3>1
        <3>3. QED
            BY <3>2 DEF DS!ToSet
    <2>6. ASSUME NEW x \in DS!ToSet(types)
          PROVE  x \in UNION {DS!ToSet(v) : v \in DS!ToSet(back.types)}
        <3>1. PICK n \in DOMAIN types : x = types[n]
            BY DEF DS!ToSet
        <3>2. back.types[n] \in DS!ToSet(back.types)
            BY <2>3 DEF DS!ToSet
        <3>3. x \in DS!ToSet(back.types[n])
            BY <2>3, <2>4, <3>1
        <3>4. QED
            BY <3>2, <3>3
    <2>7. QED
        BY <1>4, <2>1, <2>2, <2>5, <2>6 DEF DS!TypeList
<1>8. h.has_ocr = g.has_ocr /\ h.has_index = g.has_index
    <2>1. DS!WebTri("yes") = TRUE /\ DS!WebTri("") = None
        BY DEF DS!WebTri, DS!Tri
    <2>2. QED
        BY <1>1, <1>3, <1>4, <2>1
<1>9. \A k \in Narrowing : h[k] = g[k]
    <2>1. Narrowing \ FormFields \subseteq DOMAIN DS!SearchFilters \ FormFields
        BY DEF Narrowing, FormFields, DS!SearchFilters
    <2>2. \A k \in Narrowing \ FormFields : h[k] = g[k]
        BY <1>2, <1>4, <2>1
    <2>3. \A k \in FormFields : h[k] = g[k]
        BY <1>5, <1>6, <1>7, <1>8 DEF FormFields
    <2>4. QED
        BY <2>2, <2>3
<1>10. ASSUME g.domain_ids \subseteq N PROVE DS!Picked(back, N) = g.domain_ids
    <2>1. CASE p.domain_id \in M
        <3>1. g.domain_ids = {p.domain_id}
            BY <1>1, <2>1, PickedOne
        <3>2. DS!Cardinality(g.domain_ids) = 1
            <4>1. Cardinality(g.domain_ids) = 1
                BY <3>1, FS_Singleton
            <4>2. QED
                BY <4>1 DEF DS!Cardinality, Cardinality
        <3>3. back.domain_id = p.domain_id
            BY <1>3, <3>1, <3>2
        <3>4. QED
            BY <1>10, <3>1, <3>3, PickedOne
    <2>2. CASE p.domain_id \notin M
        <3>1. g.domain_ids = {}
            BY <1>1, <2>2, PickedOne
        <3>2. DS!Cardinality(g.domain_ids) = 0
            BY <3>1, FS_EmptySet DEF DS!Cardinality, Cardinality
        <3>3. back.domain_id = None
            <4>1. DS!Cardinality(g.domain_ids) # 1
                BY <3>2
            <4>2. QED
                BY <1>3, <4>1
        <3>4. QED
            BY <3>1, <3>3, PickedOne
    <2>3. QED
        BY <2>1, <2>2
<1>11. QED
    BY <1>3, <1>9, <1>10 DEF g, back, h

\* What the search page finds with form P is what a filter selects that narrows
\* as P does, if they are for the same domain.
LEMMA FindsAsFilter ==
    ASSUME NEW P, NEW g, DS!Picked(P, DS!Member) = g.domain_ids,
           \A k \in Narrowing : DS!PageFilter(P)[k] = g[k]
    PROVE  DS!Finds(P) = DS!Selected(docs, DS!FilterScope(g), g)
<1>1. \A scope : DS!Selected(docs, scope, DS!PageFilter(P)) = DS!Selected(docs, scope, g)
    BY AlikeFindTheSame
<1>2. DS!DownloadDomains \subseteq DS!Member
    BY DEF DS!DownloadDomains, DS!Member
<1>3. DS!Scope(P, DS!Member) \cap DS!DownloadDomains = DS!FilterScope(g)
    BY <1>2 DEF DS!Scope, DS!FilterScope
<1>4. DS!Finds(P) = {i \in DS!Selected(docs, DS!Scope(P, DS!Member), g) :
                        docs[i].domain \in DS!DownloadDomains}
    BY <1>1 DEF DS!Finds
<1>5. QED
    BY <1>3, <1>4 DEF DS!Selected

\* A row saved from a form holds what the form narrows by, in the domain picked
\* in it if its owner was a member then.
SavedAs(f, form) ==
    form \in Forms /\ \E M \in SUBSET Domains : f = DS!ToDict(DS!SavedFilter(form, M))
SavedFrom(x) == x.form # None => SavedAs(x.filter, x.form)

SavedFiltersInv ==
    /\ DOMAIN role \subseteq Domains
    /\ \A x \in filters : SavedFrom(x)
    /\ \A r \in Requests : edits[r].op = "filter" => SavedFrom(edits[r].row)

LEMMA SavedInit == DS!Init => SavedFiltersInv
BY DEF DS!Init, SavedFiltersInv, DS!Idle

LEMMA SavedNext == Numbered /\ SavedFiltersInv /\ (DS!Next \/ UNCHANGED dsvars) => SavedFiltersInv'
<1>1. SUFFICES ASSUME Numbered, SavedFiltersInv, DS!Next \/ UNCHANGED dsvars
               PROVE  SavedFiltersInv'
    OBVIOUS
<1>2. DOMAIN role' \subseteq Domains
    BY <1>1, SharingAssumption
    DEF DS!DocSetsAssumption, SavedFiltersInv, DS!Next, DS!WebSaveFilter, DS!ApiAddFilter,
        DS!AddFilter, DS!AddItems, DS!CommitFilter, DS!CommitItems, DS!RollBack, DS!BotAddToSet, DS!WebNewSetOfFilter,
        DS!RemoveFilter, DS!CreateSet, DS!DeleteSet, DS!BotNewSet, DS!RemoveItem,
        DS!BotChooseSet, DS!Purge, DS!Toggle, DS!SetRole, DS!RemoveMember, dsvars
<1>3. ASSUME NEW r \in Requests, NEW f, NEW form, DS!AddFilter(r, f, form),
             form # None => SavedAs(DS!ToDict(f), form)
      PROVE  SavedFiltersInv'
    <2> DEFINE row == DS!FilterRow(DS!NextPosition({x.position : x \in filters}), f, form)
    <2>1. SavedFrom(row)
        BY <1>3 DEF SavedFrom, DS!FilterRow
    <2>2. edits' = [edits EXCEPT ![r] = [op |-> "filter", row |-> row]] /\ filters' = filters
        BY <1>3 DEF DS!AddFilter
    <2> HIDE DEF row
    <2>3. edits'[r].row = row /\ \A x \in Requests \ {r} : edits'[x] = edits[x]
        BY <1>1, <2>2 DEF Numbered
    <2>4. QED
        BY <1>1, <1>2, <2>1, <2>2, <2>3 DEF SavedFiltersInv, SavedFrom
<1>4. ASSUME NEW r \in Requests, DS!CommitFilter(r) PROVE SavedFiltersInv'
    <2> DEFINE new == DS!Inserted(edits[r].row, r \in overlapped)
    <2>1. SavedFrom(edits[r].row)
        BY <1>1, <1>4 DEF SavedFiltersInv, DS!CommitFilter
    <2>2. SavedFrom(new)
        BY <2>1 DEF SavedFrom, DS!Inserted
    <2>3. filters' = filters \cup {new} /\ edits' = [edits EXCEPT ![r] = DS!Idle]
        BY <1>4 DEF DS!CommitFilter
    <2> HIDE DEF new
    <2>4. edits'[r].op = "none" /\ \A x \in Requests \ {r} : edits'[x] = edits[x]
        BY <1>1, <2>3 DEF Numbered, DS!Idle
    <2>5. QED
        BY <1>1, <1>2, <2>2, <2>3, <2>4 DEF SavedFiltersInv, SavedFrom
<1>5. ASSUME NEW p \in Forms, DS!WebNewSetOfFilter(p) PROVE SavedFiltersInv'
    <2> DEFINE new == DS!Inserted(DS!FilterRow(1, DS!SavedFilter(p, DS!Member), p), FALSE)
    <2>1. SavedFrom(new)
        BY <1>1, <1>5
        DEF SavedFrom, SavedAs, DS!Inserted, DS!FilterRow, DS!Member, SavedFiltersInv
    <2>2. filters' = {new} /\ edits' = edits
        BY <1>5 DEF DS!WebNewSetOfFilter
    <2> HIDE DEF new
    <2>3. QED
        BY <1>1, <1>2, <2>1, <2>2 DEF SavedFiltersInv, SavedFrom
<1>6. ASSUME filters' \subseteq filters,
             \A r \in Requests : edits'[r].op = "filter" => edits'[r] = edits[r]
      PROVE  SavedFiltersInv'
    BY <1>1, <1>2, <1>6 DEF SavedFiltersInv, SavedFrom
<1>7. ASSUME NEW r \in Requests,
             \/ \E D \in Selections : DS!AddItems(r, D)
             \/ DS!CommitItems(r) \/ DS!RollBack(r) \/ DS!BotAddToSet(r)
      PROVE  SavedFiltersInv'
    <2>1. /\ filters' = filters
          /\ \E q : q.op \in {"none", "items"} /\ edits' = [edits EXCEPT ![r] = q]
        BY <1>7 DEF DS!AddItems, DS!CommitItems, DS!RollBack, DS!BotAddToSet, DS!Idle
    <2>2. edits'[r].op # "filter" /\ \A x \in Requests \ {r} : edits'[x] = edits[x]
        BY <1>1, <2>1 DEF Numbered
    <2>3. QED
        BY <1>6, <2>1, <2>2
<1>8. CASE \/ \E row \in filters : DS!RemoveFilter(row)
           \/ \E D \in Selections \cup {{}} : DS!CreateSet(D)
           \/ DS!DeleteSet \/ DS!BotNewSet
           \/ \E i : DS!RemoveItem(i) \/ DS!BotChooseSet(i) \/ DS!Purge(i)
           \/ \E i, col : DS!Toggle(i, col)
           \/ \E m : DS!RemoveMember(m) \/ \E to : DS!SetRole(m, to)
           \/ UNCHANGED dsvars
    <2>1. CASE DS!DeleteSet
        BY <1>6, <2>1 DEF DS!DeleteSet, DS!Idle
    <2>2. CASE ~DS!DeleteSet
        <3>1. filters' \subseteq filters /\ edits' = edits
            BY <1>8, <2>2 DEF DS!RemoveFilter, DS!CreateSet, DS!BotNewSet, DS!RemoveItem,
                DS!BotChooseSet, DS!Purge, DS!Toggle, DS!SetRole, DS!RemoveMember, dsvars
        <3>2. QED
            BY <1>6, <3>1
    <2>3. QED
        BY <2>1, <2>2
<1>9. ASSUME NEW r \in Requests,
             \/ \E p \in Forms : DS!WebSaveFilter(r, p)
             \/ \E d \in Posted : DS!ApiAddFilter(r, d)
      PROVE  SavedFiltersInv'
    <2>1. DS!Member \in SUBSET Domains
        BY <1>1 DEF SavedFiltersInv, DS!Member
    <2>2. \A p \in Forms : SavedAs(DS!ToDict(DS!SavedFilter(p, DS!Member)), p)
        BY <2>1 DEF SavedAs
    <2>3. QED
        BY <1>3, <1>9, <2>2 DEF DS!WebSaveFilter, DS!ApiAddFilter
<1>10. QED
    BY <1>1, <1>4, <1>5, <1>7, <1>8, <1>9 DEF DS!Next

\* So the filter finds what the form finds, and the link back to it does; and
\* it finds nothing for who has left its domain.
LEMMA SavedFinds == SavedFiltersInv => DS!SavedSearchFindsTheSame
<1>1. SUFFICES ASSUME SavedFiltersInv, NEW x \in filters, x.form # None
               PROVE  LET f == DS!FromDict(x.filter)
                          taken == DS!Selected(docs, DS!FilterScope(f), f)
                      IN  /\ IF f.domain_ids \subseteq DS!Member
                             THEN DS!Finds(DS!FilterLink(x.filter)) = taken ELSE taken = {}
                          /\ /\ x.form.preset = "active"
                             /\ DS!Picked(x.form, DS!Member) = f.domain_ids
                             /\ FALSE \notin {DS!WebTri(x.form.has_ocr), DS!WebTri(x.form.has_index)}
                             => DS!Finds(x.form) = taken
    BY DEF DS!SavedSearchFindsTheSame
<1> DEFINE p == x.form
           g == DS!FromDict(x.filter)
           back == DS!FilterLink(x.filter)
           f == DS!FiltersFromParams(p)
<1>a. p \in Forms /\ \E M \in SUBSET Domains : x.filter = DS!ToDict(DS!SavedFilter(p, M))
    BY <1>1 DEF SavedFiltersInv, SavedFrom, SavedAs
<1>b. PICK M \in SUBSET Domains : x.filter = DS!ToDict(DS!SavedFilter(p, M))
    BY <1>a
<1>2. None \notin DS!Member /\ IsFiniteSet(DS!TypeList(p.types))
    BY <1>1, <1>a, SharingAssumption
    DEF SavedFiltersInv, DS!Member, DS!DocSetsAssumption, DS!IsFiniteSet, IsFiniteSet
<1>3. /\ \A k \in Narrowing : DS!FiltersFromParams(back)[k] = g[k]
      /\ g.domain_ids \subseteq DS!Member => DS!Picked(back, DS!Member) = g.domain_ids
      /\ back.preset = "active"
    <2>1. x.filter = DS!ToDict(DS!SavedFilter(p, M))
        BY <1>b
    <2>2. PICK N : N = DS!Member
        OBVIOUS
    <2>3. None \notin N
        BY <1>2, <2>2
    <2> HIDE DEF p
    <2>4. /\ \A k \in Narrowing : DS!FiltersFromParams(back)[k] = g[k]
          /\ g.domain_ids \subseteq N => DS!Picked(back, N) = g.domain_ids
          /\ back.preset = "active"
        BY <1>2, <2>1, <2>3, LinkBack
    <2>5. QED
        BY <2>2, <2>4
<1>4. /\ \A k \in Narrowing \ {"has_ocr", "has_index"} : g[k] = f[k]
      /\ g.has_ocr = IF f.has_ocr = TRUE THEN TRUE ELSE None
      /\ g.has_index = IF f.has_index = TRUE THEN TRUE ELSE None
      /\ g.domain_ids = DS!Picked(p, M)
    <2>1. g = DS!FromDict(DS!ToDict(DS!SavedFilter(p, M)))
        BY <1>b
    <2> HIDE DEF p, g, f
    <2>2. f = DS!FiltersFromParams(p)
        BY DEF f
    <2>3. QED
        BY <2>1, <2>2, SavedAndRead
<1>5. f.has_ocr = DS!WebTri(p.has_ocr) /\ f.has_index = DS!WebTri(p.has_index)
    BY FormFilter
<1> HIDE DEF p, g, back, f
<1>6. ASSUME g.domain_ids \subseteq DS!Member
      PROVE  DS!Finds(back) = DS!Selected(docs, DS!FilterScope(g), g)
    BY <1>3, <1>6, PlainTab, FindsAsFilter
<1>7. ASSUME ~(g.domain_ids \subseteq DS!Member)
      PROVE  DS!Selected(docs, DS!FilterScope(g), g) = {}
    <2>1. g.domain_ids = {p.domain_id} /\ p.domain_id \notin DS!Member
        BY <1>4, <1>7, PickedOne
    <2>2. DS!DownloadDomains \subseteq DS!Member
        BY DEF DS!DownloadDomains, DS!Member
    <2>3. DS!FilterScope(g) = {}
        BY <2>1, <2>2 DEF DS!FilterScope
    <2>4. QED
        BY <2>3 DEF DS!Selected
<1>8. ASSUME p.preset = "active", DS!Picked(p, DS!Member) = g.domain_ids,
             FALSE \notin {DS!WebTri(p.has_ocr), DS!WebTri(p.has_index)}
      PROVE  DS!Finds(p) = DS!Selected(docs, DS!FilterScope(g), g)
    <2>1. \A v : DS!WebTri(v) = TRUE \/ DS!WebTri(v) = FALSE \/ DS!WebTri(v) = None
        BY DEF DS!WebTri, DS!Tri
    <2>2. g.has_ocr = f.has_ocr /\ g.has_index = f.has_index
        BY <1>4, <1>5, <1>8, <2>1
    <2>3. \A k \in Narrowing : f[k] = g[k]
        BY <1>4, <2>2
    <2>4. \A k \in Narrowing : DS!PageFilter(p)[k] = g[k]
        BY <1>8, <2>3, PlainTab DEF f
    <2>5. QED
        BY <1>8, <2>4, FindsAsFilter
<1>9. QED
    BY <1>6, <1>7, <1>8 DEF p, g, back

-----------------------------------------------------------------------------
(* Sorting: a listing holds every match once, in order.                      *)

\* A finite set can be listed in any order that is one: those that it does not
\* tell apart are listed as a numbering of the set has them.
LEMMA CanBeSorted ==
    ASSUME NEW S, IsFiniteSet(S), NEW R,
           \A i, j \in S : <<i, j>> \in R => <<j, i>> \notin R,
           \A i, j, k \in S : <<i, k>> \in R => <<i, j>> \in R \/ <<j, k>> \in R
    PROVE  \E s \in [1..Cardinality(S) -> S] :
               /\ IsInjective(s)
               /\ \A m, n \in DOMAIN s : m < n => <<s[n], s[m]>> \notin R
<1>1. PICK n \in Nat : n = Cardinality(S)
    BY FS_CardinalityType
<1>2. PICK b \in Bijection(1..n, S) : TRUE
    BY <1>1, FS_CardinalityType DEF ExistsBijection
<1>3. /\ b \in [1..n -> S] /\ \A a, c \in 1..n : b[a] = b[c] => a = c
      /\ \A i \in S : \E a \in 1..n : b[a] = i
    BY <1>2 DEF Bijection, Injection, Surjection, IsInjective
<1> DEFINE num == [i \in S |-> CHOOSE a \in 1..n : b[a] = i]
           P(i, j) == <<i, j>> \in R \/ (<<j, i>> \notin R /\ num[i] < num[j])
           below == [i \in S |-> {j \in S : P(j, i)}]
           rank == [i \in S |-> Cardinality(below[i]) + 1]
<1>4. \A i \in S : num[i] \in 1..n /\ b[num[i]] = i
    BY <1>3
<1>5. \A i, j \in S : num[i] = num[j] => i = j
    BY <1>4
<1> HIDE DEF num
<1>6. /\ \A i \in S : ~P(i, i)
      /\ \A i, j \in S : i # j => P(i, j) \/ P(j, i)
    BY <1>4, <1>5
<1>7. ASSUME NEW i \in S, NEW j \in S, NEW k \in S, P(i, j), P(j, k) PROVE P(i, k)
    BY <1>4, <1>7
<1> HIDE DEF P
<1>8. ASSUME NEW i \in S
      PROVE  /\ IsFiniteSet(below[i]) /\ Cardinality(below[i]) \in 0..(n - 1)
    <2>1. below[i] \in SUBSET (S \ {i})
        BY <1>6
    <2>2. IsFiniteSet(S \ {i}) /\ Cardinality(S \ {i}) = n - 1
        BY <1>1, FS_RemoveElement
    <2>3. IsFiniteSet(below[i]) /\ Cardinality(below[i]) <= n - 1
        BY <2>1, <2>2, FS_Subset
    <2>4. Cardinality(below[i]) \in Nat
        BY <2>3, FS_CardinalityType
    <2>5. QED
        BY <1>1, <2>3, <2>4
<1>9. ASSUME NEW i \in S, NEW j \in S, P(i, j)
      PROVE  rank[i] < rank[j]
    <2>1. below[i] \in SUBSET below[j] /\ i \in below[j] /\ i \notin below[i]
        BY <1>6, <1>7, <1>9
    <2>2. Cardinality(below[i]) <= Cardinality(below[j])
          /\ Cardinality(below[i]) # Cardinality(below[j])
        BY <1>8, <2>1, FS_Subset
    <2>4. rank[i] = Cardinality(below[i]) + 1 /\ rank[j] = Cardinality(below[j]) + 1
        OBVIOUS
    <2> HIDE DEF rank, below
    <2>3. Cardinality(below[i]) \in Nat /\ Cardinality(below[j]) \in Nat
        <3>1. Cardinality(below[i]) \in 0..(n - 1) /\ Cardinality(below[j]) \in 0..(n - 1)
            BY <1>8
        <3>2. QED
            BY <3>1
    <2>5. QED
        BY <2>2, <2>3, <2>4
<1>10. rank \in [S -> 1..n] /\ \A i \in S : rank[i] \in 1..n
    <2>1. ASSUME NEW i \in S PROVE Cardinality(below[i]) + 1 \in 1..n
        <3> DEFINE c == Cardinality(below[i])
        <3>1. c \in 0..(n - 1)
            BY <1>8
        <3> HIDE DEF c
        <3>2. c + 1 \in 1..n
            BY <3>1
        <3>3. QED
            BY <3>2 DEF c
    <2> HIDE DEF below
    <2>2. QED
        BY <2>1
<1> HIDE DEF rank, below
<1>11. \A i, j \in S : rank[i] = rank[j] => i = j
    <2> SUFFICES ASSUME NEW i \in S, NEW j \in S, i # j PROVE rank[i] # rank[j]
        OBVIOUS
    <2>1. CASE P(i, j)
        BY <1>9, <1>10, <2>1
    <2>2. CASE P(j, i)
        BY <1>9, <1>10, <2>2
    <2>3. QED
        BY <1>6, <2>1, <2>2
<1>12. \A a \in 1..n : \E i \in S : rank[i] = a
    <2>1. rank \in Injection(S, 1..n)
        BY <1>10, <1>11 DEF Injection, IsInjective
    <2>2. IsFiniteSet(1..n) /\ Cardinality(1..n) = n
        BY FS_Interval
    <2>3. rank \in Surjection(S, 1..n)
        BY <1>1, <2>1, <2>2, FS_Injection
    <2>4. QED
        BY <2>3 DEF Surjection
<1> DEFINE s == [a \in 1..n |-> CHOOSE i \in S : rank[i] = a]
<1>13. \A a \in 1..n : s[a] \in S /\ rank[s[a]] = a
    BY <1>12
<1>14. s \in [1..n -> S] /\ DOMAIN s = 1..n
    BY <1>13
<1> HIDE DEF s
<1>15. IsInjective(s)
    BY <1>13, <1>14 DEF IsInjective
<1>16. ASSUME NEW x \in 1..n, NEW y \in 1..n, x < y
       PROVE  <<s[y], s[x]>> \notin R
    <2>1. s[x] \in S /\ s[y] \in S /\ rank[s[x]] = x /\ rank[s[y]] = y
        BY <1>13
    <2>2. ~P(s[y], s[x])
        BY <1>9, <1>16, <2>1
    <2>3. QED
        BY <2>2 DEF P
<1>17. QED
    BY <1>1, <1>14, <1>15, <1>16

\* What one instance counts and calls injective is what the other does.
LEMMA SameCount ==
    /\ \A S : DS!Cardinality(S) = Cardinality(S) /\ CH!Cardinality(S) = Cardinality(S)
    /\ \A f : DS!IsInjective(f) = IsInjective(f) /\ CH!IsInjective(f) = IsInjective(f)
    /\ \A S : DS!IsFiniteSet(S) = IsFiniteSet(S) /\ CH!IsFiniteSet(S) = IsFiniteSet(S)
<1>1. \A S : DS!Cardinality(S) = Cardinality(S) /\ CH!Cardinality(S) = Cardinality(S)
    BY DEF DS!Cardinality, CH!Cardinality, Cardinality
<1>2. \A f : DS!IsInjective(f) = IsInjective(f) /\ CH!IsInjective(f) = IsInjective(f)
    BY DEF DS!IsInjective, CH!IsInjective, IsInjective
<1>3. \A S : DS!IsFiniteSet(S) = IsFiniteSet(S) /\ CH!IsFiniteSet(S) = IsFiniteSet(S)
    BY DEF DS!IsFiniteSet, CH!IsFiniteSet, IsFiniteSet
<1>4. QED
    BY <1>1, <1>2, <1>3

\* The order of two rows, by what they have in the column it goes by.
Earlier(dir, k, l) == k # None /\ (l = None \/ IF dir = "asc" THEN k < l ELSE k > l)

LEMMA EarlierOrders ==
    ASSUME None \notin Nat, NEW dir, NEW k \in Nat \cup {None}, NEW l \in Nat \cup {None},
           NEW m \in Nat \cup {None}
    PROVE  /\ Earlier(dir, k, l) => ~Earlier(dir, l, k)
           /\ Earlier(dir, k, m) => Earlier(dir, k, l) \/ Earlier(dir, l, m)
BY DEF Earlier

\* Rows of a table, found by a search, can be listed in its order.
LEMMA Sorted ==
    ASSUME None \notin Nat, NEW found, IsFiniteSet(found), NEW key, NEW dir,
           \A i \in found : key[i] \in Nat \cup {None}
    PROVE  \E s \in [1..Cardinality(found) -> found] :
               /\ IsInjective(s)
               /\ \A m, n \in DOMAIN s : m < n => ~Earlier(dir, key[s[n]], key[s[m]])
<1> DEFINE R == {p \in found \X found : Earlier(dir, key[p[1]], key[p[2]])}
<1>1. \A i, j \in found : <<i, j>> \in R <=> Earlier(dir, key[i], key[j])
    OBVIOUS
<1>2. \A i, j \in found : <<i, j>> \in R => <<j, i>> \notin R
    BY <1>1, EarlierOrders
<1>3. \A i, j, k \in found : <<i, k>> \in R => <<i, j>> \in R \/ <<j, k>> \in R
    BY <1>1, EarlierOrders
<1> HIDE DEF R
<1>4. PICK s \in [1..Cardinality(found) -> found] :
          IsInjective(s) /\ \A m, n \in DOMAIN s : m < n => <<s[n], s[m]>> \notin R
    BY <1>2, <1>3, CanBeSorted
<1>5. QED
    BY <1>1, <1>4

LEMMA DsInOrder ==
    ASSUME NEW rows, NEW found, IsFiniteSet(found), NEW sort, NEW dir,
           \A i \in found : DS!IsRow(rows[i])
    PROVE  LET s == DS!InOrder(rows, found, sort, dir)
           IN  /\ s \in [1..Cardinality(found) -> found]
               /\ IsInjective(s) /\ \A i \in found : \E n \in 1..Cardinality(found) : s[n] = i
<1> DEFINE key == [i \in found |-> DS!SortKey(sort, rows[i])]
           s == DS!InOrder(rows, found, sort, dir)
<1>1. None \notin Nat
    BY SharingAssumption DEF DS!DocSetsAssumption
<1>2. \A i \in found : key[i] \in Nat \cup {None}
    BY DEF DS!IsRow, DS!SortKey, DS!SortColumns
<1>3. \A i, j \in found : DS!Before(sort, dir, rows[i], rows[j]) = Earlier(dir, key[i], key[j])
    BY DEF DS!Before, Earlier
<1> HIDE DEF key
<1>4. PICK t \in [1..Cardinality(found) -> found] :
          IsInjective(t) /\ \A m, n \in DOMAIN t : m < n => ~Earlier(dir, key[t[n]], key[t[m]])
    BY <1>1, <1>2, Sorted
<1>5. \A m, n \in DOMAIN t : m < n => ~DS!Before(sort, dir, rows[t[n]], rows[t[m]])
    BY <1>3, <1>4
<1>6. s \in [1..Cardinality(found) -> found] /\ IsInjective(s)
    BY <1>4, <1>5, SameCount DEF DS!InOrder
<1>7. \A i \in found : \E n \in 1..Cardinality(found) : s[n] = i
    <2> HIDE DEF s
    <2>1. PICK n \in Nat : n = Cardinality(found)
        BY FS_CardinalityType
    <2>2. IsFiniteSet(1..n) /\ Cardinality(1..n) = n
        BY <2>1, FS_Interval
    <2>3. s \in Injection(1..n, found)
        BY <1>6, <2>1 DEF Injection
    <2>4. s \in Surjection(1..n, found)
        BY <2>1, <2>2, <2>3, FS_Injection
    <2>5. QED
        BY <2>1, <2>4 DEF Surjection
<1>8. QED
    BY <1>6, <1>7

LEMMA ChInOrder ==
    ASSUME NEW rows, NEW found, IsFiniteSet(found), NEW sort, NEW dir,
           \A i \in found : CH!IsRow(rows[i])
    PROVE  LET s == CH!InOrder(rows, found, sort, dir)
           IN  s \in [1..Cardinality(found) -> found] /\ IsInjective(s)
<1> DEFINE key == [i \in found |-> CH!SortKey(sort, rows[i])]
           s == CH!InOrder(rows, found, sort, dir)
<1>1. None \notin Nat
    BY SharingAssumption DEF DS!DocSetsAssumption
<1>2. \A i \in found : key[i] \in Nat \cup {None}
    BY DEF CH!IsRow, CH!SortKey, CH!SortColumns
<1>3. \A i, j \in found : CH!Before(sort, dir, rows[i], rows[j]) = Earlier(dir, key[i], key[j])
    BY DEF CH!Before, Earlier
<1> HIDE DEF key
<1>4. PICK t \in [1..Cardinality(found) -> found] :
          IsInjective(t) /\ \A m, n \in DOMAIN t : m < n => ~Earlier(dir, key[t[n]], key[t[m]])
    BY <1>1, <1>2, Sorted
<1>5. \A m, n \in DOMAIN t : m < n => ~CH!Before(sort, dir, rows[t[n]], rows[t[m]])
    BY <1>3, <1>4
<1>6. QED
    BY <1>4, <1>5, SameCount DEF CH!InOrder

-----------------------------------------------------------------------------
(* What a filter contributes to a set.                                       *)

\* The set's documents are rows of the library; its items are documents.
Stocked ==
    /\ DOMAIN docs \subseteq DOMAIN Library /\ \A i \in DOMAIN docs : DS!IsRow(docs[i])
    /\ DOMAIN items \subseteq DOMAIN docs

LEMMA StockIsFinite ==
    ASSUME Stocked, NEW S \in SUBSET DOMAIN docs
    PROVE  IsFiniteSet(S)
BY SharingAssumption, SameCount, FS_Subset DEF DS!DocSetsAssumption, Stocked

\* The page of a filter: as many of its matches as there are, at most Cap.
LEMMA PageOfFilter ==
    ASSUME Stocked, NEW d
    PROVE  LET f == DS!FromDict(d)
               found == DS!Selected(docs, DS!FilterScope(f), f)
               n == Cardinality(found)
           IN  /\ n <= DS!Cap => DS!FilterPage(d) = found
               /\ n > DS!Cap => Cardinality(DS!FilterPage(d)) = DS!Cap
               /\ DS!FilterPage(d) \subseteq found /\ n \in Nat
<1> DEFINE f == DS!FromDict(d)
           g == [f EXCEPT !.page = 1, !.page_size = DS!Cap]
           scope == DS!FilterScope(f)
           found == DS!Selected(docs, scope, f)
           all == DS!InOrder(docs, found, g.sort, g.sort_dir)
           last == IF DS!Cap < Cardinality(found) THEN DS!Cap ELSE Cardinality(found)
<1>1. DOMAIN f = DOMAIN DS!SearchFilters
    BY DEF DS!FromDict
<1>2. /\ g.page = 1 /\ g.page_size = DS!Cap
      /\ \A k \in Narrowing : g[k] = f[k]
      /\ g.domain_ids = f.domain_ids
    <2>1. {"page", "page_size", "domain_ids"} \cup Narrowing \subseteq DOMAIN f
        BY <1>1 DEF DS!SearchFilters, Narrowing
    <2>2. \A k \in Narrowing \cup {"domain_ids"} : k # "page" /\ k # "page_size"
        BY DEF Narrowing
    <2> HIDE DEF f
    <2>3. QED
        BY <2>1, <2>2
<1>3. DS!Selected(docs, scope, g) = found
    <2> HIDE DEF f, g, scope
    <2>1. QED
        BY <1>2, AlikeFindTheSame
<1>4. DS!FilterScope(g) = scope
    BY <1>2 DEF DS!FilterScope
<1>5. found \subseteq DOMAIN docs /\ IsFiniteSet(found)
    BY StockIsFinite DEF DS!Selected
<1> HIDE DEF f, scope
<1>6. /\ all \in [1..Cardinality(found) -> found] /\ IsInjective(all)
      /\ \A i \in found : \E n \in 1..Cardinality(found) : all[n] = i
    BY <1>5, DsInOrder DEF Stocked
<1>7. Cardinality(found) \in Nat /\ DS!Cap \in Nat
    BY <1>5, FS_CardinalityType, SharingAssumption DEF DS!DocSetsAssumption, DS!Cap
<1>8. DS!FilterPage(d) = DS!ToSet(DS!SubSeq(all, 1, last))
    <2>1. DS!FilterPage(d) = DS!ToSet(DS!SearchDocuments(docs, scope, g).rows)
        BY <1>4 DEF DS!FilterPage, f
    <2>2. DS!Listing(docs, scope, g) = all
        BY <1>3 DEF DS!Listing
    <2> HIDE DEF g
    <2>3. Len(all) = Cardinality(found) /\ (1 - 1) * DS!Cap + 1 = 1 /\ 1 + DS!Cap - 1 = DS!Cap
        BY <1>6, <1>7
    <2>4. DS!SearchDocuments(docs, scope, g).rows = DS!SubSeq(all, 1, last)
        BY <1>2, <2>2, <2>3 DEF DS!SearchDocuments
    <2>5. QED
        BY <2>1, <2>4
<1> HIDE DEF g, all, found
<1>9. last \in Nat /\ last <= Cardinality(found)
    BY <1>7
<1>10. DS!FilterPage(d) = {all[n] : n \in 1..last}
    <2> HIDE DEF last
    <2>1. DS!SubSeq(all, 1, last) = [n \in 1..last |-> all[n]]
        BY <1>6, <1>7, <1>9
    <2>2. QED
        BY <1>8, <1>9, <2>1 DEF DS!ToSet
<1>11. ASSUME Cardinality(found) <= DS!Cap PROVE DS!FilterPage(d) = found
    BY <1>6, <1>7, <1>10, <1>11
<1>12. ASSUME Cardinality(found) > DS!Cap
       PROVE  Cardinality(DS!FilterPage(d)) = DS!Cap
    <2>1. last = DS!Cap
        BY <1>7, <1>12
    <2> DEFINE page == DS!FilterPage(d)
               first == [n \in 1..last |-> all[n]]
    <2> HIDE DEF last
    <2>2. first \in Bijection(1..last, page)
        BY <1>6, <1>7, <1>9, <1>10 DEF Bijection, Injection, Surjection, IsInjective
    <2>3. IsFiniteSet(1..last) /\ Cardinality(1..last) = last
        BY <1>9, FS_Interval
    <2> HIDE DEF page, first
    <2>4. Cardinality(page) = last
        BY <2>2, <2>3, FS_Bijection DEF ExistsBijection
    <2>5. QED
        BY <2>1, <2>4 DEF page
<1>13. DS!FilterPage(d) \subseteq found
    <2> HIDE DEF last
    <2>1. \A n \in 1..last : all[n] \in found
        BY <1>6, <1>7, <1>9
    <2>2. QED
        BY <1>10, <2>1
<1>14. QED
    BY <1>7, <1>11, <1>12, <1>13 DEF found, f, scope

\* So an archive that is let through holds all that the set should share.
LEMMA SharesWhole == Stocked => DS!ShareWholeUnlessOverflowing
<1> DEFINE Found(x) == LET f == DS!FromDict(x.filter)
                       IN  DS!Selected(docs, DS!FilterScope(f), f)
<1>1. SUFFICES ASSUME Stocked, ~DS!Overflows, ~DS!LimitError(DS!Share)
               PROVE  DS!Share = DS!Shareable
    BY DEF DS!ShareWholeUnlessOverflowing
<1>2. ASSUME NEW x \in filters
      PROVE  /\ Cardinality(Found(x)) <= DS!Cap => DS!FilterPage(x.filter) = Found(x)
             /\ Cardinality(Found(x)) > DS!Cap => Cardinality(DS!FilterPage(x.filter)) = DS!Cap
             /\ DS!FilterPage(x.filter) \subseteq Found(x)
             /\ Cardinality(Found(x)) \in Nat
    BY <1>1, PageOfFilter
<1>3. ASSUME NEW x \in filters, NEW i \in Found(x)
      PROVE  i \in DOMAIN docs /\ docs[i].domain \in DS!DownloadDomains
    BY DEF DS!Selected, DS!FilterScope
<1>4. DS!Overflows <=> \E x \in filters :
          DS!Cardinality(Found(x)) > MaxSetDocs + 1
          /\ \E i \in Found(x) : docs[i].trashed \/ ~docs[i].public
    BY DEF DS!Overflows
<1>5. DS!Shareable = {i \in DOMAIN docs : DS!Reachable(i) /\ docs[i].public /\
                         (i \in DOMAIN items \/ \E x \in filters : i \in Found(x))}
    BY DEF DS!Shareable
<1> HIDE DEF Found
<1>6. DS!Cap \in Nat /\ DS!Cap = MaxSetDocs + 1 /\ MaxSetDocs \in Nat
    BY SharingAssumption DEF DS!DocSetsAssumption, DS!Cap
<1>7. DS!Share \subseteq DOMAIN docs
    BY <1>1, <1>2, <1>3 DEF DS!Share, DS!Full, DS!Explicit, Stocked
<1>8. Cardinality(DS!Share) \in Nat /\ Cardinality(DS!Share) <= MaxSetDocs
    BY <1>1, <1>6, <1>7, StockIsFinite, FS_CardinalityType, SameCount DEF DS!LimitError
\* A page that was cut would have let more through than the limit.
<1>9. ASSUME NEW x \in filters, Cardinality(Found(x)) > DS!Cap
      PROVE  FALSE
    <2>1. \A i \in Found(x) : ~docs[i].trashed /\ docs[i].public
        BY <1>1, <1>4, <1>6, <1>9, SameCount
    <2>2. DS!FilterPage(x.filter) \subseteq DS!Share
        BY <1>2, <1>3, <2>1 DEF DS!Share, DS!Full, DS!Reachable
    <2>3. Cardinality(DS!FilterPage(x.filter)) <= Cardinality(DS!Share)
        BY <1>1, <1>7, <2>2, StockIsFinite, FS_Subset
    <2>4. Cardinality(DS!FilterPage(x.filter)) = DS!Cap
        BY <1>2, <1>9
    <2>5. QED
        BY <1>6, <1>8, <2>3, <2>4
<1>10. \A x \in filters : DS!FilterPage(x.filter) = Found(x)
    BY <1>2, <1>6, <1>9
<1>11. \A i \in DOMAIN items : i \in DOMAIN docs
    BY <1>1 DEF Stocked
<1>12. QED
    BY <1>3, <1>5, <1>10, <1>11 DEF DS!Share, DS!Full, DS!Explicit, DS!Reachable

-----------------------------------------------------------------------------
(* A set: its documents, items and places.                                   *)

Adding == {r \in Requests : edits[r].op = "filter"}

\* What a request of each kind carries.
EditTyped(r) ==
    /\ edits[r].op \in {"none", "filter", "items", "orphaned"}
    /\ edits[r].op = "filter" =>
          /\ edits[r].row.position \in 1..(saves + 1)
          /\ DOMAIN edits[r].row.filter \subseteq DOMAIN DS!SearchFilters
    /\ edits[r].op = "items" =>
          \A i \in DOMAIN edits[r].new : edits[r].new[i] \in 1..MaxPosition

\* No more rows are under way than may still be given.
RowsLeft ==
    saves \in Nat /\ IsFiniteSet(Adding) /\ saves + Cardinality(Adding) <= MaxRows

FiltersTyped ==
    \A x \in filters :
        x.position \in 1..saves /\ DOMAIN x.filter \subseteq DOMAIN DS!SearchFilters

ItemsTyped == \A i \in DOMAIN items : items[i] \in 1..MaxPosition

RolesTyped == DOMAIN role \subseteq Domains /\ \A m \in DOMAIN role : role[m] \in DS!Roles

SetTyped ==
    /\ Stocked /\ RowsLeft /\ FiltersTyped /\ ItemsTyped
    /\ \A r \in Requests : EditTyped(r)
    /\ RolesTyped /\ chat \in DS!Docs \cup {None}
    /\ overlapped \subseteq Requests

LEMMA NextIsNear ==
    ASSUME NEW n \in Nat, NEW Q \in SUBSET (1..n), IsFiniteSet(Q)
    PROVE  DS!NextPosition(Q) \in 1..(n + 1)
<1>1. CASE Q = {}
    BY <1>1 DEF DS!NextPosition
<1>2. CASE Q # {}
    <2>1. Q \in SUBSET Nat
        OBVIOUS
    <2>2. PICK d \in Q : \A e \in Q : e <= d
        BY <1>2, <2>1, Greatest
    <2>3. d + 1 \in {p + 1 : p \in Q} /\ \A p \in Q : d + 1 > p
        BY <2>1, <2>2
    <2>4. DS!NextPosition(Q) \in {p + 1 : p \in Q}
        BY <1>2, <2>3 DEF DS!NextPosition
    <2>5. QED
        BY <2>4
<1>3. QED
    BY <1>1, <1>2

\* The documents a selection pins get places from 1 on.
LEMMA PinnedPlaces ==
    ASSUME SetTyped, NEW D
    PROVE  /\ DOMAIN DS!Pinned(D) \subseteq DOMAIN docs
           /\ DS!Placeable(D) =>
                 \A i \in DOMAIN DS!Pinned(D) : DS!Pinned(D)[i] \in 1..MaxPosition
<1> DEFINE new == DS!Valid(D) \ DOMAIN items
           list == DS!SetToSeq(new)
           taken == {items[i] : i \in DOMAIN items}
           last == DS!NextPosition(taken) - 1
           place(i) == CHOOSE k \in DOMAIN list : list[k] = i
<1>1. new \subseteq DOMAIN docs
    BY DEF DS!Valid
<1>2. IsFiniteSet(new) /\ IsFiniteSet(DOMAIN items)
    BY <1>1, StockIsFinite DEF SetTyped, Stocked
<1>3. IsFiniteSet(taken) /\ taken \in SUBSET (1..MaxPosition) /\ MaxPosition \in Nat
    <2> DEFINE places == [i \in DOMAIN items |-> items[i]]
    <2>1. places \in Surjection(DOMAIN items, taken)
        BY DEF Surjection
    <2>2. IsFiniteSet(taken)
        BY <1>2, <2>1, FS_Surjection
    <2>3. QED
        BY <2>2, SharingAssumption DEF SetTyped, ItemsTyped, DS!DocSetsAssumption
<1>4. last \in Nat
    <2> HIDE DEF taken
    <2>1. DS!NextPosition(taken) \in 1..(MaxPosition + 1)
        BY <1>3, NextIsNear
    <2>2. QED
        BY <1>3, <2>1
<1>5. DS!ToSet(list) = new
    BY <1>2, Listed
<1>6. DS!Pinned(D) = [i \in new |-> last + place(i)]
    BY <1>5 DEF DS!Pinned
<1>7. \A i \in new : place(i) \in DOMAIN list
    BY <1>5 DEF DS!ToSet
<1>8. DOMAIN list \subseteq Nat \ {0}
    BY <1>2, Listed
<1> HIDE DEF new, list, last, place
<1>9. \A i \in new : DS!Pinned(D)[i] \in Nat \ {0}
    BY <1>4, <1>6, <1>7, <1>8
<1>10. DOMAIN DS!Pinned(D) = new
    BY <1>6
<1>11. QED
    BY <1>1, <1>3, <1>9, <1>10 DEF DS!Placeable

LEMMA SetInit == DS!Init => SetTyped
<1>1. SUFFICES ASSUME DS!Init PROVE SetTyped
    OBVIOUS
<1>2. Adding = {} /\ IsFiniteSet({}) /\ Cardinality({}) = 0
    BY <1>1, FS_EmptySet DEF DS!Init, DS!Idle, Adding
<1>3. RowsLeft
    BY <1>1, <1>2, SharingAssumption DEF DS!Init, RowsLeft, DS!DocSetsAssumption
<1>4. Stocked
    BY <1>1, SharingAssumption DEF DS!Init, Stocked, DS!DocSetsAssumption
<1>5. QED
    BY <1>1, <1>3, <1>4
    DEF DS!Init, SetTyped, FiltersTyped, ItemsTyped, EditTyped, RolesTyped, DS!Idle, DS!Roles,
        DS!Docs

\* Fewer rows under way leave no fewer.
LEMMA FewerAdding ==
    ASSUME RowsLeft, saves' = saves, Adding' \subseteq Adding
    PROVE  RowsLeft'
<1>1. Adding' \in SUBSET Adding
    OBVIOUS
<1>2. IsFiniteSet(Adding') /\ Cardinality(Adding') <= Cardinality(Adding)
    BY <1>1, FS_Subset DEF RowsLeft
<1>3. Cardinality(Adding') \in Nat /\ Cardinality(Adding) \in Nat /\ MaxRows \in Nat
    BY <1>2, FS_CardinalityType, SharingAssumption DEF RowsLeft, DS!DocSetsAssumption
<1>4. QED
    BY <1>2, <1>3 DEF RowsLeft

LEMMA SetAddFilter ==
    ASSUME SetTyped, Numbered, NEW r \in Requests, NEW f, NEW form, DS!AddFilter(r, f, form),
           DOMAIN f \subseteq DOMAIN DS!SearchFilters
    PROVE  SetTyped'
<1> DEFINE taken == {x.position : x \in filters}
           row == DS!FilterRow(DS!NextPosition(taken), f, form)
<1>1. taken \in SUBSET (1..saves) /\ IsFiniteSet(taken) /\ saves \in Nat
    <2> DEFINE places == [x \in filters |-> x.position]
    <2>1. places \in Surjection(filters, taken)
        BY DEF Surjection
    <2>2. IsFiniteSet(taken)
        BY <2>1, FS_Surjection DEF Numbered
    <2>3. QED
        BY <2>2 DEF SetTyped, FiltersTyped, RowsLeft
<1>2. DS!NextPosition(taken) \in 1..(saves + 1)
    BY <1>1, NextIsNear
<1>3. /\ row.position = DS!NextPosition(taken)
      /\ DOMAIN row.filter \subseteq DOMAIN DS!SearchFilters
    <2>1. DOMAIN DS!ToDict(f) \subseteq DOMAIN f
        BY DEF DS!ToDict
    <2>2. QED
        BY <2>1 DEF DS!FilterRow
<1>4. /\ UNCHANGED <<docs, role, set, filters, items, chat, saves>>
      /\ edits' = [edits EXCEPT ![r] = [op |-> "filter", row |-> row]]
      /\ edits[r] = DS!Idle /\ overlapped' \subseteq Requests
      /\ saves + DS!Cardinality(Adding) < MaxRows
    BY DEF DS!AddFilter, Adding, SetTyped
<1> HIDE DEF taken, row
<1>5. /\ edits'[r].op = "filter" /\ edits'[r].row = row
      /\ \A x \in Requests \ {r} : edits'[x] = edits[x]
    BY <1>4 DEF Numbered
<1>6. Adding' = Adding \cup {r}
    BY <1>4, <1>5 DEF Adding
<1>7. RowsLeft'
    <2>1. /\ IsFiniteSet(Adding') /\ Cardinality(Adding) \in Nat
          /\ Cardinality(Adding') \in {Cardinality(Adding), Cardinality(Adding) + 1}
        BY <1>6, FS_AddElement, FS_CardinalityType DEF SetTyped, RowsLeft
    <2>2. QED
        BY <1>1, <1>4, <2>1, SameCount, SharingAssumption DEF RowsLeft, DS!DocSetsAssumption
<1>8. \A x \in Requests : EditTyped(x)'
    BY <1>2, <1>3, <1>4, <1>5 DEF SetTyped, EditTyped
<1>9. QED
    BY <1>4, <1>7, <1>8 DEF SetTyped, FiltersTyped, ItemsTyped, Stocked, RolesTyped

LEMMA SetCommitFilter ==
    ASSUME SetTyped, Numbered, NEW r \in Requests, DS!CommitFilter(r)
    PROVE  SetTyped'
<1> DEFINE new == DS!Inserted(edits[r].row, r \in overlapped)
<1>1. new.position = edits[r].row.position /\ new.filter = edits[r].row.filter
    BY DEF DS!Inserted
<1>2. /\ filters' = filters \cup {new} /\ UNCHANGED <<docs, role, items, chat>>
      /\ edits[r].op = "filter" /\ edits' = [edits EXCEPT ![r] = DS!Idle]
      /\ saves' = saves + 1 /\ overlapped' \subseteq Requests
    BY DEF DS!CommitFilter, DS!Touch, SetTyped
<1> HIDE DEF new
<1>3. /\ edits'[r].op = "none" /\ \A x \in Requests \ {r} : edits'[x] = edits[x]
    BY <1>2 DEF Numbered, DS!Idle
<1>4. Adding' = Adding \ {r} /\ r \in Adding
    BY <1>2, <1>3 DEF Adding
<1>5. RowsLeft'
    <2>1. IsFiniteSet(Adding') /\ Cardinality(Adding') = Cardinality(Adding) - 1
          /\ Cardinality(Adding) \in Nat /\ saves \in Nat
          /\ saves + Cardinality(Adding) <= MaxRows
        BY <1>4, FS_RemoveElement, FS_CardinalityType DEF SetTyped, RowsLeft
    <2>2. QED
        BY <1>2, <2>1, SharingAssumption DEF RowsLeft, DS!DocSetsAssumption
<1>6. saves \in Nat
    BY DEF SetTyped, RowsLeft
<1>7. FiltersTyped'
    BY <1>1, <1>2, <1>6 DEF SetTyped, FiltersTyped, EditTyped
<1>8. \A x \in Requests : EditTyped(x)'
    BY <1>2, <1>3, <1>6 DEF SetTyped, EditTyped
<1>9. QED
    BY <1>2, <1>5, <1>7, <1>8 DEF SetTyped, ItemsTyped, Stocked, RolesTyped

LEMMA SetNewSetOfFilter ==
    ASSUME SetTyped, Numbered, NothingWithoutSet, NEW p, DS!WebNewSetOfFilter(p)
    PROVE  SetTyped'
<1> DEFINE f == DS!SavedFilter(p, DS!Member)
           new == DS!Inserted(DS!FilterRow(1, f, p), FALSE)
<1>1. new.position = 1 /\ DOMAIN new.filter \subseteq DOMAIN DS!SearchFilters
    <2>1. DOMAIN f = DOMAIN DS!SearchFilters
        BY FormFilter DEF DS!SavedFilter
    <2>2. DOMAIN DS!ToDict(f) \subseteq DOMAIN f
        BY DEF DS!ToDict
    <2> HIDE DEF f
    <2>3. QED
        BY <2>1, <2>2 DEF DS!Inserted, DS!FilterRow
<1>2. /\ filters' = {new} /\ UNCHANGED <<docs, role, items, edits, chat, overlapped>>
      /\ saves' = saves + 1 /\ saves < MaxRows /\ ~set
    BY DEF DS!WebNewSetOfFilter
<1> HIDE DEF f, new
<1>3. saves \in Nat /\ MaxRows \in Nat
    BY SharingAssumption DEF SetTyped, RowsLeft, DS!DocSetsAssumption
<1>4. RowsLeft'
    <2>1. Adding' = {}
        BY <1>2 DEF Adding, NothingWithoutSet
    <2>2. IsFiniteSet({}) /\ Cardinality({}) = 0
        BY FS_EmptySet
    <2>3. QED
        BY <1>2, <1>3, <2>1, <2>2 DEF RowsLeft
<1>5. FiltersTyped'
    BY <1>1, <1>2, <1>3 DEF FiltersTyped
<1>6. \A x \in Requests : EditTyped(x)'
    BY <1>2, <1>3 DEF SetTyped, EditTyped
<1>7. QED
    BY <1>2, <1>4, <1>5, <1>6 DEF SetTyped, ItemsTyped, Stocked, RolesTyped

LEMMA SetAddItems ==
    ASSUME SetTyped, Numbered, NEW r \in Requests, NEW D, DS!Placeable(D),
           edits' = [edits EXCEPT ![r] = [op |-> "items", new |-> DS!Pinned(D)]],
           UNCHANGED <<docs, role, filters, items, saves>>,
           overlapped' = overlapped \ {r}, chat' \in {chat, None}
    PROVE  SetTyped'
<1> DEFINE new == DS!Pinned(D)
<1>1. \A i \in DOMAIN new : new[i] \in 1..MaxPosition
    BY PinnedPlaces
<1> HIDE DEF new
<1>2. /\ edits'[r].op = "items" /\ edits'[r].new = new
      /\ \A x \in Requests \ {r} : edits'[x] = edits[x]
    BY DEF Numbered, new
<1>3. Adding' \subseteq Adding
    BY <1>2 DEF Adding
<1>4. RowsLeft'
    BY <1>3, FewerAdding DEF SetTyped
<1>5. \A x \in Requests : EditTyped(x)'
    BY <1>1, <1>2 DEF SetTyped, EditTyped
<1>6. QED
    BY <1>4, <1>5 DEF SetTyped, FiltersTyped, ItemsTyped, Stocked, RolesTyped

LEMMA SetCommitItems ==
    ASSUME SetTyped, Numbered, NEW r \in Requests, DS!CommitItems(r) \/ DS!RollBack(r)
    PROVE  SetTyped'
<1>1. /\ UNCHANGED <<docs, role, filters, chat, saves>> /\ overlapped' \subseteq Requests
      /\ edits' = [edits EXCEPT ![r] = DS!Idle]
    BY DEF DS!CommitItems, DS!RollBack, DS!Touch, SetTyped
<1>2. edits'[r].op = "none" /\ \A x \in Requests \ {r} : edits'[x] = edits[x]
    BY <1>1 DEF Numbered, DS!Idle
<1>3. Adding' \subseteq Adding
    BY <1>2 DEF Adding
<1>4. RowsLeft'
    BY <1>1, <1>3, FewerAdding DEF SetTyped
<1>5. \A x \in Requests : EditTyped(x)'
    BY <1>1, <1>2 DEF SetTyped, EditTyped
<1>6. DOMAIN items' \subseteq DOMAIN docs /\ ItemsTyped'
    <2>1. CASE DS!RollBack(r)
        BY <2>1 DEF DS!RollBack, SetTyped, Stocked, ItemsTyped
    <2>2. CASE DS!CommitItems(r)
        <3> DEFINE new == edits[r].new
        <3>1. /\ DOMAIN new \subseteq DOMAIN docs
              /\ items' = [i \in DOMAIN new \cup DOMAIN items |->
                               IF i \in DOMAIN new THEN new[i] ELSE items[i]]
              /\ \A i \in DOMAIN new : new[i] \in 1..MaxPosition
            BY <2>2 DEF DS!CommitItems, DS!Insertable, SetTyped, EditTyped
        <3> HIDE DEF new
        <3>2. QED
            BY <3>1 DEF SetTyped, Stocked, ItemsTyped
    <2>3. QED
        BY <2>1, <2>2
<1>7. QED
    BY <1>1, <1>4, <1>5, <1>6 DEF SetTyped, FiltersTyped, Stocked, RolesTyped

\* The steps that leave the requests, and how many rows were given.
LEMMA SetEdited ==
    ASSUME SetTyped, UNCHANGED <<edits, overlapped, saves>>, filters' \subseteq filters,
           Stocked', ItemsTyped', RolesTyped', chat' \in DS!Docs \cup {None}
    PROVE  SetTyped'
<1>1. Adding' = Adding
    BY DEF Adding
<1>2. RowsLeft'
    BY <1>1, FewerAdding DEF SetTyped
<1>3. QED
    BY <1>2 DEF SetTyped, FiltersTyped, EditTyped

LEMMA SetNew ==
    ASSUME SetTyped, NEW D \in Selections \cup {{}}, DS!CreateSet(D) \/ DS!BotNewSet
    PROVE  SetTyped'
<1>1. PICK S : DS!Placeable(S) /\ items' = DS!Pinned(S)
    BY DEF DS!CreateSet, DS!BotNewSet
<1>2. /\ UNCHANGED <<docs, role, filters, edits, overlapped, saves>>
      /\ chat' \in {chat, None}
    BY DEF DS!CreateSet, DS!BotNewSet
<1>3. DOMAIN items' \subseteq DOMAIN docs /\ \A i \in DOMAIN items' : items'[i] \in 1..MaxPosition
    BY <1>1, PinnedPlaces
<1>4. Stocked' /\ ItemsTyped'
    BY <1>2, <1>3 DEF SetTyped, Stocked, ItemsTyped
<1>5. QED
    BY <1>2, <1>4, SetEdited DEF SetTyped, RolesTyped

LEMMA SetDeleted == ASSUME SetTyped, DS!DeleteSet PROVE SetTyped'
<1>1. /\ UNCHANGED <<docs, role, chat, overlapped, saves>> /\ filters' = {} /\ items' = <<>>
      /\ \A r \in Requests : edits'[r].op \in {"none", "orphaned"}
    BY DEF DS!DeleteSet, DS!Idle
<1>2. Adding' \subseteq Adding
    BY <1>1 DEF Adding
<1>3. RowsLeft'
    BY <1>1, <1>2, FewerAdding DEF SetTyped
<1>4. QED
    BY <1>1, <1>3 DEF SetTyped, FiltersTyped, ItemsTyped, Stocked, EditTyped, RolesTyped

LEMMA SetDocuments ==
    ASSUME SetTyped, NEW i,
           \/ DS!Purge(i) \/ DS!RemoveItem(i) \/ DS!BotChooseSet(i)
           \/ DS!Toggle(i, "trashed") \/ DS!Toggle(i, "public")
    PROVE  SetTyped'
<1>1. UNCHANGED <<role, filters, edits, overlapped, saves>>
    BY DEF DS!Purge, DS!RemoveItem, DS!BotChooseSet, DS!Toggle
<1>2. chat' \in DS!Docs \cup {None}
    BY DEF DS!Purge, DS!RemoveItem, DS!BotChooseSet, DS!Toggle, SetTyped, Stocked, DS!Docs
<1>3. Stocked' /\ ItemsTyped'
    <2>1. CASE DS!Purge(i)
        <3>1. /\ DOMAIN docs' = DOMAIN docs \ {i} /\ \A j \in DOMAIN docs' : docs'[j] = docs[j]
              /\ DOMAIN items' = DOMAIN items \ {i}
              /\ \A j \in DOMAIN items' : items'[j] = items[j]
            BY <2>1 DEF DS!Purge, DS!Unpinned
        <3>2. QED
            BY <3>1 DEF SetTyped, Stocked, ItemsTyped
    <2>2. CASE DS!RemoveItem(i)
        BY <2>2 DEF DS!RemoveItem, SetTyped, Stocked, ItemsTyped
    <2>3. CASE DS!BotChooseSet(i)
        BY <2>3 DEF DS!BotChooseSet, SetTyped, Stocked, ItemsTyped
    <2>4. ASSUME NEW col \in {"trashed", "public"}, DS!Toggle(i, col) PROVE Stocked' /\ ItemsTyped'
        <3>1. /\ i \in DOMAIN docs /\ items' = items
              /\ docs' = [docs EXCEPT ![i] = [docs[i] EXCEPT ![col] = ~docs[i][col]]]
            BY <2>4 DEF DS!Toggle
        <3>2. DOMAIN docs' = DOMAIN docs /\ \A j \in DOMAIN docs : DOMAIN docs'[j] = DOMAIN docs[j]
            BY <3>1
        <3>3. \A j \in DOMAIN docs, c \in DS!SortColumns : docs'[j][c] = docs[j][c]
            BY <3>1 DEF DS!SortColumns
        <3>4. \A j \in DOMAIN docs : DS!IsRow(docs'[j])
            BY <3>2, <3>3 DEF SetTyped, Stocked, DS!IsRow
        <3>5. QED
            BY <3>1, <3>2, <3>4 DEF SetTyped, Stocked, ItemsTyped
    <2>5. QED
        BY <2>1, <2>2, <2>3, <2>4
<1>4. RolesTyped' /\ filters' \subseteq filters
    BY <1>1 DEF SetTyped, RolesTyped
<1>5. QED
    BY <1>1, <1>2, <1>3, <1>4, SetEdited

LEMMA SetOthers ==
    ASSUME SetTyped,
           \/ \E row \in filters : DS!RemoveFilter(row)
           \/ \E m \in Changing : DS!RemoveMember(m) \/ \E to \in DS!Roles : DS!SetRole(m, to)
           \/ UNCHANGED dsvars
    PROVE  SetTyped'
<1>1. /\ UNCHANGED <<docs, items, edits, chat, overlapped, saves>> /\ filters' \subseteq filters
    BY DEF DS!RemoveFilter, DS!SetRole, DS!RemoveMember, dsvars
<1>2. RolesTyped'
    BY SharingAssumption
    DEF DS!DocSetsAssumption, DS!RemoveFilter, DS!SetRole, DS!RemoveMember, dsvars, SetTyped,
        RolesTyped
<1>3. Stocked' /\ ItemsTyped' /\ chat' \in DS!Docs \cup {None}
    BY <1>1 DEF SetTyped, Stocked, ItemsTyped
<1>4. QED
    BY <1>1, <1>2, <1>3, SetEdited

LEMMA SetNext ==
    SetTyped /\ Numbered /\ NothingWithoutSet /\ (DS!Next \/ UNCHANGED dsvars) => SetTyped'
<1>1. SUFFICES ASSUME SetTyped, Numbered, NothingWithoutSet, DS!Next \/ UNCHANGED dsvars
               PROVE  SetTyped'
    OBVIOUS
<1>2. ASSUME NEW r \in Requests, NEW p, DS!WebSaveFilter(r, p) PROVE SetTyped'
    <2>1. DOMAIN DS!SavedFilter(p, DS!Member) = DOMAIN DS!SearchFilters
        BY FormFilter DEF DS!SavedFilter
    <2>2. QED
        BY <1>1, <1>2, <2>1, SetAddFilter DEF DS!WebSaveFilter
<1>3. ASSUME NEW r \in Requests, NEW d, DS!ApiAddFilter(r, d) PROVE SetTyped'
    <2>1. DOMAIN DS!FromDict(d) = DOMAIN DS!SearchFilters
        BY DEF DS!FromDict
    <2>2. QED
        BY <1>1, <1>3, <2>1, SetAddFilter DEF DS!ApiAddFilter
<1>4. ASSUME NEW r \in Requests, NEW D, DS!AddItems(r, D) PROVE SetTyped'
    BY <1>1, <1>4, SetAddItems DEF DS!AddItems
<1>5. ASSUME NEW r \in Requests, DS!BotAddToSet(r) PROVE SetTyped'
    BY <1>1, <1>5, SetAddItems DEF DS!BotAddToSet
<1>6. ASSUME NEW D \in Selections \cup {{}}, DS!CreateSet(D) PROVE SetTyped'
    BY <1>1, <1>6, SetNew
<1>7. ASSUME DS!BotNewSet PROVE SetTyped'
    BY <1>1, <1>7, SetNew
<1>8. QED
    BY <1>1, <1>2, <1>3, <1>4, <1>5, <1>6, <1>7, SetCommitFilter, SetNewSetOfFilter,
       SetCommitItems, SetDeleted, SetDocuments, SetOthers
    DEF DS!Next

LEMMA SetTypeOK == SetTyped => DS!TypeOK
<1>1. SUFFICES ASSUME SetTyped PROVE DS!TypeOK
    OBVIOUS
<1>2. Cardinality(Adding) \in Nat /\ saves \in Nat /\ MaxRows \in Nat
      /\ saves + Cardinality(Adding) <= MaxRows
    BY <1>1, FS_CardinalityType, SharingAssumption DEF SetTyped, RowsLeft, DS!DocSetsAssumption
<1>3. saves \in 0..MaxRows
    BY <1>2
<1>4. \A x \in filters :
          x.position \in 1..MaxRows /\ DOMAIN x.filter \subseteq DOMAIN DS!SearchFilters
    BY <1>1, <1>2, <1>3 DEF SetTyped, FiltersTyped
<1>5. QED
    BY <1>1, <1>3, <1>4
    DEF SetTyped, Stocked, ItemsTyped, EditTyped, RolesTyped, DS!TypeOK, DS!Docs

-----------------------------------------------------------------------------
(* The bot's pager: pages. *)

\* Whole pages.
LEMMA Division ==
    ASSUME NEW P \in Nat \ {0}, NEW a \in Nat, NEW q \in Nat
    PROVE  /\ a \div P \in Nat
           /\ q * P <= a => q <= a \div P
           /\ a < (q + 1) * P => a \div P <= q
           /\ a \div P <= a
<1>1. a \div P \in Nat /\ (a \div P) * P <= a /\ a < (a \div P + 1) * P
    OBVIOUS
<1> DEFINE d == a \div P
<1>2. d \in Nat /\ d * P <= a /\ a < (d + 1) * P
    BY <1>1
<1> HIDE DEF d
<1>3. \A k \in Nat, l \in Nat : k <= l => k * P <= l * P
    OBVIOUS
<1>4. ASSUME q * P <= a PROVE q <= d
    <2>1. CASE d + 1 <= q
        <3>1. (d + 1) * P <= q * P
            BY <1>2, <1>3, <2>1
        <3>2. (d + 1) * P \in Nat /\ q * P \in Nat
            BY <1>2
        <3>3. QED
            BY <1>2, <1>4, <3>1, <3>2
    <2>2. QED
        BY <1>2, <2>1
<1>5. ASSUME a < (q + 1) * P PROVE d <= q
    <2>1. CASE q + 1 <= d
        <3>1. (q + 1) * P <= d * P
            BY <1>2, <1>3, <2>1
        <3>2. (q + 1) * P \in Nat /\ d * P \in Nat
            BY <1>2
        <3>3. QED
            BY <1>2, <1>5, <3>1, <3>2
    <2>2. QED
        BY <1>2, <2>1
<1>6. d <= a
    <2>1. d * 1 <= d * P
        BY <1>2
    <2>2. QED
        BY <1>2, <2>1
<1>7. QED
    BY <1>2, <1>4, <1>5, <1>6 DEF d

\* A page put after those before it.
LEMMA Turned ==
    ASSUME NEW S, NEW N \in Nat, NEW all \in [1..N -> S], NEW m \in 0..N, NEW k \in m..N
    PROVE  /\ SubSeq(all, 1, m) \o SubSeq(all, m + 1, k) = SubSeq(all, 1, k)
           /\ Len(SubSeq(all, 1, k)) = k
<1>1. /\ SubSeq(all, 1, m) = [i \in 1..m |-> all[i]]
      /\ SubSeq(all, 1, k) = [i \in 1..k |-> all[i]]
      /\ SubSeq(all, m + 1, k) = [i \in 1..(k - m) |-> all[i + m]]
    OBVIOUS
<1>2. Len([i \in 1..k |-> all[i]]) = k
    OBVIOUS
<1>3. [i \in 1..m |-> all[i]] \o [i \in 1..(k - m) |-> all[i + m]] = [i \in 1..k |-> all[i]]
    OBVIOUS
<1>4. QED
    BY <1>1, <1>2, <1>3

\* The rows the bot searches.
Shelved ==
    /\ DOMAIN table \subseteq DOMAIN Shelf \cup DOMAIN Sent
    /\ \A i \in DOMAIN table : CH!IsRow(table[i]) /\ table[i].domain \in Domains

Shelves == Cardinality(DOMAIN Shelf \cup DOMAIN Sent)

LEMMA ChConstants ==
    /\ PageSize \in Nat \ {0} /\ Shelves \in Nat
    /\ IsFiniteSet(DOMAIN Shelf \cup DOMAIN Sent)
BY SharingAssumption, SameCount, FS_CardinalityType DEF CH!ChatAssumption, Shelves

\* A search of the bot lists its matches, each once.
LEMMA ChListing ==
    ASSUME Shelved, NEW f
    PROVE  LET all == CH!Listing(table, domains, f)
               found == CH!Selected(table, domains, f)
               n == Cardinality(found)
           IN  n \in Nat /\ n <= Shelves /\ all \in [1..n -> found] /\ Len(all) = n
<1> DEFINE all == CH!Listing(table, domains, f)
           found == CH!Selected(table, domains, f)
<1>1. found \subseteq DOMAIN table
    BY DEF CH!Selected
<1>2. found \in SUBSET (DOMAIN Shelf \cup DOMAIN Sent)
    BY <1>1 DEF Shelved
<1>3. IsFiniteSet(found) /\ Cardinality(found) <= Shelves
    BY <1>2, ChConstants, FS_Subset DEF Shelves
<1>4. Cardinality(found) \in Nat
    BY <1>3, FS_CardinalityType
<1>5. \A i \in found : CH!IsRow(table[i])
    BY <1>1 DEF Shelved
<1> HIDE DEF found
<1>6. all \in [1..Cardinality(found) -> found]
    BY <1>3, <1>5, ChInOrder DEF CH!Listing, found
<1> HIDE DEF all
<1>7. Len(all) = Cardinality(found)
    BY <1>4, <1>6
<1>8. QED
    BY <1>3, <1>4, <1>6, <1>7 DEF all, found

\* Two filters that agree on what narrows and orders list the same.
LEMMA AlikeListTheSame ==
    ASSUME NEW f, NEW g, f.sort = g.sort, f.sort_dir = g.sort_dir,
           \A k \in Narrowing : f[k] = g[k], NEW rows, NEW scope
    PROVE  CH!Listing(rows, scope, f) = CH!Listing(rows, scope, g)
<1>1. \A d : CH!Selects(f, d) = CH!Selects(g, d)
    BY DEF Narrowing, CH!Selects
<1>2. CH!Selected(rows, scope, f) = CH!Selected(rows, scope, g)
    BY <1>1 DEF CH!Selected
<1>3. QED
    BY <1>2 DEF CH!Listing

\* The bot's page of a line: a part of what the line lists.
LEMMA PageOfLine ==
    ASSUME Shelved, NEW line, NEW page \in Nat
    PROVE  LET all == CH!Listing(table, domains, CH!ToFilters(CH!ParseQuery(line), PageSize))
               found == CH!Found(line, page)
               m == page * PageSize
           IN  /\ found.total = Len(all)
               /\ found.rows = SubSeq(all, m + 1, IF m + PageSize < Len(all) THEN m + PageSize
                                                                           ELSE Len(all))
<1> DEFINE pq == CH!ParseQuery(line)
           f == CH!ToFilters(pq, PageSize)
           g == CH!ToFilters(CH!WithPage(pq, page), PageSize)
           all == CH!Listing(table, domains, f)
           m == page * PageSize
<1>1. /\ g.page = page + 1 /\ g.page_size = PageSize
      /\ g.sort = f.sort /\ g.sort_dir = f.sort_dir
      /\ \A k \in Narrowing : f[k] = g[k]
    <2>1. /\ DOMAIN pq = {"text", "tags", "ext", "status", "year", "page", "has_ocr", "has_index"}
        BY DEF CH!ParseQuery
    <2> DEFINE pw == CH!WithPage(pq, page)
    <2> HIDE DEF pq
    <2>2. pw.page = page /\ \A k \in DOMAIN pq \ {"page"} : pw[k] = pq[k]
        BY <2>1 DEF CH!WithPage
    <2> HIDE DEF pw
    <2>3. /\ pw.text = pq.text /\ pw.tags = pq.tags /\ pw.ext = pq.ext /\ pw.status = pq.status
          /\ pw.year = pq.year /\ pw.has_ocr = pq.has_ocr /\ pw.has_index = pq.has_index
        BY <2>1, <2>2
    <2>4. /\ CH!ToFilters(pw, PageSize).page = page + 1
          /\ CH!ToFilters(pw, PageSize).page_size = PageSize
          /\ \A k \in Narrowing \cup {"sort", "sort_dir"} :
                CH!ToFilters(pw, PageSize)[k] = CH!ToFilters(pq, PageSize)[k]
        BY <2>2, <2>3 DEF CH!ToFilters, Narrowing, CH!SearchFilters
    <2>5. QED
        BY <2>4 DEF pw
<1> HIDE DEF f, g
<1>2. CH!Listing(table, domains, g) = all
    BY <1>1, AlikeListTheSame
<1>3. PageSize \in Nat \ {0} /\ Len(all) \in Nat /\ m \in Nat
    BY ChConstants, ChListing
<1>4. (g.page - 1) * g.page_size + 1 = m + 1
    BY <1>1
<1> HIDE DEF m, all
<1>5. m + 1 + PageSize - 1 = m + PageSize
    BY <1>3
<1>6. CH!Found(line, page) = CH!SearchDocuments(table, domains, g)
    BY DEF CH!Found, g, pq
<1>7. /\ CH!SearchDocuments(table, domains, g).total = Len(all)
      /\ CH!SearchDocuments(table, domains, g).rows =
            SubSeq(all, m + 1, IF m + PageSize < Len(all) THEN m + PageSize ELSE Len(all))
    BY <1>1, <1>2, <1>4, <1>5 DEF CH!SearchDocuments
<1>8. QED
    BY <1>6, <1>7 DEF all, f, pq, m

-----------------------------------------------------------------------------
(* The bot's pager: the inductive invariant. *)

Lines == {x.line : x \in Questions}

Kept == [CH!Columns -> {None} \cup Domains \cup Lines]

StateTyped ==
    state # None => /\ state \in Kept
                    /\ state["current"] \in Domains \cup {None}
                    /\ state["last"] \in Lines \cup {None}

\* What an update of each kind carries.
UpdateTyped(r) ==
    /\ update[r].op \in {"none", "read", "flushed", "file"}
    /\ update[r].op \in {"read", "flushed"} =>
          /\ \/ DOMAIN update[r].set = {"last"} /\ update[r].set["last"] \in Lines
             \/ DOMAIN update[r].set = {"current"} /\ update[r].set["current"] \in Domains
          /\ update[r].writes \in BOOLEAN
          /\ update[r] = [op |-> update[r].op, found |-> update[r].found, set |-> update[r].set,
                          writes |-> update[r].writes]
    /\ update[r].op = "file" => update[r].doc \in DOMAIN Sent /\ update[r].domain \in Domains

ChatTyped ==
    /\ Shelved /\ StateTyped /\ domains \subseteq Domains /\ buttons \subseteq 0..Shelves
    /\ update = [r \in Requests |-> update[r]] /\ \A r \in Requests : UpdateTyped(r)

\* A search that was answered and waits for its commit; there is one flush at
\* most, since a second waits for the first one's row.
Awaited(r) == update[r].op = "flushed" /\ CH!Searches(update[r])
OneFlushed ==
    \A r, x \in Requests : update[r].op = "flushed" /\ update[x].op = "flushed" => r = x

\* What is walked through is the search that waits, or, if none does, the stored;
\* unless it was answered over another.
WalksTheLast ==
    walk.line # None /\ ~walk.hasty =>
        /\ \A r \in Requests : Awaited(r) => update[r].set["last"] = walk.line
        /\ CH!Stored("last") = walk.line \/ \E r \in Requests : Awaited(r)

\* The walk so far is the beginning of the listing of question x, and leads on.
Shows(x, shown, pages) ==
    LET all == CH!Listing(table, CH!CallerDomains(None, domains), CH!CrossDomainFilter(x.params))
        n == Len(shown)
    IN  /\ n <= Len(all) /\ shown = SubSeq(all, 1, n)
        /\ n < Len(all) => CH!Pages(n) \in pages

WalkShown ==
    walk.line # None /\ ~walk.hasty =>
        \E x \in Questions : x.line = walk.line /\ Shows(x, walk.shown, buttons)

WalkTyped ==
    DOMAIN walk = {"line", "shown", "hasty"} /\ walk.hasty \in BOOLEAN

ChatInv == ChatTyped /\ OneFlushed /\ WalkTyped /\ WalksTheLast /\ WalkShown

-----------------------------------------------------------------------------
(* The bot's pager: turning a page. *)

\* What the bot lists for a line is what the API lists for its question.
LEMMA AskedAlike ==
    ASSUME NEW x \in Questions
    PROVE  /\ CH!Listing(table, CH!CallerDomains(None, domains), CH!CrossDomainFilter(x.params))
              = CH!Listing(table, domains, CH!ToFilters(CH!ParseQuery(x.line), PageSize))
           /\ x.line # None
<1> DEFINE f == CH!ToFilters(CH!ParseQuery(x.line), PageSize)
           g == CH!CrossDomainFilter(x.params)
<1>1. x.line # None /\ \A k \in DOMAIN f \ {"page", "page_size"} : f[k] = g[k]
    BY SharingAssumption DEF CH!ChatAssumption
<1>2. Narrowing \cup {"sort", "sort_dir"} \subseteq DOMAIN f \ {"page", "page_size"}
    <2>1. DOMAIN f = DOMAIN CH!SearchFilters
        BY DEF CH!ToFilters
    <2> HIDE DEF f
    <2>2. QED
        BY <2>1 DEF Narrowing, CH!SearchFilters
<1> HIDE DEF f, g
<1>3. CH!Listing(table, domains, f) = CH!Listing(table, domains, g)
    BY <1>1, <1>2, AlikeListTheSame
<1>4. CH!CallerDomains(None, domains) = domains
    BY DEF CH!CallerDomains
<1>5. QED
    BY <1>1, <1>3, <1>4 DEF f, g

\* The buttons under a page lead to pages there are.
LEMMA PagerLeads ==
    ASSUME NEW total \in Nat, NEW page \in Nat
    PROVE  /\ CH!Pager(page, total) \subseteq 0..total
           /\ (page + 1) * PageSize < total =>
                 /\ page + 1 \in CH!Pager(page, total)
                 /\ CH!Pages((page + 1) * PageSize) = page + 1
<1> DEFINE P == PageSize
           pages == CH!Pages(total)
<1>1. P \in Nat \ {0}
    BY ChConstants
<1>2. total + P - 1 \in Nat /\ pages = (total + P - 1) \div P
    BY <1>1 DEF CH!Pages
<1>3. pages \in Nat /\ pages <= total
    <2>1. total + P - 1 < (total + 1) * P
        <3>1. total * 1 <= total * P
            BY <1>1
        <3>2. (total + 1) * P = total * P + P /\ total * P \in Nat
            BY <1>1
        <3>3. QED
            BY <1>1, <3>1, <3>2
    <2>2. QED
        BY <1>1, <1>2, <2>1, Division
<1>4. CH!Pager(page, total) = {p \in {page - 1, page + 1} : p \in 0..(pages - 1)}
    BY DEF CH!Pager
<1> HIDE DEF pages
<1>5. CH!Pager(page, total) \subseteq 0..total
    BY <1>3, <1>4
<1>6. ASSUME (page + 1) * P < total
      PROVE  page + 1 \in CH!Pager(page, total) /\ CH!Pages((page + 1) * P) = page + 1
    <2> DEFINE m == (page + 1) * P
    <2>1. m \in Nat /\ (page + 2) * P = m + P /\ (page + 1 + 1) * P = m + P
        BY <1>1
    <2>2. page + 2 <= pages
        <3>1. (page + 2) * P <= total + P - 1
            BY <1>1, <1>6, <2>1
        <3>2. QED
            BY <1>1, <1>2, <3>1, Division
    <2>3. page + 1 \in CH!Pager(page, total)
        BY <1>3, <1>4, <2>2
    <2>4. CH!Pages(m) = (m + P - 1) \div P /\ m + P - 1 \in Nat
        BY <1>1, <2>1 DEF CH!Pages
    <2>5. (page + 1) * P <= m + P - 1 /\ m + P - 1 < (page + 1 + 1) * P
        BY <1>1, <2>1
    <2> HIDE DEF m
    <2>6. (m + P - 1) \div P = page + 1
        <3>1. page + 1 <= (m + P - 1) \div P /\ (m + P - 1) \div P <= page + 1
              /\ (m + P - 1) \div P \in Nat
            BY <1>1, <2>4, <2>5, Division
        <3>2. QED
            BY <3>1
    <2>7. QED
        BY <2>3, <2>4, <2>6 DEF m
<1>7. QED
    BY <1>5, <1>6

\* The next page, put after what was shown, shows that much more.
LEMMA NextPage ==
    ASSUME Shelved, NEW x \in Questions, NEW page \in Nat, NEW shown, NEW pages,
           Shows(x, shown, pages), Len(shown) = page * PageSize
    PROVE  LET found == CH!Found(x.line, page)
           IN  Shows(x, shown \o found.rows, pages \cup CH!Pager(page, found.total))
<1> DEFINE all == CH!Listing(table, domains, CH!ToFilters(CH!ParseQuery(x.line), PageSize))
           found == CH!Found(x.line, page)
           m == page * PageSize
           k == IF m + PageSize < Len(all) THEN m + PageSize ELSE Len(all)
<1> DEFINE S == CH!Selected(table, domains, CH!ToFilters(CH!ParseQuery(x.line), PageSize))
<1>1. PICK n \in Nat : Len(all) = n /\ all \in [1..n -> S]
    BY ChListing
<1>2. PageSize \in Nat \ {0} /\ m \in Nat /\ (page + 1) * PageSize = m + PageSize
    BY ChConstants
<1>3. found.total = n /\ found.rows = SubSeq(all, m + 1, k)
    BY <1>1, PageOfLine
<1>4. CH!Listing(table, CH!CallerDomains(None, domains), CH!CrossDomainFilter(x.params)) = all
    BY AskedAlike
<1> HIDE DEF all, found, S
<1>5. m <= n /\ shown = SubSeq(all, 1, m)
    BY <1>1, <1>4 DEF Shows
<1>6. k \in m..n /\ (k < n => k = m + PageSize /\ m + PageSize < n)
    BY <1>1, <1>2, <1>5
<1> HIDE DEF m, k
<1>7. shown \o found.rows = SubSeq(all, 1, k) /\ Len(shown \o found.rows) = k
    <2>1. m \in 0..n
        BY <1>2, <1>5
    <2>2. /\ SubSeq(all, 1, m) \o SubSeq(all, m + 1, k) = SubSeq(all, 1, k)
          /\ Len(SubSeq(all, 1, k)) = k
        BY <1>1, <1>6, <2>1, Turned
    <2>3. QED
        BY <1>3, <1>5, <2>2
<1>8. k < n => CH!Pages(k) \in CH!Pager(page, n)
    BY <1>1, <1>2, <1>6, PagerLeads
<1>9. k <= n
    BY <1>1, <1>2, <1>6
<1>10. QED
    BY <1>1, <1>3, <1>4, <1>7, <1>8, <1>9 DEF Shows, found

LEMMA FirstPage ==
    ASSUME Shelved, NEW x \in Questions, NEW pages
    PROVE  LET found == CH!Found(x.line, 0)
           IN  Shows(x, found.rows, pages \cup CH!Pager(0, found.total))
<1> DEFINE all == CH!Listing(table, domains, CH!ToFilters(CH!ParseQuery(x.line), PageSize))
           found == CH!Found(x.line, 0)
           k == IF PageSize < Len(all) THEN PageSize ELSE Len(all)
<1> DEFINE S == CH!Selected(table, domains, CH!ToFilters(CH!ParseQuery(x.line), PageSize))
<1>1. PICK n \in Nat : Len(all) = n /\ all \in [1..n -> S]
    BY ChListing
<1>2. PageSize \in Nat \ {0} /\ 0 * PageSize = 0 /\ 0 + PageSize = PageSize /\ 0 + 1 = 1
      /\ (0 + 1) * PageSize = PageSize
    BY ChConstants
<1>3. found.total = n /\ found.rows = SubSeq(all, 1, k)
    <2>1. found.rows = SubSeq(all, 0 * PageSize + 1,
              IF 0 * PageSize + PageSize < Len(all) THEN 0 * PageSize + PageSize ELSE Len(all))
          /\ found.total = Len(all)
        BY PageOfLine
    <2> HIDE DEF found, all
    <2>2. QED
        BY <1>1, <1>2, <2>1
<1>4. CH!Listing(table, CH!CallerDomains(None, domains), CH!CrossDomainFilter(x.params)) = all
    BY AskedAlike
<1> HIDE DEF all, found, S
<1>5. k \in 0..n /\ (k < n => k = PageSize /\ PageSize < n)
    BY <1>1, <1>2
<1> HIDE DEF k
<1>6. Len(found.rows) = k
    BY <1>1, <1>3, <1>5, Turned
<1>7. k < n => CH!Pages(k) \in CH!Pager(0, n)
    BY <1>1, <1>2, <1>5, PagerLeads
<1>8. k <= n
    BY <1>5
<1>9. QED
    BY <1>1, <1>3, <1>4, <1>6, <1>7, <1>8 DEF Shows, found

-----------------------------------------------------------------------------
(* The bot's pager: every step keeps the invariant. *)

LEMMA ChInit == CH!Init => ChatInv
<1>1. SUFFICES ASSUME CH!Init PROVE ChatInv
    OBVIOUS
<1>2. Shelved
    BY <1>1, SharingAssumption DEF CH!Init, Shelved, CH!ChatAssumption
<1>3. QED
    BY <1>1, <1>2
    DEF CH!Init, ChatInv, ChatTyped, StateTyped, UpdateTyped, OneFlushed, WalkTyped,
        WalksTheLast, WalkShown, CH!Idle, CH!NoWalk

\* A step of one update that changes nothing but what it has read.
LEMMA ChUpdate ==
    ASSUME ChatInv, NEW r \in Requests, NEW u, update' = [update EXCEPT ![r] = u],
           UNCHANGED <<table, domains, state, buttons, walk>>, UpdateTyped(r)',
           update[r].op # "flushed",
           u.op = "flushed" => /\ \A x \in Requests : update[x].op # "flushed"
                               /\ ~CH!Searches(u)
    PROVE  ChatInv'
<1>1. /\ update'[r] = u /\ \A x \in Requests \ {r} : update'[x] = update[x]
      /\ update' = [x \in Requests |-> update'[x]]
    BY DEF ChatInv, ChatTyped
<1>2. \A x \in Requests : UpdateTyped(x)'
    BY <1>1 DEF ChatInv, ChatTyped, UpdateTyped
<1>3. ChatTyped'
    BY <1>1, <1>2 DEF ChatInv, ChatTyped, Shelved, StateTyped
<1>4. OneFlushed'
    BY <1>1 DEF ChatInv, OneFlushed
<1>5. \A x \in Requests : Awaited(x)' <=> Awaited(x)
    BY <1>1 DEF Awaited, CH!Searches
<1>6. \A x \in Requests : Awaited(x) => update'[x] = update[x]
    BY <1>1 DEF Awaited
<1>7. WalksTheLast'
    BY <1>5, <1>6 DEF ChatInv, WalksTheLast, CH!Stored
<1>8. WalkShown' /\ WalkTyped'
    BY DEF ChatInv, WalkShown, WalkTyped, Shows
<1>9. QED
    BY <1>3, <1>4, <1>7, <1>8 DEF ChatInv

LEMMA ChBegins ==
    ASSUME ChatInv, NEW r \in Requests,
           \/ \E line \in Lines : CH!Find(r, line)
           \/ CH!FindAgain(r) \/ CH!FlushFails(r)
           \/ \E m \in Domains : CH!SetCurrent(r, m)
           \/ \E i \in DOMAIN Sent : CH!OnFile(r, i)
    PROVE  ChatInv'
<1>1. ASSUME NEW line \in Lines, CH!Find(r, line) PROVE ChatInv'
    <2> DEFINE u == [op |-> "read", found |-> state # None, set |-> [c \in {"last"} |-> line],
                    writes |-> CH!Stored("last") # line]
    <2>1. /\ update[r] = CH!Idle /\ update' = [update EXCEPT ![r] = u]
          /\ UNCHANGED <<table, domains, state, buttons, walk>>
        BY <1>1 DEF CH!Find, CH!Begin
    <2>2. /\ u.op = "read" /\ u.set["last"] = line /\ DOMAIN u.set = {"last"}
          /\ u.writes \in BOOLEAN
          /\ u = [op |-> u.op, found |-> u.found, set |-> u.set, writes |-> u.writes]
        OBVIOUS
    <2> HIDE DEF u
    <2>3. update'[r] = u
        BY <2>1 DEF ChatInv, ChatTyped
    <2>4. UpdateTyped(r)'
        BY <2>2, <2>3 DEF UpdateTyped
    <2>5. update[r].op # "flushed" /\ u.op # "flushed"
        BY <2>1, <2>2 DEF CH!Idle
    <2>6. QED
        BY <2>1, <2>4, <2>5, ChUpdate
<1>2. ASSUME CH!FindAgain(r) PROVE ChatInv'
    <2>1. CH!Stored("last") \in Lines
        BY <1>2 DEF CH!FindAgain, CH!Stored, ChatInv, ChatTyped, StateTyped
    <2>2. QED
        BY <1>1, <1>2, <2>1 DEF CH!FindAgain
<1>3. ASSUME NEW m \in Domains, CH!SetCurrent(r, m) PROVE ChatInv'
    <2> DEFINE u == [op |-> "read", found |-> state # None, set |-> [c \in {"current"} |-> m],
                    writes |-> CH!Stored("current") # m]
    <2>1. /\ update[r] = CH!Idle /\ update' = [update EXCEPT ![r] = u]
          /\ UNCHANGED <<table, domains, state, buttons, walk>>
        BY <1>3 DEF CH!SetCurrent, CH!Begin
    <2>2. /\ u.op = "read" /\ u.set["current"] = m /\ DOMAIN u.set = {"current"}
          /\ u.writes \in BOOLEAN
          /\ u = [op |-> u.op, found |-> u.found, set |-> u.set, writes |-> u.writes]
        OBVIOUS
    <2> HIDE DEF u
    <2>3. update'[r] = u
        BY <2>1 DEF ChatInv, ChatTyped
    <2>4. UpdateTyped(r)'
        BY <2>2, <2>3 DEF UpdateTyped
    <2>5. update[r].op # "flushed" /\ u.op # "flushed"
        BY <2>1, <2>2 DEF CH!Idle
    <2>6. QED
        BY <2>1, <2>4, <2>5, ChUpdate
<1>4. ASSUME NEW i \in DOMAIN Sent, CH!OnFile(r, i) PROVE ChatInv'
    <2> DEFINE u == [op |-> "file", doc |-> i, domain |-> CH!CurrentDomain]
    <2>1. /\ update[r] = CH!Idle /\ update' = [update EXCEPT ![r] = u]
          /\ UNCHANGED <<table, domains, state, buttons, walk>> /\ CH!CurrentDomain # None
        BY <1>4 DEF CH!OnFile
    <2>2. CH!CurrentDomain \in Domains
        <3>1. Cardinality({}) = 0
            BY FS_EmptySet
        <3>2. CH!Cardinality(domains) = 1 => domains # {}
            BY <3>1, SameCount
        <3>3. domains \subseteq Domains
            BY DEF ChatInv, ChatTyped
        <3>4. QED
            BY <2>1, <3>2, <3>3 DEF CH!CurrentDomain
    <2>3. u.op = "file" /\ u.doc = i /\ u.domain \in Domains
        BY <2>2
    <2> HIDE DEF u
    <2>4. update'[r] = u
        BY <2>1 DEF ChatInv, ChatTyped
    <2>5. UpdateTyped(r)'
        BY <2>3, <2>4 DEF UpdateTyped
    <2>6. update[r].op # "flushed" /\ u.op # "flushed"
        BY <2>1, <2>3 DEF CH!Idle
    <2>7. QED
        BY <2>1, <2>5, <2>6, ChUpdate
<1>5. ASSUME CH!FlushFails(r) PROVE ChatInv'
    <2>1. /\ update[r].op = "read" /\ update' = [update EXCEPT ![r] = CH!Idle]
          /\ UNCHANGED <<table, domains, state, buttons, walk>>
        BY <1>5 DEF CH!FlushFails, CH!CanFlush
    <2>2. update'[r] = CH!Idle /\ CH!Idle.op = "none"
        BY <2>1 DEF ChatInv, ChatTyped, CH!Idle
    <2>3. UpdateTyped(r)'
        BY <2>2 DEF UpdateTyped
    <2>4. QED
        BY <2>1, <2>2, <2>3, ChUpdate
<1>6. QED
    BY <1>1, <1>2, <1>3, <1>4, <1>5

\* A flush is the only one; what writes nothing is done without.
LEMMA ChFlushes ==
    ASSUME ChatInv, NEW r \in Requests, CH!CanFlush(r), CH!Flush(r)
    PROVE  /\ update'[r].op = IF update[r].writes THEN "flushed" ELSE "none"
           /\ update[r].writes => /\ \A x \in Requests : update[x].op # "flushed"
                                  /\ update'[r].set = update[r].set
           /\ \A x \in Requests \ {r} : update'[x] = update[x]
           /\ update' = [x \in Requests |-> update'[x]]
           /\ update' = [update EXCEPT ![r] = update'[r]]
           /\ UpdateTyped(r)'
<1> DEFINE u == [update[r] EXCEPT !.op = "flushed"]
<1>1. /\ update[r].writes => \A x \in Requests : update[x].op # "flushed"
      /\ update[r].op = "read"
      /\ update' = [update EXCEPT ![r] = IF update[r].writes THEN u ELSE CH!Idle]
    BY DEF CH!CanFlush, CH!Flush
<1>2. UpdateTyped(r) /\ update[r].writes \in BOOLEAN
    BY <1>1 DEF ChatInv, ChatTyped, UpdateTyped
<1>3. u = [op |-> "flushed", found |-> update[r].found, set |-> update[r].set,
           writes |-> update[r].writes]
    BY <1>1, <1>2 DEF UpdateTyped
<1> HIDE DEF u
<1>4. /\ update'[r] = IF update[r].writes THEN u ELSE CH!Idle
      /\ \A x \in Requests \ {r} : update'[x] = update[x]
      /\ update' = [x \in Requests |-> update'[x]]
    BY <1>1 DEF ChatInv, ChatTyped
<1>5. UpdateTyped(r)'
    <2>1. CASE update[r].writes
        BY <1>1, <1>2, <1>3, <1>4, <2>1 DEF UpdateTyped
    <2>2. CASE ~update[r].writes
        BY <1>4, <2>2 DEF UpdateTyped, CH!Idle
    <2>3. QED
        BY <2>1, <2>2
<1>6. QED
    BY <1>1, <1>2, <1>3, <1>4, <1>5 DEF CH!Idle

LEMMA ChCurrentSet ==
    ASSUME ChatInv, NEW r \in Requests, CH!CurrentSet(r)
    PROVE  ChatInv'
<1>1. /\ CH!CanFlush(r) /\ CH!Flush(r) /\ ~CH!Searches(update[r])
      /\ update[r].op # "flushed"
      /\ UNCHANGED <<table, domains, state, buttons, walk>>
    BY DEF CH!CurrentSet, CH!CanFlush
<1> DEFINE u == update'[r]
<1>2. /\ u.op = "flushed" => /\ \A x \in Requests : update[x].op # "flushed"
                             /\ u.set = update[r].set
      /\ update' = [update EXCEPT ![r] = u] /\ UpdateTyped(r)'
    BY <1>1, ChFlushes
<1>3. u.op = "flushed" => ~CH!Searches(u)
    BY <1>1, <1>2 DEF CH!Searches
<1> HIDE DEF u
<1>4. QED
    BY <1>1, <1>2, <1>3, ChUpdate

\* The first page: what is shown is the beginning of what the line lists.
LEMMA ChAnswer ==
    ASSUME ChatInv, NEW r \in Requests, CH!Answer(r)
    PROVE  ChatInv'
<1> DEFINE line == update[r].set["last"]
           found == CH!Found(line, 0)
<1>1. /\ CH!CanFlush(r) /\ CH!Flush(r) /\ CH!Searches(update[r])
      /\ UNCHANGED <<table, domains, state>>
      /\ buttons' = buttons \cup CH!Pager(0, found.total)
      /\ walk' = [line |-> line, shown |-> found.rows, hasty |-> CH!Superseded(r)]
    BY DEF CH!Answer
<1>2. /\ update'[r].op = IF update[r].writes THEN "flushed" ELSE "none"
      /\ update[r].writes => /\ \A x \in Requests : update[x].op # "flushed"
                             /\ update'[r].set = update[r].set
      /\ \A x \in Requests \ {r} : update'[x] = update[x]
      /\ update' = [x \in Requests |-> update'[x]]
      /\ UpdateTyped(r)'
    BY <1>1, ChFlushes
<1>3. line \in Lines
    BY <1>1 DEF ChatInv, ChatTyped, UpdateTyped, CH!CanFlush, CH!Searches
<1>4. PICK x \in Questions : x.line = line
    BY <1>3 DEF Lines
<1>5. Shelved
    BY DEF ChatInv, ChatTyped
<1>6. Shows(x, found.rows, buttons \cup CH!Pager(0, found.total))
    BY <1>4, <1>5, FirstPage
<1>7. CH!Pager(0, found.total) \subseteq 0..Shelves
    <2>1. found.total \in Nat /\ found.total <= Shelves
        BY <1>5, PageOfLine, ChListing
    <2> HIDE DEF found
    <2>2. QED
        BY <2>1, PagerLeads, ChConstants
<1> HIDE DEF line, found
<1>8. /\ walk'.line = line /\ walk'.shown = found.rows /\ walk'.hasty = CH!Superseded(r)
      /\ WalkTyped'
    <2>1. CH!Superseded(r) \in BOOLEAN
        BY DEF CH!Superseded
    <2>2. QED
        BY <1>1, <2>1 DEF WalkTyped
<1>9. \A y \in Requests : UpdateTyped(y)'
    BY <1>2 DEF ChatInv, ChatTyped, UpdateTyped
<1>10. ChatTyped'
    BY <1>1, <1>2, <1>7, <1>9 DEF ChatInv, ChatTyped, Shelved, StateTyped
<1>11. OneFlushed'
    BY <1>2 DEF ChatInv, OneFlushed
<1>12. ASSUME update[r].writes
       PROVE  Awaited(r)' /\ \A y \in Requests : Awaited(y)' => y = r
    BY <1>1, <1>2, <1>12 DEF Awaited, CH!Searches
<1>13. ASSUME ~update[r].writes, ~CH!Superseded(r)
       PROVE  CH!Stored("last")' = line /\ \A y \in Requests : ~Awaited(y)'
    BY <1>1, <1>2, <1>13 DEF CH!Superseded, Awaited, CH!Searches, CH!Stored, line
<1>14. WalksTheLast'
    <2>1. CASE update[r].writes
        BY <1>2, <1>8, <1>12, <2>1 DEF WalksTheLast, line
    <2>2. CASE ~update[r].writes
        BY <1>8, <1>13, <2>2 DEF WalksTheLast
    <2>3. QED
        BY <2>1, <2>2
<1>15. Shows(x, walk.shown, buttons)'
    BY <1>1, <1>6, <1>8 DEF Shows
<1>16. WalkShown'
    BY <1>4, <1>8, <1>15 DEF WalkShown, line
<1>17. QED
    BY <1>8, <1>10, <1>11, <1>14, <1>16 DEF ChatInv

LEMMA ChPaginate ==
    ASSUME ChatInv, NEW page \in buttons, CH!Paginate(page)
    PROVE  ChatInv'
<1> DEFINE line == IF CH!Stored("last") = None THEN <<>> ELSE CH!Stored("last")
           found == CH!Found(line, page)
           next == page * PageSize = Len(walk.shown)
           hasty == walk.hasty \/ \E r \in Requests :
                        update[r].op = "flushed" /\ CH!Searches(update[r])
           more == [walk EXCEPT !.shown = walk.shown \o found.rows, !.hasty = hasty]
<1>1. /\ UNCHANGED <<table, domains, state, update>>
      /\ buttons' = buttons \cup CH!Pager(page, found.total)
      /\ walk' = IF walk.line = None \/ ~next THEN walk ELSE more
    BY DEF CH!Paginate
<1>2. Shelved /\ page \in Nat /\ buttons \subseteq 0..Shelves
    BY ChConstants DEF ChatInv, ChatTyped
<1>3. CH!Pager(page, found.total) \subseteq 0..Shelves
    <2>1. found.total \in Nat /\ found.total <= Shelves
        BY <1>2, PageOfLine, ChListing
    <2> HIDE DEF found
    <2>2. QED
        BY <1>2, <2>1, PagerLeads, ChConstants
<1>4. more.line = walk.line /\ more.shown = walk.shown \o found.rows /\ more.hasty = hasty
      /\ DOMAIN more = DOMAIN walk
    <2>1. DOMAIN walk = {"line", "shown", "hasty"}
        BY DEF ChatInv, WalkTyped
    <2> HIDE DEF found, hasty
    <2>2. QED
        BY <2>1
<1>5. hasty \in BOOLEAN
    BY DEF ChatInv, WalkTyped
<1> HIDE DEF found, more
<1>6. walk'.line = walk.line /\ WalkTyped'
    BY <1>1, <1>4, <1>5 DEF ChatInv, WalkTyped
<1>7. ChatTyped' /\ OneFlushed'
    BY <1>1, <1>2, <1>3
    DEF ChatInv, ChatTyped, Shelved, StateTyped, UpdateTyped, OneFlushed
<1>8. WalksTheLast'
    <2>1. walk.hasty => walk'.hasty
        BY <1>1, <1>4
    <2>2. QED
        BY <1>1, <1>6, <2>1 DEF ChatInv, WalksTheLast, Awaited, CH!Stored
<1>9. ASSUME walk.line = None \/ ~next PROVE WalkShown'
    <2>1. walk' = walk
        BY <1>1, <1>9
    <2>2. ASSUME NEW x \in Questions, Shows(x, walk.shown, buttons)
          PROVE  Shows(x, walk.shown, buttons)'
        BY <1>1, <2>1, <2>2 DEF Shows
    <2>3. QED
        BY <2>1, <2>2 DEF ChatInv, WalkShown
<1>10. ASSUME walk.line # None, next, ~hasty PROVE WalkShown'
    <2>1. walk' = more
        BY <1>1, <1>10
    <2>2. line = walk.line
        BY <1>10 DEF ChatInv, WalksTheLast, Awaited
    <2>3. PICK x \in Questions : x.line = walk.line /\ Shows(x, walk.shown, buttons)
        BY <1>10 DEF ChatInv, WalkShown
    <2>4. Shows(x, walk.shown \o found.rows, buttons \cup CH!Pager(page, found.total))
        BY <1>2, <1>10, <2>2, <2>3, NextPage DEF found
    <2>5. Shows(x, walk.shown, buttons)'
        BY <1>1, <1>4, <2>1, <2>4 DEF Shows
    <2>6. QED
        BY <1>6, <2>3, <2>5 DEF WalkShown
<1>11. ASSUME walk.line # None, next, hasty PROVE WalkShown'
    BY <1>1, <1>4, <1>11 DEF WalkShown
<1>12. QED
    BY <1>6, <1>7, <1>8, <1>9, <1>10, <1>11 DEF ChatInv

\* The stored row is never None: it is what it was, with one column written.
LEMMA ChCommit ==
    ASSUME ChatInv, NEW r \in Requests, CH!Commit(r)
    PROVE  ChatInv'
<1> DEFINE row == CH!Upserted(update[r].set)
<1>1. /\ update[r].op = "flushed" /\ state' = row
      /\ update' = [update EXCEPT ![r] = CH!Idle]
      /\ UNCHANGED <<table, domains, buttons, walk>>
    BY DEF CH!Commit
<1>2. /\ update'[r] = CH!Idle /\ \A x \in Requests \ {r} : update'[x] = update[x]
      /\ update' = [x \in Requests |-> update'[x]] /\ CH!Idle.op = "none"
    BY <1>1 DEF ChatInv, ChatTyped, CH!Idle
<1>3. \A x \in Requests \ {r} : update[x].op # "flushed"
    BY <1>1 DEF ChatInv, OneFlushed
<1>4. /\ \/ DOMAIN update[r].set = {"last"} /\ update[r].set["last"] \in Lines
         \/ DOMAIN update[r].set = {"current"} /\ update[r].set["current"] \in Domains
    BY <1>1 DEF ChatInv, ChatTyped, UpdateTyped
<1>5. /\ CH!Stored("current") \in Domains \cup {None} /\ CH!Stored("last") \in Lines \cup {None}
    BY DEF ChatInv, ChatTyped, StateTyped, CH!Stored
<1>6. /\ row \in Kept
      /\ row["current"] \in Domains \cup {None} /\ row["last"] \in Lines \cup {None}
      /\ row["last"] = IF CH!Searches(update[r]) THEN update[r].set["last"] ELSE CH!Stored("last")
    BY <1>4, <1>5 DEF CH!Upserted, CH!Columns, CH!Searches, Kept
<1> HIDE DEF row
<1>7. row # None
    <2>1. row = [current |-> row["current"], last |-> row["last"]]
        BY <1>6 DEF Kept, CH!Columns
    <2>2. None # [current |-> row["current"], last |-> row["last"]]
        BY <1>6, SharingAssumption DEF CH!ChatAssumption, Lines
    <2>3. QED
        BY <2>1, <2>2
<1>8. \A x \in Requests : UpdateTyped(x)'
    BY <1>2 DEF ChatInv, ChatTyped, UpdateTyped
<1>9. ChatTyped'
    BY <1>1, <1>2, <1>6, <1>8 DEF ChatInv, ChatTyped, Shelved, StateTyped
<1>10. \A x \in Requests : update'[x].op # "flushed"
    BY <1>2, <1>3
<1>11. OneFlushed' /\ \A x \in Requests : ~Awaited(x)'
    BY <1>10 DEF OneFlushed, Awaited
<1>12. walk.line # None /\ ~walk.hasty => row["last"] = walk.line
    BY <1>1, <1>3, <1>6 DEF ChatInv, WalksTheLast, Awaited
<1>13. CH!Stored("last")' = row["last"]
    BY <1>1, <1>7 DEF CH!Stored
<1>14. WalksTheLast'
    BY <1>1, <1>11, <1>12, <1>13 DEF WalksTheLast
<1>15. WalkShown' /\ WalkTyped'
    BY <1>1 DEF ChatInv, WalkShown, WalkTyped, Shows
<1>16. QED
    BY <1>9, <1>11, <1>14, <1>15 DEF ChatInv

\* Without a walk there is nothing to say of it.
LEMMA ChNoWalk ==
    ASSUME ChatTyped', OneFlushed', walk' = CH!NoWalk
    PROVE  ChatInv'
BY DEF ChatInv, WalkTyped, WalksTheLast, WalkShown, CH!NoWalk

LEMMA ChRollBack ==
    ASSUME ChatInv, NEW r \in Requests, CH!RollBack(r)
    PROVE  ChatInv'
<1>1. /\ update[r].op = "flushed" /\ update' = [update EXCEPT ![r] = CH!Idle]
      /\ walk' = IF CH!Searches(update[r]) THEN CH!NoWalk ELSE walk
      /\ UNCHANGED <<table, domains, state, buttons>>
    BY DEF CH!RollBack
<1>2. /\ update'[r] = CH!Idle /\ \A x \in Requests \ {r} : update'[x] = update[x]
      /\ update' = [x \in Requests |-> update'[x]] /\ CH!Idle.op = "none"
    BY <1>1 DEF ChatInv, ChatTyped, CH!Idle
<1>3. \A x \in Requests : update'[x].op # "flushed"
    BY <1>1, <1>2 DEF ChatInv, OneFlushed
<1>4. \A x \in Requests : UpdateTyped(x)'
    BY <1>2 DEF ChatInv, ChatTyped, UpdateTyped
<1>5. ChatTyped'
    BY <1>1, <1>2, <1>4 DEF ChatInv, ChatTyped, Shelved, StateTyped
<1>6. OneFlushed' /\ \A x \in Requests : ~Awaited(x)'
    BY <1>3 DEF OneFlushed, Awaited
<1>7. CASE CH!Searches(update[r])
    BY <1>1, <1>5, <1>6, <1>7, ChNoWalk
<1>8. CASE ~CH!Searches(update[r])
    <2>1. \A x \in Requests : ~Awaited(x)
        BY <1>1, <1>8 DEF ChatInv, OneFlushed, Awaited
    <2>2. WalksTheLast'
        BY <1>1, <1>6, <1>8, <2>1 DEF ChatInv, WalksTheLast, CH!Stored
    <2>3. WalkShown' /\ WalkTyped'
        BY <1>1, <1>8 DEF ChatInv, WalkShown, WalkTyped, Shows
    <2>4. QED
        BY <1>5, <1>6, <2>2, <2>3 DEF ChatInv
<1>9. QED
    BY <1>7, <1>8

LEMMA ChIngested ==
    ASSUME ChatInv, NEW r \in Requests, CH!Ingested(r)
    PROVE  ChatInv'
<1> DEFINE i == update[r].doc
           new == [Sent[i] EXCEPT !.domain = update[r].domain]
<1>1. /\ update[r].op = "file" /\ update' = [update EXCEPT ![r] = CH!Idle]
      /\ table' = [j \in DOMAIN table \cup {i} |-> IF j = i THEN new ELSE table[j]]
      /\ walk' = CH!NoWalk /\ UNCHANGED <<domains, state, buttons>>
    BY DEF CH!Ingested
<1>2. i \in DOMAIN Sent /\ update[r].domain \in Domains
    BY <1>1 DEF ChatInv, ChatTyped, UpdateTyped
<1>3. CH!IsRow(new) /\ new.domain \in Domains
    <2>1. CH!IsRow(Sent[i])
        BY <1>2, SharingAssumption DEF CH!ChatAssumption
    <2>2. DOMAIN new = DOMAIN Sent[i] /\ \A c \in CH!SortColumns : new[c] = Sent[i][c]
        BY DEF CH!SortColumns
    <2>3. "domain" \in DOMAIN Sent[i]
        BY <2>1 DEF CH!IsRow
    <2>4. new.domain = update[r].domain
        BY <2>3
    <2> HIDE DEF new
    <2>5. QED
        BY <1>2, <2>1, <2>2, <2>4 DEF CH!IsRow
<1> HIDE DEF new, i
<1>4. Shelved'
    BY <1>1, <1>2, <1>3 DEF ChatInv, ChatTyped, Shelved
<1>5. /\ update'[r] = CH!Idle /\ \A x \in Requests \ {r} : update'[x] = update[x]
      /\ update' = [x \in Requests |-> update'[x]] /\ CH!Idle.op = "none"
    BY <1>1 DEF ChatInv, ChatTyped, CH!Idle
<1>6. \A x \in Requests : UpdateTyped(x)'
    BY <1>5 DEF ChatInv, ChatTyped, UpdateTyped
<1>7. ChatTyped'
    BY <1>1, <1>4, <1>5, <1>6 DEF ChatInv, ChatTyped, StateTyped
<1>8. OneFlushed'
    BY <1>5 DEF ChatInv, OneFlushed
<1>9. QED
    BY <1>1, <1>7, <1>8, ChNoWalk

LEMMA ChEnvironment ==
    ASSUME ChatInv,
           \/ \E i \in Fading : CH!Trash(i)
           \/ \E m \in Leaving : CH!Membership(m)
           \/ UNCHANGED chvars
    PROVE  ChatInv'
<1>1. ASSUME NEW i \in Fading, CH!Trash(i) PROVE ChatInv'
    <2>1. /\ table' = [table EXCEPT ![i] = [table[i] EXCEPT !.trashed = TRUE]]
          /\ walk' = CH!NoWalk /\ UNCHANGED <<domains, state, buttons, update>>
        BY <1>1 DEF CH!Trash
    <2>2. DOMAIN table' = DOMAIN table
          /\ \A j \in DOMAIN table : DOMAIN table'[j] = DOMAIN table[j]
        BY <2>1
    <2>3. \A j \in DOMAIN table, c \in CH!SortColumns \cup {"domain"} : table'[j][c] = table[j][c]
        <3>1. \A c \in CH!SortColumns \cup {"domain"} : c # "trashed"
            BY DEF CH!SortColumns
        <3>2. \A j \in DOMAIN table : table'[j] \in {table[j], [table[j] EXCEPT !.trashed = TRUE]}
            BY <2>1
        <3>3. \A j \in DOMAIN table, c \in CH!SortColumns \cup {"domain"} :
                  [table[j] EXCEPT !.trashed = TRUE][c] = table[j][c] \/ c \notin DOMAIN table[j]
            BY <3>1
        <3>4. \A j \in DOMAIN table : CH!SortColumns \cup {"domain"} \subseteq DOMAIN table[j]
            BY DEF ChatInv, ChatTyped, Shelved, CH!IsRow
        <3>5. QED
            BY <3>2, <3>3, <3>4
    <2>4. Shelved'
        BY <2>2, <2>3 DEF ChatInv, ChatTyped, Shelved, CH!IsRow
    <2>5. ChatTyped' /\ OneFlushed'
        BY <2>1, <2>4 DEF ChatInv, ChatTyped, StateTyped, UpdateTyped, OneFlushed
    <2>6. QED
        BY <2>1, <2>5, ChNoWalk
<1>2. ASSUME NEW m \in Leaving, CH!Membership(m) PROVE ChatInv'
    <2>1. domains' \subseteq Domains
        BY <1>2, SharingAssumption DEF CH!Membership, CH!ChatAssumption, ChatInv, ChatTyped
    <2>2. ChatTyped' /\ OneFlushed' /\ walk' = CH!NoWalk
        BY <1>2, <2>1
        DEF CH!Membership, ChatInv, ChatTyped, Shelved, StateTyped, UpdateTyped, OneFlushed
    <2>3. QED
        BY <2>2, ChNoWalk
<1>3. CASE UNCHANGED chvars
    BY <1>3
    DEF chvars, ChatInv, ChatTyped, Shelved, StateTyped, UpdateTyped, OneFlushed, WalkTyped,
        WalksTheLast, WalkShown, Shows, Awaited, CH!Stored
<1>4. QED
    BY <1>1, <1>2, <1>3

LEMMA ChNext == ChatInv /\ (CH!Next \/ UNCHANGED chvars) => ChatInv'
<1>1. \A x \in Questions : x.line \in Lines
    BY DEF Lines
<1>2. QED
    BY <1>1, ChBegins, ChCurrentSet, ChAnswer, ChPaginate, ChCommit, ChRollBack, ChIngested,
       ChEnvironment
    DEF CH!Next

LEMMA ChTypeOK == ChatInv => CH!TypeOK
<1>1. CH!Cardinality(DOMAIN Shelf \cup DOMAIN Sent) = Shelves
    BY SameCount DEF Shelves
<1>2. QED
    BY <1>1
    DEF ChatInv, ChatTyped, Shelved, StateTyped, UpdateTyped, Kept, CH!TypeOK

LEMMA ChWalk == ChatInv => CH!WalkShowsAllUnlessHasty
BY DEF ChatInv, WalkShown, Shows, CH!WalkShowsAllUnlessHasty

-----------------------------------------------------------------------------
(* The parts together. *)

SharingInv ==
    IInv /\ ExportsInv /\ FiltersInv /\ SavedFiltersInv /\ SetTyped /\ ChatInv

SharingVars == <<part, vars, dsvars, exvars, chvars>>

LEMMA SharingInit == MCInit => SharingInv
BY InvInit, ExInit, DsInit, SavedInit, SetInit, ChInit DEF MCInit, SharingInv

\* Each part makes a step of its own or stands still.
LEMMA SharingStep ==
    [MCNext]_SharingVars => /\ Next \/ UNCHANGED vars
                            /\ DS!Next \/ UNCHANGED dsvars
                            /\ EX!Next \/ UNCHANGED exvars
                            /\ CH!Next \/ UNCHANGED chvars
BY DEF MCNext, SharingVars

LEMMA SharingNext == SharingInv /\ [MCNext]_SharingVars => SharingInv'
BY SharingStep, InvNext, InvStutter, ExNext, DsNext, SavedNext, SetNext, ChNext
DEF SharingInv, FiltersInv

\* SharingInv holds in every reachable state.
THEOREM SharingInvariant == MCSpec => []SharingInv
<1>1. QED
    BY SharingInit, SharingNext, PTL DEF MCSpec, SharingVars

\* No filter is in a set twice, nor two at one place, but by a request whose
\* lookup another insert overtook (docsets.add_filter).
THEOREM FiltersDistinct == MCSpec => []FiltersDistinctUnlessRaced
<1>1. SharingInv => FiltersDistinctUnlessRaced
    BY DEF SharingInv, FiltersInv, FiltersDistinctUnlessRaced
<1>2. QED
    BY <1>1, SharingInvariant, PTL

\* A search saved to a set finds there what the search page finds with the same
\* form, and the link from the set leads back to it (SearchFilters.to_dict and
\* from_dict, the three ways into and out of the form), as long as its owner is a
\* member of the domain it was saved for; once he has left, it finds nothing.
THEOREM SavedSearches == MCSpec => []SavedSearchFindsTheSame
<1>1. SharingInv => SavedSearchFindsTheSame
    BY SavedFinds DEF SharingInv, SavedSearchFindsTheSame
<1>2. QED
    BY <1>1, SharingInvariant, PTL

\* What can be downloaded of an export is whole, lists the documents it counts,
\* lacks the file of none but purged ones, and its counts add up to the snapshot
\* (build_artifact, which skips a document whose blob is gone).
THEOREM ExportsTellTheTruth == MCSpec => []DownloadIsAccountedFor
<1>1. SharingInv => DownloadIsAccountedFor
    BY DEF SharingInv, ExportsInv, ExportInv, ReadyTells, DownloadIsAccountedFor,
           EX!DownloadIsAccountedFor, EX!Downloadable
<1>2. QED
    BY <1>1, SharingInvariant, PTL

\* An export file is without its row only after a build that was cut short or
\* overtaken by the cleanup, or the deletion of its domain.
THEOREM ExportFilesHaveRows == MCSpec => []FilesHaveRowsUnlessLeaked
<1>1. SharingInv => FilesHaveRowsUnlessLeaked
    BY DEF SharingInv, ExportsInv, ExportInv, FileHasRow, FilesHaveRowsUnlessLeaked,
           EX!FilesHaveRowsUnlessLeaked
<1>2. QED
    BY <1>1, SharingInvariant, PTL

\* The variables of links, sets, exports and of the bot's conversation stay in
\* their ranges; items are documents, links hang on artifacts, and every button
\* leads to a page there may be.
THEOREM SharingTypes == MCSpec => []SharingTypeOK
<1>1. SharingInv => SharingTypeOK
    <2>1. IInv => TypeOK
        BY RequestByOp DEF IInv, Typed, LinksHang, TypeOK
    <2>2. QED
        BY <2>1, SetTypeOK, ChTypeOK DEF SharingInv, ExportsInv, SharingTypeOK
<1>2. QED
    BY <1>1, SharingInvariant, PTL

\* An archive that passes the size guard holds all that the set should share,
\* unless a filter matches more than the page it is cut to and some of that is
\* not shared (docsets.resolve: set_max_docs + 1 rows of each filter, whatever
\* its order).
THEOREM SharesAreWhole == MCSpec => []ShareWholeUnlessOverflowing
<1>1. SharingInv => ShareWholeUnlessOverflowing
    BY SharesWhole DEF SharingInv, SetTyped, ShareWholeUnlessOverflowing
<1>2. QED
    BY <1>1, SharingInvariant, PTL

\* Who turns the pages of a /find one by one sees what the API lists for the
\* same question, unless a page is turned before the search is committed, or a
\* repeated /find is answered after another search was written over the one it read.
THEOREM WalksShowAll == MCSpec => []WalkShowsAllUnlessHasty
<1>1. SharingInv => WalkShowsAllUnlessHasty
    BY ChWalk DEF SharingInv, WalkShowsAllUnlessHasty
<1>2. QED
    BY <1>1, SharingInvariant, PTL
=============================================================================
