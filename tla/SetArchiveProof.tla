---------------------------- MODULE SetArchiveProof ----------------------------
(* Proofs about SetArchive, for every set of documents, records, requests    *)
(* and job slots, and whatever mishaps: the types; and, unless two first     *)
(* accesses overlap, that the set has one record, that a record which says   *)
(* ready tells what is in the file, and that who is told to wait waits for a *)
(* build that is coming.                                                     *)
EXTENDS SetArchive, TLAPS

-----------------------------------------------------------------------------
(* Types, and that rows stay: what a process remembers by its id is there.   *)

HitsFind == \A h \in Hits : hit[h] # None /\ hit[h].id # None => hit[h].id \in Artifacts
BuildsFind == \A b \in Running : build[b].id \in Artifacts
CleanupFinds == cleanup # None => cleanup.due \subseteq Artifacts

Typed == TypeOK /\ HitsFind /\ BuildsFind /\ CleanupFinds

LEMMA RowsAre ==
    ASSUME TypeOK
    PROVE  /\ Artifacts \subseteq ArtifactIds
           /\ \A a \in Artifacts : artifact[a] \in Row
           /\ Running \subseteq Builders
           /\ \A b \in Running : build[b] \in Build
BY DEF TypeOK, Artifacts, Running

LEMMA TypedInit == Init => Typed
<1>. SUFFICES ASSUME Init PROVE Typed
    OBVIOUS
<1>1. TypeOK
    <2>1. queue \in 0 .. MaxQueue
        BY MaxQueueAssumption DEF Init
    <2>2. artifact \in [ArtifactIds -> Row \cup {None}] /\ public \in View
          /\ hit \in [Hits -> Hit \cup {None}] /\ build \in [Builders -> Build \cup {None}]
        BY DEF Init
    <2>3. dropped \in BOOLEAN /\ spoiled \in BOOLEAN
        BY DEF Init
    <2>4. file \in Zip \cup {None} /\ cleanup = None
        BY DEF Init
    <2>5. QED
        BY <2>1, <2>2, <2>3, <2>4 DEF TypeOK
<1>2. HitsFind /\ BuildsFind /\ CleanupFinds
    BY DEF Init, HitsFind, BuildsFind, CleanupFinds, Running
<1>3. QED
    BY <1>1, <1>2 DEF Typed

\* Time and the set's contents.
LEMMA TypedAround ==
    ASSUME Typed,
           (\E d \in Docs : Publish(d) \/ Hide(d)) \/ (\E a \in ArtifactIds : Expire(a))
    PROVE  Typed'
<1>1. UNCHANGED <<file, queue, hit, build, cleanup, dropped, spoiled>>
    BY DEF Publish, Hide, Expire, history
<1>2. /\ public' \in View /\ artifact' \in [ArtifactIds -> Row \cup {None}]
      /\ Artifacts' = Artifacts
    <2>1. CASE \E d \in Docs : Publish(d) \/ Hide(d)
        BY <2>1 DEF Publish, Hide, Typed, TypeOK, View, Artifacts
    <2>2. CASE \E a \in ArtifactIds : Expire(a)
        <3>1. PICK a \in Artifacts : artifact' = [artifact EXCEPT ![a].expired = TRUE]
            BY <2>2 DEF Expire
        <3>2. a \in ArtifactIds /\ artifact[a] \in Row /\ public' = public
            BY <2>2, RowsAre DEF Typed, Expire
        <3>3. [artifact[a] EXCEPT !.expired = TRUE] \in Row
            BY <3>2 DEF Row
        <3>4. artifact' = [artifact EXCEPT ![a] = [artifact[a] EXCEPT !.expired = TRUE]]
            BY <3>1
        <3>5. QED
            BY <3>2, <3>3, <3>4, NoneAssumption DEF Typed, TypeOK, Artifacts
    <2>3. QED
        BY <2>1, <2>2
<1>3. Running' = Running
    BY <1>1 DEF Running
<1>4. QED
    BY <1>1, <1>2, <1>3 DEF Typed, TypeOK, HitsFind, BuildsFind, CleanupFinds

\* A request notes what it reads.
LEMMA TypedReads ==
    ASSUME Typed, NEW h \in Hits, NEW q \in Hit \cup {None}, hit' = [hit EXCEPT ![h] = q],
           q # None /\ q.id # None => q.id \in Artifacts,
           UNCHANGED <<public, artifact, file, queue, build, cleanup, dropped, spoiled>>
    PROVE  Typed'
<1>1. hit' \in [Hits -> Hit \cup {None}] /\ \A k \in Hits : hit'[k] = IF k = h THEN q ELSE hit[k]
    BY DEF Typed, TypeOK
<1>2. Running' = Running /\ Artifacts' = Artifacts
    BY DEF Running, Artifacts
<1>3. TypeOK'
    BY <1>1 DEF Typed, TypeOK
<1>4. HitsFind'
    BY <1>1, <1>2 DEF Typed, HitsFind
<1>5. BuildsFind' /\ CleanupFinds'
    BY <1>2 DEF Typed, BuildsFind, CleanupFinds
<1>6. QED
    BY <1>3, <1>4, <1>5 DEF Typed

LEMMA NewHitTyped == NewHit \in Hit /\ NewHit.id = None
BY DEF NewHit, Hit, View

LEMMA TypedFollow ==
    ASSUME Typed, NEW h \in Hits, HitFollow(h)
    PROVE  Typed'
<1>1. PICK a \in Artifacts :
          hit' = [hit EXCEPT ![h] = [NewHit EXCEPT !.id = a, !.linked = artifact[a]]]
    BY DEF HitFollow
<1>2. a \in ArtifactIds /\ artifact[a] \in Row
    BY <1>1, RowsAre DEF Typed
<1>3. /\ [NewHit EXCEPT !.id = a, !.linked = artifact[a]] \in Hit
      /\ [NewHit EXCEPT !.id = a, !.linked = artifact[a]].id = a
    BY <1>2, NewHitTyped DEF Hit
<1>4. UNCHANGED <<public, artifact, file, queue, build, cleanup, dropped, spoiled>>
    BY DEF HitFollow, history
<1>5. QED
    BY <1>1, <1>3, <1>4, TypedReads

LEMMA TypedResolve ==
    ASSUME Typed, NEW h \in Hits, HitResolve(h)
    PROVE  Typed'
<1>1. UNCHANGED <<public, artifact, file, queue, build, cleanup, dropped, spoiled>>
      /\ public \in View
    BY DEF HitResolve, history, Typed, TypeOK
<1>2. CASE Idle(hit[h])
    <2> DEFINE q == [NewHit EXCEPT !.step = "resolved", !.current = public]
    <2>1. q \in Hit /\ q.id = None
        BY <1>1, NewHitTyped DEF Hit
    <2>2. hit' = [hit EXCEPT ![h] = q]
        BY <1>2 DEF HitResolve
    <2> HIDE DEF q
    <2>3. QED
        BY <1>1, <2>1, <2>2, TypedReads
<1>3. CASE ~Idle(hit[h])
    <2> DEFINE q == [hit[h] EXCEPT !.step = "resolved", !.current = public]
    <2>1. hit[h] \in Hit /\ hit[h] # None
        BY <1>3 DEF Idle, Typed, TypeOK
    <2>2. q \in Hit /\ q.id = hit[h].id
        BY <1>1, <2>1 DEF Hit
    <2>3. hit' = [hit EXCEPT ![h] = q]
        BY <1>3 DEF HitResolve
    <2>4. q.id # None => q.id \in Artifacts
        BY <2>1, <2>2 DEF Typed, HitsFind
    <2> HIDE DEF q
    <2>5. QED
        BY <1>1, <2>2, <2>3, <2>4, TypedReads
<1>4. QED
    BY <1>2, <1>3

LEMMA LoadedRows ==
    ASSUME Typed, NEW h \in Hits, hit[h] # None, NEW found \in Loaded(h)
    PROVE  /\ found[2] \in Row
           /\ found[1] \in ArtifactIds \cup {None}
           /\ found[1] # None => found[1] \in Artifacts
<1>1. hit[h] \in Hit /\ (hit[h].id # None => hit[h].id \in Artifacts)
    BY DEF Typed, TypeOK, HitsFind
<1>2. CASE hit[h].linked # None
    BY <1>1, <1>2 DEF Loaded, Hit
<1>3. CASE hit[h].linked = None
    BY <1>3, RowsAre DEF Loaded, Typed
<1>4. QED
    BY <1>2, <1>3

LEMMA TypedLoad ==
    ASSUME Typed, NEW h \in Hits, HitLoad(h)
    PROVE  Typed'
<1>1. UNCHANGED <<public, artifact, file, queue, build, cleanup, dropped, spoiled>>
    BY DEF HitLoad, history
<1>2. hit[h] \in Hit /\ hit[h] # None /\ (hit[h].id # None => hit[h].id \in Artifacts)
    BY DEF HitLoad, Idle, Typed, TypeOK, HitsFind
<1>3. PICK q \in Hit \cup {None} : /\ hit' = [hit EXCEPT ![h] = q]
                                   /\ q # None /\ q.id # None => q.id \in Artifacts
    <2>1. CASE Loaded(h) = {}
        <3> DEFINE q == [hit[h] EXCEPT !.step = "retarget"]
        <3>1. q \in Hit /\ q.id = hit[h].id
            BY <1>2 DEF Hit
        <3>2. hit' = [hit EXCEPT ![h] = q]
            BY <2>1 DEF HitLoad
        <3> HIDE DEF q
        <3>3. QED
            BY <1>2, <3>1, <3>2
    <2>2. CASE Loaded(h) # {}
        <3>1. PICK found \in Loaded(h) :
                  \/ hit' = [hit EXCEPT ![h] = [NewHit EXCEPT !.step = "fresh",
                                                             !.current = hit[h].current]]
                  \/ hit' = [hit EXCEPT ![h] = None]
                  \/ hit' = [hit EXCEPT ![h] =
                        [NewHit EXCEPT !.step = "retarget", !.current = hit[h].current,
                                       !.id = found[1], !.doc_ids = found[2].snapshot.doc_ids,
                                       !.writes = Retargeted(found[2], hit[h].current)]]
            BY <2>2 DEF HitLoad
        <3>2. /\ found[2] \in Row
              /\ found[1] \in ArtifactIds \cup {None}
              /\ found[1] # None => found[1] \in Artifacts
            BY <1>2, <3>1, LoadedRows
        <3>3. found[2].snapshot.doc_ids \in View \cup {None} /\ hit[h].current \in View
            BY <1>2, <3>2 DEF Row, Hit
        <3>4. Retargeted(found[2], hit[h].current) \in SUBSET Column
            BY DEF Retargeted, Column
        <3>5. [NewHit EXCEPT !.step = "fresh", !.current = hit[h].current] \in Hit
              /\ [NewHit EXCEPT !.step = "fresh", !.current = hit[h].current].id = None
            BY <3>3, NewHitTyped DEF Hit
        <3> DEFINE writes == Retargeted(found[2], hit[h].current)
                   q == [NewHit EXCEPT !.step = "retarget", !.current = hit[h].current,
                                       !.id = found[1], !.doc_ids = found[2].snapshot.doc_ids,
                                       !.writes = writes]
        <3> HIDE DEF writes
        <3>6. q \in Hit /\ q.id = found[1]
            BY <3>2, <3>3, <3>4, NewHitTyped DEF Hit, writes
        <3>7. \/ hit' = [hit EXCEPT ![h] = [NewHit EXCEPT !.step = "fresh",
                                                         !.current = hit[h].current]]
              \/ hit' = [hit EXCEPT ![h] = None]
              \/ hit' = [hit EXCEPT ![h] = q]
            BY <3>1 DEF writes
        <3> HIDE DEF q
        <3>8. QED
            BY <3>2, <3>5, <3>6, <3>7
    <2>3. QED
        BY <2>1, <2>2
<1>4. QED
    BY <1>1, <1>3, TypedReads

LEMMA TypedHitEnds ==
    ASSUME Typed, NEW h \in Hits, HitServe(h) \/ HitEnd(h)
    PROVE  Typed'
<1>1. /\ hit' = [hit EXCEPT ![h] = None]
      /\ UNCHANGED <<public, artifact, file, queue, build, cleanup, dropped, spoiled>>
    BY DEF HitServe, HitEnd, history
<1>2. QED
    BY <1>1, TypedReads

\* A row written, new or old.
LEMMA TypedRow ==
    ASSUME Typed, NEW a \in ArtifactIds, NEW row \in Row, artifact' = [artifact EXCEPT ![a] = row]
    PROVE  /\ artifact' \in [ArtifactIds -> Row \cup {None}] /\ artifact'[a] = row
           /\ \A c \in ArtifactIds \ {a} : artifact'[c] = artifact[c]
           /\ Artifacts' = Artifacts \cup {a}
BY NoneAssumption DEF Typed, TypeOK, Artifacts

\* Asking for a build: the record says building, or stays what it is, and what
\* it tells of the file it tells still.
LEMMA RetargetedRow ==
    ASSUME Typed, NEW h \in Hits, Retarget(h)
    PROVE  \E a \in ArtifactIds, row \in Row :
               /\ artifact' = [artifact EXCEPT ![a] = row]
               /\ ~row.expired /\ (hit[h].id # None => a \in Artifacts)
               /\ \/ a \notin Artifacts /\ row.status = "building"
                  \/ /\ a \in Artifacts
                     /\ row.storage_key = artifact[a].storage_key
                     /\ row.content_hash = artifact[a].content_hash
                     /\ row.status \in {"building", artifact[a].status}
<1>1. hit[h] \in Hit /\ hit[h] # None /\ (hit[h].id # None => hit[h].id \in Artifacts)
    BY DEF Retarget, Idle, Typed, TypeOK, HitsFind
<1>2. CASE hit[h].id = None
    <2>1. PICK a \in ArtifactIds \ Artifacts :
              artifact' = [artifact EXCEPT ![a] = NewRow(hit[h].current)]
        BY <1>2 DEF Retarget
    <2> DEFINE row == NewRow(hit[h].current)
    <2>2. row \in Row /\ row.status = "building" /\ ~row.expired
        BY <1>1 DEF NewRow, Row, Status, Hit
    <2> HIDE DEF row
    <2>3. artifact' = [artifact EXCEPT ![a] = row]
        BY <2>1 DEF row
    <2>4. QED
        BY <1>2, <2>1, <2>2, <2>3
<1>3. CASE hit[h].id # None
    <2> DEFINE a == hit[h].id
               writes == hit[h].writes
               status == IF "status" \in writes THEN "building" ELSE artifact[a].status
               snapshot == IF "snapshot" \in writes
                           THEN [doc_ids |-> hit[h].doc_ids, target_hash |-> hit[h].current]
                           ELSE artifact[a].snapshot
               row == [artifact[a] EXCEPT !.status = status, !.snapshot = snapshot,
                                          !.expired = FALSE]
    <2>1. a \in Artifacts /\ a \in ArtifactIds /\ artifact[a] \in Row
        BY <1>1, <1>3, RowsAre DEF Typed
    <2>2. status \in Status /\ status \in {"building", artifact[a].status}
        BY <2>1 DEF Row, Status
    <2>3. snapshot \in [doc_ids : View \cup {None}, target_hash : View]
        BY <1>1, <2>1 DEF Row, Hit
    <2>4. artifact' = [artifact EXCEPT ![a] = row]
        BY <1>3, <2>1 DEF Retarget, Typed, TypeOK
    <2> HIDE DEF status, snapshot
    <2>5. /\ row \in Row /\ ~row.expired /\ row.status = status
          /\ row.storage_key = artifact[a].storage_key
          /\ row.content_hash = artifact[a].content_hash
        BY <2>1, <2>2, <2>3 DEF Row
    <2> HIDE DEF row
    <2>6. QED
        BY <2>1, <2>2, <2>4, <2>5
<1>4. QED
    BY <1>2, <1>3

LEMMA TypedRequest ==
    ASSUME Typed, NEW h \in Hits, HitRequest(h) \/ HitRequestLost(h)
    PROVE  Typed'
<1>1. /\ Retarget(h) /\ hit' = [hit EXCEPT ![h] = None]
      /\ UNCHANGED <<public, file, build, cleanup, spoiled>>
      /\ queue' \in 0 .. MaxQueue /\ dropped' \in BOOLEAN
    <2>1. queue \in 0 .. MaxQueue /\ MaxQueue \in Nat
        BY MaxQueueAssumption DEF Typed, TypeOK
    <2>2. /\ Retarget(h) /\ hit' = [hit EXCEPT ![h] = None]
          /\ UNCHANGED <<public, file, build, cleanup, spoiled>>
        BY DEF HitRequest, HitRequestLost, Retarget
    <2>3. queue' \in 0 .. MaxQueue
        BY <2>1 DEF HitRequest, HitRequestLost
    <2>4. dropped' \in BOOLEAN
        BY DEF HitRequest, HitRequestLost
    <2>5. QED
        BY <2>2, <2>3, <2>4
<1>2. PICK a \in ArtifactIds, row \in Row : artifact' = [artifact EXCEPT ![a] = row]
    BY <1>1, RetargetedRow
<1>3. artifact' \in [ArtifactIds -> Row \cup {None}] /\ Artifacts' = Artifacts \cup {a}
    BY <1>2, TypedRow
<1>4. Running' = Running /\ \A k \in Hits : hit'[k] # None => hit'[k] = hit[k]
    BY <1>1 DEF Running, Typed, TypeOK
<1>5. TypeOK'
    BY <1>1, <1>3 DEF Typed, TypeOK
<1>6. HitsFind'
    BY <1>3, <1>4 DEF Typed, HitsFind
<1>7. BuildsFind' /\ CleanupFinds'
    BY <1>1, <1>3, <1>4 DEF Typed, BuildsFind, CleanupFinds
<1>8. QED
    BY <1>5, <1>6, <1>7 DEF Typed

-----------------------------------------------------------------------------
(* Types through the builds. *)

\* A build goes on, with a row it holds or without.
LEMMA TypedBuild ==
    ASSUME Typed, NEW b \in Builders, NEW q \in Build \cup {None}, build' = [build EXCEPT ![b] = q],
           q # None => q.id \in Artifacts,
           UNCHANGED <<public, hit, cleanup>>,
           artifact' \in [ArtifactIds -> Row \cup {None}], Artifacts \subseteq Artifacts',
           file' \in Zip \cup {None}, queue' \in 0 .. MaxQueue,
           dropped' \in BOOLEAN, spoiled' \in BOOLEAN
    PROVE  Typed'
<1>1. /\ build' \in [Builders -> Build \cup {None}]
      /\ \A c \in Builders : build'[c] = IF c = b THEN q ELSE build[c]
    BY DEF Typed, TypeOK
<1>2. TypeOK'
    BY <1>1 DEF Typed, TypeOK
<1>3. HitsFind'
    BY DEF Typed, HitsFind
<1>4. BuildsFind'
    BY <1>1 DEF Typed, BuildsFind, Running
<1>5. CleanupFinds'
    BY DEF Typed, CleanupFinds
<1>6. QED
    BY <1>2, <1>3, <1>4, <1>5 DEF Typed

\* What a build that stops, or closes its file, may leave of it.
LEMMA FileLeft ==
    ASSUME Typed, NEW b \in Running
    PROVE  Stopped(b) \subseteq Zip \cup {None} /\ Closed(b) \subseteq Zip \cup {None}
<1>1. build[b] \in Build /\ build[b].docs \in View /\ file \in Zip \cup {None}
    BY RowsAre DEF Typed, TypeOK, Build
<1>2. /\ [docs |-> build[b].docs, whole |-> TRUE] \in Zip
      /\ [docs |-> build[b].docs, whole |-> FALSE] \in Zip
    BY <1>1 DEF Zip
<1>3. file # None => [file EXCEPT !.whole = FALSE] \in Zip
    BY <1>1 DEF Zip
<1>4. Stopped(b) \subseteq Zip \cup {None}
    BY <1>1, <1>3 DEF Stopped
<1>5. Closed(b) \subseteq Zip \cup {None}
    BY <1>1, <1>2 DEF Closed
<1>6. QED
    BY <1>4, <1>5

\* A failure recorded: the record does not say ready any more, or the build
\* took it for failed already.
LEMMA FailedRow ==
    ASSUME Typed, NEW b \in Running, Failed(b)
    PROVE  \E row \in Row :
               /\ artifact' = [artifact EXCEPT ![build[b].id] = row]
               /\ row.status = IF build[b].status # "failed" THEN "failed"
                               ELSE artifact[build[b].id].status
               /\ row.expired = artifact[build[b].id].expired
<1> DEFINE a == build[b].id
           status == IF build[b].status # "failed" THEN "failed" ELSE artifact[a].status
           row == [artifact[a] EXCEPT !.status = status]
<1>1. a \in ArtifactIds /\ artifact[a] \in Row
    BY RowsAre DEF Typed, BuildsFind
<1>2. status \in Status
    BY <1>1 DEF Row, Status
<1>3. artifact' = [artifact EXCEPT ![a] = row]
    BY <1>1 DEF Failed, Typed, TypeOK
<1> HIDE DEF status
<1>4. row \in Row /\ row.status = status /\ row.expired = artifact[a].expired
    BY <1>1, <1>2 DEF Row
<1> HIDE DEF row
<1>5. QED
    BY <1>3, <1>4 DEF status

\* The columns that differed when the build loaded the row are set.
LEMMA CommittedRow ==
    ASSUME Typed, NEW b \in Running, BuildCommit(b)
    PROVE  \E row \in Row :
               /\ artifact' = [artifact EXCEPT ![build[b].id] = row]
               /\ row.status = IF "status" \in build[b].writes THEN "ready"
                               ELSE artifact[build[b].id].status
               /\ row.content_hash = IF "content_hash" \in build[b].writes THEN build[b].docs
                                     ELSE artifact[build[b].id].content_hash
               /\ row.expired = artifact[build[b].id].expired
<1> DEFINE a == build[b].id
           docs == build[b].docs
           writes == build[b].writes
           old == artifact[a]
           stored == old.storage_key \/ "storage_key" \in writes
           hash == IF "content_hash" \in writes THEN docs ELSE old.content_hash
           snapshot == IF "snapshot" \in writes THEN [doc_ids |-> docs, target_hash |-> docs]
                       ELSE old.snapshot
           status == IF "status" \in writes THEN "ready" ELSE old.status
           row == [old EXCEPT !.storage_key = stored, !.content_hash = hash,
                              !.snapshot = snapshot, !.status = status]
<1>1. a \in ArtifactIds /\ old \in Row /\ docs \in View
    BY RowsAre DEF Typed, BuildsFind, Build
<1>2. /\ stored \in BOOLEAN /\ hash \in View \cup {None} /\ status \in Status
      /\ snapshot \in [doc_ids : View \cup {None}, target_hash : View]
    BY <1>1 DEF Row, Status
<1>3. artifact' = [artifact EXCEPT ![a] = row]
    BY <1>1 DEF BuildCommit, Built, Typed, TypeOK
<1> HIDE DEF stored, hash, snapshot, status
<1>4. /\ row \in Row /\ row.status = status /\ row.content_hash = hash
      /\ row.expired = old.expired
    BY <1>1, <1>2 DEF Row
<1> HIDE DEF row
<1>5. QED
    BY <1>3, <1>4 DEF status, hash

\* A job is taken from the queue.
LEMMA TypedStart ==
    ASSUME Typed, NEW b \in Builders, BuildStart(b)
    PROVE  Typed'
<1>1. PICK a \in Artifacts :
          build' = [build EXCEPT ![b] =
              [step |-> "loaded", id |-> a, row |-> artifact[a], docs |-> {},
               status |-> artifact[a].status, writes |-> {}, clash |-> FALSE]]
    BY DEF BuildStart
<1> DEFINE q == [step |-> "loaded", id |-> a, row |-> artifact[a], docs |-> {},
                 status |-> artifact[a].status, writes |-> {}, clash |-> FALSE]
<1>2. a \in ArtifactIds /\ artifact[a] \in Row /\ artifact[a].status \in Status
    BY RowsAre DEF Typed, Row
<1>3. q \in Build /\ q.id = a
    BY <1>2 DEF Build, View
<1>4. build' = [build EXCEPT ![b] = q]
    BY <1>1
<1> HIDE DEF q
<1>5. /\ UNCHANGED <<public, artifact, file, hit, cleanup, dropped>> /\ Artifacts' = Artifacts
      /\ queue' = queue - 1 /\ queue > 0 /\ queue \in 0 .. MaxQueue /\ MaxQueue \in Nat
    BY MaxQueueAssumption DEF BuildStart, Artifacts, Typed, TypeOK
<1>6. queue' \in 0 .. MaxQueue
    BY <1>5
<1>7. dropped' \in BOOLEAN /\ spoiled' \in BOOLEAN
    BY DEF BuildStart, Typed, TypeOK
<1>8. artifact' \in [ArtifactIds -> Row \cup {None}] /\ file' \in Zip \cup {None}
    BY <1>5 DEF Typed, TypeOK
<1>9. QED
    BY <1>3, <1>4, <1>5, <1>6, <1>7, <1>8, TypedBuild

\* It goes on, and changes its own state and the file at most.
LEMMA TypedGoesOn ==
    ASSUME Typed, NEW b \in Builders,
           BuildResolve(b) \/ BuildClose(b) \/ BuildDie(b) \/ BuildTimeout(b) \/ DriftEnd(b)
    PROVE  Typed'
<1>1. b \in Running /\ build[b] \in Build /\ build[b].id \in Artifacts
    BY RowsAre DEF BuildResolve, BuildClose, BuildDie, BuildTimeout, DriftEnd, Running, Idle,
        Typed, BuildsFind
<1>2. PICK q \in Build \cup {None} : /\ build' = [build EXCEPT ![b] = q]
                                     /\ q # None => q.id \in Artifacts
    <2>1. CASE BuildResolve(b)
        <3> DEFINE writes == Finished(build[b].row, public)
                   q == [build[b] EXCEPT !.step = "resolved", !.docs = public, !.row = None,
                                         !.writes = writes]
        <3>1. writes \in SUBSET Column /\ public \in View
            BY DEF Finished, Typed, TypeOK
        <3> HIDE DEF writes
        <3>2. q \in Build /\ q.id = build[b].id
            BY <1>1, <3>1 DEF Build
        <3>3. build' = [build EXCEPT ![b] = q]
            BY <2>1 DEF BuildResolve, writes
        <3> HIDE DEF q
        <3>4. QED
            BY <1>1, <3>2, <3>3
    <2>2. CASE BuildClose(b)
        <3> DEFINE q == [build[b] EXCEPT !.step = "written", !.status = None, !.clash = FALSE]
        <3>1. q \in Build /\ q.id = build[b].id
            BY <1>1 DEF Build
        <3>2. build' = [build EXCEPT ![b] = q]
            BY <2>2 DEF BuildClose
        <3> HIDE DEF q
        <3>3. QED
            BY <1>1, <3>1, <3>2
    <2>3. CASE BuildTimeout(b)
        <3> DEFINE q == [build[b] EXCEPT !.step = "adrift", !.status = None, !.writes = {}]
        <3>1. q \in Build /\ q.id = build[b].id
            BY <1>1 DEF Build
        <3>2. build' = [build EXCEPT ![b] = q]
            BY <2>3 DEF BuildTimeout
        <3> HIDE DEF q
        <3>3. QED
            BY <1>1, <3>1, <3>2
    <2>4. CASE BuildDie(b) \/ DriftEnd(b)
        BY <2>4 DEF BuildDie, DriftEnd
    <2>5. QED
        BY <2>1, <2>2, <2>3, <2>4
<1>3. UNCHANGED <<public, artifact, queue, hit, cleanup>> /\ Artifacts' = Artifacts
    BY DEF BuildResolve, BuildClose, BuildDie, BuildTimeout, DriftEnd, Artifacts
<1>4. file' \in Zip \cup {None}
    <2>1. file \in Zip \cup {None}
        BY DEF Typed, TypeOK
    <2>2. file' = file \/ file' \in Closed(b) \/ file' \in Stopped(b)
        BY DEF BuildResolve, BuildClose, BuildDie, BuildTimeout, DriftEnd
    <2>3. QED
        BY <1>1, <2>1, <2>2, FileLeft
<1>5. dropped' \in BOOLEAN /\ spoiled' \in BOOLEAN
    BY DEF BuildResolve, BuildClose, BuildDie, BuildTimeout, DriftEnd, history, Typed, TypeOK
<1>6. QED
    BY <1>2, <1>3, <1>4, <1>5, TypedBuild DEF Typed, TypeOK

\* It fails, or records what it built.
LEMMA TypedRecords ==
    ASSUME Typed, NEW b \in Builders, BuildRefused(b) \/ BuildFail(b) \/ BuildCommit(b)
    PROVE  Typed'
<1>1. b \in Running /\ build[b].id \in ArtifactIds /\ build[b].id \in Artifacts
    BY RowsAre DEF BuildRefused, BuildFail, BuildCommit, Running, Idle, Typed, BuildsFind
<1>2. PICK row \in Row : artifact' = [artifact EXCEPT ![build[b].id] = row]
    <2>1. CASE BuildCommit(b)
        BY <1>1, <2>1, CommittedRow
    <2>2. CASE BuildRefused(b) \/ BuildFail(b)
        <3>1. Failed(b)
            BY <2>2 DEF BuildRefused, BuildFail
        <3>2. QED
            BY <1>1, <3>1, FailedRow
    <2>3. QED
        BY <2>1, <2>2
<1>3. artifact' \in [ArtifactIds -> Row \cup {None}] /\ Artifacts \subseteq Artifacts'
    BY <1>1, <1>2, TypedRow
<1>4. build' = [build EXCEPT ![b] = None]
      /\ UNCHANGED <<public, queue, hit, cleanup, dropped, spoiled>>
    BY DEF BuildRefused, BuildFail, BuildCommit, Failed, history
<1>5. file' \in Zip \cup {None}
    <2>1. file \in Zip \cup {None}
        BY DEF Typed, TypeOK
    <2>2. file' = file \/ file' \in Stopped(b)
        BY DEF BuildRefused, BuildFail, BuildCommit
    <2>3. QED
        BY <1>1, <2>1, <2>2, FileLeft
<1>6. QED
    BY <1>3, <1>4, <1>5, TypedBuild DEF Typed, TypeOK

\* The zip is opened over what is there, and over who has it open.
LEMMA TypedOpen ==
    ASSUME Typed, NEW b \in Builders, BuildOpen(b)
    PROVE  Typed'
<1>1. b \in Running /\ build[b] \in Build /\ build[b].docs \in View
    BY RowsAre DEF BuildOpen, Running, Idle, Typed, Build
<1>2. /\ file' = [docs |-> build[b].docs, whole |-> FALSE]
      /\ build' = [c \in Builders |->
            CASE c = b -> [build[b] EXCEPT !.step = "writing", !.clash = Writing # {}]
              [] c \in Writing -> [build[c] EXCEPT !.clash = TRUE]
              [] OTHER -> build[c]]
      /\ UNCHANGED <<public, artifact, queue, hit, cleanup, dropped, spoiled>>
    BY DEF BuildOpen, history
<1>3. file' \in Zip
    BY <1>1, <1>2 DEF Zip
<1>4. b \notin Writing
    BY DEF BuildOpen, Writing
<1>5. ASSUME NEW c \in Builders
      PROVE  /\ build'[c] \in Build \cup {None}
             /\ build'[c] # None => build[c] # None /\ build'[c].id = build[c].id
    <2>1. build[c] \in Build \cup {None}
        BY DEF Typed, TypeOK
    <2>2. CASE c = b
        <3> DEFINE clash == Writing # {}
        <3>1. clash \in BOOLEAN
            OBVIOUS
        <3>2. build'[c] = [build[c] EXCEPT !.step = "writing", !.clash = clash]
            BY <1>2, <1>4, <2>2
        <3> HIDE DEF clash
        <3>3. QED
            BY <1>1, <2>2, <3>1, <3>2, NoneAssumption DEF Build, Running
    <2>3. CASE c \in Writing
        <3>1. build[c] \in Build /\ build[c] # None
            BY <2>1, <2>3 DEF Writing, Running
        <3>2. build'[c] = [build[c] EXCEPT !.clash = TRUE]
            BY <1>2, <1>4, <2>3
        <3>3. QED
            BY <3>1, <3>2 DEF Build
    <2>4. CASE c # b /\ c \notin Writing
        BY <1>2, <2>1, <2>4
    <2>5. QED
        BY <2>2, <2>3, <2>4
<1>6. TypeOK'
    <2>1. build' \in [Builders -> Build \cup {None}]
        BY <1>2, <1>5
    <2>2. QED
        BY <1>2, <1>3, <2>1 DEF Typed, TypeOK
<1>7. Artifacts' = Artifacts
    BY <1>2 DEF Artifacts
<1>8. BuildsFind'
    BY <1>5, <1>7 DEF Typed, BuildsFind, Running
<1>9. HitsFind' /\ CleanupFinds'
    BY <1>2, <1>7 DEF Typed, HitsFind, CleanupFinds
<1>10. QED
    BY <1>6, <1>8, <1>9 DEF Typed

-----------------------------------------------------------------------------
(* Types through the cleanup. *)

LEMMA CleanedRows ==
    ASSUME Typed, CleanupCommit
    PROVE  /\ artifact' \in [ArtifactIds -> Row \cup {None}]
           /\ Artifacts' = Artifacts
           /\ \A a \in ArtifactIds \ cleanup.due : artifact'[a] = artifact[a]
           /\ \A a \in cleanup.due : /\ a \in Artifacts /\ ~artifact'[a].storage_key
                                     /\ artifact'[a].expired = artifact[a].expired
                                     /\ artifact'[a].content_hash = artifact[a].content_hash
                                     /\ artifact'[a].status \in {artifact[a].status, "building"}
<1>1. /\ cleanup.due \subseteq Artifacts
      /\ artifact' = [a \in ArtifactIds |->
            IF a \notin cleanup.due THEN artifact[a]
            ELSE [artifact[a] EXCEPT
                    !.storage_key = FALSE,
                    !.status = IF a \in cleanup.resets THEN "building" ELSE @]]
    BY DEF CleanupCommit, Idle, Typed, CleanupFinds
<1>2. ASSUME NEW a \in cleanup.due
      PROVE  /\ a \in Artifacts /\ artifact'[a] \in Row /\ ~artifact'[a].storage_key
             /\ artifact'[a].expired = artifact[a].expired
             /\ artifact'[a].content_hash = artifact[a].content_hash
             /\ artifact'[a].status \in {artifact[a].status, "building"}
    <2> DEFINE status == IF a \in cleanup.resets THEN "building" ELSE artifact[a].status
    <2>1. a \in Artifacts /\ a \in ArtifactIds /\ artifact[a] \in Row
        BY <1>1, RowsAre DEF Typed
    <2>2. status \in Status /\ status \in {artifact[a].status, "building"}
        BY <2>1 DEF Row, Status
    <2>3. artifact'[a] = [artifact[a] EXCEPT !.storage_key = FALSE, !.status = status]
        BY <1>1, <2>1
    <2> HIDE DEF status
    <2>4. QED
        BY <2>1, <2>2, <2>3 DEF Row
<1>3. \A a \in ArtifactIds \ cleanup.due : artifact'[a] = artifact[a]
    BY <1>1
<1>4. artifact' \in [ArtifactIds -> Row \cup {None}]
    BY <1>1, <1>2, <1>3 DEF Typed, TypeOK
<1>5. Artifacts' = Artifacts
    BY <1>2, <1>3, NoneAssumption DEF Artifacts
<1>6. QED
    BY <1>2, <1>3, <1>4, <1>5

LEMMA TypedCleanup ==
    ASSUME Typed, CleanupSelect \/ CleanupUnlink \/ CleanupCommit \/ CleanupAbort
    PROVE  Typed'
<1>1. /\ UNCHANGED <<public, queue, hit, build, spoiled>>
      /\ Running' = Running
    BY DEF CleanupSelect, CleanupUnlink, CleanupCommit, CleanupAbort, history, Running
<1>2. artifact' \in [ArtifactIds -> Row \cup {None}] /\ Artifacts' = Artifacts
    <2>1. CASE CleanupCommit
        BY <2>1, CleanedRows
    <2>2. CASE ~CleanupCommit
        <3>1. artifact' = artifact
            BY <2>2 DEF CleanupSelect, CleanupUnlink, CleanupAbort
        <3>2. QED
            BY <3>1 DEF Typed, TypeOK, Artifacts
    <2>3. QED
        BY <2>1, <2>2
<1>3. file' \in Zip \cup {None}
    BY DEF CleanupSelect, CleanupUnlink, CleanupCommit, CleanupAbort, Typed, TypeOK
<1>4. dropped' \in BOOLEAN
    BY DEF CleanupSelect, CleanupUnlink, CleanupCommit, CleanupAbort, history, Typed, TypeOK
<1>5. \/ cleanup' = None
      \/ /\ cleanup' \in [unlinked: BOOLEAN, due: SUBSET ArtifactIds, resets: SUBSET ArtifactIds]
         /\ cleanup'.due \subseteq Artifacts
    <2>1. CASE CleanupSelect
        <3> DEFINE due == {a \in Artifacts : artifact[a].storage_key /\ artifact[a].expired}
                   resets == {a \in due : artifact[a].status # "building"}
        <3>1. cleanup' = [unlinked |-> FALSE, due |-> due, resets |-> resets]
            BY <2>1 DEF CleanupSelect
        <3>2. due \subseteq Artifacts /\ due \subseteq ArtifactIds /\ resets \subseteq ArtifactIds
            BY RowsAre DEF Typed
        <3> HIDE DEF due, resets
        <3>3. QED
            BY <3>1, <3>2
    <2>2. CASE CleanupUnlink
        <3>1. cleanup \in [unlinked: BOOLEAN, due: SUBSET ArtifactIds, resets: SUBSET ArtifactIds]
              /\ cleanup.due \subseteq Artifacts
            BY <2>2 DEF CleanupUnlink, Idle, Typed, TypeOK, CleanupFinds
        <3>2. QED
            BY <2>2, <3>1 DEF CleanupUnlink
    <2>3. CASE CleanupCommit \/ CleanupAbort
        BY <2>3 DEF CleanupCommit, CleanupAbort
    <2>4. QED
        BY <2>1, <2>2, <2>3
<1>6. TypeOK'
    <2>1. spoiled' \in BOOLEAN
        BY <1>1 DEF Typed, TypeOK
    <2>2. QED
        BY <1>1, <1>2, <1>3, <1>4, <1>5, <2>1 DEF Typed, TypeOK
<1>7. HitsFind' /\ BuildsFind' /\ CleanupFinds'
    BY <1>1, <1>2, <1>5 DEF Typed, HitsFind, BuildsFind, CleanupFinds
<1>8. QED
    BY <1>6, <1>7 DEF Typed

LEMMA TypedNext == Typed /\ [Next]_vars => Typed'
<1>. SUFFICES ASSUME Typed, [Next]_vars PROVE Typed'
    OBVIOUS
<1>1. ASSUME (\E d \in Docs : Publish(d) \/ Hide(d)) \/ (\E a \in ArtifactIds : Expire(a))
      PROVE  Typed'
    BY <1>1, TypedAround
<1>2. ASSUME NEW h \in Hits,
             \/ HitFollow(h) \/ HitResolve(h) \/ HitLoad(h)
             \/ HitRequest(h) \/ HitRequestLost(h) \/ HitServe(h) \/ HitEnd(h)
      PROVE  Typed'
    BY <1>2, TypedFollow, TypedResolve, TypedLoad, TypedRequest, TypedHitEnds
<1>3. ASSUME NEW b \in Builders,
             \/ BuildStart(b) \/ BuildResolve(b) \/ BuildRefused(b) \/ BuildOpen(b)
             \/ BuildClose(b) \/ BuildFail(b) \/ BuildCommit(b)
             \/ BuildDie(b) \/ BuildTimeout(b) \/ DriftEnd(b)
      PROVE  Typed'
    BY <1>3, TypedStart, TypedGoesOn, TypedRecords, TypedOpen
<1>4. CASE CleanupSelect \/ CleanupUnlink \/ CleanupCommit \/ CleanupAbort
    BY <1>4, TypedCleanup
<1>5. CASE UNCHANGED vars
    BY <1>5 DEF vars, Typed, TypeOK, HitsFind, BuildsFind, CleanupFinds, Artifacts, Running
<1>6. QED
    BY <1>1, <1>2, <1>3, <1>4, <1>5 DEF Next

\* Every variable stays in its range, and what a process remembers is there.
THEOREM TypesHold == Spec => []Typed
BY TypedInit, TypedNext, PTL DEF Spec

\* Every variable stays in its range.
THEOREM TypeCorrect == Spec => []TypeOK
<1>1. Typed => TypeOK
    BY DEF Typed
<1>2. QED
    BY TypesHold, <1>1, PTL

-----------------------------------------------------------------------------
(* The set's one record.  ensure_current_archive makes a record only where   *)
(* it finds none, and nothing else keeps two requests from making two: all   *)
(* of them would describe the one file at the set's path, and a job takes    *)
(* any of them.  That takes two accesses that both found none before either  *)
(* has made one.                                                             *)

OneRecord == \A a, c \in Artifacts : a = c

\* An access that found no record and is going to make one.
First(h) == hit[h] # None /\ hit[h].step = "retarget" /\ hit[h].id = None

FirstsAlone == \A h, k \in Hits : First(h) /\ First(k) => h = k

\* Who came by a link has a record; who is going to make one found none.
LinkedHasRecord == \A h \in Hits : hit[h] # None /\ hit[h].linked # None => hit[h].id # None
FirstIsFirst == \A h \in Hits : First(h) => Artifacts = {}

Single == Typed /\ OneRecord /\ LinkedHasRecord /\ FirstIsFirst

LEMMA SingleKept ==
    ASSUME Single, Typed', Artifacts' = Artifacts,
           \A h \in Hits : hit'[h] = hit[h] \/ hit'[h] = None
    PROVE  Single'
<1>1. OneRecord'
    BY DEF Single, OneRecord
<1>2. LinkedHasRecord'
    BY DEF Single, LinkedHasRecord
<1>3. FirstIsFirst'
    BY DEF Single, FirstIsFirst, First
<1>4. QED
    BY <1>1, <1>2, <1>3 DEF Single

\* One access goes on; if it is going to make a record, there is none.
LEMMA SingleAccess ==
    ASSUME Single, Typed', Artifacts' = Artifacts, NEW h \in Hits,
           \A k \in Hits \ {h} : hit'[k] = hit[k],
           hit'[h] # None /\ hit'[h].linked # None => hit'[h].id # None,
           First(h)' => Artifacts = {}
    PROVE  Single'
<1>1. OneRecord'
    BY DEF Single, OneRecord
<1>2. LinkedHasRecord'
    BY DEF Single, LinkedHasRecord
<1>3. FirstIsFirst'
    BY DEF Single, FirstIsFirst, First
<1>4. QED
    BY <1>1, <1>2, <1>3 DEF Single

LEMMA SingleLooks ==
    ASSUME Single, Typed', NEW h \in Hits, HitFollow(h) \/ HitResolve(h) \/ HitLoad(h)
    PROVE  Single'
<1>1. Artifacts' = Artifacts
    BY DEF HitFollow, HitResolve, HitLoad, Artifacts
<1>2. ASSUME NEW q \in Hit, hit' = [hit EXCEPT ![h] = q], q.linked # None => q.id # None,
             q.step = "retarget" /\ q.id = None => Artifacts = {}
      PROVE  Single'
    <2>1. hit'[h] = q /\ \A k \in Hits \ {h} : hit'[k] = hit[k]
        BY <1>2 DEF Single, Typed, TypeOK
    <2>2. QED
        BY <1>1, <1>2, <2>1, SingleAccess DEF First
<1>3. CASE HitFollow(h)
    <2>1. PICK a \in Artifacts :
              hit' = [hit EXCEPT ![h] = [NewHit EXCEPT !.id = a, !.linked = artifact[a]]]
        BY <1>3 DEF HitFollow
    <2> DEFINE q == [NewHit EXCEPT !.id = a, !.linked = artifact[a]]
    <2>2. a \in ArtifactIds /\ artifact[a] \in Row
        BY RowsAre DEF Single, Typed
    <2>3. q \in Hit /\ q.step = "followed" /\ q.id = a
        BY <2>2 DEF NewHit, Hit, View
    <2> HIDE DEF q
    <2>4. QED
        BY <1>2, <2>1, <2>2, <2>3, NoneAssumption DEF q
<1>4. CASE HitResolve(h)
    <2>1. CASE Idle(hit[h])
        <3> DEFINE q == [NewHit EXCEPT !.step = "resolved", !.current = public]
        <3>1. q \in Hit /\ q.step = "resolved" /\ q.linked = None
            BY DEF NewHit, Hit, View, Single, Typed, TypeOK
        <3>2. hit' = [hit EXCEPT ![h] = q]
            BY <1>4, <2>1 DEF HitResolve
        <3> HIDE DEF q
        <3>3. QED
            BY <1>2, <3>1, <3>2
    <2>2. CASE ~Idle(hit[h])
        <3> DEFINE q == [hit[h] EXCEPT !.step = "resolved", !.current = public]
        <3>1. hit[h] \in Hit /\ public \in View /\ (hit[h].linked # None => hit[h].id # None)
            BY <2>2 DEF Idle, Single, LinkedHasRecord, Typed, TypeOK
        <3>2. q \in Hit /\ q.step = "resolved" /\ q.linked = hit[h].linked /\ q.id = hit[h].id
            BY <3>1 DEF Hit
        <3>3. hit' = [hit EXCEPT ![h] = q]
            BY <1>4, <2>2, <3>1 DEF HitResolve
        <3> HIDE DEF q
        <3>4. QED
            BY <1>2, <3>1, <3>2, <3>3
    <2>3. QED
        BY <2>1, <2>2
<1>5. CASE HitLoad(h)
    <2>1. hit[h] \in Hit /\ hit[h] # None /\ (hit[h].linked # None => hit[h].id # None)
        BY <1>5 DEF HitLoad, Idle, Single, LinkedHasRecord, Typed, TypeOK
    <2>2. CASE Loaded(h) = {} /\ hit' = [hit EXCEPT ![h].step = "retarget"]
        <3> DEFINE q == [hit[h] EXCEPT !.step = "retarget"]
        <3>1. Artifacts = {} /\ hit[h].linked = None
            BY <2>2 DEF Loaded
        <3>2. q \in Hit /\ q.linked = hit[h].linked /\ hit' = [hit EXCEPT ![h] = q]
            BY <2>1, <2>2 DEF Hit
        <3> HIDE DEF q
        <3>3. QED
            BY <1>2, <3>1, <3>2
    <2>3. CASE \E found \in Loaded(h) :
                   hit' = [hit EXCEPT ![h] =
                               [NewHit EXCEPT !.step = "fresh", !.current = hit[h].current]]
        <3> DEFINE q == [NewHit EXCEPT !.step = "fresh", !.current = hit[h].current]
        <3>1. q \in Hit /\ q.step = "fresh" /\ q.linked = None /\ hit' = [hit EXCEPT ![h] = q]
            BY <2>1, <2>3 DEF NewHit, Hit, View
        <3> HIDE DEF q
        <3>2. QED
            BY <1>2, <3>1
    <2>4. CASE hit' = [hit EXCEPT ![h] = None]
        BY <1>1, <2>4, SingleKept DEF Single, Typed, TypeOK
    <2>5. CASE \E found \in Loaded(h) :
                   hit' = [hit EXCEPT ![h] =
                       [NewHit EXCEPT !.step = "retarget", !.current = hit[h].current,
                                      !.id = found[1], !.doc_ids = found[2].snapshot.doc_ids,
                                      !.writes = Retargeted(found[2], hit[h].current)]]
        <3>1. PICK found \in Loaded(h) :
                   hit' = [hit EXCEPT ![h] =
                       [NewHit EXCEPT !.step = "retarget", !.current = hit[h].current,
                                      !.id = found[1], !.doc_ids = found[2].snapshot.doc_ids,
                                      !.writes = Retargeted(found[2], hit[h].current)]]
            BY <2>5
        <3> DEFINE writes == Retargeted(found[2], hit[h].current)
                   q == [NewHit EXCEPT !.step = "retarget", !.current = hit[h].current,
                                       !.id = found[1], !.doc_ids = found[2].snapshot.doc_ids,
                                       !.writes = writes]
        <3>2. found[1] \in ArtifactIds /\ found[2] \in Row
            <4>1. CASE hit[h].linked # None
                BY <2>1, <4>1 DEF Loaded, Hit
            <4>2. CASE hit[h].linked = None
                BY <4>2, RowsAre DEF Loaded, Single, Typed
            <4>3. QED
                BY <4>1, <4>2
        <3>3. writes \in SUBSET Column
            BY DEF Retargeted, Column
        <3>4. hit' = [hit EXCEPT ![h] = q]
            BY <3>1
        <3> HIDE DEF writes
        <3>5. q \in Hit /\ q.linked = None /\ q.id = found[1]
            BY <2>1, <3>2, <3>3 DEF NewHit, Hit, Row
        <3> HIDE DEF q
        <3>6. QED
            BY <1>2, <3>2, <3>4, <3>5, NoneAssumption
    <2>6. QED
        BY <1>5, <2>2, <2>3, <2>4, <2>5 DEF HitLoad
<1>6. QED
    BY <1>3, <1>4, <1>5

\* Who makes the record is alone with that, so nobody makes another.
LEMMA SingleRequest ==
    ASSUME Single, FirstsAlone, Typed', NEW h \in Hits, Retarget(h)
    PROVE  Single'
<1>1. hit[h] # None /\ hit[h].step = "retarget" /\ hit' = [hit EXCEPT ![h] = None]
    BY DEF Retarget, Idle
<1>2. \A k \in Hits : hit'[k] = hit[k] \/ hit'[k] = None
    BY <1>1 DEF Single, Typed, TypeOK
<1>3. CASE hit[h].id # None
    <2>1. PICK a \in ArtifactIds, row \in Row :
              artifact' = [artifact EXCEPT ![a] = row] /\ a \in Artifacts
        BY <1>3, RetargetedRow DEF Single
    <2>2. Typed /\ a \in Artifacts /\ artifact' = [artifact EXCEPT ![a] = row]
        BY <2>1 DEF Single
    <2>3. Artifacts' = Artifacts \cup {a}
        BY <2>2, TypedRow
    <2>4. Artifacts' = Artifacts
        BY <2>2, <2>3
    <2>5. QED
        BY <1>2, <2>4, SingleKept
<1>4. CASE hit[h].id = None
    <2>1. First(h) /\ Artifacts = {}
        BY <1>1, <1>4 DEF First, Single, FirstIsFirst
    <2>2. PICK a \in ArtifactIds, row \in Row : artifact' = [artifact EXCEPT ![a] = row]
        BY RetargetedRow DEF Single
    <2>3. Artifacts' = {a}
        BY <2>1, <2>2, TypedRow DEF Single
    <2>4. OneRecord'
        BY <2>3 DEF OneRecord
    <2>5. LinkedHasRecord'
        BY <1>2 DEF Single, LinkedHasRecord
    <2>6. \A k \in Hits : ~First(k)'
        BY <1>1, <1>2, <2>1 DEF First, FirstsAlone, Single, Typed, TypeOK
    <2>7. FirstIsFirst'
        BY <2>6 DEF FirstIsFirst
    <2>8. QED
        BY <2>4, <2>5, <2>7 DEF Single
<1>5. QED
    BY <1>3, <1>4

LEMMA SingleNext == Single /\ FirstsAlone /\ [Next]_vars => Single'
<1>. SUFFICES ASSUME Single, FirstsAlone, [Next]_vars PROVE Single'
    OBVIOUS
<1>1. Typed /\ Typed'
    BY TypedNext DEF Single
<1>2. ASSUME UNCHANGED <<artifact, hit>>
      PROVE  Single'
    BY <1>1, <1>2, SingleKept DEF Artifacts
<1>3. ASSUME UNCHANGED hit, NEW a \in Artifacts, NEW row \in Row,
             artifact' = [artifact EXCEPT ![a] = row]
      PROVE  Single'
    <2>1. Artifacts' = Artifacts
        BY <1>1, <1>3, TypedRow DEF Artifacts
    <2>2. QED
        BY <1>1, <1>3, <2>1, SingleKept
<1>4. ASSUME \E d \in Docs : Publish(d) \/ Hide(d)
      PROVE  Single'
    BY <1>2, <1>4 DEF Publish, Hide
<1>5. ASSUME NEW a \in ArtifactIds, Expire(a)
      PROVE  Single'
    <2>1. a \in Artifacts /\ artifact[a] \in Row
        BY <1>1, <1>5, RowsAre DEF Expire, Typed
    <2> DEFINE row == [artifact[a] EXCEPT !.expired = TRUE]
    <2>2. row \in Row
        BY <2>1 DEF Row
    <2>3. artifact' = [artifact EXCEPT ![a] = row] /\ UNCHANGED hit
        BY <1>5 DEF Expire
    <2> HIDE DEF row
    <2>4. QED
        BY <1>3, <2>1, <2>2, <2>3
<1>6. ASSUME NEW h \in Hits, HitFollow(h) \/ HitResolve(h) \/ HitLoad(h)
      PROVE  Single'
    BY <1>1, <1>6, SingleLooks
<1>7. ASSUME NEW h \in Hits, HitServe(h) \/ HitEnd(h)
      PROVE  Single'
    <2>1. Artifacts' = Artifacts /\ hit' = [hit EXCEPT ![h] = None]
        BY <1>7 DEF HitServe, HitEnd, Artifacts
    <2>2. QED
        BY <1>1, <2>1, SingleKept DEF Typed, TypeOK
<1>8. ASSUME NEW h \in Hits, HitRequest(h) \/ HitRequestLost(h)
      PROVE  Single'
    BY <1>1, <1>8, SingleRequest DEF HitRequest, HitRequestLost
<1>9. ASSUME NEW b \in Builders,
             \/ BuildStart(b) \/ BuildResolve(b) \/ BuildOpen(b) \/ BuildClose(b)
             \/ BuildDie(b) \/ BuildTimeout(b) \/ DriftEnd(b)
      PROVE  Single'
    BY <1>2, <1>9 DEF BuildStart, BuildResolve, BuildOpen, BuildClose, BuildDie, BuildTimeout,
        DriftEnd
<1>10. ASSUME NEW b \in Builders, BuildRefused(b) \/ BuildFail(b) \/ BuildCommit(b)
       PROVE  Single'
    <2>1. b \in Running /\ build[b].id \in Artifacts /\ UNCHANGED hit
        BY <1>1, <1>10 DEF BuildRefused, BuildFail, BuildCommit, Running, Idle, Typed, BuildsFind
    <2>2. PICK row \in Row : artifact' = [artifact EXCEPT ![build[b].id] = row]
        BY <1>1, <1>10, <2>1, FailedRow, CommittedRow DEF BuildRefused, BuildFail
    <2>3. QED
        BY <1>3, <2>1, <2>2
<1>11. CASE CleanupSelect \/ CleanupUnlink \/ CleanupAbort
    BY <1>2, <1>11 DEF CleanupSelect, CleanupUnlink, CleanupAbort
<1>12. CASE CleanupCommit
    BY <1>1, <1>12, CleanedRows, SingleKept DEF CleanupCommit
<1>13. CASE UNCHANGED vars
    BY <1>2, <1>13 DEF vars
<1>14. QED
    BY <1>4, <1>5, <1>6, <1>7, <1>8, <1>9, <1>10, <1>11, <1>12, <1>13 DEF Next

\* A set gets a second record only by two accesses that both found none.
THEOREM OneRecordUnlessRaced == Spec /\ []FirstsAlone => []OneRecord
<1>1. Init => Single
    <2>1. Init => OneRecord /\ LinkedHasRecord /\ FirstIsFirst
        BY DEF Init, OneRecord, Artifacts, LinkedHasRecord, FirstIsFirst
    <2>2. QED
        BY <2>1, TypedInit DEF Single
<1>2. Single => OneRecord
    BY DEF Single
<1>3. QED
    BY <1>1, <1>2, SingleNext, PTL DEF Spec

\* A record stays once it is there, so a set that has one record now never had
\* another.
LEMMA RecordsStay ==
    ASSUME Typed, Typed', [Next]_vars
    PROVE  Artifacts \subseteq Artifacts'
<1>1. ASSUME UNCHANGED artifact
      PROVE  Artifacts \subseteq Artifacts'
    BY <1>1 DEF Artifacts
<1>2. ASSUME NEW a \in ArtifactIds, NEW row \in Row, artifact' = [artifact EXCEPT ![a] = row]
      PROVE  Artifacts \subseteq Artifacts'
    BY <1>2, TypedRow
<1>3. ASSUME NEW a \in ArtifactIds, Expire(a)
      PROVE  Artifacts \subseteq Artifacts'
    <2>1. artifact[a] \in Row /\ artifact' = [artifact EXCEPT ![a].expired = TRUE]
        BY <1>3, RowsAre DEF Expire, Typed
    <2> DEFINE row == [artifact[a] EXCEPT !.expired = TRUE]
    <2>2. row \in Row
        BY <2>1 DEF Row
    <2>3. artifact' = [artifact EXCEPT ![a] = row]
        BY <2>1
    <2> HIDE DEF row
    <2>4. QED
        BY <1>2, <2>2, <2>3
<1>4. ASSUME NEW h \in Hits, HitRequest(h) \/ HitRequestLost(h)
      PROVE  Artifacts \subseteq Artifacts'
    <2>1. Retarget(h)
        BY <1>4 DEF HitRequest, HitRequestLost
    <2>2. PICK a \in ArtifactIds, row \in Row : artifact' = [artifact EXCEPT ![a] = row]
        BY <2>1, RetargetedRow
    <2>3. QED
        BY <1>2, <2>2
<1>5. ASSUME NEW b \in Builders, BuildRefused(b) \/ BuildFail(b) \/ BuildCommit(b)
      PROVE  Artifacts \subseteq Artifacts'
    <2>1. b \in Running /\ build[b].id \in Artifacts /\ Artifacts \subseteq ArtifactIds
        BY <1>5 DEF BuildRefused, BuildFail, BuildCommit, Running, Idle, Typed, BuildsFind,
            Artifacts
    <2>2. PICK row \in Row : artifact' = [artifact EXCEPT ![build[b].id] = row]
        BY <1>5, <2>1, FailedRow, CommittedRow DEF BuildRefused, BuildFail
    <2>3. QED
        BY <1>2, <2>1, <2>2
<1>6. CASE CleanupCommit
    BY <1>6, CleanedRows
<1>7. CASE UNCHANGED vars
    BY <1>1, <1>7 DEF vars
<1>8. CASE \E d \in Docs : Publish(d) \/ Hide(d)
    BY <1>1, <1>8 DEF Publish, Hide
<1>9. ASSUME NEW h \in Hits, HitFollow(h) \/ HitResolve(h) \/ HitLoad(h) \/ HitServe(h) \/ HitEnd(h)
      PROVE  Artifacts \subseteq Artifacts'
    BY <1>1, <1>9 DEF HitFollow, HitResolve, HitLoad, HitServe, HitEnd
<1>10. ASSUME NEW b \in Builders,
              \/ BuildStart(b) \/ BuildResolve(b) \/ BuildOpen(b) \/ BuildClose(b)
              \/ BuildDie(b) \/ BuildTimeout(b) \/ DriftEnd(b)
       PROVE  Artifacts \subseteq Artifacts'
    BY <1>1, <1>10 DEF BuildStart, BuildResolve, BuildOpen, BuildClose, BuildDie, BuildTimeout,
        DriftEnd
<1>11. CASE CleanupSelect \/ CleanupUnlink \/ CleanupAbort
    BY <1>1, <1>11 DEF CleanupSelect, CleanupUnlink, CleanupAbort
<1>12. QED
    BY <1>3, <1>4, <1>5, <1>6, <1>7, <1>8, <1>9, <1>10, <1>11 DEF Next

LEMMA OneRecordBefore ==
    ASSUME Typed, [Next]_vars, OneRecord'
    PROVE  Typed' /\ OneRecord
<1>1. Typed'
    BY TypedNext
<1>2. QED
    BY <1>1, RecordsStay DEF OneRecord

-----------------------------------------------------------------------------
(* What a set's record tells of the file.                                    *)

\* While no two builds overlapped and none died, one build runs at most.
Alone ==
    ~spoiled => /\ \A b, c \in Running : b = c
                /\ \A b \in Running : build[b].step # "adrift" /\ ~build[b].clash

\* What a build knows of its record although it does not look again: the hash
\* it will not write is the hash it builds, the record it will not mark failed
\* does not say ready.
KnowsRecord(b) ==
    LET rec == artifact[build[b].id]
    IN
    /\ build[b].step = "loaded" =>
           build[b].row # None /\ build[b].row.content_hash = rec.content_hash
    /\ build[b].step \in {"loaded", "resolved", "writing"} /\ build[b].status = "failed"
           => rec.status # "ready"
    /\ build[b].step \in {"resolved", "writing", "written"}
           /\ "content_hash" \notin build[b].writes
           => rec.content_hash = build[b].docs
    /\ build[b].step = "written" /\ file # None
           => file = [docs |-> build[b].docs, whole |-> TRUE]

Knows == ~spoiled => \A b \in Running : KnowsRecord(b)

Told == Typed /\ Alone /\ Knows /\ RecordTellsFile

\* Others touch a record while a build runs, but what they write says building,
\* and the hash is the builds' own.
Kept ==
    /\ Artifacts \subseteq Artifacts'
    /\ \A a \in Artifacts : /\ artifact'[a].content_hash = artifact[a].content_hash
                            /\ artifact'[a].status \in {artifact[a].status, "building"}
                            /\ artifact'[a].storage_key => artifact[a].storage_key
    /\ \A a \in Artifacts' \ Artifacts : artifact'[a].status = "building"

LEMMA ToldInit == Init => Told
<1>1. Init => Typed
    BY TypedInit
<1>2. Init => Alone /\ Knows /\ RecordTellsFile
    BY DEF Init, Alone, Knows, RecordTellsFile, Running
<1>3. QED
    BY <1>1, <1>2 DEF Told

LEMMA ToldKept ==
    ASSUME Told, Typed', Kept, UNCHANGED <<build, spoiled>>, file' = file \/ file' = None
    PROVE  Told'
<1>1. Running' = Running /\ Running \subseteq Builders
    BY DEF Running
<1>2. Alone'
    BY <1>1 DEF Told, Alone
<1>3. ASSUME NEW b \in Running, ~spoiled
      PROVE  KnowsRecord(b)'
    <2>1. build[b].id \in Artifacts /\ KnowsRecord(b) /\ build' = build
        BY <1>3 DEF Told, Typed, BuildsFind, Knows
    <2> DEFINE a == build[b].id
    <2>2. /\ artifact'[a].content_hash = artifact[a].content_hash
          /\ artifact'[a].status \in {artifact[a].status, "building"}
        BY <2>1 DEF Kept
    <2>3. QED
        BY <2>1, <2>2 DEF KnowsRecord
<1>4. Knows'
    BY <1>1, <1>3 DEF Knows
<1>5. RecordTellsFile'
    <2>. SUFFICES ASSUME Running = {}, ~spoiled, file' # None, NEW a \in Artifacts',
                         artifact'[a].status = "ready", artifact'[a].storage_key
                  PROVE  file' = [docs |-> artifact'[a].content_hash, whole |-> TRUE]
        BY <1>1 DEF RecordTellsFile
    <2>1. a \in Artifacts
        BY DEF Kept
    <2>2. /\ artifact'[a].content_hash = artifact[a].content_hash
          /\ artifact[a].status = "ready" /\ artifact[a].storage_key
        BY <2>1 DEF Kept
    <2>3. file' = file
        OBVIOUS
    <2>4. QED
        BY <2>1, <2>2, <2>3 DEF Told, RecordTellsFile
<1>6. QED
    BY <1>2, <1>4, <1>5 DEF Told

LEMMA KeptExpire ==
    ASSUME Typed, NEW a \in ArtifactIds, Expire(a)
    PROVE  Kept
<1>1. a \in Artifacts /\ artifact[a] \in Row /\ artifact' = [artifact EXCEPT ![a].expired = TRUE]
    BY RowsAre DEF Expire, Typed
<1> DEFINE row == [artifact[a] EXCEPT !.expired = TRUE]
<1>2. /\ row \in Row /\ row.content_hash = artifact[a].content_hash
      /\ row.status = artifact[a].status /\ row.storage_key = artifact[a].storage_key
    BY <1>1 DEF Row
<1>3. artifact' = [artifact EXCEPT ![a] = row]
    BY <1>1
<1> HIDE DEF row
<1>4. /\ Artifacts' = Artifacts \cup {a} /\ artifact'[a] = row
      /\ \A c \in ArtifactIds \ {a} : artifact'[c] = artifact[c]
    <2>1. row \in Row
        BY <1>2
    <2>2. QED
        BY <1>3, <2>1, TypedRow
<1>5. QED
    BY <1>1, <1>2, <1>4, RowsAre DEF Kept, Typed

LEMMA KeptRequest ==
    ASSUME Typed, NEW h \in Hits, Retarget(h)
    PROVE  Kept
<1>1. PICK a \in ArtifactIds, row \in Row :
          /\ artifact' = [artifact EXCEPT ![a] = row]
          /\ \/ a \notin Artifacts /\ row.status = "building"
             \/ /\ a \in Artifacts
                /\ row.storage_key = artifact[a].storage_key
                /\ row.content_hash = artifact[a].content_hash
                /\ row.status \in {"building", artifact[a].status}
    BY RetargetedRow
<1>2. /\ Artifacts' = Artifacts \cup {a} /\ artifact'[a] = row
      /\ \A c \in ArtifactIds \ {a} : artifact'[c] = artifact[c]
    BY <1>1, TypedRow
<1>3. QED
    BY <1>1, <1>2, RowsAre DEF Kept, Typed

LEMMA KeptCleanup ==
    ASSUME Typed, CleanupCommit
    PROVE  Kept
<1>1. /\ Artifacts' = Artifacts /\ Artifacts \subseteq ArtifactIds
      /\ \A a \in ArtifactIds \ cleanup.due : artifact'[a] = artifact[a]
      /\ \A a \in cleanup.due : /\ ~artifact'[a].storage_key
                                /\ artifact'[a].content_hash = artifact[a].content_hash
                                /\ artifact'[a].status \in {artifact[a].status, "building"}
    BY CleanedRows, RowsAre DEF Typed
<1>2. QED
    BY <1>1 DEF Kept


\* One build begins where none runs.
LEMMA ToldStart ==
    ASSUME Told, Typed', NEW b \in Builders, BuildStart(b)
    PROVE  Told'
<1>. SUFFICES ASSUME ~spoiled' PROVE Alone' /\ Knows' /\ RecordTellsFile'
    BY DEF Told, Alone, Knows, RecordTellsFile
<1>1. PICK a \in Artifacts :
          build' = [build EXCEPT ![b] =
              [step |-> "loaded", id |-> a, row |-> artifact[a], docs |-> {},
               status |-> artifact[a].status, writes |-> {}, clash |-> FALSE]]
    BY DEF BuildStart
<1>2. Running = {} /\ artifact' = artifact /\ artifact[a] # None
    BY DEF BuildStart, Artifacts
<1>3. build'[b] = [step |-> "loaded", id |-> a, row |-> artifact[a], docs |-> {},
                   status |-> artifact[a].status, writes |-> {}, clash |-> FALSE]
    BY <1>1 DEF Told, Typed, TypeOK
<1>4. Running' \subseteq {b}
    BY <1>1, <1>2 DEF Running, Told, Typed, TypeOK
<1>5. Alone'
    BY <1>3, <1>4 DEF Alone
<1>6. KnowsRecord(b)'
    BY <1>2, <1>3 DEF KnowsRecord
<1>7. Knows'
    BY <1>4, <1>6 DEF Knows
<1>8. b \in Running'
    <2>1. build'[b] \in Build \/ build'[b] = None
        BY DEF Typed, TypeOK
    <2>2. build'[b] \in Build
        BY <1>2, <1>3, RowsAre DEF Build, Told, Typed, Row, View
    <2>3. QED
        BY <2>2, NoneAssumption DEF Running
<1>9. QED
    BY <1>5, <1>7, <1>8 DEF RecordTellsFile

\* It goes on: while it runs alone, nobody else has the file open.
LEMMA ToldGoesOn ==
    ASSUME Told, Typed', NEW b \in Builders, BuildResolve(b) \/ BuildOpen(b) \/ BuildClose(b)
    PROVE  Told'
<1>. SUFFICES ASSUME ~spoiled' PROVE Alone' /\ Knows' /\ RecordTellsFile'
    BY DEF Told, Alone, Knows, RecordTellsFile
<1>1. ~spoiled /\ artifact' = artifact
    <2>1. spoiled' = spoiled /\ artifact' = artifact
        BY DEF BuildResolve, BuildOpen, BuildClose, history
    <2>2. QED
        BY <2>1
<1>2. /\ b \in Running /\ build[b] \in Build /\ build[b] # None /\ build[b].id \in Artifacts
      /\ KnowsRecord(b) /\ ~build[b].clash
    BY <1>1, RowsAre DEF BuildResolve, BuildOpen, BuildClose, Running, Idle, Told, Typed,
        BuildsFind, Alone, Knows
<1>3. Running = {b}
    BY <1>1, <1>2 DEF Told, Alone
<1>4. PICK q \in Build : /\ build'[b] = q /\ \A c \in Builders \ {b} : build'[c] = build[c]
                         /\ q.step # "adrift" /\ ~q.clash /\ KnowsRecord(b)'
    <2>1. CASE BuildResolve(b)
        <3> DEFINE writes == Finished(build[b].row, public)
                   q == [build[b] EXCEPT !.step = "resolved", !.docs = public, !.row = None,
                                         !.writes = writes]
        <3>1. writes \in SUBSET Column /\ public \in View
            BY DEF Finished, Told, Typed, TypeOK
        <3>2. "content_hash" \notin writes => build[b].row.content_hash = public
            BY DEF Finished, Column
        <3> HIDE DEF writes
        <3>3. /\ q \in Build /\ q.step = "resolved" /\ q.docs = public /\ q.writes = writes
              /\ q.id = build[b].id /\ q.status = build[b].status /\ q.clash = build[b].clash
            BY <1>2, <3>1 DEF Build
        <3>4. build' = [build EXCEPT ![b] = q]
            BY <2>1 DEF BuildResolve, writes
        <3> HIDE DEF q
        <3>5. build'[b] = q /\ \A c \in Builders \ {b} : build'[c] = build[c]
            BY <3>4 DEF Told, Typed, TypeOK
        <3>6. build[b].step = "loaded"
            BY <2>1 DEF BuildResolve
        <3>7. KnowsRecord(b)'
            BY <1>1, <1>2, <3>2, <3>3, <3>5, <3>6 DEF KnowsRecord
        <3>8. QED
            BY <1>2, <3>3, <3>5, <3>7
    <2>2. CASE BuildOpen(b)
        <3>1. Writing = {} /\ build[b].step = "resolved"
            BY <1>3, <2>2 DEF BuildOpen, Writing
        <3> DEFINE q == [build[b] EXCEPT !.step = "writing", !.clash = FALSE]
        <3>2. /\ q \in Build /\ q.step = "writing" /\ ~q.clash /\ q.docs = build[b].docs
              /\ q.writes = build[b].writes /\ q.id = build[b].id /\ q.status = build[b].status
            BY <1>2 DEF Build
        <3>3. build'[b] = q /\ \A c \in Builders \ {b} : build'[c] = build[c]
            BY <2>2, <3>1 DEF BuildOpen
        <3> HIDE DEF q
        <3>4. KnowsRecord(b)'
            BY <1>1, <1>2, <3>1, <3>2, <3>3 DEF KnowsRecord
        <3>5. QED
            BY <3>2, <3>3, <3>4
    <2>3. CASE BuildClose(b)
        <3> DEFINE q == [build[b] EXCEPT !.step = "written", !.status = None, !.clash = FALSE]
        <3>1. /\ q \in Build /\ q.step = "written" /\ ~q.clash /\ q.docs = build[b].docs
              /\ q.writes = build[b].writes /\ q.id = build[b].id
            BY <1>2 DEF Build
        <3>2. build' = [build EXCEPT ![b] = q] /\ build[b].step = "writing"
            BY <2>3 DEF BuildClose
        <3> HIDE DEF q
        <3>3. build'[b] = q /\ \A c \in Builders \ {b} : build'[c] = build[c]
            BY <3>2 DEF Told, Typed, TypeOK
        <3>4. file' = [docs |-> build[b].docs, whole |-> TRUE]
            BY <1>2, <2>3 DEF BuildClose, Closed
        <3>5. KnowsRecord(b)'
            BY <1>1, <1>2, <3>1, <3>2, <3>3, <3>4 DEF KnowsRecord
        <3>6. QED
            BY <3>1, <3>3, <3>5
    <2>4. QED
        BY <2>1, <2>2, <2>3
<1>5. Running' = {b}
    BY <1>3, <1>4, NoneAssumption DEF Running
<1>6. Alone'
    BY <1>4, <1>5 DEF Alone
<1>7. Knows'
    BY <1>4, <1>5 DEF Knows
<1>8. RecordTellsFile'
    BY <1>5 DEF RecordTellsFile
<1>9. QED
    BY <1>6, <1>7, <1>8

\* It records what came of it, and the record tells what is in the file.
LEMMA ToldRecords ==
    ASSUME OneRecord', Told, Typed', NEW b \in Builders,
           BuildRefused(b) \/ BuildFail(b) \/ BuildCommit(b)
    PROVE  Told'
<1>. SUFFICES ASSUME ~spoiled' PROVE Alone' /\ Knows' /\ RecordTellsFile'
    BY DEF Told, Alone, Knows, RecordTellsFile
<1>1. ~spoiled /\ build' = [build EXCEPT ![b] = None]
    BY DEF BuildRefused, BuildFail, BuildCommit, Failed, history
<1>2. /\ b \in Running /\ build[b] \in Build /\ build[b].id \in Artifacts
      /\ KnowsRecord(b) /\ ~build[b].clash
    BY <1>1, RowsAre DEF BuildRefused, BuildFail, BuildCommit, Running, Idle, Told, Typed,
        BuildsFind, Alone, Knows
<1>3. Running = {b}
    BY <1>1, <1>2 DEF Told, Alone
<1>4. Running' = {}
    BY <1>1, <1>3 DEF Running, Told, Typed, TypeOK
<1>5. Alone' /\ Knows'
    BY <1>4 DEF Alone, Knows
<1> DEFINE a == build[b].id
<1>6. a \in ArtifactIds /\ Artifacts' \subseteq {a}
    <2>1. PICK row \in Row : artifact' = [artifact EXCEPT ![a] = row]
        BY <1>2, FailedRow, CommittedRow DEF Told, BuildRefused, BuildFail
    <2>2. a \in ArtifactIds /\ Artifacts' = Artifacts \cup {a}
        BY <1>2, <2>1, TypedRow DEF Told, Artifacts
    <2>3. QED
        BY <2>2 DEF OneRecord
<1>7. CASE BuildCommit(b)
    <2>1. PICK row \in Row :
              /\ artifact' = [artifact EXCEPT ![a] = row]
              /\ row.content_hash = IF "content_hash" \in build[b].writes THEN build[b].docs
                                    ELSE artifact[a].content_hash
        BY <1>2, <1>7, CommittedRow DEF Told
    <2>2. artifact'[a] = row
        BY <1>6, <2>1 DEF Told, Typed, TypeOK
    <2>3. build[b].step = "written" /\ file' = file
        BY <1>7 DEF BuildCommit
    <2>4. row.content_hash = build[b].docs
        BY <1>2, <2>1, <2>3 DEF KnowsRecord
    <2>5. file' # None => file' = [docs |-> artifact'[a].content_hash, whole |-> TRUE]
        BY <1>2, <2>2, <2>3, <2>4 DEF KnowsRecord
    <2>6. QED
        BY <1>5, <1>6, <2>5 DEF RecordTellsFile
<1>8. CASE BuildRefused(b) \/ BuildFail(b)
    <2>1. Failed(b) /\ build[b].step \in {"resolved", "writing"}
        BY <1>8 DEF BuildRefused, BuildFail
    <2>2. PICK row \in Row :
              /\ artifact' = [artifact EXCEPT ![a] = row]
              /\ row.status = IF build[b].status # "failed" THEN "failed" ELSE artifact[a].status
        BY <1>2, <2>1, FailedRow DEF Told
    <2>3. artifact'[a] = row
        BY <1>6, <2>2 DEF Told, Typed, TypeOK
    <2>4. row.status # "ready"
        BY <1>2, <2>1, <2>2 DEF KnowsRecord
    <2>5. QED
        BY <1>5, <1>6, <2>3, <2>4 DEF RecordTellsFile
<1>9. QED
    BY <1>7, <1>8

LEMMA ToldNext == OneRecord' /\ Told /\ [Next]_vars => Told'
<1>. SUFFICES ASSUME OneRecord', Told, [Next]_vars PROVE Told'
    OBVIOUS
<1>1. Typed /\ Typed'
    BY TypedNext DEF Told
<1>2. ASSUME UNCHANGED <<artifact, build, spoiled>>, file' = file \/ file' = None
      PROVE  Told'
    <2>1. Kept
        BY <1>2 DEF Kept, Artifacts
    <2>2. QED
        BY <1>1, <1>2, <2>1, ToldKept
<1>3. ASSUME \E d \in Docs : Publish(d) \/ Hide(d)
      PROVE  Told'
    BY <1>2, <1>3 DEF Publish, Hide, history
<1>4. ASSUME NEW a \in ArtifactIds, Expire(a)
      PROVE  Told'
    <2>1. UNCHANGED <<build, spoiled, file>>
        BY <1>4 DEF Expire, history
    <2>2. QED
        BY <1>1, <1>4, <2>1, KeptExpire, ToldKept
<1>5. ASSUME NEW h \in Hits, HitFollow(h) \/ HitResolve(h) \/ HitLoad(h) \/ HitServe(h) \/ HitEnd(h)
      PROVE  Told'
    BY <1>2, <1>5 DEF HitFollow, HitResolve, HitLoad, HitServe, HitEnd, history
<1>6. ASSUME NEW h \in Hits, HitRequest(h) \/ HitRequestLost(h)
      PROVE  Told'
    <2>1. Retarget(h) /\ UNCHANGED <<build, spoiled, file>>
        BY <1>6 DEF HitRequest, HitRequestLost, Retarget
    <2>2. QED
        BY <1>1, <2>1, KeptRequest, ToldKept
<1>7. ASSUME NEW b \in Builders,
             BuildStart(b) \/ BuildResolve(b) \/ BuildOpen(b) \/ BuildClose(b)
      PROVE  Told'
    BY <1>1, <1>7, ToldStart, ToldGoesOn
<1>8. ASSUME NEW b \in Builders, BuildRefused(b) \/ BuildFail(b) \/ BuildCommit(b)
      PROVE  Told'
    BY <1>1, <1>8, ToldRecords
<1>9. ASSUME NEW b \in Builders, BuildDie(b) \/ BuildTimeout(b) \/ DriftEnd(b)
      PROVE  Told'
    <2>1. spoiled'
        BY <1>9 DEF BuildDie, BuildTimeout, DriftEnd, history, Told, Alone, Running, Idle
    <2>2. QED
        BY <1>1, <2>1 DEF Told, Alone, Knows, RecordTellsFile
<1>10. CASE CleanupSelect \/ CleanupUnlink \/ CleanupAbort
    BY <1>2, <1>10 DEF CleanupSelect, CleanupUnlink, CleanupAbort, history
<1>11. CASE CleanupCommit
    <2>1. UNCHANGED <<build, spoiled, file>>
        BY <1>11 DEF CleanupCommit
    <2>2. QED
        BY <1>1, <1>11, <2>1, KeptCleanup, ToldKept
<1>12. CASE UNCHANGED vars
    BY <1>2, <1>12 DEF vars
<1>13. QED
    BY <1>3, <1>4, <1>5, <1>6, <1>7, <1>8, <1>9, <1>10, <1>11, <1>12 DEF Next

\* While no two builds of the archive ran at once and none died, the record of
\* a set that has but one (get_set_artifact), if it says ready and its file is
\* in place, tells what is in the file: although rows are written back only in
\* the columns that changed since they were loaded (build_set_archive).
THEOREM ReadyTellsTheFile == Spec => [](OneRecord => RecordTellsFile)
<1> DEFINE Tells == Typed /\ (OneRecord => Told)
<1>1. Init => Tells
    BY TypedInit, ToldInit
<1>2. Tells /\ [Next]_vars => Tells'
    BY TypedNext, OneRecordBefore, ToldNext
<1>3. Tells => (OneRecord => RecordTellsFile)
    BY DEF Told
<1> HIDE DEF Tells
<1>4. QED
    BY <1>1, <1>2, <1>3, PTL DEF Spec

-----------------------------------------------------------------------------
(* Who waits.  A record that says building is taken up by a job in the queue, *)
(* or by a build that runs and will not leave it so: it loaded the record as *)
(* building, and therefore sets the status whatever comes of it.             *)

Clears(b) ==
    /\ build[b].step # "adrift"
    /\ build[b].step = "loaded" => build[b].row # None /\ build[b].row.status = "building"
    /\ build[b].step \in {"loaded", "resolved", "writing"} => build[b].status = "building"
    /\ build[b].step # "loaded" => "status" \in build[b].writes

Waiting == {a \in Artifacts : artifact[a].status = "building" /\ ~artifact[a].expired}

Owed == Waiting # {} => queue > 0 \/ dropped \/ \E b \in Running : Clears(b)

\* Nobody waits who did not wait before, and who clears the record still does.
LEMMA OwedStill ==
    ASSUME Owed, Waiting' \subseteq Waiting, UNCHANGED <<queue, dropped>>,
           \A b \in Running : Clears(b) => b \in Running' /\ Clears(b)'
    PROVE  Owed'
BY DEF Owed

LEMMA OwedUntouched ==
    ASSUME Owed, UNCHANGED <<artifact, queue, build, dropped>>
    PROVE  Owed'
BY DEF Owed, Waiting, Artifacts, Running, Clears

LEMMA OwedExpire ==
    ASSUME Typed, Owed, NEW a \in ArtifactIds, Expire(a)
    PROVE  Owed'
<1>1. a \in Artifacts /\ artifact[a] \in Row /\ artifact' = [artifact EXCEPT ![a].expired = TRUE]
      /\ UNCHANGED <<queue, build, dropped>>
    BY RowsAre DEF Expire, Typed, history
<1> DEFINE row == [artifact[a] EXCEPT !.expired = TRUE]
<1>2. row \in Row /\ row.expired
    BY <1>1 DEF Row
<1>3. artifact' = [artifact EXCEPT ![a] = row]
    BY <1>1
<1> HIDE DEF row
<1>4. /\ Artifacts' = Artifacts \cup {a} /\ artifact'[a] = row
      /\ \A c \in ArtifactIds \ {a} : artifact'[c] = artifact[c]
    BY <1>2, <1>3, TypedRow
<1>5. Waiting' \subseteq Waiting
    BY <1>1, <1>2, <1>4 DEF Waiting, Artifacts
<1>6. QED
    BY <1>1, <1>5, OwedStill DEF Running, Clears

LEMMA OwedStart ==
    ASSUME OneRecord, Typed, Typed', NEW b \in Builders, BuildStart(b)
    PROVE  Owed'
<1>1. PICK a \in Artifacts :
          build' = [build EXCEPT ![b] =
              [step |-> "loaded", id |-> a, row |-> artifact[a], docs |-> {},
               status |-> artifact[a].status, writes |-> {}, clash |-> FALSE]]
    BY DEF BuildStart
<1>2. build'[b] = [step |-> "loaded", id |-> a, row |-> artifact[a], docs |-> {},
                   status |-> artifact[a].status, writes |-> {}, clash |-> FALSE]
    BY <1>1 DEF Typed, TypeOK
<1>3. a \in ArtifactIds /\ artifact[a] \in Row /\ artifact[a] # None /\ artifact' = artifact
    BY RowsAre DEF Typed, BuildStart, Artifacts
<1>4. build'[b] \in Build
    BY <1>2, <1>3 DEF Build, Row, View
<1>5. b \in Running'
    BY <1>4, NoneAssumption DEF Running
<1>6. ASSUME Waiting' # {}
      PROVE  Clears(b)'
    <2>1. artifact[a].status = "building"
        BY <1>3, <1>6 DEF Waiting, Artifacts, OneRecord
    <2>2. QED
        BY <1>2, <1>3, <2>1 DEF Clears
<1>7. QED
    BY <1>5, <1>6 DEF Owed

LEMMA OwedGoesOn ==
    ASSUME Typed, Typed', Owed, NEW b \in Builders, BuildResolve(b) \/ BuildClose(b)
    PROVE  Owed'
<1>1. b \in Running /\ build[b] \in Build /\ build[b] # None
    BY RowsAre DEF BuildResolve, BuildClose, Running, Idle, Typed
<1>2. PICK q \in Build : build'[b] = q /\ (\A c \in Builders \ {b} : build'[c] = build[c])
                         /\ (Clears(b) => Clears(b)')
    <2>1. CASE BuildResolve(b)
        <3> DEFINE writes == Finished(build[b].row, public)
                   q == [build[b] EXCEPT !.step = "resolved", !.docs = public, !.row = None,
                                         !.writes = writes]
        <3>1. writes \in SUBSET Column /\ public \in View
            BY DEF Finished, Typed, TypeOK
        <3>2. build[b].row.status = "building" => "status" \in writes
            BY DEF Finished, Column
        <3> HIDE DEF writes
        <3>3. /\ q \in Build /\ q.step = "resolved" /\ q.writes = writes
              /\ q.status = build[b].status
            BY <1>1, <3>1 DEF Build
        <3>4. build' = [build EXCEPT ![b] = q] /\ build[b].step = "loaded"
            BY <2>1 DEF BuildResolve, writes
        <3> HIDE DEF q
        <3>5. build'[b] = q /\ \A c \in Builders \ {b} : build'[c] = build[c]
            BY <3>4 DEF Typed, TypeOK
        <3>6. Clears(b) => Clears(b)'
            BY <3>2, <3>3, <3>4, <3>5 DEF Clears
        <3>7. QED
            BY <3>3, <3>5, <3>6
    <2>2. CASE BuildClose(b)
        <3> DEFINE q == [build[b] EXCEPT !.step = "written", !.status = None, !.clash = FALSE]
        <3>1. q \in Build /\ q.step = "written" /\ q.writes = build[b].writes
            BY <1>1 DEF Build
        <3>2. build' = [build EXCEPT ![b] = q] /\ build[b].step = "writing"
            BY <2>2 DEF BuildClose
        <3> HIDE DEF q
        <3>3. build'[b] = q /\ \A c \in Builders \ {b} : build'[c] = build[c]
            BY <3>2 DEF Typed, TypeOK
        <3>4. Clears(b) => Clears(b)'
            BY <3>1, <3>2, <3>3 DEF Clears
        <3>5. QED
            BY <3>1, <3>3, <3>4
    <2>3. QED
        BY <2>1, <2>2
<1>3. Running' = Running
    BY <1>1, <1>2, NoneAssumption DEF Running
<1>4. \A c \in Running : Clears(c) => Clears(c)'
    <2>1. \A c \in Running \ {b} : Clears(c) => Clears(c)'
        BY <1>2 DEF Clears, Running
    <2>2. QED
        BY <1>2, <2>1
<1>5. UNCHANGED <<artifact, queue, dropped>> /\ Waiting' = Waiting
    BY DEF BuildResolve, BuildClose, history, Waiting, Artifacts
<1>6. QED
    BY <1>3, <1>4, <1>5, OwedStill

LEMMA OwedOpen ==
    ASSUME Typed, Owed, NEW b \in Builders, BuildOpen(b)
    PROVE  Owed'
<1>1. /\ b \in Running /\ build[b] \in Build /\ build[b].step = "resolved" /\ b \notin Writing
      /\ build' = [c \in Builders |->
            CASE c = b -> [build[b] EXCEPT !.step = "writing", !.clash = Writing # {}]
              [] c \in Writing -> [build[c] EXCEPT !.clash = TRUE]
              [] OTHER -> build[c]]
    BY RowsAre DEF BuildOpen, Running, Idle, Typed, Writing
<1>2. ASSUME NEW c \in Running, Clears(c)
      PROVE  c \in Running' /\ Clears(c)'
    <2>1. build[c] \in Build /\ c \in Builders /\ build[c] # None
        BY RowsAre DEF Typed, Running
    <2>2. PICK step \in {"writing", build[c].step}, clash \in BOOLEAN :
              build'[c] = [build[c] EXCEPT !.step = step, !.clash = clash]
              /\ (step = build[c].step \/ build[c].step = "resolved")
        <3>1. CASE c = b
            <4> DEFINE clash == Writing # {}
            <4>1. clash \in BOOLEAN
                OBVIOUS
            <4>2. build'[c] = [build[c] EXCEPT !.step = "writing", !.clash = clash]
                BY <1>1, <3>1
            <4> HIDE DEF clash
            <4>3. QED
                BY <1>1, <3>1, <4>1, <4>2
        <3>2. CASE c # b /\ c \in Writing
            <4>1. build'[c] = [build[c] EXCEPT !.clash = TRUE]
                BY <1>1, <2>1, <3>2
            <4>2. build'[c] = [build[c] EXCEPT !.step = build[c].step, !.clash = TRUE]
                BY <2>1, <4>1 DEF Build
            <4>3. QED
                BY <4>2
        <3>3. CASE c # b /\ c \notin Writing
            <4>1. build'[c] = build[c]
                BY <1>1, <2>1, <3>3
            <4>2. build'[c] = [build[c] EXCEPT !.step = build[c].step, !.clash = build[c].clash]
                  /\ build[c].clash \in BOOLEAN
                BY <2>1, <4>1 DEF Build
            <4>3. QED
                BY <4>2
        <3>4. QED
            BY <3>1, <3>2, <3>3
    <2>3. /\ build'[c] \in Build /\ build'[c].step = step /\ build'[c].writes = build[c].writes
          /\ build'[c].row = build[c].row /\ build'[c].status = build[c].status
        BY <2>1, <2>2 DEF Build
    <2>4. QED
        BY <1>2, <2>1, <2>2, <2>3, NoneAssumption DEF Clears, Running
<1>3. UNCHANGED <<artifact, queue, dropped>> /\ Waiting' = Waiting
    BY DEF BuildOpen, history, Waiting, Artifacts
<1>4. QED
    BY <1>2, <1>3, OwedStill

\* It is over: who would clear the record has done so.
LEMMA OwedRecords ==
    ASSUME OneRecord', Typed, Owed, NEW b \in Builders,
           BuildRefused(b) \/ BuildFail(b) \/ BuildCommit(b)
    PROVE  Owed'
<1>1. /\ b \in Running /\ build[b].id \in Artifacts /\ build[b].id \in ArtifactIds
      /\ build' = [build EXCEPT ![b] = None] /\ UNCHANGED <<queue, dropped>>
    BY RowsAre DEF BuildRefused, BuildFail, BuildCommit, Failed, history, Running, Idle,
        Typed, BuildsFind
<1> DEFINE a == build[b].id
<1>2. PICK row \in Row :
          /\ artifact' = [artifact EXCEPT ![a] = row]
          /\ row.expired = artifact[a].expired
          /\ row.status = artifact[a].status \/ row.status # "building"
          /\ Clears(b) => row.status # "building"
    <2>1. CASE BuildCommit(b)
        <3>1. build[b].step = "written"
            BY <2>1 DEF BuildCommit
        <3>2. QED
            BY <1>1, <2>1, <3>1, CommittedRow DEF Clears
    <2>2. CASE BuildRefused(b) \/ BuildFail(b)
        <3>1. Failed(b) /\ build[b].step \in {"resolved", "writing"}
            BY <2>2 DEF BuildRefused, BuildFail
        <3>2. QED
            BY <1>1, <3>1, FailedRow DEF Clears
    <2>3. QED
        BY <2>1, <2>2
<1>3. Artifacts' = Artifacts \cup {a} /\ artifact'[a] = row
    BY <1>1, <1>2, TypedRow
<1>4. \A c \in Artifacts' : c = a
    BY <1>3 DEF OneRecord
<1>5. Waiting' \subseteq Waiting
    BY <1>1, <1>2, <1>3, <1>4 DEF Waiting
<1>6. CASE Clears(b)
    <2>1. Waiting' = {}
        BY <1>2, <1>3, <1>4, <1>6 DEF Waiting
    <2>2. QED
        BY <2>1 DEF Owed
<1>7. CASE ~Clears(b)
    <2>1. \A c \in Running \ {b} : c \in Running' /\ build'[c] = build[c]
        BY <1>1 DEF Running, Typed, TypeOK
    <2>2. \A c \in Running : Clears(c) => c \in Running' /\ Clears(c)'
        BY <1>7, <2>1 DEF Clears
    <2>3. QED
        BY <1>1, <1>5, <2>2, OwedStill
<1>8. QED
    BY <1>6, <1>7

LEMMA OwedDrift ==
    ASSUME Typed, Owed, NEW b \in Builders, DriftEnd(b)
    PROVE  Owed'
<1>1. /\ build[b].step = "adrift" /\ build' = [build EXCEPT ![b] = None]
      /\ UNCHANGED <<artifact, queue, dropped>>
    BY DEF DriftEnd, history
<1>2. \A c \in Running \ {b} : c \in Running' /\ build'[c] = build[c]
    BY <1>1 DEF Running, Typed, TypeOK
<1>3. \A c \in Running : Clears(c) => c \in Running' /\ Clears(c)'
    BY <1>1, <1>2 DEF Clears
<1>4. Waiting' = Waiting
    BY <1>1 DEF Waiting, Artifacts
<1>5. QED
    BY <1>1, <1>3, <1>4, OwedStill

\* What the cleanup makes building has expired, or it counts as dropped.
LEMMA OwedCleanup ==
    ASSUME Typed, Owed, CleanupCommit
    PROVE  Owed'
<1>1. /\ dropped' = (dropped \/ \E a \in cleanup.due : ~artifact[a].expired)
      /\ UNCHANGED <<queue, build>>
    BY DEF CleanupCommit
<1>2. CASE \E a \in cleanup.due : ~artifact[a].expired
    BY <1>1, <1>2 DEF Owed
<1>3. CASE \A a \in cleanup.due : artifact[a].expired
    <2>1. Waiting' \subseteq Waiting
        BY <1>3, CleanedRows DEF Waiting, Artifacts
    <2>2. dropped' = dropped
        BY <1>1, <1>3 DEF Typed, TypeOK
    <2>3. QED
        BY <1>1, <2>1, <2>2, OwedStill DEF Running, Clears
<1>4. QED
    BY <1>2, <1>3

LEMMA OwedNext == OneRecord /\ OneRecord' /\ Typed /\ Owed /\ [Next]_vars => Owed'
<1>. SUFFICES ASSUME OneRecord, OneRecord', Typed, Owed, [Next]_vars PROVE Owed'
    OBVIOUS
<1>1. Typed'
    BY TypedNext
<1>2. ASSUME \E d \in Docs : Publish(d) \/ Hide(d)
      PROVE  Owed'
    BY <1>2, OwedUntouched DEF Publish, Hide, history
<1>3. ASSUME NEW a \in ArtifactIds, Expire(a)
      PROVE  Owed'
    BY <1>3, OwedExpire
<1>4. ASSUME NEW h \in Hits, HitFollow(h) \/ HitResolve(h) \/ HitLoad(h) \/ HitServe(h) \/ HitEnd(h)
      PROVE  Owed'
    BY <1>4, OwedUntouched DEF HitFollow, HitResolve, HitLoad, HitServe, HitEnd, history
<1>5. ASSUME NEW h \in Hits, HitRequest(h)
      PROVE  Owed'
    <2>1. queue' > 0
        BY <1>5 DEF HitRequest, Typed, TypeOK
    <2>2. QED
        BY <2>1 DEF Owed
<1>6. ASSUME NEW h \in Hits, HitRequestLost(h)
      PROVE  Owed'
    BY <1>6 DEF HitRequestLost, Owed
<1>7. ASSUME NEW b \in Builders,
             BuildStart(b) \/ BuildResolve(b) \/ BuildOpen(b) \/ BuildClose(b) \/ DriftEnd(b)
      PROVE  Owed'
    BY <1>1, <1>7, OwedStart, OwedGoesOn, OwedOpen, OwedDrift
<1>8. ASSUME NEW b \in Builders, BuildRefused(b) \/ BuildFail(b) \/ BuildCommit(b)
      PROVE  Owed'
    BY <1>8, OwedRecords
<1>9. ASSUME NEW b \in Builders, BuildDie(b) \/ BuildTimeout(b)
      PROVE  Owed'
    BY <1>9 DEF BuildDie, BuildTimeout, Owed
<1>10. CASE CleanupSelect \/ CleanupUnlink \/ CleanupAbort
    BY <1>10, OwedUntouched DEF CleanupSelect, CleanupUnlink, CleanupAbort, history
<1>11. CASE CleanupCommit
    BY <1>11, OwedCleanup
<1>12. CASE UNCHANGED vars
    BY <1>12, OwedUntouched DEF vars
<1>13. QED
    BY <1>2, <1>3, <1>4, <1>5, <1>6, <1>7, <1>8, <1>9, <1>10, <1>11, <1>12 DEF Next

\* Where a set has one record, who is told to wait waits for a job in the queue
\* or a build that runs (ensure_current_archive), unless a job was lost or the
\* cleanup overwrote a record that had been renewed.
THEOREM WaitingIsOwed == Spec => [](OneRecord => BuildOwed)
<1> DEFINE Waits == Typed /\ (OneRecord => Owed)
<1>1. Init => Waits
    BY TypedInit DEF Init, Owed, Waiting, Artifacts
<1>2. Waits /\ [Next]_vars => Waits'
    BY TypedNext, OneRecordBefore, OwedNext
<1>3. Waits => (OneRecord => BuildOwed)
    BY DEF Owed, BuildOwed, Waiting
<1> HIDE DEF Waits
<1>4. QED
    BY <1>1, <1>2, <1>3, PTL DEF Spec

=============================================================================
