--------------------------- MODULE ShareLinksProof ---------------------------
(* Proofs about ShareLinks, for every set of links, artifacts and requests   *)
(* and every limit: the limits hold but for races, nothing of a deleted set  *)
(* is left but by a late build, and a link keeps the promise of LinkPromise. *)
EXTENDS ShareLinks, FiniteSetTheorems, TLAPS

-----------------------------------------------------------------------------
(* The inductive invariant. *)

CreateRequest == [op : {"create"}, kind : Kinds, art : Arts \cup {None}, found : BOOLEAN,
                  alone : BOOLEAN]
AccessRequest == [op |-> "access"]
DownloadRequest == [op : {"download"}, link : Links, count : 0..1]
GalleryRequest == [op : {"gallery"}, link : Links]
Request == {Idle, AccessRequest} \cup CreateRequest \cup DownloadRequest \cup GalleryRequest

Typed ==
    /\ live \in BOOLEAN /\ zip \in BOOLEAN
    /\ build \in {"none", "running", "late"}
    /\ arts \subseteq Arts /\ raced \subseteq Links /\ made \in [Links -> Kinds \cup {None}]
    /\ link \in [Links -> Rows \cup {None}]
    /\ req \in [Requests -> Request]

\* A link hangs on an artifact that is there, and is of the kind it was made.
LinksHang == \A l \in Links : Exists(l) => link[l].art \in arts /\ link[l].kind = made[l]

\* The archive and its build belong to a set with an artifact.
ZipHasArtifact == live /\ (zip \/ build = "running") => arts # {}
BuildOfASet == (build = "running" => live) /\ (build = "late" => ~live)

\* A download that was let in by a one-time link read that it was not used.
ReadUnused ==
    \A r \in Requests : req[r].op = "download" =>
        /\ made[req[r].link] # None
        /\ made[req[r].link] = "one_time" => req[r].count = 0

\* The links that count for a limit.
Standing(a, kind) ==
    {l \in Links \ raced : Exists(l) /\ link[l].art = a /\ link[l].kind = kind /\ Active(link[l])}

\* Who creates a link alone has room for it still: there was no artifact, and
\* there are no links, or the links of his artifact are below the limit.
RoomForOne(q) ==
    IF q.art = None
    THEN LinkLimits[q.kind] > 0 /\ \A l \in Links : ~Exists(l)
    ELSE Cardinality(Standing(q.art, q.kind)) < LinkLimits[q.kind]
Room == \A r \in Requests : req[r].op = "create" /\ req[r].alone => RoomForOne(req[r])

IInv == Typed /\ LinksHang /\ ZipHasArtifact /\ BuildOfASet /\ ZipGoesWithTheSet /\ ReadUnused
        /\ Room /\ WithinLimitsUnlessRaced

-----------------------------------------------------------------------------
(* Requests and limits. *)

LEMMA RequestByOp ==
    ASSUME NEW q \in Request
    PROVE  /\ q.op \in {"none", "create", "access", "download", "gallery"}
           /\ q.op = "none" <=> q = Idle
           /\ q.op = "create" => q \in CreateRequest
           /\ q.op = "access" => q = AccessRequest
           /\ q.op = "download" => q \in DownloadRequest
           /\ q.op = "gallery" => q \in GalleryRequest
BY DEF Request, Idle, AccessRequest, CreateRequest, DownloadRequest, GalleryRequest

\* A set of links has a number of elements, a part of it no more.
LEMMA Counting ==
    ASSUME NEW S \in SUBSET Links, NEW T \in SUBSET S
    PROVE  Cardinality(T) \in Nat /\ Cardinality(S) \in Nat /\ Cardinality(T) <= Cardinality(S)
BY LinkLimitsAssumption, FS_Subset, FS_CardinalityType

LEMMA LimitsByStanding ==
    WithinLimitsUnlessRaced <=>
        \A a \in Arts, kind \in Kinds : Cardinality(Standing(a, kind)) <= LinkLimits[kind]
BY DEF WithinLimitsUnlessRaced, Standing

\* Limits and room are kept when no link comes to count and who is alone was so
\* before.
LEMMA LimitsKept ==
    ASSUME IInv, Typed',
           \A a, kind : Standing(a, kind)' \subseteq Standing(a, kind),
           \A l \in Links : Exists(l)' => Exists(l),
           \A r \in Requests : req'[r].op = "create" /\ req'[r].alone =>
               /\ req[r].op = "create" /\ req[r].alone /\ req'[r].kind = req[r].kind
               /\ req'[r].art = req[r].art
    PROVE  Room' /\ WithinLimitsUnlessRaced'
<1>1. ASSUME NEW a, NEW kind
      PROVE  /\ Cardinality(Standing(a, kind)') \in Nat
             /\ Cardinality(Standing(a, kind)) \in Nat
             /\ Cardinality(Standing(a, kind)') <= Cardinality(Standing(a, kind))
    <2>1. Standing(a, kind) \in SUBSET Links /\ Standing(a, kind)' \in SUBSET Standing(a, kind)
        BY DEF Standing
    <2>2. QED
        BY <2>1, Counting
<1>2. ASSUME NEW a \in Arts, NEW kind \in Kinds
      PROVE  Cardinality(Standing(a, kind)') <= LinkLimits[kind]
    <2>1. Cardinality(Standing(a, kind)) <= LinkLimits[kind]
        BY LimitsByStanding DEF IInv
    <2>2. LinkLimits[kind] \in Nat
        BY LinkLimitsAssumption
    <2>3. QED
        BY <1>1, <2>1, <2>2
<1>3. WithinLimitsUnlessRaced'
    BY <1>2 DEF WithinLimitsUnlessRaced, Standing
<1>4. ASSUME NEW r \in Requests, req'[r].op = "create", req'[r].alone
      PROVE  RoomForOne(req[r])'
    <2>1. /\ req[r].op = "create" /\ req[r].alone
          /\ req'[r].kind = req[r].kind /\ req'[r].art = req[r].art
          /\ req[r] \in CreateRequest
        BY <1>4, RequestByOp DEF IInv, Typed
    <2>2. RoomForOne(req[r])
        BY <2>1 DEF IInv, Room
    <2>3. CASE req[r].art = None
        BY <2>1, <2>2, <2>3 DEF RoomForOne
    <2>4. CASE req[r].art # None
        <3>1. PICK a \in Arts, kind \in Kinds : a = req[r].art /\ kind = req[r].kind
            BY <2>1, <2>4 DEF CreateRequest
        <3>2. LinkLimits[kind] \in Nat /\ Cardinality(Standing(a, kind)) < LinkLimits[kind]
            BY <2>2, <2>4, <3>1, LinkLimitsAssumption DEF RoomForOne
        <3>3. Cardinality(Standing(a, kind)') < LinkLimits[kind]
            BY <1>1, <3>2
        <3>4. a # None /\ req'[r].art = a /\ req'[r].kind = kind
            BY <2>1, <2>4, <3>1
        <3>5. QED
            BY <3>3, <3>4 DEF RoomForOne, Standing
    <2>5. QED
        BY <2>3, <2>4
<1>5. Room'
    BY <1>4 DEF Room, RoomForOne, Standing, Exists, Active
<1>6. QED
    BY <1>3, <1>5

-----------------------------------------------------------------------------
(* Every step keeps the invariant. *)

LEMMA InvInit == Init => IInv
<1>. SUFFICES ASSUME Init PROVE IInv
    OBVIOUS
<1>1. Typed /\ LinksHang /\ ZipHasArtifact /\ BuildOfASet /\ ZipGoesWithTheSet
    BY DEF Init, Typed, Request, LinksHang, Exists, ZipHasArtifact, BuildOfASet, ZipGoesWithTheSet
<1>2. ReadUnused /\ Room
    BY DEF Init, ReadUnused, Room, Idle
<1>3. WithinLimitsUnlessRaced
    <2>1. ASSUME NEW a \in Arts, NEW kind \in Kinds
          PROVE  Cardinality(Standing(a, kind)) <= LinkLimits[kind]
        <3>1. Standing(a, kind) = {}
            BY DEF Init, Standing, Exists
        <3>2. QED
            BY <3>1, FS_EmptySet, LinkLimitsAssumption
    <2>2. QED
        BY <2>1, LimitsByStanding
<1>4. QED
    BY <1>1, <1>2, <1>3 DEF IInv

\* A request that reads writes nothing but what it read.
LEMMA Reads ==
    ASSUME IInv, NEW r \in Requests, NEW q \in Request, req' = [req EXCEPT ![r] = q],
           UNCHANGED <<live, arts, link, zip, build, raced, made>>,
           q.op = "download" => /\ made[q.link] # None
                                /\ made[q.link] = "one_time" => q.count = 0,
           q.op = "create" /\ q.alone => RoomForOne(q)
    PROVE  IInv'
<1>1. /\ req' \in [Requests -> Request] /\ req'[r] = q
      /\ \A x \in Requests \ {r} : req'[x] = req[x]
    BY DEF IInv, Typed
<1>2. Typed'
    BY <1>1 DEF IInv, Typed
<1>3. LinksHang' /\ ZipHasArtifact' /\ BuildOfASet' /\ ZipGoesWithTheSet'
    BY DEF IInv, LinksHang, ZipHasArtifact, BuildOfASet, ZipGoesWithTheSet, Exists
<1>4. ReadUnused'
    BY <1>1 DEF IInv, ReadUnused
<1>5. Room'
    BY <1>1 DEF IInv, Room, RoomForOne, Standing, Exists, Active
<1>6. WithinLimitsUnlessRaced'
    BY DEF IInv, WithinLimitsUnlessRaced, Exists, Active
<1>7. QED
    BY <1>2, <1>3, <1>4, <1>5, <1>6 DEF IInv

\* Below the limit there is room for one; without an artifact there is no link.
LEMMA InvCountLinks ==
    ASSUME IInv, NEW r \in Requests, NEW kind \in Kinds, CountLinks(r, kind)
    PROVE  IInv'
<1>1. PICK a \in AnArtifact :
          /\ ~AtLimit(a, kind)
          /\ req' = [req EXCEPT ![r] = [op |-> "create", kind |-> kind, art |-> a, found |-> FALSE,
                                        alone |-> InCreation = {}]]
    BY DEF CountLinks
<1> DEFINE q == [op |-> "create", kind |-> kind, art |-> a, found |-> FALSE,
                 alone |-> InCreation = {}]
<1>2. /\ a \in Arts \cup {None} /\ (a = None <=> arts = {})
    BY <1>1, NoneAssumption DEF AnArtifact, IInv, Typed
<1>3. q \in CreateRequest /\ q.op = "create" /\ q.art = a /\ q.kind = kind
    BY <1>2 DEF CreateRequest
<1>4. req' = [req EXCEPT ![r] = q]
    BY <1>1
<1> HIDE DEF q
<1>5. RoomForOne(q)
    <2>1. CASE a = None
        <3>1. \A l \in Links : ~Exists(l)
            BY <1>2, <2>1 DEF IInv, LinksHang
        <3>2. LinkLimits[kind] > 0
            BY <1>1, <2>1, LinkLimitsAssumption DEF AtLimit
        <3>3. QED
            BY <1>3, <2>1, <3>1, <3>2 DEF RoomForOne
    <2>2. CASE a # None
        <3> DEFINE S == {l \in Links : Exists(l) /\ link[l].art = a /\ link[l].kind = kind
                                                 /\ Active(link[l])}
        <3>1. ~(Cardinality(S) >= LinkLimits[kind])
            BY <1>1, <2>2 DEF AtLimit, ActiveCount
        <3>2. S \in SUBSET Links /\ Standing(a, kind) \in SUBSET S
            BY DEF Standing
        <3> HIDE DEF S
        <3>3. /\ Cardinality(S) \in Nat /\ Cardinality(Standing(a, kind)) \in Nat
              /\ Cardinality(Standing(a, kind)) <= Cardinality(S)
            BY <3>2, Counting
        <3>4. LinkLimits[kind] \in Nat
            BY LinkLimitsAssumption
        <3>5. Cardinality(Standing(a, kind)) < LinkLimits[kind]
            BY <3>1, <3>3, <3>4
        <3>6. QED
            BY <1>3, <2>2, <3>5 DEF RoomForOne
    <2>3. QED
        BY <2>1, <2>2
<1>6. UNCHANGED <<live, arts, link, zip, build, raced, made>>
    BY DEF CountLinks
<1>7. QED
    BY <1>3, <1>4, <1>5, <1>6, Reads DEF Request

\* The artifact found is the one counted on, or there were no links to count.
LEMMA InvEnsureFinds ==
    ASSUME IInv, NEW r \in Requests, EnsureFinds(r)
    PROVE  IInv'
<1> DEFINE old == req[r]
<1>1. old \in CreateRequest
    BY RequestByOp DEF IInv, Typed, EnsureFinds
<1>2. PICK a \in AnArtifact :
          req' = [req EXCEPT ![r].found = TRUE, ![r].art = a,
                             ![r].alone = @ /\ req[r].art \in {None, a}]
    BY DEF EnsureFinds
<1> DEFINE q == [old EXCEPT !.found = TRUE, !.art = a, !.alone = @ /\ old.art \in {None, a}]
<1>3. a \in Arts \cup {None}
    BY <1>2 DEF AnArtifact, IInv, Typed
<1>4. /\ q \in CreateRequest /\ q.op = "create" /\ q.art = a /\ q.kind = old.kind
      /\ q.alone => old.alone /\ old.art \in {None, a}
    BY <1>1, <1>3 DEF CreateRequest
<1>5. req' = [req EXCEPT ![r] = q]
    BY <1>2 DEF IInv, Typed
<1> HIDE DEF q
<1>6. ASSUME q.alone PROVE RoomForOne(q)
    <2>1. RoomForOne(old) /\ old.art \in {None, a} /\ old.kind \in Kinds
        BY <1>1, <1>4, <1>6 DEF IInv, Room, CreateRequest
    <2>2. CASE old.art = None /\ a # None
        <3>1. Standing(a, old.kind) = {}
            BY <2>1, <2>2 DEF RoomForOne, Standing
        <3>2. Cardinality(Standing(a, old.kind)) = 0
            BY <3>1, FS_EmptySet
        <3>3. QED
            BY <1>4, <2>1, <2>2, <3>2 DEF RoomForOne
    <2>3. CASE ~(old.art = None /\ a # None)
        BY <1>4, <2>1, <2>3 DEF RoomForOne
    <2>4. QED
        BY <2>2, <2>3
<1>7. UNCHANGED <<live, arts, link, zip, build, raced, made>>
    BY DEF EnsureFinds
<1>8. QED
    BY <1>4, <1>5, <1>6, <1>7, Reads DEF Request

LEMMA InvAccesses ==
    ASSUME IInv, NEW r \in Requests,
           \/ OwnerAccess(r) \/ ServeFails(r) \/ LeaveGallery(r) \/ Abandon(r)
           \/ \E l \in Links : OpenGallery(r, l)
    PROVE  IInv'
<1>1. PICK q \in Request : /\ req' = [req EXCEPT ![r] = q]
                           /\ q.op \in {"none", "access", "gallery"}
    <2>1. ASSUME NEW l \in Links
          PROVE  /\ [op |-> "gallery", link |-> l] \in Request
                 /\ [op |-> "gallery", link |-> l].op = "gallery"
        BY DEF Request, GalleryRequest
    <2>2. /\ Idle \in Request /\ Idle.op = "none"
          /\ AccessRequest \in Request /\ AccessRequest.op = "access"
        BY DEF Request, Idle, AccessRequest
    <2>3. QED
        BY <2>1, <2>2 DEF OwnerAccess, ServeFails, LeaveGallery, Abandon, OpenGallery, AccessRequest
<1>2. UNCHANGED <<live, arts, link, zip, build, raced, made>>
    BY DEF OwnerAccess, ServeFails, LeaveGallery, Abandon, OpenGallery
<1>3. QED
    BY <1>1, <1>2, Reads

LEMMA InvDownload ==
    ASSUME IInv, NEW r \in Requests, NEW l \in Links, Download(r, l)
    PROVE  IInv'
<1> DEFINE q == [op |-> "download", link |-> l, count |-> link[l].count]
<1>1. link[l] \in Rows /\ link[l].kind = made[l] /\ made[l] # None
    BY NoneAssumption DEF Download, IInv, Typed, Exists, LinksHang, Rows
<1>2. q \in DownloadRequest /\ q.op = "download" /\ q.link = l
    BY <1>1 DEF DownloadRequest, Rows
<1>3. made[l] = "one_time" => q.count = 0
    BY <1>1 DEF Download, Usable, Active, Rows
<1>4. req' = [req EXCEPT ![r] = q] /\ UNCHANGED <<live, arts, link, zip, build, raced, made>>
    BY DEF Download
<1> HIDE DEF q
<1>5. QED
    BY <1>1, <1>2, <1>3, <1>4, Reads DEF Request

\* A link's row written anew with the same artifact and kind, not revived.
LEMMA RowWritten ==
    ASSUME IInv, NEW l \in Links, Exists(l), NEW row \in Rows, link' = [link EXCEPT ![l] = row],
           row.art = link[l].art, row.kind = link[l].kind, Active(row) => Active(link[l]),
           UNCHANGED <<arts, raced, made>>
    PROVE  /\ link' \in [Links -> Rows \cup {None}]
           /\ LinksHang'
           /\ \A a, kind : Standing(a, kind)' \subseteq Standing(a, kind)
           /\ \A k \in Links : Exists(k)' => Exists(k)
<1>1. /\ link' \in [Links -> Rows \cup {None}] /\ link'[l] = row /\ row # None
      /\ \A k \in Links \ {l} : link'[k] = link[k]
    BY NoneAssumption DEF IInv, Typed
<1>2. \A k \in Links : link'[k] # None <=> link[k] # None
    BY <1>1 DEF Exists
<1>3. LinksHang'
    BY <1>1, <1>2 DEF IInv, LinksHang, Exists
<1>4. ASSUME NEW a, NEW kind, NEW k \in Standing(a, kind)'
      PROVE  k \in Standing(a, kind)
    <2>1. /\ k \in Links \ raced /\ link'[k] # None /\ link'[k].art = a /\ link'[k].kind = kind
          /\ Active(link'[k])
        BY <1>4 DEF Standing, Exists, Active
    <2>2. CASE k = l
        BY <1>1, <1>2, <2>1, <2>2 DEF Standing, Exists
    <2>3. CASE k # l
        BY <1>1, <1>2, <2>1, <2>3 DEF Standing, Exists
    <2>4. QED
        BY <2>2, <2>3
<1>5. QED
    BY <1>1, <1>2, <1>3, <1>4 DEF Exists

\* A download served: a one-time link read unused is used now.
LEMMA InvServe ==
    ASSUME IInv, NEW r \in Requests, Serve(r)
    PROVE  IInv'
<1> DEFINE l == req[r].link
           row == Counted(r)
<1>1. req[r] \in DownloadRequest /\ l \in Links /\ Exists(l)
    BY RequestByOp DEF IInv, Typed, Serve, DownloadRequest
<1>2. link[l] \in Rows /\ link[l].kind = made[l] /\ (link[l].kind = "one_time" => req[r].count = 0)
    BY <1>1 DEF IInv, Typed, Exists, LinksHang, ReadUnused, Serve
<1>3. /\ row \in Rows /\ row.art = link[l].art /\ row.kind = link[l].kind
      /\ Active(row) => Active(link[l])
    BY <1>1, <1>2 DEF Counted, Rows, Active
<1> HIDE DEF row
<1>4. /\ link' = [link EXCEPT ![l] = row] /\ req' = [req EXCEPT ![r] = Idle]
      /\ UNCHANGED <<live, arts, zip, build, raced, made>>
    BY DEF Serve, row
<1>5. /\ link' \in [Links -> Rows \cup {None}] /\ LinksHang'
      /\ \A a, kind : Standing(a, kind)' \subseteq Standing(a, kind)
      /\ \A k \in Links : Exists(k)' => Exists(k)
    BY <1>1, <1>3, <1>4, RowWritten
<1>6. \A x \in Requests : req'[x] = Idle \/ req'[x] = req[x]
    BY <1>4 DEF IInv, Typed
<1>7. Typed'
    BY <1>4, <1>5 DEF IInv, Typed, Request
<1>8. ZipHasArtifact' /\ BuildOfASet' /\ ZipGoesWithTheSet'
    BY <1>4 DEF IInv, ZipHasArtifact, BuildOfASet, ZipGoesWithTheSet
<1>9. ReadUnused'
    BY <1>4, <1>6 DEF IInv, ReadUnused, Idle
<1>10. Room' /\ WithinLimitsUnlessRaced'
    <2>1. \A x \in Requests : req'[x].op = "create" => req'[x] = req[x]
        BY <1>6 DEF Idle
    <2>2. QED
        BY <1>5, <1>7, <2>1, LimitsKept
<1>11. QED
    BY <1>5, <1>7, <1>8, <1>9, <1>10 DEF IInv

LEMMA InvLinkEnds ==
    ASSUME IInv, NEW l \in Links, Revoke(l) \/ Expire(l)
    PROVE  IInv'
<1>1. Exists(l) /\ link[l] \in Rows
    BY DEF IInv, Typed, Revoke, Expire, Owned, Exists
<1>2. PICK row \in Rows :
          /\ link' = [link EXCEPT ![l] = row]
          /\ row.art = link[l].art /\ row.kind = link[l].kind /\ ~Active(row)
    <2>1. CASE Revoke(l)
        <3> DEFINE row == [link[l] EXCEPT !.revoked = TRUE]
        <3>1. row \in Rows /\ row.art = link[l].art /\ row.kind = link[l].kind /\ ~Active(row)
            BY <1>1 DEF Rows, Active
        <3>2. link' = [link EXCEPT ![l] = row]
            BY <2>1 DEF Revoke
        <3>3. QED
            BY <3>1, <3>2
    <2>2. CASE Expire(l)
        <3> DEFINE row == [link[l] EXCEPT !.expired = TRUE]
        <3>1. row \in Rows /\ row.art = link[l].art /\ row.kind = link[l].kind /\ ~Active(row)
            BY <1>1 DEF Rows, Active
        <3>2. link' = [link EXCEPT ![l] = row]
            BY <2>2 DEF Expire
        <3>3. QED
            BY <3>1, <3>2
    <2>3. QED
        BY <2>1, <2>2
<1>3. UNCHANGED <<live, arts, zip, build, req, raced, made>>
    BY DEF Revoke, Expire
<1>4. /\ link' \in [Links -> Rows \cup {None}] /\ LinksHang'
      /\ \A a, kind : Standing(a, kind)' \subseteq Standing(a, kind)
      /\ \A k \in Links : Exists(k)' => Exists(k)
    BY <1>1, <1>2, <1>3, RowWritten
<1>5. Typed'
    BY <1>3, <1>4 DEF IInv, Typed
<1>6. ZipHasArtifact' /\ BuildOfASet' /\ ZipGoesWithTheSet' /\ ReadUnused'
    BY <1>3 DEF IInv, ZipHasArtifact, BuildOfASet, ZipGoesWithTheSet, ReadUnused
<1>7. Room' /\ WithinLimitsUnlessRaced'
    BY <1>3, <1>4, <1>5, LimitsKept
<1>8. QED
    BY <1>4, <1>5, <1>6, <1>7 DEF IInv

LEMMA InvArchive ==
    ASSUME IInv, CleanUp \/ BuildStarts \/ BuildEnds
    PROVE  IInv'
<1>1. UNCHANGED <<live, arts, link, req, raced, made>>
    BY DEF CleanUp, BuildStarts, BuildEnds
<1>2. Typed' /\ ZipHasArtifact' /\ BuildOfASet' /\ ZipGoesWithTheSet'
    <2>1. CASE CleanUp
        <3>1. zip' = FALSE /\ build' = build /\ arts # {}
            BY <2>1 DEF CleanUp
        <3>2. QED
            BY <1>1, <3>1 DEF IInv, Typed, ZipHasArtifact, BuildOfASet, ZipGoesWithTheSet
    <2>2. CASE BuildStarts
        BY <1>1, <2>2 DEF IInv, Typed, ZipHasArtifact, BuildOfASet, ZipGoesWithTheSet, BuildStarts
    <2>3. CASE BuildEnds
        <3>1. /\ build \in {"running", "late"} /\ zip' = TRUE
              /\ build' = IF build = "late" THEN "late" ELSE "none"
            BY <2>3 DEF BuildEnds, IInv, Typed
        <3>2. QED
            BY <1>1, <3>1
            DEF IInv, Typed, ZipHasArtifact, BuildOfASet, ZipGoesWithTheSet
    <2>4. QED
        BY <2>1, <2>2, <2>3
<1>3. LinksHang' /\ ReadUnused'
    BY <1>1 DEF IInv, LinksHang, Exists, ReadUnused
<1>4. Room' /\ WithinLimitsUnlessRaced'
    BY <1>1 DEF IInv, Room, RoomForOne, WithinLimitsUnlessRaced, Standing, Exists, Active
<1>5. QED
    BY <1>2, <1>3, <1>4 DEF IInv

\* The links of the artifact that goes, go with it.
LEMMA InvDeleteSet ==
    ASSUME IInv, DeleteSet
    PROVE  IInv'
<1>1. PICK a \in AnArtifact :
          /\ arts' = arts \ {a}
          /\ link' = [l \in Links |-> IF Exists(l) /\ link[l].art = a THEN None ELSE link[l]]
    BY DEF DeleteSet
<1>2. /\ live /\ live' = FALSE /\ zip' = ZipAfterDelete
      /\ build' = IF build = "running" THEN "late" ELSE build
      /\ UNCHANGED <<req, raced, made>>
    BY DEF DeleteSet
<1>3. zip' = FALSE
    BY <1>2 DEF ZipAfterDelete, IInv, ZipHasArtifact
<1>4. \A l \in Links : link'[l] # None => link'[l] = link[l] /\ link[l] # None /\ link[l].art # a
    BY <1>1 DEF Exists
<1>5. Typed'
    BY <1>1, <1>2, <1>3 DEF IInv, Typed
<1>6. LinksHang'
    BY <1>1, <1>2, <1>4 DEF IInv, LinksHang, Exists
<1>7. ZipHasArtifact' /\ BuildOfASet' /\ ZipGoesWithTheSet'
    BY <1>2, <1>3 DEF IInv, Typed, ZipHasArtifact, BuildOfASet, ZipGoesWithTheSet
<1>8. ReadUnused'
    BY <1>2 DEF IInv, ReadUnused
<1>9. Room' /\ WithinLimitsUnlessRaced'
    <2>1. \A b, kind : Standing(b, kind)' \subseteq Standing(b, kind)
        BY <1>2, <1>4 DEF Standing, Exists, Active
    <2>2. \A l \in Links : Exists(l)' => Exists(l)
        BY <1>4 DEF Exists
    <2>3. QED
        BY <1>2, <1>5, <2>1, <2>2, LimitsKept
<1>10. QED
    BY <1>5, <1>6, <1>7, <1>8, <1>9 DEF IInv

\* A new artifact has no links yet.
LEMMA InvInsertArtifact ==
    ASSUME IInv, NEW r \in Requests, InsertArtifact(r)
    PROVE  IInv'
<1>1. PICK a \in Arts \ arts :
          /\ arts' = arts \cup {a}
          /\ req' = [req EXCEPT ![r] = IF @.op = "access" THEN Idle ELSE [@ EXCEPT !.art = a]]
    BY DEF InsertArtifact
<1>2. UNCHANGED <<live, link, zip, build, raced, made>>
    BY DEF InsertArtifact
<1> DEFINE q == IF req[r].op = "access" THEN Idle ELSE [req[r] EXCEPT !.art = a]
<1>3. /\ q = Idle \/ /\ q \in CreateRequest /\ q.art = a /\ req[r].op = "create" /\ req[r].art = None
                     /\ q.alone = req[r].alone /\ q.kind = req[r].kind /\ req[r] \in CreateRequest
    <2>1. CASE req[r].op = "access"
        BY <2>1
    <2>2. CASE req[r].op # "access"
        <3>1. req[r].op = "create" /\ req[r].art = None
            BY <2>2 DEF InsertArtifact
        <3>2. req[r] \in CreateRequest
            BY <3>1, RequestByOp DEF IInv, Typed
        <3>3. QED
            BY <2>2, <3>1, <3>2 DEF CreateRequest
    <2>3. QED
        BY <2>1, <2>2
<1>4. req' = [req EXCEPT ![r] = q]
    BY <1>1 DEF IInv, Typed
<1> HIDE DEF q
<1>5. q \in Request
    BY <1>3 DEF Request
<1>6. /\ req'[r] = q /\ req' \in [Requests -> Request]
      /\ \A x \in Requests \ {r} : req'[x] = req[x]
    BY <1>4, <1>5 DEF IInv, Typed
<1>7. Typed'
    BY <1>1, <1>2, <1>6 DEF IInv, Typed
<1>8. LinksHang' /\ ZipHasArtifact' /\ BuildOfASet' /\ ZipGoesWithTheSet'
    BY <1>1, <1>2 DEF IInv, LinksHang, ZipHasArtifact, BuildOfASet, ZipGoesWithTheSet, Exists
<1>9. ReadUnused'
    BY <1>2, <1>3, <1>6 DEF IInv, ReadUnused, Idle, CreateRequest
<1>10. WithinLimitsUnlessRaced'
    BY <1>2 DEF IInv, WithinLimitsUnlessRaced, Exists, Active
<1>11. ASSUME q # Idle, q.alone
       PROVE  RoomForOne(q)
    <2>1. q.kind \in Kinds /\ RoomForOne(req[r])
        BY <1>3, <1>11 DEF IInv, Room, CreateRequest
    <2>2. \A l \in Links : ~Exists(l)
        BY <1>3, <1>11, <2>1 DEF RoomForOne
    <2>3. Standing(a, q.kind) = {}
        BY <2>2 DEF Standing
    <2>4. Cardinality(Standing(a, q.kind)) = 0
        BY <2>3, FS_EmptySet
    <2>5. a # None /\ LinkLimits[q.kind] > 0
        BY <1>3, <1>11, <2>1, NoneAssumption DEF RoomForOne
    <2>6. QED
        BY <1>3, <1>11, <2>4, <2>5 DEF RoomForOne
<1>12. Room'
    <2>1. SUFFICES ASSUME NEW x \in Requests, req'[x].op = "create", req'[x].alone
                   PROVE  RoomForOne(req'[x])
        BY <1>2 DEF Room, RoomForOne, Standing, Exists, Active
    <2>2. CASE x = r
        BY <1>6, <1>11, <2>1, <2>2 DEF Idle
    <2>3. CASE x # r
        BY <1>6, <2>1, <2>3 DEF IInv, Room
    <2>4. QED
        BY <2>2, <2>3
<1>13. QED
    BY <1>7, <1>8, <1>9, <1>10, <1>12 DEF IInv

\* A link inserted by a request that was alone had room; others it makes race.
LEMMA InvInsertLink ==
    ASSUME IInv, NEW r \in Requests, NEW l \in Links, InsertLink(r, l)
    PROVE  IInv'
<1> DEFINE q == req[r]
           row == [art |-> q.art, kind |-> q.kind, count |-> 0, expired |-> FALSE, revoked |-> FALSE]
<1>1. q \in CreateRequest /\ q.op = "create" /\ q.art \in arts /\ q.kind \in Kinds
    BY RequestByOp DEF IInv, Typed, InsertLink, CreateRequest
<1>2. q.art \in Arts /\ q.art # None /\ q.kind # None
    BY <1>1, NoneAssumption DEF IInv, Typed
<1>3. row \in Rows /\ row.art = q.art /\ row.kind = q.kind /\ row # None
    <2>1. row.art = q.art /\ row.kind = q.kind
        OBVIOUS
    <2>2. row \in Rows
        BY <1>1, <1>2 DEF Rows
    <2>3. QED
        BY <2>1, <2>2, NoneAssumption
<1>4. /\ link' = [link EXCEPT ![l] = row] /\ made' = [made EXCEPT ![l] = q.kind]
      /\ raced' = IF q.alone THEN raced ELSE raced \cup {l}
      /\ made[l] = None
      /\ UNCHANGED <<live, arts, zip, build>>
    BY DEF InsertLink
<1> HIDE DEF row
<1>5. /\ link'[l] = row /\ \A k \in Links \ {l} : link'[k] = link[k]
      /\ made'[l] = q.kind /\ \A k \in Links \ {l} : made'[k] = made[k]
      /\ link' \in [Links -> Rows \cup {None}] /\ made' \in [Links -> Kinds \cup {None}]
    BY <1>1, <1>3, <1>4 DEF IInv, Typed
<1>6. \A x \in Requests :
          /\ req'[x] \in Request /\ (req'[x].op = "create" => ~req'[x].alone)
          /\ req'[x].op = "download" => req'[x] = req[x]
    <2>1. TAKE x \in Requests
    <2>2. req[x] \in Request
        BY DEF IInv, Typed
    <2>3. req'[x] = IF x = r THEN Idle
                    ELSE IF req[x].op = "create" THEN [req[x] EXCEPT !.alone = FALSE]
                    ELSE req[x]
        BY DEF InsertLink
    <2>4. CASE x = r
        BY <2>3, <2>4 DEF Idle, Request
    <2>5. CASE x # r /\ req[x].op = "create"
        <3>1. req[x] \in CreateRequest
            BY <2>2, <2>5, RequestByOp
        <3>2. /\ [req[x] EXCEPT !.alone = FALSE] \in CreateRequest
              /\ [req[x] EXCEPT !.alone = FALSE].op = "create"
              /\ ~[req[x] EXCEPT !.alone = FALSE].alone
            BY <3>1 DEF CreateRequest
        <3>3. QED
            BY <2>3, <2>5, <3>2 DEF Request
    <2>6. CASE x # r /\ req[x].op # "create"
        BY <2>2, <2>3, <2>6
    <2>7. QED
        BY <2>4, <2>5, <2>6
<1>7. Typed'
    <2>1. raced' \subseteq Links
        BY <1>4 DEF IInv, Typed
    <2>2. DOMAIN req' = Requests /\ req' = [x \in Requests |-> req'[x]]
        BY DEF InsertLink
    <2>3. req' \in [Requests -> Request]
        BY <1>6, <2>2
    <2>4. QED
        BY <1>4, <1>5, <2>1, <2>3 DEF IInv, Typed
<1>8. LinksHang'
    BY <1>1, <1>3, <1>4, <1>5 DEF IInv, LinksHang, Exists
<1>9. ZipHasArtifact' /\ BuildOfASet' /\ ZipGoesWithTheSet'
    BY <1>4 DEF IInv, ZipHasArtifact, BuildOfASet, ZipGoesWithTheSet
<1>10. ReadUnused'
    <2>1. SUFFICES ASSUME NEW x \in Requests, req'[x].op = "download"
                   PROVE  /\ made'[req'[x].link] # None
                          /\ made'[req'[x].link] = "one_time" => req'[x].count = 0
        BY DEF ReadUnused
    <2>2. req'[x] = req[x] /\ req[x].op = "download" /\ req[x] \in DownloadRequest
        BY <1>6, <2>1, RequestByOp DEF IInv, Typed
    <2>3. req[x].link \in Links /\ made[req[x].link] # None
        BY <2>2 DEF IInv, ReadUnused, DownloadRequest
    <2>4. made'[req[x].link] = made[req[x].link]
        BY <1>4, <1>5, <2>3
    <2>5. QED
        BY <2>2, <2>3, <2>4 DEF IInv, ReadUnused
<1>11. Room'
    BY <1>6 DEF Room
<1>12. WithinLimitsUnlessRaced'
    <2>1. SUFFICES ASSUME NEW a \in Arts, NEW kind \in Kinds
                   PROVE  Cardinality(Standing(a, kind)') <= LinkLimits[kind]
        BY DEF WithinLimitsUnlessRaced, Standing
    <2>2. Cardinality(Standing(a, kind)) <= LinkLimits[kind]
        BY LimitsByStanding DEF IInv
    <2>3. LinkLimits[kind] \in Nat
        BY LinkLimitsAssumption
    <2>4. /\ Standing(a, kind) \in SUBSET Links
          /\ Standing(a, kind)' \subseteq Standing(a, kind) \cup {l}
          /\ l \in Standing(a, kind)' => q.alone /\ a = q.art /\ kind = q.kind
        <3>1. Standing(a, kind) \in SUBSET Links
            BY DEF Standing
        <3>2. ASSUME NEW k \in Standing(a, kind)'
              PROVE  \/ k \in Standing(a, kind)
                     \/ k = l /\ q.alone /\ a = q.art /\ kind = q.kind
            <4>1. /\ k \in Links /\ k \notin raced' /\ link'[k] # None
                  /\ link'[k].art = a /\ link'[k].kind = kind /\ Active(link'[k])
                BY <3>2 DEF Standing, Exists, Active
            <4>2. CASE k = l
                BY <1>3, <1>4, <1>5, <4>1, <4>2
            <4>3. CASE k # l
                <5>1. k \notin raced
                    BY <1>4, <4>1
                <5>2. QED
                    BY <1>5, <4>1, <4>3, <5>1 DEF Standing, Exists
            <4>4. QED
                BY <4>2, <4>3
        <3>3. l \notin Standing(a, kind)
            BY <1>4, NoneAssumption DEF IInv, LinksHang, Standing, Typed, Rows, Exists
        <3>4. QED
            BY <3>1, <3>2, <3>3
    <2>5. CASE l \notin Standing(a, kind)'
        <3>1. Standing(a, kind)' \in SUBSET Standing(a, kind)
            BY <2>4, <2>5
        <3>2. QED
            BY <2>2, <2>3, <2>4, <3>1, Counting
    <2>6. CASE l \in Standing(a, kind)'
        <3>1. Cardinality(Standing(a, kind)) < LinkLimits[kind]
            BY <1>1, <1>2, <2>4, <2>6 DEF IInv, Room, RoomForOne
        <3> DEFINE S == Standing(a, kind)
                   T == Standing(a, kind)'
        <3>2. S \in SUBSET Links /\ T \in SUBSET (S \cup {l}) /\ S \cup {l} \in SUBSET Links
            BY <2>4
        <3> HIDE DEF S, T
        <3>3. IsFiniteSet(S)
            BY <3>2, LinkLimitsAssumption, FS_Subset
        <3>4. Cardinality(S \cup {l}) <= Cardinality(S) + 1
            <4>1. Cardinality(S) \in Nat
                BY <3>3, FS_CardinalityType
            <4>2. Cardinality(S \cup {l}) = IF l \in S THEN Cardinality(S) ELSE Cardinality(S) + 1
                BY <3>3, FS_AddElement
            <4>3. QED
                BY <4>1, <4>2
        <3>5. Cardinality(T) <= Cardinality(S \cup {l}) /\ Cardinality(T) \in Nat
              /\ Cardinality(S \cup {l}) \in Nat /\ Cardinality(S) \in Nat
            BY <3>2, Counting
        <3>6. Cardinality(S) < LinkLimits[kind]
            BY <3>1 DEF S
        <3>7. Cardinality(T) <= LinkLimits[kind]
            BY <2>3, <3>4, <3>5, <3>6
        <3>8. QED
            BY <3>7 DEF T
    <2>7. QED
        BY <2>5, <2>6
<1>13. QED
    BY <1>7, <1>8, <1>9, <1>10, <1>11, <1>12 DEF IInv

LEMMA InvStutter == IInv /\ UNCHANGED vars => IInv'
<1>. SUFFICES ASSUME IInv, UNCHANGED vars PROVE IInv'
    OBVIOUS
<1>1. UNCHANGED <<live, arts, link, zip, build, req, raced, made>>
    BY DEF vars
<1>2. QED
    BY <1>1 DEF IInv, Typed, LinksHang, ZipHasArtifact, BuildOfASet, ZipGoesWithTheSet, ReadUnused,
                Room, RoomForOne, Standing, WithinLimitsUnlessRaced, Exists, Active

LEMMA InvNext == IInv /\ Next => IInv'
<1>. SUFFICES ASSUME IInv, Next PROVE IInv'
    OBVIOUS
<1>1. ASSUME NEW r \in Requests, NEW kind \in Kinds,
             CreateLink(r, kind) \/ SetLinkCreate(r, kind) \/ MakeLink(r, kind)
      PROVE  IInv'
    BY <1>1, InvCountLinks DEF CreateLink, SetLinkCreate, MakeLink
<1>2. ASSUME NEW r \in Requests, EnsureFinds(r) PROVE IInv'
    BY <1>2, InvEnsureFinds
<1>3. ASSUME NEW r \in Requests,
             OwnerAccess(r) \/ Abandon(r) \/ ServeFails(r) \/ LeaveGallery(r)
      PROVE  IInv'
    BY <1>3, InvAccesses
<1>4. ASSUME NEW r \in Requests, DownloadArchive(r) PROVE IInv'
    BY <1>4, InvAccesses, InvCountLinks DEF DownloadArchive
<1>5. ASSUME NEW r \in Requests, InsertArtifact(r) PROVE IInv'
    BY <1>5, InvInsertArtifact
<1>6. ASSUME NEW r \in Requests, Serve(r) PROVE IInv'
    BY <1>6, InvServe
<1>7. ASSUME NEW r \in Requests, NEW l \in Links, InsertLink(r, l) PROVE IInv'
    BY <1>7, InvInsertLink
<1>8. ASSUME NEW r \in Requests, NEW l \in Links, Download(r, l) PROVE IInv'
    BY <1>8, InvDownload
<1>9. ASSUME NEW r \in Requests, NEW l \in Links, OpenGallery(r, l) PROVE IInv'
    BY <1>9, InvAccesses
<1>10. ASSUME NEW l \in Links, Revoke(l) \/ Expire(l) PROVE IInv'
    BY <1>10, InvLinkEnds
<1>11. CASE CleanUp \/ BuildStarts \/ BuildEnds
    BY <1>11, InvArchive
<1>12. CASE DeleteSet
    BY <1>12, InvDeleteSet
<1>13. QED
    BY <1>1, <1>2, <1>3, <1>4, <1>5, <1>6, <1>7, <1>8, <1>9, <1>10, <1>11, <1>12 DEF Next

-----------------------------------------------------------------------------
(* The theorems. *)

\* Whatever requests, links and limits there are, the invariant holds.
THEOREM InductiveInvariant == Spec => []IInv
<1>1. IInv /\ [Next]_vars => IInv'
    BY InvNext, InvStutter
<1>2. QED
    BY InvInit, <1>1, PTL DEF Spec

\* Links, requests and the set are what the code takes them for, and a link
\* hangs on an artifact that is there.
THEOREM TypeCorrect == Spec => []TypeOK
<1>1. IInv => TypeOK
    BY RequestByOp DEF IInv, Typed, LinksHang, TypeOK
<1>2. QED
    BY InductiveInvariant, <1>1, PTL

\* The limits hold on each artifact over the links that no other request was
\* making at the time.
THEOREM WithinLimits == Spec => []WithinLimitsUnlessRaced
<1>1. IInv => WithinLimitsUnlessRaced
    BY DEF IInv
<1>2. QED
    BY InductiveInvariant, <1>1, PTL

\* Nothing of a deleted set is left on disk, unless a build was running then.
THEOREM ZipGoes == Spec => []ZipGoesWithTheSet
<1>1. IInv => ZipGoesWithTheSet
    BY DEF IInv
<1>2. QED
    BY InductiveInvariant, <1>1, PTL
-----------------------------------------------------------------------------
(* A link keeps the promise of LinkPromise: each step is a step of it, or    *)
(* changes nothing it speaks of.                                             *)

Lives == [l \in Links |-> Life(l)]
Singles == {l \in Links : made[l] = "one_time"}
Insides == [r \in Requests |-> Inside(r)]
NothingSeen == UNCHANGED <<Lives, Singles, Insides>>

LEMMA SeenInit == Init => Promise!Init
<1>. SUFFICES ASSUME Init PROVE Promise!Init
    OBVIOUS
<1>1. \A l \in Links : Life(l) = "new" /\ made[l] # "one_time"
    BY NoneAssumption DEF Init, Life, Exists
<1>2. \A r \in Requests : Inside(r) = None
    BY DEF Init, Inside, Idle
<1>3. QED
    BY <1>1, <1>2 DEF Promise!Init

\* What the promise sees of a request, and of one that reads.
InsideOf(q) == IF q.op \in {"download", "gallery"} THEN q.link ELSE None

LEMMA SeenRequest ==
    ASSUME IInv, NEW r \in Requests, NEW q, req' = [req EXCEPT ![r] = q]
    PROVE  Insides' = [Insides EXCEPT ![r] = InsideOf(q)]
BY DEF IInv, Typed, Insides, Inside, InsideOf

LEMMA SeenLinks ==
    ASSUME UNCHANGED <<live, link, made>>
    PROVE  Lives' = Lives /\ Singles' = Singles
BY DEF Lives, Singles, Life, Exists, Active

\* A link that exists was made, and is live or ended.
LEMMA SeenExisting ==
    ASSUME IInv, NEW l \in Links, Exists(l)
    PROVE  /\ made[l] # None /\ link[l] \in Rows
           /\ Life(l) = IF live /\ Active(link[l]) THEN "live" ELSE "ended"
<1>1. link[l] \in Rows /\ link[l].kind = made[l]
    BY DEF IInv, Typed, LinksHang, Exists
<1>2. made[l] # None
    BY <1>1, NoneAssumption DEF Rows
<1>3. QED
    BY <1>1, <1>2 DEF Life

\* Creating a link up to its insertion, and asking for the archive.
LEMMA SeenPreparing ==
    ASSUME IInv, NEW r \in Requests,
           \/ \E kind \in Kinds : CountLinks(r, kind)
           \/ EnsureFinds(r) \/ OwnerAccess(r) \/ InsertArtifact(r) \/ Abandon(r)
    PROVE  NothingSeen
<1>1. UNCHANGED <<live, link, made>>
    BY DEF CountLinks, EnsureFinds, OwnerAccess, InsertArtifact, Abandon
<1>2. req[r].op \in {"none", "create", "access"}
    <2>1. CASE (\E kind \in Kinds : CountLinks(r, kind)) \/ OwnerAccess(r)
        BY <2>1 DEF CountLinks, OwnerAccess, Idle
    <2>2. CASE EnsureFinds(r) \/ InsertArtifact(r) \/ Abandon(r)
        BY <2>2 DEF EnsureFinds, InsertArtifact, Abandon
    <2>3. QED
        BY <2>1, <2>2
<1>3. req'[r].op \in {"none", "create", "access"} /\ req' = [req EXCEPT ![r] = req'[r]]
    <2>1. req[r] \in Request /\ req \in [Requests -> Request]
        BY DEF IInv, Typed
    <2>2. CASE \/ \E kind \in Kinds : CountLinks(r, kind)
               \/ OwnerAccess(r) \/ Abandon(r)
        <3>1. PICK q : req' = [req EXCEPT ![r] = q] /\ q.op \in {"none", "create", "access"}
            BY <2>2 DEF CountLinks, OwnerAccess, Abandon, Idle
        <3>2. QED
            BY <2>1, <3>1
    <2>3. CASE EnsureFinds(r)
        <3>1. req[r] \in CreateRequest
            BY <2>1, <2>3, RequestByOp DEF EnsureFinds
        <3>2. PICK a : req' = [req EXCEPT ![r] = [req[r] EXCEPT !.found = TRUE, !.art = a,
                                         !.alone = @ /\ req[r].art \in {None, a}]]
            BY <2>1, <2>3 DEF EnsureFinds
        <3>3. req'[r].op = "create"
            BY <2>1, <3>1, <3>2 DEF CreateRequest
        <3>4. QED
            BY <2>1, <3>2, <3>3
    <2>4. CASE InsertArtifact(r)
        <3>1. PICK a : req' = [req EXCEPT ![r] = IF req[r].op = "access" THEN Idle
                                                 ELSE [req[r] EXCEPT !.art = a]]
            BY <2>1, <2>4 DEF InsertArtifact
        <3>2. CASE req[r].op = "access"
            BY <2>1, <3>1, <3>2 DEF Idle
        <3>3. CASE req[r].op # "access"
            <4>1. req[r].op = "create" /\ req[r] \in CreateRequest
                BY <2>1, <2>4, <3>3, RequestByOp DEF InsertArtifact
            <4>2. req'[r].op = "create"
                BY <2>1, <3>1, <3>3, <4>1 DEF CreateRequest
            <4>3. QED
                BY <2>1, <3>1, <3>3, <4>2
        <3>4. QED
            BY <3>2, <3>3
    <2>5. QED
        BY <2>2, <2>3, <2>4
<1>4. Insides' = [Insides EXCEPT ![r] = InsideOf(req'[r])]
    BY <1>3, SeenRequest
<1>5. InsideOf(req'[r]) = None /\ Insides[r] = None
    BY <1>2, <1>3 DEF InsideOf, Insides, Inside
<1>6. Insides' = Insides
    BY <1>4, <1>5 DEF Insides
<1>7. QED
    BY <1>1, <1>6, SeenLinks DEF NothingSeen

\* A download or the gallery is let in by a live link.
LEMMA SeenLetIn ==
    ASSUME IInv, NEW r \in Requests, NEW l \in Links, Download(r, l) \/ OpenGallery(r, l)
    PROVE  Promise!LetIn(r, l)
<1>1. UNCHANGED <<live, link, made>> /\ req[r] = Idle /\ Life(l) = "live"
    <2>1. UNCHANGED <<live, link, made>> /\ req[r] = Idle /\ Usable(l)
        BY DEF Download, OpenGallery
    <2>2. Exists(l) /\ live /\ Active(link[l])
        BY <2>1 DEF Usable
    <2>3. Life(l) = "live"
        BY <2>2, SeenExisting
    <2>4. QED
        BY <2>1, <2>3
<1>2. PICK q : req' = [req EXCEPT ![r] = q] /\ InsideOf(q) = l
    <2>1. CASE Download(r, l)
        <3>1. InsideOf([op |-> "download", link |-> l, count |-> link[l].count]) = l
            BY DEF InsideOf
        <3>2. QED
            BY <2>1, <3>1 DEF Download
    <2>2. CASE OpenGallery(r, l)
        <3>1. InsideOf([op |-> "gallery", link |-> l]) = l
            BY DEF InsideOf
        <3>2. QED
            BY <2>2, <3>1 DEF OpenGallery
    <2>3. QED
        BY <2>1, <2>2
<1>3. Lives' = Lives /\ Singles' = Singles /\ Insides' = [Insides EXCEPT ![r] = l]
    BY <1>1, <1>2, SeenLinks, SeenRequest
<1>4. Insides[r] = None /\ Lives[l] = "live"
    BY <1>1 DEF Insides, Inside, Lives, Idle
<1>5. QED
    BY <1>3, <1>4 DEF Promise!LetIn, Lives, Singles, Insides

LEMMA SeenTurnedAway ==
    ASSUME IInv, NEW r \in Requests, ServeFails(r) \/ LeaveGallery(r)
    PROVE  Promise!TurnedAway(r)
<1>1. UNCHANGED <<live, link, made>> /\ req' = [req EXCEPT ![r] = Idle]
    BY DEF ServeFails, LeaveGallery
<1>2. InsideOf(Idle) = None /\ Inside(r) # None
    BY RequestByOp, NoneAssumption DEF IInv, Typed, ServeFails, LeaveGallery, Inside, InsideOf,
        Idle, DownloadRequest, GalleryRequest
<1>3. Lives' = Lives /\ Singles' = Singles /\ Insides' = [Insides EXCEPT ![r] = None]
    BY <1>1, <1>2, SeenLinks, SeenRequest
<1>4. Insides[r] # None
    BY <1>2 DEF Insides
<1>5. QED
    BY <1>3, <1>4 DEF Promise!TurnedAway, Lives, Singles, Insides

\* Serving ends a one-time link, and changes nothing about another.
LEMMA SeenServed ==
    ASSUME IInv, NEW r \in Requests, Serve(r)
    PROVE  Promise!Served(r)
<1>0. PICK l \in Links : l = req[r].link /\ req[r] \in DownloadRequest
    BY RequestByOp DEF IInv, Typed, Serve, DownloadRequest
<1>1. /\ l # None /\ Exists(l) /\ Inside(r) = l
      /\ made[l] = "one_time" => req[r].count = 0
    BY <1>0, NoneAssumption DEF IInv, Serve, Inside, ReadUnused
<1>2. /\ link[l] \in Rows /\ link[l].kind = made[l] /\ made[l] # None
      /\ link \in [Links -> Rows \cup {None}]
    BY <1>1, SeenExisting DEF IInv, Typed, LinksHang
<1>3. /\ req' = [req EXCEPT ![r] = Idle] /\ UNCHANGED <<live, made>>
      /\ link' = [link EXCEPT ![l] = Counted(r)]
    BY <1>0 DEF Serve
<1>4. Singles' = Singles /\ Insides' = [Insides EXCEPT ![r] = None]
    <2>1. InsideOf(Idle) = None
        BY DEF InsideOf, Idle
    <2>2. QED
        BY <1>3, <2>1, SeenRequest DEF Singles
<1>5. Lives' = IF l \in Singles THEN [Lives EXCEPT ![l] = "ended"] ELSE Lives
    <2>1. ASSUME NEW k \in Links \ {l}
          PROVE  Life(k)' = Life(k)
        BY <1>2, <1>3 DEF Life, Exists, Active
    <2>2. CASE l \in Singles
        <3>1. link'[l].kind = "one_time" /\ link'[l].count = 1
            BY <1>0, <1>1, <1>2, <1>3, <2>2 DEF Singles, Counted, Rows
        <3>2. Life(l)' = "ended"
            BY <1>2, <1>3, <3>1 DEF Life, Active
        <3>3. QED
            BY <2>1, <2>2, <3>2 DEF Lives
    <2>3. CASE l \notin Singles
        <3>1. Counted(r) = link[l]
            BY <1>0, <1>1, <1>2, <2>3 DEF Singles, Counted, Rows
        <3>2. Life(l)' = Life(l)
            BY <1>2, <1>3, <3>1 DEF Life, Exists, Active
        <3>3. QED
            BY <2>1, <2>3, <3>2 DEF Lives
    <2>4. QED
        BY <2>2, <2>3
<1>6. Insides[r] = l
    BY <1>1 DEF Insides
<1>7. QED
    BY <1>1, <1>4, <1>5, <1>6 DEF Promise!Served, Lives, Singles, Insides

\* A link made has ended already if the set was deleted meanwhile.
LEMMA SeenMake ==
    ASSUME IInv, NEW r \in Requests, NEW l \in Links, InsertLink(r, l)
    PROVE  \E single \in BOOLEAN, as \in {"live", "ended"} : Promise!Make(l, single, as)
<1> DEFINE q == req[r]
           row == [art |-> q.art, kind |-> q.kind, count |-> 0, expired |-> FALSE, revoked |-> FALSE]
<1>0. PICK single \in BOOLEAN, as \in {"live", "ended"} :
          /\ single = (q.kind = "one_time")
          /\ as = IF live THEN "live" ELSE "ended"
    OBVIOUS
<1>1. q \in CreateRequest /\ q.kind # None
    BY RequestByOp, NoneAssumption DEF IInv, Typed, InsertLink, CreateRequest
<1>2. /\ link' = [link EXCEPT ![l] = row] /\ made' = [made EXCEPT ![l] = q.kind]
      /\ made[l] = None /\ live' = live
    BY DEF InsertLink
<1>3. ~Exists(l)
    BY <1>2, SeenExisting
<1>4. row # None /\ Active(row)
    <2>1. row \in Rows
        <3>1. q.art \in Arts /\ q.kind \in Kinds
            BY <1>1 DEF InsertLink, CreateRequest, IInv, Typed
        <3>2. QED
            BY <3>1 DEF Rows
    <2>2. Active(row)
        BY DEF Active
    <2>3. QED
        BY <2>1, <2>2, NoneAssumption
<1> HIDE DEF row
<1>5. /\ link'[l] = row /\ made'[l] = q.kind
      /\ \A k \in Links \ {l} : link'[k] = link[k] /\ made'[k] = made[k]
    BY <1>2 DEF IInv, Typed
<1>6. Life(l) = "new" /\ Life(l)' = as
    BY <1>0, <1>1, <1>2, <1>3, <1>4, <1>5 DEF Life, Exists
<1>7. \A k \in Links \ {l} : Life(k)' = Life(k)
    BY <1>2, <1>5 DEF Life, Exists, Active
<1>8. Lives' = [Lives EXCEPT ![l] = as]
    BY <1>6, <1>7 DEF Lives
<1>9. Singles' = IF single THEN Singles \cup {l} ELSE Singles
    <2>1. l \notin Singles
        BY <1>2, NoneAssumption DEF Singles
    <2>2. QED
        BY <1>0, <1>5, <2>1 DEF Singles
<1>10. Insides' = Insides
    <2>1. ASSUME NEW x \in Requests
          PROVE  Inside(x)' = Inside(x)
        <3>1. req[x] \in Request
            BY DEF IInv, Typed
        <3>2. req'[x] = IF x = r THEN Idle
                        ELSE IF req[x].op = "create" THEN [req[x] EXCEPT !.alone = FALSE]
                        ELSE req[x]
            BY DEF InsertLink
        <3>3. CASE x = r
            BY <3>2, <3>3 DEF InsertLink, Inside, Idle
        <3>4. CASE x # r /\ req[x].op = "create"
            <4>1. req[x] \in CreateRequest
                BY <3>1, <3>4, RequestByOp
            <4>2. [req[x] EXCEPT !.alone = FALSE].op = "create"
                BY <3>4, <4>1 DEF CreateRequest
            <4>3. QED
                BY <3>2, <3>4, <4>2 DEF Inside
        <3>5. CASE x # r /\ req[x].op # "create"
            BY <3>2, <3>5 DEF Inside
        <3>6. QED
            BY <3>3, <3>4, <3>5
    <2>2. QED
        BY <2>1 DEF Insides
<1>11. Lives[l] = "new"
    BY <1>6 DEF Lives
<1>12. Promise!Make(l, single, as)
    BY <1>8, <1>9, <1>10, <1>11 DEF Promise!Make, Lives, Singles, Insides
<1>13. QED
    BY <1>12

\* Revocation and expiry end a live link.
LEMMA SeenEnd ==
    ASSUME IInv, NEW l \in Links, Revoke(l) \/ Expire(l)
    PROVE  Promise!End({l}) \/ NothingSeen
<1>1. Exists(l) /\ UNCHANGED <<live, req, made>>
    BY DEF Revoke, Expire, Owned
<1>2. /\ link[l] \in Rows /\ link \in [Links -> Rows \cup {None}]
      /\ made[l] # None /\ Life(l) = IF live /\ Active(link[l]) THEN "live" ELSE "ended"
    BY <1>1, SeenExisting DEF IInv, Typed
<1>3. /\ ~Active(link'[l])
      /\ \A k \in Links \ {l} : link'[k] = link[k]
    BY <1>2 DEF Revoke, Expire, Active, Rows
<1>4. Life(l)' = "ended"
    BY <1>1, <1>2, <1>3 DEF Life
<1>5. \A k \in Links \ {l} : Life(k)' = Life(k)
    BY <1>1, <1>3 DEF Life, Exists, Active
<1>6. Singles' = Singles /\ Insides' = Insides
    BY <1>1 DEF Singles, Insides, Inside
<1>7. CASE Life(l) = "live"
    <2>1. Lives' = [k \in Links |-> IF k \in {l} THEN "ended" ELSE Lives[k]] /\ Lives[l] = "live"
        BY <1>4, <1>5, <1>7 DEF Lives
    <2>2. Promise!End({l})
        BY <1>6, <2>1 DEF Promise!End, Lives, Singles, Insides
    <2>3. QED
        BY <2>2
<1>8. CASE Life(l) # "live"
    <2>1. Life(l) = "ended"
        BY <1>2, <1>8
    <2>2. Lives' = Lives
        BY <1>4, <1>5, <2>1 DEF Lives
    <2>3. QED
        BY <1>6, <2>2 DEF NothingSeen
<1>9. QED
    BY <1>7, <1>8

\* The deletion of the set ends them all.
LEMMA SeenDelete ==
    ASSUME IInv, DeleteSet
    PROVE  \E E \in SUBSET Links : Promise!End(E)
<1> DEFINE E == {l \in Links : Life(l) = "live"}
<1>1. live /\ live' = FALSE /\ UNCHANGED <<req, made>>
    BY DEF DeleteSet
<1>2. ASSUME NEW l \in Links
      PROVE  Life(l)' = IF l \in E THEN "ended" ELSE Lives[l]
    <2>1. Life(l)' = IF made[l] = None THEN "new" ELSE "ended"
        BY <1>1 DEF Life
    <2>2. CASE Exists(l)
        BY <1>1, <2>1, <2>2, SeenExisting DEF Lives
    <2>3. CASE ~Exists(l)
        BY <2>1, <2>3 DEF Lives, Life
    <2>4. QED
        BY <2>2, <2>3
<1>3. Lives' = [l \in Links |-> IF l \in E THEN "ended" ELSE Lives[l]]
    BY <1>2 DEF Lives
<1>4. Singles' = Singles /\ Insides' = Insides
    BY <1>1 DEF Singles, Insides, Inside
<1>5. \A l \in E : Lives[l] = "live"
    BY DEF Lives
<1> HIDE DEF E
<1>6. Promise!End(E)
    BY <1>3, <1>4, <1>5 DEF Promise!End, Lives, Singles, Insides
<1>7. E \in SUBSET Links
    BY DEF E
<1>8. QED
    BY <1>6, <1>7

LEMMA SeenNext == IInv /\ [Next]_vars => Promise!Next \/ NothingSeen
<1>. SUFFICES ASSUME IInv, [Next]_vars PROVE Promise!Next \/ NothingSeen
    OBVIOUS
<1>1. ASSUME NEW r \in Requests,
             \/ \E kind \in Kinds :
                   CreateLink(r, kind) \/ SetLinkCreate(r, kind) \/ MakeLink(r, kind)
             \/ EnsureFinds(r) \/ OwnerAccess(r) \/ DownloadArchive(r) \/ InsertArtifact(r)
             \/ Abandon(r)
      PROVE  NothingSeen
    BY <1>1, SeenPreparing DEF CreateLink, SetLinkCreate, MakeLink, DownloadArchive
<1>2. ASSUME NEW r \in Requests, NEW l \in Links, Download(r, l) \/ OpenGallery(r, l)
      PROVE  Promise!Next
    <2>1. Promise!LetIn(r, l)
        BY <1>2, SeenLetIn
    <2>2. QED
        BY <2>1 DEF Promise!Next
<1>3. ASSUME NEW r \in Requests, ServeFails(r) \/ LeaveGallery(r)
      PROVE  Promise!Next
    <2>1. Promise!TurnedAway(r)
        BY <1>3, SeenTurnedAway
    <2>2. QED
        BY <2>1 DEF Promise!Next
<1>4. ASSUME NEW r \in Requests, Serve(r)
      PROVE  Promise!Next
    <2>1. Promise!Served(r)
        BY <1>4, SeenServed
    <2>2. QED
        BY <2>1 DEF Promise!Next
<1>5. ASSUME NEW r \in Requests, NEW l \in Links, InsertLink(r, l)
      PROVE  Promise!Next
    BY <1>5, SeenMake DEF Promise!Next
<1>6. ASSUME NEW l \in Links, Revoke(l) \/ Expire(l)
      PROVE  Promise!Next \/ NothingSeen
    <2>1. Promise!End({l}) \/ NothingSeen
        BY <1>6, SeenEnd
    <2>2. {l} \in SUBSET Links
        OBVIOUS
    <2>3. QED
        BY <2>1, <2>2 DEF Promise!Next
<1>7. CASE DeleteSet
    BY <1>7, SeenDelete DEF Promise!Next
<1>8. CASE CleanUp \/ BuildStarts \/ BuildEnds \/ UNCHANGED vars
    <2>1. UNCHANGED <<live, link, made, req>>
        BY <1>8 DEF CleanUp, BuildStarts, BuildEnds, vars
    <2>2. Insides' = Insides
        BY <2>1 DEF Insides, Inside
    <2>3. QED
        BY <2>1, <2>2, SeenLinks DEF NothingSeen
<1>9. QED
    BY <1>1, <1>2, <1>3, <1>4, <1>5, <1>6, <1>7, <1>8 DEF Next

\* A link keeps what LinkPromise says of it: who is let in is let in by a link
\* that is good then, and a link that has ended never comes back.
THEOREM LinksKeepTheirPromise == Spec => KeepsPromise
<1>1. IInv /\ [Next]_vars =>
          [Promise!Next]_<<[l \in Links |-> Life(l)], {l \in Links : made[l] = "one_time"},
                           [r \in Requests |-> Inside(r)]>>
    BY SeenNext DEF NothingSeen, Lives, Singles, Insides
<1>2. QED
    BY SeenInit, InductiveInvariant, <1>1, PTL DEF Spec, KeepsPromise, Promise!Spec
=============================================================================
