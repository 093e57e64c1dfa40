----------------------------- MODULE TaggingProof -----------------------------
(* Proofs about Tagging, for every set of documents, tags, users, domains    *)
(* and requests: the inbox holds what has no tags, but for races; a merge    *)
(* loses no tag; and an answered card gives way to another one.              *)
EXTENDS Tagging, FiniteSetTheorems, WellFoundedInduction, TLAPS

-----------------------------------------------------------------------------
(* The inductive invariant. *)

\* Tags are set on one document.
Single(q) == q.inbox \subseteq q.docs /\ \E d \in Docs : q.docs = {d}

\* A tag is not merged into itself, a card is answered by setting tags, and only
\* setting tags reads the links in a step of its own.
RequestsSound ==
    \A r \in Requests : request[r] # None =>
        /\ request[r].op = "merge" => request[r].into \in Tags \ request[r].want
        /\ request[r].walking => request[r].op = "set"
        /\ request[r].op = "set" \/ request[r].read
        /\ request[r].op = "set" => Single(request[r])

\* A bulk tagging that has flushed holds the rows its links refer to.
Fits(q) == \A l \in Inserts(q) : l[1] \in Present /\ l[2] \in tags \cup Created(q)
FlushedFits ==
    \A r \in Requests : request[r] # None /\ request[r].flushed =>
        request[r].op = "bulk" /\ Fits(request[r])

IInv == TypeOK /\ RequestsSound /\ FlushedFits /\ InboxUnlessRaced

\* FlushedFits holds after a step that leaves the requests alone and takes away
\* no row a flushed one holds.
LEMMA StillFits ==
    ASSUME FlushedFits, UNCHANGED request, request \in [Requests -> Request \cup {None}],
           \A l \in HeldLinks(Flushed) :
               /\ l[1] \in Present => l[1] \in Present'
               /\ l[2] \in tags => l[2] \in tags'
    PROVE  FlushedFits'
<1>1. SUFFICES ASSUME NEW r \in Requests, request[r] # None, request[r].flushed
               PROVE  request[r].op = "bulk" /\ Fits(request[r])'
    BY DEF FlushedFits
<1>2. PICK q \in Request : q = request[r]
    BY <1>1
<1>3. q.op = "bulk" /\ \A l \in Inserts(q) : l[1] \in Present /\ l[2] \in tags \cup Created(q)
    BY <1>1, <1>2 DEF FlushedFits, Fits
<1>4. Inserts(q)' = Inserts(q) /\ Created(q)' = Created(q)
    BY DEF Inserts, Created
<1>5. Inserts(q) \subseteq HeldLinks(Flushed)
    BY <1>1, <1>2 DEF HeldLinks, Flushed, InUse
<1>6. request'[r] = q
    BY <1>2
<1>7. \A l \in Inserts(q)' : l[1] \in Present' /\ l[2] \in tags' \cup Created(q)'
    BY <1>3, <1>4, <1>5
<1>8. Fits(q)'
    BY <1>7 DEF Fits
<1>9. QED
    BY <1>2, <1>3, <1>8

-----------------------------------------------------------------------------
(* The least document.  The numbers below those of a set of natural numbers  *)
(* are finite sets, and one of those is least by inclusion.                  *)

LEMMA Least ==
    ASSUME NEW Q \in SUBSET Nat, Q # {}
    PROVE  \E d \in Q : \A e \in Q : d <= e
<1> DEFINE Below(d) == {e \in Q : e < d}
           T == {Below(d) : d \in Q}
<1>1. ASSUME NEW d \in Q
      PROVE  Below(d) \in FiniteSubsetsOf(Nat)
    <2>1. Below(d) \subseteq 0 .. d /\ Below(d) \subseteq Nat
        <3>1. ASSUME NEW e \in Below(d)
              PROVE  e \in 0 .. d /\ e \in Nat
            <4>1. e \in Nat /\ d \in Nat /\ e < d
                OBVIOUS
            <4>2. QED
                BY <4>1
        <3>2. QED
            BY <3>1
    <2>2. IsFiniteSet(0 .. d)
        BY FS_Interval
    <2>3. IsFiniteSet(Below(d))
        BY <2>1, <2>2, FS_Subset
    <2>4. QED
        BY <2>1, <2>3 DEF FiniteSubsetsOf
<1>2. T \subseteq FiniteSubsetsOf(Nat) /\ T # {}
    BY <1>1
<1>3. PICK x \in T : \A y \in T : ~ (<<y, x>> \in StrictSubsetOrdering(Nat))
    <2>1. IsWellFoundedOn(StrictSubsetOrdering(Nat), FiniteSubsetsOf(Nat))
        BY FS_StrictSubsetOrderingWellFounded
    <2> HIDE DEF T
    <2>2. QED
        BY <1>2, <2>1, WFMin
<1>4. PICK d \in Q : x = Below(d)
    BY <1>3
<1>5. ASSUME NEW e \in Q, e < d
      PROVE  FALSE
    <2>1. e \in Nat /\ d \in Nat /\ ~(e < e)
        OBVIOUS
    <2>2. ASSUME NEW f \in Below(e)
          PROVE  f \in Below(d)
        <3>1. f \in Nat /\ f < e /\ f \in Q
            OBVIOUS
        <3>2. f < d
            BY <1>5, <2>1, <3>1
        <3>3. QED
            BY <3>1, <3>2
    <2>3. e \in Below(d) /\ e \notin Below(e)
        BY <1>5, <2>1
    <2>4. <<Below(e), Below(d)>> \in StrictSubsetOrdering(Nat)
        BY <2>2, <2>3, <1>1 DEF StrictSubsetOrdering
    <2>5. QED
        BY <2>4, <1>3, <1>4
<1>6. QED
    BY <1>5

\* The next card of a walk shows an active document of the inbox.
LEMMA NextCardShows ==
    ASSUME NEW u \in Users, NEW skipped \in SUBSET Docs
    PROVE  \/ NextCard(u, skipped) = None
           \/ /\ NextCard(u, skipped) \in Walk
              /\ document'[NextCard(u, skipped).doc].status = "inbox"
<1> DEFINE queue == {d \in Writable[u] \ skipped :
                       document'[d].state = "active" /\ document'[d].status = "inbox"}
           first == CHOOSE d \in queue : \A e \in queue : d <= e
<1>1. queue \subseteq Docs
    BY DomainsAssumption
<1>2. CASE queue = {}
    BY <1>2 DEF NextCard
<1>3. CASE queue # {}
    <2>1. \E d \in queue : \A e \in queue : d <= e
        <3>1. queue \in SUBSET Nat
            BY <1>1, DocsAssumption
        <3> HIDE DEF queue
        <3>2. QED
            BY <1>3, <3>1, Least
    <2>2. first \in queue
        <3> HIDE DEF queue
        <3>1. QED
            BY <2>1
    <2>3. NextCard(u, skipped) = [doc |-> first, skipped |-> skipped]
        BY <1>3 DEF NextCard
    <2>4. first \in Docs /\ document'[first].status = "inbox"
        BY <1>1, <2>2
    <2> HIDE DEF first
    <2>5. QED
        BY <2>3, <2>4 DEF Walk
<1>4. QED
    BY <1>2, <1>3

-----------------------------------------------------------------------------
(* Starting and reading. *)

LEMMA InvInit == Init => IInv
<1>. SUFFICES ASSUME Init PROVE IInv
    OBVIOUS
<1>1. TypeOK
    BY DEF Init, TypeOK, Document, Present
<1>2. RequestsSound
    BY DEF Init, RequestsSound
<1>3. InboxUnlessRaced
    <2>1. Present = {}
        BY DEF Init, Present
    <2>2. QED
        BY <2>1 DEF InboxUnlessRaced
<1>4. FlushedFits
    BY DEF Init, FlushedFits
<1>5. QED
    BY <1>1, <1>2, <1>3, <1>4 DEF IInv

\* What a request reads changes nothing but the request.
LEMMA Reads ==
    ASSUME IInv, NEW r \in Requests, NEW q, request' = [request EXCEPT ![r] = q],
           UNCHANGED <<document, tags, links, sweep, walk, raced>>,
           \/ q = None
           \/ /\ q \in Request
              /\ q.op = "merge" => q.into \in Tags \ q.want
              /\ q.walking => q.op = "set"
              /\ q.op = "set" \/ q.read
              /\ q.op = "set" => Single(q)
              /\ q.flushed => q.op = "bulk" /\ Fits(q)
    PROVE  IInv'
<1>1. /\ request' \in [Requests -> Request \cup {None}] /\ request'[r] = q
      /\ \A p \in Requests \ {r} : request'[p] = request[p]
    BY DEF IInv, TypeOK
<1>2. TypeOK'
    BY <1>1 DEF IInv, TypeOK, Present
<1>3. RequestsSound'
    BY <1>1 DEF IInv, RequestsSound
<1>4. InboxUnlessRaced'
    BY DEF IInv, InboxUnlessRaced, Present, Linked
<1>5. FlushedFits'
    <2>1. \A p : Fits(p)' <=> Fits(p)
        BY DEF Fits, Inserts, Created, Present
    <2>2. QED
        BY <1>1, <2>1 DEF IInv, FlushedFits
<1>6. QED
    BY <1>2, <1>3, <1>4, <1>5 DEF IInv

LEMMA InvAsk ==
    ASSUME IInv, NEW r \in Requests, NEW u \in Users, NEW op \in {"set", "bulk", "merge"},
           NEW walking \in BOOLEAN, NEW ds \in SUBSET Docs, NEW want \in SUBSET Tags,
           NEW names \in SUBSET Tags, NEW into \in Tags \cup {None},
           op = "set" => \E d \in Docs : ds = {d},
           op = "merge" => into \in Tags \ want,
           walking => op = "set",
           Ask(r, u, op, walking, ds, want, names, into)
    PROVE  IInv'
<1> DEFINE inbox == IF op = "set" THEN InInbox(ds) ELSE {}
           known == IF op = "set" THEN {} ELSE want \cap tags
           seen == CASE op = "set" -> {}
                     [] op = "bulk" -> links \cap (ds \X want)
                     [] OTHER -> LinksOf(ds)
           q == [op |-> op, user |-> u, walking |-> walking, docs |-> ds, want |-> want,
                 names |-> names, into |-> into, inbox |-> inbox, known |-> known,
                 seen |-> seen, past |-> {}, read |-> op # "set", flushed |-> FALSE]
<1>1. inbox \in SUBSET Docs
    BY DEF InInbox
<1>2. known \in SUBSET Tags
    BY DEF IInv, TypeOK, Present
<1>3. seen \in SUBSET (Docs \X Tags)
    BY DEF IInv, TypeOK, Present, LinksOf
<1>4. request' = [request EXCEPT ![r] = q] /\ UNCHANGED <<document, tags, links, sweep, walk, raced>>
    BY DEF Ask
<1> HIDE DEF inbox, known, seen
<1>5. q \in Request
    BY <1>1, <1>2, <1>3 DEF Request
<1>6. /\ q.op = op /\ q.into = into /\ q.want = want /\ q.walking = walking
      /\ q.op = "set" \/ q.read
      /\ ~q.flushed
    OBVIOUS
<1> HIDE DEF q
<1>7. op = "set" => Single(q)
    BY DEF Single, q, inbox, InInbox
<1>8. QED
    BY <1>4, <1>5, <1>6, <1>7, Reads

LEMMA InvStart ==
    ASSUME IInv, NEW r \in Requests, NEW u \in Users, Start(r, u)
    PROVE  IInv'
<1>1. Writable[u] \subseteq Docs /\ Owned[u] \subseteq Docs
    BY DomainsAssumption
<1>2. ASSUME NEW d \in Docs, NEW want \in SUBSET Tags, ApiSetTags(r, u, d, want)
      PROVE  IInv'
    <2>1. PICK names \in SUBSET want : Ask(r, u, "set", FALSE, {d}, want, names, None)
        BY <1>2 DEF ApiSetTags
    <2>2. names \in SUBSET Tags /\ {d} \in SUBSET Docs
        OBVIOUS
    <2>3. QED
        BY <2>1, <2>2, InvAsk
<1>3. ASSUME NEW d \in Docs, NEW want \in SUBSET Tags,
             WebDocumentTags(r, u, d, want) \/ BotSetTags(r, u, d, want)
      PROVE  IInv'
    <2>1. PICK some \in SUBSET Tags : Ask(r, u, "set", FALSE, {d}, some, want, None)
        <3>1. want \cup Linked(d) \in SUBSET Tags
            BY DEF Linked
        <3>2. QED
            BY <1>3, <3>1 DEF WebDocumentTags, BotSetTags
    <2>2. {d} \in SUBSET Docs
        OBVIOUS
    <2>3. QED
        BY <2>1, <2>2, InvAsk
<1>4. ASSUME NEW want \in SUBSET Tags, WalkDone(r, u, want)
      PROVE  IInv'
    <2>1. walk[u].doc \in Docs
        BY <1>4 DEF WalkDone, Present
    <2>2. Ask(r, u, "set", TRUE, {walk[u].doc}, want, want, None)
        BY <1>4 DEF WalkDone
    <2>3. {walk[u].doc} \in SUBSET Docs
        BY <2>1
    <2>4. QED
        BY <2>1, <2>2, <2>3, InvAsk
<1>5. ASSUME NEW ds \in SUBSET Docs, NEW want \in SUBSET Tags, BulkTags(r, u, ds, want)
      PROVE  IInv'
    <2>1. Ask(r, u, "bulk", FALSE, ds, want, want, None)
        BY <1>5 DEF BulkTags
    <2>2. QED
        BY <2>1, InvAsk
<1>6. ASSUME NEW source \in Tags, NEW target \in Tags, MergeTags(r, u, source, target)
      PROVE  IInv'
    <2>1. source # target /\ Ask(r, u, "merge", FALSE, Owned[u], {source}, {}, target)
        BY <1>6 DEF MergeTags
    <2>2. Owned[u] \in SUBSET Docs /\ {source} \in SUBSET Tags /\ {} \in SUBSET Tags
          /\ target \in Tags \ {source}
        BY <1>1, <2>1
    <2>3. QED
        BY <2>1, <2>2, InvAsk
<1>7. QED
    BY <1>2, <1>3, <1>4, <1>5, <1>6 DEF Start

LEMMA InvReadRows ==
    ASSUME IInv, NEW r \in Requests, ReadRows(r)
    PROVE  IInv'
<1>1. PICK q \in Request : q = request[r]
    BY DEF IInv, TypeOK, ReadRows
<1> DEFINE p == [q EXCEPT !.read = TRUE, !.names = {}, !.known = q.want \cap tags,
                          !.seen = LinksOf(q.docs)]
<1>2. request' = [request EXCEPT ![r] = p] /\ UNCHANGED <<document, tags, links, sweep, walk, raced>>
    BY <1>1 DEF ReadRows, IInv, TypeOK
<1>3. q.want \cap tags \in SUBSET Tags /\ LinksOf(q.docs) \in SUBSET (Docs \X Tags)
    BY DEF IInv, TypeOK, Present, Request, LinksOf
<1>4. /\ p \in Request /\ p.op = q.op /\ p.into = q.into /\ p.want = q.want
      /\ p.walking = q.walking /\ p.read /\ p.flushed = q.flushed
    BY <1>3 DEF Request, Updates
<1>5. /\ q.op = "merge" => q.into \in Tags \ q.want
      /\ q.walking => q.op = "set"
      /\ q.op = "set" => Single(q)
      /\ ~q.flushed
    BY <1>1 DEF ReadRows, IInv, RequestsSound, FlushedFits
<1>6. q.op = "set" => Single(p)
    <2>1. p.docs = q.docs /\ p.inbox = q.inbox
        BY DEF Request
    <2>2. QED
        BY <1>5, <2>1 DEF Single
<1> HIDE DEF p
<1>7. QED
    BY <1>2, <1>4, <1>5, <1>6, Reads

\* What a bulk tagging flushes fits the rows there are.
LEMMA InvFlush ==
    ASSUME IInv, NEW r \in Requests, Flush(r)
    PROVE  IInv'
<1>1. PICK q \in Request : q = request[r]
    BY DEF IInv, TypeOK, Flush
<1> DEFINE p == [Updates(q) EXCEPT !.flushed = TRUE]
<1>2. request' = [request EXCEPT ![r] = p] /\ UNCHANGED <<document, tags, links, sweep, walk, raced>>
    BY <1>1 DEF Flush, IInv, TypeOK
<1>3. InInbox(q.docs) \in SUBSET Docs /\ LinksOf(q.docs) \in SUBSET (Docs \X Tags)
    BY DEF IInv, TypeOK, Present, Request, InInbox, LinksOf
<1>4. /\ p \in Request /\ p.op = q.op /\ p.into = q.into /\ p.want = q.want
      /\ p.walking = q.walking /\ p.read = q.read /\ p.docs = q.docs /\ p.seen = q.seen
      /\ p.known = q.known
    BY <1>3 DEF Request, Updates
<1>5. /\ q.op = "merge" => q.into \in Tags \ q.want
      /\ q.walking => q.op = "set"
      /\ q.op = "set" \/ q.read
      /\ q.op = "bulk" /\ ~Conflict(q)
    BY <1>1 DEF Flush, IInv, RequestsSound
<1> HIDE DEF p
<1>6. Inserts(p) = Inserts(q) /\ Created(p) = Created(q)
    BY <1>4 DEF Inserts, Created
<1>7. Fits(p)
    BY <1>5, <1>6 DEF Conflict, Fits
<1>8. QED
    BY <1>2, <1>4, <1>5, <1>7, Reads

LEMMA InvGivesUp ==
    ASSUME IInv, NEW r \in Requests, UnknownIds(r) \/ RollBack(r)
    PROVE  IInv'
<1>1. /\ request' = [request EXCEPT ![r] = None]
      /\ UNCHANGED <<document, tags, links, sweep, walk, raced>>
    BY DEF UnknownIds, RollBack
<1>2. QED
    BY <1>1, Reads

-----------------------------------------------------------------------------
(* Documents, the sweep and the walk. *)

\* A document comes without tags, and its tags go with it.
LEMMA InvDocument ==
    ASSUME IInv, NEW d \in Docs, Upload(d) \/ Trash(d) \/ Restore(d) \/ Purge(d)
    PROVE  IInv'
<1>1. PICK row \in Document :
          /\ document' = [document EXCEPT ![d] = row]
          /\ \/ document[d].state = "absent" /\ row.state = "active" /\ row.status = "inbox"
                /\ links' = links /\ raced' = raced
             \/ document[d].state # "absent" /\ row.state # "absent"
                /\ row.status = document[d].status /\ links' = links /\ raced' = raced
             \/ row.state = "absent" /\ links' = links \ ({d} \X Tags) /\ raced' = raced \ {d}
    <2>1. document[d] \in Document
        BY DEF IInv, TypeOK
    <2>2. CASE Upload(d)
        <3>1. [state |-> "active", status |-> "inbox"] \in Document
            BY DEF Document
        <3>2. QED
            BY <2>2, <3>1 DEF Upload
    <2>3. CASE Trash(d)
        <3> DEFINE row == [document[d] EXCEPT !.state = "trash"]
        <3>1. row \in Document /\ row.state = "trash" /\ row.status = document[d].status
            BY <2>1 DEF Document
        <3>2. QED
            BY <2>3, <3>1 DEF Trash
    <2>4. CASE Restore(d)
        <3> DEFINE row == [document[d] EXCEPT !.state = "active"]
        <3>1. row \in Document /\ row.state = "active" /\ row.status = document[d].status
            BY <2>1 DEF Document
        <3>2. QED
            BY <2>4, <3>1 DEF Restore
    <2>5. CASE Purge(d)
        <3>1. [state |-> "absent", status |-> "inbox"] \in Document
            BY DEF Document
        <3>2. QED
            BY <2>5, <3>1 DEF Purge
    <2>6. QED
        BY <2>2, <2>3, <2>4, <2>5
<1>2. UNCHANGED <<tags, request, sweep, walk>>
    BY DEF Upload, Trash, Restore, Purge
<1>3. /\ document'[d] = row /\ document' \in [Docs -> Document]
      /\ \A e \in Docs \ {d} : document'[e] = document[e]
    BY <1>1 DEF IInv, TypeOK
<1>4. Present' = IF row.state = "absent" THEN Present \ {d} ELSE Present \cup {d}
    BY <1>3 DEF Present
<1>5. links' \subseteq Present' \X tags' /\ raced' \subseteq Docs
    <2>1. links \subseteq Present \X tags /\ tags \subseteq Tags /\ raced \subseteq Docs
        BY DEF IInv, TypeOK
    <2>2. CASE row.state = "absent"
        BY <1>1, <1>2, <1>4, <2>1, <2>2
    <2>3. CASE row.state # "absent"
        BY <1>1, <1>2, <1>4, <2>1, <2>3
    <2>4. QED
        BY <2>2, <2>3
<1>6. TypeOK'
    BY <1>2, <1>3, <1>5 DEF IInv, TypeOK
<1>7. RequestsSound'
    BY <1>2 DEF IInv, RequestsSound
<1>8. InboxUnlessRaced'
    <2>1. SUFFICES ASSUME NEW e \in Present' \ raced'
                   PROVE  (document'[e].status = "inbox" <=> Linked(e)' = {})
        BY DEF InboxUnlessRaced
    <2>2. e \in Docs /\ links \subseteq Present \X tags
        BY <2>1 DEF Present, IInv, TypeOK
    <2>3. CASE e # d
        <3>1. Linked(e)' = Linked(e) /\ document'[e] = document[e]
            BY <1>1, <1>3, <2>2, <2>3 DEF Linked
        <3>2. e \in Present \ raced
            BY <1>1, <1>4, <2>1, <2>3
        <3>3. QED
            BY <3>1, <3>2 DEF IInv, InboxUnlessRaced
    <2>4. CASE e = d /\ document[d].state = "absent"
        <3>1. Linked(e) = {} /\ row.status = "inbox" /\ links' = links
            BY <1>1, <1>4, <2>1, <2>2, <2>4 DEF Linked, Present
        <3>2. QED
            BY <1>3, <2>4, <3>1 DEF Linked
    <2>5. CASE e = d /\ document[d].state # "absent"
        <3>1. row.status = document[e].status /\ links' = links /\ raced' = raced
            BY <1>1, <1>4, <2>1, <2>5
        <3>2. e \in Present \ raced
            BY <2>1, <2>5, <3>1 DEF Present
        <3>3. QED
            BY <1>3, <2>5, <3>1, <3>2 DEF IInv, InboxUnlessRaced, Linked
    <2>6. QED
        BY <2>3, <2>4, <2>5
<1>9. FlushedFits'
    <2>1. ASSUME NEW l \in HeldLinks(Flushed), l[1] \in Present
          PROVE  l[1] \in Present'
        <3>1. CASE row.state = "absent"
            <4>1. Purge(d)
                BY <1>1, <1>3, <3>1 DEF Upload, Trash, Restore, IInv, TypeOK, Document
            <4>2. QED
                BY <1>4, <2>1, <4>1 DEF Purge
        <3>2. QED
            BY <1>4, <2>1, <3>1
    <2>2. QED
        BY <1>2, <2>1, StillFits DEF IInv, TypeOK
<1>10. QED
    BY <1>6, <1>7, <1>8, <1>9 DEF IInv

LEMMA InvSweep ==
    ASSUME IInv, SweepSelect \/ SweepDelete
    PROVE  IInv'
<1>1. UNCHANGED <<document, request, walk>>
    BY DEF SweepSelect, SweepDelete
<1>2. CASE SweepSelect
    <2>1. TypeOK'
        BY <1>2 DEF SweepSelect, IInv, TypeOK, Orphans, Present
    <2>2. RequestsSound' /\ InboxUnlessRaced'
        BY <1>2 DEF SweepSelect, IInv, RequestsSound, InboxUnlessRaced, Present, Linked
    <2>3. FlushedFits'
        BY <1>1, <1>2, StillFits DEF SweepSelect, IInv, TypeOK, Present
    <2>4. QED
        BY <2>1, <2>2, <2>3 DEF IInv
<1>3. CASE SweepDelete
    <2>1. /\ tags' = tags \ sweep /\ sweep' = None
          /\ links' = {l \in links : l[2] \notin sweep}
          /\ raced' = raced \cup {l[1] : l \in links \ links'}
        BY <1>3 DEF SweepDelete
    <2>2. links \subseteq Present \X tags /\ Present \subseteq Docs /\ Present' = Present
        BY <1>1 DEF IInv, TypeOK, Present
    <2>3. TypeOK'
        <3>1. links' \subseteq Present' \X tags' /\ raced' \subseteq Docs
            BY <2>1, <2>2 DEF IInv, TypeOK
        <3>2. QED
            BY <1>1, <2>1, <3>1 DEF IInv, TypeOK
    <2>4. RequestsSound'
        BY <1>1 DEF IInv, RequestsSound
    <2>5. ASSUME NEW d \in Present' \ raced'
          PROVE  Linked(d)' = Linked(d) /\ d \in Present \ raced
        <3>1. \A l \in links : l[1] = d => l \in links'
            BY <2>1
        <3>2. \A t : <<d, t>> \in links <=> <<d, t>> \in links'
            BY <2>1, <3>1
        <3>3. QED
            BY <2>1, <2>2, <3>2 DEF Linked
    <2>6. InboxUnlessRaced'
        BY <1>1, <2>5 DEF IInv, InboxUnlessRaced
    <2>7. FlushedFits'
        <3>1. \A l \in HeldLinks(Flushed) : l[2] \notin sweep
            BY <1>3 DEF SweepDelete
        <3>2. QED
            BY <1>1, <2>1, <2>2, <3>1, StillFits DEF IInv, TypeOK
    <2>8. QED
        BY <2>3, <2>4, <2>6, <2>7 DEF IInv
<1>4. QED
    BY <1>2, <1>3

LEMMA InvWalk ==
    ASSUME IInv, NEW u \in Users, WalkStart(u) \/ WalkSkip(u) \/ WalkNoTag(u) \/ WalkStop(u)
    PROVE  IInv'
<1>1. UNCHANGED <<document, tags, links, request, sweep, raced>>
    BY DEF WalkStart, WalkSkip, WalkNoTag, WalkStop
<1>2. walk' \in [Users -> Walk \cup {None}]
    <2>1. walk \in [Users -> Walk \cup {None}]
        BY DEF IInv, TypeOK
    <2>2. PICK card \in Walk \cup {None} : walk' = [walk EXCEPT ![u] = card]
        <3>1. CASE WalkStop(u)
            BY <3>1 DEF WalkStop
        <3>2. CASE ~WalkStop(u)
            <4>1. PICK skipped \in SUBSET Docs : walk' = [walk EXCEPT ![u] = NextCard(u, skipped)]
                <5>1. CASE WalkStart(u)
                    BY <5>1 DEF WalkStart
                <5>2. walk[u] # None => walk[u].skipped \in SUBSET Docs /\ walk[u].doc \in Docs
                    BY <2>1 DEF Walk
                <5>3. CASE WalkSkip(u)
                    BY <5>2, <5>3 DEF WalkSkip
                <5>4. CASE WalkNoTag(u)
                    BY <5>2, <5>4 DEF WalkNoTag
                <5>5. QED
                    BY <3>2, <5>1, <5>3, <5>4
            <4>2. QED
                BY <4>1, NextCardShows
        <3>3. QED
            BY <3>1, <3>2
    <2>3. QED
        BY <2>1, <2>2
<1>3. TypeOK'
    BY <1>1, <1>2 DEF IInv, TypeOK, Present
<1>4. RequestsSound' /\ InboxUnlessRaced'
    BY <1>1 DEF IInv, RequestsSound, InboxUnlessRaced, Present, Linked
<1>5. FlushedFits'
    BY <1>1, StillFits DEF IInv, TypeOK, Present
<1>6. QED
    BY <1>3, <1>4, <1>5 DEF IInv

-----------------------------------------------------------------------------
(* The commit of a tag change. *)

\* What a request inserts and deletes is about its own documents.
LEMMA ItsOwnLinks ==
    ASSUME NEW q \in Request
    PROVE  /\ \A l \in Inserts(q) \cup Deletes(q) : l[1] \in q.docs
           /\ Inserts(q) \subseteq Docs \X (Tags \cup {q.into})
           /\ Marked(q) \subseteq q.docs /\ Settled(q) \subseteq q.docs /\ Stale(q) \subseteq q.docs
<1>1. q.docs \subseteq Docs /\ q.want \subseteq Tags /\ q.op \in {"set", "bulk", "merge"}
    BY DEF Request
<1>2. Marked(q) \subseteq q.docs
    BY DEF Marked
<1>3. Settled(q) \subseteq q.docs /\ Stale(q) \subseteq q.docs
    BY <1>1, <1>2 DEF Settled, Stale
<1>4. \A l \in Deletes(q) : l[1] \in q.docs
    BY <1>1 DEF Deletes
<1>5. Inserts(q) \subseteq q.docs \X (Tags \cup {q.into})
    <2>1. CASE q.op \in {"set", "bulk"}
        BY <1>1, <2>1 DEF Inserts
    <2>2. CASE q.op = "merge"
        <3>1. ASSUME NEW l \in Inserts(q)
              PROVE  l \in q.docs \X (Tags \cup {q.into})
            <4>1. PICK e \in q.docs : l = <<e, q.into>>
                BY <2>2 DEF Inserts
            <4>2. QED
                BY <4>1
        <3>2. QED
            BY <3>1
    <2>3. QED
        BY <1>1, <2>1, <2>2
<1>6. QED
    BY <1>1, <1>2, <1>3, <1>4, <1>5

\* The tags of a document after a commit.
LinkedAfter(q, d) == {t \in Tags : <<d, t>> \in (links \ Deletes(q)) \cup Inserts(q)}

\* Tags are set on the rows they were read from: the document has these tags.
LEMMA SetTags ==
    ASSUME TypeOK, NEW q \in Request, q.op = "set", NEW d \in q.docs \ Stale(q),
           Single(q)
    PROVE  /\ LinkedAfter(q, d) = q.want
           /\ StatusAfter(q, d) = IF q.want = {} THEN "inbox" ELSE "tagged"
<1>1. d \in Docs /\ q.want \subseteq Tags /\ document[d].status \in {"inbox", "tagged"}
    BY DEF Request, TypeOK, Document
<1>2. /\ document[d].status = IF q.inbox = {} THEN "tagged" ELSE "inbox"
      /\ {l \in q.seen : l[1] = d} = LinksOf({d})
    <2>1. PICK e \in Docs : q.docs = {e}
        BY DEF Single
    <2>2. (d \in q.inbox) <=> (document[d].status = "inbox")
        BY DEF Stale
    <2>3. q.inbox = {} \/ d \in q.inbox
        BY <2>1 DEF Single
    <2>4. QED
        BY <1>1, <2>2, <2>3 DEF Stale
<1>3. \A t : <<d, t>> \in q.seen <=> <<d, t>> \in links
    BY <1>2 DEF LinksOf
<1>4. ASSUME NEW t \in Tags
      PROVE  t \in LinkedAfter(q, d) <=> t \in q.want
    <2>1. <<d, t>> \in Inserts(q) <=> t \in q.want /\ <<d, t>> \notin q.seen
        BY DEF Inserts
    <2>2. <<d, t>> \in Deletes(q) <=> t \notin q.want /\ <<d, t>> \in q.seen
        BY DEF Deletes
    <2>3. QED
        BY <1>3, <2>1, <2>2 DEF LinkedAfter
<1>5. StatusAfter(q, d) = IF q.want = {} THEN "inbox" ELSE "tagged"
    BY <1>2 DEF StatusAfter, StatusAfterSet
<1>6. QED
    BY <1>1, <1>4, <1>5 DEF LinkedAfter

\* Tags added leave a document tagged if it has one then: the rows are those the
\* UPDATE saw.
LEMMA AddTags ==
    ASSUME TypeOK, NEW q \in Request, q.op = "bulk", NEW d \in (q.docs \cap Present) \ Stale(q)
    PROVE  /\ d \in Marked(q) => LinkedAfter(q, d) # {} /\ StatusAfter(q, d) = "tagged"
           /\ d \notin Marked(q) => /\ StatusAfter(q, d) = document[d].status
                                   /\ LinkedAfter(q, d) = Linked(d)
<1>1. Deletes(q) = {} /\ q.docs \subseteq Docs /\ q.want \subseteq Tags
    BY DEF Deletes, Request
<1>2. Inserts(q) \subseteq q.docs \X q.want
    BY DEF Inserts
<1>3. links \subseteq Docs \X Tags
    BY DEF TypeOK, Present
<1>4. Inserts(q) # {} => /\ (d \in q.inbox) <=> (document[d].status = "inbox")
                         /\ {l \in q.past : l[1] = d} = LinksOf({d})
    BY DEF Stale
<1>5. ASSUME d \in Marked(q)
      PROVE  LinkedAfter(q, d) # {} /\ StatusAfter(q, d) = "tagged"
    <2>1. Inserts(q) # {} /\ \E l \in q.past \cup Inserts(q) : l[1] = d
        BY <1>5 DEF Marked
    <2>2. PICK l \in links \cup Inserts(q) : l[1] = d
        BY <1>4, <2>1 DEF LinksOf
    <2>3. l = <<d, l[2]>> /\ l[2] \in Tags
        BY <1>1, <1>2, <1>3, <2>2
    <2>4. LinkedAfter(q, d) # {}
        BY <1>1, <2>2, <2>3 DEF LinkedAfter
    <2>5. document[d].status \in {"inbox", "tagged"}
        BY <1>1 DEF TypeOK, Document
    <2>6. StatusAfter(q, d) = "tagged"
        BY <1>4, <1>5, <2>1, <2>5 DEF StatusAfter, StatusAfterBulk, Locked
    <2>7. QED
        BY <2>4, <2>6
<1>6. ASSUME d \notin Marked(q)
      PROVE  StatusAfter(q, d) = document[d].status /\ LinkedAfter(q, d) = Linked(d)
    <2>1. StatusAfter(q, d) = document[d].status
        BY <1>6 DEF StatusAfter, StatusAfterBulk, Locked
    <2>2. \A t : <<d, t>> \notin Inserts(q)
        <3>1. ASSUME NEW t, <<d, t>> \in Inserts(q)
              PROVE  d \in Marked(q)
            BY <3>1 DEF Marked
        <3>2. QED
            BY <1>6, <3>1
    <2>3. QED
        BY <1>1, <2>1, <2>2 DEF Linked, LinkedAfter
<1>7. QED
    BY <1>5, <1>6

\* A merge puts the target where it takes the source away, unless the target it
\* had seen there is gone.
LEMMA MergedTags ==
    ASSUME TypeOK, NEW q \in Request, q.op = "merge", q.into \in Tags \ q.want,
           ~Conflict(q), NEW d \in q.docs
    PROVE  /\ StatusAfter(q, d) = document[d].status
           /\ \/ LinkedAfter(q, d) = Linked(d)
              \/ q.into \in LinkedAfter(q, d) /\ Linked(d) # {}
              \/ d \in Stale(q)
<1>1. d \in Docs /\ q.docs \subseteq Docs /\ q.want \subseteq Tags /\ links \subseteq Docs \X Tags
    BY DEF Request, TypeOK, Present
<1>2. StatusAfter(q, d) = document[d].status
    BY DEF StatusAfter
<1>3. Inserts(q) = {<<e, q.into>> : e \in {e \in q.docs : q.seen \cap ({e} \X q.want) # {}
                                                         /\ <<e, q.into>> \notin q.seen}}
    BY DEF Inserts
<1>4. Deletes(q) = {l \in q.seen : l[1] \in q.docs /\ l[2] \in q.want}
    BY DEF Deletes
<1>5. CASE <<d, q.into>> \in Inserts(q)
    <2>1. PICK s \in q.want : <<d, s>> \in links
        BY <1>5 DEF Conflict
    <2>2. s \in Linked(d)
        BY <1>1, <2>1 DEF Linked
    <2>3. q.into \in LinkedAfter(q, d)
        BY <1>5 DEF LinkedAfter
    <2>4. QED
        BY <1>2, <2>2, <2>3
<1>6. CASE <<d, q.into>> \notin Inserts(q)
    <2>1. \A t : <<d, t>> \notin Inserts(q)
        BY <1>3, <1>6
    <2>2. CASE \A t \in Tags : <<d, t>> \notin links \cap Deletes(q)
        <3>1. LinkedAfter(q, d) = Linked(d)
            BY <2>1, <2>2 DEF LinkedAfter, Linked
        <3>2. QED
            BY <1>2, <3>1
    <2>3. CASE ~(\A t \in Tags : <<d, t>> \notin links \cap Deletes(q))
        <3>1. PICK t \in Tags : <<d, t>> \in links /\ <<d, t>> \in Deletes(q)
            BY <2>3
        <3>2. <<d, t>> \in q.seen \cap ({d} \X q.want)
            BY <1>4, <3>1
        <3>3. <<d, q.into>> \in q.seen
            BY <1>3, <1>6, <3>2
        <3>4. CASE <<d, q.into>> \in links
            <4>1. <<d, q.into>> \notin Deletes(q)
                BY <1>4
            <4>2. q.into \in LinkedAfter(q, d) /\ t \in Linked(d)
                BY <3>1, <3>4, <4>1 DEF LinkedAfter, Linked
            <4>3. QED
                BY <1>2, <4>2
        <3>5. CASE <<d, q.into>> \notin links
            <4>1. d \in Stale(q)
                BY <3>1, <3>3, <3>5 DEF Stale
            <4>2. QED
                BY <1>2, <4>1
        <3>6. QED
            BY <3>4, <3>5
    <2>4. QED
        BY <2>2, <2>3
<1>7. QED
    BY <1>5, <1>6

LEMMA InvCommit ==
    ASSUME IInv, NEW r \in Requests, Commit(r)
    PROVE  IInv'
<1>1. PICK q \in Request : q = request[r]
    BY DEF IInv, TypeOK, Commit
<1>2. /\ ~Conflict(q) \/ (q.op = "bulk" /\ q.flushed)
      /\ tags' = tags \cup Created(q)
      /\ links' = (links \ Deletes(q)) \cup Inserts(q)
      /\ document' = [d \in Docs |-> [document[d] EXCEPT !.status = StatusAfter(q, d)]]
      /\ raced' = (raced \ Settled(q)) \cup (Stale(q) \cap Present)
      /\ request' = [request EXCEPT ![r] = None]
      /\ walk' = IF q.walking /\ walk[q.user] # None
                 THEN [walk EXCEPT ![q.user] = NextCard(q.user, walk[q.user].skipped)]
                 ELSE walk
      /\ sweep' = sweep
    BY <1>1 DEF Commit
<1>3. /\ q.op \in {"set", "bulk", "merge"} /\ q.docs \subseteq Docs /\ q.want \subseteq Tags
      /\ q.user \in Users
      /\ q.op = "merge" => q.into \in Tags \ q.want
      /\ q.op = "set" => Single(q)
    BY <1>1 DEF Request, IInv, RequestsSound, Commit
<1>4. ASSUME NEW d \in Docs
      PROVE  /\ StatusAfter(q, d) \in {"inbox", "tagged"}
             /\ document'[d] \in Document
             /\ document'[d].state = document[d].state
             /\ document'[d].status = StatusAfter(q, d)
    <2>1. document[d] \in Document /\ document[d].status \in {"inbox", "tagged"}
        BY DEF IInv, TypeOK, Document
    <2>2. StatusAfter(q, d) \in {"inbox", "tagged"}
        BY <1>3, <2>1 DEF StatusAfter, StatusAfterSet, StatusAfterBulk, Locked
    <2>3. document'[d] = [document[d] EXCEPT !.status = StatusAfter(q, d)]
        BY <1>2
    <2>4. QED
        BY <2>1, <2>2, <2>3 DEF Document
<1>5. Present' = Present
    BY <1>4 DEF Present
<1>6. TypeOK'
    <2>1. document' \in [Docs -> Document]
        BY <1>2, <1>4
    <2>2. tags' \subseteq Tags /\ raced' \subseteq Docs
        BY <1>2, <1>3, ItsOwnLinks DEF IInv, TypeOK, Created
    <2>3. links' \subseteq Present' \X tags'
        <3>1. \A l \in Inserts(q) : l[1] \in Present /\ l[2] \in tags'
            <4>1. Fits(q)
                BY <1>1, <1>2 DEF Conflict, Fits, IInv, FlushedFits, Commit
            <4>2. QED
                BY <1>2, <4>1 DEF Fits
        <3>2. Inserts(q) \subseteq Present \X tags'
            BY <3>1, ItsOwnLinks
        <3>3. links \subseteq Present \X tags'
            BY <1>2 DEF IInv, TypeOK
        <3>4. QED
            BY <1>2, <1>5, <3>2, <3>3
    <2>4. request' \in [Requests -> Request \cup {None}]
        BY <1>2 DEF IInv, TypeOK
    <2>5. walk' \in [Users -> Walk \cup {None}]
        <3>1. walk \in [Users -> Walk \cup {None}]
            BY DEF IInv, TypeOK
        <3>2. walk[q.user] # None => walk[q.user].skipped \in SUBSET Docs
            BY <1>3, <3>1 DEF Walk
        <3>3. walk[q.user] # None =>
                  NextCard(q.user, walk[q.user].skipped) \in Walk \cup {None}
            BY <1>3, <3>2, NextCardShows
        <3>4. QED
            BY <1>2, <3>1, <3>3
    <2>6. QED
        BY <1>2, <2>1, <2>2, <2>3, <2>4, <2>5 DEF IInv, TypeOK
<1>7. RequestsSound'
    BY <1>2 DEF IInv, TypeOK, RequestsSound
<1>8. ASSUME NEW d \in Docs
      PROVE  Linked(d)' = LinkedAfter(q, d)
    BY <1>2 DEF Linked, LinkedAfter
<1>9. InboxUnlessRaced'
    <2>1. SUFFICES ASSUME NEW d \in Present' \ raced'
                   PROVE  (document'[d].status = "inbox" <=> Linked(d)' = {})
        BY DEF InboxUnlessRaced
    <2>2. d \in Docs /\ d \in Present /\ d \notin Stale(q) /\ (d \in raced => d \in Settled(q))
        BY <1>2, <1>5, <2>1 DEF Present
    <2>3. Linked(d)' = LinkedAfter(q, d) /\ document'[d].status = StatusAfter(q, d)
        BY <1>4, <1>8, <2>2
    <2>4. d \notin raced => (document[d].status = "inbox" <=> Linked(d) = {})
        BY <2>2 DEF IInv, InboxUnlessRaced
    <2>5. CASE d \notin q.docs
        <3>1. d \notin raced
            BY <2>2, <2>5, ItsOwnLinks
        <3>2. LinkedAfter(q, d) = Linked(d)
            BY <2>5, ItsOwnLinks DEF LinkedAfter, Linked
        <3>3. StatusAfter(q, d) = document[d].status
            BY <2>5 DEF StatusAfter
        <3>4. QED
            BY <2>3, <2>4, <3>1, <3>2, <3>3
    <2>6. CASE d \in q.docs /\ q.op = "set"
        BY <1>3, <2>2, <2>3, <2>6, SetTags DEF IInv
    <2>7. CASE d \in q.docs /\ q.op = "bulk"
        <3>1. CASE d \in Marked(q)
            BY <2>2, <2>3, <2>7, <3>1, AddTags DEF IInv
        <3>2. CASE d \notin Marked(q)
            <4>1. d \notin raced
                BY <2>2, <2>7, <3>2 DEF Settled
            <4>2. LinkedAfter(q, d) = Linked(d) /\ StatusAfter(q, d) = document[d].status
                BY <2>2, <2>7, <3>2, AddTags DEF IInv
            <4>3. QED
                BY <2>3, <2>4, <4>1, <4>2
        <3>3. QED
            BY <3>1, <3>2
    <2>8. CASE d \in q.docs /\ q.op = "merge"
        <3>1. d \notin raced
            BY <2>2, <2>8 DEF Settled
        <3>2. /\ StatusAfter(q, d) = document[d].status
              /\ \/ LinkedAfter(q, d) = Linked(d)
                 \/ q.into \in LinkedAfter(q, d) /\ Linked(d) # {}
            BY <1>2, <1>3, <2>2, <2>8, MergedTags DEF IInv
        <3>3. QED
            BY <2>3, <2>4, <3>1, <3>2
    <2>9. QED
        BY <1>3, <2>5, <2>6, <2>7, <2>8
<1>10. FlushedFits'
    <2>1. SUFFICES ASSUME NEW p \in Requests, request'[p] # None, request'[p].flushed
                   PROVE  request'[p].op = "bulk" /\ Fits(request[p])'
        BY DEF FlushedFits
    <2>2. PICK x \in Request : x = request[p] /\ x = request'[p]
        BY <1>2, <2>1 DEF IInv, TypeOK
    <2>3. x.op = "bulk" /\ Fits(x)
        BY <2>1, <2>2 DEF IInv, FlushedFits
    <2>4. tags \subseteq tags'
        BY <1>2
    <2>5. Inserts(x)' = Inserts(x) /\ Created(x)' = Created(x)
        BY DEF Inserts, Created
    <2>6. \A l \in Inserts(x)' : l[1] \in Present' /\ l[2] \in tags' \cup Created(x)'
        BY <1>5, <2>3, <2>4, <2>5 DEF Fits
    <2>7. Fits(x)'
        BY <2>6 DEF Fits
    <2>8. QED
        BY <2>2, <2>3, <2>7
<1>11. QED
    BY <1>6, <1>7, <1>9, <1>10 DEF IInv

-----------------------------------------------------------------------------
(* The theorems. *)

LEMMA InvNext == IInv /\ [Next]_vars => IInv'
<1>. SUFFICES ASSUME IInv, [Next]_vars PROVE IInv'
    OBVIOUS
<1>1. ASSUME NEW d \in Docs, Upload(d) \/ Trash(d) \/ Restore(d) \/ Purge(d) PROVE IInv'
    BY <1>1, InvDocument
<1>2. ASSUME NEW r \in Requests, NEW u \in Users, Start(r, u) PROVE IInv'
    BY <1>2, InvStart
<1>3. ASSUME NEW r \in Requests, Progress(r) PROVE IInv'
    BY <1>3, InvReadRows, InvFlush, InvGivesUp, InvCommit DEF Progress
<1>4. CASE SweepSelect \/ SweepDelete
    BY <1>4, InvSweep
<1>5. ASSUME NEW u \in Users, WalkStart(u) \/ WalkSkip(u) \/ WalkNoTag(u) \/ WalkStop(u)
      PROVE  IInv'
    BY <1>5, InvWalk
<1>6. CASE UNCHANGED vars
    <2>1. (TypeOK /\ RequestsSound /\ InboxUnlessRaced)'
        BY <1>6 DEF vars, IInv, TypeOK, RequestsSound, InboxUnlessRaced, Present, Linked
    <2>2. FlushedFits'
        BY <1>6, StillFits DEF vars, IInv, TypeOK, Present
    <2>3. QED
        BY <2>1, <2>2 DEF IInv
<1>7. QED
    BY <1>1, <1>2, <1>3, <1>4, <1>5, <1>6 DEF Next

\* Whatever documents, tags, users and requests there are, the invariant holds.
THEOREM InductiveInvariant == Spec => []IInv
BY InvInit, InvNext, PTL DEF Spec

\* Rows are what the code takes them for, and a link joins a document that is
\* there to a tag that is.
THEOREM TypeCorrect == Spec => []TypeOK
<1>1. IInv => TypeOK
    BY DEF IInv
<1>2. QED
    BY InductiveInvariant, <1>1, PTL

\* The inbox holds the documents without tags, as long as the last change of
\* their tags was decided on the rows it committed over.
THEOREM InboxHoldsUntagged == Spec => []InboxUnlessRaced
<1>1. IInv => InboxUnlessRaced
    BY DEF IInv
<1>2. QED
    BY InductiveInvariant, <1>1, PTL

\* No tag is lost in a merge: where it changes a document's tags, the target is
\* there afterwards.
THEOREM MergeKeepsTags == Spec => MergeLeavesTarget
<1>1. ASSUME IInv, NEW r \in Requests, request[r] # None, request[r].op = "merge", Commit(r),
             NEW d \in Docs, Linked(d)' # Linked(d)
      PROVE  request[r].into \in Linked(d)' \/ d \in raced'
    <2>1. PICK q \in Request : q = request[r]
        BY <1>1 DEF IInv, TypeOK
    <2>2. /\ ~Conflict(q) /\ raced' = (raced \ Settled(q)) \cup (Stale(q) \cap Present)
          /\ links' = (links \ Deletes(q)) \cup Inserts(q)
        BY <1>1, <2>1 DEF Commit
    <2>3. q.op = "merge" /\ q.into \in Tags \ q.want
        BY <1>1, <2>1 DEF IInv, RequestsSound
    <2>4. Linked(d)' = LinkedAfter(q, d)
        BY <2>2 DEF Linked, LinkedAfter
    <2>5. d \in q.docs
        BY <1>1, <2>4, ItsOwnLinks DEF LinkedAfter, Linked
    <2>6. q.into \in LinkedAfter(q, d) \/ d \in Stale(q)
        BY <1>1, <2>2, <2>3, <2>4, <2>5, MergedTags DEF IInv
    <2>7. d \in Present
        <3>1. ~Conflict(q) => \A l \in Inserts(q) : l[1] \in Present
            BY DEF Conflict
        <3>2. Linked(d) # {} => d \in Present
            BY <1>1 DEF Linked, IInv, TypeOK
        <3>3. LinkedAfter(q, d) \ Linked(d) # {} => d \in Present
            BY <2>2, <3>1 DEF LinkedAfter, Linked
        <3>4. QED
            BY <1>1, <2>4, <3>2, <3>3
    <2>8. QED
        BY <2>1, <2>2, <2>4, <2>6, <2>7
<1>2. IInv /\ [Next]_vars =>
          [\A r \in Requests :
              request[r] # None /\ request[r].op = "merge" /\ Commit(r) =>
                  \A d \in Docs : Linked(d)' # Linked(d) =>
                      request[r].into \in Linked(d)' \/ d \in raced']_vars
    BY <1>1
<1>3. QED
    BY InductiveInvariant, <1>2, PTL DEF Spec, MergeLeavesTarget

\* The walk does not stop at a document its user has just tagged.
THEOREM AnswerMovesOn == Spec => AnsweredCardGivesWay
<1>1. ASSUME IInv, NEW r \in Requests, request[r] # None, request[r].walking,
             request[r].want # {}, Commit(r),
             walk'[request[r].user] # None
      PROVE  walk'[request[r].user].doc \notin request[r].docs \ raced'
    <2>1. PICK q \in Request : q = request[r]
        BY <1>1 DEF IInv, TypeOK
    <2>2. /\ raced' = (raced \ Settled(q)) \cup (Stale(q) \cap Present)
          /\ q.op = "set" => ~Conflict(q)
          /\ document' = [d \in Docs |-> [document[d] EXCEPT !.status = StatusAfter(q, d)]]
          /\ walk' = IF q.walking /\ walk[q.user] # None
                     THEN [walk EXCEPT ![q.user] = NextCard(q.user, walk[q.user].skipped)]
                     ELSE walk
        BY <1>1, <2>1 DEF Commit
    <2>3. /\ q.op = "set" /\ q.want # {} /\ q.walking /\ q.docs \subseteq Docs /\ q.user \in Users
          /\ Single(q)
        BY <1>1, <2>1 DEF IInv, RequestsSound, Request
    <2>4. walk \in [Users -> Walk \cup {None}]
        BY <1>1 DEF IInv, TypeOK
    <2>5. PICK u \in Users : u = q.user
        BY <2>3
    <2>6. walk[u] # None
        BY <1>1, <2>1, <2>2, <2>5
    <2>7. PICK skipped \in SUBSET Docs : walk'[u] = NextCard(u, skipped)
        <3>1. walk[u].skipped \in SUBSET Docs
            BY <2>4, <2>6 DEF Walk
        <3>2. QED
            BY <2>2, <2>3, <2>4, <2>5, <2>6, <3>1
    <2>8. document'[walk'[u].doc].status = "inbox"
        BY <1>1, <2>1, <2>5, <2>7, NextCardShows
    <2>9. ASSUME NEW d \in q.docs \ raced'
          PROVE  document'[d].status = "tagged"
        <3>1. d \in Docs /\ d \in q.docs \ Stale(q) /\ document[d] \in Document
            BY <1>1, <2>2, <2>3 DEF IInv, TypeOK, Conflict
        <3>2. StatusAfter(q, d) = "tagged"
            BY <1>1, <2>3, <3>1, SetTags DEF IInv
        <3>3. QED
            BY <2>2, <3>1, <3>2 DEF Document
    <2>10. QED
        BY <2>1, <2>5, <2>8, <2>9
<1>2. IInv /\ [Next]_vars =>
          [\A r \in Requests :
              request[r] # None /\ request[r].walking /\ request[r].want # {} /\ Commit(r) =>
                  LET card == walk'[request[r].user]
                  IN  card # None => card.doc \notin request[r].docs \ raced']_vars
    BY <1>1
<1>3. QED
    BY InductiveInvariant, <1>2, PTL DEF Spec, AnsweredCardGivesWay
=============================================================================
