------------------------------- MODULE Tagging -------------------------------
(***************************************************************************)
(* Tags, the inbox and the walk through it (app/services/tags.py, the      *)
(* inbox queue of app/services/documents.py; their callers in app/api,     *)
(* app/web and app/bot).                                                   *)
(*                                                                         *)
(* "Not tagged yet" is kept twice: as the absence of document_tag rows and *)
(* as Document.status.  Every tag change reads rows, decides, and writes   *)
(* in one transaction that nothing serialises with the others, so a        *)
(* request is a step that loads the document, one that reads the links,    *)
(* and one that writes and commits; a bulk tagging writes in two, as its   *)
(* UPDATE looks at the inbox before the commit.                            *)
(***************************************************************************)
EXTENDS Naturals, FiniteSets

CONSTANTS
    Docs,       \* documents, numbered by uploaded_at
    Tags,       \* tags; a tag stands for its slug, which is unique
    Users,
    Owned,      \* Owned[u]: documents of the domains u owns
    Writable,   \* Writable[u]: documents of the domains where u may write
    Requests,   \* concurrent requests
    None        \* an idle request, no walk

ASSUME DocsAssumption == Docs \subseteq Nat
ASSUME DomainsAssumption ==
    /\ Owned \in [Users -> SUBSET Docs]
    /\ Writable \in [Users -> SUBSET Docs]
    /\ \A u \in Users : Owned[u] \subseteq Writable[u]

\* A row of `document`, as far as the inbox goes.
Document == [state: {"absent", "active", "trash"}, status: {"inbox", "tagged"}]

\* A tag change under way: what it was asked for and what it has read so far.
Request ==
    [op: {"set", "bulk", "merge"},
     user: Users,
     walking: BOOLEAN,                 \* from a card of the inbox walk
     docs: SUBSET Docs,
     want: SUBSET Tags,                \* the tags to set or add; merge: the source
     names: SUBSET Tags,               \* those of want given by name: created
     into: Tags \cup {None},
     inbox: SUBSET Docs,               \* its documents in the inbox, as loaded or
                                       \* as the bulk's UPDATE found them
     known: SUBSET Tags,               \* of want, the tags that have a row
     seen: SUBSET (Docs \X Tags),      \* the links it has read
     past: SUBSET (Docs \X Tags),      \* the links others had when it flushed
     read: BOOLEAN,
     flushed: BOOLEAN]                 \* bulk: its writes have run, uncommitted

\* The card of a walk through the inbox and the documents skipped in it.
Walk == [doc: Docs, skipped: SUBSET Docs]

VARIABLES
    document,
    tags,        \* rows of `tag`
    links,       \* rows of `document_tag`
    request,
    sweep,       \* the tags the nightly cleanup has selected; None when idle
    walk,        \* the bot's FSM data, or the fields of the web card's form
    raced        \* history: documents whose last tag change was decided on rows
                 \* that others changed before it committed

vars == <<document, tags, links, request, sweep, walk, raced>>

Present == {d \in Docs : document[d].state # "absent"}
Linked(d) == {t \in Tags : <<d, t>> \in links}
InUse == {r \in Requests : request[r] # None}
Held(r) == request[r].docs
InInbox(ds) == {d \in ds : document[d].status = "inbox"}
LinksOf(ds) == {l \in links : l[1] \in ds}

(* What a request inserts: the tags named for the first time, and the links  *)
(* it has not seen.  A bulk that has flushed holds them until its commit:    *)
(* the rows they refer to cannot be deleted, another INSERT of one waits.    *)

Created(q) == IF q.op = "merge" THEN {} ELSE q.want \ q.known
FaultMergeDrops(q) ==
    IF q.op = "merge" THEN {} ELSE (q.docs \X q.want) \ q.seen
Inserts(q) ==
    CASE q.op \in {"set", "bulk"} -> (q.docs \X q.want) \ q.seen
      [] q.op = "merge" ->
           {<<d, q.into>> : d \in {e \in q.docs : q.seen \cap ({e} \X q.want) # {}
                                                 /\ <<e, q.into>> \notin q.seen}}

\* add_tags_to_documents updates the documents in the inbox that have a link, if
\* it added anything: which they are the UPDATE finds in the rows committed by
\* the time it runs and in its own.  It keeps them locked: who writes the status
\* of one of them waits, and writes it then if it still has reason to.
Marked(q) ==
    IF Inserts(q) = {} THEN {} ELSE {d \in q.docs : \E l \in q.past \cup Inserts(q) : l[1] = d}
Updates(q) == [q EXCEPT !.inbox = InInbox(q.docs), !.past = LinksOf(q.docs)]
Locked(q) == Marked(q) \cap q.inbox
Writes(q) ==
    CASE q.op = "set" -> IF (q.inbox = {}) = (q.want = {}) THEN q.docs ELSE {}
      [] q.op = "bulk" -> Locked(Updates(q))
      [] OTHER -> {}

Flushed == {r \in InUse : request[r].flushed}
HeldLinks(R) == UNION {Inserts(request[r]) : r \in R}
Waits(r) ==
    \E p \in Flushed \ {r} : \/ Inserts(request[p]) \cap Inserts(request[r]) # {}
                            \/ Created(request[p]) \cap Created(request[r]) # {}
                            \/ Locked(request[p]) \cap Writes(request[r]) # {}

-----------------------------------------------------------------------------
Init ==
    /\ document = [d \in Docs |-> [state |-> "absent", status |-> "inbox"]]
    /\ tags = {}
    /\ links = {}
    /\ request = [r \in Requests |-> None]
    /\ sweep = None
    /\ walk = [u \in Users |-> None]
    /\ raced = {}

-----------------------------------------------------------------------------
(* Documents come and go without regard to their tags. *)

\* ingest_upload inserts a document in the inbox.  Identifiers are not reused
\* while a request still holds one.
Upload(d) ==
    /\ document[d].state = "absent"
    /\ \A r \in InUse : d \notin Held(r)
    /\ document' = [document EXCEPT ![d] = [state |-> "active", status |-> "inbox"]]
    /\ UNCHANGED <<tags, links, request, sweep, walk, raced>>

Trash(d) ==
    /\ document[d].state = "active"
    /\ document' = [document EXCEPT ![d].state = "trash"]
    /\ UNCHANGED <<tags, links, request, sweep, walk, raced>>

Restore(d) ==
    /\ document[d].state = "trash"
    /\ document' = [document EXCEPT ![d].state = "active"]
    /\ UNCHANGED <<tags, links, request, sweep, walk, raced>>

\* hard_purge deletes the document's links with it.
Purge(d) ==
    /\ document[d].state = "trash"
    /\ \A l \in HeldLinks(Flushed) : l[1] # d
    /\ document' = [document EXCEPT ![d] = [state |-> "absent", status |-> "inbox"]]
    /\ links' = links \ ({d} \X Tags)
    /\ raced' = raced \ {d}
    /\ UNCHANGED <<tags, request, sweep, walk>>

-----------------------------------------------------------------------------
(* Starting a tag change. *)

Ask(r, u, op, walking, ds, want, names, into) ==
    /\ request[r] = None
    /\ request' = [request EXCEPT ![r] =
           [op |-> op, user |-> u, walking |-> walking,
            docs |-> ds, want |-> want, names |-> names, into |-> into,
            inbox |-> IF op = "set" THEN InInbox(ds) ELSE {},
            known |-> IF op = "set" THEN {} ELSE want \cap tags,
            seen |-> CASE op = "set" -> {}
                       [] op = "bulk" -> links \cap (ds \X want)
                       [] OTHER -> LinksOf(ds),
            past |-> {},
            read |-> op # "set",
            flushed |-> FALSE]]
    /\ UNCHANGED <<document, tags, links, sweep, walk, raced>>

\* PATCH /documents/{id}/tags takes ids and names; the row is loaded with the
\* capability check, in the trash or not.
ApiSetTags(r, u, d, want) ==
    /\ d \in Present \cap Writable[u]
    /\ \E names \in SUBSET want : Ask(r, u, "set", FALSE, {d}, want, names, None)

\* The web's document page takes names only.
WebDocumentTags(r, u, d, want) ==
    /\ d \in Present \cap Writable[u]
    /\ Ask(r, u, "set", FALSE, {d}, want, want, None)

\* The bot's prompt adds to the tags the document has when the answer comes, by
\* their ids, and clears them all on a dash.
BotSetTags(r, u, d, want) ==
    /\ d \in Present \cap Writable[u]
    /\ Ask(r, u, "set", FALSE, {d}, IF want = {} THEN {} ELSE want \cup Linked(d), want, None)

\* "Done" on an inbox card, in the web or the bot: the card's document may have
\* been tagged or trashed since it was shown; the answer may name no tag.
WalkDone(r, u, want) ==
    /\ walk[u] # None
    /\ walk[u].doc \in Present
    /\ \A p \in InUse : ~(request[p].walking /\ request[p].user = u)
    /\ Ask(r, u, "set", TRUE, {walk[u].doc}, want, want, None)

\* Bulk action "tags" of the search page, on the selected active documents.
BulkTags(r, u, ds, want) ==
    /\ ds # {} /\ want # {}
    /\ ds \subseteq {d \in Writable[u] : document[d].state = "active"}
    /\ Ask(r, u, "bulk", FALSE, ds, want, want, None)

\* Both merge endpoints load the two tags; a tag is not merged into itself.
MergeTags(r, u, source, target) ==
    /\ {source, target} \subseteq tags /\ source # target
    /\ Ask(r, u, "merge", FALSE, Owned[u], {source}, {}, target)

-----------------------------------------------------------------------------
(* Reading: which tags exist, which links there are. *)

\* get_or_create_tag finds the slug or inserts it; ids are looked up only.
ReadRows(r) ==
    /\ request[r] # None /\ ~request[r].read
    /\ request[r].want \subseteq tags \cup request[r].names
    /\ request' = [request EXCEPT
           ![r].read = TRUE,
           ![r].names = {},
           ![r].known = request[r].want \cap tags,
           ![r].seen = LinksOf(request[r].docs)]
    /\ UNCHANGED <<document, tags, links, sweep, walk, raced>>

\* TagError: 400.
UnknownIds(r) ==
    /\ request[r] # None /\ ~request[r].read
    /\ ~(request[r].want \subseteq tags \cup request[r].names)
    /\ request' = [request EXCEPT ![r] = None]
    /\ UNCHANGED <<document, tags, links, sweep, walk, raced>>

-----------------------------------------------------------------------------
(* Writing.  An INSERT of a link or tag that exists by now, or of a link to  *)
(* a row that is gone, an UPDATE that no longer finds its row: the           *)
(* transaction fails as a whole.                                             *)

Deletes(q) ==
    CASE q.op = "set" -> {l \in q.seen : l[1] \in q.docs /\ l[2] \notin q.want}
      [] q.op = "merge" -> {l \in q.seen : l[1] \in q.docs /\ l[2] \in q.want}
      [] OTHER -> {}

Conflict(q) ==
    \/ Inserts(q) \cap links # {}
    \/ Created(q) \cap tags # {}
    \/ \E l \in Inserts(q) : l[1] \notin Present \/ l[2] \notin tags \cup Created(q)
    \* a moved link is an UPDATE of the row it was read from
    \/ q.op = "merge" /\ \E l \in Inserts(q) :
           \A s \in q.want : <<l[1], s>> \notin links
    \/ q.op = "set" /\ ~(q.docs \subseteq Present)

\* set_document_tags writes the status the new tags call for unless the status
\* it loaded was that already.
StatusAfterSet(q, s) ==
    LET want == IF q.want = {} THEN "inbox" ELSE "tagged"
        loaded == IF q.inbox = {} THEN "tagged" ELSE "inbox"
    IN  IF loaded # want THEN want ELSE s

\* The rows it decided on are those the UPDATE found.
FaultMarksUnlinked(q, s, d) == IF Inserts(q) # {} THEN "tagged" ELSE s
StatusAfterBulk(q, s, d) == IF d \in Locked(q) \cap Present THEN "tagged" ELSE s

StatusAfter(q, d) ==
    CASE d \in q.docs /\ q.op = "set" -> StatusAfterSet(q, document[d].status)
      [] d \in q.docs /\ q.op = "bulk" -> StatusAfterBulk(q, document[d].status, d)
      [] OTHER -> document[d].status

\* Of the documents it decided on, those whose rows were others' by then.
Stale(q) ==
    CASE q.op = "set" ->
           {d \in q.docs : (d \in q.inbox) # (document[d].status = "inbox")
                           \/ {l \in q.seen : l[1] = d} # LinksOf({d})}
      [] q.op = "merge" ->
           {d \in q.docs : <<d, q.into>> \in q.seen \ links /\ \E l \in Deletes(q) : l[1] = d}
      [] OTHER ->
           IF Inserts(q) = {} THEN {}
           ELSE {d \in q.docs : (d \in q.inbox) # (document[d].status = "inbox")
                                \/ {l \in q.past : l[1] = d} # LinksOf({d})}
Settled(q) ==
    CASE q.op = "set" -> q.docs
      [] q.op = "bulk" -> Marked(q)
      [] OTHER -> {}

\* next_inbox_across: the oldest active inbox document not skipped; the walk
\* ends when there is none.
FaultAnyCard(u, skipped) ==
    LET queue == {d \in Writable[u] \ skipped : document'[d].state = "active"}
    IN  IF queue = {} THEN None
        ELSE [doc |-> CHOOSE d \in queue : \A e \in queue : d <= e,
              skipped |-> skipped]
NextCard(u, skipped) ==
    LET queue == {d \in Writable[u] \ skipped :
                    document'[d].state = "active" /\ document'[d].status = "inbox"}
    IN  IF queue = {} THEN None
        ELSE [doc |-> CHOOSE d \in queue : \A e \in queue : d <= e,
              skipped |-> skipped]

\* The bulk's INSERTs and UPDATE are sent, nothing is committed.
Flush(r) ==
    LET q == request[r]
    IN  /\ q # None /\ q.op = "bulk" /\ ~q.flushed
        /\ ~Conflict(q) /\ ~Waits(r)
        /\ request' = [request EXCEPT ![r] = [Updates(q) EXCEPT !.flushed = TRUE]]
        /\ UNCHANGED <<document, tags, links, sweep, walk, raced>>

Commit(r) ==
    LET q == request[r]
    IN  /\ q # None /\ q.read
        /\ IF q.op = "bulk" THEN q.flushed ELSE ~Conflict(q) /\ ~Waits(r)
        /\ tags' = tags \cup Created(q)
        /\ links' = (links \ Deletes(q)) \cup Inserts(q)
        /\ UNCHANGED sweep
        /\ document' = [d \in Docs |-> [document[d] EXCEPT !.status = StatusAfter(q, d)]]
        /\ raced' = (raced \ Settled(q)) \cup (Stale(q) \cap Present)
        /\ request' = [request EXCEPT ![r] = None]
        \* the answer to a card is the next one
        /\ walk' = IF q.walking /\ walk[q.user] # None
                   THEN [walk EXCEPT ![q.user] = NextCard(q.user, walk[q.user].skipped)]
                   ELSE walk

\* An IntegrityError or StaleDataError: rolled back, the card stays.
RollBack(r) ==
    /\ request[r] # None /\ request[r].read /\ ~request[r].flushed
    /\ Conflict(request[r])
    /\ request' = [request EXCEPT ![r] = None]
    /\ UNCHANGED <<document, tags, links, sweep, walk, raced>>

-----------------------------------------------------------------------------
(* sweep_orphan_tags: the tags without documents are selected, then deleted  *)
(* by id; the delete cascades to links added in between.                     *)

Orphans == {t \in tags : \A d \in Docs : <<d, t>> \notin links}

SweepSelect ==
    /\ sweep = None /\ Orphans # {}
    /\ sweep' = Orphans
    /\ UNCHANGED <<document, tags, links, request, walk, raced>>

FaultNoCascade ==
    /\ sweep # None
    /\ tags' = tags \ sweep
    /\ sweep' = None
    /\ UNCHANGED <<document, links, request, walk, raced>>

SweepDelete ==
    /\ sweep # None
    /\ \A l \in HeldLinks(Flushed) : l[2] \notin sweep
    /\ tags' = tags \ sweep
    /\ links' = {l \in links : l[2] \notin sweep}
    /\ raced' = raced \cup {l[1] : l \in links \ links'}
    /\ sweep' = None
    /\ UNCHANGED <<document, request, walk>>

-----------------------------------------------------------------------------
(* The walk through the inbox. *)

\* GET /inbox/card or the bot's /inbox.
WalkStart(u) ==
    /\ walk[u] = None
    /\ UNCHANGED document
    /\ walk' = [walk EXCEPT ![u] = NextCard(u, {})]
    /\ walk' # walk
    /\ UNCHANGED <<tags, links, request, sweep, raced>>

\* A skip is remembered in the walk only.
WalkSkip(u) ==
    /\ walk[u] # None
    /\ \A p \in InUse : ~(request[p].walking /\ request[p].user = u)
    /\ UNCHANGED document
    /\ walk' = [walk EXCEPT ![u] =
           NextCard(u, walk[u].skipped
                         \cup (IF walk[u].doc \in Present THEN {walk[u].doc} ELSE {}))]
    /\ UNCHANGED <<tags, links, request, sweep, raced>>

\* The bot's "done without tags" leaves the document as it is
\* (complete_document does nothing): it stays in the inbox and comes again.
WalkNoTag(u) ==
    /\ walk[u] # None
    /\ \A p \in InUse : ~(request[p].walking /\ request[p].user = u)
    /\ UNCHANGED document
    /\ walk' = [walk EXCEPT ![u] = NextCard(u, walk[u].skipped)]
    /\ UNCHANGED <<tags, links, request, sweep, raced>>

\* The card is closed; the bot's "done" button clears its state.
WalkStop(u) ==
    /\ walk[u] # None
    /\ walk' = [walk EXCEPT ![u] = None]
    /\ UNCHANGED <<document, tags, links, request, sweep, raced>>

-----------------------------------------------------------------------------
Progress(r) == ReadRows(r) \/ UnknownIds(r) \/ Flush(r) \/ Commit(r) \/ RollBack(r)

Start(r, u) ==
    \/ \E d \in Docs, want \in SUBSET Tags :
           \/ ApiSetTags(r, u, d, want) \/ WebDocumentTags(r, u, d, want)
           \/ BotSetTags(r, u, d, want)
    \/ \E want \in SUBSET Tags : WalkDone(r, u, want)
    \/ \E ds \in SUBSET Docs, want \in SUBSET Tags : BulkTags(r, u, ds, want)
    \/ \E source, target \in Tags : MergeTags(r, u, source, target)

Next ==
    \/ \E d \in Docs : Upload(d) \/ Trash(d) \/ Restore(d) \/ Purge(d)
    \/ \E r \in Requests, u \in Users : Start(r, u)
    \/ \E r \in Requests : Progress(r)
    \/ SweepSelect \/ SweepDelete
    \/ \E u \in Users : WalkStart(u) \/ WalkSkip(u) \/ WalkNoTag(u) \/ WalkStop(u)

Spec == Init /\ [][Next]_vars

-----------------------------------------------------------------------------
TypeOK ==
    /\ document \in [Docs -> Document]
    /\ tags \subseteq Tags
    /\ links \subseteq Present \X tags
    /\ request \in [Requests -> Request \cup {None}]
    /\ sweep \in (SUBSET Tags) \cup {None}
    /\ walk \in [Users -> Walk \cup {None}]
    /\ raced \subseteq Docs

\* "A document is in the inbox exactly while it carries no tags", as long as the
\* last change of its tags was decided on the rows it committed over.  An edit
\* that runs alone, or a bulk tagging that adds something, mends what a race
\* broke.
InboxUnlessRaced ==
    \A d \in Present \ raced : document[d].status = "inbox" <=> Linked(d) = {}

\* A merge loses no tag: each document it takes the source tag from carries the
\* target when it commits, also where both were there before, unless another
\* request took off in between the target it had seen.
MergeLeavesTarget ==
    [][\A r \in Requests :
          request[r] # None /\ request[r].op = "merge" /\ Commit(r) =>
              \A d \in Docs : Linked(d)' # Linked(d) =>
                  request[r].into \in Linked(d)' \/ d \in raced']_vars

\* A card answered with tags gives way to another one: the walk does not stop
\* at a document its user has just tagged.
AnsweredCardGivesWay ==
    [][\A r \in Requests :
          request[r] # None /\ request[r].walking /\ request[r].want # {} /\ Commit(r) =>
              LET card == walk'[request[r].user]
              IN  card # None => card.doc \notin request[r].docs \ raced']_vars
=============================================================================
