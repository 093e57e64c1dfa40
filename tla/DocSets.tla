------------------------------- MODULE DocSets -------------------------------
(* A document set (services/docsets.py): saved filters and pinned documents, *)
(* resolved against what its owner may download now.  One set of one owner,  *)
(* edited by several requests at a time from the web, the API and the bot,   *)
(* while documents come and go and the owner's roles change.                 *)
(*                                                                           *)
(* A request is a transaction at READ COMMITTED: what it looks up is read in *)
(* one action, its rows become visible at the commit.                        *)
EXTENDS Search

CONSTANTS
    Library,     \* [document -> its row] at the start
    Forms,       \* the /search forms a filter is saved from
    Posted,      \* the filters POSTed to the API as they are
    Requests,    \* requests that may be in flight
    Selections,  \* the sets of documents ticked together
    Moving,      \* bound: the documents trashed, purged, published meanwhile
    Changing,    \* bound: the domains he leaves, joins or changes his role in
    MaxSetDocs,  \* settings.set_max_docs
    MaxRows,     \* bound: filter rows given, over all sets
    MaxPosition  \* bound: the positions of items

(* What the code lets one assume of the constants.                           *)
DocSetsAssumption ==
    /\ MaxSetDocs \in Nat \ {0} /\ MaxRows \in Nat /\ MaxPosition \in Nat
    /\ Changing \subseteq Domains /\ None \notin Domains \cup Nat
    /\ \A p \in Forms : IsFiniteSet(TypeList(p.types))
    /\ IsFiniteSet(DOMAIN Library) /\ \A i \in DOMAIN Library : IsRow(Library[i])

VARIABLES
    docs,      \* the document table
    role,      \* the owner's role, in each domain he is a member of
    live,      \* the set exists
    filters,   \* document_set_filter: a set of rows
    items,     \* document_set_item: [document -> its position]
    req,       \* the requests: what each has read
    chat       \* the bot's conversation: the document it was asked about
VARIABLES
    overlapped,  \* history: a lookup was overtaken by another insert
    saves        \* history: how many filter rows were ever inserted

vars == <<docs, role, live, filters, items, req, chat, overlapped, saves>>

Docs == DOMAIN Library
Roles == {"viewer", "scanner"}  \* one that may download, one that may not
Idle == [op |-> "none"]

-----------------------------------------------------------------------------
(* Resolving. *)

Download == {"owner", "admin", "editor", "tagger", "viewer"}

(* The domains whose documents the owner may download. *)
DownloadDomains == {m \in DOMAIN role : role[m] \in Download}
Member == DOMAIN role

(* A fault: the page is cut at the limit itself, one short. *)
FaultCapAtLimit == MaxSetDocs

Cap == MaxSetDocs + 1

(* What one stored filter contributes: the first Cap rows in its own order,  *)
(* looked for in its domains or in all, as far as the owner may download.    *)
FilterScope(f) ==
    (IF f.domain_ids # {} THEN f.domain_ids ELSE DownloadDomains) \cap DownloadDomains

FilterPage(d) ==
    LET f == [FromDict(d) EXCEPT !.page = 1, !.page_size = Cap]
    IN  ToSet(SearchDocuments(docs, FilterScope(f), f).rows)

Reachable(i) == docs[i].domain \in DownloadDomains /\ ~docs[i].trashed

Explicit == {i \in DOMAIN items : ~docs[i].trashed}

Full == {i \in Explicit \cup UNION {FilterPage(r.filter) : r \in filters} : Reachable(i)}
Share == {i \in Full : docs[i].public}

(* The order of the result: pinned documents by position, then the newest.   *)
Resolved(view) ==
    SetToSortSeq(view, LAMBDA i, j :
        IF i \in Explicit THEN j \in Explicit => items[i] < items[j]
                          ELSE j \notin Explicit /\ docs[i].uploaded_at > docs[j].uploaded_at)

(* The set's page links each filter to the search it stands for: what the    *)
(* form knows of it, and the domain if it has one.  Flags are told if "yes". *)
FilterLink(d) ==
    LET f == FromDict(d)
        types == SetToSeq(f.types \cup ({f.ext} \ {None}))
        Told(flag) == IF flag = TRUE THEN "yes" ELSE ""
    IN  [q |-> f.q, status |-> f.status,
         tags |-> {[name |-> t, dash |-> FALSE] : t \in f.tags_all}
                  \cup {[name |-> t, dash |-> TRUE] : t \in f.tags_none},
         types |-> [n \in DOMAIN types |-> <<types[n]>>],
         has_ocr |-> Told(f.has_ocr), has_index |-> Told(f.has_index),
         domain_id |-> IF Cardinality(f.domain_ids) = 1
                       THEN CHOOSE m \in f.domain_ids : TRUE ELSE None,
         preset |-> "active", sort |-> "uploaded_at", dir |-> "desc"]

(* The counts on the set's page. *)
FilterCounts(d) ==
    LET found == {i \in FilterPage(d) : ~docs[i].trashed}
    IN  [public |-> Cardinality({i \in found : docs[i].public}), total |-> Cardinality(found)]
SetCounts == [public |-> Cardinality(Share), accessible |-> Cardinality(Full)]

(* The size guard of a build and of the full export. *)
LimitError(view) == Cardinality(view) > MaxSetDocs

-----------------------------------------------------------------------------
(* Filters. *)

(* A fault: what is there already is not looked at. *)
FaultNeverDuplicate(f) == FALSE

Duplicate(f) == \E r \in filters : r.hash = CanonicalHash(f)
NextPosition(S) == IF S = {} THEN 1 ELSE CHOOSE n \in {p + 1 : p \in S} : \A p \in S : n > p
Touch(kind) == overlapped' = overlapped \cup {r \in Requests : req[r].op = kind}

(* A row of the table; form is what the filter was saved from.               *)
FilterRow(position, f, form) ==
    [position |-> position, filter |-> ToDict(f), hash |-> CanonicalHash(f), form |-> form]
Inserted(x, raced) ==
    [position |-> x.position, filter |-> x.filter, hash |-> x.hash, form |-> x.form,
     raced |-> raced, id |-> saves]

(* add_filter up to its flush.                                               *)
AddFilter(r, f, form) ==
    /\ live /\ req[r] = Idle
    /\ saves + Cardinality({x \in Requests : req[x].op = "filter"}) < MaxRows
    /\ ~Duplicate(f)
    /\ req' = [req EXCEPT ![r] =
                 [op |-> "filter",
                  row |-> FilterRow(NextPosition({x.position : x \in filters}), f, form)]]
    /\ overlapped' = overlapped \ {r}
    /\ UNCHANGED <<docs, role, live, filters, items, chat, saves>>

(* Saving the /search form, refused on the trash tab; and the API's filter.  *)
WebSaveFilter(r, p) == p.preset # "trash" /\ AddFilter(r, SavedFilter(p, Member), p)
ApiAddFilter(r, d) == AddFilter(r, FromDict(d), None)

(* The same into a set made for it: nothing to look up, one transaction.     *)
WebNewSetOfFilter(p) ==
    /\ ~live /\ p.preset # "trash" /\ saves < MaxRows
    /\ live' = TRUE /\ saves' = saves + 1
    /\ filters' = {Inserted(FilterRow(1, SavedFilter(p, Member), p), FALSE)}
    /\ UNCHANGED <<docs, role, items, req, chat, overlapped>>

CommitFilter(r) ==
    /\ req[r].op = "filter"
    /\ filters' = filters \cup {Inserted(req[r].row, r \in overlapped)}
    /\ saves' = saves + 1
    /\ req' = [req EXCEPT ![r] = Idle]
    /\ Touch("filter")
    /\ UNCHANGED <<docs, role, live, items, chat>>

RemoveFilter(row) ==
    /\ live /\ row \in filters
    /\ filters' = filters \ {row}
    /\ UNCHANGED <<docs, role, live, items, req, chat, overlapped, saves>>

-----------------------------------------------------------------------------
(* Pinned documents. *)

Valid(D) == {i \in D \cap DOMAIN docs : ~docs[i].trashed /\ docs[i].domain \in DownloadDomains}

(* The positions the new ones get, in the order asked for: after the last.   *)
Pinned(D) ==
    LET new == SetToSeq(Valid(D) \ DOMAIN items)
        last == NextPosition({items[i] : i \in DOMAIN items}) - 1
    IN  [i \in ToSet(new) |-> last + CHOOSE k \in DOMAIN new : new[k] = i]

Placeable(D) == \A i \in DOMAIN Pinned(D) : Pinned(D)[i] <= MaxPosition

(* add_items up to its flush; the web's bulk action, the API's endpoint.     *)
AddItems(r, D) ==
    /\ live /\ req[r] = Idle
    /\ DOMAIN Pinned(D) # {} /\ Placeable(D)
    /\ req' = [req EXCEPT ![r] = [op |-> "items", new |-> Pinned(D)]]
    /\ overlapped' = overlapped \ {r}
    /\ UNCHANGED <<docs, role, live, filters, items, chat, saves>>

(* The insert is refused if a row of it exists by now (the primary key) or   *)
(* refers to a purged document; the request rolls back as a whole.           *)
Insertable(new) == DOMAIN new \cap DOMAIN items = {} /\ DOMAIN new \subseteq DOMAIN docs

CommitItems(r) ==
    /\ req[r].op = "items"
    /\ Insertable(req[r].new)
    /\ LET new == req[r].new
       IN  items' = [i \in DOMAIN new \cup DOMAIN items |->
                       IF i \in DOMAIN new THEN new[i] ELSE items[i]]
    /\ req' = [req EXCEPT ![r] = Idle]
    /\ Touch("items")
    /\ UNCHANGED <<docs, role, live, filters, chat, saves>>

(* Also the fate of any request whose set was deleted meanwhile.             *)
RollBack(r) ==
    /\ \/ req[r].op = "orphaned"
       \/ req[r].op = "items" /\ ~Insertable(req[r].new)
    /\ req' = [req EXCEPT ![r] = Idle]
    /\ UNCHANGED <<docs, role, live, filters, items, chat, overlapped, saves>>

RemoveItem(i) ==
    /\ live /\ i \in DOMAIN items
    /\ items' = [j \in DOMAIN items \ {i} |-> items[j]]
    /\ UNCHANGED <<docs, role, live, filters, req, chat, overlapped, saves>>

(* create_set with documents: the set and its items in one transaction.      *)
CreateSet(D) ==
    /\ ~live /\ Placeable(D)
    /\ live' = TRUE
    /\ items' = Pinned(D)
    /\ UNCHANGED <<docs, role, filters, req, chat, overlapped, saves>>

DeleteSet ==
    /\ live
    /\ live' = FALSE /\ filters' = {} /\ items' = <<>>
    /\ req' = [r \in Requests |-> IF req[r] = Idle THEN Idle ELSE [op |-> "orphaned"]]
    /\ UNCHANGED <<docs, role, chat, overlapped, saves>>

-----------------------------------------------------------------------------
(* The bot keeps the document it was asked about in the conversation: the    *)
(* buttons of the picker carry only the set.                                 *)

BotChooseSet(i) ==
    /\ i \in DOMAIN docs /\ docs[i].domain \in DownloadDomains
    /\ chat' = i
    /\ UNCHANGED <<docs, role, live, filters, items, req, overlapped, saves>>

BotAddToSet(r) ==
    /\ chat # None /\ live /\ req[r] = Idle
    /\ Placeable({chat})
    /\ chat' = None
    /\ req' = [req EXCEPT ![r] = [op |-> "items", new |-> Pinned({chat})]]
    /\ overlapped' = overlapped \ {r}
    /\ UNCHANGED <<docs, role, live, filters, items, saves>>

BotNewSet ==
    /\ chat \in DOMAIN docs /\ docs[chat].domain \in DownloadDomains
    /\ ~live /\ Placeable({chat})
    /\ live' = TRUE /\ items' = Pinned({chat})
    /\ chat' = None
    /\ UNCHANGED <<docs, role, filters, req, overlapped, saves>>

-----------------------------------------------------------------------------
(* The rest of the program: trash, purge, visibility, the inbox, roles.      *)

Toggle(i, col) ==
    /\ i \in DOMAIN docs
    /\ docs' = [docs EXCEPT ![i][col] = ~@]
    /\ UNCHANGED <<role, live, filters, items, req, chat, overlapped, saves>>

(* A fault: the foreign key does not cascade. *)
FaultNoCascade(i) == items

Unpinned(i) == [j \in DOMAIN items \ {i} |-> items[j]]

Purge(i) ==
    /\ i \in DOMAIN docs /\ docs[i].trashed
    /\ docs' = [j \in DOMAIN docs \ {i} |-> docs[j]]
    /\ items' = Unpinned(i)
    /\ UNCHANGED <<role, live, filters, req, chat, overlapped, saves>>

(* He is given another role, or becomes a member.                            *)
SetRole(m, to) ==
    /\ m \in DOMAIN role => role[m] # to
    /\ role' = [n \in DOMAIN role \cup {m} |-> IF n = m THEN to ELSE role[n]]
    /\ UNCHANGED <<docs, live, filters, items, req, chat, overlapped, saves>>

(* He leaves a domain or is removed; what the set stores of it stays.        *)
RemoveMember(m) ==
    /\ m \in DOMAIN role
    /\ role' = [n \in DOMAIN role \ {m} |-> role[n]]
    /\ UNCHANGED <<docs, live, filters, items, req, chat, overlapped, saves>>

-----------------------------------------------------------------------------
Init ==
    /\ docs = Library
    /\ role = [m \in Domains |-> "viewer"]
    /\ live = TRUE /\ filters = {} /\ items = <<>>
    /\ req = [r \in Requests |-> Idle]
    /\ chat = None
    /\ overlapped = {} /\ saves = 0

Next ==
    \/ \E r \in Requests :
          \/ \E p \in Forms : WebSaveFilter(r, p)
          \/ \E d \in Posted : ApiAddFilter(r, d)
          \/ \E D \in Selections : AddItems(r, D)
          \/ CommitFilter(r) \/ CommitItems(r) \/ RollBack(r) \/ BotAddToSet(r)
    \/ \E p \in Forms : WebNewSetOfFilter(p)
    \/ \E row \in filters : RemoveFilter(row)
    \/ \E D \in Selections \cup {{}} : CreateSet(D)
    \/ DeleteSet \/ BotNewSet
    \/ \E i \in UNION Selections : RemoveItem(i) \/ BotChooseSet(i)
    \/ \E i \in Moving : Purge(i) \/ Toggle(i, "trashed") \/ Toggle(i, "public")
    \/ \E m \in Changing : RemoveMember(m) \/ \E to \in Roles : SetRole(m, to)

Spec == Init /\ [][Next]_vars

-----------------------------------------------------------------------------
TypeOK ==
    /\ DOMAIN docs \subseteq Docs /\ DOMAIN items \subseteq DOMAIN docs
    /\ DOMAIN role \subseteq Domains /\ \A m \in DOMAIN role : role[m] \in Roles
    /\ \A i \in DOMAIN items : items[i] \in 1..MaxPosition
    /\ \A x \in filters : x.position \in 1..MaxRows /\ DOMAIN x.filter \subseteq DOMAIN SearchFilters
    /\ \A r \in Requests : req[r].op \in {"none", "filter", "items", "orphaned"}
    /\ chat \in Docs \cup {None}
    /\ overlapped \subseteq Requests /\ saves \in 0..MaxRows

(* The set holds no filter twice, and its filters have an order: add_filter  *)
(* looks both up before it inserts, so only a request whose lookup another   *)
(* insert overtook can break either.                                         *)
FiltersDistinctUnlessRaced ==
    \A x, y \in filters :
        x # y /\ (x.hash = y.hash \/ x.position = y.position) => x.raced \/ y.raced

(* A search saved to the set goes on finding there what the /search page     *)
(* finds with the same form, among the documents the owner may download: for *)
(* searches of the plain tab that do not ask for a "no" (has_ocr, has_index),*)
(* which the dictionary drops with the tab, and as long as the page picks    *)
(* the domain that was saved.  And the link from the set's page back to the  *)
(* search finds what the filter takes, as long as he is a member of the      *)
(* domain it names: once he is not, the filter takes nothing, and the page   *)
(* looks into all of his domains.                                            *)
Finds(p) == {i \in Selected(docs, Scope(p, Member), PageFilter(p)) :
                docs[i].domain \in DownloadDomains}
SavedSearchFindsTheSame ==
    \A x \in {x \in filters : x.form # None} :
        LET f == FromDict(x.filter)
            taken == Selected(docs, FilterScope(f), f)
        IN  /\ IF f.domain_ids \subseteq Member THEN Finds(FilterLink(x.filter)) = taken
                                               ELSE taken = {}
            /\ /\ x.form.preset = "active" /\ Picked(x.form, Member) = f.domain_ids
               /\ FALSE \notin {WebTri(x.form.has_ocr), WebTri(x.form.has_index)}
               => Finds(x.form) = taken

(* Every document the set should share.                                      *)
Shareable ==
    {i \in DOMAIN docs : Reachable(i) /\ docs[i].public /\
        (i \in DOMAIN items \/
         \E x \in filters : LET f == FromDict(x.filter) IN i \in Selected(docs, FilterScope(f), f))}

(* The size guard refuses an archive rather than cut it: what passes is all  *)
(* the set should share.  That is what set_max_docs + 1 rows per filter are  *)
(* for, and it holds unless a filter matches more than those and some of it  *)
(* is not shared: the rows are cut before the private ones are taken out.    *)
Overflows == \E x \in filters :
    LET f == FromDict(x.filter)
        found == Selected(docs, FilterScope(f), f)
    IN  /\ Cardinality(found) > MaxSetDocs + 1
        /\ \E i \in found : docs[i].trashed \/ ~docs[i].public
ShareWholeUnlessOverflowing == LimitError(Share) \/ Overflows \/ Share = Shareable

(* The documentation's promise without that condition.                       *)
NeverTruncated == LimitError(Share) \/ Share = Shareable
=============================================================================
