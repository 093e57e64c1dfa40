-------------------------------- MODULE Chat --------------------------------
(* One linked user's conversation with the bot: /find and its pager, the     *)
(* current domain, and files sent to it (bot/handlers/search.py, upload.py,  *)
(* domains.py and bot/state.py), while others add and trash documents and    *)
(* the user's memberships change.                                            *)
(*                                                                           *)
(* The bot handles updates concurrently, each in a transaction that commits  *)
(* after the handler is done (DbSessionMiddleware): the answer is on the     *)
(* screen before what it rests on is in the database.  A button of the pager *)
(* carries a page number only; the search is the user's last one, as stored. *)
EXTENDS Search

CONSTANTS
    Shelf,      \* [document -> its row] at the start
    Sent,       \* [document -> its row] of what the user may send, but for the domain
    Fading,     \* bound: the documents that are trashed meanwhile
    Leaving,    \* bound: the domains whose membership changes meanwhile
    Questions,  \* the /find lines, each with the API parameters of the same meaning
    PageSize,   \* settings.bot_search_page_size
    Requests    \* updates that may be in flight

(* What the code lets one assume of the constants: rows that sort alike come *)
(* in any order, another on each page, but the clock tells uploads apart.    *)
ChatAssumption ==
    /\ PageSize \in Nat \ {0}
    /\ None \notin Nat
    /\ \A c \in {None} \cup Domains, l \in {None} \cup {x.line : x \in Questions} :
          None # [current |-> c, last |-> l]
    /\ DOMAIN Shelf \cap DOMAIN Sent = {} /\ IsFiniteSet(DOMAIN Shelf \cup DOMAIN Sent)
    /\ \A i \in DOMAIN Shelf : IsRow(Shelf[i]) /\ Shelf[i].domain \in Domains
    /\ \A i \in DOMAIN Sent : IsRow(Sent[i])
    /\ LET rows == Range(Shelf) \cup Range(Sent)
       IN  Cardinality({d.uploaded_at : d \in rows}) = Cardinality(DOMAIN Shelf \cup DOMAIN Sent)
    /\ Fading \subseteq DOMAIN Shelf /\ Leaving \subseteq Domains
    /\ \A x \in Questions :
          LET f == ToFilters(ParseQuery(x.line), PageSize)
              g == CrossDomainFilter(x.params)
          IN  x.line # None /\ \A k \in DOMAIN f \ {"page", "page_size"} : f[k] = g[k]

VARIABLES
    docs,     \* the document table
    member,   \* the domains the user is a member of
    state,    \* bot_user_state: the user's row, None before there is one
    buttons,  \* the pages that buttons on the screen lead to
    req,      \* the updates: what each has read
    walk      \* history: the last /find answered, what of it was shown page by
              \* page, and whether it was answered over another that came after
              \* what it read, or a page turned before the answer's commit

vars == <<docs, member, state, buttons, req, walk>>

Idle == [op |-> "none"]
Columns == {"current", "last"}
NoWalk == [line |-> None, shown |-> <<>>, hasty |-> FALSE]

-----------------------------------------------------------------------------
(* bot_user_state. *)

\* What is there of a column: nothing without a row.
Stored(column) == IF state = None THEN None ELSE state[column]

(* _upsert reads the row; a value it has already is not written ...          *)
Begin(r, column, value) ==
    req' = [req EXCEPT ![r] = [op |-> "read", found |-> state # None,
                               set |-> [c \in {column} |-> value],
                               writes |-> Stored(column) # value]]

(* ... and inserts it if there was none, or updates it: either waits for a   *)
(* flush of another update in flight, and an insert fails if it was the      *)
(* first.  What writes nothing neither waits nor has anything to commit.     *)
Searches(x) == "last" \in DOMAIN x.set
CanFlush(r) ==
    /\ req[r].op = "read"
    /\ req[r].writes => \A x \in Requests : req[x].op # "flushed"
Late(r) == ~req[r].found /\ state # None

Flush(r) ==
    req' = [req EXCEPT ![r] = IF @.writes THEN [@ EXCEPT !.op = "flushed"] ELSE Idle]

FlushFails(r) ==
    /\ CanFlush(r) /\ Late(r)
    /\ req' = [req EXCEPT ![r] = Idle]
    /\ UNCHANGED <<docs, member, state, buttons, walk>>

\* A fault: the first column of a new row is what is kept of it.
FaultInsertOnly(set) ==
    [c \in Columns |-> IF state = None /\ c \in DOMAIN set THEN set[c] ELSE Stored(c)]

Upserted(set) == [c \in Columns |-> IF c \in DOMAIN set THEN set[c] ELSE Stored(c)]

Commit(r) ==
    /\ req[r].op = "flushed"
    /\ state' = Upserted(req[r].set)
    /\ req' = [req EXCEPT ![r] = Idle]
    /\ UNCHANGED <<docs, member, buttons, walk>>

\* The bot dies, or the commit fails: the answer stays on the screen.
RollBack(r) ==
    /\ req[r].op = "flushed"
    /\ req' = [req EXCEPT ![r] = Idle]
    /\ walk' = IF Searches(req[r]) THEN NoWalk ELSE walk
    /\ UNCHANGED <<docs, member, state, buttons>>

-----------------------------------------------------------------------------
(* /find and its pages. *)

Found(line, page) ==
    SearchDocuments(docs, member, ToFilters(WithPage(ParseQuery(line), page), PageSize))

Pages(total) == (total + PageSize - 1) \div PageSize

\* pager_kb: back unless on the first page, on unless on the last.
Pager(page, total) ==
    {p \in {page - 1, page + 1} : p \in 0..(Pages(total) - 1)}

Find(r, line) ==
    /\ req[r] = Idle
    /\ line # <<>>
    /\ Begin(r, "last", line)
    /\ UNCHANGED <<docs, member, state, buttons, walk>>

\* /find alone repeats the last search, if there is one.
FindAgain(r) == Stored("last") # None /\ Find(r, Stored("last"))

(* Searches of others that are written, committed or not, over the one that  *)
(* r found stored.                                                           *)
Superseded(r) ==
    /\ ~req[r].writes
    /\ \/ Stored("last") # req[r].set["last"]
       \/ \E x \in Requests : req[x].op = "flushed" /\ Searches(req[x])

Answer(r) ==
    /\ CanFlush(r) /\ ~Late(r) /\ Searches(req[r])
    /\ Flush(r)
    /\ LET found == Found(req[r].set["last"], 0)
       IN  /\ buttons' = buttons \cup Pager(0, found.total)
           /\ walk' = [line |-> req[r].set["last"], shown |-> found.rows, hasty |-> Superseded(r)]
    /\ UNCHANGED <<docs, member, state>>

(* A page of the stored search, whichever message the button is under: of    *)
(* everything, if none is stored.                                            *)
Paginate(page) ==
    /\ page \in buttons
    /\ LET found == Found(IF Stored("last") = None THEN <<>> ELSE Stored("last"), page)
           next == page * PageSize = Len(walk.shown)
       IN  /\ buttons' = buttons \cup Pager(page, found.total)
           /\ walk' = IF walk.line = None \/ ~next THEN walk
                      ELSE [walk EXCEPT !.shown = @ \o found.rows,
                                        !.hasty = @ \/ \E r \in Requests :
                                            req[r].op = "flushed" /\ Searches(req[r])]
    /\ UNCHANGED <<docs, member, state, req>>

-----------------------------------------------------------------------------
(* The current domain and files. *)

SetCurrent(r, m) ==
    /\ req[r] = Idle /\ m \in member
    /\ Begin(r, "current", m)
    /\ UNCHANGED <<docs, member, state, buttons, walk>>

CurrentSet(r) ==
    /\ CanFlush(r) /\ ~Late(r) /\ ~Searches(req[r])
    /\ Flush(r)
    /\ UNCHANGED <<docs, member, state, buttons, walk>>

\* Where a file goes: to the current domain as long as the user is a member
\* of it, else to the only domain there is.
CurrentDomain ==
    IF Stored("current") \in member THEN Stored("current")
    ELSE IF Cardinality(member) = 1 THEN CHOOSE m \in member : TRUE ELSE None

\* on_file, for a file that is let in: the row becomes visible at the commit.
OnFile(r, i) ==
    /\ req[r] = Idle /\ CurrentDomain # None
    /\ i \in DOMAIN Sent \ DOMAIN docs /\ \A x \in Requests : req[x].op = "file" => req[x].doc # i
    /\ req' = [req EXCEPT ![r] = [op |-> "file", doc |-> i, domain |-> CurrentDomain]]
    /\ UNCHANGED <<docs, member, state, buttons, walk>>

Ingested(r) ==
    /\ req[r].op = "file"
    /\ docs' = [i \in DOMAIN docs \cup {req[r].doc} |->
                   IF i = req[r].doc THEN [Sent[i] EXCEPT !.domain = req[r].domain] ELSE docs[i]]
    /\ req' = [req EXCEPT ![r] = Idle]
    /\ walk' = NoWalk
    /\ UNCHANGED <<member, state, buttons>>

-----------------------------------------------------------------------------
(* The environment: a document is trashed, a membership ends or begins.      *)
Trash(i) ==
    /\ ~docs[i].trashed
    /\ docs' = [docs EXCEPT ![i].trashed = TRUE]
    /\ walk' = NoWalk
    /\ UNCHANGED <<member, state, buttons, req>>

Membership(m) ==
    /\ member' = IF m \in member THEN member \ {m} ELSE member \cup {m}
    /\ walk' = NoWalk
    /\ UNCHANGED <<docs, state, buttons, req>>

Init ==
    /\ docs = Shelf
    /\ member = Domains
    /\ state = None
    /\ buttons = {}
    /\ req = [r \in Requests |-> Idle]
    /\ walk = NoWalk

Next ==
    \/ \E r \in Requests :
          \/ \E x \in Questions : Find(r, x.line)
          \/ \E m \in Domains : SetCurrent(r, m)
          \/ \E i \in DOMAIN Sent : OnFile(r, i)
          \/ FindAgain(r) \/ Answer(r) \/ CurrentSet(r) \/ FlushFails(r)
          \/ Commit(r) \/ RollBack(r) \/ Ingested(r)
    \/ \E page \in buttons : Paginate(page)
    \/ \E i \in Fading : Trash(i)
    \/ \E m \in Leaving : Membership(m)

Spec == Init /\ [][Next]_vars

-----------------------------------------------------------------------------
TypeOK ==
    /\ DOMAIN docs \subseteq DOMAIN Shelf \cup DOMAIN Sent
    /\ \A i \in DOMAIN docs : docs[i].domain \in Domains
    /\ member \subseteq Domains
    /\ state # None => state.current \in Domains \cup {None} /\ DOMAIN state = Columns
    /\ buttons \subseteq 0..Cardinality(DOMAIN Shelf \cup DOMAIN Sent)
    /\ \A r \in Requests : req[r].op \in {"none", "read", "flushed", "file"}

(* Who turns the pages of a /find one by one sees what GET /documents lists  *)
(* for the same question, in its order and nothing twice - unless documents  *)
(* or memberships changed on the way (there is no walk then), a page was     *)
(* turned before the search was committed, or a repeated /find, which writes *)
(* nothing, was answered after another had been written over what it read.   *)
WalkShowsAllUnlessHasty ==
    walk.line # None /\ ~walk.hasty =>
        \E x \in Questions :
            /\ x.line = walk.line
            /\ LET all == Listing(docs, CallerDomains(None, member), CrossDomainFilter(x.params))
                   n == Len(walk.shown)
               IN  /\ walk.shown = SubSeq(all, 1, n)
                   /\ n < Len(all) => Pages(n) \in buttons
=============================================================================
