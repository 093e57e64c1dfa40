------------------------------ MODULE MCSharing ------------------------------
(* Model checking of what is made of documents for others, in one run: the   *)
(* share links of a set, in the module this one extends, the set itself      *)
(* (DS), exports (EX), and the searches that find documents in the bot (CH). *)
(* They share no state - what one needs of another is an action of its       *)
(* environment there - so a behaviour of this module is a behaviour of one   *)
(* of them, chosen at first.                                                 *)
EXTENDS ShareLinks, TLC

CONSTANTS
    Domains, Images, Texts, Library, Forms, Posted, Selections, Moving, Changing,
    MaxSetDocs, MaxRows, MaxPosition,    \* of DS
    Files, Ids, Picks,                   \* of EX
    Shelf, Sent, Fading, Leaving, Questions, PageSize    \* of CH

VARIABLES part,
          docs, role, set, filters, items, edits, chat, overlapped, saves,
          store, domain, member, artifact, file, job, sweep, leaked,
          table, domains, state, buttons, update, walk

MCDoc(domain_, tags, at, public) ==
    [domain |-> domain_, trashed |-> FALSE, public |-> public, tags |-> tags,
     status |-> IF tags = {} THEN "inbox" ELSE "tagged", ext |-> "pdf", mime |-> "pdf",
     size |-> 0, doc_date |-> None, uploaded_at |-> at, uploaded_by |-> None,
     indexed_at |-> None, ocr_at |-> None, text_source |-> "none", words |-> {}]
MCLibrary == <<MCDoc("m1", {"a"}, 1, TRUE), MCDoc("m1", {}, 2, FALSE),
               MCDoc("m2", {"a", "b"}, 3, TRUE)>>
MCForm == [q |-> None, tags |-> {}, types |-> <<>>, status |-> None,
           has_ocr |-> "", has_index |-> "", domain_id |-> None, preset |-> "active",
           sort |-> "uploaded_at", dir |-> "desc"]
MCForms == {[MCForm EXCEPT !.domain_id = "m2", !.tags = {[name |-> "b", dash |-> TRUE]}],
            [MCForm EXCEPT !.preset = "inbox"]}

MCPosted == {[sort |-> "size"]}
MCSelections == {{1}, {2}}
MCLimits == [gallery |-> 1, one_time |-> 1]
MCPicks == {Files}
MCShelf == <<[MCDoc("m1", {"a"}, 1, TRUE) EXCEPT !.doc_date = 12 * 2025, !.words = {<<"x">>}],
             [MCDoc("m2", {"a", "b"}, 2, TRUE) EXCEPT !.doc_date = 12 * 2024, !.words = {<<"x">>}],
             [MCDoc("m2", {"a"}, 3, FALSE) EXCEPT !.ocr_at = 1, !.doc_date = 12 * 2024 + 11,
                                                  !.words = {<<"x">>}]>>
MCSent == (4 :> MCDoc(None, {}, 4, FALSE))
MCToken(kind, value) == [kind |-> kind, value |-> value]
MCQuestions == {
    [line |-> <<MCToken("tag", "a"), MCToken("ocr", "no"), MCToken("index", "maybe")>>,
     params |-> [tags_all |-> {"a"}, has_ocr |-> FALSE]],
    [line |-> <<MCToken("year", 2025), MCToken("type", "pdf"), MCToken("year", 2024),
                MCToken("status", "x")>>,
     params |-> [doc_date |-> [from |-> 12 * 2024, to |-> 12 * 2024 + 11],
                 ext |-> "pdf", q |-> <<"x">>]]}

DS == INSTANCE DocSets WITH live <- set, req <- edits
EX == INSTANCE Exports WITH Docs <- Files, docs <- store, row <- artifact
CH == INSTANCE Chat WITH docs <- table, member <- domains, req <- update

dsvars == <<docs, role, set, filters, items, edits, chat, overlapped, saves>>
exvars == <<store, domain, member, artifact, file, job, sweep, leaked>>
chvars == <<table, domains, state, buttons, update, walk>>

MCInit == part \in {"set", "links", "exports", "chat"} /\ Init /\ DS!Init /\ EX!Init /\ CH!Init
MCNext ==
    /\ UNCHANGED part
    /\ \/ part = "links" /\ Next /\ UNCHANGED <<dsvars, exvars, chvars>>
       \/ part = "set" /\ DS!Next /\ UNCHANGED <<vars, exvars, chvars>>
       \/ part = "exports" /\ EX!Next /\ UNCHANGED <<vars, dsvars, chvars>>
       \/ part = "chat" /\ CH!Next /\ UNCHANGED <<vars, dsvars, exvars>>
MCSpec == MCInit /\ [][MCNext]_<<part, vars, dsvars, exvars, chvars>>

ASSUME SharingAssumption ==
    DS!DocSetsAssumption /\ EX!PicksAssumption /\ CH!ChatAssumption

Symmetry == Permutations(Requests) \cup Permutations(Links) \cup Permutations(Arts)

(* The variables of every part keep their types.                            *)
SharingTypeOK == TypeOK /\ DS!TypeOK /\ EX!TypeOK /\ CH!TypeOK
(* No filter is in a set twice, but for a lookup that was overtaken.        *)
FiltersDistinctUnlessRaced == DS!FiltersDistinctUnlessRaced
(* A saved search finds what the search page finds, and links back to it,   *)
(* unless its owner has left the domain it was saved for.                   *)
SavedSearchFindsTheSame == part = "set" => DS!SavedSearchFindsTheSame
(* An archive within the limit holds all that the set should share.         *)
ShareWholeUnlessOverflowing == part = "set" => DS!ShareWholeUnlessOverflowing
(* The same as the documentation has it, whatever the filters match.        *)
NeverTruncated == part = "set" => DS!NeverTruncated
(* An export lists its documents, counts what it misses, and lacks the file *)
(* of none but purged ones.                                                 *)
DownloadIsAccountedFor == EX!DownloadIsAccountedFor
(* No export file is without its row, but for the known leaks.              *)
FilesHaveRowsUnlessLeaked == EX!FilesHaveRowsUnlessLeaked
(* Turning the pages of a /find shows every match, once.                    *)
WalkShowsAllUnlessHasty == CH!WalkShowsAllUnlessHasty
=============================================================================
