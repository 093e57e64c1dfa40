------------------------------- MODULE Search -------------------------------
(* The document search of services/search.py: what a filter selects, how the *)
(* four front ends build one, and the dictionary a filter is saved as.       *)
(* A document is a record of the columns the search reads.  A tag stands for *)
(* its slug, a word for anything the full text or the title can be asked     *)
(* for; a type token of the web form is an extension, "image" or "text".     *)
EXTENDS Integers, FiniteSets, SequencesExt

CONSTANTS Domains, Images, Texts, None

Status == {"inbox", "tagged"}

(* A date range without bounds, and the filter that selects everything. *)
Always == [from |-> None, to |-> None]

SearchFilters ==
    [q |-> None, status |-> None, tags_all |-> {}, tags_any |-> {}, tags_none |-> {},
     ext |-> None, mime |-> None, types |-> {}, size_min |-> None, size_max |-> None,
     doc_date |-> Always, uploaded |-> Always, indexed |-> Always, ocr |-> Always,
     uploaded_by |-> None, has_index |-> None, has_ocr |-> None, text_source |-> None,
     include_trash |-> FALSE, only_trash |-> FALSE, domain_ids |-> {},
     sort |-> "uploaded_at", sort_dir |-> "desc", page |-> 1, page_size |-> 50]

-----------------------------------------------------------------------------
(* Saving a filter. *)

Numbers == {"size_min", "size_max"}
Flags == {"has_index", "has_ocr", "include_trash"}
Lists == {"tags_all", "tags_any", "tags_none", "types", "domain_ids"}
Dates == {"doc_date", "uploaded", "indexed", "ocr"}

(* What counts as "not set" in a value of the field k: the tuple             *)
(* (None, "", False) contains 0 as well, because 0 == False.                 *)
Unset(k, v) == CASE k \in Numbers -> v \in {None, 0}
                 [] k \in Flags -> v # TRUE
                 [] k \in Lists -> v = {}
                 [] k \in Dates -> v = Always
                 [] OTHER -> v = None

(* A fault: the excluded tags are not saved. *)
FaultForgetsExcluded(f) ==
    [k \in {k \in DOMAIN f \ {"only_trash", "page", "page_size", "tags_none"} :
               ~Unset(k, f[k])} |-> f[k]]

(* only_trash, page and page_size are never saved. *)
ToDict(f) ==
    [k \in {k \in DOMAIN f \ {"only_trash", "page", "page_size"} : ~Unset(k, f[k])} |-> f[k]]

FromDict(d) ==
    LET default == SearchFilters
    IN  [k \in DOMAIN default |-> IF k \in DOMAIN d THEN d[k] ELSE default[k]]

(* The hash, as what it is taken over: the dictionary without the sort. *)
CanonicalHash(f) == [k \in DOMAIN ToDict(f) \ {"sort", "sort_dir"} |-> f[k]]

-----------------------------------------------------------------------------
(* What a filter selects. *)

Within(at, range) ==
    /\ range.from # None => at # None /\ at >= range.from
    /\ range.to # None => at # None /\ at <= range.to

HasType(d, types) ==
    \/ d.ext \in types
    \/ "image" \in types /\ d.ext \in Images
    \/ "text" \in types /\ d.ext \in Texts

Answers(has, at) == (has = TRUE => at # None) /\ (has = FALSE => at = None)

Selects(f, d) ==
    /\ IF f.only_trash THEN d.trashed ELSE d.trashed => f.include_trash
    /\ f.status # None => d.status = f.status
    /\ IF f.types # {} THEN HasType(d, f.types) ELSE f.ext # None => d.ext = f.ext
    /\ f.mime # None => d.mime = f.mime
    /\ f.size_min # None => d.size >= f.size_min
    /\ f.size_max # None => d.size <= f.size_max
    /\ Within(d.doc_date, f.doc_date) /\ Within(d.uploaded_at, f.uploaded)
    /\ Within(d.indexed_at, f.indexed) /\ Within(d.ocr_at, f.ocr)
    /\ f.uploaded_by # None => d.uploaded_by = f.uploaded_by
    /\ Answers(f.has_index, d.indexed_at) /\ Answers(f.has_ocr, d.ocr_at)
    /\ f.text_source # None => d.text_source = f.text_source
    /\ f.tags_all \subseteq d.tags
    /\ f.tags_any # {} => f.tags_any \cap d.tags # {}
    /\ f.tags_none \cap d.tags = {}
    /\ f.q # None => f.q \in d.words

Selected(docs, scope, f) == {i \in DOMAIN docs : docs[i].domain \in scope /\ Selects(f, docs[i])}

(* The columns a search can be sorted by; a document without the value comes *)
(* last in both directions (NULLS LAST).  Title, status and relevance give   *)
(* orders of their own, which no property looks at: the latest stands for    *)
(* them.                                                                     *)
SortColumns == {"doc_date", "size", "indexed_at", "ocr_at", "uploaded_at"}

(* What the search relies on of a row.                                       *)
IsRow(d) ==
    /\ SortColumns \cup {"domain", "trashed"} \subseteq DOMAIN d
    /\ \A column \in SortColumns : d[column] \in Nat \cup {None}

SortKey(sort, d) == IF sort \in SortColumns THEN d[sort] ELSE d.uploaded_at

Before(sort, dir, d, e) ==
    LET k == SortKey(sort, d)  l == SortKey(sort, e)
    IN  k # None /\ (l = None \/ IF dir = "asc" THEN k < l ELSE k > l)

(* Rows in order, those that sort alike in an arbitrary one. *)
InOrder(docs, found, sort, dir) ==
    CHOOSE s \in [1..Cardinality(found) -> found] :
        /\ IsInjective(s)
        /\ \A m, n \in DOMAIN s : m < n => ~Before(sort, dir, docs[s[n]], docs[s[m]])

(* search_documents: the rows of one page of the listing, and the total.     *)
Listing(docs, scope, f) == InOrder(docs, Selected(docs, scope, f), f.sort, f.sort_dir)

SearchDocuments(docs, scope, f) ==
    LET all == Listing(docs, scope, f)
        first == (f.page - 1) * f.page_size + 1
        last == IF first + f.page_size - 1 < Len(all) THEN first + f.page_size - 1
                                                      ELSE Len(all)
    IN  [rows |-> SubSeq(all, first, last), total |-> Len(all)]

-----------------------------------------------------------------------------
(* The front ends. *)

(* A flag asked for in words; the bot knows more of them, the Russian ones   *)
(* (da, net) among them.                                                     *)
Tri(v, yes, no) == CASE v \in yes -> TRUE [] v \in no -> FALSE [] OTHER -> None
WebTri(v) == Tri(v, {"yes", "true", "1"}, {"no", "false", "0"})
BotTri(v) == Tri(v, {"yes", "y", "da", "1", "true", "+"}, {"no", "n", "net", "0", "false", "-"})

StatusOf(v) == IF v \in Status THEN v ELSE None

(* A tag typed into the form is wanted, or with a leading dash unwanted; a   *)
(* dash alone is neither.                                                    *)
TagTokens(tags) ==
    [all |-> {t.name : t \in {t \in tags : ~t.dash /\ t.name # ""}},
     none |-> {t.name : t \in {t \in tags : t.dash /\ t.name # ""}}]

(* Toggles that repeat, as parameters or in a list, count once.              *)
TypeList(params) == (UNION {ToSet(v) : v \in ToSet(params)}) \ {""}

(* The narrowing part of a /search form p. *)
FiltersFromParams(p) ==
    LET tags == TagTokens(p.tags)
    IN  [SearchFilters EXCEPT !.q = p.q, !.tags_all = tags.all, !.tags_none = tags.none,
                              !.types = TypeList(p.types), !.status = StatusOf(p.status),
                              !.has_ocr = WebTri(p.has_ocr), !.has_index = WebTri(p.has_index)]

(* The domain picked in the form, if the user is a member of it. *)
Picked(p, member) == {p.domain_id} \cap member
Scope(p, member) == IF Picked(p, member) # {} THEN Picked(p, member) ELSE member

(* What the page shows: the form, the tab it is on, and the chosen order. *)
PageFilter(p) ==
    LET f == [FiltersFromParams(p) EXCEPT
                 !.sort = IF p.sort \in {"uploaded_at", "doc_date", "title", "size"}
                          THEN p.sort ELSE "uploaded_at",
                 !.sort_dir = IF p.dir = "asc" THEN "asc" ELSE "desc"]
    IN  CASE p.preset = "inbox" -> [f EXCEPT !.status = "inbox"]
          [] p.preset = "trash" -> [f EXCEPT !.only_trash = TRUE, !.status = None]
          [] OTHER -> f

(* What "save the filter to a set" stores: the form and the picked domain,   *)
(* not the tab.                                                              *)
SavedFilter(p, member) == [FiltersFromParams(p) EXCEPT !.domain_ids = Picked(p, member)]

(* The query parameters of the API: no type toggles, no dates of indexing    *)
(* and OCR; the search over all domains does not see the trash either.       *)
DomainParams ==
    {"q", "status", "tags_all", "tags_any", "tags_none", "ext", "mime", "size_min", "size_max",
     "doc_date", "uploaded", "uploaded_by", "has_index", "has_ocr", "text_source",
     "include_trash", "sort", "page", "page_size"}

Asked(a, params) ==
    LET default == SearchFilters
    IN  [k \in DOMAIN default |-> IF k \in DOMAIN a \cap params THEN a[k] ELSE default[k]]
DomainFilter(a) == Asked(a, DomainParams)
CrossDomainFilter(a) == Asked(a, DomainParams \ {"include_trash"})

(* The domains an API search looks into; none of them means 404, where the   *)
(* page would fall back to all.                                              *)
CallerDomains(id, member) == IF id = None THEN member ELSE {id} \cap member

(* A /find line: its tokens, each of a kind.  Tags and words add up, of the  *)
(* others the last one counts, be it without meaning; what does not parse as *)
(* a status or a year is a word.  Dates are counted in months.               *)
IsWord(t) == \/ t.kind = "word"
             \/ t.kind = "status" /\ t.value \notin Status
             \/ t.kind = "year" /\ t.value \notin 1900..2100

LastOf(line, kind) ==
    LET meant == SelectSeq(line, LAMBDA t : t.kind = kind /\ ~IsWord(t))
    IN  IF meant = <<>> THEN None ELSE Last(meant).value

ParseQuery(line) ==
    [text |-> LET words == SelectSeq(line, IsWord) IN [n \in DOMAIN words |-> words[n].value],
     tags |-> {t.value : t \in {t \in ToSet(line) : t.kind = "tag"}},
     ext |-> LastOf(line, "type"), status |-> LastOf(line, "status"),
     year |-> LastOf(line, "year"), page |-> 0,
     has_ocr |-> BotTri(LastOf(line, "ocr")), has_index |-> BotTri(LastOf(line, "index"))]

WithPage(pq, page) == [pq EXCEPT !.page = IF page > 0 THEN page ELSE 0]

ToFilters(pq, page_size) ==
    [SearchFilters EXCEPT
        !.q = IF pq.text = <<>> THEN None ELSE pq.text, !.tags_all = pq.tags, !.ext = pq.ext,
        !.has_ocr = pq.has_ocr, !.has_index = pq.has_index, !.status = pq.status,
        !.page = pq.page + 1, !.page_size = page_size,
        !.doc_date = IF pq.year = None THEN Always
                     ELSE [from |-> 12 * pq.year, to |-> 12 * pq.year + 11]]
=============================================================================
