# docs_classifier: formal models

TLA+ models of the document archive in this repository (`src/` below is the repository
root; unless said otherwise paths are under `app/`), the TLC configurations that check
them, and TLAPS proofs about them.

Contents: 1 the system; 2 what is hard about it; 3 modules and conventions; 4 the
document store; 5 the set archive; 6 the other modules; 7 runs; 8 proofs; 9 what the
checks found; 10 plan; 11 not modelled.

## 1. The system

A web process (FastAPI: REST API and server-rendered pages), a worker process (SAQ jobs
and a nightly cron job) and a Telegram bot process share a PostgreSQL database and a
data directory. Every request, bot update and job runs in one database transaction
(`db.get_session`, the bot middleware, or an explicit session in a job), at PostgreSQL's
default READ COMMITTED. SQLAlchemy sessions are configured with `autoflush=False,
expire_on_commit=False`: a handler reads a row once, decides in Python, and later writes
absolute values computed from what it read.

| Component | State | Operations | Correct when |
|---|---|---|---|
| Document store (`services/documents.py`) | rows of `document`, `document_version` | `ingest_upload`: deduplicate, restore from trash, replace, create | one active document per (domain, content); replacing keeps history |
| Blob store (`storage/`) | files named by SHA-256 | `store_stream`, `delete_blob`, `list_blob_hashes` | whatever a row refers to is on disk; what nothing refers to is removed eventually |
| Trash (`services/trash.py`) | `deleted_at` | `soft_delete`, `restore`, `hard_purge`, `purge_domain_trash` | a purge removes trash only, and only unreferenced blobs |
| Nightly cleanup (`services/cleanup.py`) | none of its own | retention purge, expired exports, expired set archives, orphan tags, orphan blobs | reclaims all garbage, nothing else |
| Sets (`services/docsets.py`) | `document_set`, filters, items | CRUD, `resolve_set` | the share view shows public documents the owner may download |
| Set archive (`services/docsets.py`) | one `artifact` row per set, one zip on disk | `ensure_current_archive`, `build_set_archive` | what is served is what the set resolves to; a build that dies is made up for |
| Share links (`services/docsets.py`, `api/docsets.py`, `gallery.py`) | `download_link` | create within limits, revoke, `public_download` | a one-time link serves one download |
| Exports (`services/export.py`) | `artifact` rows with a snapshot of ids | `create_export`, `build_artifact`, expiry | accounts for what is missing; its file goes with its row |
| Archive ingestion (`services/ingest.py`, `ingest/archive.py`) | `upload_batch`, its items | `process_archive`, limits | a batch ends `done`, `partial` or `failed`; limits hold across nesting |
| Tags and inbox (`services/tags.py`) | `tag`, `document_tag`, `document.status` | set, add, merge, orphan sweep | in the inbox exactly while untagged |
| OCR and index (`ocr/tasks.py`, `services/search.py`) | `ocr_status`, `index_status`, text | request, run, index | status and text describe the current content |
| Jobs (`jobs.py`, `worker.py`) | the SAQ queue | `dispatch` | see the components that enqueue |
| Domains, roles, invites (`services/domains.py`, `rbac.py`) | `domain`, `domain_member`, `domain_invite` | membership changes, `accept_invite` | one owner who stays a member; an invite is used once |
| Telegram linking (`services/tglink.py`) | `tg_link_token`, `user.tg_id` | create and confirm from both ends | a token links one pair |
| Rate limiter (`util/ratelimit.py`) | hit times per key, per process | `check` | at most `limit` accepted hits in any window |
| Backend migration (`storage/migrate.py`) | two object stores | `run` | never deletes the only good copy |
| Bot (`bot/`) | conversation state per chat | upload, inbox walk, search, sets | calls the services above |
| Search (`services/search.py`, `bot/parsing.py`, `web/search.py`) | saved filters | build, save, run a filter | the same question finds the same documents from every front end |
| Accounts (`services/users.py`, `services/api_keys.py`, `api/auth.py`, `web/auth.py`) | users, sessions, API keys | register, confirm, log in, change the password | nobody acts for an unconfirmed account; a password stands until its owner changes it |
| Pages, rendering | none | render | sequential |

How they interact: uploads (REST, web form, bot, archive entries) all end in
`ingest_upload`, which writes a blob outside the transaction and a row inside it. Purges
delete rows inside a transaction and unlink blobs outside it, before it commits. The
cleanup unlinks after its commit. Set archives and exports read rows and blobs and write
zips. Jobs are enqueued by requests, sometimes before the request commits.

## 2. What is hard

The repository's tests run on one in-memory SQLite connection with jobs inline, so no
test has two transactions open at once. The hazards are therefore where two transactions
overlap, where a transaction and the file system disagree, where an answer or a job runs
ahead of a commit, and where a process dies between two steps. `PROJECT.json` lists them
with their lines and the properties that cover them.

## 3. Modules and conventions

| Module | Subject |
|---|---|
| `DocumentStore` | documents, versions, trash, blobs, their garbage collection |
| `SetArchive` | the shared archive of a set as a cache |
| `Tagging` | tags, the inbox and the walk through it |
| `Processing` | text, search vector and OCR of a document |
| `Search` | filters: what they select, how they are built and saved (operators, no state) |
| `DocSets` (on `Search`) | a set's filters and items, and what it resolves to |
| `ShareLinks`, `LinkPromise` | share links of a set; what a link promises, abstractly |
| `Exports` | exports, their files and their expiry |
| `Chat` (on `Search`) | one user's conversation with the bot |
| `Members` | a domain's members, invites, settings |
| `Accounts` | registration, confirmation, login, password |
| `TgLink` | Telegram links and their tokens |
| `Ingest` | archives on their way into a domain, and its quota |
| `Unpacking` | which files come out of an archive, and the limits (operators, no state) |
| `Storage` | blob backends and the migration between them |
| `Incoming` (on `Tagging`, `Unpacking`) | `Tagging`, `Ingest`, `Storage` side by side; archives are unpacked by `Unpacking` |
| `MCDocumentStore`, `MCSetArchive` | model checking of one module each |
| `MCTagging` | model checking of `Incoming` |
| `MCSharing` | `ShareLinks`, `DocSets`, `Exports`, `Chat` in one run |
| `MCAccess` | `Members`, `Accounts`, `TgLink` in one run |
| `DocumentStoreProof`, `SetArchiveProof`, `TaggingProof`, `ProcessingProof`, `ShareLinksProof` | proofs about the module of that name |
| `IncomingProof`, `SharingProof`, `AccessProof` | proofs about the composition `Incoming`, `MCSharing`, `MCAccess` |

Conventions.

* **A transaction at READ COMMITTED** is one action that reads (the committed state) and
  one that commits, with as many in between as another transaction can make a difference
  to. A request's record (`req`, `request`, `hit`, `build`) is what its session
  remembers. Where nothing can come in between, or what comes is checked again by a
  constraint, a handler is one action.
* **The ORM** writes the columns whose value differs from the one loaded, as absolute
  values. An UPDATE of a row that vanished fails, a DELETE of one only warns. Row locks
  make others wait and are modelled where waiting matters.
* **History variables** (`raced`, `torn`, `overtaken`, `stuck`, `leaked`, ...) mark the
  known way a promise is missed; the property says that there is no other way. They are
  set from what happened between a read and its commit, never from the outcome. Each
  module says at its declaration what they mark.
* **Several parts in one run.** `MCSharing`, `MCAccess` and `Incoming` compose modules
  that share no state. A variable `part`, chosen at the start, says which of them moves, so a
  behaviour of the whole is a behaviour of one part, and the cost is the sum and not the
  product of theirs. What one part needs of another is an action of its environment
  (`Purge`, `Membership`, `DeleteDomain` of `Exports`, say), which is more than the
  other part would do.
* **Seeded faults.** Each property has an operator `Fault...` next to the definition it
  stands in for: a plausible bug (a dropped guard, a limit off by one, a reset
  forgotten) under which the property fails.
* Ids are uuid4 and never used again; bounds are constants and named in section 7.

## 4. DocumentStore

One module, because the promise worth checking (a row's content is on disk) relates the
database, the disk and everyone who writes to either.

### State

| Variable | Stands for |
|---|---|
| `domains` | rows of `domain` |
| `doc[d]` | the row of `document` with id `d`: domain, sha256, original_name, version, whether `deleted_at` is set; `None` without a row |
| `versions[d]` | its rows of `document_version`: (version_no, sha256). A set: two identical snapshots are one |
| `blobs` | hashes with a file in the blob directory |
| `req[r]` | an upload in flight: what it carries, how far it is, and the row it loaded. `on_conflict` is drawn in `LookUpName`, the one place that reads it |
| `purge[k]` | a purging transaction: documents still to delete, deleted (not committed), hashes of the current document still to look at, files unlinked |
| `listing` | the sweep's `on_disk` |
| `candidates[c]`, `condemned[c]` | per purge and for the sweep: hashes the SELECT from `document` did not find; hashes the SELECT from `document_version` did not find either |
| `contested`, `torn`, `rescued` | history variables. `contested`: candidate or condemned hashes an upload carried since the first SELECT. `torn`: hashes unlinked while contested, or unlinked by a purge that then rolled back. `rescued[k]`: documents restored after purge `k` had selected them, and before it deleted them |

### Actions

| Action | Code |
|---|---|
| `StoreAndProbe` | `store_and_probe`, `store_stream`: the file is on disk, the transaction starts |
| `IngestAbort` | every rollback: refused type, exceeded quota, probe failure, constraint or stale-row error, crash |
| `LookUpContent` | steps 1 and 2 of `ingest_upload`. Two SELECTs in one action: only this transaction's later writes use what they return, and a row the second would see differently is one that `IndexAllows` checks again |
| `LookUpName` | step 3: 409, replace, or create |
| `CommitRestored`, `CommitReplaced`, `CommitCreated` | the flush and the commit. An upload waits for a row lock of a purge (`Locked`); a row that vanished raises StaleDataError, which is `IngestAbort` |
| `SoftDelete`, `Restore`, `DeleteDomain` | one action each: load, write, commit. `Restore` checks for a twin and the index checks again |
| `PurgeSelect` | the SELECT of `purge_domain_trash`, of the retention purge, or of the bulk purge: any non-empty part of the trash |
| `PurgeRows` | `hard_purge` up to its flush, for one document |
| `PurgeSeekDocuments`, `PurgeSeekVersions`, `PurgeUnlink` | the loop over the document's hashes: the two SELECTs of `_blob_referenced`, then `delete_blob` |
| `PurgeCommit`, `PurgeRollback` | the end of the request or job |
| `SweepList`, `SweepDocuments`, `SweepVersions`, `SweepUnlink`, `SweepAbort` | step 4 of `run_cleanup`, and its death |

What READ COMMITTED means here: an action that stands for a SELECT reads the committed
state; writes become visible in the action that commits. The version number and the
snapshot of `CommitReplaced` come from the row as `LookUpName` loaded it, not from the
row as it is, which is what the ORM does. A column whose new value equals the loaded one
is not part of the UPDATE, which is why `new` in `CommitReplaced` may be the row's
current content.

### Abstractions

* Flush and commit of an upload, a restore or a soft delete are one step. The row locks
  a transaction holds between the two only make others wait.
* Metadata columns, tags, sets and batch items are left out; deleting them is part of
  `PurgeRows` and has no effect on the state kept here.
* An archive's entries share one transaction; here they are separate uploads. What that
  transaction adds (one commit at the end) is in `Ingest`.
* A file appears whole: placing it is atomic here, as it is where the temporary
  directory is on the store's file system. `Storage` has the other case.
* Sizes, quota and the policy on types are in `Ingest`; here they are `IngestAbort`.
* Purgers run independently of the sweep. In `run_cleanup` the retention purge precedes
  the sweep, but web and API purges do not, so nothing is added.
* `remove_derived` (thumbnails, OCR sidecars) follows `delete_blob` and is left out:
  derived files can be rebuilt.
* Ids are never reused (`Remembered`): they are uuid4. The bound on `DocIds` is a bound
  on the documents alive or remembered at the same time.
* `MaxVersion` bounds `document.version`; a replacement at the bound is not taken.

### Properties

* `ActiveUnique`: what the partial unique index and the checks before it are for.
* `HistoryGapless`: every version number below the current one has a snapshot. Not
  obvious with stale rows: a replacement that loaded version 1 and commits after another
  one sets the version back to 2 while later snapshots exist.
* `LostOnlyIfTorn`: if a content that a row or a version refers to is missing, its file
  was unlinked while an upload carrying that content was under way, or by a purge that
  rolled back afterwards. No other sequence of uploads, replacements, deletes, purges,
  sweeps, crashes and domain deletions loses a content. `torn` forgets a hash that is
  stored again.
* `ActiveGoesOnlyIfRescued`: an active document goes only with its domain, or by a purge
  that selected it in the trash before it was restored (`hard_purge` deletes by id and
  does not look at `deleted_at` again). Whatever else a purge holds, deletes, waits for or
  rolls back, it deletes trash only.
* `OrphansReclaimed`: no file stays on disk unreferenced for ever.
* `BlobsPresent`: the documentation's promise, which the code breaks (section 9).

## 5. SetArchive

The archive of a set is a cache: the record says which contents the zip has, and every
access compares that with what the set resolves to now. The module relates four parties
that share no lock: accesses, builds, the passing of time with the cleanup, and whoever
changes the set.

### State

| Variable | Stands for |
|---|---|
| `public` | what `resolve_set(view="share")` returns. The content hash is a function of it that tells the views apart, so a hash is modelled by the view it is of; a retitled document counts as another document |
| `artifact[a]` | the row with id `a`: status, whether `storage_key` is set, `content_hash`, `snapshot` (`doc_ids` and `target_hash`), whether `expires_at` has passed |
| `file` | the zip at `set_archive_path`: which documents are in it, and whether it is a whole zip |
| `queue` | waiting `build_set_archive` jobs. They carry the set's id only |
| `hit[h]` | an access between its statements |
| `build[b]` | a running build. `adrift`: the job was cancelled by its timeout, and the thread that writes the zip goes on |
| `cleanup` | the expired rows the cleanup has loaded, and whether it has unlinked the file |
| `dropped`, `spoiled` | history variables. `dropped`: a build that was asked for is not coming (its job was lost, it died, or the cleanup reset a renewed record). `spoiled`: the last build to start found another one running, or a build has died since |

### Actions

| Action | Code |
|---|---|
| `Publish`, `Hide` | anything that changes what the set resolves to |
| `Expire` | `expires_at` passes |
| `HitFollow` | `public_download` loads the link's artifact. The session's identity map keeps that object and does not refresh it, so `get_set_artifact`, which comes after `resolve_set`, returns the older row |
| `HitResolve`, `HitLoad` | `ensure_current_archive` up to its decision: serve, wait, or ask for a build |
| `HitRequest`, `HitRequestLost` | the commit and `dispatch`; the second dies in between or cannot reach the queue |
| `HitServe`, `HitEnd` | `archive_is_ready`, 410, `FileResponse`; every other end of a request |
| `BuildStart`, `BuildResolve` | `build_set_archive` loads the record, then resolves the set |
| `BuildRefused` | over the limits: `failed` |
| `BuildOpen`, `BuildClose`, `BuildFail` | `write_document_zip` in a thread: truncate, last byte and `stat`, or an exception, which is recorded |
| `BuildCommit` | the record of a finished build |
| `BuildDie`, `BuildTimeout`, `DriftEnd` | a killed worker; a job cancelled by its timeout, and the end of its thread |
| `CleanupSelect`, `CleanupUnlink`, `CleanupCommit`, `CleanupAbort` | step 3 of `run_cleanup` and its one commit |

The ORM writes the columns whose value differs from the one it loaded. A process
therefore keeps, in `writes`, which columns its UPDATE will set (`Retargeted`,
`Finished`, `resets`); a column outside it keeps what another transaction committed
meanwhile. `status` is the one where it matters: a build that loaded a ready record does
not write `ready` over a `building` that came later.

Two builders that have the file open at once leave either one's zip or rubbish
(`Closed`); one that was unlinked under its writer stays unlinked, or is the other
builder's.

### Abstractions

* The row is read and the file looked for in one step of `HitLoad`. A file that vanishes
  in between is one that vanishes just after.
* `HitServe` opens the file in the step that looks for it and sends what it has at that
  moment. Streaming while the file is rewritten can only send something of both.
* `resolve_set` is several statements; the model reads the view in one.
* The empty archive (`item_count == 0`, 410) is a condition of the property, since the
  request changes nothing.
* The counter of the share link and the checks before it are in `ShareLinks`.
* `OverLimit` counts documents; the limit on their bytes behaves the same.

### Properties

* `RecordTellsFile`: after overlapping builds, a later build that runs alone makes
  record and file agree again, and neither the cleanup nor an access disturbs that. It
  is stated for idle moments with the file in place.
* `BuildOwed`: a record that is `building` and not expired has a build waiting or
  running, unless `dropped`. This is what makes it right not to enqueue again when the
  target is the same. Not obvious: two builds run, each writes only the columns that
  changed, and either may finish last.
* `AbandonedIsTakenUp`: a `building` record nobody works on does not stay so, as long as
  somebody asks.
* `ExposesPublicOnly`: the documentation's promise, which the code breaks (section 9).

## 6. The other modules

Each has its handlers as actions and its environment (other requests, time, the rest of
the program) as actions as well. What a module leaves to another is a small action
there, never a constant.

### Tagging

"Not tagged yet" is stored twice, as the absence of `document_tag` rows and as
`Document.status`. State: `document`, `tags`, `links`, the requests, the orphan sweep's
selection, and `walk`, the card a user has in front of him with what he skipped. A
request loads the document (`ApiSetTags`, `WebDocumentTags`, `BotSetTags`, `WalkDone`,
`BulkTags`, `MergeTags`: one action per front end, since they differ in what they take),
reads links and tags (`ReadRows`), and writes (`Commit`, or `RollBack` when an insert
finds its row there, or its parent gone). `Inserts`, `Deletes` and `StatusAfter` are
`set_document_tags`, `add_tags_to_documents` and `merge_tags`.

A bulk change has a step more, `Flush`: its INSERTs and its `UPDATE ... WHERE status =
'inbox'` are sent, and the UPDATE decides on the rows committed by then and on its own
links (`inbox` and `past` of the request), not on what is there at the commit. Until then
its links are nobody else's to see, the rows they refer to cannot be deleted
(`HeldLinks`), and who inserts one of them, or writes the status of a row it has updated,
waits (`Waits`). So an untagging that has not seen the links may commit in between and
leave a document in the inbox that the bulk then tags: it was `tagged` when the UPDATE
looked.

* `InboxUnlessRaced`: in the inbox exactly while untagged, if the last tag change was
  decided on the rows it committed over; for a bulk these are the rows its UPDATE saw. A
  later edit that runs alone mends it.
* `MergeLeavesTarget`: a merge leaves the target on every document it takes the source
  from.
* `AnsweredCardGivesWay`: a card that was answered with tags does not come again.

### Processing

State: the columns of `document` that OCR and index write, the job queue, requests,
running jobs. A text is named by the file it is of, a search vector by the title and the
text it was built from. `IndexDocument` is `index_document`: its raw UPDATE sees the row
as the database has it, including what the session flushed (a new title, an OCR text)
but not the parsed text it has only assigned. `RequestOcr` flushes `pending` and
enqueues before it commits, so `JobStart` may come first.

* `PendingIsOwed`, `PendingIsAnswered`: a document that says `pending` has a job, and
  gets an answer, unless the job ran before the request's commit, found the document in
  the trash, or died (`stranded`).
* `VectorIsCurrent`: the vector of an indexed document is of its title and text, but for
  an index that parsed the text itself (`behind`) and a retitling that raced the first
  index (`raced`). It says that replacement, OCR, retitling and re-indexing in any order
  leave no other gap. (The text itself stays that of the old file after a replacement.)
* `IndexCoversBody`: the documentation's promise, which the code breaks (section 9).

### Search, DocSets

`Search` has no state: `Selects` is the WHERE clause of `search_documents`,
`Listing` adds the order (`InOrder`; the orders by title, status and relevance are left
out), `SearchDocuments` the page; `FiltersFromParams`, `ParseQuery` and
`DomainFilter` build a filter from the web form, the bot's line and the API, `ToDict`
and `FromDict` save and load it. A document matches a word or not; tag names, types and
dates are members of small sets.

`DocSets` is one set of one owner under concurrent edits: `AddFilter` and `AddItems`
look up duplicates and positions, `CommitFilter` and `CommitItems` insert. `Full`,
`Share`, `FilterPage` are `resolve_set`; `FilterLink` is the link from a filter back to
the search page. The owner's role in a domain changes and ends (`SetRole`,
`RemoveMember`); what the set stores of the domain stays.

* `FiltersDistinctUnlessRaced`: no filter twice and no position twice, but for a lookup
  that another insert overtook.
* `SavedSearchFindsTheSame`: a search saved to a set finds there what the search page
  finds, among what the owner may download. It is stated for the plain tab without a
  "no" (`has_ocr`, `has_index`), which saving drops, and as long as the page picks the
  domain that was saved. The way back, from the filter to the search page, finds what the
  filter takes as long as the owner is a member of the domain it names. Once he is not,
  the two part: `resolve_set` intersects and takes nothing, `/search` drops a domain that
  is not his and looks into all of them (section 9).
* `ShareWholeUnlessOverflowing`: an archive that passes the size guard holds all that
  should be shared, unless a filter matches more than `set_max_docs + 1` documents of
  which some are private or in the trash (`Overflows`): with none of those the guard
  itself refuses the archive. `NeverTruncated` is the same without the condition
  (section 9).

### ShareLinks, LinkPromise

`LinkPromise` is what a link is for, in four actions: a link is made, lets a client in
while it is live, is served to the end, ends once and for ever. `ShareLinks` is how:
rows hanging on an artifact of the set, `Usable` checked from the row, `download_count`
read at the check and written back as a value at the end, `revoked`, `expires_at`,
deletion of the set (which removes one artifact and its links, and leaves dangling rows
if there are two), requests for an archive that insert the artifact.

* `KeepsPromise`: ShareLinks implements LinkPromise, by the mapping `Life`, `Inside` at
  the end of the module. In particular the stale write of the counter never revives a
  link. Two overlapping downloads of a one-time link are both served; the link's end is
  after the first completed one.
* `WithinLimitsUnlessRaced`: the limits hold per artifact and kind over the links made
  one at a time.
* `ZipGoesWithTheSet`: a deleted set leaves no zip, unless a build was running. It also
  needs that a set without an artifact has no zip, which is why the file is only
  unlinked with a row.

### Exports

`CreateExport` and `StartFullExport` snapshot ids, `Dispatch` enqueues after the commit,
`BuildLoads`, `BuildEnds`, `BuildFails`, `BuildDies` are `build_artifact`,
`SweepUnlinks` and `SweepCommits` step 2 of `run_cleanup` with its late commit.

A file is modelled by what its manifest lists (`listed`) and what it holds (`docs`): the
build lists and counts what it loaded, and leaves out without a word a file whose blob is
gone by the time it comes to it (`skipped`), as it may be of a document that was purged
meanwhile.

* `DownloadIsAccountedFor`: what can be downloaded is a whole zip that lists as many
  documents of the snapshot as the row counts, the others being counted as missing; it
  lacks the file of none it lists but purged ones. What is missing is listed nowhere in
  it (section 9).
* `FilesHaveRowsUnlessLeaked`: a file without a row, which nothing ever sweeps, takes a
  failed or killed build, a build overtaken by the cleanup, or the deletion of its
  domain.

### Chat

One user's `bot_user_state` row under concurrent updates. An update's answer is on the
screen at `Answer`, its row visible at `Commit`; a second first update fails on the
primary key (`FlushFails`). A value that is stored already is not written (`writes`):
such an update waits for nobody and is over with its answer, whatever was stored between
its read and that. `Paginate` runs the *stored* search.

* `WalkShowsAllUnlessHasty`: turning the pages one by one shows what `GET /documents`
  lists for the same question, in its order, nothing twice, unless a page was turned
  before the search was committed, or a repeated `/find`, which writes nothing, was
  answered after another search had been written over the one it found (`Superseded`).
  It also relates two parsers: the bot's line and the API's parameters.

`ChatAssumption` says what this takes for granted, and TLC evaluates it on the run's
constants: the two spellings of a question agree on every field but the page (they are
inputs, and what makes them "the same question"); documents have distinct upload times.
The second is for the order of the pages: PostgreSQL may return rows that sort alike in
another order on each page, and `uploaded_at` is `utcnow()` in the program, not the
transaction's `now()`, to tell them apart (`models/document.py:168-172`).

### Members

One domain. `Require` is `rbac`'s check at the start of a request; `CommitRole`,
`CommitRemove`, `CommitAccept`, `CommitSettings` come later. The settings column is one
JSON value, merged and written whole.

* `OneOwner`: the owner is a member with that role and nobody else is, whoever adds,
  removes, invites, accepts or leaves.
* `InviteLetsInOnceUnlessRaced`: who was removed does not come back by an invite already
  used.
* `SettingsStandUnlessRaced`: a setting changes by a request that names it, unless two
  changes overlap.

### Accounts

`Register`/`CommitRegister`, `Authenticate` (the hashing runs in a thread) and the three
ends of a login, `VerifyCode`, `VerifyResend`, `ChangePassword`, keys, sessions. A code
is its number; `outdated` says that a hash is to be renewed at the next login.

* `DormantUntilConfirmed`: no session and no key for an account whose address is not
  confirmed.
* `CodeClearedUnlessRaced`, `PasswordStandsUnlessRaced`: the two races are a code
  re-sent while it is being confirmed, and a login that renews the hash of the old
  password while the password is changed.

### TgLink

Tokens made by the bot or the web and confirmed by the other side. `Refused` is the
unique `tg_id`.

* `LinkStandsUnlessRaced`: a link is not written over, but by a confirmation that read
  the account or the token before another one committed.
* `LinkedByBoth`: every link was agreed by both sides, whichever confirmations overlap.

### Ingest, Unpacking

`Unpacking!Extract` is `iter_archive`: one counter (`Acc`) through all levels, lazily
for zip, tar and rar (`Streamed`), all at once for 7z (`Sevenz`). `Unpack[left]` is what
`_iter` makes of any archive with `left` levels to go, given what it makes of archives one
level down (`open`), and `Through` is the loop over the entries: functions defined by
recursion on a number, so that they can be proved about. What becomes of the files does
not depend on how they were found, so `Ingest` takes the extraction as the constant
operator `Extracted`, of which it assumes no more than that it yields a sequence of files
and `none`, `bomb` or `broken`; `Incoming` assumes that it is `Unpacking`'s, as it is in
`MCTagging.cfg`. `UploadArchive`, `JobExtracts`, `EntryReads`, `EntryFails`,
`EntryFlushes`, `EntryPoisons`, `JobCommits`, `JobDies` are the batch; its session sees
its own writes (`Seen`), others see them at the commit. `Outcome` is `ingest_upload` with
quota and type policy. An exception of an entry has three ends: the quota's stops the
loop, the database's poisons the session that the whole batch is committed with
(`EntryPoisons`), any other (the disk, the probe, a blob that is gone) is recorded and
the loop goes on (`EntryFails`). Others upload, trash, restore, purge and delete the
domain meanwhile.

* `ProcessingIsUnderWay`: a batch is `processing` only while its job is, unless the job
  was killed, poisoned, or given what is no archive (`stuck`).
* `BatchTellsAll`: the items of a finished batch are the archive's files in their order.
  Files are missing at the end only behind one that did not fit the quota. `done` means
  that no item is an error, `partial` that one is, anywhere.
* `LimitsHoldAcrossNesting`: an archive is refused exactly if all its files and
  archives, however nested, exceed a limit together. The reference is `Whole`, which adds
  up what an archive and those inside it hold, without a counter, an order or a stop.
* `QuotaHeldUnlessRaced`: a domain outgrows its quota only by a restore (which does not
  look at it) or by a file that was checked before another came in. This is the quota as
  the code counts it, of the documents that are not in the trash. `QuotaCountsTrash` is
  the documentation's, which the code breaks (section 9).

### Storage

Two backends, an object per key that is whole, cut or absent; uploads (with `_place`'s
copy across file systems when `CrossDevice`), deletion, the migration tool key by key,
the flip of the setting.

* `BlobsSurviveUnlessTorn`: a blob in use is whole on one of the backends, and on the
  new one after an undisturbed run, unless it was cut when its row was committed or when
  it was migrated, or two copies wrote it at once.

### Abstractions common to these

* One domain, set, account pair or conversation per module, since rows of different ones
  meet nowhere else than the actions of the environment say.
* Wording, rendering, sizes of pages, languages, and the bytes of files are left out.
* A value that is only shown (the counter of a standing link, an invite's sender) is
  left out.
* Expiry is an action that may come at any time.

## 7. Runs

All runs set `CHECK_DEADLOCK FALSE`: users may stop asking, a deleted domain or set
leaves nothing to do.

| Run | Bounds | Shows |
|---|---|---|
| `store`: uploads | 2 uploads, 2 contents, 1 name, 2 documents, versions to 3 | |
| `store`: sweep | the same with versions to 2, and the sweep | |
| `store`: purge | 1 upload, 1 purge, the sweep, 2 contents, 1 document, versions to 2 | six properties in all |
| `archive_overlap` | 1 access, 2 builders, 1 document; a link's access meets one build at most (`LinkMeetsOneBuild`); symmetry | `RecordTellsFile` |
| `archive_retry` | 1 access, 1 builder, 1 document (over the limit), lapses, the cleanup, lost jobs, dying builds | `BuildOwed`, `AbandonedIsTakenUp` |
| `tagging`: document | 1 document, 2 tags, 1 user, 2 requests, every front end; symmetry | |
| `tagging`: documents | 2 documents, 1 tag, the same requests; set and bulk changes and the orphan sweep | |
| `tagging`: ingest | 13 archives (nested, too large, unsafe, broken, mixed formats), 3 other uploads, quota 3 | |
| `tagging`: storage | 1 blob, 2 uploads, across file systems | nine properties in all |
| `processing` | 1 document, 2 titles, 2 files (with a text layer or not, a scan or not), 1 request, 1 worker, 1 waiting job | three properties |
| `sharing`: set | 3 documents in 2 domains, 2 forms, 1 API filter, 2 selections, 2 requests; `Moving`, `Changing` (what moves meanwhile), `MaxSetDocs` 1, `MaxRows` 2, `MaxPosition` 1 | |
| `sharing`: links | 2 links, 1 artifact, 2 requests, limits of 1 for two kinds | |
| `sharing`: exports | 1 export of 2 documents | |
| `sharing`: chat | 4 documents, 2 domains, 2 questions, 2 updates, pages of 1; `Fading`, `Leaving` (what changes meanwhile) | ten properties in all |
| `access`: members | 2 people, 1 role, 1 invite, 2 requests, one value asked of the quota | |
| `access`: accounts | 1 user, 2 passwords, 2 codes, 1 foreign slug, 2 requests | |
| `access`: telegram | 2 accounts, 2 Telegram ids, 2 tokens, 2 requests | nine properties in all |
| `archive_exposure` | 1 access, 2 builders, 2 documents | `ExposesPublicOnly` is violated |
| `store_blob_race` | 1 upload, the sweep, 1 content | `BlobsPresent` is violated |
| `quota_trash` | as `tagging` | `QuotaCountsTrash` is violated |
| `index_body` | as `processing` | `IndexCoversBody` is violated |
| `share_truncated` | the set's part of `sharing` | `NeverTruncated` is violated |

Why the bounds are enough. Nearly every hazard here is two requests on one row, or one
request against one collector or one job; two of the one and one of the other are in
each run.

Store: two contents for a replacement, two documents for two active twins. One name: a
second one only matters when a twin with another name is found in the trash, and two
rows of one content come about with one name as well. One domain, since rows of
different domains meet only in the blob store, where `HeldByDocument` does not look at
the domain. The proofs (section 8) cover every other size. The run has liveness, which
excludes symmetry, so `Bound` cuts it instead: of requests, documents and contents that
are alike the first is taken (`FirstFirst`), and `part` says who moves beside the uploads.
The constraint is on steps, and what it cuts the fairness still asks for; so in the part
without the sweep `OrphansReclaimed` says nothing, and in the others, where it forbids no
step of the sweep, it says what it should.

Archive: what matters of the set is that it changes, so one document (two states of the
view) is enough except where one document must stay public while another becomes private
(`archive_exposure`). Two builders are what the worker runs at a time. With one waiting
job (`MaxQueue`) and both slots busy, three builds are asked for, one more than any of
the races needs. `archive_retry` sets `MaxDocs = 0`, so that the one document is over
the limit and the empty set is not. `Mishaps` names the rare events a run includes;
between them the runs include all. A run of `archive_overlap` with two accesses is too
large; two builds of one set, which is what they would cause, are there.

Sharing: the two questions of the bot match different documents, so that a page of the
one is not a page of the other; one of the two forms names a domain its owner leaves and
joins again (`Changing`), the other the inbox.

Links: with two artifacts (two first accesses that each insert one) all properties hold
as well, over 400 000 states more than the run has; the run keeps to one, and the
deletion of a set under a request still leaves the dangling artifact and link.

Processing, exports, storage, accounts: rows do not meet rows of others, so one is
enough. Tags need two documents where one statement writes the status of both (a bulk
change of one that has the tag and one that does not); everything else about them is one
document's. Telegram needs two accounts and two ids to confuse them. Ingest needs two
uploads of one content under two names, so that one waits in the trash while the other
comes in, a nesting
deeper than `MaxDepth` (1), totals on both sides of each limit, and contents whose sizes
reach the quota exactly and pass it.

Fairness. `store`: the sweep is started again and again (cron, weak fairness of
`SweepList`) and is not killed at the same point for ever (strong fairness of its later
steps, since `SweepAbort` disables them each time). Nothing is assumed of uploads,
purges and users. `archive_retry`: time passes (weak fairness of `Expire`), and one
client keeps asking (weak fairness of `HitResolve` and `HitServe`) and is not cut short
at the same point for ever (strong fairness of `HitLoad` and `HitRequest`). This is what
the 202 answer with `retry_after` asks of a client. Nothing is assumed of builders, the
queue or the cleanup. `processing`: requests end (weak), the worker takes what waits
although a free slot or the row's lock comes and goes (strong), and a job ends, if only
by the queue's timeout (weak: `JobDie` is one of the ends, so a job is never assumed to
succeed).

## 8. Proofs

Eight modules hold the proofs; `PROJECT.json` lists the theorems a reader should know
of. Of the forty properties of the passing runs, thirty-seven are theorems (all the
invariants and all the action properties): they hold for every value of the constants,
where a run shows them for one. The other three are liveness. What the theorems assume is
the assumptions named in the modules (`...Assumption`), which TLC evaluates in the runs:
`None` is none of the ids and records, bounds are numbers, the sets that are counted (`Files`,
`Links`, `Logins`) are finite, tables of documents are finite and their rows have the
columns a search sorts by, upload times in the bot's table are distinct and its questions
are the API's, an archive has entries that are files, broken or archives, and is unpacked
by `Unpacking`. Five theorems have a hypothesis of their own that the code does not
guarantee: three about sets with one record (SetArchiveProof), two about a store on one
device (IncomingProof). Section 9 says what happens without.

Every proof has the same form. `Init => IInv`, `IInv /\ [Next]_vars => IInv'`, and
`IInv => P` or `IInv /\ [Next]_vars => A`, one lemma per action or group of actions, and
a last step that puts them together. Each invariant was first an invariant of a TLC run.

### DocumentStoreProof

For any sets of domains, contents, names, documents, uploads and purges, and any
`MaxVersion`. `IInv` is `TypeOK`, `ActiveUnique` and these groups:

* `HistoryInv`. `HistoryGapless` alone is not inductive: a replacement writes version
  `old.version + 1` from a remembered row. `LoadedHistory` says that the numbers below
  the *remembered* version have snapshots as well, which holds because version rows of a
  living document are never deleted, and `LoadedWhenNeeded` that a request about to
  restore or replace remembers a row.
* `TakenFromTrash`: what a purge selected, whether it is still on its list or deleted and
  not committed, is in the trash or rescued from it.
* `NoStrayVersions` (version rows need a document) and `StagesInOrder` (a purge has
  candidates or condemned hashes only while it runs, not both, ...).
* `FilesInv`. `LostOnlyIfTorn` is not inductive either: it has to be known what a
  collector's verdict is worth between its two SELECTs and at the unlink.
  `CandidatesPointedAt`: a candidate hash that a document row points at again is
  contested. `CondemnedNeeded`: a condemned hash that a row or a version refers to is
  contested. `WatchedStored`: every candidate or condemned hash that an upload carries
  is contested. `StoredOnDisk`: what an upload stored is on disk or torn.
  `NeededOnDisk`: what rows and versions refer to is on disk, torn, or (for rows a purge
  holds locked) among what that purge has unlinked.

The argument at a commit: a row can come to refer to a content only through an upload
that carried it. If a collector has the hash as candidate or condemned at that moment,
`WatchedStored` makes it contested, so unlinking it makes it torn; if no collector has
it, the file is there and the next SELECT will find the row. A hash that a replacement
moves from `document` to `document_version` between the two SELECTs is seen by the
second; one that was carried by the replacement counts as contested.

`TypeCorrect`, `ActiveUniqueInvariant`, `HistoryGaplessInvariant` and
`LostOnlyIfTornInvariant` follow, and `ActiveGoesOnlyIfRescuedHolds`. For the last, the
steps that write a document keep its row (`RowsKept`), and a restore cannot slip in
between a purge's DELETE and its commit, since the row is locked (`TakenRestored`); in
between the SELECT and the DELETE it can, and `Rescue` says so.

### SetArchiveProof

`Typed` is `TypeOK` with "what an access, a build and the cleanup remember is there"
(rows of `artifact` are never deleted while the set lives). For any number of records.

* `ReadyTellsTheFile` (`RecordTellsFile`). `Told` adds `Alone` (unless spoiled, one
  build runs at most, and none is adrift) and `Knows`: what the one running build
  remembers of its record (`KnowsRecord`), and which columns its UPDATE will set, fits
  the record as it is now. That is where the ORM's rule matters: the hash and the status
  are written only if they differ from what was loaded, so the record afterwards is a
  mixture, and the invariant says that the mixture still tells the truth.
* `WaitingIsOwed` (`BuildOwed`). `Owed`: a record that waits has a job in the queue, or
  a running build that *clears* it, that is, one which loaded the record as `building`
  and therefore writes the status whatever comes of it. A build that loaded a ready
  record does not, and does not count.

Both are invariants of the form `OneRecord => ...`: they hold in every state in which the
set has one record at most. Records are never deleted while the set lives (`RecordsStay`),
so it never had another. `OneRecordUnlessRaced` shows that this is so in every behaviour
in which two first accesses never overlap (`FirstsAlone`: no two accesses that found no
record are on their way to make one); nothing else needs to be assumed of accesses, builds
and the cleanup. With two records `get_set_artifact` may pick one for the access and the
other for the build, and both write one file; without `OneRecord` the two statements are
false of the code, not only hard to prove (section 9).

### ProcessingProof

For any documents, titles, files, requests and workers. `IInv` is `TypeOK`,
`VectorIsCurrent` and:

* `FormedRequests` (what a request of each kind carries), `Holding` (a flushed row is
  locked, hence there), `Uploading` (a document that is being uploaded is nobody else's
  yet).
* `Seen`: what a session loaded as indexed is indexed still, if it is there. That is
  what makes the stale decision of a retitling (rebuild the vector or not) err on one
  side only, the one `raced` records.
* `PendingOwed`: `PendingIsOwed` extended to requests that have flushed `pending` and
  not committed: their answer is owed already.

`RecognitionIsOwed` and `IndexIsCurrent` follow.

### TaggingProof

For any documents, tags, users, domains and requests. `IInv` is `TypeOK`,
`InboxUnlessRaced`, `RequestsSound` (a tag is not merged into itself; a card is
answered by setting tags; only setting tags reads in a step of its own) and `FlushedFits`
(what a bulk has flushed still has its document and its tag, so its commit cannot fail).
`InboxHoldsUntagged` has its weight in one lemma per way of
committing: what `Stale` compares is exactly what the status depends on, which for a
bulk is the snapshot of its UPDATE.
`MergeKeepsTags` and `AnswerMovesOn` are action properties. The second needs that the
inbox is walked by number: `Least` proves that a non-empty set of numbers, finite or
not, has a least one, which `NextCard` takes.

### ShareLinksProof

For any links, artifacts, requests and limits. `IInv` adds to the types that a link hangs
on an artifact (`LinksHang`), what a build says of the set (`ZipHasArtifact`,
`BuildOfASet`), `ReadUnused` (a download let in by a one-time link read a count of 0),
and `Room`: who makes a link *alone* still has room for it, since whoever else makes one
meanwhile is not alone. `WithinLimits` and `ZipGoes` follow.

`LinksKeepTheirPromise` is the refinement: `Spec => KeepsPromise`, that is, `ShareLinks`
implements `LinkPromise` under the mapping `Life`, `Inside`. One lemma per action says
which action of the promise it is, or that it is a stutter; the stale write of
`download_count` is the step to worry about, and `ReadUnused` is what it needs.

### AccessProof

Three inductive invariants, and `AccessInvariant`, which composes them over `MCAccess`.

* Members: `Typed` gives each kind of request its record (no request is about the
  owner), `NothingAfterDelete`, `AcceptsUnused` (an acceptance that was not overtaken
  holds an invite nobody has used), `CarriesSettings` (a change of settings that was not
  overtaken carries the others as they are). `OwnerStands`, `InviteLetsInOnce`,
  `SettingsStand`.
* Telegram: `TgUnique`, `MadeByOneSide` (a token has the side that made it until the
  other confirms), `ConfirmsToken`, `ConfirmsUnlinked` (a confirmation that was not
  overtaken found the account unlinked and it is). `LinksAgreed`, `LinkStands`.
* Accounts: `SlugsInARow` (which makes the personal domain's slug free), `ConfirmedOnly`,
  `OfAnAccount`, `LoginStale` (the hash a login renews is of the account's password,
  unless overtaken), `ResendStale`. `DormantAccounts`, `CodeCleared`, `PasswordStands`.
* `AccessTypes` is the type invariant of the three.

### SharingProof

Over `MCSharing`. `SharingInv` is the invariant of `ShareLinksProof` and, for the other
parts:

* Exports. `ExportsInv`: a build's set of documents is part of the snapshot, a file
  without a name in its row is leaked, what the cleanup has unlinked is gone or was
  written since, a ready export tells the truth: what it lists is what was counted, what
  it lacks of that was purged, and what was purged stays so. `ExportsTellTheTruth`,
  `ExportFilesHaveRows`.
* A set's filters. `FiltersInv`: what a request looked up holds unless it was overtaken.
  `FiltersDistinct`. `SavedSearches` is about operators rather than steps: `ReadBack`
  says which fields of a filter survive `ToDict` and `FromDict`, `AlikeFindTheSame` that
  the others do not narrow a search, and `SavedFinds` puts them together for every form.
  Roles come and go, so what the page picks at the saving and now are two things:
  `SavedFiltersInv` keeps of a row what it was saved with (`SavedAs`), a domain or none,
  and `LinkBack` goes from the filter to the page for a domain that is his still.
* What a set shares. `CanBeSorted`: the elements of a finite set can be put in a
  sequence with no later one due before an earlier one, for any order by a key and with
  missing values last (by well-founded induction over the finite subsets: the least one
  first, then the rest). Hence `Sorted`: `InOrder` has each match once, so a page as long
  as the matches holds them all (`PageOfFilter`). `SharesWhole` then splits on whether a
  filter matches more than its page: if one does and everything it matches is shared,
  the `set_max_docs + 1` rows it contributes are one more than the guard lets pass.
  `SharesAreWhole`.
* A set's rows. `SetTyped`: items name documents of the library, places are within the
  bound, what a request is about to insert (`Adding`) is such a row. `PinnedPlaces` is
  where the arithmetic is.
* The pager. `ChatInv`: one update at most has flushed and waits for its commit
  (`OneFlushed`); what is walked through is the search that waits or, if none does, the
  stored one (`WalksTheLast`); what was shown is the beginning of the listing and, if
  that has more, the button to the next page is on the screen (`WalkShown`). The step to
  worry about is a page turned while another search waits for its commit: it lists the
  stored search, and `hasty` says so. `Division` is the count of pages, `Turned` that the
  next page continues the listing where the walk ended. An answer that writes nothing
  starts a walk by the stored search (`ChAnswer`), or one that is `hasty` from the start.
  `WalksShowAll`.

`SharingTypes` is the type invariant of the four.

### IncomingProof

Over `Incoming`, for any archives, uploads, limits, type policy, quota, blobs, requests.

* The extraction. `Induction` (from the well-foundedness of the numbers) and `Recursion`
  say that a function defined by recursion on a number is one and goes step by step;
  `ThroughIs`, `UnpackIs`, `WholeIs` are what they give for the loop over the entries, for
  the levels of `_iter`, and for the levels of the reference. `Agrees(acc, r, w)` is the
  induction hypothesis: the counter went from `acc` to `r` over something that holds `w`,
  and either all of it was counted and found within the limits, or it was given up, as a
  bomb only if `w` on top of what there was is too much. It holds of one entry
  (`CountedAgrees`, `YieldAgrees`), is passed on along a sequence (`AgreesChain`,
  `ThroughAgrees`), does not mind that 7z counts a level before it opens what is in it
  (`TalliesOfParts`, `SevenzAgrees`), and goes up from level to level (`UnpackAgrees`).
  `ExtractObeysLimits` follows, and with `VerdictInv` (what the batch became is by what
  its extraction ended in, whatever others do) `LimitsHold`.
* `IngestInv`: types with the job's record by its place; `Distinct` (no content twice
  alive); `OwnAreNew`, `FlushedIsNew`, `ReadIsLive` (what a transaction has flushed and
  nobody else sees yet); `OneBatch`; `ItemsFollow`, that is, `InStep` (the items so far
  are those of the first files, in their order, and the rest is the rest) and
  `QuotaEnds` (an error of the quota, and no other, is the last item and stops the
  batch). `BatchesUnderWay`,
  `BatchesTellAll`.
* `QuotaInv`: what a job or an upload that nothing overtook has flushed and read fits the
  quota with what is there (`JobFits`, `UploadFits`), for any sizes. `Used` is a count of
  bytes, (document, place) pairs, so a sum over documents is the cardinality of a
  disjoint union. `QuotaHeld`.
* `StorageInv`: `HeldIsWhole`, `StoredIsThere` (what an upload found is whole somewhere,
  or cut, which counts when its row is committed), `CutIsTorn` (the migration's copy of
  something cut), `QuietRun` (a migration nothing disturbed still has to visit, or has
  copied, every blob that is needed) and `SyncedHasAll`. `BlobsSurvive`.
* One device. If the temporary directory is on the store's file system (`~CrossDevice`)
  nothing is ever cut (`NothingCut`), so `OneDeviceTearsNothing`: `torn` stays empty, what
  is on a backend is whole, and every blob a document refers to is on one of them. That is
  what `DocumentStore` takes for granted of a file. `OnlyDeletionLoses` is about steps: the
  last whole copy of a blob goes only by `delete_blob` of it; `DeleteSource`, the step to
  worry about, has just found what it copied at the destination.

### What proving changed in the models

TLC does not notice what these show, since the runs had one document or one row where
two are needed, or TLC evaluates in an order the language does not promise.

* A bulk change of tags sets the status of those selected documents that have a link by
  then; `Tagging` had it set the status of all. The run now has a part with two
  documents.
* The unique index also refuses a row that is restored by an archive; `Ingest` had it
  refuse inserts only. The run now has a third upload.
* `CASE` with overlapping guards may take either branch; `Outcome`, `Allowed`, `Counted`
  and `Yield` now say the order.
* `None` has to be told from every record it stands beside (`NoneAssumption`s), and
  `TypeList`'s grouping needed its parentheses.
* `Overflows` counted a filter that matches too much but nothing private, where the size
  guard does its work; the property is now stated for those too.
* `CreateSet` and `BotNewSet` may not go past the bound on positions either.
* The quota is counted byte by byte rather than folded, an order is a sorted function
  rather than `SetToSortSeq`, and records are written out rather than merged with `@@`:
  the same values, without recursion.

* The extraction of an archive was a pair of RECURSIVE operators; as functions of a
  number of levels it can be proved about, and `Incoming` ties it to the batch.
* What a purge loses was visible in `DocumentStore` but not told from what it should
  delete; `rescued` tells it.

### What stays with TLC

* Liveness: `OrphansReclaimed`, `AbandonedIsTakenUp`, `PendingIsAnswered` (fairness and
  `ENABLED` are out of the prover's reach). What they rest on in the safety of the code is
  proved: `PendingIsOwed`, `BuildOwed`, `IInv`.
* The promises of section 9 that have a run are false, so there is nothing to prove.

## 9. What the checks found

With a run:

* **A document whose file is gone** (`store_blob_race`). The sweep lists the disk, reads
  the references, unlinks. An upload that stored its file before the listing, or found
  it there, and commits after the SELECTs keeps its row and loses its file. The same
  happens with a purge in place of the sweep, and when a purge rolls back after an
  unlink. `LostOnlyIfTorn` says that there is no other way. One way that is easily
  overlooked is included in it: a replacement that loaded content *a*, while another one
  has already overwritten *a* without a snapshot, later writes a version row for *a*
  whose file the sweep took as an orphan.
* **A private document on a share link** (`archive_exposure`). A build resolves the set;
  a document is made private; the next access asks for another build, which a second
  worker slot runs to its end. The first build then writes its own documents over the
  file. Until it commits (or, if it dies first, until the archive expires or the set
  changes) the record is ready, its hash is the one the access has just computed, and
  the link sends the older zip. The queue does not keep two builds of one set apart.
* **A search vector without the body** (`index_body`). `index_document` assigns the
  parsed text and runs its UPDATE of `search_tsv` before the session flushes it
  (`autoflush=False`): the first index of a document that was not parsed before has the
  title only. A second index, or a retitling, repairs it.
* **A shared archive cut silently** (`share_truncated`). Each filter contributes its
  first `set_max_docs + 1` matches, private ones included; these are removed afterwards,
  and the guard looks at what is left. More private matches than the cap, sorted first,
  hide public ones.

* **Trash that takes no quota** (`quota_trash`). `_domain_used_bytes` adds up the
  documents whose `deleted_at` is null, so a full domain takes new files as soon as old
  ones are in the trash, and a restore then exceeds the quota. `docs/architecture.md:987`
  says that the quota "counts trashed documents until they are purged", and 679-680 counts
  the trash and the export artifacts. No export is counted either.

Met while modelling, and visible in the history variables of the modules:

* Two replacements of one version: the second overwrites the first one's content without
  a snapshot of it (`documents.py:192`). A purge that selected a document in the trash
  deletes it after it was restored (`trash.py:84`; `ActiveGoesOnlyIfRescued` says that a
  purge deletes nothing else that is active).
* After a replacement the old file's text, OCR status and vector stay
  (`documents.py:193`).
* The cleanup commits `status = building` over a record that an access renewed after the
  cleanup had read it; if that build has finished, the record waits, unexpired, for a
  job that is not queued, until the next expiry (`dropped`; `AbandonedIsTakenUp` shows
  that it ends).
* Two first accesses of a set each insert an artifact (`docsets.py:392`). From then on an
  access asks for a build by one record and the build may take the other, and both
  records describe the one file: with two ids and two accesses TLC finds a record that
  waits for nobody within 17 steps and one that is ready over another's zip within 19,
  without any job lost or two builds at a time. `OneRecord => RecordTellsFile` and
  `OneRecord => BuildOwed` are what is left, and are proved. A link made for a set that
  was deleted meanwhile hangs on an artifact of no set.
* A job that runs before its request's commit, or finds its document in the trash,
  leaves it `pending` for ever (`stranded`).
* A batch stays `processing` for ever after any error but `ArchiveError` (`stuck`).
* A bulk tagging whose UPDATE finds a document `tagged`, and an untagging that does not
  see the bulk's links and commits first, leave the document tagged and in the inbox
  (`tags.py:213-222`, `raced`), until it is tagged again.
* The owner of a set leaves a domain: a filter saved for it finds nothing from then on
  (`docsets.py:260-262`), while the link beside it opens a search of all his domains
  (`web/search.py:190-198`).
* The manifest of an export does not list what is missing: `docs/architecture.md:229-230`
  says that trashed and purged documents "are skipped and listed in the manifest", but
  those gone at the build are only counted (`missing_count`), and one purged while the
  zip is written is listed and counted as an item, without its file
  (`export.py:137-141`).
* A repeated `/find` writes nothing, and so takes no lock (`bot/state.py:39-42`): if
  another search is stored between its read and its answer, the buttons under the answer
  turn the pages of the other.
* Restoring from the trash asks for no quota. Failed, killed and overtaken exports, and
  those of a deleted domain, leave files nothing sweeps (`leaked`).
* `_place` is documented as an atomic move (`storage/local.py:96-101`); across file
  systems it copies into the final name, where a row may be committed over it or the
  migration take it (`torn`). With the temporary directory on the store's file system,
  `CrossDevice = FALSE`, nothing is torn (`OneDeviceTearsNothing`).
* One invite per domain and e-mail address is all there can ever be, used or expired
  (`models/domain.py:75-77`). The API stores settings unclamped, the web form clamps
  them.

## 10. Plan

What the plan has left, none of which a property of this project depends on:

1. `DocumentStore` composed with `Storage` in one module, with a mapping of the one's
   `blobs` to the other's objects. `OneDeviceTearsNothing` and `OnlyDeletionLoses` are the
   two facts it would use.
2. A set with two records after the race: which of the archive's promises come back when
   one of the records expires.

## 11. Not modelled

`PROJECT.json` lists every component with its status and the reason. Left out are
rendering, wording and keyboards; text and metadata extraction, OCR and thumbnails
(functions of one file's bytes, here a yes or no); the S3 wire protocol and SMTP
(external); the rate limiter (a function of one list of times); configuration, schemas,
migrations and start-up. Full text matching is PostgreSQL's. PostgreSQL's own promises
(READ COMMITTED, unique indexes, cascades, row locks) are taken as documented.
