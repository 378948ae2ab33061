# Verification of FounderLens AI

FounderLens AI lets the members of a workspace upload company documents and
turns each into chunks with embeddings, kept in Postgres and Neo4j, for later
retrieval with citations. This directory holds TLA+ modules translated from
its source, TLC configurations that check them on small instances, and proofs
that TLAPS checks for every instance. Paths below are relative to the
repository; `app/` is `src/backend/app/`.

- [The system](#the-system)
- [What is hard](#what-is-hard)
- [Modules and how they correspond to the code](#modules-and-how-they-correspond-to-the-code)
- [Runs and bounds](#runs-and-bounds)
- [Fairness](#fairness)
- [What is proved](#what-is-proved)
- [What is only model-checked](#what-is-only-model-checked)
- [Disagreements between the code and what it says](#disagreements-between-the-code-and-what-it-says)
- [What is not modelled](#what-is-not-modelled)
- [Plan](#plan)
- [How to run it](#how-to-run-it)

## The system

| Component | State it keeps | Operations | Talks to | Correct when |
|---|---|---|---|---|
| Document service (`app/services/document_service.py`, `document_repository.py`, `document_storage.py`, migration 0600) | row of `documents` (status, checksum), object in the `research-documents` bucket | upload, delete, update_status, list, get | Postgres, Supabase Storage: two stores, no common transaction | no bytes without a row, no row without bytes, no content twice in a workspace, a delete completes and leaves nothing |
| Ingestion service (`ingestion_service.py`, `ingestion_job_repository.py`, migration 0800) | row of `ingestion_jobs` (status, stage, attempt) | request_processing, run, _fail, status_for_document | all other stores; started by a route, run by the task runner | one run per document at a time; a second caller gets the run there is; every job ends; the document's status says what is true |
| Chunk table (`chunk_repository.py`, migration 0900) | chunks of a document and the job that wrote them | replace_for_document, count | Postgres; rows go with their document by cascade | holds the chunks of one run |
| Chunk graph (`app/ai/graph/`) | `:Document` and `:Chunk` nodes with vectors in Neo4j | index_document in three transactions, delete_document | Neo4j | agrees with the chunk table when the document is ready |
| Task runner, lifespan (`app/core/background.py`, `app/main.py`) | the set of asyncio tasks, the open client, driver and pool | submit, _guard, drain with a deadline, close | calls `run` | a task's failure is recorded where it can be seen; a shutdown loses only what the drain gave up |
| Parsers (`app/ai/ingestion/*_parser.py`) | none | bytes to text with page spans | called by run | spans index the joined text |
| Cleaner and offset map (`cleaning.py`, `models.py`) | the cleaned text and its runs | clean, to_source, page_for_clean_offset | called by run | every cleaned character leads back to its source; nothing visible is lost |
| Chunker and tokenizer (`chunking.py`, `tokenization.py`) | pieces, chunks | split, pack, emit | called by run | no text lost, size and overlap kept, pages attributed |
| Embedding provider (`app/ai/embeddings/`) | none | embed_texts in batches | the OpenAI API | the k-th vector is that of the k-th chunk |
| Content detection (`content_detection.py`), capped read (`documents.py`) | the bytes read so far | read up to the limit, sniff, accept or refuse | upload | the limit is exact; text is not turned away; what a look cannot see is known |
| Routes, membership dependency, errors (`app/api/`) | none | verify, require_membership, then one handler per operation | the services | a caller reaches only the documents of a workspace they were let into |
| Workspaces and membership (migrations 0100-0500, `workspace_*`, `profile_*`) | profiles, workspaces, members with roles | create, invite, change role, leave; triggers and row policies | Postgres | a workspace always has an owner; a member sees their own workspaces only |
| Document manager (`src/frontend/src/components/documents/`) | the list a browser shows, whether it polls | load, upload, process, delete, poll | the routes, over HTTP | the page keeps its own changes; a row does not stay in processing; what was handed to processing is followed |
| Sessions (`src/frontend/src/lib/{supabase,auth}`), token verification (`security.py`) | cookies, cached keys | sign in, redirect, verify | Supabase | one request each, no protocol of their own |
| Configuration, logging, pools; empty packages of later phases; scripts | - | - | - | - |

How they interact: a route awaits a service method; a service awaits one call
after another, each a SQL statement, a Postgres transaction, a Neo4j
transaction or an HTTP exchange; nothing spans two of them. `request_processing`
inserts a job and hands it to the task runner, which runs `IngestionService.run`
as an asyncio task beside the requests. Between any two awaited calls of one
coroutine any other may run, in particular a delete of the same document, and
the process may be restarted.

## What is hard

`PROJECT.json` lists each hazard at its line. They are of these kinds:

- **Two stores, no transaction.** The object is written before the row and
  removed before it; each order leaves something behind when the second step
  fails, and an answer may be lost after the call took effect.
- **Check, then act.** The checksum lookup before an upload and the active-job
  lookup before a claim are both stale when used; only constraints decide.
- **Two statements for one outcome.** A run ends its job in one statement and
  its document in the next; the first ends the exclusion that the second
  relied on.
- **Work that a restart takes.** Rows say `running`, and no task is.
- **Documents deleted under their run**, and uploaded again.
- **Partial rewrites** of the graph over three transactions, beside a chunk
  table that has already changed, by a release that chunks differently.
- **Offsets**: nine regular-expression alternatives in competition, an offset
  map built from their leftovers, half-open spans on both sides, four levels of
  splitting with separators that belong to no piece, two token budgets.
- **Answers of the provider** in any order, or short.
- **A look at a sample.** The type of a file is decided by its first bytes, the
  last of which may be half a character; a run later decodes the whole.
- **Let in, then acting.** The membership is read before a request and not
  again, while members, workspaces and accounts go.
- **Three reads, no snapshot**: a status answer is put together from a document,
  its latest job and its chunks, read one after the other.
- **Shutdown under tasks**: the drain gives up after its deadline, and client,
  driver and pool are closed one after the other under the runs that are left.
- **Answers out of order in a browser**: polls, refreshes, uploads and deletes
  are connections of their own, and the page applies each answer as it lands.
- **A count that is stale when it is used**: the trigger that protects the last
  owner counts what is committed; two transactions may each count the other. And
  it looks at roles only, so an owner's row that moves to another workspace leaves
  uncounted.
- **A stamp that is older than its row**: a claim's `created_at` and attempt are
  taken before the index lets its row in, and the rows are later ordered by the
  stamp.

## Modules and how they correspond to the code

| Module | Models | Lines |
|---|---|---|
| `DocumentStore` | uploads and deletes over the documents table and the bucket, with failures and restarts | 330 |
| `Ingestion` | extends it with requests, tasks, jobs, chunks and the graph | 571 |
| `JobLifecycle` | abstract: what a job row promises | 53 |
| `DocumentLifecycle` | abstract: what a document's status promises to those who poll it | 66 |
| `Lifespan` | extends `Ingestion` with shutdown: drain, closing of connections, restart | 141 |
| `ProcessingStatus` | extends `Ingestion` with a client of the status endpoint | 64 |
| `DocumentManager` | extends `DocumentLifecycle`, as its server, with the document list of a browser | 290 |
| `TextCleaning` | page joining, artefacts, offset map (operators) | 140 |
| `TextIntake` | extends it with the upload's read, type detection, decoding and front matter | 209 |
| `TextChunking` | token counts, splitting, overlap, pages (operators) | 203 |
| `TextPipeline` | extends both: one document from its bytes to its vectors | 287 |
| `WorkspaceMembership` | users, workspaces, members and the last-owner trigger, with transactions at read committed | 383 |
| `WorkspaceAccess` | extends it with the API's requests over documents | 126 |
| `DocumentStoreProofs`, `IngestionProofs` (with `Lifespan`), `RefinementProofs`, `WorkspaceProofs`, `DocumentManagerProofs` | theorems | 8726 |
| `IntakeProofs`, `SplittingProofs`, `ChunkingProofs` | theorems about `TextPipeline` | 10818 |
| `MC...` | instances for TLC | 171 |

Definitions keep the names of the code where they can, and `PROJECT.json`
("map") gives each its lines. Definitions with a comment that starts with
"Mutant:" are altered forms of the one that follows them, each the trace of a
plausible slip (a dropped guard, a missing reset, an off-by-one); no
specification uses them. Putting one in the place of its original must make TLC
refute the property named in "mutants", which shows that the property depends
on that code.

### `DocumentStore`

| Model | Code |
|---|---|
| `status`, `checksum` | columns of `public.documents`; `"absent"` is no row |
| `objects` | the bucket; an object's path ends in its document's id, so a set of ids |
| `minted` | `uuid4()` never repeats an id |
| `uploads[u]`, `deletes[x]` | one coroutine each; `pc` names the call it awaits next |
| `BeginUpload`, `FindByChecksum`, `WriteObject`, `CreateRow`, `Compensate` | `DocumentService.upload`, one action per awaited call |
| `BeginDelete`, `RemoveObject`, `RemoveRow` | `DocumentService.delete` |
| `ContentIsFree` | `documents_unique_content_per_workspace` |
| `Answers(call)` | how an awaited call ends: `ok`, `refused` (raised, nothing done), `lost` (raised, done) |
| `CrashStore` | the process stops with every coroutine; a new one starts |

`MayRefuse` and `MayLose` say which calls may end that way in a run, so that a
property is checked under exactly the failures it is meant to survive, and the
proofs hold for any choice. One workspace is modelled: every query carries the
workspace id, so rows of two workspaces never meet in these tables.

### `Ingestion`

| Model | Code |
|---|---|
| `job` | `public.ingestion_jobs`; `"unused"` is an id not minted, `"gone"` a row removed by the cascade |
| `chunks`, `chunkJob` | `document_chunks` and its `ingestion_job_id` |
| `nodes`, `indexed` | the graph, with the model that computed each vector |
| `request[r]` | a call of `request_processing`; `BeginClaim`, `Claim`, `JoinActive`, `JoinLatest`, `Submit` |
| `BeginClaim`, `Claim` | the two ends of one statement, `IngestionJobRepository.claim`: what it takes as it starts (`now()`, the snapshot in which it counts), and its insert with the conflict check |
| `created` | `ingestion_jobs.created_at`, counted in rows the table had received by then (`Inserts`); `inserted` is history and no column |
| `LatestJobs` | `order by created_at desc, id desc`; of two rows with one stamp either may come first |
| `task[j]` | the asyncio task of a job; `StartJob` to `MarkFailed`, one action per awaited call of `run`, `_execute_stages`, `_fail` |
| `Raised(j)` | inside the `try` an exception leads to `_fail`; outside it to the runner's `_guard`, which logs it and ends the task (`"dead"`) |
| `ActiveJobs` | the partial unique index `ingestion_jobs_one_active_per_document`, and the lookup |
| `Finished`, `Advanced`, `StatusSet` | the `where` clauses of the updates |
| `Cascade` | `on delete cascade` of jobs and chunks |
| `Crash` | `CrashStore` together with the tasks and requests |

Synchronous work between two awaited calls (parse, clean, chunk) is part of the
step before it. The bytes of a document never change, so what a run produces
depends only on the code and settings of its process: incarnation `b` makes the
chunks `ChunksOf[b]` and embeds them with model `b`. A restart is therefore also
a release that splits differently, or finds no text.

A claim is one statement and still two steps. `now()` and the snapshot of its
count are fixed as it starts; whether the partial index holds an active job is
decided as its row goes in, and other claims, whole runs and a delete may pass in
between. Time is counted in inserts: two claims that start between the same two
inserts have one stamp, and `LatestJobs` then holds both, for either order of their
clocks or of their ids.

One API process at a time is modelled, which is what the in-process runner and
the development setup use. A call of the old process that arrives after the new
one has started (a write delayed in the network across a restart) is left out.

### `JobLifecycle`, `DocumentLifecycle`

A job is queued for a document that has no active one, started, and ended once;
an outcome never changes; rows go only all together with their document, for
which no job is ever queued again. `Ingestion!ImplementsLifecycle` is the
refinement: `state` is the status column, `of` the document column.

A document appears as uploaded, says processing because a run that is under way
marked it, says ready or failed only after that, never says uploaded again, and
goes together with its run. `Ingestion!ImplementsDocuments` is the refinement:
`status` is the status column and `run` is read off the rows of the document's
jobs (`ActiveRun`). `Settle` is apart from `End` because the code writes the
outcome in a statement after the one that ends the job. `DocumentManager` uses
the same module as its server, so the browser is checked over exactly what the
pipeline is shown, and proved, to promise.

### `Lifespan`

| Model | Code |
|---|---|
| `phase`, `BeginShutdown`, `Close`, `Restart` | the lifespan of `create_app`; the server lets its requests end before it ends the lifespan |
| `EndDrain`, `abandoned` | `BackgroundTaskRunner.drain`: every task ended, or `timeout_seconds` passed with tasks pending, which are remembered |
| `ClosedIn`, `Usable`, `Cut` | what the HTTP client, the Neo4j driver and the pool carry, and a call of a run that finds its own closed |

`Ingestion!Crash` stays what it was, a stop without a shutdown; here it comes
only after `Close`.

### `ProcessingStatus`

`ReadDocument`, `ReadJob` and `EndReport` are the three awaited reads of
`status_for_document`; every action of `Ingestion` may come between them.

### `DocumentManager`

| Model | Code |
|---|---|
| `page` | the state of the component: its kind and rows; `stale` is no state of the code but remembers which own changes the shown list was read before |
| `list[c]`, `Refresh`, `Poll`, `TryAgain`, `AnswerList`, `ListArrives` | `refresh`, the interval, a GET on its way: sent, read by the API, arrived |
| `action[a]`, `AskUpload`, `AskRow`, `AnswerUpload`, `AnswerRow`, `ActionArrives` | `handleUpload`, `handleDelete`, `handleProcess` and their requests |
| `pressed` | `deletingId` and `processingId`, which disable the buttons of one row |
| `mine` | what the page was told of its own changes (for `OwnChangesShown`) |
| `Server` | `DocumentLifecycle`, moved by the pipeline, and by other members and tabs: they claim runs of their own, delete and upload, as often as they like |

The rows are a set, so a row the page shows twice under one key (a poll that
already lists an upload, and then the upload's own answer) is one row here.

### `TextCleaning`, `TextIntake`, `TextChunking`, `TextPipeline`

A text is a sequence of characters and a character stands for its class: a
lower-case letter, an upper-case one, terminal punctuation, a closing bracket,
space, tab, newline, carriage return, a zero-width character, a hyphen. The
regular expressions and the tokenizer tell no more apart, digits and other
scripts aside.

| Model | Code |
|---|---|
| `ReadUpload`, `Keeps` | `_read_capped` |
| `CheckUpload`, `LooksLikePdf`, `LooksLikeText`, `DetectDocumentType` | `content_detection.py`, called by `DocumentService.upload` |
| `Decode`, `DecodeText`, `FrontMatterEnd`, `Parsed`, `Extract` | `decode_text`, `_FRONT_MATTER`, the three parsers |
| `Joined`, `PageSpans` | `PDFParser.parse`, `PAGE_SEPARATOR`, `ExtractedPage` |
| `MatchEnds`, `Artefact` | the alternatives of `_ARTEFACTS` and their order |
| `Emitted`, `Edited` | `TextCleaner._emit` and the loop over `finditer`: characters paired with their source offset |
| `OffsetRuns`, `ToSource` | `_Builder._append`, `OffsetMap.to_source` |
| `Count` | `HeuristicTokenizer.count` |
| `ParagraphBreak`, `SentenceBreak`, `WordBreak`, `Segments`, `ByCharacters`, `Split` | `_split_by` and the expressions it uses |
| `OverlapTail`, `Carried` | `_overlap_tail`, and the loop that drops overlap |
| `PagesCovered`, `Emit` | `_pages_covered`, `_emit` |
| `Extract`, `Clean`, `SplitText`, `PackPiece`, `PackRest` | the stages; packing is a step per piece |
| `EmbedBatch`, `EmbedEnd`, `InOrder` | `embed_texts`, `_embed_batch`, `_parse`; a vector is the chunk it was computed from |

`Persist` holds what Postgres refuses in a chunk (`Storable`): a NUL, and, by the
check `btrim(text) <> ''`, a text of spaces alone. `ByCharacters` can make one
of the indent of a long word. A chunk of tabs passes that check and is refused by
`embed_texts` (`Refused`). `EmbedBatch` answers for any part of a batch in any order,
but takes it that no index is named twice: `_parse` compares counts only, so a
provider that repeated one index and left out another would pass unnoticed, and
nothing here says otherwise.

A byte stands for its class too: one of a character of one byte, the first of
two or three, one that continues a character, NUL; the five of a PDF header are
one. The soft hyphen is the character of two bytes, the byte-order mark that of
three.

The definitions from cleaning on were compared with the Python implementation by
running both on 37,121 documents, the texts of the first two alphabets of the text
instance and its pages (cleaned text, spans, pages and token counts): no difference.
Of the two tokenizers the heuristic one is
modelled; the byte-pair tokenizer is a library's table.

### `WorkspaceMembership`

| Model | Code |
|---|---|
| `users`, `workspaces`, `createdBy`, `role` | `auth.users`, `public.workspaces` with `created_by`, `public.workspace_members`; `"none"` is no row |
| `minted` | `gen_random_uuid()` never repeats an id |
| `statement[s]`, `pending[s]` | a connection: the rows its statement has yet to touch, and those its transaction has changed |
| `SignUp`, `CreateWorkspace` | `handle_new_user`, `create_workspace` |
| `Remove`, `SetRole`, `Move`, `Add`, `Drop` | the policies of migration 0400: which rows a statement may touch, decided when it begins |
| `Deregister` | Supabase Auth deletes an account |
| `ChangeRow`, `Refuses`, `Lowers`, `NewRole`, `ParentGone`, `OwnersSeen` | `prevent_last_owner_removal`, run before each row |
| `MoveRow` | an update of `workspace_id` or `user_id`: the trigger, the primary key at the new place, the foreign keys that change |
| `Follows` | a cascade looks at a row again once it has its lock, and takes it at its new key if that still names the parent |
| `InsertRow` | the insert with its primary key and two foreign keys |
| `DeleteWorkspace`, `DeleteUser`, `Cascades` | `on delete cascade`, and `on delete restrict` of `created_by` |
| `Sees`, `Locked`, `Vacated`, `Filled`, `Referenced`, `Commit`, `Abort`, `Raise` | PostgreSQL: own changes over committed rows, row locks, locks taken by foreign keys, the ends of a transaction |

A request through PostgREST is a transaction of one statement. It selects its
rows under the policies and then changes them one at a time, each when its lock
is free; a row that another transaction removed meanwhile is passed over. The
trigger function is volatile, so each of its queries sees what is committed by
then together with the rows its own transaction has changed: this is what makes
a statement over several owners safe and two statements unsafe. Creation is one
step, because nobody can refer to an id that is not committed yet. An error ends the
transaction, and the connection is idle again.

A client's filter is taken to name rows by their key. The update policy asks who
owns the workspace a row was in and the one it will be in, and says nothing of the
columns: an owner of both may move a membership from one to the other, or to
another user, with its role or a new one (`Move`). Bound: one row in a statement of
that kind.

### `WorkspaceAccess`

| Model | Code |
|---|---|
| `Admit`, `RequireMembership`, `Satisfies`, `call` | `get_current_user`, `require_membership`, `WorkspaceRole.satisfies`: the caller and workspace a request was let in for |
| `UploadDocument` | the insert into `documents`, with its foreign keys to the workspace and the uploader |
| `DeleteDocument`, `FoundInWorkspace` | the delete by id and workspace |
| `Kept`, `RestrictUser` | `on delete cascade` of `workspace_id`, `on delete restrict` of `uploaded_by` |

Anything of `WorkspaceMembership` may happen between `Admit` and the statement.

## Runs and bounds

| Run | Question | Bounds |
|---|---|---|
| `store_races` | Do uploads of one content or two, and two deletes, leave the stores consistent when calls are refused, answers of a delete are lost and the process restarts? | 3 ids, 2 uploads, 2 deletes, one document stored before, 2 incarnations; `junk` is content that is refused. Neither a lost answer of an upload's write nor a refused compensation: these break the properties by the nature of two stores, and `reupload` and `lost_insert` say what is left then |
| `faults` | Do job, document, chunk table and graph agree under every failure, do their rows keep the abstract promises, and does a status answer name a job? | 1 document, 2 jobs, 2 requests, 1 delete, 3 incarnations with different chunks, the last with none; every call may be refused and may lose its answer; one status call at a time |
| `reupload` | Do runs stay apart, are attempts numbered in order and is the latest job the active one, when claims overlap, a document is deleted under its run and its content uploaded anew? | 2 ids, 3 jobs, 3 requests, 1 upload, 1 delete, 2 incarnations; the compensation and both calls of a delete may be refused, every write of an upload or a delete may lose its answer, and a run may find its document gone |
| `settle` | Does everything end, through a shutdown and the process after it? | 1 document, 2 jobs, 2 requests, 1 delete, 2 incarnations; one call of a run on each resource may be refused, and any call fails on a closed one |
| `text` | Are files turned away for stated reasons alone, and are text, offsets, sizes, pages and vectors right? | every text of up to 5 atoms out of 7 in two alphabets, byte files of up to 6, files of fences, files around the limit, up to 4 atoms with words and indents longer than a chunk, every document of up to 3 pages out of 8 page texts; chunk size 4, overlap 2, 2 characters a token, batches of 2; limit 40, read in chunks of 16, PDF window 3, sample 5, slack 3 |
| `members` | By what does a workspace lose its last owner, and does every membership and document keep what it refers to? | 2 users, 2 workspaces, 1 document row, 2 sessions: one removes, demotes and promotes, several rows at a time, moves rows and deletes accounts; the other adds and drops; one API request at a time. It starts from nothing, or from two workspaces of one founder and a user whose own is dropped (`Settled`), who may come to own both and be deleted |
| `manager` | Does a browser's list keep its own changes, and does no row stay in processing? | 1 document, 2 lists and 2 requests on their way at once |
| `lost_insert`, `restart`, `late_status`, `two_leave`, `unfollowed` | Is what a comment or a doc says true? | the smallest instance that shows it is not; see below |

Why these are enough. A document's jobs interact pairwise through the index and
through the document's row, so two jobs and two requests reach every kind of
overlap; a third of each is what it takes to lose a claim twice
(`JoinLatest`). Two ids are what it takes to upload a content again; a third
lets two uploads race beside a stored one. Two users and two workspaces are what
it takes for one statement to remove two owners of one workspace, or one user
from two, and for a row to move between them; with three of each TLC does not
finish, and the theorems hold for any number. Two lists overtake each other, and two
requests let an upload and the delete of what it uploaded overlap; `OwnChangesShown`
speaks of one document at a time and is proved for any number. Two deletes are what it takes for one
to find the other's half-finished work. Three incarnations give an old release,
a release that drops, keeps and adds a chunk, and one without any. In the text
instance the alphabets were chosen so that every alternative of the cleaner,
every level of the splitter, a span longer than a chunk, an indent longer than one,
an overlap that fits and one that does not, and a second batch all occur. `CharsPerToken` is 2
where the code has 4 and the chunk size 4 where it has 800, so that words of
seven letters are long; the ratios decide the behaviour and not the sizes.
(The properties also held with sizes and overlaps 3/1, 5/3, 4/0 and 2/1.)
For all sizes and texts there are the theorems.

`ReadBytes`, `Sniff` and the rest keep the order they have in the code: a chunk is
shorter than the limit, the sample is longer than the PDF window, and the slack
holds a cut character of three bytes. The limit is a setting: 40 is no multiple of
16, so the last chunk within it is a short one, and files of 16 and 32 bytes end
with a chunk.

The bounds in the modules themselves are `MaxBoot` (incarnations), the
finiteness of `Document`, `Job` and `Workspace`, which bounds uploads, claims and
created workspaces, and `List` and `Action` (calls of a browser on their way at
once).
Behaviours end when every request, upload and delete has been used up, so
deadlock is not checked: the system at rest is a state without steps.

What the passing runs show:

- `NoOrphanBytes`, `RowHasBytes`, `UniqueContent`: an upload that is refused or
  loses the race for its checksum takes its own object back, never the
  winner's, and never leaves two rows; only an upload that dies with its process
  leaves bytes behind.
- `RemovalNeverOrphans`: whatever fails, bytes without a row come from an upload
  that did not complete, because a delete removes the object first and stops
  when that fails. It is checked together with the runs in `reupload`.
- `RunsNeverOverlap`: between start and end of its job a task has the document to
  itself, also when the rows disappear under it.
- `HiddenOnlyByOverlap`: the latest job, which the status endpoint shows and a
  request that lost twice is handed, is the active one if there is one, but for a
  job that overtook it: one that was inserted before it although its own claim began
  while that one's was under way. A run claimed after the last one's row was there
  is never hidden.
- `AttemptsInOrder`: jobs claimed one after the other carry growing attempt numbers,
  whatever was deleted or counted in between; claims that overlap may share one.
- `ReadyIsRetrievable`: a document that reads ready has in the graph exactly the
  chunks Postgres holds, embedded by one model. The late `ready` of a run that
  ended may be written while the next run is rewriting; the property holds
  because both belong to one process and produce the same chunks, and a task
  never survives into the next release.
- `StageBoundsEffects`: the stage on a job's row never denies what its run did.
- `ImplementsLifecycle`, `ImplementsDocuments`: see above.
- `StatusNamesJob`: the status endpoint reads the document before its job, so an
  answer past `uploaded` has a job to show unless the document is gone by then.
- `StopLosesOnlyAbandoned`, `JobsSettle`, `DocumentsSettle`: while failures stay
  inside the `try` of `run`, every active job has a task, every job ends and no
  document stays in processing, through shutdown and restart, except for runs
  that were still going when the drain gave up.
- `CutRunsAreRecorded`: a run whose client or driver is closed under it still
  records its failure, because the pool is closed last.
- `DeleteCompletes`: a delete that is not refused ends with the document gone,
  whoever else removed the object or the row.
- `CapExact`, `TextAccepted`, `FailureExplained`, `ProseKept`: a file within the limit
  is read whole and one past it refused before it is kept; UTF-8 text without a
  NUL in its first bytes is never turned away; an accepted file can only fail its
  parsing or the storing of its chunks for one of six causes that the look at its
  sample cannot see, the last of which is a long word whose indent makes a chunk of
  its own (`IndentedLongWord`); at most one block of a Markdown
  file is taken for metadata.
- `ProvenanceExact`, `CleaningLossless`, `SpansExact`: cleaned offsets lead back
  to their characters, also at both ends of a chunk beside deleted text; no
  visible character goes but the hyphen of a broken word, and words are not
  joined.
- `TextCovered`, `ChunksAdvance`, `PagesAttributed`: every visible character is in
  a chunk, closers of a sentence apart; each chunk starts and ends after the one
  before it; pages are right for every chunk that starts and ends on one.
- `BudgetsKept`: chunks keep to their size and repeat no more than the overlap,
  but for two causes: blank lines in a row, whose separators no piece pays for,
  and, for the size, a stretch cut by counting characters, whose density varies.
  The overlap is "a budget, not a promise" in the other direction too: with size
  8 and overlap 5, blank lines can make a chunk repeat more than the overlap
  allows and still start after the one before it.
- `VectorsBelong`: vectors and chunks stay paired whatever order or number of
  items the provider answers with, as long as it names no index twice.
- `LastOwnerKept`: with one session at a time that takes owners away, a workspace
  that stays loses its last owner by one thing alone, a move that takes an owner's
  row to another workspace as an owner's: the trigger returns at `new.role =
  'owner'`. Statements over several owners, accounts that own several workspaces,
  changes of roles and drops do not. `two_leave` shows that two sessions do.
- `MembershipsRefer`, `DropNeverRefused`: a cascade, an insert and a move never
  pass each other, and the trigger lets every row go that goes with its workspace,
  whatever others have done to it by then.
- `DocumentsRefer`: an upload whose caller has meanwhile lost the membership, the
  workspace or the account is stored with both parents present or not at all.
- `OwnChangesShown`: the page loses a change of its own only to a list that was
  read before the change was answered and landed after it; the next one it asks
  for puts it right.
- `ShownResolves`: when a document has left processing for good, or is gone, the page
  does not go on saying that it is processing, however polls overtake each other
  and however long the run took. While other members and tabs start one run after
  the other nothing is promised, each poll may fall into the next; nor when a run
  never ends, as after `restart`: the page then says what is so.

## Fairness

`store_races`, `settle`, `manager` and `unfollowed` use it. A request handler or a
task is a coroutine on the event loop: it is resumed when its awaited call ends,
and every call to Postgres, Neo4j, the bucket or the provider ends, with an answer
or by its timeout. So each coroutine in flight is weakly fair (`StoreFairness`,
`LifeFairness`): an upload and a delete under way, a request past its first step,
a task that was submitted, and in `Lifespan` the drain, which has a deadline, and
the closing of connections. Nobody has to send a request, upload or delete, no
restart has to come, nobody has to stop the process or start the next one; a call
may fail each time. Weak fairness suffices because nothing disables a coroutine's
next step for good.

In `DocumentManager` the interval fires, each call on its way is answered and its
answer arrives (`PageFairness`; a connection that breaks is an answer, `refused`).
Nobody has to press a button, and nothing is assumed of the server: a job may
stay queued or running for ever, as after `restart`, and others may start runs
without end. Only `unfollowed`, which expects a violation, is checked with a server
at its best (`ServerFairness`: every job that was claimed starts, marks its document,
ends, and writes its outcome), so that its counterexample is the page's own.

The settling properties hold only when failures stay inside the `try` of `run`. The
start of the job, the lookup and the write of processing come before it, and the
two writes of a success and those of `_fail` behind: an exception in one of them is
logged by the guard, ends the task and leaves the job, or the document, as it is, the
same state that a restart without a shutdown leaves (`restart`).

## What is proved

| Module | Theorem | Property | Assumes of the constants |
|---|---|---|---|
| `DocumentStoreProofs` | `StoreTypeCorrect`, `ContentIsUnique`, `DeletesNeverOrphan` | `StoreTypeOK`, `UniqueContent`, `RemovalNeverOrphans` | - |
| | `CompensationIsEnough` | `NoOrphanBytes` | `StorageAnswers`: no write loses its answer, no compensation is refused |
| | `CompensationIsRight`, `RowsKeepBytes` | `CompensatesOnlyWithoutRow`, `RowHasBytes` | `InsertAnswers`: no insert loses its answer |
| `IngestionProofs` | `TypeCorrect`, `OneRunAtATime`, `PipelineNeverOrphans` | `TypeOK`, `RunsNeverOverlap`, `RemovalNeverOrphans` | - |
| | `ReadyDocumentsAreRetrievable`, `StagesBoundEffects` | `ReadyIsRetrievable`, `StageBoundsEffects` | - |
| | `JobsHiddenOnlyByOverlap`, `AttemptsAreInOrder` | `HiddenOnlyByOverlap`, `AttemptsInOrder` | - |
| | `StopLosesNothingElse`, `PoolClosedLast` | `StopLosesOnlyAbandoned`, `CutRunsAreRecorded` | `UnguardedHold`: the calls of a run outside its `try` do not fail of themselves, and no claim commits without its answer |
| `RefinementProofs` | `JobsImplementLifecycle`, `DocumentsImplementLifecycle` | `ImplementsLifecycle`, `ImplementsDocuments` | - |
| | `AnswersNameAJob` | `StatusNamesJob`, under `StatusSpec` | - |
| `WorkspaceProofs` | `TypeCorrect`, `DropsGoThrough` | `TypeOK`, `DropNeverRefused` | - |
| | `LastOwnersKept` | `LastOwnerKept` | `LoweringAlone`: one session takes owners away (removes, demotes, moves rows, deletes accounts) |
| | `OwnersKept` | `OwnerRetained` | `LoweringAlone`, `NoMoves` |
| | `MembershipsKept`, `DocumentsKept` | `MembershipsRefer`, `DocumentsRefer` | - |
| | `MembersKeptUnderAccess` | `LastOwnerKept`, `MembershipsRefer`, `DropNeverRefused`, under `AccessSpec` | `LoweringAlone` |
| `DocumentManagerProofs` | `ManagerTypeCorrect`, `OwnChangesAreShown` | `ManagerTypeOK`, `OwnChangesShown` | - |
| `IntakeProofs` | `LimitExact`, `TextGoesOn`, `MetadataOnly` | `CapExact`, `TextAccepted`, `ProseKept` | - |
| | `OffsetsLeadBack`, `CleaningKeepsWords` | `ProvenanceExact`, `CleaningLossless` | - |
| `ChunkingProofs` | `PackingAdvances`, `ChunksCoverText`, `ChunksQuoteSource`, `PagesFit` | `ChunksAdvance`, `TextCovered`, `SpansExact`, `PagesAttributed` | - |
| | `PackingKeepsBudgets` | `BudgetsKept` | - |
| | `VectorsFitChunks`, `FailuresExplained`, `TypeCorrect` | `VectorsBelong`, `FailureExplained`, `TypeOK` | - |

A dash stands for the assumptions the modules state themselves
(`StoreAssumption`, `StoredAssumption`, `IngestionAssumption`,
`MembershipAssumption`, `ManagerAssumption`, `IntakeAssumption`,
`ChunkingAssumption`, `PipelineAssumption`): that the marks for "none" are not
members of the sets they stand beside, that `Stored` is a set of documents that
can have distinct contents, that `MaxBoot` is positive and `ChunksOf` a function
on incarnations, that users and workspaces are told apart; that files are
sequences of bytes and of pages, that sizes and limits are positive, that the
overlap is smaller than a chunk and the slack of the sample two bytes at least
(what the longest cut character leaves; the code has four). TLC evaluates them on
every run of a module that extends theirs. Each theorem holds for every set of
documents, contents, jobs, requests, calls, users and sessions, whatever calls
may fail or lose their answers, and for every file. `StorageAnswers`, `InsertAnswers`, `UnguardedHold`,
`LoweringAlone` and `NoMoves` are hypotheses of their theorems: without them the
properties are false, and `lost_insert` and `two_leave` show two of the
counterexamples. `NoMoves` is not true of the program; `OwnersKept` is there to
say that moving is all that a single session can do to leave a workspace
ownerless.

### The stores: `DocumentStoreProofs`

Two calls may carry the same document, so `OwnInv` says who owns what:
`IdsAreMinted` and `IdsAreOwned`, that ids that occur anywhere were minted and
that no two uploads carry one; `WritingIsNew`, that an upload which has yet to
insert its row is the only one to know its id. `ContentIsUnique` then is the guard
of the insert. For the bytes, `Accounted(ways)` says that each object without a
row is that of an upload which stands at, or ended in, one of `ways`
(`LeftBehind`). It is proved inductive for two values at once: every way an
upload may fail to complete, which gives `DeletesNeverOrphan` with no assumption,
and the smaller set that `StorageAnswers` leaves, which gives
`CompensationIsEnough`. `BytesInv` is the other direction: a row has its bytes
unless a delete was aimed at it, which the compensation keeps because it removes
bytes only of a row that was not written.

### Runs: `IngestionProofs`

**`TypeCorrect`: `Spec => []TypeOK`.** `TypeOK` is not inductive: a call writes
to the document it carries, and `TypeOK` allows it to carry none. `TypeInv` adds
that an upload, a delete or a request past its first step carries a document
(`StoreCallsBound`, `RequestsBound`), that a job that was ever inserted has one
and that a task runs only for such a job (`JobsBound`), and that finitely many
job ids were used, without which `NextAttempt`, a cardinality, would not be
known to be a number. One lemma for each group of actions shows that it is kept
(`UploadTypes`, `DeleteTypes`, `RequestTypes`, `TaskTypes`, `CascadeTypes`,
`CrashTypes`).

**`OneRunAtATime`: `Spec => []RunsNeverOverlap`.** `RunsNeverOverlap` speaks of
tasks, the index of rows, and the two part company when a document is deleted:
the row is gone and the task goes on. `RunInv` relates them:

- `UploadsFresh`: the id an upload is about to insert has never had a row, and
  no two uploads carry one id;
- `JobsPlaced`: a job that exists has a document with a row, so a document
  whose jobs are gone can have no new ones;
- `OneActive`: at most one active job per document, the index;
- `RunsStarted`: a task inside the pipeline has a row that is running, or gone
  with its document;
- `RunsNeverOverlap` itself.

The step that matters is `StartJob` (`TaskRuns`): the job was queued, so by
`OneActive` no other row of its document is active and by `JobsPlaced` none is
gone; by `RunsStarted` no other task is then in the pipeline. `Claim` keeps
`OneActive` because it finds no active job (`ClaimRuns`), and a cascade moves all
jobs of a document to gone together (`DeleteRuns`). The insert keeps `JobsPlaced`
because of `UploadsFresh` (`UploadRuns`).

`PipelineNeverOrphans` carries the store's `Accounted` over to `Ingestion`, whose
steps are the store's or leave both stores and their calls alone.

### What a run leaves: `IngestionProofs`

`ReadyIsRetrievable` does not follow from `RunsNeverOverlap`, since the outcome is
written after the job has ended. `ReadyInv` says what every task knows of its
document at its place (`Progress`): before it reaches the end, the document does
not say ready or is complete for this process (`Safe`); after storing its chunks
these are the ones this process makes; between the graph's transactions the node
exists, and nothing else than those chunks is left once the stale ones are gone;
from the last one on, both stores are complete (`Full`). `Keeps` is what a
step of one run must not take from another, and each step of any run of the same
process keeps it because all of them write the same. A restart changes what would
be written, and leaves no run.

`StageInv` follows the stage of a task and of its row through `Advance`.

### The order of jobs: `IngestionProofs`

`HiddenOnlyByOverlap` and `AttemptsInOrder` compare a stamp and a number that a claim
took when it began with rows that were inserted until it ended. `OrderInv` relates
the two:

- `RequestsPlaced`: a request is about a document that no upload is still to insert,
  so once its row is gone it stays gone, and the claim is refused;
- `RowsInOrder`: a stamp is older than its row, a row is one the table received,
  and no attempt exceeds the number of the document's rows;
- `ActiveIsLast`: an active job was inserted after every other of its document,
  which is what the partial index does, for it lets none in beside it;
- `ClaimsInOrder`: what a claim under way has taken still fits: its stamp is past no
  insert to come, its number exceeds that of every row the table had by its stamp,
  and is at most one more than there are rows now, unless the document is gone;
- `AttemptsInOrder` itself.

The last part of `ClaimsInOrder` is why the number never runs ahead: rows of a
document go all at once and never come back, so between the count and the insert
the count can only grow (`OrderClaim`). A job that is later by its stamp than the
active one and was inserted before it (`ActiveIsLast`) has a stamp older than its
own row and not older than the active one's, which is `HiddenOnlyByOverlap`.

### Refinement: `RefinementProofs`

Beyond `RunInv`, `PlacedInv` is needed: an unused job has no document, a cancelling
task's document has no row, and a task past its mark has a document that no longer
says uploaded. From these every action maps to one step of the abstract module or
to a stutter: `Claim` to the abstract claim, a cascade to `Remove`, `Finish` and
`Fail` to `End`, the last write to `Settle`, and a crash, which changes no row, to a
stutter. `run` of `DocumentLifecycle` is a function of the job rows, so each action
on jobs comes with a lemma on the active run of its document and of the others
(`SameRun`).

`AnswersNameAJob` adds what the status endpoint relies on between its two reads
(`StatusInv`): a document past `uploaded` has a job with a row (`JobBehind`), a
call that has read such a document keeps that job until the row goes, and a row
that goes never comes back, because ids are minted once.

### Owners and references: `WorkspaceProofs`

`LastOwnerKept` is about what is committed and the trigger about what one
transaction sees. `OwnerInv` relates them:

- `LocksApart`: no row is changed by two transactions at once;
- `Shaped`: the kind of a statement says what its transaction has changed (a
  promotion only made owners, an insert only touched rows that are still absent);
- `DropShaped`: the drop of a workspace touches its own rows and no others;
- `MoveShaped`: a move takes one row to a place in a workspace there has been;
- `Placed`, `RowsPlaced`: nothing concerns a workspace whose id is not minted, so a
  new workspace starts with its owner and nobody's pending change;
- `OwnersLeft`: a transaction that takes owners away sees an owner in every
  workspace that has one, unless it is a move that has taken an owner's row out of
  it (`MovedOut`). This is the trigger's promise and its gap; `TriggerKeepsOwner` is
  the step: more than one owner was seen, so another than the one about to go
  remains. `MoveRowOwners` is that step for a row that changes its key.

`CommitKeepsOwners` then needs `LoweringAlone`, that at most one session sends
removals, demotions, moves and account deletions: any other commit only adds owners
or takes a whole workspace with it, and so cannot make the count of the one stale.
Without that assumption the theorem is false (`two_leave`). `OwnersKept` follows: a
session that does not move rows leaves every workspace its owner. `DropsGoThrough`
has an invariant of its own, `DropInv`, and no such assumption: what a drop has yet to
remove is of its own workspace, of which the trigger sees that it is gone
(`DropRefusesNothing`).

`MembershipsRefer` is about committed rows as well, and `ReferInv` about what is
on its way to them: what a transaction has changed (`Written`, and `Moves` for a row
on its way to another key), that a row at a new key names a workspace and a user
that exist and that nobody is deleting (`AddsRefer`; what the row named before
its move is kept by `CascadeCovers`), and that a deletion of either has taken every row that names it
into its own transaction before it removes the parent (`CascadeCovers`). For
documents `UploaderStays` adds that an account is never on its way out while a
document names it, which is the restriction by `uploaded_by`.

### The stop: `IngestionProofs`, last part

`HeldInv` says who holds an active job: its task, a request about to submit it, or
nobody once the drain gave it up. It is inductive because of two facts on tasks
(`InPlace`: the job of a task that has not started is queued or gone, and a task
past the end of its job holds none) and one on requests (`Submitted`: the job
handed to a request has no task, and no other request has it). `DownInv` is about
the way down: past `serving` no request is in flight, and past `draining` every
pending task has been given up, so a call that finds its client closed
(`CutHolds`) and a restart (`RestartHolds`) take only tasks that were.
`PoolClosedLast` is then the order of `Phases`: a call outside the `try` is cut
only once the pool is closed.

### The page: `DocumentManagerProofs`

A list is right about the page's own changes except about documents it is
`stale` for (`Agree`). `ManagerInv` says so of the page and of every list that was
read and has not arrived. It needs that what the page was told, or is about to be
told, is so (`Told`), and that a deleted document never appears again, because no
id is minted twice and a document without a row has no run that could mark it.

### From bytes to a clean text: `IntakeProofs`

The operators of the text modules are recursive functions, and what such a function
returns is proved in two steps. `RecursionExists` says that a function which refers
to its own values of smaller rank exists, so that its definition, a `CHOOSE`, has its
equation. `Descend` and `Ascend` then give induction over a range: a set of
numbers that holds each number whose smaller ones it holds is the whole range,
because the least one missing (`NatLeast`) would belong to it. These two are
stated for sets and not for predicates, which is what makes them usable here.

The cleaner is such a scan. `MatchesAre` says what each alternative of
`_ARTEFACT` matches at an offset, and `ScanStep` draws it together: whichever is
taken, a step keeps a character, leaves a newline or a blank in place of what it
deletes, or deletes only whitespace, zero-width characters and broken hyphens.
What is left from an offset on (`Remains`) is in order, complete but for broken
hyphens, joins no words (`Apart`), and begins so that what stands before it does
not join them either (`Heads`): the last part is what makes the others
inductive, since an alternative may delete up to the next line. `ToSourceIs` shows
that grouping edits into runs and reading an offset back from them gives the edit
itself.

`IntakeInv` says how far a file is read at each stage and that `type` and `extracted`
are what the detection and the parsers make of it; `CleanInv` the same of the
cleaned text. `TextGoesOn` needs that a cut leaves of a character all but one of its
bytes at most (`PrefixDecodes`). For `MetadataOnly` a fence is one line (`FenceIsLine`),
so a fence of the block other than its two would be the first line behind the
opening one, or an earlier closing one.

### From a clean text to its pieces: `SplittingProofs`

`SplitIs` proves of every division, at each of the four levels and for every span,
that it is `Divided`: its pieces are spans that follow each other, and what they leave
out is whitespace or closes a sentence. The recursion goes to the next level, or from
a span to its segments, and ends because the level rises (`SplitUnfolds` gives its
equation).

`SplitChained` says two more things of the pieces of a text, which the budgets rest
on. Each has no more tokens than a chunk, or no word ends inside it, and a piece of
blanks alone begins in a stretch that is too long for a chunk (`AllFit`). And
where a piece does not lead to the next one (`Chained`), what lies between is
whitespace, and the boundary before it is that of a paragraph. The induction goes from
the last level up. Its claim for a level (`Sound`) is stronger, that between the
pieces of a sentence, and before the first of them, there is nothing at all (`Tight`).
That holds because the boundary of a sentence or a word takes all the whitespace there
is, so the segment behind it begins with a visible character (`Dividing`), but only
for a span that does not itself begin behind the end of a sentence, and by characters
only for a span that words do not divide (`Ready`). Paragraphs are the exception: their
boundary ends at its second newline, and the segment behind it may begin with blanks,
or be blank altogether and have no piece.

### From pieces to vectors: `ChunkingProofs`

`PackInv` relates the
state of the packing loop: the chunks are spans that advance, with the source and pages of
their text (`Made`); the pieces of the chunk at hand follow those of the last one
(`Ahead`), and those not packed follow them; and all three together hold every
character that is not `Loose`. The step is `PackPieceStep`: what is carried over is
a proper end of the chunk emitted, so the next chunk starts later, and the piece that
did not fit makes it end later. `ChunksQuoteSource` and `PagesFit` add that offsets are
monotone in the source (`SourceMonotone`) and pages in offsets (`PageMonotone`).

`BudgetInv` is the invariant behind `BudgetsKept`: the pieces at hand meet and fit and,
when there are two or more, cost no more than the size (`Budgeted`); the chunks emitted
keep both budgets (`Keeping`); and so does what the chunk at hand repeats of the last
one (`Handing`). The sum the code compares is one of pieces, the property is about the
tokens of a span, and a count is not additive: a word that a cut divides may have a
token more than before. `TokensJoin` shows that it never has one less, by giving each
token of a text one of its parts that stands for it (`StandIn`). `SpanCosts` then
bounds the tokens of a span by what its pieces cost: the whitespace between two of
them is paid for by neither, but has a token only where it has a newline, and there
the paragraph's boundary before it makes three in a row (`GapNewline`). For what is
carried over `CarriedCosts` adds that an end of some pieces costs no more than all of
them, since it is cut twice, once to the overlap and once to the room that the next
piece leaves.

`EmbedInv` says that the vectors are of chunks that were sent, in ascending order;
as many vectors as chunks are then all of them (`AllListed`). `FailInv` keeps for a run
that failed at its chunks that one of them is not `Storable`. If it holds a NUL,
`NulOfSource` takes that character back through chunk, map and parser to the file. If
it is spaces alone it is blank, so by `AllFit` it begins in a stretch too long for a
chunk that no word ends in, one end of which is then whitespace (`BlankChunk`): the
stretch is a long word with its indent.

## What is only model-checked

- The liveness properties (`DeleteCompletes`, `JobsSettle`, `DocumentsSettle`,
  `ShownResolves`): fairness and `ENABLED` are not within the prover.

## Disagreements between the code and what it says

Each is a run that checks one statement and finds it violated. The counterexamples:

| Run | Statement | What happens |
|---|---|---|
| `lost_insert` | compensation runs when "the row was not" written | the insert commits, its answer is lost, the object is removed under the row |
| `restart` | on losing a claim, "the document is being processed" | a restart took the task; the row stays active and blocks every later claim |
| `late_status` | "the document says whether it is usable" | a failed run ends its job; a second is claimed and succeeds; the first writes `failed` on the document |
| `two_leave` | "A workspace must never be left without an owner" | two owners leave in overlapping transactions, each counts the other |
| `unfollowed` | "it is not finished when this responds. Poll ... to follow it" | the one refresh after a process request is read before the run has marked the document; nothing the page shows is processing, so it never asks again |

Met on the way and visible in the models, though not runs of their own:

- `DocumentService.delete` speaks of the derived data that the routes remove; the
  node, the chunks and their vectors stay in the graph, and
  `ChunkGraph.delete_document` has no caller.
- A claim may be overtaken. Its `created_at` is taken; another claim begins, inserts,
  is run and ends; then the first inserts. Its job is active, and "Most recent run"
  (`ingestion_job_repository.py:59`, `order by created_at desc`) is the finished one:
  the status endpoint shows that, and not the one that runs. `HiddenOnlyByOverlap`
  is what is left.
- `start`, the lookup, the write of processing and the two writes of a success are
  awaited outside the `try` (`ingestion_service.py:186`): one statement that fails
  there ends the task in `_guard`, with the job active and nobody to end it, although
  a task is to record its own failure (`background.py:75`). The trace: upload,
  process, the update of `start` raises.
- An owner of two workspaces may update their own row of one to a free key of the
  other, with their role (`20260911000400:104` permits it and the trigger returns at
  `20260911000300:47`): the first is then ownerless, although a workspace "must never
  be left without an owner" (`20260911000300:35`). `LastOwnerKept` excepts it.
- The bracket or quote that closes a sentence is part of the boundary and in
  neither chunk (`chunking.py:54`; `TextCovered` excepts it), although chunks "never
  skip a character" (`chunking.py:230`; reproduced with the Python implementation).
- Cleaning is not idempotent and leaves more than one blank line (`cleaning.py:53`,
  against `cleaning.py:143`): a zero-width character between newlines leaves three of
  them, and a second pass would take one away.
- A chunk that starts or ends in a page separator, as after a page that ends in a
  blank line with a space on it, or between pages of which one holds nothing but a
  zero-width character, loses pages that its text lies on, all of them if both ends
  do (`chunking.py:359`; `PagesAttributed` speaks of chunks that start and end on a
  page), although `_pages_covered` promises "Every page the chunk's span touches"
  (`chunking.py:351`).
- A chunk may exceed the configured size in the two ways `BudgetsKept` names. The
  window of the last resort is an average (`chunking.py:250`), though pieces are to
  be "no larger than one chunk" (`chunking.py:177`): of a word of 3,200 letters with
  1,600 punctuation marks behind it, the marks make a chunk of 1,600 tokens where 800
  are allowed. And an empty segment is dropped without its separator
  (`chunking.py:238`), which no piece then pays for: "aa", two newlines, a space, two
  newlines, "aa" has 6 tokens where 4 are allowed. Both reproduced with the Python
  implementation.
- A chunk may be blank: the indent of a long word, as long as a window of
  characters, is a piece of its own (`chunking.py:253`), and a chunk if it fits beside
  neither neighbour: 3,200 letters, a blank line, 6,000 spaces and 8,000 letters
  (reproduced) make one of 5,600 spaces. Postgres refuses it
  (`document_chunks_text_not_empty`); one of tabs passes that check, and `embed_texts`
  refuses it (`provider.py:62`). Every run over such a file fails.
- A text that mentions `%PDF-` in its first kilobyte is stored as a PDF; a NUL
  behind the sample is refused by Postgres as the chunks are written; bad bytes
  at the end of a sample that is the whole file are let through. Each of these
  fails the run and not the upload (`FailureExplained`). An empty front matter
  block, a fence under a fence, takes what follows up to the next rule with it
  (`ProseKept` excepts it).
- The documentation of `ProcessingStatusResponse` says that a document can be
  ready while its latest job failed; `_fail` makes the document fail as well.
- In the browser: `IngestionStage` lacks `embed` and `index`; a row may be shown
  twice, or come back for one list, when answers arrive out of order.
- An account that uploaded a document cannot be deleted while the document
  exists; a token outlives the account that it names, so the user lookup may find
  none.

## What is not modelled

- `ChunkGraph.delete_document` has no caller. Schema setup, pools, drivers,
  logging and settings have no protocol of their own.
- What PyMuPDF finds in a PDF is an input; titles and other metadata are left out.
- Chunk ids are deterministic hashes; they are members of `Chunk`. The byte-pair
  tokenizer is a library's table.
- Which status code and text a refusal carries; signature, audience and expiry of
  a token, which a library checks on one token.
- Bytes and graph nodes of the documents of a workspace that is dropped: the
  cascade is inside Postgres and no code could remove them, so `WorkspaceAccess`
  has rows only.
- A second API process, and a call of a process that arrives after its end.
- Renaming a workspace or a profile, moving several membership rows in one statement,
  lists other than that of the documents.
- Sessions of the frontend: redirects decided by one request each.

## Plan

Done, in order: the core (`DocumentStore`, `Ingestion`, `JobLifecycle`), the text
pipeline, `WorkspaceMembership`; then `DocumentLifecycle` and `DocumentManager`,
`Lifespan`, `ProcessingStatus`, `TextIntake`, `WorkspaceAccess`; theorems for every
safety property of the store, the pipeline, the status endpoint, the memberships,
the stop, the page and the text, and both refinements.

Left, most useful first:

1. Two API processes over one database: what the in-process runner then no
   longer excludes, and what the index still does.
2. The rows of the page as a sequence, if the order or the number of rows comes
   to matter.

## How to run it

In this directory, with TLC, the community modules and TLAPS installed:

    tlc -workers 2 -config MCProcessingStatus_faults.cfg MCProcessingStatus.tla
    tlapm RefinementProofs.tla

`PROJECT.json` lists every run with its module and configuration. The runs marked
"violation" are expected to end with a counterexample, all others without
error, each within a few minutes.
