# FullStackScheduler: verification project

FullStackScheduler is a shop-floor scheduler for a board house: workbooks of
jobs are uploaded, staged row by row, reviewed by an operator and turned into
jobs; jobs are shipped, discarded and restored; photos of shipped work are
copied, thumbnailed and downloaded as zip archives. The backend is FastAPI over
SQLite (`src/backend/app`), the frontend is Vue 3 (`src/frontend`).

This directory holds TLA+ models of the backend, the TLC runs that check them
on small instances, and TLAPS proofs of what matters most. `PROJECT.json`
is the machine-readable index: components, runs, mutants, the map from each
definition to its source lines, findings, hazards and theorems.

## 1. Inventory

Paths are relative to `src/backend/app`.

| Component | State it keeps | Operations | What is hard | Modelled by |
|---|---|---|---|---|
| Job store and row transform (`transform.py`, `models.py`, `services/upserts.py`) | table `jobs` | `transform_staging_row` looks up the active job with the row's identity, inserts or updates it, ships or un-ships it | the identity index has nullable columns, so SQLite does not enforce uniqueness; a row can fail after the job was written | `JobStore` |
| Staging review (`services/staging.py`, `api/staging.py`) | table `import_staging_rows`: status, group key, resolved job, discarded | correct, discard, restore (with a resolution action), re-evaluation of a duplicate group | several commits per request, reads before the transaction starts, groups that shrink by different routes | `StagingGroups`, `RowLifecycle` |
| Workbook ingest (`ingest.py`, `api/ingest.py` upload) | `import_batches.status`, staging rows | stages 1-6: duplicate guard, read, stage, collision marks, per-row savepoints, commit, missing-job sweep | crash between savepoint commits; same file uploaded twice at once; which jobs the sweep may discard | `WorkbookImport`, `BatchLifecycle` |
| Batch review (`api/ingest.py`) | review status and overrides of rows | set canonical, split suffix, revert, verify, delete, confirm, abandon | confirm runs the stages in a session of its own after its gate; a review request or an abandon can land in between | `WorkbookImport` |
| Jobs service (`services/jobs.py`, `api/jobs.py`) | `jobs.discarded_at`, history edits | discard, restore with a resolution action, edit a shipped job, lists, lineage | restoring a job whose identity came back meanwhile; two edits of one job | `StagingGroups` (restore with actions), `SecondOps` |
| Second operations (`services/second_ops.py`) | one record per job: lines, note, time of review | replace, carry forward to the next job of a lineage | the guard is read before the write lock; a record moves to a new id when a swept job comes back | `SecondOps` |
| Session and dependencies (`db.py`, `api/deps.py`) | engine, one session per request | open, commit, roll back | the driver opens the transaction at the first write, not at the first read | boundaries of every database action |
| Thumbnails (`services/photo_thumbnails.py`) | in-flight map, permit counters, disk cache | acquire and release permit, generate once, sweep | waiters for another thread's result, permits, deadlines | `ThumbnailGate`, `DecoderPool` |
| Thumbnail warm-up (`services/photo_warm.py`) | queue of folders, the folders known, worker thread and mark | enqueue with eviction, worker loop, shutdown | the worker retires while work is enqueued; a shutdown leaves a worker behind | `WarmQueue` |
| Photo auto-copy (`services/photo_sync.py`) | run flag, `photo-sync-state.json` | scheduled and manual runs, window of dates, walk, copy | two runs at once; settings that change under a run; a day recorded although something was left | `PhotoSync`, `SyncWindow` |
| Archive download (`services/photo_files.py`, `api/photos.py`, `services/archive_zip.py`) | permits, sessions, reader threads, bounded transport | preflight, stream, emit, release | five paths release one session; a reader and a response that wait for each other | `ArchiveDownload` |
| Archive tickets and status (`services/archive_tokens.py`, `services/archive_status.py`) | tokens, download status | issue, inspect, bind, settle, record, expire, evict | a ticket is used once; records of several requests on one token in any order | `ArchiveDownload`, `TicketUse` |
| Runtime configuration (`services/runtime_config.py`, `api/settings.py`) | a JSON file and a cache of it | load, save, the settings routes | the two routes check each other's settings before they save | `PhotoSync`, `PhotoFolders` |
| Update hub (`updates.py`, `api/__init__.py`) and its page (`useUpdateChannel.ts`) | publish queue, connected sockets; a page's timers and socket | publish, fan out, evict, register; watchdog, reconnect | order under slow sends, a socket that missed an event, a late onclose | `UpdateChannel` |
| Shipping photo folders (`services/shipping_photos.py`, file index of `photo_files.py`) | list of dates with a TTL and a generation, file index per folder | lookup, probe, evict, invalidate | answers that were under way when the directory changed | `PhotoFolders` |
| Shipping log (`services/shipping_log.py`, `api/shipping_log.py`) | the template, loaded once | candidates, eligibility with reasons, page layout, stamping | several SELECTs without a snapshot; page breaks and copied rows off by one | not modelled |
| Reports (`history_export.py`, `assemblies.py`, `sorting.py`) | none | read-only queries | - | not modelled |
| Reader and JOB grammar (`reader.py`, `extractors.py`) | none | parse a cell to an identity | text grammar | not modelled (its result is a constant) |
| Schemas, migrations, launcher, stores and views of the frontend | - | - | - | not modelled |

How they interact. The upload route calls the ingest stages; ingest, staging
corrections and group re-evaluation all write jobs through
`transform_staging_row` only. The staging and job endpoints read each other's
table: a row is restored only when no active job and no other row in error has
its identity, a job only under the same condition. An ingest that inserts a job
hands it the 2nd OPS record of the last discarded job of its identity, and ends
the time in which a record may be written when it ships the job. After each commit
a route publishes an event to the update hub. The thumbnail route and the warm-up worker
share the thumbnail permits and the cache; archive downloads have permits of
their own.

What makes each part correct:

* jobs: at most one active job per identity; a job's data come from a row that
  resolved to it; shipped jobs change only by a live workbook.
* staging: a row that resolved is final; a correction that fails changes
  nothing but the row; no duplicate group of one; two rows of one workbook do
  not overwrite each other; every live row is processed or can be acted on.
* 2nd OPS: no review is lost when a job is swept and comes back under a new id,
  and requests that check an identity before they write it keep active jobs apart.
* ingest and batch review: a batch moves forward only; no job is overwritten
  by a sibling; the sweep discards only what the workbook really dropped.
* thumbnails, archives, photo sync: permits are returned, waiters are woken,
  a ticket pays for one download, an archive that ends whole is whole, one run
  at a time, a day is done when its photos are.
* caches, queues and the update channel: no stale answer enters a newer cache,
  no folder is stranded in a queue without a worker, a page gets events in
  order and always tries to come back.

## 2. Plan

1. `JobStore`, `StagingGroups`, `RowLifecycle` and their proofs. *Done.*
2. `WorkbookImport`: ingest stages, review, confirm, sweep, over `JobStore`;
   abstract specification of a batch's life (`BatchLifecycle`). *Done, with
   its proofs.*
3. `ThumbnailGate`: permits, in-flight records, waiters; liveness of a request;
   abstract specification `DecoderPool`. *Done, with its proofs.*
4. `ArchiveDownload`: permits, tickets, status, reader and response over the
   bounded transport; abstract specification `TicketUse`. *Done, with its
   proofs.*
5. `WarmQueue`, `PhotoSync` (with `SyncWindow`), `UpdateChannel`,
   `PhotoFolders`: the background threads and the caches. *Done, with
   their proofs.*
6. `SecondOps`: the 2nd OPS record with History edit, discard and restore of the
   jobs service and the carry-forward of ingest. *Done, with its proofs.*
7. The pure algorithms as small specifications that run a plan and what is made of
   it together: the layout and stamping of a shipping log, the framing of an
   archive, the split-suffix rules of ingest; and the SELECTs of a shipping log,
   which are several snapshots. *Left.*

Every safety property that a passing run checks is proved, some under a
hypothesis that section 6 names. To follow: what the hypotheses `OneAtATime` and
`~MayFail` can be weakened to (two requests on different batches, a request that
dies before its first commit), and the properties of the algorithms of step 7.

## 3. Modules and their correspondence with the code

### JobStore

The jobs table and `transform_staging_row`, as constant-level operators.
`Ident` abstracts the five identity columns; `CellKind` is all the transform
tells apart in the other cells: refused before any job column is written
(`"invalid"`), refused after (`"badship"`, `_apply_shipped`), blank SHIPPED,
dated SHIPPED. `TargetJobs` is the active-job lookup with its insert branch,
`WrittenJobs` the update of the job. `writer` is a history variable: the row a
job's data were last copied from.

### StagingGroups

`rows` is the table `import_staging_rows`, `jobs` the table `jobs`, and
`req[w]` the local state of the request a worker thread runs. The actions are
cut where the database lets other requests in:

* Python's `sqlite3` driver opens a transaction at the first write; what a
  request reads before is not protected. `BeginCorrection` and `BeginDiscard`
  only read (`seen`). The row keeps in memory (`held`) what the handler set.
* A correction's first flush takes SQLite's write lock before it looks for
  siblings and jobs, so everything from there to the commit is one action:
  `CorrectionErrored`, `CorrectionCollides`, `CorrectionProcessed`. An UPDATE
  writes only the columns that differ from what was read (`Flushed`).
* After the commit each group left or joined is re-evaluated in turn
  (`SurveyGroup`, `SurveyLone` read; `SettleProcessed`, `SettleErrored`,
  `SettleHalfWritten` write and commit).
* A restore flushes before it checks, so it is one action, with its resolution
  action (`AfterAction`), as is the discard and the restore of a job.
* `Abort` ends a request between two of its commits (`MayFail`).

`Init` is what an ingest leaves: collision groups, validation failures and rows
deleted during review, over any set of planned and shipped jobs.

### RowLifecycle

What staging review promises of one row: open, discarded or resolved, resolved
being final. `StagingGroups!ImplementsLifecycle` is the refinement mapping.

### MCStagingGroups

Batches, kinds and symmetry sets for TLC.

### WorkbookImport

`batch` is the status column of `import_batches` (`"absent"` before Stage 3),
`rows` the staging rows, `review` what the review panel may still do with a
row, `jobs` the table `jobs`, `req[w]` the request a worker thread runs. Cells
of a workbook are fixed in `Init`; two workbooks with one file have the same
cells.

* `BeginUpload` is Stage 1, in a session that is closed before the workbook is
  read; `StageWorkbook` is Stage 3 with the two classifications of Stages 3.5
  and 3.6, one transaction, and either holds the batch or goes on.
* `BeginConfirm` is the gate of a confirmation. Its session, too, is closed
  before the stages open theirs, so anything may happen before `LoadRows`.
* `LoadRows` reads the rows without locking anything. What Stages 4 and 5 use
  of them later is what was read (`req[w].ident`, `AsLoaded`).
* Stage 5 opens a savepoint per row. With no transaction around it the
  outermost savepoint is the transaction, so `TransformRow` commits by itself,
  and its lookup and its write are one snapshot or the write is refused
  (`RejectRow` under `MayFail`). The first error changes that: `ROLLBACK TO`
  leaves the transaction open, and the marks of Stage 4 open one to begin with.
  From then on (`errored`) the request holds the write lock up to the end of
  Stage 6. Those steps stay separate in the model but exclude other workers
  (`At`), who would see nothing of them anyway; rolling them back
  (`LoopFails`, `Abort`) leads to what the same failure would have led to
  before the first of them, so both are only offered there.
* `FinishBatch` is Stage 6 with the sweep, one transaction.
* The review routes check the batch and the row, then write: `Begin...` and
  `Commit...`. `BeginSetCanonical` and `BeginSplitSuffix` both end in
  `CommitOverrides`; which split suffix the code computes is left open. An
  UPDATE writes only columns that change, so a row deleted in between may or may
  not get its review status back (`kept`).
* The verify route is left out: it wants review status `pending`, which nothing
  in the code assigns any more; `shown` stands for `verified` and `edited`.

### BatchLifecycle

What an import promises of one workbook: the set of open rows only shrinks, the
batch closes as processed exactly when it is empty, a closed batch is never
touched except that one in error can be abandoned.
`WorkbookImport!ImplementsBatchLife` is the refinement mapping.

### MCWorkbookImport

Positions, parts, files, kinds and symmetry sets for TLC.

### ThumbnailGate

`active` and `waiting` are the counters of the gate, `inflight` the map of
records under the thread that made them, `cached` the files in the cache
directory, empty ones for broken photos included. `pc[t]` is where thread `t`
stands in `generate_once`; the numbers in the comments are those of its
comments. Steps are cut at `_gate_lock`, `_inflight_lock` and each look at the
cache directory.

* A wait on the condition variable ends in `WaitEnds`, which looks at the gate
  once more as `Condition.wait_for` does, even after a timeout. A thread whose
  time is up (`Expire`) stays on the list of waiters until it has the lock
  again, so `Leave` can spend its notification on it (`late`). CPython notifies
  the longest waiter; the model leaves the choice open.
* `TakeOutcome` and `GiveUp` are the two ends of the wait for another's record,
  `told` its event. The deadline may pass at any time; a thread that starts over
  (`"rejoin"`) keeps what is left of it.
* `Generate` ends with a thumbnail, with the empty file of a broken photo, or
  with neither; `Evict` removes any file, as what is oldest is not modelled.
* `MaxRequests` bounds how often a thread asks.

### DecoderPool

What generation promises: at most `Limit` photos are decoded at a time, no photo
by two threads. `ThumbnailGate!ImplementsPool` is the refinement mapping.

### MCThumbnailGate

What the threads of an instance hold at first. A thread's key is not read before
its first request sets it, and photos are interchangeable, so it matters only
whether one of them is cached.

### ArchiveDownload

`tickets`, `issued` and `status` are the two stores of the archive tokens,
`permits` the two counters of `ArchivePermits`, `session[s]` a session object,
`handler[s]` and `reader[s]` the places of its request and its reader thread,
`pipe[s]` the transport between them. The event loop runs one callback at a
time, so what it does between two awaits is one action; the reader is cut where
another thread could tell.

* `Redeem` is the download route up to the await of the plan: admission, bind,
  permits, budget, thread. `StartFails` is the same when the thread cannot be
  started, `Refuse` every refusal, a lost bind included. `Caller` and `Local`
  stand for the loopback rule of a ticket.
* `Release` is `ArchiveSession.release` on the loop, where nothing comes between
  its steps. The reader's own release (`ReaderGivesUp`, `ReaderSettles`,
  `ReaderRecords`) is three steps, since the loop may come between them.
* An item stands for all the reader publishes of one file and a frame for what
  the response sends of it, because the protocol counts them and nothing tells
  bytes apart; `Credits` is the bound on items not yet taken. A frame is in
  flight (`"sending"`) from the hand-over until its bytes are counted.
* `Lapse` drops the oldest ticket. The budget timer (1800 s) and the reader's
  stall bound are not shorter than a ticket lives (300 s), so `BudgetEnds` and
  `ReaderGivesUp` wait for the ticket to be gone; this ordering of the default
  settings is what the passing run relies on. `MayRaise` lets the reader meet
  an unexpected exception at any time instead.

### TicketUse

What a ticket promises: held by one session at a time, given back unused or used
up, never held again once used. `ArchiveDownload!ImplementsTicketUse` is the
refinement mapping.

### SyncWindow and PhotoSync

`SyncWindow` is the arithmetic of the dates a run looks at. In `PhotoSync`,
`config` is the saved configuration, `put` what each of the two settings routes
has checked and not yet saved, `source` and `copied` the photos on either side,
`running` the flag `_worker_running`, `run[r]` what the worker or a manual run
is doing, `last` the recorded day.

* `CheckDir` and `CheckAuto` are the two settings routes up to the save: each
  compares its directory with the settings as they are, and leaves the
  comparison out when a directory cannot be resolved (`except OSError: pass`).
  `SaveDir` and `SaveAuto` write what was checked.
* `Start` is `_run_photo_sync_locked` up to the walk. Here, too, directories that
  cannot be resolved are not compared and the run goes on. It takes source and
  destination with it, so a save changes nothing under a run except `enabled`,
  which is read again before each entry.
* The source is a share: each look at it may fail, so there is no state of it that
  is up or down. `Unlisted` passes over a folder that is not to be seen or cannot
  be listed, and one entered after the stop; `Verdicts` may reject any entry,
  since what cannot be resolved or examined is rejected. Neither is counted. A
  listing that breaks half way raises through the run (`Raise`), and nothing but
  the flag is repaired.
* `NextDate`, `Visit...` and `EndDate` are the walk, newest date first, one entry
  a step. `VisitCuts` and `Deadline` are the caps, deadlines and errors that end a
  run; `VisitFails` is the second `stat` of an admitted entry, which hardly ever
  fails, because the answer to the first is kept.
* History: `owed` are the photos that were settled in the window when the run
  began, `missed` those it passed over without counting them. `blind` says that
  the saved directories overlap and no check could tell, because it could not
  resolve them or had looked at settings that were replaced before its save; a
  run's `blind` that its own check could not resolve them either.
* `Overlap` is the relation of paths the code tests (equal or nested).

### PhotoFolders

`index` is the cached list of dates with its generation, `files` the file
indexes in the order of their use, `disk` what is there, `client[c]` a request
or the end of a copy. `since` is history: the dates some directory had since the
cached list was made. Reads of configuration and generation that the code makes
outside its locks are steps of their own (`AskDates`, `ReadGeneration`).
Generations are only compared, so a number nobody holds is used again. Which
cached file indexes are within their time is left open at each use.

### UpdateChannel

`queue`, `drain` and `srv` are the publish queue, the drain task and the
server's end of each socket; `cli`, `page` the browser's end and the page's
timers; `link` says whether what one end sends reaches the other, `got` and `due`
are history. All sockets belong to one page that opens them one after the other.
`FanOut` is `fan_out` up to its await; its sends are answered in any order.
A link breaks without telling either end (`Break`); the server's keepalive
(`Leaves`), which belongs to uvicorn, finds it in the end. `MaxFaults` bounds
broken links, slow sends and watchdogs that fire early.

### WarmQueue

`queue`, `known`, `thread`, `running` and `stop` are the globals of
`photo_warm.py`, `worker[w]` a thread in its loop. A critical section is one
action: `Enqueue` evicts, adds and starts a worker; `NextOrRetire` takes a folder
or clears the mark. `Shutdown` and `ShutdownEnds` are the end of the application
before and after the join; `left` remembers whom it left behind. A photo
costs an answer of the gate or `MaxAttempts` refusals.

### SecondOps

`jobs` is the tables `jobs` and `job_second_ops_lines` (a row with its record in
`audit`), `req[w]` what a request has read, `clock` the time. The model is cut as
`StagingGroups` is:

* `ReadJob` is the SELECT of a PUT, discard, restore or edit with the early
  refusals (`Admitted`); it protects nothing. `seen` are the columns whose values
  as read matter later.
* `PutRecord`, `DiscardJob`, `RestoreJob` and `EditJob` start with the flush and
  end with the commit, all under the write lock. A flush writes the columns that
  differ from what was read (`Replaced`, `EditJob`), lines are deleted and
  inserted. The collision checks follow the flush but use the identity the request
  has in memory.
* `InsertJob` and `UpdateJob` are `transform_staging_row` of an accepted row, with
  `carry_forward_second_ops` (`Donors`, `CarriedAudit`); `Sweep` is the sweep of
  Stage 6, of any set of planned jobs. All three read and write in one
  transaction. How rows get there is `WorkbookImport`'s subject.
* An identity is two of the five columns, enough for two edits to touch different
  ones. A PUT is the tick it is stamped with, so its lines, note and stamp can be
  told from another's.
* `past` is history: the jobs a flush left under another identity than the one
  checked (`mistaken`), those audited or discarded after they had been closed
  (`late`), and the identities of jobs that an operator restored or edited
  (`moved`). `Kin(j)` are the jobs of the identity of `j`; `Disturbed(j)` says that
  the past of this identity is not a plain line of sweeps, returns and reviews.

`MCSecondOps` has the symmetry of parts and workers for TLC.

### MCPhotoSync

Photos, their dates and the overlap relation for TLC, and that the photo of the
first day is at rest when the server starts.

### The proof modules

`StagingGroupsProofs`, `WorkbookImportProofs`, `ThumbnailGateProofs`,
`ArchiveProofs`, `WarmQueueProofs`, `PhotoSyncProofs` and `SecondOpsProofs` each
extend the module they prove about; the first two begin with the same lemmas on
the jobs table. `FreshnessProofs` is about two components in which something may
come late, `UpdateChannel` and `PhotoFolders`, and extends both; each half speaks of
the variables and the specification of one, which is why those of `PhotoFolders`
are named `FoldersInit`, `FoldersNext`, `FoldersSpec`. Section 6.

## 4. Runs

Bounds are constants of the model: the sets `Row`, `Job`, `Ident`, `Worker`,
and `MaxJobDiscards`. A request is at most two re-evaluations long and
involves at most one other row of a group at a time, so two rows and two
identities reach every pair of steps, three rows are needed for a group that
shrinks and stays a group, or loses a row to the identity of the third. `Job` must exceed the jobs two rows and one
discard can create, or inserts would be cut off. Deadlock is not checked: an
office where nobody clicks is legal.

| Run | Question | Instance |
|---|---|---|
| `StagingSerial` | do single requests, interrupted or not, keep jobs unique, rows in their lifecycle and jobs unharmed by a correction that fails? | 1 worker, 2 rows, 2 identities, 3 jobs, every cell kind, both resolution actions, failures |
| `StagingGroupsClosed` | are duplicate groups never left with one member, and is one that shrinks settled in the end? | 1 worker, 3 rows, 2 identities, 2 jobs, restores without an action, no failures, `FairSpec` |
| `ImportSerial` | do deleted rows stay out, siblings resolve apart, the sweep spare what is listed, batches live as promised and uploads complete? | 1 worker, 1 batch of 2 rows, 3 identities of 2 parts, 3 jobs, forced uploads, no renamed part, no failures, `FairSpec` |
| `ImportConcurrent` | do identities stay unique when two requests race? | 2 workers, 1 batch of 2 rows, 2 identities, 3 jobs, renames, forced uploads, failures |
| `Thumbnails` | does the gate count right and lose no wakeup, is no photo decoded twice at once, and is every request answered though no timeout strikes? | 3 threads and the warm-up worker, 2 photos, 2 permits, 2 places, 1 request each, `MCSpec` (`FairSpec` from `MCInit`, one photo cached or none) |
| `Archive` | does every permit come back, one download come of a ticket, only a whole archive complete, and the status stay true? | 2 tokens (one of them loopback only), 2 sessions, archives of 0 to 2 files, 2 permits and reader slots, 1 credit, 1 ticket at a time, `FairSpec` |
| `Sync` | do runs exclude each other, copy into their source only when every check was blind, end, and record a day only with what they owed copied or passed over uncounted? | worker and manual run, 2 photos of 2 days, 2 directories, window of 1 to 2 days, `MCSpec` (`FairSpec` from `MCInit`, the first photo at rest) |
| `PhotoFolders` | do stale answers stay out of newer caches, and does the list of dates come right again? | 2 clients, 2 directories, 1 date with 1 sub-folder, 1 cached file index, `FoldersFairSpec` |
| `Updates` | does a registered socket get every event in order, and does the page come back? | 3 events (one of the page itself), 3 sockets, queue of 2, 2 connections, 2 faults, `FairSpec` |
| `WarmUp` | is no folder stranded or made twice, and is each made or dropped? | 2 dates with 2 sub-folders, up to 2 photos each, queue of 2, 1 sub-folder per date, 2 attempts, 2 threads, `FairSpec` |
| `SecondOps` | when two requests race, do jobs come to share an identity only by a mistaken flush, and does a job that comes back have the last review? | 2 workers, 2 jobs, 2 parts, 1 suffix, 3 timestamps |
| `PhantomJobBySettle` | a violation, see below | 1 worker, 2 rows, 2 identities, 3 jobs, restores without an action, no failures |

Two requests that race in staging review are not a run of their own: that jobs stay
unique and corrections that fail leave the jobs alone is proved for any number of
workers (section 6).

The type invariants are all proved (section 6). Those of `StagingGroups`,
`WorkbookImport` and `ThumbnailGate` are theorems and in no run; those of the other
modules are the first conjunct of an invariant of their run (`PermitsMatch`,
`RunsExclude`, `FreshNames`, `GetsAllInOrder`, `KnownMatches`,
`TwinsAreMistaken`).

Why the bounds are enough:

* Imports: two rows are what a collision, a partial failure and a sweep beside a
  row in error need; the third identity is the one a row is renamed to or a
  job that is swept has. `Threshold` is 3, so that two missing jobs are swept and
  three are not. What holds with failures as well is proved
  (`SerialBatchLife`, `DeletedStayOut`).
* Thumbnails: with two permits two threads hold one for the same photo at once,
  which is what the second look at the map, after the permit, is for. With four
  threads two hold the permits and two wait or, if one is the warm-up worker, are
  refused; a lost notification needs a permit holder, a waiter that times out,
  one that sleeps on and a thread that takes the permit first. A refusal because
  both places are taken needs a fifth thread and does not occur: that the limit
  is kept is proved for any number (`GateSound`). A thread asks once: it starts
  over within one request (`"rejoin"`), and another thread stands for a second
  request.
* Archives: two sessions meet on one ticket, one that is let go and one that
  redeems it again, and a second ticket evicts the first. With one credit reader
  and response wait for each other at every item, and two files give a first and
  a last member.
* Copies: a day that is missed and a day that is due need two days; a window of
  two dates has a newest and an older folder; two directories, of which one is
  offered as a source, are a pair that overlaps and one that does not. One photo
  is owed from the start, the other arrives, and may be too new to be copied.
* Folders: a late answer is late in the same way to any later generation, so
  two clients and one date suffice; one cached index is shed by a second.
* Updates: three sockets are the current one, one that closes late and one
  that the server has not given up; two faults break a link and evict another
  socket; the third event overtakes or is held back by two others.
* Warm-up: six folders fill a queue of two and make room by either rule; two
  threads are the one a shutdown left and its successor.
* 2nd OPS: two requests and two jobs are a pair that collides, or a job swept and
  the one that takes its record over; two parts let a flush leave a job under an
  identity nobody checked. The third timestamp is the one of a PUT or discard that
  comes late. Two donors to choose from need a third job; that, like any other
  number, is what `ReviewsAreCarried` is proved for.

One run shows a disagreement between the code and what its docstrings say
(`findings`): `PhantomJobBySettle`, in which a lone survivor with an unparseable
SHIPPED cell commits the job it half wrote.

The models reproduce further weaknesses, which explain the bounds of the
passing runs. Of staging and ingest:

* `NoLoneMember` needs restores that discard no row and requests that run to
  their end: the "discard" action of a restore re-evaluates no group, and nothing
  resumes a re-evaluation that died. `NoPhantomJob` needs rows without
  unparseable SHIPPED text.
* A correction to the identity of a sibling that already resolved overwrites the
  sibling's job (`services/staging.py:653`), and a correction of a historical
  row runs as live and un-ships a shipped job (`services/staging.py:643`).
* `ImplementsLifecycle` needs one request at a time: two requests that read one
  row before either writes discard or reopen a resolved row.
* `SiblingsResolveApart` needs confirmations that run to their end: Stage 5
  commits row by row, and when a confirmation is interrupted and repeated, gate
  and Stage 4 compare only the rows still pending, so a row renamed in between
  can take the job of one already resolved.
* `SweepSparesListedJobs` needs rows that keep their part: a row in error
  protects the part of its JOB cell, not the one it was renamed to.
* `UploadsComplete` needs uploads that do not die: after Stage 3 such a batch
  stays pending, and can be neither confirmed nor abandoned.
* `ImplementsBatchLife` and `DeletedRowsStayOut` need one request at a time.
  Stage 6 assigns the status without looking at it (`ingest.py:744`), so a batch
  abandoned while it is being confirmed ends as processed, its file perhaps
  uploaded again meanwhile; and a row deleted after Stage 4 has read the batch
  still becomes a job (`ingest.py:679`).
* Two uploads of one file can both pass the duplicate guard; a row deleted during
  review can be restored afterwards, also into a batch that is closed
  (`services/staging.py:428`), and is then pending and on no list.

Of jobs and their 2nd OPS records (why `LastReviewCarried` speaks of identities left
alone, and `TwinsAreMistaken` of mistaken flushes):

* A PUT that read an empty note and sends none leaves the note another PUT wrote in
  between, beside lines of its own (`services/second_ops.py:430`).
* The guard of a PUT is read before the write lock (`services/second_ops.py:409`):
  admitted while the job was planned, it replaces the record after the job has
  shipped or was discarded.
* Two edits of different identity columns of a job, both read before either writes,
  leave it with the identity of another active job, which neither looked up
  (`services/jobs.py:763`).
* A discard does not look again once it has the lock (`services/jobs.py:304`). One
  that comes late stamps a discarded job anew, which makes an older record the one
  that is carried forward.
* The SELECTs of a shipping log are several snapshots: the count and the page of the
  candidates can disagree (`services/shipping_log.py:263`), and a job restored or
  un-shipped in between is reported as shipped (`:370`). (Read in the code; not
  modelled.)

Of photos and archives:

* With `MayRaise` the reader's release records its outcome last: a retry admitted
  in between writes Preparing, the late Terminal replaces it, and the outcome of
  the retry is dropped (`services/photo_files.py:869`; `OutcomeLands` fails).
  With a status store of one entry a session's record can be evicted by another
  token's while it is live.
* The caps on permits and readers are looked at before the bind
  (`services/photo_files.py`, `api/photos.py:248`), and the object that holds them
  is made by the first request that needs it (`api/photos.py:274`); the model
  starts with it made.
* A day can be recorded as completed with a settled photo uncopied and nothing
  counted: an entry that cannot be resolved or examined is rejected
  (`services/photo_sync.py:194`, `:418`), a date folder that is not to be seen and
  a folder that cannot be listed are passed over (`:383`, `:400`), and so is one
  that is entered after the stop (`:394`). `CompletedMeansCopied` exempts just
  these (`missed`); a later run whose window still has the date copies them.
* The overlap of source and destination is not tested when a directory cannot be
  resolved (`api/settings.py:184`, `:306`, `services/photo_sync.py:329`), and each
  settings route tests against settings the other may be about to replace. A run
  copies into its own source only when both the settings got past their checks and
  its own check could not resolve them: `NeverIntoItself` says no more than that.
* A photo that settles after the window has passed its date is never copied; a
  run that crosses midnight records the day on which it ends (`:512`); an error
  that is raised while a folder is listed ends the worker until the next start of
  the server.
* A file index can be kept beyond `max_keys` (`services/photo_files.py:244`): the
  branch for an unknown sub-folder adds an entry and sheds none.
* After a shutdown that did not wait long enough, and a start in the same process,
  folders known before can stay known without being queued for a worker.
* A full publish queue drops an event (`updates.py:53`), and what is sent while a
  page reconnects is not sent again: `GetsAllInOrder` speaks of registered sockets
  only.
  The onclose of an old socket makes a page open another beside the current one
  (`useUpdateChannel.ts:119`); it then gets every event twice.

## 5. Fairness

`FairSpec` adds weak fairness of `Continue(w)`, the steps of a request that has
begun: a FastAPI worker thread runs to its end, and SQLite's lock is released
by every holder. Nothing is assumed of `Submit` (nobody must click), and
`StagingGroupsClosed` excludes `Abort`: the code has no repair for a request that
dies between the commit of a discard and the re-evaluation of its group.

In `WorkbookImport` `Continue(w)` is what follows in a request that has begun,
up to the end of Stage 6, and is weakly fair for the same reason. `Submit`,
`LoopFails` and `Abort` are not; `ImportSerial` excludes the last two, since
nothing in the code resumes an upload whose process died.

In `ThumbnailGate` `Continue(t)` is what a thread does when it is not asleep: a
running thread comes to run, and both locks are held for a few statements only.
The timeouts (`Expire`, `GiveUp`) and `Evict` are not fair, so
`RequestsAnswered` says that notifications and outcomes suffice. It needs
`MaxRequests`: while the cache cannot be written, a thread that starts over can
find a newcomer ahead of it each time, and only its deadline ends that.

In `ArchiveDownload` the event loop and the reader threads run (`Loop(s)`,
`Reader(s)`); a send returns or its stall bound strikes, so `FrameLost` counts as
a step of the loop while a frame is being sent; the clock runs (`Lapse`), and the
budget timer fires (`BudgetEnds`). Nothing is assumed of clients, and a response
may never start (`NeverStarts`): then only the budget ends the session.

In `PhotoSync` a run that is under way takes its steps (`Step(r)`); neither the
worker's tick nor any success in reaching the source is fair. In `PhotoFolders` requests
that have begun go on and the list of dates grows old; `IndexCatchesUp` assumes
in its statement that people keep asking and that the directory is left alone.
In `UpdateChannel` the drain task, the endpoint and the two timers run, and a
closing handshake ends; that a browser notices a dead link is not assumed, which
is what the watchdog is for. In `WarmQueue` the threads run (`Work(w)`).

## 6. Proofs

All are checked by TLAPS for every value of the constants that satisfies the
assumptions of the module: `NullsAreApart` and `ReviewAssumption` or
`ImportAssumption` for the first two, and `GateAssumption`, `ArchiveAssumption`,
`WarmAssumption`, `FoldersAssumption`, `SyncAssumption` with `WindowAssumption`,
`ChannelAssumption` and `TableAssumption` for the others. Some theorems have
hypotheses beside these, which are conditions of an instance and not of the code:
`OneAtATime` (requests of one component follow each other), `~MayFail` (none dies
between two commits), `~MayRename` (no part is overridden), `~MayRaise` (no reader
meets an unexpected exception), `Roomy` (the status store has a place for every
token). Each is said with its theorem, with what goes wrong without it.

Of `StagingGroups`:

* `TypeCorrect` (`Spec => []TypeOK`): `TypeOK` is inductive; one lemma per
  action group, because `Flushed` is shown to give a staging record from three.
* `JobsStayUnique` (`Spec => []OneActiveJobPerIdentity`): inductive with
  `TypeOK`. The argument is in the lemmas on the jobs table: a write goes to the active
  job with the identity or, if there is none, to an unused id. It holds for any
  number of racing workers and with failures, since the lookup and the insert
  are under one write lock.
* `FailedCorrection` (`Spec => ErroredCorrectionLeavesJobs`): from the
  auxiliary invariant that a request in `"correct"` has read a row in error
  (`SeenInError`): the flush must not be able to leave a stored "processed"
  status behind that the request believes to be an error.
* `SerialLifecycle` (`OneAtATime` proves `Spec => ImplementsLifecycle`): with
  one worker. The invariant `SerialInv` says that what the request read is what
  is stored as long as it has not written, that an open or discarded row has no
  job, and that a survivor about to be settled is an open row of the group.
  With two workers the theorem is false.
* `OnlyUnreadableMakesPhantoms` (`OneAtATime` and no cell of kind `"badship"` prove
  `Spec => []NoPhantomJob`), with failures at any step. `ErrorsWroteNothing` says
  more than the property: a row in error is the last writer of no job, discarded
  ones included. It needs `AllReadable`, also of what a request holds in memory,
  and `SerialInv`: the transform refuses before it writes a column exactly when no
  text fails to parse later. With such a text the property is false, which is what
  the run `PhantomJobBySettle` shows; with two workers, of two corrections of
  one row the second, which read it before, can put it back in error when the
  first has just written its job.
* `NobodyLeftAlone` (`OneAtATime`, `~MayFail`, no `"discard"` among the restore
  actions, finitely many rows prove `Spec => []NoLoneMember`). The property speaks
  of idle times only; `GroupsWait` says what holds in between: once a request has
  written its row, at most the group it left has one member, and that one is
  settled next. A row that joins a group cannot leave one behind (`JoiningWaits`),
  one that leaves is surveyed (`LeavingWaits`), and settling the last member
  dissolves the group (`SettlingWaits`). Restores that edit a row
  are covered, which the run `StagingGroupsClosed` leaves out.

Of `WorkbookImport`:

* `ImportTyped` and `ImportsStayUnique`: as above, by the same lemmas on the
  jobs table; the sweep only discards (`DiscardedUnique`).
* `SerialBatchLife` (`OneAtATime` proves `Spec => ImplementsBatchLife`), with
  failures at any step. The invariant `LifeInv` says what a request relies on
  between its steps (`RequestInv`: the batch is open, the rows not yet dealt
  with are exactly those pending and not deleted, an open transaction has a live
  row in error), and that a row of an open batch is in error only inside such a
  transaction (`ErrorsCloseTheirBatch`). From the two follows that "no error was
  counted" and "no row is open" are the same thing when Stage 6 decides.
* `DeletedStayOut` (`OneAtATime` proves `Spec => DeletedRowsStayOut`), from the
  same invariant: what Stage 5 transforms survived the review. With two workers
  both are false (section 4).
* `SiblingsApart` (`OneAtATime`, `~MayFail` prove `Spec => []SiblingsResolveApart`).
  The gate and Stage 4 compare identities as they were loaded, Stage 5 looks jobs up
  by identities row by row. `LoadedInv` says that what was loaded is still what is
  stored, that the rows of the batch that are not in error have different
  identities, and that each one dealt with has the active job of its identity;
  `ProcessedInv` that a row has a job exactly when it is processed, and that an
  open batch has such rows only while Stage 5 runs on it. This last fact is what
  an interrupted confirmation destroys.
* `SweepSparesListed` (`OneAtATime`, `~MayFail`, `~MayRename` prove
  `Spec => SweepSparesListedJobs`). For a resolved row it follows from `LoadedInv`
  (its job is in the set the sweep spares); for one in error from `PartKept`: the
  sweep spares the part of its JOB cell, which is the part of its identity unless
  the operator overrode the part.

Of `ThumbnailGate`, from `GateAssumption`, for any number of threads, photos,
permits and places:

* `GateSound` (`Spec => [](TypeOK /\ GateCounts)`) and `NoWakeupLost`
  (`Spec => []NoIdlePermit`): the three are inductive together (`GateInv`).
  `Moved` says how the number of threads in a set of places changes when one
  moves; most steps are those of a bystander (`BystanderKeepsGate`), which leaves
  the three at the counters.
  The types need the counts, since a counter that did not count threads could
  fall below zero. A notification spent on a thread whose time is up is not
  lost, because that thread, too, looks at the gate once more.
* `WaitersAreServed` (`Spec => []AwaitedIsRunning`), from `ClaimsHeld` (the map
  and the threads that generate agree) and `RecordsLive` (who waits has the
  record that is in the map).
* `DecodingIsPooled` (`Spec => ImplementsPool`): the keys in the map map
  injectively to threads with a permit other than the one that claims
  (`PermitsBoundFlights`), so there are fewer than `MaxConcurrent`.

Of `ArchiveDownload`:

* `TicketsUsedOnce` (`Spec => ImplementsTicketUse`), for any limits and with
  `MayRaise` too. The invariant `UseInv` says what the store holds of tokens that
  are not issued or gone (`StoreInv`), that only a released session is cancelled or
  settles late (`SessionInv`), and that a ticket is used up by the settlement of
  its holder, who has no second settlement to come (`SpentOnce`). A settlement
  touches no ticket but the one its session still holds (`SettleTouchesOwn`),
  an eviction none but the oldest (`DropTouchesHead`), and most steps are those of
  a bystander.
* `WholeArchives` (`Spec => []OnlyWhole`). `FlowInv` ties the three parties of one
  session together: the bounded transport holds the members after those taken, in
  order, and then at most one ending (`PipeOK`); every member in it costs a credit;
  the response has taken exactly the members it has sent, and the one it is sending
  (`TakenOK`). So the item at the head is always the one the emitter expects, and an
  ending is `Finished` only behind the last member.
* `PermitsCounted` (`Spec => []PermitsMatch`, types included). `CountInv` says that
  the counters are the cardinalities of the sets of sessions and readers that hold
  them; it needs the two above, since a release by any of its five paths must be the
  first one of its session. All three hold with `MayRaise`, and `SessionsInv` is
  their conjunction.
* `OnlyOneSends` (`~MayRaise` proves `Spec => []OneSender`). `SenderInv`: at most one
  session of a token is open and can still send (`OneOpen`), a live ticket is bound
  to that session or to none (`HolderOK`), and a release that is not yet settled
  belongs to a ticket that has lapsed (`LateOK`), which rests on the order of the
  time limits. A reader that meets an unexpected exception may release a
  session while a frame of it is being sent, and gives its ticket back.
* `LiveRecordsAreLive` (`Spec => []LiveStatus`) and `OwnOutcomeLands`
  (`Spec => OutcomeLands`), from `~MayRaise` and `Roomy`. `StatusInv`: a record that
  says Preparing or Streaming was written by an admitted session of that token that
  is not done (`OwnerOK`), and the record of every such session is that one
  (`WriterOK`). With a smaller store a record can be evicted by another token's
  while its session is alive, and the outcome finds none to replace.

Of `WarmQueue`:

* `NothingStranded` (`Spec => []NotStranded`: while the application is up and folders
  are queued, a worker that was not told to stop serves them) and `OneWorkerServes`
  (`Spec => []OneWorker`): the invariant `WarmInv` relates the mark to the thread
  that serves (`MarkMeansServing`), the stop to a shutdown (`StopMeansShutdown`),
  the queue to the mark (`QueueIsMarked`), and a serving thread without the mark to
  a shutdown that did not wait (`UnmarkedIsLeft`).
* `KnownWhileWaiting` (`Spec => []KnownMatches`, types included): `EachOnce` adds
  that no folder is in the queue twice and none is made by two threads or queued
  while it is made. Making room takes folders out of the queue and of `known`
  together: what `Siblings`, `Removed` and `Room` leave is a part of the queue,
  with each folder once (`RemovedIsPart`, `TailIsPart`).

Of `PhotoFolders`, for any number of threads, directories, dates and cached indexes:

* `ListsAreFresh` (`FoldersSpec => []FreshNames`, types included). `IndexInv` says of a
  thread that found a date on disk that the date may be shown in the index it
  missed it in, if that is the one still cached, and that while there is an index,
  every date on disk is one it may show. A scan starts a new generation, and
  no thread holds that generation (`GenerationIsNew`, by the pigeonhole principle:
  the model reuses generations that nobody holds, and there is one more than
  threads), so what comes late changes nothing.
* `FilesFollow` (`FoldersSpec => []FileIndexFollowsDir`). `FilesInv`: the file indexes are
  a cache, that is, have at most one entry for a folder (`IsCache`), and unless a
  change of the directory is on its way all are of the configured one. Lookup,
  eviction of the oldest, and the two invalidations keep this (`ListedCache`,
  `SyncedCache`, `OthersCache`, all from `PartIsCache`). It does not matter that
  two changes of directory race: the last to be answered empties the cache.

Of `UpdateChannel`, for any number of events, sockets, connections and faults:

* `MissesNothing` (`Spec => []GetsAllInOrder`, types included). `ChannelInv`: the
  queue is the unbroken run of events after the one the task took last
  (`QueueRuns`); a send is under way only for the event held and to sockets that
  were registered (`DrainRuns`); what a socket got is increasing, not beyond that
  event, and before it while the socket still waits for it (`GotRuns`); and what
  a registered socket lacks is at most that event, unless its send failed (`Lacks`).
  So a socket that missed an event is no longer registered when the next is sent.
* `AlwaysRetries` (`Spec => []TimerRuns`): whoever stops one of a page's timers has
  started the other.

Of `PhotoSync`, from `SyncInv`, for any photos, directories, runners, days and
windows:

* `RunsExcludeEachOther` (`Spec => []RunsExclude`), types included.
* `IntoItselfOnlyBlindly` (`Spec => []NeverIntoItself`): an overlap in the settings,
  or one that a route will complete when it saves, is accounted for by `blind`
  (`Accounted`), whatever the routes check and save in between; a run takes its
  pair with it, and with it whether it was blind (`Apart`).
* `DayRecordedWhenPaid` (`Spec => CompletedMeansCopied`): as long as a run has met
  no failure and no reason to end, every photo it owes is copied, missed, or still
  to come, by date or by entry (`Paid`, `Pending`). This needs that an owed photo
  stays settled and therefore listed (`Still`), and that nothing is seen of a date
  before it is entered (`Unseen`).

Of `SecondOps`, from `TableAssumption`, for any number of jobs, identities and racing
requests; both rest on `TableInv`, the types with the facts that ids are given in
order and that a request has read a job of the table:

* `OnlyMistakesMakeTwins` (`Spec => []TwinsAreMistaken`): a write gives one job an
  identity, and looks up who else has it in the same transaction (`TwinsByOneJob`),
  unless what it looked up and what it wrote differ, and then it is marked.
* `ReviewsAreCarried` (`Spec => []LastReviewCarried`). The property is not inductive:
  which record is carried forward depends on jobs long closed. `CarryInv` says of any
  two jobs of an undisturbed identity that the older is discarded, before the newer
  is if that is, and was not reviewed after it (`Precedes`), and that no timestamp is
  ahead of the clock. So the latest donor is the newest job that was ever reviewed,
  and no kin has a later review (`NewestIsCarried`).

Only model-checked is liveness (`LoneMemberIsSettled`, `UploadsComplete`,
`RequestsAnswered`, `AllReturned`, `RunEnds`, `IndexCatchesUp`, `ChannelRecovers`,
`KnownEnds`): fairness and ENABLED are out of the prover's reach. The recorded
violation (`PhantomJobBySettle`) is TLC's.

## 7. Abstractions and what is left out

* Text is not modelled: a JOB cell is the identity it parses to or `NoIdent`,
  a SHIPPED cell one of four kinds. Messages on rows are not modelled.
* A restore preview's blockers are compared across batches, as the code does;
  its warnings, which do not block, are left out.
* `resolved_job_id` of a row is never followed when a job is discarded, as in
  the code.
* A thumbnail's path, pixels and size are not modelled, nor that a sweep can
  remove a file between the answer and the response that opens it.
* Archives: names, timestamps, flags and checksums of the zip format, the
  comparison of a file's stat before and after, path checks and the route of one
  photo.
* 2nd OPS: the eight fields of a line, the bounds on a payload, and the reads (the
  record, the summaries of a page). A job whose build type is missing, which the
  code exempts from the collision check, does not occur. Restores that a staging
  row blocks are refusals (`Fail`). The timestamp of a discard is taken at its
  flush in the model and just before it in the code, so two discards that overlap
  are stamped in the order in which they are written.
* The auto-copy: sweeping orphaned temporary files; the sub-folders of a date are
  folded into its photos, so what the outer folders of a walk still copy after a
  sub-folder met a cap or an error is left out (the reason stays, and no day is
  recorded), and a copied file that is changed by hand afterwards is
  not modelled.
* Settings: a damaged configuration file, the directory browser, `fix-photos`.
* The update hub: `close_all` at the end of the application (the sockets die as
  by a broken link) and the drain task's pause after an unexpected error.
* Zip framing: lengths, offsets and the zip64 limits of an archive are not modelled;
  what it means for an archive to be whole is that every item was sent.
* Not modelled at all: the shipping log, which writes nothing the other components
  read (its eligibility by several SELECTs, its layout and its stamping); verify and the suggestion cache of the batch review; the
  CSV export of the history, assemblies and sort orders, which only read; the
  workbook reader and the JOB grammar, which are text; schemas, migrations,
  scripts, and the stores and views of the frontend.
