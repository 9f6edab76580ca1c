# A verification project for Paxalia Dashboard

TLA+ models of the parts of `paxalia` whose correctness depends on the order in
which requests, background commands, crashes and other programs act; TLC runs
that check them on small instances; and TLAPS proofs of the results that hold
for every instance.  Line numbers refer to the files under `src/`.

## 1. The system

Paxalia is a reusable Django application: an analytics and administration
dashboard that also moves files, watches availability, stores application logs
and guards its own admin sessions.  It has no daemon of its own.  Everything
happens in web requests (any number of worker processes and threads), in
management commands started by a scheduler, in one logging thread per process
and in the browser's scripts.  The shared state is the database, the cache and
the file system, and the database alone has transactions.

| Component | State it keeps | Operations | What makes it correct |
|---|---|---|---|
| Transfer Center, send (`transfer_center/service.py`) | `PaxaliaTransfer` row, its `FileUpload` row, a private temporary file, a staging file, the exchange directory, a singleton lock row | create, chunk, complete, finalize, pause, resume, retry, cancel, expire, verify in the background | bytes in the exchange are those the checksum was taken over; no overwrite; bounded concurrency and retries; nothing usable is deleted, nothing private is left |
| Transfer Center, receive | `PaxaliaTransfer` row, chunks held by the browser | create, read a chunk, complete, verify in the background | the browser saves only bytes the server has verified |
| Transfer Center, the page that sends (`transfer-center.js`) | identifier in `localStorage`, a running hash | submit, resume, repeat chunks, complete, finalize | the checksum is of the whole file; a file is not started twice |
| Upload engine (`views/uploads.py`), session cleanup (`cleanup_uploads`) | `FileUpload` row, temporary and stored file | init, append a chunk, complete, delete, sweep | the file holds what the row counts, whatever fails between the two; only abandoned sessions go, with their files |
| Availability (`uptime.py`) | monitor, check and incident rows, a lease in the cache | check, record, open and resolve an incident, alert | one open incident per outage, opened and closed by the thresholds |
| Logging queue (`logging/handler.py`) | bounded queue, worker thread, live buffer, counters | emit, drain, flush, shut down, snapshot | order and loss: what is accepted is stored once, in order |
| Log store (`logging/services.py`) | group and event rows | persist, deduplicate, prune | one group per fingerprint, exact counts, bounded samples |
| Live console (`views/logs.py`) | the buffer of each process, the browser's cursor | merge, poll | no entry is skipped for good; those numbered behind the cursor are |
| Analytics (`middleware.py`, `aggregate_daily_stats`, `data_import.py`, `prune_analytics_data`) | page views, one row of counters per day | count, aggregate, import, prune | no update of the row is lost |
| Backups (`create_backup`, `views/backup.py`) | archive files, rows | trigger, schedule, retain, delete | no more than the retention count are kept |
| Admin sessions (`admin_security.py`, `views/auth.py`, middlewares) | session rows, login events, challenges, recovery codes, authorized devices | sign in by three layers, register, replace, revoke | a session that the gate accepts has passed every layer; a code opens one sign-in |
| Rate limits (`security_rate_limit.py` and five public endpoints) | cache keys | count a request, clear | the limit holds under races and when the cache fails |
| Scheduled reports (`send_scheduled_reports`) | report rows, a lock in the cache | mail what is due, create, pause, delete | one mail per period |
| Packages (`packages/engine.py`) | the application's tables, a pending package | export, validate, preview, import, retry package | a row is not imported when what it refers to failed |
| Server Files (`server_files/service.py`) | directories, audit rows | upload, copy, move, delete, new directory | never replaces a file that appears meanwhile; shows no partial file |
| Admin Center (`admin_center/`) | any registered table, the selection in the session | edit, act, delete one or many | deletes only what the administrator might delete when it was confirmed |
| Resource pruning (`paxalia_resource_prune`) | none | delete by age and by count under a budget | bytes in use stay |
| Integrations, security reports, server metrics, settings | single rows | one request, one query or one insert | no protocol between actors |

How they interact: the Transfer Center calls the upload engine's handlers
through the shared `FileUpload` row; `paxalia_transfer_maintenance`,
`cleanup_uploads` and `paxalia_resource_prune` act on the same rows and files
from other processes; the exchange directory is also a Server Files root, so
other users create and remove files in it.  Logging, rate limits and alerts are
called by everything and must not change the caller's outcome.

The hard behaviours are listed one by one, each at its line, under `hazards` in
`PROJECT.json`, with the properties that watch them.  Most are of four kinds:
work outside a row lock (an existence check, a deletion after a commit, a
repair after a rollback, a list read before it is acted on); a process that dies
between a file operation and a commit; requests repeated because their answer
was lost; and several tabs of one person.

Hazards of this code that no property of a run covers:

- The due list of a scheduler run is read once, before probes that may take
  minutes (`check_uptime.py:25`); `Availability` models it, and the lease makes
  a second probe harmless.
- The cooldown key of an alert is taken before the alert is delivered, and a run
  may die between the commit of an incident and its alert (`uptime.py:466`): no
  later call sends it.  Nothing in the code promises it.
- A run takes a bounded number of monitors and scans a bounded number of rows
  (`uptime.py:538`): a fleet beyond both is not visited evenly.  One monitor is
  modelled.
- Retention may delete the older checks of a streak that is still running
  (`paxalia_resource_prune.py:208`); a change of the thresholds in the middle of
  a streak moves where the read is cut (`uptime.py:394`).  `Availability` has the
  second and assumes retention away.
- `cleanup_uploads` derives the temporary path as `<incoming>/.tmp/<id>`; a
  transfer's chunks are elsewhere.  `NoLeftovers` is about transfers.
- A `.part` file of Server Files and an archive without a row are left by a
  process that dies; nothing collects them (`EveryArchiveHasRow` of `Backups`
  states the second, and does not hold).
- The late `set()` of the rate limiter rewinds a counter (`LimitAlways` of
  `RateLimits` does not hold; `LimitIsExact` is what does).
- A transfer listed for deletion by the pruning pass and retried before the
  deletion is deleted while it runs (`RunningIsKept` of `ResourcePrune` does not
  hold).  `StagedIsKept` is about the other list of that command: a file that the
  scan chose is not unlinked while a transfer or an upload refers to it.
- In two places a maintenance pass handles an unexpected error with
  `except Exception:` and then logs `exc`, a name that is not bound there
  (`service.py:1107` and 1123, 1178 and 1187).  The row is already committed as
  failed, so the next pass goes on without it, but this pass ends there: the
  rows after it, the expiries and the rest wait for the next.  The models have one
  row at a time and do not tell a pass that is cut short from one that ends.
- `RetryIsEnough` is about occurrences without a cleanup that deletes their group.
  One whose group is deleted between the failed insert and the second attempt
  inserts a new group; one that loses that insert too is dropped and logged.

## 2. Modules

| Module | Models | Checked in | Proofs |
|---|---|---|---|
| `TransferLifecycle` | the abstract promise of both directions: slots, phases, counted retries | refined by the next two | |
| `TransferSend` | a send, with the upload engine, the cleanup and the maintenance steps | `MCTransferSend` | `TransferSend_proofs`, `TransferSendSafety_proofs` |
| `TransferReceive` | a receive, with the browser tabs and the changing source | `MCTransferReceive`, `MCMovedFiles` | `MovedFiles_proofs` |
| `SendClient` | the page that sends, and the views as far as its answers depend on them | `MCMovedFiles` | `MovedFiles_proofs` |
| `ReleaseUploads` | the upload engine as the Releases page uses it, its widget and the sweep | `MCMovedFiles` | `MovedFiles_proofs` |
| `ResourcePrune` | one pruning pass over tables and staging files, beside running transfers | `MCMovedFiles` | `MovedFiles_proofs` |
| `Availability` | one monitor: scheduler runs, record_check, acknowledgements, retention | `MCAvailability` | `Availability_proofs` |
| `LogStore` | one fingerprint: overlapping `persist_event` calls and the cleanup | `MCCollection` | `LogStore_proofs` |
| `LogQueue` | the threads that log, the queue and its worker | `MCCollection` | `Collection_proofs` |
| `LiveLog` | the buffers of the processes, the feed and the browser's cursor | `MCCollection` | `Collection_proofs` |
| `Traffic` | page views and the daily row, with aggregation, import and pruning | `MCCollection` | `Collection_proofs` |
| `Backups` | runs of a backup, retention and deletion | `MCCollection` | `Collection_proofs` |
| `AdminAccess` | sign-in, second factor, devices, codes, revocation | `MCAdminAccess` | `Guards_proofs` |
| `RateLimits` | the requests that share one counter | `MCAdminAccess` | `Guards_proofs` |
| `ScheduledReports` | workers that mail the due reports, and the page | `MCAdminAccess` | `Guards_proofs` |
| `PackageImport` | export, preview, import and retry of a package | `MCAdminTools` | `AdminTools_proofs` |
| `ServerFiles` | requests and programs on the same names | `MCAdminTools` | `AdminTools_proofs` |
| `AdminCenter` | tabs and other administrators on the same rows | `MCAdminTools` | `AdminTools_proofs` |

**Composition.**  `MCMovedFiles`, `MCCollection`, `MCAdminAccess` and
`MCAdminTools` put several modules into one run.  These modules share no variable
and no step of one reads another's, so the run explores their sum and not their
product: a variable `part` chooses which one moves, the others stay in one
initial state.  Nothing is lost by that, because every property speaks of one
part.  The components that do interact are in one module together: the transfer
with the upload engine, the cleanup and maintenance (`TransferSend`), the tabs
with the service (`TransferReceive`, `SendClient`), the pruning pass with
transfers and uploads (`ResourcePrune`), the sign-in with the gate, the devices
and the event rows (`AdminAccess`).

Definitions named "Variant of X" (or "the slip of ...") are not part of any
specification: each is X with one plausible mistake, and shows that a property
notices it.  `PROJECT.json` pairs every property of every passing run with one.
A definition whose comment begins with "Not kept", or that section 5 lists, is a
statement the code does not fulfil.

### 2.1 `TransferSend`

| Variable | In the code |
|---|---|
| `row[t]` | the `PaxaliaTransfer` row: `status`, `retry_count`, `source_checksum`/`destination_checksum` (`sum`), and whether `expires_at` has passed (`due`) |
| `upload[t]` | the `FileUpload` row: `status`, `chunks` (`uploaded_chunks`), whether `storage_path` is set (`stored`), whether `updated_at` is older than the cleanup's cutoff (`aged`); `"none"` when it has been deleted and `upload_session` is NULL |
| `file[t]` | the private temporary file, the staging file, and the bytes last linked into the exchange |
| `job[t]` | work that is outside the row lock: a name seen free before the insert, a truncation or a move back after a rollback, deletions after a commit, a session read by the cleanup |
| `exchange` | whose file each name of the exchange directory is |

A transaction that holds the row lock is one action: `Create`, `StoreChunk`,
`CompleteUpload`, `Resume`, `Pause`, `Retry`, `Cancel`, `Finalize` (seven
outcomes, each an action), `Expire`, `MaintenanceVerifies`, `MaintenanceGivesUp`.
What the lock does not cover is kept apart so that any other step can come in
between: `Preflight` before `Create`; `ChunkRolledBack`/`ChunkFailsEarly` before
`UndoChunk`; `CompletionRolledBack` before `MoveBack`; `SweepStaging` and
`SweepTemp` after the commit that queued them; `Condemn` before `DeleteUpload`.
`ChunkCrash`, `FinalizeCrash`, `FailsAfterLink` and `Crash` are deaths of the
process between a file operation and its commit.  `ExchangeChanges` is anybody
else who creates or removes a file of the exchange.

Abstractions.  A file is the sequence of chunk numbers it holds, so a chunk is
written whole or not at all: a chunk request that dies in the middle of a write
is `ChunkCrash` with the whole chunk, which the length checks treat alike.  A
checksum is the contents it was taken over.  One repair per transfer can be
pending at a time.  `bytes_transferred`, notifications and audit entries are left
out: no decision reads them.  Refusals for a missing capability or another owner
leave the state alone and are left out.  `TRANSFER_ALLOW_SYNC_LARGE_PROMOTION` is
off, its default.

### 2.2 `TransferReceive`

`row[t]` has the status, retries, both checksums, the set of delivered chunks and
`due`; `source[t]` is the version of the file the exchange holds, `Missing` or
`Resized`; `tab[b]` is what `receiveFileFromInfo` and `waitForVerification` of
`transfer-center.js` are doing: the transfer, the phase, the chunks in the
browser, and the version read for a chunk whose row update is still to come;
`late[t]` are chunk requests a tab has given up and that may still reach the row.

`read_receive_chunk` is two actions, because it reads the file before it takes
the row lock: `ReadChunk` and `RecordChunk` (or `RecordRefused`).  `LoseChunk`,
`RecordLate` and `Close` are answers lost and requests outliving their tab.
`Complete`, `CompleteEnded` and `CompleteFails` are `complete_receive` with its
three kinds of answer; `Poll` is the tab's poll.  `Resume`, `Pause`, `Retry`,
`Cancel`, `Expire` and `MaintenanceVerifies`/`MaintenanceGivesUp` are the rest of
the service.

Abstractions.  One read of a chunk, and one hash of the source, sees one version
of the file: a file rewritten while it is read is not modelled.  A "complete"
request of a closed tab does not arrive later.  A change of the source to
another content of the same size is a version; of another size, `Resized`.
`_acquire_transfer_slot` counts both directions together; the two halves are
checked apart, each with the whole limit.

### 2.3 `TransferLifecycle`

Active, failed, done or stopped, and the retries spent.  It says what neither half
may do whatever its bytes: exceed the slots, leave a final phase, come back from
a failure without spending a retry.  Both halves map `phase` to their status and
`tries` to `retries`.

### 2.4 `SendClient`

`flow[f]` is one of the two flows a page can run at once, the form's and that of a
paused row's button, each of which disables only its own button: the step of
`sendFile()` it is at, the transfer, the next chunk, the chunks it has hashed, the
retries left.  `saved` is the identifier in `localStorage`; `held` is what the
server keeps of a transfer and its answers depend on.  Every request has one of
three fates: answered, lost (served, but no answer) or refused (429, 5xx, no
connection).  `AskResume` has the answers of `resume_send_transfer`, of which 404
alone starts a new transfer; `PrimeHash` is the local reading of the chunks the
server already has; `SendChunk` repeats a chunk up to `max_retries`;
`AskComplete` and `AskFinalize` are asked once.  `Reload`, `PressPause`,
`PressCancel`, `Expires`, `Verifies` and `Pruned` are the rest of the world.

### 2.5 `ReleaseUploads`

`session[s]` is the `FileUpload` row, `incoming` and `stored` its two files,
`locked` the row lock, `serving` the requests being served and `widget` the loop of
`upload-widget.js`.  A chunk is examined, then locks, appends and saves, each a
step (`ExamineChunk` to `SaveChunk`); its failure truncates outside the lock
(`UndoChunk`).  `upload_delete` and the sweep read without a lock, remove the
files and then the row (`RemoveFiles`, `RemoveRow`).  `AnswerLost` makes the
widget repeat a chunk while the first request still runs; `ServingDies` and
`CommitFails` are the failures.  Names, sizes and checksums of chunks are left
out; a chunk is its number.

### 2.6 `ResourcePrune`

`pass` is the invocation: its step in the order of `handle()`, whether it is a dry
run, what is left of the budget, and the transfers and paths it has listed and
not yet removed.  A table in which the pass tells nothing apart is three numbers
(`old`, `recent`, `held`); transfers, their upload rows and the staging files keep
identity, because `ListRows`/`DeleteRows` and `Scan`/`Unlink` are two moments each
and `CreateTransfer`, `WriteChunk`, `MoveUpload`, `EndTransfer`, `RetryTransfer`
and `TimePasses` come in between.  The audit rows of Server Files
(`paxalia_server_files_prune`, which the pass calls) are the table "operations".

### 2.7 `Availability`

`run[r]` is a scheduler run: `List` (the due list, read once), `TakeTurn` (the
lease, a `cache.add`), `Probe`, `Record` (the transaction of `record_check`, with
its three outcomes `RecordOpens`, `RecordRecovers`, `RecordOnly`), `Alert` (after
the commit).  The lease lapses (`LeaseLapses`) whether or not its run has
finished.  `checks` are the newest `UptimeCheck` rows; a check carries its place
`n` in the streak of equal statuses it belongs to, which is what the boundary
timestamps of an incident are copied from, so "the incident is dated by the
first observation" is "n is 1".  `AckRead` and `AckWrite` are the two halves of
the acknowledgement view, `Edit` is the change of the thresholds, `Prune` the
deletion of recovered incidents.

Abstractions.  One monitor, always enabled.  Retention of checks is assumed to be
longer than the streaks the thresholds ask for.  The probe is external and
decides its status at one moment.

### 2.8 `LogStore`, `LogQueue`, `LiveLog`

`LogStore`: `call[w]` is a call of `persist_event`: stamped (`Begin`), at the
lookup of the group under `select_for_update` (`LookupFound`, `LookupMissing`), at
the insert of a new group (`CreateGroup`, `CreateCollides` with the second
attempt), and at its commit (`CommitCreated`, `CommitUpdated`, `Fail`).  `locked`
is the database's row lock and `inserting` its uncommitted unique key; these two
are how the database is modelled.  `PruneReadsGroups`, `PruneDeletesGroup` and
`PruneCollides` are the cleanup's read of the empty groups and its deletion of
those it has read.  `stored`, `inWindow` and `lost` are counters of the model that
no action reads but to count.  One fingerprint, one cleanup at a time.

`LogQueue`: a thread emits a record (`Emit`), starts a worker if none is alive and
puts the record or drops it (`Enqueue`), and does so again for each further
logger (`EmitAgain`); a worker takes, stores and acknowledges (`Get`, `Store`,
`TaskDone`) and ends at the sentinel of `Shutdown`; `FlushStart` and `FlushEnd`
are `flush_async`, which polls `unfinished_tasks` without the lock.  That a store
fails is not told apart: it is logged and counted as done.

`LiveLog`: `Log` creates a record, which is known by its moment (`record.created`).
Its handlers run later and in either order: `configure_logging` adds the persisting
one before the live one, so that in a synchronous caller the event is built
(`BuildEvent`) and committed (`CommitEvent`) before the line is in the buffer,
while behind the queue it is stored after.  `AppendLine` is `append` of the buffer:
the line is numbered by the creation of its record, or by one more than the last
number of its process if that is greater.  An event is numbered by the moment of
its payload.  `Poll` is `live_log_feed` with the merge in the browser.  So a line may
be appended with a number that an answer has gone past (`behind`).  Assumed: the
clock of the server does not step back, and two records or payloads have two
moments; what a tie does, the order of the feed with a line before an event shows.

### 2.9 `Traffic` and `Backups`

`Traffic`: a request inserts its view (`View`) and then counts it in the row of the
day: `Look` (SELECT FOR UPDATE), `Create` or `CreateFails`, `Save`, with the three
attempts after a lock timeout (`Locked`) and a death at any step.  `Aggregate*`
counts yesterday kind by kind without a transaction and then writes;
`Import*` writes the row of a day from an export of another tool; `PruneViews`
deletes old views.  A row under SELECT FOR UPDATE is locked to the end of its
transaction, as the databases the project supports do, SQLite's whole-database
lock being stronger.

`Backups`: a run is the thread the dashboard triggers (its row exists from the
start) or the scheduler's command (its row is inserted when the archive is
done).  `Take`, `Publish` (the rename), `Complete`, `ListOld`, `Retire` and
`RunDies` are its steps; `RemoveRead`/`RemoveDone` an administrator's deletion.

### 2.10 `AdminAccess`, `RateLimits`, `ScheduledReports`

`AdminAccess`: `rows` and `sess` are the session rows, `cookie` what each browser
sends, `req` the requests in flight, each with the copy of the session it loaded
(`data`) and whether it will save it (`dirty`).  `SignInStep` are the sign-in's
views: the password, the second factor or a recovery code, the device; one step
for each database statement whose order against other requests matters.
`ManageStep` are the pages that set up the second factor, replace codes, register
and revoke devices and sessions.  `Answer` saves the copy and sets the cookie.
`AgePasses` and `ChallengesExpire` are time.  `earned[k]` records the layers that
were in truth passed under key `k`; no action reads it.  One administrator;
passwords, one-time codes and assertions are right or wrong, the checks inside
TOTP and WebAuthn are external.

`RateLimits`: one endpoint and one key.  Every call of the cache is a step
(`Gets`, `Adds`, `GetsAgain`, `Increments`, `Misses`, `SetsCount`, ...), the
window ends at any moment (`Expires`) and any call may fail (`CacheFails`).
What the admitted request then does is the last step of each endpoint.  That
`cache.incr` is one step is assumed: the docstring of `allowed()`
(`security_rate_limit.py:18`) says so of common shared backends and of no other,
and on a backend that reads and then writes `LimitIsExact` need not hold.

`ScheduledReports`: `mailer[w]` is a run of the command: the list it made and the
report at hand; `Claim` (a `cache.add`), `Recheck`, `Send`, `SaveSent` and
`ReleaseLock` are its steps; `LockExpires` is the lock's 300 seconds.  The page
creates, pauses (read, then save) and deletes reports.

### 2.11 `PackageImport`, `ServerFiles`, `AdminCenter`

`PackageImport`: records are numbered in the order of the archive and `refs` says
which refers to which and how.  An atomic import is one action, as it is one
transaction; a partial one takes the rows that are ready, record by record
(`ChooseReady`, `ImportRecord`), treats what is left as a circle
(`ImportCycle`) and refuses what is blocked.  `fault` is a record that fails for a
reason of its own.  `ShowResult` stores the result and offers the retry package.
The session names two files, the pending package and the retry package, and a new
one takes the place of the one before it (`KeepsPending`, `KeepsRetry`).  The retry
package is made of the errors that the result keeps, which are at most `MaxErrors`
(250, `engine.py:1241`): with more failed rows it lacks some (finding 22).
Another administrator deletes objects meanwhile (`Deleted`).

`ServerFiles`: a place is a name in a directory that has been opened, so that a
path that is swapped below the root leads nowhere else; what it shows is a thing.
An upload or copy writes a `.part` file chunk by chunk (`UploadChunk`,
`CopyChunk`), checks the source (`Check`) and links it (`Link`); a move looks and
then renames without replacing (`Look`, `Move`).  `Write` is a program of the
server that writes a file and `Create` one that makes a file at a free name,
`Fault` a system call that fails, `Dies` a process that ends.  Every operation
writes its audit row before and after.  Assumed: every write leaves a stamp of its
own.  The code compares `mtime_ns` and `ctime_ns` (`service.py:705`), and on a file
system with a coarse clock two writes within one tick may leave the same; a copy
that reads between them may then mix two contents.

`AdminCenter`: a tab shows a page (`ShowList`, `ShowForm`, `ShowDelete`,
`ShowBulk`) and later submits what it shows; a save reads the row and writes all
of it (`Submit`, `Save`); the selection for a bulk deletion is in the session that
the tabs share.  A deletion is four steps: `Confirm` reads the rows and the
permissions, `Plan` looks again and makes the plan, `Delete` is the transaction, and
`Forget` saves the session without the selection when the request ends.  In between
rows go, become protected, and permissions are taken away; a permission revoked
after `Confirm` is not noticed (Django keeps the permissions of a request's user),
which is why `DeletedWasAllowed` speaks of the moment of the confirmation, while
what is protected by then makes the transaction fail (`DeleteFails`).  `Interfere`
is another administrator or the program: rows deleted, protected, permissions
taken away.  `Add` is the form of a new row.

## 3. What is checked

Twelve runs, each with its own question.  "(v)" marks a run that refutes what the
repository says of itself; its property has a finding in `PROJECT.json`.

| Run | Instance | Shows |
|---|---|---|
| `send_race` | 2 transfers for one name, 1 slot, 1 chunk, 2 retries, 1 fault; one transfer large | the slots are never exceeded; what is offered for retry has its bytes; nothing in the exchange is overwritten; the lifecycle is implemented |
| `send_faults` | 1 large transfer, 2 chunks, 1 retry, 3 faults, the cleanup, three checksums (right, wrong, none), fair maintenance | what is published is what was verified; deletions hit only spent transfers; nothing private is left without a fault; verification settles; a transfer whose session was deleted frees its slot |
| `receive_one` | 1 tab, 2 transfers (one large), 1 retry, 2 chunks, 2 versions, 1 change of the source, fair maintenance and polling | what the tab saves is what was verified; only verified bytes complete; a row that waits for verification ends, or a tab has it in hand again |
| `moved_files` | receive: 2 tabs, 2 transfers, 1 chunk, 1 retry. Send page: 2 chunks, 1 retry of a chunk, 2 transfers, 1 lost request. Release: 2 requests, 2 chunks, 2 attempts, 3 failures. Prune: 1 transfer, budget 3, 2 moves | an ended transfer stays as it is and the lifecycle is implemented; the page submits the checksum of the whole file and starts no second transfer; a completed release file is whole; staged bytes in use are kept |
| `availability_runs` | 2 overlapping runs, thresholds 2 and 2, one edit | outage and recovery are noticed at the threshold and dated by their first check; one incident at a time |
| `availability_live` | 1 run that may die once, 1 administrator, thresholds 2 and 1, fair | a lasting outage gets an incident that stays |
| `collection` | store: 3 overlapping calls, 5 in all, 2 samples per window of 2 ticks. Queue: 2 threads, 2 workers, 4 records, 2 places. Live: 2 processes, 4 ticks, buffer 2, batch 2, limit 3. Traffic: 2 requests, 2 days, 3 mishaps, 1 writing command. Backups: 2 runs, 3 backups, 1 kept, 1 death | occurrences are counted once and one retry is enough; records are stored in order and a flush means stored; the console skips no line of its process that was not numbered behind an answer; the daily row loses no update; no more archives than the retention count |
| `admin_access` | access: 1 browser, 2 requests, 2 devices, 1 code, 2 challenges. Limits: 3 requests, limit 2, 1 window end, 1 outage. Reports: 1 report, 2 workers, periods 2 and 3, 4 days, 1 upset | an accepted session has earned its layers; a code opens one sign-in; devices are capped; a window admits exactly its limit; a report is mailed once a period |
| `admin_tools` | packages: 3 records, 2 references, 1 fault, 2 reported errors. Files: 2 requests, 2 names, 2 writes, 1 failing call. Admin Center: 2 rows, 2 tabs, 1 edit, 1 step of others | a failed row takes those that refer to it along; the retry package is exact up to the error cap; the preview holds while nothing changes; nothing shown is lost; no part is shown; only what might be deleted when it was confirmed is |
| `access_signin` (v) | 1 browser, 1 request at a time, fair | a browser with a refused session never signs in again |
| `package_chain` (v) | 3 records in a chain | a record is imported although what it refers to was refused |
| `traffic_first` (v) | 2 requests, 1 day | a view of the day's first requests is not counted |

`receive_one` has 2.3 million distinct states, `moved_files` 0.6, `collection`
1.6, `admin_access` 4.6 and `admin_tools` 2.9; each takes one to four minutes.

**Bounds and why they suffice.**  Two transfers for one name and one slot are the
smallest instance in which the two races of creation (for the name, for the slot)
exist.  Two chunks are the smallest file that can be short without being empty,
so that a truncation to zero and one to the previous length differ, and that can
hold its chunks in the wrong order or one of them twice. Three faults allow a
rollback whose repair meets a second rollback and a death. Two versions of a
source are what a checksum can tell apart; they are interchangeable, so every file
begins with the first (`FirstVersions`).  Thresholds of two make "reached",
"exceeded" and "not yet" differ, and `MaxStreak` = `MaxThreshold` + 3 counts one
place beyond all that is kept.  Three writers allow two first inserts with a
third call between the first failure and the second attempt; four ticks hold two
windows.  Four records over a queue of two fill it, drop one and still follow a
shutdown with a new worker.  A buffer, a batch and a limit of two, two and three
cut the answer in different places.  Two requests of one browser, one step apart,
are what a stale copy of a session needs.  Two challenges are two registrations side by
side, on a cap of one device; one code is enough, as two requests present the same
one or one presents it while it is replaced, and a replaced code comes back only
when nobody holds it.  Four ticks of the live console are two records and
their events, or four lines, which overflow the buffer.  Three requests on a limit of
two are one too many.  Three records make a chain, a circle of two with a third that
refers to it, and two references to one row; an error cap of two is below the
three that can fail.  Two requests and two names make every collision of a
rename, and two writes change a file twice while it is copied.  Every bound is a
constant named in a guard.

**Deadlock** is checked in the send and availability runs.  It is not in
`receive_one` (all transfers ended and all pages closed, nobody need do anything)
nor in the composed runs and their violations, where the events that are bounded
may be used up.

**Symmetry** is used for interchangeable actors in `availability_runs`,
`collection` (writers, requests), `admin_access` (requests, devices, challenges) and
`admin_tools` (requests and names of Server Files, tabs, objects), and in no run
with a liveness property.

**Type invariants.**  Every module has one, with the capacities it states, and each
of them is a theorem (section 4).  All of them, and the budget of the pruning pass
(`BudgetIsShared`, a theorem too), hold on the instances above when they are added
to the cfg files; they are not listed there because the runs ask what could be
wrong.

**Fairness.**  `TransferSend`: `paxalia_transfer_maintenance` is one bounded
pass ("cleaned incrementally", docs/transfers.md) that a scheduler runs again and
again, and each pass takes the oldest eligible rows first, so a row that stays
eligible is taken; the clock goes on.  Clients, other users of the exchange, the
cleanup and faults owe nothing.  `TransferReceive`: the same maintenance, and a
waiting tab goes on polling, as its loop does.  `Availability`: cron runs the
command every minute (docs/operations.md), a run that is not killed goes on, the
lease key has a timeout, the request of an acknowledgement ends, retention runs.
`AdminAccess`, for its one liveness property: a request that has begun goes on,
and the administrator, whenever a sign-in page can be opened again and again,
does open it.  The other modules have no liveness property: their operations
end by their shape, and what waits, waits for a person.

## 4. What is proved

TLAPS checks the theorems for every value of the constants, under the
assumptions the modules name (`SendAssumption`, `ReceiveAssumption`,
`PruneAssumption`, `ClientAssumption`, `LossesCapped`, `UploadAssumption`,
`FailuresCapped`, `AvailabilityAssumption`, `LogStoreAssumption`,
`NoGroupAssumption`, `QueueBounds`, `LiveBounds`, `TrafficAssumption`,
`BackupsAssumption`, `BackupsCapped`, `AccessBounds`, `LimitAssumption`,
`ReportsAssumption`, `PackageBounds`, `FilesBounds`, `CenterBounds`); TLC evaluates these on every
run that uses the module.  They say that bounds are numbers, that a limit which
the code cannot do without is at least one (`ADMIN_MAX_DEVICES`, the chunks of a
file, the attempts of the widget), and that values which mark an absence
("free", "none", the view of nobody) are not among the values they are kept apart
from.

Every invariant and every action property that a passing run checks is a theorem;
what is left to TLC alone is at the end of this section.  So is the type invariant of
every module.  Where the invariant of a safety proof does not hold all of it, a part
named ...`Within` (`AccessWithin`, `BackupsWithin`, `FilesWithin`, ...) is proved
inductive beside it: the bounds of the counters, and what the safety argument had no
use for.

**Send** (`TransferSend_proofs`, `TransferSendSafety_proofs`).  `TypeCorrect`;
`CompletedIsVerified`, `SweepHitsOnlySpent`, `RetryFindsBytes`,
`SlotsAreBounded`, `NeverOverwrites`, `SendImplementsLifecycle`.  The inductive
invariant `SafeInv` is `TypeOK` and one part per transfer.  The checked
invariants alone are not inductive: `RetryableHasBytes` can be broken by a move
back that comes after the next completion, so the invariant adds that while a
move back is pending nothing can have refilled the file, and that a transfer
without a row has no session and no move back pending.
`SlotBound` is a separate induction on the cardinality of the active set:
every step makes at most one transfer active, and does so with a free slot.
`NothingIsLeft` has an induction of its own (`TidyInv`), which is about runs
without a fault: a completed upload has no temporary file, no move back is
pending, and once a transfer has ended for good each of its files is gone or is
in the list that the commit queued for deletion.

**Receive** (`MovedFiles_proofs`).  `ReceiveTypeCorrect`,
`CompletesOnlyVerified`, `EndedStaysEnded`, `ReceiveImplementsLifecycle`,
`OneTabSavesVerified`.  The invariant adds to the types what a tab can hold and
that a row in verification has every chunk.  The steps are first reduced to
moves of one row (`NextMoves`), from which both the finality and the refinement
follow.  `OneTabSavesVerified` assumes a single tab, and needs that the tab's
chunks are the row's destination checksum while it waits (`TabTrue`); with two
tabs it is false (finding 9).

**Pruning** (`MovedFiles_proofs`).  `ChosenStaysUnclaimed`, `BudgetStaysShared`,
`PruneTypeCorrect`.  The invariant
`PruneInv` adds to the property why a new transfer cannot claim a path that has
been chosen: the path of an upload that is gone is still on disk, or its
transfer is still there (`Unclaimed`), and nothing is created where something is.
The budget alone is not inductive: `BudgetInv` says that what was removed and what
the budget has left are together within it, that the transfers or files which are
listed and not yet removed are no more than is left, and that no table is asked
for more rows than it holds.  It needs that there are finitely many transfers.

**The page that sends** (`MovedFiles_proofs`).  `ChecksumIsOfTheFile`,
`NoSecondTransfer`, `ClientTypeCorrect`.  `ClientInv` says what a flow has hashed at each of its steps:
the chunks before the one it is at, also after a lost answer and while it is
catching up with a resumed transfer (`Hashed`).  For the second, what waits for
bytes is what is saved (`WaitingIsSaved`), which holds because only the form
creates a transfer, and only while no identifier is saved (`SavedIsItsOwn`); a
transfer in verification is staged and so does not wait again.

**Releases** (`MovedFiles_proofs`).  `CompletedUploadsAreWhole`,
`UploadTypeCorrect`.  The first
alone says nothing of a file that is still being written, so `UploadInv` says how
the requests that overlap divide the work: who writes a chunk or saves a
completion holds the row (`RowIsHeld`); the chunk being written is the next
(`PartIsNext`); a file has at least the chunks its row counts, and if it has no
more they are in order (`Ordered`: a request that died after its append leaves a
chunk too many, which the length check of the completion refuses); of two
completions only one finds a file to move (`OneMoves`); a file that is moved and
not yet saved is the whole one (`Moved`).  A repair outside the lock is counted as
spoiling the session, which is why a failed chunk needs no more than that.
`UploadTypeCorrect` adds that a chunk is sent at most MAX_RETRIES_PER_CHUNK times.

**Availability** (`Availability_proofs`).  `TypeCorrect`, `OutageFound`,
`FirstFailureRecorded` for any runs, administrators and thresholds, and, as long
as nobody acknowledges, `OneOutageAtATime`, `RecoveryRecorded` and
`EdgesRecorded`.  What makes them inductive is `Places`: where the status changes
a streak begins, and so it does at the oldest check kept while none has been
dropped.  The argument of the thresholds is then short.  If the streak now
reaches the threshold and did not before, it is exactly as long as the threshold
(`StreakBounded`); the two checks read beyond the larger threshold show its
beginning (`FirstPlace`); and a streak that was long enough before had its
incident already.  The existence of a streak and of a last ongoing incident needs
a least element of a set of numbers (`Least`), from well-founded induction.

**Log store** (`LogStore_proofs`).  `StoreTypeCorrect`, `OccurrencesCounted`,
`SamplesBounded`, `OneRetrySuffices`, `CountersAlwaysAgree`.  The invariant says
who may be where: the call that updates holds the lock and has read the row as it
is; the call that inserts is alone and there is no group; a call in its second
attempt, without a deletion, finds the group.  `CountsAgree` has a term the proof
asked for: with `LOG_MAX_SAMPLES_PER_GROUP` = 0 the first occurrence of a group is
neither stored nor counted as suppressed (services.py), so the counts differ by
one.

**Log queue** (`Collection_proofs`).  `RecordsStoredInOrder`,
`FlushMeansStored`.  `QueueInv` says that at most one worker is alive, that the
records stored, the one it holds and those in the queue are together what was
accepted, and that `unfinished_tasks` counts the last two.  `QueueTypeCorrect` adds
the capacity: the queue never holds more than `QueueSize` items, the sentinel of a
shutdown included, and the count of unfinished tasks never falls below zero.

**Live console** (`Collection_proofs`).  `ConsoleIsComplete`.  `LiveInv` adds
that the browser has a cursor from its first answer on, which is that of an entry
there was then (`CursorIsServed`), and that the cursor has passed every line
the one process had when it last answered, and none that came later unless it was
numbered behind that answer (`CursorIsPast`).  Numbers may run ahead of the clock,
but there is a greatest one (`NumbersBounded`).  The rest of the
argument is about the newest of a set of numbers: what is not among the newest of
an answer is not among the newest of a larger set.  `LiveTypeCorrect` bounds the
buffer of each process, as of any numbers at most k have fewer than k greater ones
(`NewestAreFew`), and says that a page shows only lines of processes that answered it
and events that are in the database (`ShownIsThere`).

**Daily row** (`Collection_proofs`).  `UpdatesAreKept`.  `TrafficInv` says that a
request that is about to save, and no other, has the row of its day locked
(`LockIsHeld`), that what it read is what the row says until it lets go
(`ReadIsFresh`), and that a command updates a row that is there (`RowIsThere`).
`TrafficTypeCorrect`: no request tries its row more often than the code does.

**Backups** (`Collection_proofs`).  `RetentionHolds`, `BackupsTypeCorrect`.  Runs that finish together
list the old backups at different moments, so no single run's list is complete.
The argument is the one of `LastLooker`: of any runs that are applying the
retention at once, the last that looked saw the completed rows of the others, so
that what it leaves is no more than is kept.  `BackupsTypeCorrect` says that every row,
archive and temporary file is of a run that was begun; it needs of that argument
that a run which is not idle has a file that was begun (`RunFile`).

**Guards** (`Guards_proofs`).  `LimitsAreExact`, `MailedOncePerPeriod`,
`SessionsAreEarned`, `CodesOpenOnce`, `DevicesAreCapped`; `LimitTypeCorrect`,
`ReportTypeCorrect`, `AccessTypeCorrect`.  `LimitInv` ties the
counter to what was admitted (`CounterTells`): below the limit they are equal and
nothing was refused, above it exactly the limit was admitted.  `ReportInv` says
that only the holder of a lock has a report at hand (`HeldUnderLock`), that the
row has the date of the last mail unless a worker is about to save it
(`DateKept`), and that whoever is about to mail found the period over under the
lock (`PeriodIsOver`).  `AccessInv` extends the property from the rows to every
copy a request holds (`Honest`): a stale copy is never further than its own key
has earned, which is why it may be written back.  The last two hold because the
step that spends a code or stores a device reads its row again in the same
transaction; the second needs that the devices counted are finitely many
(`DeviceInv`).  The type of `AdminAccess` is the longest of the three: every request
writes some of what all share, and `AccessWithin` says what each of those tables may
hold after it: cookies, requests and rows name keys that were handed out, and an
open challenge is of a key whose password and second factor were confirmed.

**Tools** (`AdminTools_proofs`).  `FailedRowsBlock`, `RetryHasTheFailed`,
`ResultIsAnnounced`, `NoSilentOverwrite`, `NoPartIsShown`, `DeletionsAreChecked`;
`PackageTypeCorrect`, `FilesTypeCorrect`, `CenterTypeCorrect`.
`ImportInv` says that rows are divided into done, failed and waiting
(`Divided`), that a ready row depends only on imported ones, and that an imported
one depends only on imported ones or on ones that were refused without a try
(`DependenciesFirst`): the last case is the one `package_chain` shows. `ResultInv`
adds the counts: what has been created, updated and skipped so far is the number
of rows done, and while nothing failed and nothing changed it is what the preview
counted of the same rows.  `ListInv` says that nothing is shown twice and that
what no request has made yet is not shown. `DataInv` says that what a copy has
read of a source whose stamp has not moved is a beginning of its content
(`Whole`).  `RetryHasTheFailed` says that the retry package has failed rows only and
lacks one only at the error cap.  `DeletionsAreChecked` carries what `Confirm` found
across the steps to the transaction (`DeletionInv`).  `FilesTypeCorrect` says that a
request whose row is not in the audit has done nothing: its proof follows the row
of each request through its steps (`Audited`, `Recorded`).

Only model-checked: the liveness properties (`VerifyingSettles`,
`StrandedReleasesSlot`, `VerifyingEnds`, `LastingOutageIsFound`), since
fairness and ENABLED are out of the prover's reach; and the violations, which are
counterexamples.  `OneOngoing`, `EdgesAreFirst` and `RecoveryIsFirst` are checked
(`availability_runs`) and proved without acknowledgements only; acknowledgements
are in `availability_live` and in the theorem `OutageFound`.  `receive_one` has one
tab: with two, `EndedIsFinal` is checked (`moved_files`) and proved,
`CompletesVerified` is proved (`CompletesOnlyVerified`), and `SavedVerified` is
false (finding 9).  No module of the project uses a recursive operator.

## 5. Findings

`PROJECT.json` has each with the lines it quotes.  The first three are runs; of
the others the named definition is in the named module, and TLC violates it when it
is added to a cfg of that module.  Findings 14 and 19 name an action instead: the
step the code takes and its comment denies.

1. A browser whose completed session was refused is sent round the sign-in page
   for ever (`access_signin`).
2. A row that refers to a blocked row is imported (`package_chain`).
3. Of the first two requests of a day one may not be counted (`traffic_first`).
4. A missing transfer answers 400, and the page waits for 404 to start anew
   (`MissIsNew`, `SendClient`).
5. A count cap deletes up to the whole budget, not the excess
   (`CapTakesExcess`, `ResourcePrune`).
6. An atomic import depends on the order of rows (`OrderDoesNotMatter`,
   `PackageImport`).
7. `cleanup_uploads` removes the session of a transfer that is paused or slow
   (`OnlyAbandonedRemoved`, `TransferSend`).
8. A chunk request that fails before it has read the file's length truncates the
   file to zero, outside the lock (`RestoredBytes`, `TransferSend`).  Completion
   notices, so the damage is a failed transfer, not a wrong file.
9. Two tabs on one receive: one may report matching checksums for bytes that
   were not the verified ones (`SavedVerified` with two tabs).
10. The console may miss an event of another process that is committed after its
    time was passed (`OtherWorkersSeen`, `LiveLog`).
11. An acknowledgement can reopen a recovered incident (`RecoveredStays`,
    `Availability`).
12. The alert of an opening is deduplicated per monitor and that of a recovery
    per incident (`RecoveryWasAnnounced`, `Availability`).
13. A chunk or completion that is served beside a deletion leaves a file without
    a row (`DeletedIsGone`, `ReleaseUploads`).
14. The upload widget calls itself resumable and never resumes (`StartUpload`,
    `ReleaseUploads`).
15. A bulk deletion deletes the selection of another tab (`DeletedAsConfirmed`,
    `AdminCenter`).
16. A save of the generic editor puts back an older secret (`SecretKept`,
    `AdminCenter`).
17. Failed backups push completed ones out of the retention (`MostRecentKept`,
    `Backups`).
18. The lock of a report ends before its mail does (`NeverTwice`,
    `ScheduledReports`).
19. A report that cannot be rendered ends the run for the others
    (`RenderFails`, `ScheduledReports`).
20. A receiving tab polls for ever when its row ends as expired or cancelled, or when
    a late chunk request takes the row back to "transferring" (`WaitIsAnswered`,
    `TransferReceive`).
21. A line of the live console whose event was stored and answered first is skipped
    for good (`BufferIsComplete`, `LiveLog`).
22. With more failed rows than errors are kept, the retry package lacks some
    (`RetryIsComplete`, `PackageImport`).

## 6. Not modelled

`PROJECT.json` gives the reason for every component that is modelled partly or
not at all.  In short: pages, charts, exports, scores and readings of the server
have no state but their tables and no second actor; rendering, formatting,
fingerprinting and path rules are computations of strings; `pg_dump`, the
authenticator protocols, SMTP and the probes are external.  What could still be
added with profit: the three queues and the failing row of one maintenance pass;
a fleet of monitors under the bounds of a run; both directions of the Transfer
Center under one slot limit; several administrators and the password reset in
`AdminAccess`; fields of the daily row that an import and an aggregation divide
between them.
