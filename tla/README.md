# TLA+ models of the disk backend and its desktop client

Models, model-checking runs and proofs for the server in `src/src/` (a cloud drive
whose API and worker processes share PostgreSQL, Redis and a blob store: local files
or S3) and for the desktop client in `src/clients/desktop/`. Nothing is shared between
processes except the database, Redis and the store, so correctness rests on conditional
`UPDATE`s, row locks, leases, reference counts, durable jobs and counters. Those are
modelled here. Every definition is translated from the code named in `PROJECT.json`
under `map`.

* Parse: `tlasany M.tla`. Check: `tlc -config X.cfg M`. Prove: `tlapm M.tla`.
* `PROJECT.json`: components, runs, mutants, the map to source lines, findings,
  hazards and theorems.

## 1. Inventory

### Parts, their state and operations

| Part | State | Operations | Talks to |
| --- | --- | --- | --- |
| Upload lifecycle (`UploadLifecycleService`, `UploadService`, `UploadStateMachine`, `UploadTaskRepository`) | `upload_tasks`, `upload_task_chunks`, a per-instance task cache | init (instant, resume, new), chunk, complete, cancel, expire | quota, contents, staging, blob store, job queue |
| Quota (`QuotaService`) | `storage_quota`, `storage_used`, `storage_reserved` of a user | reserve, release, commit, consume, adjust | called inside others' transactions |
| Contents (`ContentService`) | `file_contents` with `ref_count` | find, acquire, increment, decrement and enqueue GC | job queue (the GC gate) |
| Folders and files (`FolderService`, `FileMutationService`, their repositories) | `folders` with `item_count`, `files` | create, rename, move, copy | quota, contents, list cache |
| Trash (`TrashService`) | `trash` with snapshots of subtrees | move, restore, delete, delete all, expire | folders, contents, quota, shares |
| Shares (`ShareService`) | `shares`, `share_files`, share tokens | create, update, cancel, access, browse, download, save | quota, contents, folders |
| Queries and downloads (`FileQueryService`, `FileListQuery`, `FileListCache`, `DownloadResponder`, `DownloadIntegrityService`) | Redis list cache with a generation per user | list, search, stream a range | Redis, blob store |
| Accounts (`AuthService`, `TokenService`, `UserService`, `AdminService`) | `users`; refresh tokens, revocations and counters in Redis; a revocation cache per instance | login, refresh, logout, password, status, role, space, deletion | Redis |
| Filters, controllers, DTOs | request attributes, window counters in Redis | authenticate, limit, parse | every service |
| Job queue (`StorageJobRepository`, `StorageJobWorker`, `StorageWorkerRuntime`) | `storage_jobs` | enqueue, re-arm, claim, sweep, renew, succeed, fail, replay | every producer; handlers call the parts above |
| Reconciliation and recovery administration | findings, cursors of scans | scan pages, re-arm jobs, release a lease, rebuild cleanup | job queue, uploads, contents, stores |
| Stores (`LocalFileStorage`, `LocalBlobStore`, `S3ObjectStorage`, `MultipartUploadJournal`, `AssemblyConcurrencyLimiter`) | chunk, assembled and final objects; open multipart uploads, journal rows; slots | write, assemble, discard, clean up, promote, delete, recover | uploads, collector |
| Process runtime (`ProcessRuntime`, `ScheduledTasks`, `main.cpp`) | atomics: initialized, draining, in-flight counts | start, admit, release, poll, seed, drain | all requests, the worker |
| Desktop client (`TransferManager`, session managers, page managers) | tasks, active replies, timers, partial files; tokens, shell | upload, download, pause, resume, retry, cancel; sign in, refresh, open a share | HTTP only |
| ORM models, metrics, configuration, web and terminal client, deployment | - | - | not modelled, section 5 |

### What is hard in it

* Concurrency: requests of several instances on one upload, one user's quota row, one content
  row, one job row, one folder tree, one share; reads before a transaction, or without a lock
  inside it, whose result is used later; storage operations outside any transaction.
* Failure: a process may exit between any two steps; the answer of a committed statement, of a
  Redis command or of an S3 call may be lost; a lease may run out under a paused request.
* Ordering and time: PostgreSQL's `NOW()` decides leases and expiry; late chunk, renewal, result
  and delete calls arrive after the state moved on; the client's answers arrive in any order.
* Limits: attempts of a job, quota, in-flight counters, assembly slots, request windows, retries.
* Liveness: abandoned uploads, staging objects, open multipart uploads, jobs of dead workers,
  unreferenced contents, a cancelled transfer and a draining process must all come to an end.

The list with its lines is `hazards` in `PROJECT.json`. What makes each part correct:

* Uploads: one file and one quota conversion per upload, whoever completes it; a terminal task
  never changes; an active one can be taken over; every step is a step of one simple ledger.
* Quota: used = bytes of files, reserved = bytes of active uploads and copies, sum within quota.
* Contents: `ref_count` = number of files; a referenced content has a whole object.
* Tree: counts are exact, a deletion takes its subtree along, nothing lives in a removed folder.
* Shares: a withdrawn share grants nothing; saved files are referenced and paid for.
* Reads: a list is as fresh as the last answered change; pages neither skip nor repeat.
* Accounts: a refresh token works once, a logout is final, wrong passwords lock.
* Gate: a handler works for an identity its own filters established; limits hold per window.
* Jobs: a result belongs to the claim it was computed under; nothing is called done that was not
  done; every job settles. Findings are true.
* Stores: whatever may be read is whole; nothing open is forgotten.
* Process: what was admitted is served before a drain completes; the drain ends.
* Desktop: what it shows as done is done; no state waits for an answer that will not come.

## 2. Modules

| Module | Models |
| --- | --- |
| `UploadTaskRepository` | rows of `upload_tasks`; each conditional `UPDATE` is its WHERE (a predicate) and its SET (a function) |
| `QuotaService` | the quota columns, likewise |
| `UploadLifecycle` | extends both: the whole life of uploads with stores, chunk requests and completion requests |
| `UploadLedger` | abstract: what uploading promises to users and their bytes, without requests, leases or failures |
| `UploadRefinement` | the mapping under which `UploadLifecycle` implements `UploadLedger` |
| `StorageJobRepository` | rows of `storage_jobs`, likewise |
| `StorageJobQueue` | extends it: producers, polling worker processes, handlers' results |
| `BlobGc` | extends it: references, trash, reconciliation of zero counts, the `blob_gc` handler |
| `FolderTree` | folders and files of one user: create, rename, move, upload, trash, restore |
| `FileCopy` | extends `QuotaService`: copies that reserve first and commit batch by batch |
| `Shares` | shares, visitors, saves, cancellations |
| `FileReads` | list cache, paging, downloads |
| `Reconciliation` | scans of contents, users and objects with their findings |
| `Accounts` | users, sessions, locks, administration on two instances |
| `RequestGate` | filters and handlers of every route, window counters |
| `RequestValidation` | request forms, chunk arithmetic |
| `S3Storage` | S3 staging and blobs, multipart uploads, journal, recovery, limiter |
| `LocalStorage` | local staging and blobs, one file-system call a step |
| `ProcessDrain` | start-up, admission and drain of one process |
| `DesktopTransfers` | `TransferManager`: an upload, a download, the server behind them |
| `DesktopSession` | owner and visitor session, shell, calls of the page managers |
| `MCUploadLifecycle`, `MCBlobGc`, `MCProcessDrain` | instances for TLC |
| `MCMetadata`, `MCRequests`, `MCBackground` | several modules side by side for TLC: the variable `scene` picks the one that moves, so states add up instead of multiplying |
| `SetSums` | sums over sets of rows, for `UploadLifecycle`, `BlobGc` and `FileCopy` |
| `UploadLifecycleProofs`, `StorageJobQueueProofs`, `BlobGcProofs`, `BackgroundProofs`, `StorageProofs`, `RequestProofs`, `MetadataProofs` | theorems (section 4) |
| `SetSumsProofs` | lemmas on sums and on finite sets that those proofs use |

Where components interact, one module has both sides: uploads with quota, contents, jobs and
stores in `UploadLifecycle`; contents with trash, jobs and reconciliation in `BlobGc`; trash with
folders in `FolderTree` and with shares in `Shares`; copies with quota and administration in
`FileCopy`; the client with the server's session in `DesktopTransfers`.

A name with a suffix such as `CanClaim_AnyDeadLease` is a plausible mistake in the
definition it precedes; no specification uses it. `mutants` in `PROJECT.json` says
which property each of them breaks.

### Conventions

* A database transaction or a single statement is one action: PostgreSQL serializes
  the row updates these transactions consist of. The exception is the collector's
  transaction, which stays open over a storage call and holds a row lock (`lock`).
* A storage operation that takes time is a begin and an end action.
* `NOW()` is not a number: a row carries flags (`live`, `expired`, `due`) for the
  comparisons the code makes, and time turns them.
* Every request may end at every step: its process exits or a call fails. An `UPDATE`
  whose answer is lost took effect and reads as a failure.
* Data is cut to what decisions depend on: a content stands for (md5, sha256, size), a
  payload is right or wrong, a name is a (folder, name) pair.

### `UploadLifecycle`

`InitRead` is the reads of `InitializeUpload` outside a transaction; `InitInstant`,
`InitResume`, `InitNew` are its transactions, `InitEnds` all ends without effect.
`LoadChunkTask`, `WriteChunk`, `RecordChunk` are the three steps of `UploadChunk`; the
task may come from the cache of the instance, which is stale by design (one set
`cached` stands for all instances, so it is only ever more permissive).
`Claim` ... `FinalizeTransaction` are the steps of `CompleteUpload`; `pc` is the step.

* Fresh upload ids are UUIDs; an id carries its parameters as constants.
* A dedup or name query that fails reads as "no content" and "free name", as in the code.
* Local store: all claims of an upload share one assembled file. `intact` says whether
  anybody truncated or removed the file a request is writing or copying. A reader keeps
  its open file after an unlink, not after a truncation. S3: the assembled key is per claim.
* The S3 promotion of an existing object compares sizes only (`VerifiesExisting`).
* Not included: mixed backends, chunk geometry (it is in `RequestValidation`),
  `TriggerStagingReconciliation` (it records
  findings). Files go to the trash and contents are collected in `BlobGc`, so here `file`
  stays in none/active and `gc` in none.

### `StorageJobQueue`

A poller is one `PollOnce` activation. The two statements of `ClaimReadyBatch` are
`SweepExhausted` and `ClaimReady`; the effective batch size is 1 because worker
concurrency is. A heartbeat that renews leaves the row as it is, so only the one that
finds the job lost is an action. A restarted process keeps its instance id. Retry delays
are the flag `due`. `arms`, `begun` and `done` are history variables the actions never read
for their guards, except the bound `MaxArms`.

### `BlobGc`

Files of a content are created by a completion (`Lookup`, `PromoteToFinal`,
`AcquireReference`) or by an instant upload, a copy or a save (`FindContent`,
`IncrementRefCount`), move between active and trash, and are purged by deletions that
read the trash first. `ScanContent` and `EnqueueBlobGc` are reconciliation. `GcClaim`,
`GcStart`, `GcDeleteBlob`, `GcCommit`, `GcFails` are the collector. Promotion is atomic (S3
semantics). Quota refusals are `RequestEnds`. The job's preflight and heartbeat are left to
`StorageJobQueue`. A rollback and the `MarkFailed` after it are one action. `row[c].made`
numbers the rows a content ever had; a job belongs to the latest. With `ConnectionLoss`
the server may drop the collector's connection and so its lock.

### `ProcessDrain`

Each access to a `std::atomic` is an action. The signal handler may run on any thread, so it
interleaves with the main loop; callbacks of the main loop exclude each other until they
await (`LoopFree`). The three reads of `check_drained` are one action: it runs on the main
loop, and after the drain began none of what it reads can turn from idle to busy unnoticed,
except for requests that will be refused. I/O threads run on after `quit`.

### `UploadLedger` and `UploadRefinement`

The ledger knows, per upload, a phase (absent, open, closed, stored, dropped) and the users'
bytes. `KeepsLedger` says that every step of the upload services is one step of it or none:
takeovers, lost answers and repeated requests cannot reserve, release or charge twice.

### `FolderTree`

A request is a READ COMMITTED transaction whose writes appear at its commit. Row locks are held from
the statement that takes them; the recursive subtree query (`FetchFolderSubtree`) locks nothing and is a step of its own, so
`MoveToTrash` discovers, locks and reads again (`TrashDiscover`, `TrashStabilize`). An upload's read of
its folder is unlocked. Paths, depths and times are left out.

### `FileCopy`, `Shares`, `FileReads`

A copy is `CopyReserve`, then per batch a conflict query and a transaction, then releases; deletions, a
removed target, taken names and an administrator come in between. In `Shares` every statement outside a
transaction is a step; `barred` records the codes whose cancellation was answered before a request
began. In `FileReads` a folder's contents are the number of mutations committed; a lister remembers how
many were answered before it began (`due`).

### `Reconciliation`

A scan runs page by page with a cursor; pages fail, are retried, or are redone by a second worker while
the first goes on; rows and objects change meanwhile. `steady` remembers what has not changed since the
scan began: about that, and only that, a finished scan must be right.

### `Accounts`, `RequestGate`, `RequestValidation`

Every await is a step, every Redis command may fail before or after its effect, instances restart with an
empty cache. A request in `RequestGate` is the list of its filters and handler steps, taken from the route
declarations. A form in `RequestValidation` is the list of tests of its `FromRequest`; a value is the class
of inputs these tests tell apart. The chunk arithmetic works modulo `2^ByteWidth`.

### `S3Storage`, `LocalStorage`

A multipart upload is created, tracked, filled part by part and completed; each call fails or has its effect
with the answer lost; the process may crash; recovery claims journal rows whose lease has lapsed. Locally
each file-system call is a step, and `DeleteBlob` may be given up while its removal goes on.

### `DesktopTransfers`, `DesktopSession`

One action is one slot on the Qt event loop. The server is the part of it the client can observe: a session
with chunks, a file. An aborted reply is not delivered, but its request may still take effect (`stray`).
Signals are synchronous, so a slot and its cascade are one step of `DesktopSession`.

## 3. Runs

| Run | Shows | Bounds |
| --- | --- | --- |
| `lease_race` | lease fencing, one file per completion without an error mark, balanced ledger, intact blobs, recoverability, final terminal states | 1 upload, 2 completion requests of one instance, 3 claims, right and wrong bytes, S3 |
| `two_uploads` | one active upload per user and hash, late chunks leave no rows, abandoned uploads expire, staging is reclaimed, the abstract ledger is implemented | 2 uploads of one user and content, 2 chunks, 1 completion request |
| `metadata` | tree, copies, shares, reads and scans stay consistent; a withdrawn share grants nothing | 5 folder ids, 2 file ids, 2 requests; 2 copies of 2 files; 1 share, 2 visitors, 2 shared files; 2 listers, 2 mutators; 2 scan workers, 2 scans |
| `requests` | identity and limits at the gate, usable forms, chunks that cover the file, sessions and locks, the client's sessions | every route with 1 request, 2 requests on contended routes; every form; 2 users, 2 instances, 3 calls; 5 authentication calls |
| `background` | jobs, drain, collector, both stores and the client's transfers keep their invariants | 3 pollers of 2 processes, 2 jobs; 2 requests; 2 files of 2 users, 2 deletions; 2 S3 sessions of 2 parts; 2 writers, 2 promotions; 2 server sessions, 3 downloads of 3 bytes |
| `progress` | jobs settle, the drain ends, garbage is collected, tracked multipart uploads close, a cancellation ends | as `background`, with one actor less of each kind |
| `quota` | **violated**: finding 1 | 3 uploads, 2 contents, quota 5 |
| `local_takeover` | **violated**: finding 2 | 1 upload, 2 claims, local |
| `gc_promote` | **violated**: finding 3 | 2 files, 2 workers |
| `drain_start` | **violated**: finding 4 | 2 requests |
| `folder_orphan` | **violated**: finding 5 | as `metadata` |
| `desktop_download` | **violated**: finding 6 | as `background` |

The invariants with a general name are conjunctions of named parts, the type invariant among them:

* `TreeConsistent`: `ItemCountExact`, `SubtreeDeletedWhole` (a deletion takes along what is created,
  moved or restored into its subtree).
* `CopiesAccounted`: `CopyReservationSettled`, `CopyUsedExact`, `CopyContentKept`, `CopiedOnce`.
* `SharesAccounted`: `SavedCopiesReferenced`, `SaverChargedForCopies`, `LinksCleaned`.
* `ReadsFaithful`: `ServedFresh`, `PagesCoverListing`, `DownloadAccounted`.
* `ScansTruthful`: `FindingsTruthful`, `ZeroReferenceHasRepair`.
* `GateSound`: `IdentityEstablished`, `LimitPerWindow`, `RefusedForOwnTraffic`.
* `FormsSound`: `AcceptedIsUsable`, `CommandConfirmed`, `ChunksCoverFile`.
* `AccountsSound`: `RotatedOnce`, `FailuresLock`; `WithdrawalsStand` (per step): no admission after an
  answered logout, a running lock keeps its deadline.
* `DeskConsistent`: `PendingHasAnswer`, `SignedOutHasNoToken`, `OwnerShellNeedsSession`, `OutcomePerCall`.
* `DrainConsistent`: `DrainedMeansIdle`. `GcConsistent`: `RefsMatchFiles`.
* `S3Consistent`: `ObjectsWhole`, `ResolvedIsClosed`, `SlotsExact`, `CreatedOnce`.
* `LocalConsistent`: `PublishedChunkWhole`, `PromotedBlobWhole`, `CleanedSessionEmpty`.
* `UploadFollowsServer`: `OneRequestPerUpload`, `UploadCompletedOnServer`, `RecordedChunksKept`, `EndedIsQuiet`.
* `DownloadFollowsServer`: `VerifiedWhole`, `CompletedFromOwn`.

Why the bounds are enough: the races are between two parties over one row, and each run has two
parties plus a third state to return to (three claims: first owner, successor, first owner again; two
attempts: the first and the last; two arms: a round and the next; two scans: one and the one that
follows it). Five folder ids are a tree of three levels, a folder created during a request and one made
by a restore. Two parts of a multipart upload are one that is and one that is not uploaded when it is
aborted. `MaxClaims`, `MaxChunkRequests`, `MaxArms`, `MaxSessions`, `MaxDownloads`, `MaxScans`, `MaxMoves`,
`MaxScanFaults`, `MaxFaults`, `MaxDeaths`, `MaxTokens`, `MaxDay`, `MaxTime`, `MaxSecond`, `MaxAuthCalls`
and `MaxManagerCalls` bound counters, faults or clocks only. Deadlock is not checked: ids and counters run
out by these bounds, and a process or a transfer really ends. Symmetry is used in `lease_race` (two requests
of one instance) and `requests` (calls, instances); neither checks liveness.

### Fairness

* `two_uploads`: time passes, `expire_uploads` is seeded periodically, workers run pending cleanup
  jobs. Clients and completion requests are not fair.
* `progress`, jobs and collector: the poll timer of each process fires (a poll that finds nothing is not
  required: `WorkWaits`), SQL and storage calls return (weak fairness per poller or worker); strong
  fairness of the claim per job, because `ClaimReadyBatch` takes the oldest ready rows first; nobody renews
  a lease without working on its job.
* `progress`, drain: the main loop and the signal handler run, the deadline passes; strong fairness of
  `check_drained`, whose timer repeats every 100 ms between callbacks. Requests, worker runs and seed
  cycles may hang.
* `progress`, multipart recovery: the worker's steps for a journal row, because the job is seeded
  periodically. Uploads themselves are not fair.
* `progress`, client: the retry timer of a cancellation fires and its request ends; a DELETE has a transfer
  timeout. GET and POST have none, so nothing is promised about them.

### Findings

1. `QuotaRespected`: `ConsumeUsedStorage` ignores reserved bytes, against
   `openspec/specs/persistence-design/spec.md:53`.
2. `ReferencedBlobIntact` (local store): a request that lost its lease truncates the shared
   assembled file under the new owner; the hash check reads chunks, not the file.
3. `ReferencedBlobPresent`: a content row can be inserted over an object that was collected
   between promotion and transaction.
4. `NoRunAfterDrain`: a signal before the worker runtime is published leaves it polling.
5. `NoRowInRemovedFolder`: an upload's transaction reads its folder without a lock and ignores that the
   update of `item_count` touched no row; its file stays active in a folder deleted in between, against
   `openspec/specs/trash-lifecycle/spec.md:17`.
6. `DownloadedWhole`: the client writes the body of an error response into the partial file and resumes
   behind it, and likewise the body of a 200 answer to a range request when the download is interrupted before
   its end; a share download has no hash that would tell, against
   `openspec/specs/desktop-client-experience/spec.md:157`.

Quotations and lines are in `PROJECT.json`.

## 4. Proofs

For every value of the constants that satisfies the named assumptions of the modules: sizes and limits are
natural numbers, positive where a zero would switch the feature off; the parameters are functions of the right
kind; `NoOwner`, `NoLock`, `Nobody`, `NoCode` are not members of the sets they stand outside of; the sets of
uploads, files and requests that are summed over are finite; there is a password and a content; the
administrators of the start have a session each; the items of `Shares` have no file in common, as a file is in
one folder; the subtrees of two folders meet only if one is below the other; the rows of a listing are finitely
many with natural numbers as keys; the ids of folders and files are finitely many natural numbers, the root's not
among those of folders, and the rows of the start lie in folders of the start; the programs of a route are finite; "final" names no upload and no scan worker
has the name of a job status. TLC evaluates all of them on the runs' instances.

Each proof is an inductive invariant, its three facts (initial states, steps, what it implies), and one lemma
per action or per kind of action. Except where noted, TLC checked the invariant on a small instance before it
was proved.

### Uploads (`UploadLifecycleProofs`)

* `TypeCorrect`: `TypeOK`. The interesting part is that no ledger column leaves the naturals, which needs
  the guards `HasReserved`.
* `LeaseFencingHolds`: at most one completion request of an upload carries the `state_version` of its
  row. `OneFreshOwner` is not inductive alone: a claim makes a new version, so one also needs that no request is
  ahead of its row, that a claimed row exists, and that an init never recreates one. `LeaseFencing` is that
  conjunction. Versions only grow, every step that gives a request a version takes the row's new one, so all
  others fall behind.
* `LedgerBalancedHolds`, `OneActivePerHashHolds`, `OneFilePerCompletionHolds`, `TerminalIsFinalHolds` from
  `LedgerInv`: an id that was not initialised has no row, a task is Completed iff its file row exists, the quota
  column never changes, a content row exists iff it has references. Every action is first reduced to what it does
  to the ledger (`LedgerStep`: nothing, open, take, drop, close or store); the sums are then moved by one
  element at a time with the lemmas of `SetSumsProofs`.
* `RefinesLedger`: `Spec => KeepsLedger`, that is, `UploadLifecycle` implements `UploadLedger` under the mapping
  of `UploadRefinement`, initial states and steps.
* `TerminalLeavesNoRowsHolds`, `ActiveUploadRecoverableHolds` from `ChunkInv`, which needs `LeaseInv`: a live lease
  means Finalizing; chunk rows are backed by staged chunks until the task is terminal; a clean-up job exists only
  for a terminal task; a task is Finalizing only with all chunks. The last one is what keeps a chunk request
  that read the task early from recording a row for a task that ended in between.
* `ReferencedBlobIntactHolds`: for the S3 backend, `ReferencedBlobIntact`, from `BlobInv`: a promotion in flight
  carries a whole object. For the local backend the property is false (run `local_takeover`, finding 2), so the
  theorem says `Backend = "s3"`.

### Jobs (`StorageJobQueueProofs`) and contents (`BlobGcProofs`)

* `QueueTypeCorrect`: rows, with the table's constraint "Running iff locked".
* `ClaimFencedHolds`, `NoFalseSuccessHolds`, `ScanContinuesHolds`: from the inductive `QueueInv`. Results check
  the owner's name only, so fencing depends on `OnePollPerProcess`: the same name cannot be busy with two claims.
  `ResultsEarned` ties an "ok" result to `done`, `PagesQueued` ties it to the next page.
* `GcConsistentHolds`, `ZeroIsFinalHolds`, `ReferencedBlobKeptHolds`: from `GcInv`. References are the files that
  have them (a cardinality, moved element by element); a row at zero has a closed gate; a collector past its lock
  holds the row.

### Process and stores (`BackgroundProofs`, `StorageProofs`)

* `DrainConsistentHolds`: the in-flight counter is the number of admitted requests (`InflightExact`), so a drain
  that saw zero left nobody behind. Its invariant `DrainInv` adds only the program order of the two threads.
* `LocalConsistentHolds`, `S3ConsistentHolds`: from `LocalInv` and `S3Inv`. Whatever may be read is whole; a settled
  journal row hides no open multipart upload; the slots of the limiter are the assemblies in flight.

### The client's transfers (`BackgroundProofs`)

* `UploadFollowsServerHolds` from `UploadInv`: a task has at most one request under way, of the kind its status
  waits for and of its own session; sessions are numbered, so a stray request of an earlier one cannot touch the
  present one; the chunks the task recorded are among those the server has.
* `DownloadFollowsServerHolds` from `DownloadInv`: a task reads a reply exactly while its status says so; the partial file
  has as many bytes as the task has received and the status code at the head of the reply says how they got there
  (`InStep`); the saved resume state names the file all bytes on disk come from. An error body, once written, stays,
  which is why `CompletedFromOwn` allows it (finding 6) and only a hash or a download from the start excludes it.

### Scans (`StorageProofs`)

`ScansTruthfulHolds` from `RcInv`. For each scan that ran alone:

* `PagesCovered`: whatever lies before the cursor of a page that has a job is dealt with by that scan;
* `PagesLinked`: a page that is over was the last one or has a successor, so a scan that is over covered everything;
* `NothingInvented`: what was no orphan since the scan began has not been reported since;
* `AttemptTrue`, per worker: what the attempt has read and has not moved is as it was read, and what it has written
  is what it had read.

`Keeps` is the heart: no step unsays what a scan wrote of something that has not moved, although several workers may
redo one page and the slower one writes last. The proof showed that an earlier form of `ZeroReferenceHasRepair`,
which did not ask that the row be unchanged, held only because of the bounds of the run: a stalled worker can apply
a verdict on a row that has changed since, after another worker finished its page, and then fail before the job.

### Gate, forms, accounts and the client's sessions (`RequestProofs`)

`GateSoundHolds` from `GateInv`. The programs of all routes are examined once: what is left of a program, with the
attributes the request has by then, never meets a step that needs an identity nobody established (`ProgramSound`).
A counter counts at most the requests that are past it (`CountersSound`) and at least those it let pass in its window
(`WindowsSound`): the first bound gives `RefusedForOwnTraffic`, the second `LimitPerWindow`.

`ChunksCoverFileHolds` from `RvInv`: a field has one value, and an upload's start that is past the test of its size has a
size that passed it; so the size planned for is at least 1, and neither `size - 1` nor `size - i * chunk` wraps
(`ChunkMeasures`). The measures are summed up to the first chunk at which the sum would be wrong, and there is none
(`ChunksAddUp`). Nothing is assumed of the width of a size or of the chunk size but that they are natural numbers, the
width not 0.

`DeskConsistentHolds` from `DeskInv`: the tokens of a session come and go together; every state that waits, of a session
or of a manager, has a request of its own under way, and an answer takes both away in one slot.

`AccountsSoundHolds` and `WithdrawalsStandHolds` from `AccountInv`:

* `RotatedGone`: a refresh token that was exchanged is stored under nobody. It needs `KeysOwned`, a stored token
  was issued to the user it is stored under: otherwise the swap could leave a second copy behind.
* `RevocationsLast`: the entry of a refused token outlives the token, also while the logout that made it has not
  reported yet. An admitted token has not run out and has no entry, so no logout has reported for it.
* `AttemptsBounded`: reaching the limit sets the deadline, and both updates of a login need a row whose deadline has
  passed; so attempts stop at the limit and a running deadline is moved by administrators only.
* `CallsKnown`: what requests carry from one await to the next.

### Shares, copies, reads and folders (`MetadataProofs`)

`WithdrawnGrantsNothingHolds` and `SharesAccountedHolds` from `ShareInv`:

* `WithdrawnCancelled`: a cancellation is for good; with the withdrawals a request knew when it began (`barred`)
  it gives the first theorem, since every grant re-reads the share.
* `SaverLocked`: between the test of the quota and the charge the saver's row is locked, at most one request is
  there, and what it tested still fits.
* `UnlinkFinds`: a deletion that is running has found every link that is not marked late.

`CopiesAccountedHolds`: per request, every reserved byte is used, given back, in hand (the batch or folder being copied, or
the release under way) or still planned; the planned files and folders have no file in common, and none of them is
copied yet, which is why a commit always finds its bytes reserved and no file is copied twice. The plan has this because
files of the planned folders are taken out of the planned files, and folders below others out of the folders.

`ReadsFaithfulHolds`: a page stored under a generation contains every change whose invalidation had been answered when
that generation began, because the generation is read before the database; a lister that reads the present generation
therefore gets at least what it is due. The pages of a walk are the pages of one sorted sequence: the order by name,
type and id is total, so every query sorts the rows the same way.

`TreeConsistentHolds` from `TreeInv`, which says what makes a deletion whole and a count exact:

* `DeletionReady`: a deletion that locked all it had read has everything below the requested folders, since what it
  plans is closed under "is the parent of" and its files are found; of the planned rows only the topmost requested
  ones have a parent outside, so only those are counted down. That a requested folder lies below a topmost one is
  `TopsCover`: among the requested folders whose subtrees have it, one is in the fewest subtrees.
* `SparesOthers`, of every step: no row that another request holds is written, and nothing comes below such a row.
  It keeps `DeletionReady` while creates, moves, restores and other deletions go on; an upload is the exception, its
  file appears in the folder without a lock before the count waits for one, but it is `pending` until then.
* `SnapshotSound`: the snapshot of a subtree is a tree of its own whose counts are exact, so the renumbered rows of a
  restore are too (`RenumberedCard`).
* Counts follow the children element by element (`CountFollows`); a count that follows them never meets the floor at
  zero of `ApplyItemCountDelta`.

A subtree is the least set of live rows that has its root and the children of its members. Stated that way
(`FetchFolderSubtree`), all that is needed of it follows from leastness, without an induction over the rows.

### Sums (`SetSumsProofs`)

The library's induction theorems take an operator, which the installed provers cannot instantiate. The lemmas on
sums go around it: `LeastNumber` (every non-empty set of naturals has a least element) follows from
well-foundedness of `<`, and a minimal counterexample replaces induction over the size of a set
(`SubsetInduction`). They show that `Total` exists, is unique, and may be split anywhere.

### Only model-checked

* Liveness and what needs fairness or `ENABLED`: `progress` and its properties.
* `AcceptedIsUsable` and `CommandConfirmed` of `FormsSound`: the forms and their values are a finite table that no
  constant enters, and TLC goes through all of it.
* The properties of runs that expect a violation.

## 5. Not modelled

`components` in `PROJECT.json` lists every part. Left out for good: generated ORM code, logging, metrics and
health, response DTOs, the predicates of SQL built for searches, configuration, the S3 SDK, the web and
terminal clients and deployment. Left out of modelled parts: registration and profile edits (single-row
writes), statistics, audit rows, view counters, paths.

Known limits, of the code and of the models:

* A Finalizing task whose completion always fails stays Finalizing; nothing in the code ends it.
* A process that exits between two batches of a copy leaves the rest of its reservation; nothing gives it
  back (`CopiesAccounted` counts it).
* Two moves, each of a folder below the other's target, can both commit and leave a cycle that is not
  reachable from the root: the subtree query of `Move` locks nothing. `TreeConsistent` does not exclude it.
* Two administrators demoted at the same time can leave none: the count and the update are two statements.
* Two deletions that each remove one of a share's last two links leave an active share without items.
* An exit between `CreateMultipartUpload` and the journal row leaves an open multipart upload nobody knows of.
* A chunk written after the session's cleanup makes its directory anew; reconciliation reports it.
* A removal that outlives the timeout of `DeleteBlob` may take a blob created anew (`PromotedBlobWhole` allows it).
* A collector that lost its connection, and so its row lock, may still delete the object of a content that was
  collected by another worker and uploaded anew; `ReferencedBlobKept` excludes that collector.
* Scans of one scope that overlap may resolve each other's findings until the next scan that runs alone.
* A scan worker that stalls may write its verdict on a row that has changed since, after another worker finished the
  page; a zero-reference finding it leaves behind has no job until the next scan.
* Trash, share and administration lists order by a timestamp alone; rows of one instant may repeat or be
  skipped between pages. Redis losing a list generation brings old pages back until they expire.
* `SetWorkerAccepting` reads `m_draining` and stores in two accesses; a drain that begins in between is
  overwritten, and the process reports `worker_accepting` while it drains. Nothing is decided by it.
* A late refresh answer makes a desktop session active again after its logout; a late answer of a share's
  password check is applied to the share opened since. The client does not compare them.

## 6. What is left

A model of the two moves that can leave a cycle (section 5), beyond the listed hazard.
