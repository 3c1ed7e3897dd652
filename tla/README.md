# Verification of FIMBox

FIMBox computes flood inundation maps. A FastAPI service accepts jobs, Celery
workers execute them in a container, Redis carries the queue and the short-lived
state, and S3 keeps the datasets, the job records and the results. This directory
holds TLA+ modules of the parts of FIMBox that are hard to get right because
several processes, and failures between their steps, meet there; TLC
configurations that check the modules on small instances; and proofs, checked by
TLAPS, that every safety property of these parts holds for every instance.

Paths below are relative to the repository; `main.py`, `history.py` and the other
bare names are in `src/fimbox_api/`.

Contents: 1 the system, 2 what is hard, 3 modules, 4 runs, 5 fairness, 6 proofs,
7 findings, 8 further observations, 9 not modelled, 10 plan, 11 running it.

## 1. The system

| component | state it keeps | operations |
|---|---|---|
| Job submission, execution, cancellation, history (`main.py`, `history.py`, `storage.py`, `celery_app.py`, `job_timing.py`) | S3: `jobs/<id>/record.json`; Redis: owner key, workspace association, job credentials, Celery result and message | POST hand-fim / parity / compare, GET status, DELETE job, `HistoryTask.__call__`, `persist`, `prepare`, `mark_cancelled` |
| Job logs (`job_logs.py`, `history.read_logs`, GET logs, the log view of `static/ui/app.js`) | Redis: one string per job; S3: `worker.log`; browser: offset and text | clear, append, archive, read by byte offset, poll |
| Dataset preparation runs (`dataset_preparations.py`, the tasks of `tasks.py`) | Redis: reservation of the dataset, state and context hashes, sets of failed and finished HUCs | `submit`, `cancel`, `mark_running`, `mark_huc_complete`, `mark_huc_failed`, `mark_failed`, coordinator, batch |
| Prepared HUC collection (`docker/handfim/prepare_streaming_collection.py`, `prepare_streaming_dataset.py`, `stream_storage.py`, `patches/streamFIM.py`) | S3: `dataset.parquet`, and `huc.parquet` (the marker) and `reaches.parquet` per HUC | check the version, convert, delete and upload one HUC; plan with it |
| Streaming job publication (`tasks.py`) | S3: COG tiles, a manifest per scenario, `scenarios.json`, `README.md` | write tiles, publish manifests, roll back, delete replaced tiles |
| Device login (`device_auth.py`, `auth_routes.py`, `auth.py`, `fimbox_login.py`) | Redis: login record, OAuth state, session | start, approve, callback, poll |
| Legacy HAND-FIM task (`tasks.py`, `docker/handfim/entry.py`, `patches/runFIM.py`) | worker volume: flow files, HUC directories, rasters, named after scenario and HUC; results in S3 | download HUCs, write flows, map, assemble, check and upload, clean up |
| Parity and comparison tasks (`tasks.py`, `parity.py`) | S3: difference rasters and a report | match scenarios, compare two floods over shifted grids, report |
| Workspaces (`workspaces.py`) | S3: `workspace.json`; Redis: association of a job | create, open, `bind_job` |
| Sessions and OAuth (`auth.py`, `auth_routes.py`) | Redis: session, OAuth state | login, callback, logout |
| Streaming algorithms (`patches/streamFIM.py`, `noaa_stream_rule.py`, `stream_storage.py`, `prepare_streaming_dataset.py`) | a downloaded HUC, its index of blocks and ratings; progress of a scenario | download, convert, plan, schedule tiles, compute and write a tile, write a manifest |
| Raster tiles and manifest cache (`rasters.py`) | per process: cache of manifests by ETag | load a manifest, render a map tile |
| Historical streamflow (`historical_streamflow.py`, `archive_reader.py`, `retrospective.py`) | per process: capacity, decode slots, HDF5 lock | look up an hourly window |
| Web UI (`ui.py`, `models.py`, `static/ui/app.js`), settings and resources, SDK, infrastructure, notebooks | none that the others share | forms, validation, deployment |

How they interact. The API and the workers do not call each other: they share
Redis and S3. A submission writes credentials, the record, the owner key and the
association, then queues a Celery message. A solo worker takes the message,
reports STARTED, opens the archive with the job's credentials, writes `started`,
executes, writes the log and the outcome to S3, and only then lets Celery store
the result and acknowledge the message (`task_acks_late`). The browser and the SDK
read the record and, while it is not terminal, the live Celery state. A streaming
job reads the prepared collection, which preparation batches replace meanwhile,
and publishes tiles and manifests that the raster routes read. A login ends with a
session that later requests present.

### What makes each component correct

* Jobs. A job never executes without a record. What the API states as known
  happened. Celery shows no success that the archive lacks. A rejected submission
  leaves no access behind and is not executed. A revoked job is not started. Every
  accepted job ends. The durable record follows a simple abstract history.
* Logs. A reader sees the beginning of the output, no byte lost, repeated or torn;
  when it stops it has seen all of it; the log is beside the terminal record.
* Preparation. `completed` means every HUC is published; a run that is over has its
  outcome; one run per dataset at a time, unless a cause is known that undoes the
  reservation; runs end and free the dataset.
* Collection. A marked HUC is complete and of the dataset's version; a replacement
  leaves nothing old; a job that found a HUC leaves no reach out.
* Publication. A manifest names only tiles that exist and is written after them; a
  success is published whole; a rollback restores what it found and spares others.
* Login. A token is handed out once; no session is left that nobody can reach.
* Flood computation. The published tiles flood exactly the cells that NOAA's procedure
  floods on the whole rasters; every cell is computed once; reaches that are not
  covered are reported, and no others. An interrupted download is resumed.
* Legacy task. A job publishes what was mapped from its own flows; nothing of it stays on
  the volume; nothing is overwritten unasked, whatever killed attempts left.
* Comparison. A difference raster holds exactly the cells that differ after the shift it
  reports, and a match has none.
* API reads. A map request is answered from a manifest that was stored during it; a
  lookup has the flow of each reach at each hour, from one version of an object, and
  ends; a workspace has one creator.

## 2. What is hard

* Two stores, one truth: S3 record and Celery state are written one after the other,
  by two kinds of process, and either write may fail, or be applied and reported as
  failed.
* Redelivery: with late acknowledgement a message comes back after a crash (of work
  that may be done already) and after the visibility timeout (of work that goes on).
* Check, then act: cancellation, the status of a preparation run, its reservation,
  the rollback of a manifest and the version check of a dataset each read, decide and
  write without a transaction.
* Several objects, no transaction: a HUC, a scenario's tiles and the five stores of a
  submission change one object at a time while others read them.
* Bytes and characters: the log is cut at byte offsets, served from two sources.
* Optimistic locking with a bounded number of tries (login).
* Index arithmetic over blocks, branches, tiles and row groups that must cut and join
  grids without losing or doubling a cell; shared HydroIDs; shifted grids.
* A worker volume that outlives the worker, with names that jobs share.
* Threads of the API: a cache shared without holding its lock over a request, a lock
  without a timeout inside a slot with one, objects replaced between two ranges.

`PROJECT.json` lists each hazard at its line with the properties that cover it, or
the reason why none does.

## 3. Modules

Each module names the code in its comments; `PROJECT.json` maps every definition to
lines. One action is one call that another process can observe (a Redis command or
transaction, an S3 request, a broker operation) with all that the process does up to
its next such call. Definitions marked "Mutant of" are plausible defects, each of
which some run refutes; nothing uses them otherwise.

### JobHistory (abstract) and JobLifecycle
`JobHistory` states what a job's durable record promises: it appears once, each
outcome has its reason (`happened`), and it never returns to `queued`.

`JobLifecycle` has one variable per store and per program counter:

| variable | in the code |
|---|---|
| `record` | status in `jobs/<id>/record.json` |
| `owner`, `bound`, `credentials`, `backend` | Redis: owner key, workspace association, job credentials, Celery result |
| `message`, `inbox`, `revoked` | the broker's message, `control.revoke` broadcasts on their way and remembered by a worker |
| `submission`, `cancel` | where the POST and the DELETE of a job are |
| `phase`, `task` | where each solo worker is |
| `happened`, `faults` | history variables |

The submission is `CreateCredentials`, `Prepare`, `TrackOwner`, `BindJob`, `Enqueue`
and, when queueing fails, `RecordEnqueueFailure`, `DeleteCredentials`, `UntrackOwner`
(the routes' `except` and `finally`). The cancellation is `CancelAuthorize`,
`CancelReadRecord`, `CancelReadState`, `CancelRevoke`, `CancelMark`. A worker goes
through `Receive`, `Discard` or `ReportStarted`, `OpenArchive`, `RecordStarted`,
`Run`, `RecordSuccess` or `RecordFailure`, `ReportResult`, `Acknowledge`. `JobStatus`
is the answer of `get_job_status`. The three submission routes make the same calls
and are one action sequence; what a task computes is `Run`, which succeeds or raises.
Faults: a failing (or ambiguous) S3 or Redis request, a failing or ambiguous send, a
dying request, a killed worker, the loss of Redis, the expiry of one key, the
visibility timeout.

### JobLogs
`log` (Redis) and `archive` (S3) are sequences of bytes, each byte naming the
attempt, the line and its place in a UTF-8 character. `Chunk` is `read_job_logs` and
`read_logs`: take up to `max_bytes`, drop an incomplete last character, replace what
cannot be decoded. The worker appends a line at a time, archives the log before the
terminal record. `view` is the log panel of `app.js`: it opens with the job's
status, polls the record, then the archive or Redis (STRLEN and GETRANGE are two
steps), then the Celery state, and stops at the first empty answer of an ended job.
The log is cleared at the start of `hand_fim` and `parity`, not of the comparison:
`clears` is chosen at the start.

### Preparation
One reservation, and per run a status, the sets of failed and finished HUCs, and
messages of the coordinator and of each batch with their counts in the queue and
unacknowledged. A worker goes through the check, set and delete commands of
`dataset_preparations.py` one at a time, so every check-then-set can be interleaved.
`prepared` is the history of what was published. Faults: a Redis command that fails
(`redisError`), a transaction that stores a run and is reported as failed although it was
carried out (`ambiguousStore`), the same two for the send of the coordinator (`sendError`,
`ambiguousSend`) and for a group of batches (`partialGroup`), a request that dies (`apiCrash`,
`cancelCrash`), a killed worker, the visibility timeout, the reservation that reaches its time
to live.

### HucPublish
The objects of one HUC, each reduced to the source version it was built from, in
S3's key order. A preparer checks `dataset.parquet`, converts, deletes page by page
(one `delete_objects` request is one step), uploads `reaches.parquet` and then the
marker. A planning job reads the dataset, the marker, then `reaches.parquet` in
ranges, or the files of single reaches in the older layout. When the object changes
between two ranges the module leaves open whether the mixture decodes, raises, or
ends early, in which case `RangedObject.readinto` loops (`stuck`).
`Orderly` excludes overlapping preparers and refused deletions from the properties:
the code does not defend itself against them (section 8).

### StreamPublish
Attempts at one streaming job over one output prefix: load the manifests, run (tiles
are uploaded one by one), put manifests, put two files, and either delete the tiles
that were replaced or roll back, reading each manifest before deleting or rewriting
it. A rollback leaves the attempt's own tiles where they are, only a success deletes tiles
(those it replaced). What readers see is `manifest` and `tiles`.

### DeviceLogin
One login record under WATCH/MULTI. Each of `approve`, `deny`, `fail`, `finish` and
`poll` is `Watch` (read), then `Execute` (the EXEC succeeds), `Retry` (it does not) or
`Refuse` (the record does not allow it), at most `MaxTries` times. Browser tabs
confirm, are redirected, return, issue a session, and revoke it when they cannot
attach it.

### SharedStores
Composes the last three: stores that several processes read, decide on and write. They share no
state, so a behaviour takes one of them (`contested`).

### HucIndex and TileStream
`HucIndex` is the operator's preparation of a HUC: `Download` (a listing, file by file,
`InterruptDownload` kills it in between, `SkipDownload` when branch 0's catchments are
there) and `PrepareHuc`: read the hydro-table of each branch (one for the HUC or one
per branch), drop lakes, keep each reach's curve and the rows it had (`row_order`), find
the blocks in which a HydroID occurs, group the rows.
`TileStream` is `stream-scenario`: `StartCommand`, per scenario `StartScenario`,
`PlanNextHuc` (read the row groups that can hold a wanted reach, join shared HydroIDs,
look up stages, admit, schedule), `RunTile`, `FinishHuc`, `FinishScenario`. A raster is a
function from cells to values, a tile the set of its flooded cells. `rule` is the flood
rule (`pinned` or `updated`). `RefFlood` is the reference: the same table and rasters,
without index, blocks, groups or tiles.

### LegacyScenario
One solo worker, its volume (`hucDir`, `flow`, `raster`, `outDir`) and the bucket.
An attempt starts, downloads the HUCs it does not find, writes flow files, maps label by
label (in any order: a process pool), assembles the rasters of a scenario, checks, uploads
file by file and cleans up. A raster records whose flows and which HUC directory
(`partial` or `whole`) it was mapped from, and whether it floods anything. `Kill` takes
the worker at any step and delivers the message again; `StepFails` is any failing call.
Names are token sequences, because `runFIM` cuts a label at its first dot and the
assembly searches by prefix.

### Comparison
`hand_fim_compare` and `hand_fim_parity` over two results: match the scenarios, and for
each `CompareOutputs` (common extent plus margin, windows, the shift that lowers the
difference most, difference raster), then the report; killed and redelivered.

### HandFimTask
Composes the last three: a worker that streams, runs a legacy job or compares. They
share no state, so a behaviour takes one of them. `Collections` holds what they need of
Python's `sorted`, comprehensions and `dict`, as plain definitions that a proof can expand.

### ManifestCache, HistoricalLookup, Workspaces, ApiReads
`ManifestCache`: request threads of `load_scenario_tiles` look into the cache, ask S3
conditionally without the lock, insert and evict under it; publishers change manifests.
`HistoricalLookup`: lookups of a window of hours with capacity, decode slots, HDF5 lock and
deadline; the retrospective part by time chunk, the archive hour by hour, with the version
pinned at the first range; publishers replace objects. A reach that the retrospective does
not have gets no flow for its hours (`RetroReaches`). `Workspaces`: list, then put on
condition; a put whose answer is lost is repeated. `ApiReads` composes them as surfaces of
one API process that share no state.

### How the modules relate
`JobLifecycle` implements `JobHistory` (INSTANCE with `refused` mapped to the
submissions that failed). `JobLogs` and `StreamPublish` refine the execution step
`Run` of `JobLifecycle` from two sides and repeat only its redelivery. `HucPublish`
is what `PrepareHuc` of `Preparation` does to S3, and what a job reads before the tile
uploads of `StreamPublish`. `HucIndex` is the conversion inside `HucPublish`'s `Build`, and
`TileStream` the computation inside `StreamPublish`'s tile writes: one pair says what is in
the objects, the other when they are there. `LegacyScenario` and `Comparison` are the
execution step of `JobLifecycle` for the other kinds of job. `MC*` modules only give constants
their values.

## 4. Runs

Every cfg says `CHECK_DEADLOCK FALSE`: the system rests when every request is
answered and every message acknowledged. Counters of faults are bounded by
`MaxFaults`; where a module keeps the *set* of kinds that occurred, each kind
occurs at most once.

| run | instance | states | question |
|---|---|---|---|
| `JobLifecycle` | 1 job, 2 workers, 9 kinds of fault, any 3 | 553,287 | Is the API truthful and the record safe whatever fails? |
| `JobLifecycleLive` | 2 jobs, 1 worker, 1 worker crash, fair | 253,450 | Does every accepted job end, and is a running job in someone's hands? |
| `JobLifecycleCancel` | 1 job, 1 worker, no fault | stops | finding: cancellation overwrites a started job |
| `Preparation` | 1 run, 2 batches, 2 workers, cancellable, all kinds, one fault | 825,240 | Is `completed` true and the outcome decided? |
| `PreparationLive` | 2 runs, 1 worker, 3 kinds, one fault, fair | 100,245 | Do runs end and free the dataset, and stay apart? |
| `PreparationOverlap` | 3 runs, 2 batches, 2 workers, no fault | stops | finding: a late batch frees the dataset of the next run |
| `PreparationCancel` | 2 runs, 1 worker, one run cancellable, no fault | stops | finding: a cancelled run goes on beside the next |
| `JobLogs` | lines of 1 and 4 bytes, chunks of 4, 2 kinds of 5, fair | 225,658 | Is the log shown whole and in order? |
| `SharedStores` | 2 preparers of 2 versions, 2 reaches, pages of 2, 2 kinds of 3; 2 attempts, 2 scenarios, 2 tiles, 3 kinds of 6; 2 tabs, 2 polls, 2 tries, one fault | 1,399,888 | What do readers see of a HUC while it is replaced, and of outputs while attempts fail, roll back, overlap; is a login delivered once? |
| `HandFimTask` | 3 hydrofabrics of one HUC and 1 of another, 10 scenario files, 2 block sizes, 2 rules; 3 legacy jobs, 2 kills, 1 fault; 43 pairs of results, 1 restart | 636,096 | Does the worker compute and publish the right floods? |
| `PrepareDownload` | 1 interrupted download | stops | finding: an interrupted download is taken for complete |
| `ApiReads` | 2 readers, 2 manifests, cache of 1; 2 lookups over 6 hours, 3 pairs of limits, 1 replaced object; 3 creators | 136,250 | Do request threads answer from what is there, and end? |

What the properties say is in the comment above each of them. In short:

* `JobLifecycle`: `KnownStatusIsTrue`, `ArchiveBeforeResult`, `RejectionLeavesNoAccess`,
  `RejectedJobNeverStarts`, and the refinement `ImplementsHistory`. In
  `JobLifecycleLive`, `KnownRunningIsOutstanding` and the liveness property
  `AcceptedJobsSettle`. (`RecordPrecedesMessage` and `RevocationIsHonoured` are proved,
  section 6, and not checked again.)
* `Preparation`: `CompletedMeansPrepared`, `OutcomeIsDecided`; in `PreparationLive`
  `OverlapHasACause` and the liveness property `RunsSettle`.
* `SharedStores`: `MarkedHucIsComplete`, `ReplacementIsWhole`, `FoundHucIsWhole`;
  `PublishedTilesExist`, `SuccessIsPublished`, `RollbackRestores`; `TokenIsHandedOnce`,
  `NoOrphanSession`.
* `JobLogs`: `SettledShowsWholeLog` and the liveness property `PollingEnds`.
* `HandFimTask`: `FloodIsReference`, `EveryCellOnce`, `MissingIsExact`;
  `LegacyOutputsAreOwn`, `VolumeIsClean`, `LegacyReplacesOnRequest`; `ComparisonIsExact`.
* `ApiReads`: `ServedWasCurrent`, `SamplesAreTheHours`, `OneCreator` and the liveness
  property `LookupsEnd`.

Each has a mutant in `PROJECT.json`, a change of one definition under which the
same run finds the property violated.

### Why the bounds are enough

* One job in `JobLifecycle`: jobs share nothing but the workers, and a worker that is
  busy with another job is, to this one, a slow worker. Two workers are what it takes
  for one job to be delivered twice. Two jobs on one worker, where one waits for the
  other, are the case of `JobLifecycleLive`. The proofs cover the rest of the safety.
  Three faults allow a failed send, whose clean-up also fails, next to a crash.
* Two workers and two batches of one HUC are the smallest case in which two batches
  conclude one run, or one batch is executed twice.
* Two runs are the least that can overlap. A late release needs a third run, which takes the
  dataset from the second (`PreparationOverlap`). The faults of `PreparationLive` are those
  after which runs settle; what `OverlapHasACause` says of the others, of cancellation and of
  several workers with one batch is covered by the proof.
* Two attempts: the one that fails or dies and its successor. Two scenarios and two
  tiles are the least for a rollback half way and for attempts that compute different
  tiles.
* Two tabs and two polls are the smallest conflict between requests of each kind;
  two tries instead of five reach both a retried and an exhausted update.
* A character of one byte, then one of four, with chunks of four bytes (the least the
  route allows) cut the second character; two faults allow a crash followed by a
  failed request. A view is opened at any time, and again after it stopped without
  having seen the job's end.
* Pages of two keys (1000 in S3) split the four keys of a HUC into two pages, so a
  crash can come between them. A HUC in production has more keys, and more pages
  between which nothing new happens.

* `HandFimTask`, streaming: the big HUC has a branch 0 of 3 by 4 cells and a second branch of
  2 by 3 placed inside it, or reaching over its edge (which must not be converted), with
  one hydro-table or one per branch. Blocks of 2 and 3 cells do not divide the rasters and
  do not align with tiles of 3, so every kind of clipped window occurs. HydroID 12 is shared
  by two reaches whose rows alternate in the table, 23 is a lake, 24 has no cell. The
  scenario files ask for one reach, for the sharing reaches in both orders, for absent
  reaches, lakes, dry reaches, two HUCs and two scenarios, and exceed the limits of blocks
  and tiles. Two reaches per row group split the groups between wanted and unwanted ones.
* `HandFimTask`, legacy: two jobs with a scenario of the same name on the same HUC and prefix,
  the second with overwrite, and one whose name has a dot; two kills allow the attempts of two
  jobs, or two of one, to be left half done, and a fault fails any call beside them.
* `HandFimTask`, comparison: shifts from -3 to 3 around the limit of 2, windows of 4 that cut the
  flood, tiles against whole rasters, dry and missing results, scenarios only one side has.
* `ApiReads`: two keys in a cache of one force eviction; three changes allow a manifest to be
  replaced and put back (the same ETag again). The window crosses time chunks, the end of
  the retrospective, and two archive hours, each with or without index; chunks of two
  split three reaches. The limits are those of the code (2, 2), and (1, 1), (2, 1), where two
  lookups suffice to be refused or to wait for a slot.

Symmetry is used for workers, HUCs, scenarios, tiles and runs that nobody cancels, in
runs without a liveness property, where nothing distinguishes them.

## 5. Fairness

`JobLifecycleLive`: an API request that is under way goes on (FastAPI runs it to its
end), a worker that is up keeps working, a killed worker is restarted (the container
runtime's restart policy), and the broker restores an unacknowledged message of a dead
worker (the visibility timeout is finite). Nobody is obliged to submit or to cancel.
`Work` as a whole is weakly fair, not each of its actions: a solo worker always has
exactly one thing to do next. Strong fairness is used nowhere.

`PreparationLive`: the same for requests, workers and the restoration of messages.

`JobLogs`: the worker goes on with its task, and takes the message up again after a
crash; the browser's timer fires (`setTimeout` in `startLogPolling`). Opening the view
is not fair: nobody has to look.

`ApiReads`: the thread of each lookup that can take a step takes one
(`WF` of `LookupSteps`), which is what a thread of the server's pool gets; neither the
passing of the deadline nor a failing read is fair, so lookups end without their help. The
HDF5 lock needs no fairness of its own because the holder gives it back and each lookup of the
model runs once over finitely many hours; that a waiter loses the lock for ever to an endless
stream of later lookups is not excluded by the code, nor by the property.

The liveness runs admit crashes but not lost credentials or unwritable records: no
code repairs those, so a job then stays as it is until its record is looked at, and
no property claims otherwise.

## 6. Proofs

Each proof module states an invariant `IInv` that is inductive (`Init => IInv`,
`IInv /\ [Next]_vars => IInv'`, one step per action), and its theorems follow from it. The
runs above check the same properties on an instance; the theorems state them for every value
of the constants that the module's named assumption admits, which TLC evaluates in each run.
None needs fairness. The theorems about `HucPublish`, `StreamPublish` and `DeviceLogin` are about
their own specifications (`HucSpec`, `PublishSpec`, `LoginSpec`): each step of `SharedStores` is a
step of one of them that leaves the others as they are.

### JobLifecycleProofs
For any set of jobs, workers and faults and any bound:

| theorem | states |
|---|---|
| `TypeCorrect` | `Spec => []TypeOK` |
| `RecordFirst` | `[]RecordPrecedesMessage`: a job that can execute has a record |
| `StatusTrue` | `[]KnownStatusIsTrue` |
| `ArchivedFirst` | `[]ArchiveBeforeResult` |
| `RejectionIsClean` | `[]RejectionLeavesNoAccess` |
| `RevocationHolds` | `[]RevocationIsHonoured`: no worker executes a job it knows to be revoked |
| `RejectedStaysRejected` | the action property `RejectedJobNeverStarts` |
| `HistoryImplemented` | `Spec => ImplementsHistory`, the refinement |
| `RunningIsOutstanding` | `[]KnownRunningIsOutstanding`, when no visibility timeout can occur |

Assumption: `LifecycleAssumption` (no job is called `NoJob`, the faults are of the
listed kinds, the bound is a natural number), which TLC evaluates in each of its runs;
`RunningIsOutstanding` also assumes `"visibilityTimeout" \notin Faults`, that is, that
`VISIBILITY_TIMEOUT` exceeds the longest task.

The argument. None of the properties is inductive alone: that a record says
`success` only after the execution completed depends on what the worker that writes it
knows, and that on how it got there. `IInv` adds, to types and to "a worker holds a job
exactly if it is not idle or down" (`HoldsOK`), what each step carries with it:

* `HasRecord`: everything that comes after `Prepare` (a queued message, a holder, an
  owner key, a cancellation) has a record;
* `NoAccess`: each step of a rejection has removed what it is named after;
* `WorkerTruth`, `RevokeTruth`: what a worker is about to write happened, a revocation
  that is on its way or remembered was asked for;
* `BackendTruth`, `RecordTruth`: so do the two stores;
* `RevocationIsHonoured`, which is inductive with these.

`InductiveStep` goes through the actions; each property follows from `IInv`.
`HistoryStep` shows that under `IInv` every action is a step of `JobHistory` or a
stutter. `Custody`, a second invariant, follows a message from the queue to its
acknowledgement (one holder at a time, and the message kept until then) and gives
`RunningIsOutstanding`.

### PreparationProofs
For any number of runs, batches and workers and any finite set of HUCs
(`PreparationAssumption`: the batches are a partition of it; `TaskAssumption`):

| theorem | states |
|---|---|
| `TypeCorrect` | `Spec => []TypeOK` |
| `CompletedIsPrepared` | `[]CompletedMeansPrepared`, under every listed fault, redelivery and cancellation |
| `EveryHucOnce` | `[]Exactly`: while no message is lost or taken from a worker, each batch is in one place and each HUC is dealt with once |
| `LastOneDecides` | `[]OutcomeIsDecided` |
| `OverlapOnlyWithACause` | `[]OverlapHasACause`: two runs are at work only after a named cause |

Three invariants, each resting on the one before. `IInv` says what a worker may take for
granted at its phase whoever works on the run besides (`Knows`) and that a finished HUC was
published or is among the failed ones (`Accounted`); this survives redelivery because those
sets only lose a failed HUC that has been published. `Exactly` counts: a message is in the
queue or with one worker (`Single`), a batch that waits has no HUC begun (`Waiting`), a
worker takes the HUCs of its batch in order (`InOrder`), so of two batches that finish
together at least one sees all HUCs finished, and the run is decided (`Decided`). It is a
second invariant because a redelivered message breaks it, and `CompletedMeansPrepared` must
not depend on it. `Lone` follows the reservation while no cause has come up (`Calm`): a run
that is active or has work left holds it (`Holding`), a submission that was refused or could not
send its message has sent none (`Refusing`), and a worker about to give the dataset free has
seen its run end (`Ending`).

`OverlapOnlyWithACause` has no hypothesis on the constants: what undoes the reservation is in
the property. "At work" is a run that is shown as active or that publishes a HUC although it
is not (a failed HUC ends the status, and the batches go on). The causes:

* `ParallelBatches`: there are two workers and two batches (finding 3). The proof covers one
  worker with any batches, and one batch with any workers;
* `Cancelled`: a run was cancelled (finding 4);
* a fault other than a failed Redis command, a failed send and a request that died
  (`HarmlessFaults`). Each of the others (`cancelCrash` apart, which is part of a cancellation)
  was found by TLC, taken alone in an instance of `PreparationLive`'s size, to let two runs work
  at a time: `ambiguousStore`, `ambiguousSend` and `partialGroup` because `submit` and
  `mark_failed` give the dataset free although the run is stored or something was queued
  (`dataset_preparations.py:139-154`, `tasks.py:797-799`), `workerCrash` and
  `visibilityTimeout` because a task is executed again after its run has ended, `expiry` because
  the reservation ends before the run. Each is a way in which "One run per input dataset at a
  time" fails; the harmless kinds are none, as the theorem shows.

### HucPublishProofs
For any versions, any number of reaches and preparers and any page size (`HucAssumption`: a
HUC has a reach, keys are distinct, a page holds a key):

| theorem | states |
|---|---|
| `TypeCorrect` | `HucSpec => []HucTypeOK` |
| `MarkerMeansComplete` | `[]MarkedHucIsComplete` |
| `NothingOldIsLeft` | `[]ReplacementIsWhole` |
| `PlanIsWhole` | `[]FoundHucIsWhole` |

`IInv` adds that the preparer at work is the one that started last (`OneAtWork`), that the
dataset keeps its version from the end of the check on (`DatasetKept`), that a listing starts
at the first key (`FromTheStart`), what is left of the HUC at each phase of its replacement,
up to the cursor (`Emptied`), and that an undisturbed reader has the same HUC before it
throughout (`ReaderSees`). `PageFacts` is the lemma about the listing: a page leaves nothing
out, is empty only at the end, and the first one holds the marker; this is why a crash at any
point leaves no marker behind.

### StreamPublishProofs
For any attempts, scenarios and tiles (`PublishAssumption`):

| theorem | states |
|---|---|
| `TypeCorrect` | `PublishSpec => []PublishTypeOK` |
| `NoDanglingTile` | `[]PublishedTilesExist` |
| `SuccessMeansPublished` | `[]SuccessIsPublished` |
| `RollbackIsExact` | `[]RollbackRestores` |

`IInv`: at most one attempt is live (`OneLive`, until a visibility timeout), one that has not
begun has left no trace (`Fresh`), where each attempt is in its loops (`Loops`), that the
tiles it wrote and those it may have to restore are there (`TilesKept`), that from the end of
the loop on every scenario shows it (`Shown`), and that what is shown is exactly what it
published and has yet to roll back (`Restorable`). The last needs that each put was answered
(`Unambiguous`), which is what `RollbackRestores` excludes as well.

### DeviceLoginProofs
For any number of tabs, polls and tries (`DeviceAssumption`: at least one try):

| theorem | states |
|---|---|
| `TypeCorrect` | `LoginSpec => []LoginTypeOK` |
| `OneToken` | `[]TokenIsHandedOnce` |
| `SessionsAreHeld` | `[]NoOrphanSession` |

The core is `Current`: a transaction that WATCHes the record and is not dirty has read what
is stored. So of the transactions that read a state only one leaves it (`WriteFacts`), and
once the token was handed out the record holds none (`HandedIsConsumed`).

### ApiReadsProofs
For any threads, keys, cache size, windows, chunk sizes, layouts of the archive's objects,
replacements of objects and limits (`CacheAssumption`; `LookupAssumption`: the hours of a
window after the retrospective are hours of the archive, chunks and limits are positive, an
object has some layout; `WorkspaceAssumption`):

| theorem | states |
|---|---|
| `TypeCorrect` | `Spec => []TypeOK`, capacity, slots and cache size included |
| `ServedFromTheRequest` | `[]ServedWasCurrent` |
| `EveryHourItsSample` | `[]SamplesAreTheHours` |
| `OneWorkspace` | `[]OneCreator` |

`IInv` is the conjunction of the invariants of the three surfaces; a step of one leaves the
others alone. `CacheInv`: one entry for each key, no more than fit, and what a request has
read was stored since its start (`Serving`). `LookupInv`: who holds a permit is who is at a
step that needs one (`Slots`); the hours before the current one have their samples
(`Sampled`); the feature IDs read are the first chunks of those of the pinned version
(`Begun`); the flow of a reach is the right one or is in a chunk still to be read (`Read`).
`ChunkIndex` and `ChunkOrder` are the integer arithmetic of chunks, `RowsAreHours` that the
time chunks of the retrospective give each hour once. Slots and locks are needed for the type
only: what a lookup reads depends on nothing but its own record (`ReadsKept`) and the pinned
version.

### JobLogsProofs
For any number of lines, characters of 1 to 4 bytes and any chunk size of at least 4
(`LogsAssumption`: UTF-8, and the lower limit of `max_bytes` in the route):

| theorem | states |
|---|---|
| `Invariant` | `[]IInv` |
| `TypeCorrect` | `[]TypeOK` |
| `SettledMeansWhole` | `[]SettledShowsWholeLog` (which excludes a loss of Redis) |

`IInv` says that every log consists of whole characters (`IsWhole`), that a worker crashes
once at most, so that attempt numbers tell the bytes of attempts apart (`Attempts`), where
the log of an ended attempt is at each phase (`Stored`), and that a view of an ended job
shows the text of a prefix of it that ends where a character begins (`Viewed`, `Fetched`).
`Chunk` cuts such a prefix again at such a place, and is empty only at the end: this is where
at least 4 bytes are needed. The strengthening is needed because the property says nothing
while the view polls. `Text` flattens characters; that it distributes over the
concatenation of whole prefixes is proved from the definition of the library's `FlattenSeq`.

### HandFimTaskProofs
For any HUCs, hydrofabrics, requests, jobs and results of the shape that the assumptions
describe:

| theorem | states |
|---|---|
| `LegacyInvariant` | `[]LegacyInv` |
| `VolumeEmptied` | `[]VolumeIsClean` |
| `ReplacedOnRequest` | `LegacyReplacesOnRequest` |
| `OutputsAreOwn` | `[](NamesApart => LegacyOutputsAreOwn)` |
| `CompareInvariant`, `ComparedExactly` | `[]CompareInv`, `[]ComparisonIsExact` |
| `IndexInvariant`, `StreamInvariant` | `[]IndexInv`, `[]StreamInv` |
| `FloodExact` | `[]FloodIsReference` |
| `MissingExact` | `[]MissingIsExact` |
| `CutExactly` | `[]EveryCellOnce` |
| `TypeCorrect` | `[]TypeOK` |

Assumptions. `IndexAssumption`: a hydrofabric has a table, a place on the grid for each
branch, and a catchment and a REM raster that cover it, blocks have a size and row groups
hold a reach. `StreamAssumption`: a request names HUCs and has no ScenarioID twice
(`models.py:18`), a tile has a size. `LegacyAssumption`: a job has a sequence of scenarios of
HUCs. `ComparisonAssumption`: rasters are finite and within their extents. All are shapes
that the models of the API or the formats of the files enforce.

Legacy jobs. `LegacyInv` is the shape of the attempt at each stage (`LegacyShape`), types
(`LegacyTypes`), what a stage finds of the one before (`LegacyStage`), that the keys still to
be uploaded are free (`LegacyFresh`), and that every file on the volume is one that a waiting
or running job may remove (`VolumeOwned`): the clean-up of one job must not leave what a
killed attempt of it had written, nor count on what another wrote. `OutputsAreOwn` has a
hypothesis, `NamesApart`: no ScenarioID occurs twice in a job, which `models.py:18` enforces,
and no label `{ScenarioID}__{huc}` is the beginning of the stem of another label on the same
HUC, which nothing enforces (section 8). The instance of the run satisfies it.

Comparison. `CompareInv`: the stored rasters and those left to do make up the shared
scenarios, and every stored one is `CompareOutputs` of the two results. That this loses and
adds no cell is the lemma about windows: each cell of the common extent with its margin is in
one window.

Streaming. `IndexInv`: every index is the conversion of its source, with the dataset's block
size, for a set of branches with branch 0 that are placed on the grid, whatever downloads
were interrupted. `StreamInv`: the plans at hand are those of a prepared HUC; the first `k`
HUCs of the scenario are planned (`Planned`), and of their tiles each wet one is written or
left (`Written`); a finished manifest has the flood and the missing reaches of its scenario
(`ManifestOk`). The steps of the argument are facts about the operators: the row groups that
are read hold every wanted reach (`GroupCanHold` on sorted groups); a plan has the rows of a
HydroID in the order of the table, so the stage is the reference's (`RatingRows`,
`StageForDischarge`); a HydroID occurs only in its blocks (`OccupiedBlocks`); blocks are cut
at tile borders into parts that are disjoint and leave nothing out (`Overlap`, integer
division), so that a tile is the flood on its cells. Cropping to branch 0's grid loses nothing
because a branch is placed on it.

Facts about sequences (that `FlattenSeq` keeps the members and the order of its parts, that
sorting gives every member once) are facts about all sequences, and the library's induction
schemes cannot be instantiated here; they are proved from a least counterexample, whose
existence (`LeastExists`) comes from the well-foundedness of the naturals. So both modules
rest on nothing but the library's theorems about finite sets, functions and sequences.

### Only model-checked
Liveness (`AcceptedJobsSettle`, `RunsSettle`, `PollingEnds`, `LookupsEnd`): fairness and
ENABLED are outside the prover's reach. Every invariant and every action property that a
passing run checks is also proved.

## 7. Findings

Four disagreements between the code and what the repository says of it are shown by
runs.

1. `OnlyQueuedJobsAreCancelled` (`history.py:275`): "Only queued jobs can be cancelled"
   (`docker/api/README.md:380`), but `mark_cancelled` writes `revoked` over whatever the
   record has become since the checks. No fault is needed.
2. `InterruptedRunResumes` (`docker/handfim/prepare_streaming_dataset.py:237`): "files are
   renamed into place only when complete, so an interrupted run resumes", but the
   download is skipped as soon as the catchments of branch 0 are there. The conversion then
   fails for a HUC with one hydro-table, on every further run, and for a HUC with a table per
   branch drops the branches that are missing.
3. `OneRunAtATime` in `PreparationOverlap` (`dataset_preparations.py:265`): "One run per input
   dataset at a time" (`docker/api/README.md:51`), but two batches that finish together on two
   workers both conclude their run, and the later one deletes the reservation of the run that
   took the dataset in between (`cancel` does check the holder, 182). A third run is then
   accepted beside the second. No fault is needed.
4. `OneRunAtATime` in `PreparationCancel` (`dataset_preparations.py:230`): "Only one preparation
   may run against the input dataset at a time" (`docker/handfim/README.md:163`), but
   `mark_running` checks for a cancellation and sets the status in two commands. A cancellation
   in between frees the dataset and is overwritten: the cancelled run prepares its HUCs beside
   the next one. One worker and no fault suffice.

## 8. Further observations

Met while modelling; the runs do not check them, their properties are stated so as to exclude
them or their models contain them.

* The rollback of a streaming job reads a manifest and then deletes or rewrites it
  (`tasks.py:360-370`); if attempts overlap after a visibility timeout, it can hit the manifest
  that the other attempt has put in between. The properties of `StreamPublish` are about one
  attempt at a time.
* A HUC that is replaced while a job plans with it (`prepare_streaming_collection.py:233`,
  `patches/streamFIM.py:337-348`): a job that has read the marker finds no
  `reaches.parquet`, takes the dataset for one of the older layout and leaves its reaches out.
  `FoundHucIsWhole` excludes HUCs that are disturbed meanwhile.
* Legacy: a HUC directory that a killed attempt left half copied is taken for complete by
  the next one (`entry.py:79`); what the mapping makes of it is the FIM library's.
* Legacy: a job without overwrite that is delivered again after some of its uploads is refused
  because of them (`tasks.py:188`). A parity job is, likewise, by its own report.
* Legacy: a failing clean-up fails a job whose outputs are uploaded (`tasks.py:247`); a scenario
  that floods nothing fails, while a streaming job publishes a blank tile.
* Legacy: a ScenarioID with a dot, which `models.py` admits, never succeeds: `runFIM` names the
  raster after what precedes the dot, and the assembly finds no raster of the whole name. If
  the mapping ends well without leaving a raster, the search by prefix could take the raster of
  a label that continues this one after `__`; the instance has no such pair of names, and
  `OutputsAreOwn` assumes that there is none. Such names exist: the labels are
  `{ScenarioID}__{huc}` (`entry.py:615`), the search is `{label}*_inundation.tif`
  (`entry.py:674`), and the scenarios `x` and `x__7` on HUC 7 give the labels `x__7` and
  `x__7__7`.
* A 304 answer does not move a manifest to the young end of the cache (`rasters.py:156-158`), so
  the cache evicts by insertion, not by use.
* The index of an archive hour and the version of the object are fetched independently; the
  model takes the index to describe the object that is read.
* Workspaces: two creations, one at a prefix below the other, can both find their subprefix
  empty and nest two workspaces; the model has one subprefix.
* A streaming job without overwrite that is delivered again after it had put manifests refuses
  its own manifests and fails; `StreamPublish` does so too.
* The UI never offers to cancel a queued job. `app.js:2283` asks for status `queued`
  with `execution_state_known`, but a queued job has Celery state PENDING, for which
  `get_job_status` (`main.py:358`) answers that the state is not known.
  `docker/api/README.md:313` says submitters can cancel their queued jobs there.
* A job executed again after it had ended (a crash between record and acknowledgement)
  replaces its log; a view that was between two answers may show parts of both. The log
  of a comparison also keeps the lines of a killed attempt. If Redis is lost, the old
  `worker.log` stays beside a newer record (`persist` archives only a non-empty log).
* `mark_huc_failed` and `mark_failed` check the status, then set it, as `mark_running` does, so
  a batch can overwrite `cancelled`; a run that is cancelled and redelivered after a
  crash may stay `running`.
* A record above the size limit raises RuntimeError, which the routes do not catch.
* The callback of the device login does not revoke its session when Redis fails:
  `NoOrphanSession` is claimed without faults only.
* No route calls `dataset_preparations.submit` or `cancel`; `docker/api/README.md:42`
  says that the endpoints were removed and the tasks remain.
* `VISIBILITY_TIMEOUT` and the time to live of results should exceed the time a job
  waits and runs (`docker/api/README.md:470`); the models treat both as faults.
* Two overlapping preparers of one HUC, or a key that S3 refuses to delete (`Quiet`
  responses are not read), can leave a marked HUC without reaches or with old files.
* `RangedObject.readinto` loops for ever when the object is replaced by a shorter one
  during the read.

## 9. Not modelled

Sessions and the OAuth exchange with HydroShare (beyond what a device login and a job do to
them); the handlers and forms of the web UI and its map; the rendering of previews and tiles;
validation models, settings, SDK, infrastructure and notebooks: they have no state that others
share, or only read. `compute_rating_increments.py`, the container commands `reachfim` and
`clean`, reprojection and the encodings of rasters, Parquet and HDF5 are arithmetic or formats
of libraries. External behaviour (Celery, the broker, S3, NOAA's publisher, a killed process) is
modelled from how the code uses it and is marked external in `PROJECT.json`.

Abstractions of the modelled parts: timings, parameters and payloads of a record;
Redis lifetimes except as faults (`expiry`) in `JobLifecycle`, `Preparation` and
`DeviceLogin`; the order of HUCs in a batch; listing routes, which only read. In `HucIndex` and
`TileStream`: stages, discharges and elevations are small integers in the unit of rounding, a
raster has no CRS or affine transform beyond its place on branch 0's grid, and pixels of
several HUCs stay apart. In `LegacyScenario`: one worker per volume, a HUC's raster reduced to
its origin. In `Comparison`: pixels of one size on whole-pixel offsets. In `HistoricalLookup`:
bytes are chunks of elements.

## 10. Plan

Done, in this order: `JobHistory` and `JobLifecycle` with its proofs, `Preparation`,
`StreamPublish`, `DeviceLogin`, `JobLogs`, `HucPublish`; then `HucIndex`, `TileStream`,
`LegacyScenario`, `Comparison`, `ManifestCache`, `HistoricalLookup`, `Workspaces`.

Proofs done, for every value of the constants: `JobLifecycle`, `HucPublish`, `StreamPublish`,
`DeviceLogin`, `Preparation`, `JobLogs`, `HandFimTask` with the modules that it composes, and
`ManifestCache`, `HistoricalLookup`, `Workspaces` (as composed by `ApiReads`). No safety
property is left without a proof.

Abstract specifications worth stating: an atomic replacement of a HUC that `HucPublish`
implements for one orderly preparer; a published scenario (absent or whole) that
`StreamPublish` implements for one attempt at a time; a log register for `JobLogs`.

## 11. Running it

    tlc -workers 2 -config JobLifecycle.cfg MCJobLifecycle
    for m in JobLifecycle Preparation HucPublish StreamPublish DeviceLogin ApiReads \
             JobLogs HandFimTask
    do tlapm ${m}Proofs.tla; done

Every run ends within a minute or so; `JobLifecycleCancel`, `PreparationOverlap`,
`PreparationCancel` and `PrepareDownload` end with the counterexamples of section 7. The proofs
of `HandFimTask` take about twenty minutes, those of the other modules a few minutes each.
