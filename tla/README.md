# Formal verification of the Lovable Cloud to Supabase exporter

This directory holds TLA+ modules that model the exporter, TLC configurations
that check them on small instances, and proofs, checked by TLAPS, of what holds
for every instance. `PROJECT.json` lists the runs, the properties, the source
lines behind every definition, the hazards and the theorems.

## 1. The system

A job moves a Lovable Cloud project (database, auth users, storage objects) to a
Supabase project or into a ZIP file. It runs in a container; a Cloudflare
Durable Object, or the CLI on a developer's machine, starts the container,
receives its progress callbacks and shows the record of the job.

| Part | State it keeps | Operations | Talks to |
| --- | --- | --- | --- |
| Durable Object `LovableExporterJob` (`cloudflare-exporter-worker/src/index.ts`) | storage: `status`, `session`, `artifact_access`, `run_timeout`, `cleanup_after`, alarm; volatile: `monitorRun` promises, handlers waiting for a body | five start handlers, status, summary, callback, artifact access, artifact download, alarm, `monitorRun` | container (start, monitor, destroy, TCP port), clients |
| Worker front end (same file) | none | authenticates, routes; forwards requests with their whole body | Durable Object |
| Export runner (`container-runtime/src/export-runner.ts`) | one process per run | ten modes of `main`; `postCallback` with retries; `handleMainFailure` | callback endpoint, databases, storage |
| Live artifact stream (same file, `artifact-stream-lifecycle.ts`) | current attempt, settled flag, timers | GET handler, idle and stall timeouts, settle | Durable Object's download handler |
| Storage copy engine (`core/src/storage-copy.ts`) | concurrency gate, queue, counters, failure window | list, queue, copy an object, create a bucket, retry | source and target storage |
| Storage export engine (`core/src/storage-export.ts`) | weighted byte gate, missing list | stage, append, retry, skip | source storage, archive writer |
| Archive writer (`container-runtime/src/archive-writer.ts`) | queue of entries, state of the output | append, finalize, abort | output stream |
| Helper source (`core/src/storage-helper-source.ts`) | cache of signed URLs | sign a batch, refresh | edge function |
| Failure classification and summary (`core/src/failures.ts`, `job-failures.ts`, `summary.ts`) | none | pure functions | |
| Clone script (`container-runtime/run-clone.sh`) | files, stage | dump, restore, verify | pg_dump, psql |
| Backup restore (`container-runtime/src/backup-*.ts`) | plan | parse, filter, restore | pg_restore, psql |
| CLI jobs (`cli/src/jobs.ts`, `local-callback-server.ts`, `export.ts`, `download.ts`, `storage-copy.ts`, `db-clone.ts`, ...) | one JSON file per job | create, update, finalize | docker, container callbacks |
| CLI API server (`cli/src/api-server.ts`) | running jobs and sessions in memory | start, status, callback, artifact | CLI jobs |

### What is hard

- The Durable Object is single threaded, and its storage operations do not let
  other events in, but `await req.json()`, `container.monitor()`,
  `container.destroy()` and a fetch from the container do. Every check made
  before such an await may be stale after it.
- Four actors write one record: start handlers, callbacks, the alarm and the
  monitors of this and of earlier runs, in any order.
- A restart keeps storage and alarm and loses handlers and monitors.
- A Durable Object has one alarm, which serves two deadlines.
- Inside the container: bounded concurrency, retries of calls whose answer was
  lost, the first error stopping the others, two processes joined by a FIFO,
  callbacks that nobody waits for.
- In the CLI: a job file that is truncated, read, changed and written by several
  writers, some of which nobody waits for.

### What makes each part correct

- Job lifecycle: at most one live run; each live run is supervised and ends;
  outcomes are stable; storage is neither deleted too early nor kept for ever.
- Delivery: a link works until it expires and not longer; the bytes are those of
  the run the link was made for.
- Live stream: one client at a time; success is reported for a whole ZIP and
  after its stages; the server settles and the run ends.
- Runner: success is reported of a run that did its work, once; the target is
  not written before the checks have passed; the run ends.
- Storage copy and export: the limits hold; every object is counted once, as
  copied, skipped or missing, and truly so; the engine ends, and nothing works on
  after it.
- Local jobs: an answered callback is recorded; an older run does not touch a
  newer one's record; a run that ends is closed; the job comes free.

## 2. Modules

| Module | Models |
| --- | --- |
| `JobStore` | the storage of the Durable Object and its private methods, as operators from a store to a store |
| `ExporterJob` | the Durable Object: handlers, alarm, monitors, container, time and restarts; extends `JobStore` |
| `RunLifecycle` | abstract: what a job promises about its runs; `ExporterJob` implements it with its fairness (checked), `LocalJobs` without (proved) |
| `ArtifactDelivery` | links and downloads of the ZIP; extends `ExporterJob` and interleaves with all of it |
| `ArtifactLiveStream` | the server in the container that generates and streams the ZIP, its timers, its callbacks and their retries |
| `DatabaseRestore` | the two roads a database takes to the target: `run-clone.sh` and the restore of a backup |
| `ExportRuntime` | a run of the container in any mode but the live download; extends `DatabaseRestore` with the other steps of `main`, the callbacks, the failure report and the monitor |
| `StorageCopy` | the storage copy engine |
| `StorageExport` | the storage export engine and the archive writer it fills |
| `TransferLedger` | abstract: what an engine that moves many items promises; `StorageCopy` and `StorageExport` implement it |
| `LocalJobs` | one job of the CLI's local API server: file, queue of writes, flows, callbacks |
| `ExporterJob_proofs`, `ArtifactDelivery_proofs`, `ArtifactLiveStream_proofs`, `StorageCopy_proofs`, `StorageExport_proofs`, `ExportRuntime_proofs`, `TransferLedger_proofs`, `LocalJobs_proofs` | proofs about the module of that name |
| `MC...` | instances for TLC: symmetry sets, objects and their buckets and sizes |

How they correspond to the code:

- **Handlers.** A handler that awaits something other than storage is two
  actions. `StartArrives` is a start handler up to `await req.json()`;
  `StartDownload`, `StartStorage`, `StartTargetDbTest`, `StartSourceInspect` and
  `StartExport` are the rest of it, `StartRejected` the rest with an invalid
  body. `CallbackArrives` and `CallbackApplies` split `handleContainerCallback`
  in the same place; what the first read (the session) travels in `callbacks`.
  `MonitorSettles` is `monitorRun` from the return of `container.monitor()` to
  the call of `destroy()`, `MonitorFinishes` the rest of its `finally` block.
- **Storage.** `store` is a record with one field per key. The segment of a
  handler between two such awaits is atomic, which is what the input gates of
  Durable Objects give.
- **Time.** A point in time is the number of ticks until it, so
  `expiresAt <= Date.now()` is `left = 0`. `Tick` moves all of them. It waits
  for what the platform does within a tick: a container at its hard timeout is
  stopped, the continuation of a settled monitor runs, and the body of a
  callback is read, because the front end forwards a request only with its
  whole body. Alarms and start bodies may be late by any time.
- **Records.** A job record keeps what the code branches on: status, run, task,
  hard timeout, whether the failure was a delivery timeout, and the end of the
  artifact window. Events, messages and diagnostics are left out. Run ids and
  callback tokens are minted together, so a session is named by its run.
- **Callbacks.** `CallbackKind` has one value per case the handler
  distinguishes. The container sends them in any number and order; one that
  carries no valid session is refused without effect. A container that serves a ZIP
  fixes when it expires as it begins to listen (`ContainerListens`), and every ready
  event carries that time (`CallbackOf`), so one that is repeated or late does not
  renew the window.
- **Container** (external). `container.start()` throws while one runs, and may
  fail by itself; the container exits at any time and at its hard timeout at the
  latest; `monitor()` then resolves or rejects; it may survive a restart.
- **Downloads.** `DownloadArrives` is the handler up to its first fetch,
  `DownloadConnects` the successful fetch with the second look at the token,
  `DownloadFails` every way to give up in between. The container that answers is
  the one that runs then. In front of both, requests settle an expired run first
  (`FailExpiredRunIfNeeded`), as `fetch` does.

- **Live stream.** `server` and `attempts` are the variables of the closure in
  `serveArtifactLiveStream` and its `ActiveAttempt` records. An action is one
  event of Node: a request, a chunk, a closed response, a timer, the resumption
  of a producer, the return of `postCallback`. `timer` folds the flags and timer
  handles of the timeout controller into one value; how long a timer runs is
  left open, so it may fire at any moment it is armed. `chain` is
  `deliveryProgressChain`: the stage posts in order, and the two continuations
  hung on it, which run before the next event (`NextEvent`), as microtasks do.
  `postCallback` is `PostAgain`, `PostReturns` and `PostThrows`: each try may
  arrive or not, and its answer may be lost, so a callback can be applied more
  than once. A producer is its phases: generating, in a post, waiting for the
  response to drain, posting success. Its posts run one at a time (the storage
  engine inside it may have several under way) and their number is not bounded.
  `record` stands for the Durable Object, which applies every callback of the
  run it has on record: the session outlives the outcome (`ExporterJob`).

- **Runner.** `todo` is the rest of the mode's list of steps (`Plan`, one list per
  flow of `main`, with the branches of a flow spliced in where they are taken).
  `Does(step, codes)` is a step that passes or throws with one of the problem
  codes the classification can give it there. `call` is the callback `main` waits
  for, `late` those it does not (`Progress`, of child output); both go through the
  attempts of `postCallback`, each of which may arrive, and may be known to have
  arrived. `ReportFailure` is `handleMainFailure` (`report` says that a flow has
  already reported), `ExitClean` and `ExitFailed` the end of the process,
  `Monitor` what the supervisor makes of the exit code, `TimeOut` its kill.
- **Restore.** `stages` is the rest of the road's stages, `Runs` a stage that
  passes or fails with its exit codes. In the data stage `dump` and `load` are
  the two processes: each opens its end of the FIFO and then both go on
  (`PipeOpens`); psql commits when its input ends, whoever ended it. On the backup
  road the `COMMIT` is sent only after pg_restore has exited with 0.
- **Storage copy.** `engine.pc` is where `runStorageCopyEngine` awaits; `tasks`
  has a transfer per object, where it is in `copyOneObject`, how often it tried and
  what body it holds. A freed slot is taken one microtask after the release that
  wakes its waiter, so woken ones are kept apart (`WokenEnters`). A request may be
  lost, refused or carried out with its answer lost. An object of the target's own
  that an upload replaces becomes "overwritten". `window` is the run of equal
  permission failures that ends the copy, `progress` the throttled chain of posts.
- **Storage export.** The same for `runStorageExportEngine`, with the gate over
  expected bytes, spool files, and the writer: entries queue behind the one being
  written, the output breaks or is aborted at any moment (`WriterFails`, `Abort`).
- **Local jobs.** `file` and `torn` are the job file: `writeFile` truncates, then
  fills, and readers outside the queue of writes (`withJobWriteLock`, `lock`) may
  meet the empty file, which `readJob` takes for the default record. A flow of
  kind `container` reads the record again to close it (`finalizeIfCurrentRun`), one
  of kind `memory` keeps it and writes it as it goes. `handler` is
  `persistUnhandledJobFailure`, which the start routes do not await. A write may
  fail before or after the truncation. Callbacks are let in from the launch of the
  container until the flow is over and its session dropped: one may be sent before
  the container's exit and be read after it, and killing the docker client at the
  timeout does not end the container.

`delivered` (the last stage post applied), `ended` (the runs that ever had an
outcome), `stream` (the stream that began in the last step), `answered` (the
outcomes acknowledged) and `quiet` (nothing was under way when the work of a
local run ended, and no callback was let in since) are history variables or fields;
no action reads them for anything else.
Definitions whose name ends in `_` and a word, such as `ReleaseRun_NoCleanup`,
are wrong on purpose: each is a plausible slip in the definition below it, and
shows that a property can tell the difference (`PROJECT.json`, "mutants").

## 3. Runs

Run one with `tlc -workers 2 -config <name>.cfg <module>.tla`.

| Run | Instance | Properties |
| --- | --- | --- |
| `exporter_job` | 2 runs, 2 starts and 1 callback waiting, 1 restart, fairness | `TypeOK`, `LiveRunIsSupervised`, `AlarmCoversDeadlines`, `JobIsAttended`, `ContainerDiesFirst`, `CleanupSparesLiveRuns`, `OutcomeChangedOnlyByCallback`, `JobIsForgotten`, `ImplementsFairLifecycle` |
| `artifact_delivery` | the same with 2 tokens, 1 download waiting, symmetry | `TokenWithinWindow`, `NoStreamAfterFailure`, `LinkKeepsWorking`, `StreamComesFromItsRun` |
| `live_stream` | 3 GETs, 2 attempts, 2 tries per post | `StreamTypeOK`, `OneClientAtATime`, `SuccessMeansWholeZip`, `TimersSpareDownloads`, `StagesArriveInOrder` |
| `live_stream_liveness` | 2 GETs, 2 attempts, 2 tries, fairness | `RunEnds` |
| `storage_copy` | 2 objects in a first bucket, 1 in a second, 1 slot, a backlog of 2, 2 attempts, systemic limit 2, fairness | `CopyTypeOK`, `NoIdleSlot`, `OutcomesAreHonest`, `NothingRunsAfterReturn`, `AbortMeansNothingWorked`, `ImplementsLedger` |
| `storage_export` | batches of 5 and 1 objects of sizes 0, 1, 2 and 4, at most 3 bytes and 3 downloads, 2 attempts, fairness | `ExportTypeOK`, `GateIsSound`, `ArchiveIsHonest`, `ImplementsLedger` |
| `local_jobs` | 2 runs, one a container and one a storage copy, 2 callbacks, 1 progress report, 1 failure, fairness | `LocalTypeOK`, `AcknowledgedIsRecorded`, `QuietRunsAreClosed`, `StaleCallbacksChangeNothing`, `JobComesFree` |
| `export_runtime` | all 9 modes, 3 schema objects (2 may be skipped, the limit is 1), 2 chunks of rows, 4 callback and 3 download attempts, 2 late posts, fairness | `RuntimeTypeOK`, `SuccessIsEarned`, `NothingChangedIsTrue`, `OneAcknowledgedOutcome`, `RestoreVerdicts`, `RunEnds` |
| `finding_overlapping_get` | violated | `CompletedDownloadSucceeds` |
| `finding_late_callback` | violated | `SuccessIsTheLastCallback` |
| `finding_concurrent_start` | violated | `StartsRefusedWhileRunning` |
| `finding_download_timeout` | violated | `DownloadTimeoutMeasuresSilence` |

What they show. Whatever the order of late monitors, late callbacks, concurrent
starts, alarms and restarts, the run on record keeps its supervision until it
ends, nothing but its own callbacks changes an outcome, and the object
implements `RunLifecycle` with its liveness. A link ends with the window its
container fixed. The live stream serves one client
at a time through any sequence of aborts and retries, and ends. A run of the
container in any mode is recorded as succeeded only if it did its work, whatever
becomes of its callbacks. Both storage engines implement `TransferLedger` under
lost requests and lost answers: each object gets one class, which is true of it,
and the engine returns or throws with nothing left running. A local job loses no
answered callback and comes free once its container or engine has ended, and a run
that ends with nothing under way is closed. The largest runs are `artifact_delivery`
(2.9 million distinct states, a minute and a half) and `local_jobs` (1.2 million).

Bounds. Two runs are needed for an old run to meet a new one, two waiting starts
for a race. With hard timeout 1, grace 1 and cleanup after 4 ticks the deadlines
keep their order of size and every pair of them can be pending at once; 4 is more
than twice the hard timeout plus the grace, as 24 hours are in the code
(`CleanupOutlastsRuns`). Run ids are a finite set, so after the last start the
system comes to rest only through deletion; deadlock checking stays on for the
Durable Object, because the clock always ticks. In the other modules a process or
flow ends, so it is off there. In `live_stream` two attempts of the five in the
code are enough for a first, a last and, with a third GET, one that must be
refused or that overlaps the success callback of the one before; two tries of
four give a lost request, a lost answer and a post that throws. In `storage_copy`
one slot and a backlog of two let a transfer hold the slot while another waits or
is woken and the engine scans on; three objects are one more than the systemic
limit, and the second bucket is listed after the first has settled. In
`storage_export` the object of size 4 exceeds the byte bound, those of sizes 1 and
2 can overtake or fill up beside each other, and five at once are more than the
three slots. In `local_jobs` either run may come first; one failure is enough to
break any single write, build or directory. `export_runtime` has the attempts of
the code; one skippable object more than the limit shows both sides of it.

Fairness. *Durable Object* (`PlatformFairness`): the platform delivers a due
alarm, stops a container at its hard timeout, reads a callback's body and resumes
a monitor (weak fairness); time passes (strong fairness of `Tick`: a container
that sends callback after callback disables `Tick` again and again and still
cannot stop the clock). Nothing is assumed of clients, of the container before
its timeout, or of restarts. *Live stream* (`Fairness`): timers fire, posts end
because `fetch` and the number of tries are bounded, continuations run, and a
producer whose response is closed stops some time after (strong fairness, since it
may be in a post each time). A producer of an open response may hang for ever,
and a client may never come. That the stall timer fires relies on a ZIP being
finite: chunks that keep arriving postpone it, but they run out. *Storage
engines*: a request ends, because `fetch` is aborted when nothing moves or has
limits of its own, so a transfer goes on; posts settle, the engine takes its steps,
and a writer with entries writes or fails. *Local jobs* (`FairSpec`): writes end one
way or the other, reports go on, and a flow whose container or engine has ended, or one
of whose writes failed, goes on to close its record. Nothing is assumed of a build, a
container or an engine: `hard_timeout_seconds` is optional (`inputs.ts:384`,
`export.ts:205`) and `runCloneProcess` has no timeout, so a job may run for ever, and
`JobComesFree` speaks of what follows the end of the work. *Runner* (`FairSpec`): each step, post and process ends some
time; the timeout is not assumed to fire, which is why `RunEnds` has an
exception.

### Findings

1. *Concurrent starts.* The start handlers answer 409 "Job already running."
   (`index.ts:818`), but check before `await req.json()` (`index.ts:823`) and
   not again. Two starts whose bodies arrive late both pass. The second replaces
   record and session; its `container.start()` throws, so the job is shown as
   failed while the first run's container works and has its callbacks refused.
2. *Overlapping GET.* "Once generation and the response stream are complete, the
   worker callback is the only remaining terminal operation"
   (`export-runner.ts:1381`). But from line 1372 to `settle()` in line 1399
   nothing refuses a new GET, whose generation may fail before the success
   callback returns and settle the promise with its own error, so that
   `handleMainFailure` reports a delivered run as failed.
3. *Late callback.* A test expects success to be the last callback
   (`artifact-live-stream.test.ts:144`). The ready post and the producers' posts
   are not on the chain it waits for; one that is being retried arrives after it
   and makes the record "running" again.
4. *Download timeout.* `index.ts:2013` says the hard timeout of a download
   measures silence and that delivery extends it. What is extended is
   `run_timeout` in storage; the container was started with a fixed
   `hardTimeout` (`index.ts:958`), here taken to count from the start of the
   container, so it is stopped while deliveries go on.

Weaknesses the models show without a claim of the code against them:

- A late "running" callback turns a recorded outcome back (`index.ts:1977`; see
  `OutcomeChangedOnlyByCallback`).
- After a restart a job that already reported its outcome is never cleaned up,
  because its monitor is gone (see `JobIsForgotten`, which excludes lost monitors).
- If pg_dump or psql dies before it has opened its end of the FIFO, the other one
  waits in `open` until the run's timeout (`PipeIsStuck`, excepted in `RunEnds`).
- A progress report chained by a storage copy that threw is written after the
  closing write and shows "running" over "failed", or over the next run's record;
  and `finalizeIfCurrentRun` may meet a truncated file, take the job for another
  run's and leave it open. Hence the conditions of `QuietRunsAreClosed` and
  `AcknowledgedIsRecorded`.
- A callback let in before the session is dropped (`api-server.ts:413`, `:656`) is
  written after the closing write and may show "running" over the outcome; `quiet`
  excludes it from `QuietRunsAreClosed`.
- A local job whose container hangs without a hard timeout holds the job for ever.

## 4. Proofs

`tlapm <module>_proofs.tla` proves, for every value of the constants that the
assumptions allow:

| Module | Theorem | Statement |
| --- | --- | --- |
| `ExporterJob_proofs` | `InductiveInvariant` | `Spec => []IInv` |
| | `TypeCorrect` | `Spec => []TypeOK` |
| | `LiveRunsAreSupervised` | `Spec => []LiveRunIsSupervised` |
| | `AlarmIsNeverLate` | `Spec => []AlarmCoversDeadlines` |
| | `JobsAreAttended` | `Spec => []JobIsAttended` |
| | `ContainersDieFirst` | `Spec => []ContainerDiesFirst` |
| | `OutcomesChangeOnlyByCallback` | `Spec => OutcomeChangedOnlyByCallback` |
| | `CleanupsSpareLiveRuns` | `Spec => CleanupSparesLiveRuns` |
| `ArtifactDelivery_proofs` | `DeliveryInvariant` | `DeliverySpec => []DInv` |
| | `DeliveryTypeCorrect` | `DeliverySpec => []DeliveryTypeOK` |
| | `TokensEndWithTheWindow` | `DeliverySpec => []TokenWithinWindow` |
| | `FailedRunsStreamNothing` | `DeliverySpec => []NoStreamAfterFailure` |
| | `StreamsComeFromTheirRun` | `DeliverySpec => StreamComesFromItsRun` |
| | `LinksKeepWorking` | `DeliverySpec => LinkKeepsWorking` |
| `ArtifactLiveStream_proofs` | `LiveStreamInvariant` | `Spec => []LInv` |
| | `StreamTypeCorrect` | `Spec => []StreamTypeOK` |
| | `OneClientIsServed` | `Spec => []OneClientAtATime` |
| | `SuccessNeedsWholeZip` | `Spec => []SuccessMeansWholeZip` |
| | `CompletedDownloadsHaveNoTimer` | `Spec => []TimersSpareDownloads` |
| | `StagesAreOrdered` | `Spec => StagesArriveInOrder` |
| `StorageCopy_proofs` | `CopyInvariant` | `Spec => []CInv` |
| | `CopyTypeCorrect` | `Spec => []CopyTypeOK` |
| | `GateLosesNoWakeUp` | `Spec => []NoIdleSlot` |
| | `ReportsAreHonest` | `Spec => []OutcomesAreHonest` |
| | `QueueSettlesFirst` | `Spec => []NothingRunsAfterReturn` |
| | `AbortsHaveReason` | `Spec => AbortMeansNothingWorked` |
| | `CopyImplementsLedger` | `Spec => Ledger!Spec` |
| | `CopySpendsItsEffort` | `Spec => []EffortsTyped /\ [][EffortsShrink]_vars` |
| `StorageExport_proofs` | `ExportInvariant` | `Spec => []AInv` |
| | `ArchivesAreHonest` | `Spec => []ArchiveIsHonest` |
| | `ExportImplementsLedger` | `Spec => Ledger!Spec` |
| | `GateInvariant` | `Spec => [](AInv /\ GateRight)` |
| | `ExportTypes` | `Spec => []ExportTypeOK` |
| | `GatesAreSound` | `Spec => []GateIsSound` |
| | `ExportSpendsItsEffort` | `Spec => []EffortsTyped /\ [][EffortsShrink]_vars` |
| `ExportRuntime_proofs` | `RuntimeInvariant` | `Spec => []IInv` |
| | `VerdictsAreRight` | `Spec => []RestoreVerdicts` |
| | `SuccessIsAlwaysEarned` | `Spec => []SuccessIsEarned` |
| | `NothingChangedIsAlwaysTrue` | `Spec => []NothingChangedIsTrue` |
| | `OneOutcomeIsAcknowledged` | `Spec => []OneAcknowledgedOutcome` |
| | `RuntimeTypes` | `Spec => []RuntimeTypeOK` |
| `TransferLedger_proofs` | `CompleteLedgersAreFull` | `Spec => []CompleteMeansAll` |
| | `LedgersAreFinal` | `Spec => ClassesAreFinal` |
| `LocalJobs_proofs` | `InductiveInvariant` | `Spec => []IInv` |
| | `OneFlowHoldsTheJob` | `Spec => []LocalTypeOK` |
| | `StaleCallbacksAreHarmless` | `Spec => StaleCallbacksChangeNothing` |
| | `RecordInvariant` | `Spec => []RecordInv` |
| | `AnsweredCallbacksAreRecorded` | `Spec => []AcknowledgedIsRecorded` |
| | `QuietRunsLeaveClosedRecords` | `Spec => []QuietRunsAreClosed` |
| | `LocalRunsFollowLifecycle` | `Spec => Lifecycle!Spec /\ [][StartsAlone]_phase` |

Assumptions: for the Durable Object and the delivery, `StoreConstants` (positive
delays, distinct null values), `CleanupOutlastsRuns` (the cleanup delay is at least
twice every hard timeout plus the grace), `BoundConstants` and `DownloadBound`; for
the local jobs, `LocalConstants`; for the live stream, `LiveStreamConstants`; for the
storage engines, `CopyConstants` and `ExportConstants` (positive limits, and objects
numbered bucket by bucket or batch by batch); for the runner, `RuntimeConstants` and
`RestoreConstants` (positive numbers of attempts and rows, finitely many objects); for
`CompleteLedgersAreFull`, that "pending" is no
class. TLC evaluates each of them in the runs of its module.

*Durable Object.* The safety invariants are not inductive: a monitor that finishes
would take a live run's timeout away if its run could still be live. `IInv` adds
what rules this out: a monitor that destroys its container has left an outcome
(`ReleasedRunHasEnded`), a terminal record belongs to an ended run, run ids in
use were minted, the hard timeout in the record agrees with the one in
`run_timeout`, and a cleanup armed during a live run leaves room for the last
extension the run's last callback can ask for (`CleanupHasRoom`; this is where
the factor two comes from). The store methods have effect lemmas; all steps that
start no run and apply no callback share one lemma, `SettlingStep`, since they
at most record an outcome, drop a timeout or arm the cleanup. Starts, callbacks,
the deleting alarm and ticks have lemmas of their own.

*Delivery.* For the job a delivery handler is a status request that also changes
the token, so `SettlingStep` applies to it as well and `IInv` is part of the
invariant `DInv`: all safety proved of the job holds with deliveries going on. `DInv`
adds that a token of the run on record belongs to its session (`Confined`), that one of
a live run ends with the window on record (`LinksEndInTime`), that the ready events
under way, the container and the record agree on when that is (`ExpiriesAgree`), and that a container which could serve the token of a failed
run is gone (`FailedRunServesNothing`): `monitorRun` records the failure before
the token is revoked, but destroys the container in the same step.

*Local jobs.* `IInv` says of the queue of writes that only its first entry is being
filled and that it fills what it read or was given, that every writer waits at most
once, that a writer whose write failed does not wait, and that the writers in the
queue are those whose flow, report or callback is at the matching place. With it, an
updater's write changes a record of its own run only. `RecordInv` adds what holds as
long as nothing fails, since a failed write may leave a truncated file: until a run
works, its own writes are the only ones in the queue; while its container works, the
callbacks alone write, and what one fills the file with includes the callbacks the file
already holds (`WritesAreOrdered`, as long as every flow so far ended quietly); a
container that exits quietly leaves an empty queue, so `finalizeIfCurrentRun` reads
the whole file (`QuietExits`); and the last write of a flow, in the queue or in the file,
closes its record (`RecordsClose`). One lemma, `RunActs`, carries all steps of one run:
they leave the others' part alone because one flow at a time is live. The lifecycle of
runs is refined without an extra invariant: what starts a flow maps to `Start`, what ends
it to `End`, the rest to a stutter. The lifecycle would let a start end a live run;
`StartsAlone` says that here a run begins only when none is live.

*Live stream.* `LInv` says of the attempts that their GETs are numbered in order, that
an open response is that of an attempt neither aborted nor ended and such an attempt is
the active one, and that a completed download is a whole one; and of the chain that the
posts in it stand in the order of their stages, each above what was delivered, which is
what makes the stages arrive in order although posts are lost and repeated.

*Storage copy.* `CInv` says that each task agrees with the target (an upload whose
answer was lost leaves our object there only for a task that sends again, has to rebuild
its stream, or is done), that the gate counts the
tasks that run and those it woke while the rest wait in line, that objects are queued in
order and a bucket only after the one before, and that the window of systemic failures
is open only while every outcome so far is that same failure. `NoIdleSlot` follows from
the count, `AbortMeansNothingWorked` from the window. Of liveness the part that is safety
is proved: `Effort` bounds the steps an object may still take, by rounds of download and
upload first and by the place in the round second, `EngineEffort` those of the engine,
and every step uses up some of one and gives back none of the others (posts of progress,
which `PostEffort` bounds, may be made anew by such a step). That is where the retries of
an upload that download their object again, with retries of their own, are bounded.

*Storage export.* `AInv` says that the writer's queue holds exactly the tasks that wait
in `append`, each once, that batches follow each other, and that an object has its one
entry in the archive exactly from when its task was told so. `GateRight` adds the weighted
gate: it counts the tasks inside and the bytes they reserve, its queue holds exactly those
that wait, each once, and who is first there does not fit. `drain` and the requests of a
batch are folds, and the load is a sum over a set, so their proofs are inductions over
the numbers of a queue and of the objects: the library's induction theorems take a
predicate, which the provers cannot instantiate, but `SetInduction` takes a set, from the
library's theorem that "less than" on the numbers is well-founded. `FoldExists` then says
that a fold has a value, `DrainSteps` and `AcquireSteps` unfold the two folds into their
steps, `ComesToGate` is the one step both are made of, and `TotalExists` that a sum
depends on no order. An object beyond the bound reserves all of it, and every other one
at least a byte, so it cannot be inside with another: that is how the bound on what is
reserved becomes the bound on sizes in `GateIsSound`. As for the copy, the safety half of
liveness is proved from `AInv` and the fact that the engine is at a batch or just behind
the last (`BatchInBounds`): attempts, batches, the archive and the one signal that it
failed are used up, never renewed.

*Runner and restore.* `RInv` speaks of the restore alone: its stages come in one order
on either road, what is not to come any more has been done, the two processes run in the
data stage only, and psql commits what was sent to it or nothing. `IInv` adds the run:
the steps to go are an ordered tail of the mode's plan and those before them have passed,
a callback that is waited for belongs to the step that posts it or to a failure report,
an acknowledged outcome is the end of the flow, a restore under way has the checks behind
it, and success is recorded or passed only when it was earned and nothing is left that
could spoil it. That the plans of all modes are ordered is proved from the parts they
are joined of; one lemma each for a run that stays where it is, takes a step or throws
carries most actions. `TInv` adds what the types need: the steps to go are a tail of the
plan, what was skipped is what is missing from the list and within the limit, and an
attempt is left as long as the backup is still to be fetched. Each of its parts follows
from what any step may do to its variables (`TodoGoesOn`, `SkipsGoOn`, `CallGoesOn`, ...).

*Ledger.* Both engines are proved to implement the ledger without its fairness, each
step of theirs being a classification, a verdict or a stutter, so `LedgersAreFinal` and
`CompleteLedgersAreFull` carry over to them.

Every `IInv`, `TInv`, `DInv`, `LInv`, `CInv`, `AInv`, `GateRight` and `RecordInv` was evaluated by TLC before it was
proved. Model-checked only: all liveness (`JobIsForgotten`, `ImplementsFairLifecycle`,
`JobComesFree`, both `RunEnds`, the liveness in `ImplementsLedger`), which is out of the
prover's reach; of both engines the part of it that is safety, that no step can go on being
repeated, is proved.

## 5. Not modelled, and the plan

Left out, with the reason:

- The event log and its pruning: fewer than `MAX_EVENTS` events are assumed, so that
  the readiness derived from them is kept in their place.
- A crash between two storage writes of one handler segment of the Durable Object,
  and a crash of the CLI's process, which leaves a record "running" that nothing
  closes.
- Signed URLs and their cache (`storage-helper-source.ts`, the migration helper): the
  engines see a download that fails and is tried again.
- Parsing the contents of a backup and rewriting its COPY statements
  (`backup-plan.ts`), SQL text, schema and user helpers: functions over text.
- The classification of failures by their text, summaries, metrics, logging and
  redaction.
- The worker's front end, the admin key test, the CLI's argument parsing and prompts,
  the read-only and artifact routes of the local API server, edge functions: without
  state of their own that the models' properties depend on.
- The late arrival of an earlier try of a stage post that timed out: `StagesArriveInOrder`
  speaks of tries that ended.
- Requests to the live stream that are answered 404 or 409, which change only log
  counters.

`PROJECT.json` lists every hazard that no property covers, with the reason.

What is left to do, most important first:

1. `EventLog`: the pruning of events and the readiness derived from what is left.
2. `SignedUrls`: the helper source with its cache and expiry, in front of the engines.
3. The composition of `ExportRuntime` with the callback handler of `ExporterJob`, in
   place of that module's arbitrary container.
