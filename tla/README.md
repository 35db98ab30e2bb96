# TLA+ verification of the yaffw transcoding system

yaffw is a media server split into a *control plane* (one Go process: HTTP
handlers, a recovery monitor, a session watchdog) and *compute plane* workers
that run ffmpeg. They share a Postgres job store, reached by the workers over
HTTP, and a volume of HLS segments. The control plane also scans the media
libraries and watches their files. This directory models the transcoding path,
range-parallel transcoding and the libraries from the source, checks them with TLC,
and proves with TLAPS every safety property of a passing run. Paths are relative to the repository root; `main.go` is
`src/ControlPlane/main.go`.

## 1. Inventory

| Component | State | Operations | What makes it correct |
|---|---|---|---|
| Job store, `adapters/postgres/job_queue.go` | rows of `transcode_jobs`, `job_segments` | Enqueue, Dequeue, UpdateJob, Heartbeat, AddSegment, MarkWorkerAsDead, TouchJob, DeleteJob, PurgeJobs, reads | segments belong to rows and are accounted for; a stale worker changes nothing; recoveries collapse; a claim can be recovered |
| Worker, `services/worker.go` | locals of `processJob`, three goroutines, the ffmpeg process | claim, mark, resume, launch, ready, complete, fail, clean up; heartbeat and status check; report segments | works on what the row asks for; stops when it lost the job; removes only what is its own |
| Compute plane process, `src/ComputePlane/main.go` | worker id (new per process) | start, SIGTERM, exit | jobs of a process that is gone find another worker |
| HTTP adapter, `adapters/http_queue` | none | forwards calls, 5 s timeout, clears `recovery_in_progress` | a lost answer leaves a state some timeout repairs |
| Recovery monitor, `main.go:843` | snapshot of rows, one tick | mark dead, recover, retry, give up | dead workers are replaced, live ones left alone, jobs end |
| Session watchdog, `main.go:792` | snapshot of rows | delete idle jobs and their files | idle jobs go, with nothing left behind |
| HLS handlers, `main.go:272` | a request's copy of the row | playlist, segment, JIT recovery | a missing segment is produced; what is served is complete |
| Playback and session handlers, `main.go:349, 353, 543` | a request's copy | start, seek, stop | the last request wins, at most one worker in charge |
| Segment volume | directory, files, `stream.m3u8` per job | written by ffmpeg and workers, removed by workers, monitor, watchdog | stored segments have their files |
| Range-parallel splitter, `services/splitter.go` | parent and sub-job rows | split points, enqueue | ranges partition the media; the parent ends when all have |
| Probe/keyframe cache | `media_streams` | upserts | idempotent |
| Playback strategy, `services/playback.go` | none | codec decisions | a decision table |
| Library scanner, `adapters/filesystem/scanner.go`, `postgres/identity_repo.go` | rows of `item_identity`, locals of each running scan | resolve a path, save, list, mark missing | a path keeps its uuid; what is there is listed, what is gone is missing, whatever scans run at once |
| Media store, `services/media_store.go` | map of items | add or update, reads | every item is reached from the top |
| Filesystem watcher, `adapters/filesystem/watcher.go` | watches, debounce map | event, flush, scan | every change it can be told of is scanned eventually |
| Metadata providers, `adapters/nfo`, `adapters/omniarr` | none | discover, fetch | an identity per path |
| Lock manager, `adapters/postgres/lock_manager.go` | rows of locks with expiry | never constructed | - |
| Metrics, auth, config | counters, none | - | - |

**Interactions.** Playback enqueues `job-<media id>`; a worker dequeues it, marks
it Processing, makes the directory, starts its heartbeat goroutine and ffmpeg,
polls for `stream.m3u8`, marks the row Ready, and its watcher reports each entry
of the manifest. Clients touch the row through playlist and segment requests;
a segment that has no row or no file re-enqueues the job at that segment. The
monitor re-enqueues jobs with old heartbeats and Failed jobs. Watchdog, stop and
seek delete rows. Every one of these reads a row, keeps a copy, and acts on it in
later calls: nothing but the WHERE clauses of the store orders them.

With `parallel_ranges` above 1 playback asks the splitter instead, which enqueues a
parent row and a sub-job per range; workers report the segments of a sub-job under
its parent, and clients know the parent only. At boot one goroutine per library runs
the initial scan and then starts the periodic scans and the watcher; `POST
/api/v1/libraries/<name>/scan` starts another scan at any time. All of them share
the identity table and the media store without a lock of their own.

**Hard behaviours**: copies acted on late (monitor, watchdog, segment handler),
`DeleteJob` in two statements, an `Enqueue` that resets a claimed row, reports
without ownership, lost HTTP answers, worker and control plane crashes, graceful
shutdown, a worker that lost its job and still has ffmpeg, watcher and cleanup to
go, and timeouts (heartbeat 3 s, recovery 5 s, idle 60 s or 300 s, manifest 30 s) racing
all of it; rows of one family enqueued and deleted one by one; scans that each save
the whole copy of a record read several statements ago; events that arrive while
the watcher's own scan runs. `PROJECT.json` lists each hazard at its line.

## 2. Modules

| Module | Models | Composes |
|---|---|---|
| `JobLifecycle` | abstract: asked for, taken by one worker, settled, dropped | - |
| `JobQueue` | the store: one action per SQL statement or transaction; implements `JobLifecycle` | - |
| `SegmentDir` | the segment volume | extends `JobQueue` |
| `Faults` | the environment's budget of upsets | - |
| `Worker` | `processJob`, its goroutines, ffmpeg, the process | `SegmentDir`, `Faults` |
| `ControlPlane` | monitor, watchdog, viewers, players | `SegmentDir`, `Faults` |
| `Transcode` | everything together, time, fairness, properties | `Worker`, `ControlPlane` |
| `FailureHistory` | history variable: the jobs that have been Failed; `StoredSegmentsKept` | extends `Transcode` |
| `Claims` | what documents and comments promise and the code refutes | `Transcode` |
| `Timeline` | numbers and times of recoveries, from files, rows and timestamps | `Faults` |
| `Splitter` | `ComputeSplitPoints`, one step per iteration | - |
| `Ranges` | range-parallel transcoding over the store's own actions | `Splitter`, `JobQueue`, `Faults` |
| `Library` | concurrent scans, identity table, media store, disk | `Faults` |
| `Watcher` | the filesystem watcher, whose scans are `Library`'s | extends `Library` |
| `JobQueueProofs`, `LifecycleProofs` | theorems about the store | `JobQueue` |
| `TranscodeProofs` | theorems about the whole system | `JobQueueProofs`, `Transcode` |
| `RecoveryProofs` | theorems about recovery, under stated circumstances | `TranscodeProofs`, `FailureHistory` |
| `SplitterProofs`, `RangesProofs` | theorems about the split, the family of rows and its numbers | `Splitter`, `Ranges` |
| `LibraryProofs`, `WatcherProofs` | theorems about scans and the watcher | `Library`, `Watcher` |
| `MCJobQueue`, `MCTranscode`, `MCRecovery`, `MCTimeline`, `MCRanges`, `MCLibrary`, `MCWatcher` | instances for TLC | |

**Correspondence.** `jobs[j]` is the row of `transcode_jobs`: `worker` is
`worker_id`, `hb` `last_heartbeat`, `restarts` `restart_count`, `startSeg`
`start_segment`, `lastSeg` `last_segment_num`, `duration` `transcoded_duration`,
`recovering` and `recovery` `recovery_in_progress` and `last_recovery_time`,
`disc` `discontinuity_count`, `access` `last_accessed_at`; `createdBefore` is the
order of `created_at`; `segments[j]` is `job_segments`. `wk[w]` holds where
`processJob` is and its copy of the job; `ctl[g]` what a goroutine of the control
plane is doing and what it has read. Operators carry the Go names.

`cut` holds the locals of `ComputeSplitPoints`, `play` where `SplitAndEnqueue` is,
`run[w]` which row a worker of `Ranges` is on and how many segments it has left.
`table[id]` is the row of `item_identity` with that uuid, `items[id]` the entry of the
media store, `scan[s]` the locals of `Scan` and `resolveItem` in goroutine `s`, `disk`
what is there and what a provider would answer for it; `watch` holds the inotify watches,
unread events and the debounce map. In `Timeline` `row.last` and `row.total` are
`last_segment_num` and `transcoded_duration`, `file[n]` the stretch of media in a
file, `origin` the start the job was created with.

**Abstractions.** A time stamp is kept as the answer the code asks of it (fresh
or stale, recent or old, recent or idle) and ages by an action. Durations are
counted in segments, except in `Timeline`. Paths, codecs, URLs and wording are left
out, and `start_time` outside `Timeline`. Sequences of reads with no write between them are one
step where nothing another process does in between could be told apart: a
segment request's touch, look-up and `stat`; a playlist's read and touch. A
client's seek only copies codec names from the row it reads back. ffmpeg is
external: it opens a file, closes it, then lists in `stream.m3u8` what its own run
has closed; it stops with an error if its directory is gone. What `ffprobe` says
of a file that was not closed is either (`MaybeShort`); a closed one is taken for
good, except that the last of the media may be shorter than the 2 seconds
`analyzeExistingSegments` asks for.

`Timeline` has one job and one worker at a time; who may take a job from whom is
`Transcode`'s subject. `Ranges` leaves out what is told elsewhere - crashes, recovery,
seeks, directories, late reports, the copies a watchdog keeps - and keeps the rows: the
parent's Enqueue, each sub-job's, the cascade, the two statements of `DeleteJob`, claims,
reports and results. `Splitter` compares an ideal cut `i * duration / n` as a fraction of
integers; rounding of floating point is left out. In `Library` a uuid is its identity
(it is a hash of it), the hierarchy key a function of the path, titles, times and
picture URLs are left out; a query that fails finds nothing, as in the code, and a
directory that cannot be read has no entries.

**Mutants.** Definitions under a comment "Mutant:" are variants of the one that
follows, each with a plausible bug; nothing uses them. They record, in
`PROJECT.json`, that every property is violated once the code is wrong.

## 3. Runs

| Run | Instance | Properties |
|---|---|---|
| `queue_one` | any calls: 1 job, 2 workers, 2 deleting callers, segments 0..1 | `QueueTypeOK`, `ReferentialIntegrity`, `SegmentAccounting`, `ClaimIsRecoverable`, `RecoveryNotRepeated`, `StaleWorkerCannotClobber`, `ProgressNeverLost`, `ImplementsLifecycle` |
| `recovery` | 2 workers, monitor, 2 restarts; 4 upsets of crash, failed launch, late manifest, slow report, ffmpeg error | `TypeOK`, `OwnerServesRequest`, `CleanupOnlyAfterLoss`, `StoredSegmentsKept`, `OnlyDeadWorkersMarked`, `GivenUpOnlyWhenExhausted`, `CompletedStays` |
| `live` | 2 workers, monitor; 1 upset of any of ten kinds; fairness | `JobsSettle`, `LosersStop`, `AbsentWorkersReplaced` |
| `clients` | 1 worker, a viewer and a player; 1 dropped connection or failed statement of `DeleteJob` | `OwnerServesRequest` |
| `reap` | 1 worker, monitor and watchdog; 1 upset of crash, control plane restart, lost call, slow report, failed statement of `DeleteJob`; fairness | `IdleJobsReaped` |
| `ranges` | a parent and up to 2 ranges, 1 worker, one deletion at a time; files cut within a segment, nowhere, and too short; 1 failed statement or probe; fairness | `RangesTypeOK`, `SubJobsHaveParent`, `NumbersCovered`, `RangesCoverMedia`, `IdealCutsServed`, `FamiliesReaped` |
| `library` | a series and two episodes' paths, periodic scans and a requested one; 2 upsets of files, queries, directories, restart; fairness | `LibraryTypeOK`, `ReachableFromTop`, `UntouchedKeepId`, `PresentFilesListed`, `GoneFilesMissing` |
| `watch` | a directory, a video in it, one beside it; 3 changes; fairness | `WatchTypeOK`, `NewFilesListed`, `GoneFilesNoticed` |
| `no_*` | the smallest instance with the upset in question | one claim each, refuted (section 4) |

**What they show.** `OwnerServesRequest` relates the row to the worker it names: neither
a seek, a recovery nor an `Enqueue` that resets a claimed row leaves the worker the store
accepts reports from on another start segment. It leaves out recoveries at segment 0
(`LeftToWorker`), where the worker looks for a start of its own; section 4 tells what comes
of them. `CompletedStays`: the monitor acts on a snapshot, and what it found in
the hands of a worker may be Completed when its turn comes; in `recovery` no such job is
started again. There heartbeats are in time and calls are answered: with a late heartbeat or
a lost call a row may look dead while its worker is about to complete it. `LosersStop`
holds even when ffmpeg never moves again, because the heartbeat goroutine polls.
`JobsSettle` needs encoders that get on: nothing in the code notices an ffmpeg that
hangs after Ready. `IdleJobsReaped` holds across a `DeleteJob` cut in two by a late
report, or with a statement that fails, and across recoveries that touch the job or create
it again from a copy, because the watchdog comes back and deletes it again. `StoredSegmentsKept` is about
jobs that have not been reported Failed: `FailureHistory` remembers which have, because the
row does not. A job whose worker died is resumed after the files on the volume, and no
number of deaths, slow reports or failed launches makes ffmpeg write a stored segment again;
one that has failed is retried after `last_segment_num` (section 4).

`ImplementsLifecycle` shows that a stale `worker_id`, a reset by `Enqueue` and the two
statements of `DeleteJob` never amount to two owners, to a result from anyone but the
owner, or to a dropped job with segments. `SubJobsHaveParent` holds because of the foreign
key and its cascade: nothing in `SplitAndEnqueue` looks whether the parent is still there.
`NumbersCovered` has one exception, and says exactly when it occurs: if the last cut lies at
least as far into its segment as the end of the file does (`LastUncounted`), the last range,
counted from its rounded start, ends one number early. The 11 s file is such a one; its last segment is the parent's own, which is
transcoded whole.
`FamiliesReaped` holds although the parent may be kept by a late report, because each row
ages and goes by itself. `ReachableFromTop` says that
the view is a tree although scans save parents they noted many statements ago and records
move from path to path; its instance gives every path a key of its own, which
the code does not give "Specials" (section 4). `PresentFilesListed` says that the whole copies which concurrent
scans save over each other do no lasting harm once only periodic scans are left: a file
that stays ends up listed and active even if earlier scans made two records for it, or marked
it missing. `NewFilesListed` holds without any periodic scan, in a directory as new as the
file whose own event nobody sent, because the scan is of the whole library.

**Bounds.** Two segments are enough for "stored before", "being written" and "after
the end"; positions run one further. One restart (`MaxRestarts = 1`) reaches both
the retry and the giving up; counts saturate there. `recovery` has two restarts, so that a
replacement is itself replaced, or fails: with one, what a failed job does to its files
does not show. `MaxDisc`, `MaxDuration` bound
counters in the guards of `MarkWorkerAsDead` and `AddSegment`; `MaxFaults` is the
number of upsets. With no more than two workers and a monitor every recovery has
an old and a new worker. The system properties speak of one job: jobs share no
state but the Dequeue order, which the proofs cover. Deadlock is not
checked for `Transcode`, `Ranges` and `Watcher`: with their upsets spent and clients gone
they come to rest. `Ranges` cuts, at 2 s per segment, an 11 s file into two ranges at an odd
second, so that neighbours share a number, has an 8 s file whose only keyframe before the middle
is too close to the start, and a 4 s file too short to cut; `MaxDuration = 40` is never reached. Two deletions at once are
`queue_one`'s. In `library` one path never changes, and two may come, go and be moved
over each other, with two upsets between any steps of two scans. The watcher's instance has
the three places a change can be: the root, a watched directory, and a directory not yet
watched.

**Fairness.** Goroutines are tickers or straight-line code that nothing blocks for
ever (HTTP calls time out after 5 s), so each has weak fairness, and so do the
clocks (`Time`). Handlers finish a request they have begun; clients need not send
one. Of ffmpeg only its death after `jobCancel` is assumed (`StallingSpec`); that it
makes progress is a separate assumption (`EncodersRun`, `FairSpec`). Upsets never
have to happen: a disjunct that spends the budget does so at most `MaxFaults`
times, so fairness of the action around it is fairness of the rest. Heartbeats that
are kept up are not stale: `Time` ages a kept heartbeat only as the upset
"lateBeat". `Time` leaves a column alone where nobody reads it (heartbeats without a
monitor, the last access without a watchdog, an acknowledged recovery): states that
differ only there behave alike. In `Ranges` the handler, each deletion, worker and
clock goes on and the watchdog comes back; in `Library` scans go on and the periodic
goroutine begins another, while a requested scan need not be asked for; in `Watcher` the
select loop handles events, the debounce time passes and the ticker flushes. A select
that starves the events is ruled out by Go's choice among ready cases.

## 4. Findings

Each is a run TLC refutes with a short trace.

* **`no_live_mark` / `OnlyDeadWorkersMarked`** (architecture_walkthrough.md:63,
  "3 missed heartbeats"). The Ready report writes `job.LastHeartbeat`, taken at the
  start of the job (worker.go:104), over the row's newer value. When the first
  segment took more than 3 s the next tick of the monitor finds the row dead,
  if it comes before the next heartbeat (both tick every second).
* **`no_closed_gate` / `ServedFilesAreClosed`** (architecture.md:157). ffmpeg fails
  in a first run that has closed a segment; the job is retried at an explicit
  segment, so `stream.m3u8` stays (only local recovery removes it, worker.go:189);
  the new worker is Ready at once and reports old entries from its start segment
  on while its own ffmpeg has just reopened one.
* **`no_exact_start` / `ResumesAtItsPlace`** (architecture_walkthrough.md:67). A worker
  dies with segment 1 open. `highestSegmentOnDisk` counts that file, so the monitor asks
  for segment 2; `transcoded_duration` counts what was reported, so it asks for the time
  at which segment 1 begins (main.go:903-924). Segment 1 stays truncated, because
  an explicit start keeps the next worker from looking at it, and every later number is
  a segment behind its place. After a seek the sum counts from 0 while the numbers do not.
* **`no_retry_answered` / `RetriesAnswered`** (architecture_walkthrough.md:84, "the client
  retries after 2 seconds and gets the new segment"). One worker, one client, no upset, and
  ffmpeg gets on. `handleUpdate` clears `recovery_in_progress` as soon as a worker marks the
  job Processing, so the retry is enqueued too: the worker loses the job, is cancelled and
  removes the directory, the next one is no further when the client comes back, and so on
  for ever. In practice this takes a first segment that is not reported within
  `Retry-After`, 2 seconds, of the last attempt. Were that mended, in two more cases no
  retry would be answered. A request for segment 0 reads as no request at all at
  worker.go:177: with files on the volume the next worker looks at them (worker.go:181) and
  goes on after the last, where walkthrough:84 says it starts "*exactly* from the missing
  segment". And the last segment of a file may be written by every run and reported by none:
  `cmd.Wait` returns, `jobCancel` runs, and the watcher's next 500 ms tick never comes, where
  src/README.md:95 has it report each new file; the playlist of the Completed job ends early too.

Seen in counterexamples of earlier runs, kept here as notes:

* README.md:104 says that the segment files of a worker that dies "persist". One that
  gets SIGTERM, or loses a heartbeat call, takes the "Cancelled" branch
  (worker.go:276-280) and removes `SEGMENT_DIR/<job>`; the rows stay. So does a worker
  that lost its job to one already writing into that directory.
* main.go:787 says that the watchdog reaps idle jobs. It deletes by id what its snapshot
  found idle: a client that has touched the row since loses row and files.
* README.md:111 says that files are cleaned up "when a job is deleted". A worker that claimed
  the job just before makes the directory again (worker.go:117), and if its ffmpeg ends before a
  heartbeat finds the row gone, no row leads to that directory any more. The comment at
  main.go:789 speaks of a crash in between; none is needed.
* architecture.md:120 has the hierarchy in parent ids. "Specials" is season 0
  (hierarchy.go:61), and a season 0 is left out of the hierarchy key (identity.go:39): the
  directory has its series' key, resolves to the series' record and is saved with the series,
  itself, as its parent. The show is below itself and out of reach from the top.
* `LastSegmentNum = 0` is shared by a Failed job that never wrote anything and one that
  wrote segment 0 (main.go:881): segment 0 is skipped.
* README.md:106 says that recovery "resumes from the latest segment file on disk". That is so
  of a dead worker's job. A Failed one is retried after `LastSegmentNum` of the snapshot
  (main.go:879-881), although its files and manifest are kept: with a report of the failed
  worker still to come, or with the old manifest reported by the next worker, ffmpeg writes
  segments again that are stored and being served. TLC shows it as soon as there are two
  restarts; `no_closed_gate` is how a client sees it.
* interfaces.go:64 speaks of "UUID stability across rescans". A provider that fails in
  one of two concurrent first scans leaves two records for one path, with the key and
  the provider's answer as their identities; later scans find either. With the provider
  failing in a single scan the key stays the identity for good (`Discover` is "for NEW
  files only").

Read from the code and not run:

* Stop and seek never remove a directory, and the watchdog removes it after `DeleteJob`
  where README.md:111 says before; those of sub-jobs deleted by the cascade are removed
  by nobody. The deployment example mounts the volume read-only in the control plane,
  whose removals would then fail.
* `discontinuity_count` ("number of past worker deaths", domain/media.go:99) is also
  incremented for live workers and once per tick while recovery is refused.
* `PurgeJobs`, `EnqueueSubJob`, `ListMissing` and the lock manager have no caller;
  nothing reads the status "missing". main.go:135 passes "ffmpeg" as the ffprobe path of
  the playback service. A cached probe is never invalidated.
* Range-parallel mode: the parent row "(tracks aggregate status)", splitter.go:171, is
  itself Pending and transcoded whole, and `checkParentCompletion` does nothing over
  HTTP; the segment handler looks in the parent's directory while sub-jobs write to
  their own; sub-job rows are never touched, so the watchdog reaps them half-way while
  a client watches; a recovered sub-job starts at `RangeStart` under the number that
  recovery chose (worker.go:197-199); of the number two neighbours share the store keeps
  the first report.
* Libraries: variants in one directory share its `movie.nfo` and so one record, which
  changes its path at every scan; a record found by its key keeps the library it was created in, whose scan
  marks it missing; a change between the initial scan's listing and the watcher's
  watches, or two levels deep in a new directory, waits for another scan.

## 5. Proofs

Every safety property of a passing run is stated by a theorem, for any number of jobs,
workers, goroutines, paths, files and upsets, and for all values of the bounds.

**The store** (`JobQueueProofs`, `LifecycleProofs`), from `NamesAssumption` and
`BoundsAssumption`:

| Theorem | `QueueSpec` implies |
|---|---|
| `TypeCorrect` | `[]QueueTypeOK` |
| `SegmentsHaveRows` | `[]ReferentialIntegrity` |
| `SegmentsAccounted` | `[]SegmentAccounting` |
| `ClaimsRecoverable` | `[]ClaimIsRecoverable` |
| `RecoveriesCollapsed` | `RecoveryNotRepeated` |
| `StaleWorkersExcluded` | `StaleWorkerCannotClobber` |
| `ProgressKept` | `ProgressNeverLost` |
| `StoreImplementsLifecycle` | `ImplementsLifecycle` |

The type invariant is inductive, one step per action. `SegmentAccounting` needs
`ReferentialIntegrity` (a new row starts with `lastSeg = 0`, which is only right because no
segments are left from a previous one) and counts with `Cardinality` of a finite set growing
by at most one when the duration does. `ClaimIsRecoverable` is strengthened with what a
Pending row may carry. For the refinement, each statement maps to the action of
`JobLifecycle` it implements or to a stutter, one lemma for all (`LifecycleStep`). The
mapping reads an owner only from Processing and Ready rows; that is what makes a stale
`worker_id` harmless.

**The whole system** (`TranscodeProofs`), from the assumptions of the modules it is made of:

| Theorem | `Spec` implies |
|---|---|
| `SystemTyped` | `[]TypeOK` |
| `StoreSoundInSystem` | `ReferentialIntegrity`, `SegmentAccounting`, `ClaimIsRecoverable` |
| `RecoveriesCollapsedInSystem` | `RecoveryNotRepeated` |
| `StaleWorkersExcludedInSystem` | `StaleWorkerCannotClobber`, `ProgressNeverLost` |
| `OwnersServe` | `[]OwnerServesRequest` |

`SystemInv` is `TypeOK` strengthened with where the numbers come from: a row's start is a
position and its `last_segment_num` a segment, a copy of a row holds a segment, a worker
that is not idle has a job, ffmpeg is on a segment, a tick that is still under way has
something to report. Without it a call could pass the store a number it does not take, and
the lemma `StoreUsedAsSpecified`, that the system's steps are steps of `QueueSpec` on the
store, would fail: the start of a recovery is a number computed from the files of a
directory. `SystemCalls` lists the statements workers and goroutines make, `ContractStep`
shows each to be one of `QueueNext`; the store's lemmas then hold in the system.
`OwnersServe` compares a worker's step with the row (`OwnersStep`, `SteadyStep`): only a
claim makes an owner, and it reads the start in the same statement; whoever changes
`start_segment` later leaves the row Pending. Its one exception is in the property: of a
recovery at segment 0 it claims nothing (`LeftToWorker`; section 4).

**Recovery** (`RecoveryProofs`). These properties hold in circumstances, which the theorems
have as hypotheses and the run `recovery` has as its instance:

| Theorem | Implies | Circumstances |
|---|---|---|
| `CleanupIsSafe` | `CleanupOnlyAfterLoss` | no lost call, no SIGTERM |
| `OnlyTheDeadMarked` | `OnlyDeadWorkersMarked` | one monitor, no clients; no late heartbeat, no slow first segment |
| `OnlyTheExhaustedGivenUp` | `GivenUpOnlyWhenExhausted` | one monitor, no clients, no watchdog |
| `DeadWorkersReplaced` | `StoredSegmentsKept` | one monitor, no clients, no watchdog; no lost call, SIGTERM, late heartbeat, slow first segment |
| `CompletedIsFinal` | `CompletedStays` | the same |

Any number of workers, crashes of workers and of the control plane, failed launches, manifest
timeouts, ffmpeg errors, slow reports and statements of `DeleteJob` that fail remain. Other
failing queries are not modelled: a failed read ends its request or tick, and an `Enqueue`
that fails waits for the next tick or the client's next request. The circumstances are not
there to help the provers. A worker that loses a call, or is asked to shut down, removes its
directory while it still owns the row (section 4), so a worker that owns it may be writing
there; a slow first segment is the finding `no_live_mark`; a client may enqueue a job again
between the monitor's snapshot and its next statement, which then concerns a row it has not
seen; the watchdog deletes jobs that have not failed; a late heartbeat leaves two workers on
one directory.

* `LossInv`: a worker that is to stop, or is about to clean up, does not own its job. Only
  a claim could give the job back, and a worker that is busy claims nothing.
* `TodoInv` and `MarkInv`: a snapshot has a row at most once, and not the one at hand; as
  long as a row waits in it as active it is neither Pending nor in the hands of a
  worker at work, and a Pending row has no heartbeat. So the row is as dead when the mark
  comes as it was in the snapshot.
* `GiveUpInv`: while the snapshot says Failed, or `DeleteJob` is between its two statements,
  the row is Failed with the restarts the copy has (`Settled`).
* `DeadInv`: a row that waits in a snapshot as dead, or that the monitor has marked, is not
  Completed, and a marked one is nobody's. It rests on `MarkInv`: whoever could complete the
  row has stopped when the snapshot is taken, and nobody claims it before it is enqueued.
* `ResumeInv`: of a job that has not been Failed, a Pending row asks for a number that no
  file has reached (`WaitsAfterFiles`), its one worker owns it and has no file ahead of the
  segment its ffmpeg is at (`WorksAfterFiles`), and the row that the monitor has marked is
  nobody's (`HandDead`). Then ffmpeg only opens segments that have no file.
  `StoredSegmentsKept` itself is an action property and says nothing of positions, and none
  of the invariants before suffices: that a recovery starts after all files needs
  `HandDead`, that nobody adds one meanwhile needs `AloneOnJob`.

**Range-parallel transcoding** (`SplitterProofs`, `RangesProofs`), from `SplitterAssumption`,
`RangesAssumption` (an id per range; a probe that succeeds finds a duration) and
`RequestsAssumption` (the numbers of the file are segments of the store):

| Theorem | States |
|---|---|
| `RangesCover`, `CutsServed` | `SplitSpec => []RangesCoverMedia`, `[]IdealCutsServed` |
| `DeployedRangesCover`, `DeployedCutsServed` | the same of `RangesSpec` |
| `NoOrphans` | `RangesSpec => []SubJobsHaveParent` |
| `RangesTyped` | `RangesSpec => []RangesTypeOK` |
| `NumbersAlwaysCovered` | `RangesSpec => []NumbersCovered` |

`LoopInv` says that while the loop cuts, the splits begin with 0, consecutive ones are at
least two segments apart, and the last is not after the last ideal cut tried; with
`OneRange` false the file has two segments per range asked for, so that the last range is
long enough as well. `Served` adds that every ideal cut tried is served by a split
(`ServedStep`: by its own keyframe or by the split that left it out). Both hold for any file
and any keyframes, sorted or not, with integer times. `NumbersAlwaysCovered` follows from the
cuts alone (`RangeEnds`, `WaysNumbered`): a range counted from where its start falls ends
where the next one begins, or one later, and cuts two segments apart keep ranges that are
not neighbours from meeting.

`NoOrphans`: `FamilyInv` is `SplitInv` with `EnoughIds` (a sub-job id for every
range), `Typed`, `Busy` (a worker with something left to do has a job), `Asking` (the
sub-jobs are asked for only after the cut, and only those there are) and `Families`
(the row of a sub-job has a parent row and belongs to a range of the finished cut).
`SubJobsHaveParent` alone is not inductive: `IsSub` depends on the splits, and a step that
completes the cut must not make sub-jobs of rows that are there already. `NumberedInv` adds
that a row asks for the start of its range (`RowsAsked`) and that no run goes past the last
segment (`RunsWithin`), which is what `RangesTypeOK` needs: a worker that claimed a row with
another start would report segments the file does not have.

**Libraries** (`LibraryProofs`, `WatcherProofs`), from `LibraryAssumption` and
`WatcherAssumption`:

| Theorem | States |
|---|---|
| `LibraryTyped`, `WatcherTyped` | `LibrarySpec => []LibraryTypeOK`, `WatchSpec => []WatchTypeOK` |
| `ViewIsAForest`, `WatchedViewIsAForest` | `Leveled(level)` for some `level` => `[]ReachableFromTop` of both specifications |
| `UntouchedKeepTheirId`, `WatchedKeepTheirId` | `UntouchedKeepId` of both |

`LibraryMove` is what either specification does to the libraries, and the lemmas are about
it. `LibraryInv` adds to the types that a scan about to save or mark has a record to do it
to. `ParentsKnown`: a parent that a running scan has noted for what it is still to resolve
is listed; that every parent is listed does not survive by itself a scan that has noted one. Any
number of scans, restarts and changes on disk are allowed.

That no item is below itself needs a hypothesis on the data, `Leveled(level)`: there is a number
for every key and identity, such that what lies in a directory has a greater one than the
directory, providers answer with what belongs to the path's own level, and files move within
their level. Levels exist in the instances of `library` and `watch` (a series is 0, its episodes are
1); none do where a directory has the key of the one it lies in, as "Specials" has.
`InLevels` says that records and running scans keep to them, so that an item's parent is of a
lesser level: of any set of items, one of the least level has its parent outside (`NoLoops`). `OwnIds`: in the table and in every running
scan, the record of an untouched path has the identity its provider answers. It needs
`SteadyApart` (the path is in no directory that comes and goes and shares its key with no
other) and providers that answer: section 4 says what happens without.

**Only model-checked**: the liveness properties (`JobsSettle`, `LosersStop`,
`AbsentWorkersReplaced`, `IdleJobsReaped`, `FamiliesReaped`, `PresentFilesListed`,
`GoneFilesMissing`, `NewFilesListed`, `GoneFilesNoticed`), because TLAPS proves neither
liveness under fairness nor ENABLED, and the refuted claims of section 4. `Timeline` has no
theorem: the one thing it is asked is refuted.

## 6. Plan

1. *(done)* `JobQueue` with proofs; `SegmentDir`, `Worker`, `ControlPlane`, `Transcode`.
2. *(done)* `JobLifecycle`, implemented by the store, with its proof.
3. *(done)* `Splitter`, `Ranges` with proofs; `Timeline`; `Library`, `Watcher`.
4. *(done)* `TranscodeProofs` and `RecoveryProofs`; `LibraryProofs` and `WatcherProofs`; the
   numbers and cuts of `Ranges`.
5. The lifecycle as a theorem of the whole system (`Spec => ImplementsLifecycle`); the
   recovery theorems with clients or a watchdog beside the monitor, where they hold, and
   counterexamples where they do not; what holds of the times of `Timeline` while no worker
   dies.

## 7. Not modelled, and why

The lock manager is dead code. Metadata providers are modelled by their answers: parsing
NFO files and fetching have no interacting state; nor have the image proxy, direct
streaming and metrics. Authentication is one comparison. Playback strategy is a decision
table without state. HTTP and JSON encoding, the wording of playlists and the parsing of
file names are data; which paths share a key is a parameter of `Library`. The probe cache
is upserted with values that never change the job protocol. Several libraries in one
table are within `Library`'s parameters, and outside the instance checked.
