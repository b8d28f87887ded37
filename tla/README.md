# TorrentMate in TLA+

TorrentMate (`src/personalscraper`) runs a media pipeline (ingest, sort, scrape, verify,
trailers, dispatch) over a torrent client and storage disks. It is a set of processes on
one machine that share SQLite files and lock files: a supervisor kept up by PM2, the
workers it starts, a web server, cron jobs and command-line runs. Inside one run the code is
sequential and unit tests reach it; between processes it is not, and that is what is
modelled here, with the one client of the web server that retries on its own.

## 1. Inventory

Paths are under `src/personalscraper/` unless they start with `src/`. `PROJECT.json` lists
every component with its status; this section says what state it keeps, what it does and
what would make it right.

### Who may run, and what became of it

| component | state | operations | must hold |
|---|---|---|---|
| PID locks, `lock.py` | `pipeline.lock`, one lock file per staging item | `acquire_lock`, `is_lock_held`, `release_lock`, `acquire_pipeline_lock`, `acquire_scrape_resolve_lock` | at most one global holder, none beside a resolve, one resolve per item; dead holders do not block; a failed attempt leaves no file |
| run queue, `app/supervisor/model.py`, `queue_repository.py`, `service.py` | table `run_request` of `app.db` | ask (join or insert), admit, record worker, back to queue, settle, abandon, heartbeat | a request runs once, is settled once, only by who may; FIFO; nothing asked is lost |
| lease, `app/supervisor/lease_repository.py` | the one row of `run_lease` | claim, renew, release | one supervisor admits at a time |
| supervisor, `app/supervisor/supervisor.py`, `launcher.py` | its `Popen` children, `_holding`, `_start_failures`, `_unreadable_reads` | admission tick, watcher tick, stop | a worker exists only for a saved admission; ended workers settled by exit code, adopted ones by pid, heartbeat and row |
| worker, `app/supervisor/worker.py`, `execution.py` | its process, its heartbeat thread | check, lock, beat, run the body, release, exit | runs nothing without the lock; its code says how the run ended |
| run history, `pipeline_history.py`, and the pipeline that writes it, `pipeline.py` | table `pipeline_run` of `library.db` | `insert`, `update_step`, `finalize` (fail-soft), `outcome` | the row agrees with the exit code |
| watcher engine, `acquire/watcher.py`, driven by `supervisor.py` | `WatcherState`: window, backoff, origin, cross-seeds dispatched; the last success in `acquire.db`; sentinel files | evaluate one cycle, ask, restore what a refused ask had armed | a completion is followed by a run that starts after it; runs keep their pace; an overdue library is looked at |

The supervisor starts a worker with the request's uid in its environment; the
worker reads `run_request`, takes `pipeline.lock`, touches its heartbeat, writes its row;
the supervisor reads the exit code of its own child (`waitpid`), and of a worker it did
not start only the pid, the heartbeat and the row. Command-line runs, maintenance and
scrape-resolves meet them at the lock files only. `pipeline.pause` and the locks hold the
head of the queue back. Anyone may be killed between any two of these steps.

### What is written once, whoever retries

| component | state | operations | must hold |
|---|---|---|---|
| idempotency keys, `app/idempotency/`, `http_v1/idempotency.py` | table `idempotency_record` | claim, replay, refuse a running duplicate, take over, complete, release, sweep | a key is applied once, up to the residuals the docstring names; the first answer stands |
| write outbox of the web client, `src/webui/design/src/app/outbox.ts`, `outbox-store.ts`, `lib/query-client.ts` | the envelopes on disk, `departing`, `departureWanted` | `send`, `holdBack`, `departAll` | what the operator is told is true; what is held leaves in the end |
| wanted items, `acquire/_wanted_store.py`, `_grab_pass.py`, `_search_pass.py`, `_pass_gates.py`, `reconcile.py`, `_reswitch.py` | table `wanted`, the torrent client | claim, reserve, add, mark, release, reconcile, requeue, switch, close | one torrent per item and a row that names it; every open row moves again |
| seed obligations, `acquire/obligations.py`, `delete_authority.py` | table `seed_obligation` | record, satisfy, release, permit a deletion | a torrent taken is owed its seeding; nothing under an obligation is deleted |
| indexer outbox, `indexer/outbox/` | tables `index_outbox`, `pending_op`, `disk.is_mounted` | publish, drain, replay, defer, purge | no row lost silently; the index ends at the last published state |
| dispatch, `dispatch/_transfer.py`, `_tv.py`, `_movie.py`, `crash_recovery.py` | the library's directories, `.merge_backup` | merge, replace, sweep | an original is lost only when its replacement is complete |
| circuit breaker, `core/circuit.py` | state, failure count, `opened_at` | guard, success, failure | the breaker closes again once the provider is well |

The hard parts: several passes work on one row of `wanted` and one torrent client with
nothing but guarded updates between them; a drain of the outbox run by a dispatch takes no
lock, and may overlap the one `library-index` runs; a request may outlive the claim made
for it; and a crash may fall between the effect (the torrent added, the write committed,
the file moved) and the row that says so.

## 2. Modules

| module | what it is |
|---|---|
| `PipelineLock` | the lock files, one file-system call per step |
| `RunQueue` | abstract: what the queue promises to who asks for a run |
| `Supervisor` | detailed: supervisors, lease, queue rows, workers, lock, history rows; implements `RunQueue` |
| `Watcher` | the decision engine, the ask it decides, the runs that answer it |
| `Idempotency` | the server's half of a write sent at least once, under any client |
| `WriteOutbox` | the web client's half, composed with `Idempotency`; implements its specification |
| `Acquisition` | one wanted item, the torrent client and the passes that work on it |
| `IndexOutbox` | the outbox of one disk and the drains that empty it |
| `PipelineLockProofs`, `SupervisorProofs`, `SupervisorQueueProofs`, `WatcherProofs`, `IdempotencyProofs`, `WriteOutboxProofs`, `AcquisitionProofs`, `IndexOutboxProofs` | their theorems |
| `MCPipelineLock`, `MCSupervisor`, `MCWatcher`, `MCWriteOutbox`, `MCAcquisition`, `MCIndexOutbox` | instances for TLC, with their symmetry sets and views |

### PipelineLock

`creator[l]` and `written[l]` are the file of lock `l`: which process's `O_EXCL` made it and
whether the pid is in it yet. `pc[p]` is where `p` stands in `acquire_lock` and the check
that follows it. `Exists`, `ReadPid`, `JudgePid`, `UnlinkStale`, `CreateFile`, `WritePid`
are the lines of `acquire_lock`; `ListRivals`, `ScanRead`, `ScanProbe`, `Granted`,
`ScanRaises` the check of the other tier, `is_lock_held` split at its read and its
`os.kill`; `Release` the three calls of `release_lock`; `Exit` the end of the process at
any step, which is also how a file is left behind. Every call may raise: before the file is
made (`ClaimRaises`) there is nothing to undo; the write or the close of the pid (`WriteRaises`),
the unlink of `release_lock` (`ReleaseRaises`) and the probe of a resolve, which
`acquire_scrape_resolve_lock` makes outside any `try`, leave the file (`pc` "leaked"); the
probe of a global holder is caught, and its claim released (`ScanRaises`). A pid names one
process: reuse of a pid by an unrelated process is not modelled here. `robbed` and `alone` are
history.

### RunQueue and Supervisor

`Supervisor` has one action per transaction or system call of a tick; `pc[s]` names the
call a supervisor is about to make:

| `pc` | actions | code |
|---|---|---|
| `idle`, `gate` | `HoldLease`, `StartWatch`, `Stop` | `_hold_lease`, `tick_watcher`, `stop` |
| `scan` | `ReadRunning` | the read of `_settle_ended` |
| `judge` | `JudgeExit`, `JudgeSilent`, `Reap` | the loop of `_settle_ended`, the launcher, `_announce` |
| `row` | `ReadRow`, `RowUnreadable` | `_settle_silent` |
| `save` | `SaveVerdict` | `QueueRepository.save` of the verdict |
| `head`, `block` | `ReadHead`, `CheckBlocker` | `_admit`, `_blocker` |
| `admit`, `start`, `record`, `undo` | `SaveAdmission`, `StartWorker`, `StartRaises`, `RecordWorker`, `UndoAdmission` | `_start`, `_start_failed` |
| `watch` | `KeepLease`, `EndWatch` | `_LeaseKeeper`, `_watch_cycle` |

`TickRaises` is `_guarded`; `Crash` is `SIGKILL` at any step. `todo` and `cur` are the
copies of rows a tick works on; they may be stale when saved, and `Saves` is the
compare-and-set. A worker's `phase` goes from `starting` to `zombie` (ended, its parent
has not polled it) to `gone`. `SupervisorStep`, `WorkerStep` and `Around` are the three
parts of `Next`.

What is abstracted:

- **Time.** `leaseLive` and `stale` change at any moment the timing allows: `Lapse` while
  the holder is between ticks, `GoesSilent` for a worker that does not beat. The two that
  need a delay of tens of seconds (`LapseInTick`, `MissesBeats`) count as troubles.
- **Data.** The kind and options of a request, `wait_reason`, events and the watcher's
  state are left out. An ask that joins another changes nothing. Requests are numbered by
  `asked_at`, and may be inserted in another order, since it is read before the transaction.
- **The body** begins (row inserted) and ends (row finalized, exit code), with the four
  combinations the code has (`Endings`).
- **The lock.** An attempt at it lasts while the worker is `locking`, and only its outcomes are
  steps. `TakeLock` is the one the code means: refused by a file whose process lives, or the file
  made. When two attempts overlapped (`racing`) the later may also unlink the file of the earlier
  under it, because it saw that file still empty or the dead one it replaced: `StealLock`, after
  which the attempt is `claiming` and makes its own. `ForeignRobs` is the same by a process of
  another kind, and a worker robbed of its file unlinks by name whatever is there when it
  releases (`Robbed`). The calls that lead to these outcomes, and the back-off between the
  two tiers of locks, are in `PipelineLock` only.
- **Pids** are given again once nothing names them; all processes are on one host.
- A dead holder's lease row is claimable at once (`Lease.claimable`): `Crash` frees it.

`RunQueue` has `Ask`, `Admit`, `BackToQueue`, `Begin`, `End`, `Settle` and no process at
all. `ImplementsRunQueue` maps to it by name: `state`, `settlement`, `began`, `finished`
are variables of both, `executing` is the set of jobs of workers in their body.
`Conclusions` is what a reader of the table may conclude from those promises.

### Watcher

`WatchCycle` is one cycle: poll, queue view, `evaluate`. Its branches (`Manual`, `CrossSeed`,
`Quiescence`, `Completion`, `ClearWindow`, the safety net) exclude each other in the code's
order. The cycle is one step because the supervisor that runs it is one thread, which also
starts and settles runs; the ask it decides is another (`AskTaken`, `AskNotTaken`), because
the web asks through the same queue from other processes, and because the window of a run
is armed before it is asked for. A manual ask is two: its commit (`AskTaken`), then the unlink of
`watch.trigger` (`ConsumeSentinel`), with crashes, pokes and runs in between. While the client does
not answer or the ingest tracker cannot be read (`answering` is false) the code skips the whole
cycle, sentinel included, and so does `WatchCycle`. `ask` carries the memory a refusal gives back. `Restart`
loses the memory and reads the stored success; `LoseLease` is another supervisor at work,
whose successes this one's memory misses (`uninformed`).

- **Time** is in units: `window` is what is left of `debounce_until`, and the ages are capped
  at the last value anything compares them with. The backoff exponent stops where the delay
  has reached the safety net, past which it changes nothing: `backoff` is that delay, `Doubled`
  at each automatic run. Every delay is cut at the safety net, which the configuration allows to be
  shorter than the debounce: the first is `FirstDelay`, the shorter of the two.
- **Runs** of a kind other than `pipeline` are `"other"`: they keep the queue busy and serve
  nobody.
- **Left out**: torrents the triage skips for good, the publication of the pending run, the
  events. `CrossSeedAttempts` is 2 in the instance, 3 in the code.

### Idempotency and WriteOutbox

A write is one key with its account, operation and fingerprint: the client makes a fresh
key for each, so the reuse of a key by another request is left out. `record[w]` is its row;
`slot[s]` is a request in hand, which goes from `sent` through `claimed`, `committed` and
`answered` to `leaving`; `holds` says that the row still bears its `claim_id`. `Claim`,
`Replay` and `RefuseRunning` are the three outcomes of the claim's transaction, the sweep
of old rows included (a refusal is raised out of the transaction, and rolls the sweep
back). `Settle` completes or releases, and its store may fail. `Die` is the loss of a
request at any stage; a crash of the server is that of each. `ServerSpec` lets any client
send anything at any time.

`WriteOutbox` adds the document: `told[w]` is what the operator sees, `held` the envelopes on
disk, `departing`, `walk` and `wanted` the run of `departAll`. `DepartAsked` is an edge that
asks for one. `lapsed` and `disowned` are history: the residuals the docstring of
`service.py` accepts, in the model's terms.

Ages are in units of the two limits the service tells apart (`Pending` 0, `Retention` 1). A
second tab that drains the same store, the forgetting of everything at sign-out and what is
shown of a refusal on replay are left out.

### Acquisition

One row of `wanted`. `pc[p]` is where a pass stands; every write of `_wanted_store.py` is one
guarded `UPDATE` and one step.

| part | actions | code |
|---|---|---|
| reconciliation | `StartGrab`, `StartSearch`, `AskClient`, `ListOpen`, `CloseOwned`, `RequeueMissing`, `ConfirmIntent`, `RecordRecovered` | `commands/grab.py`, `reconcile.py` |
| reswitch | `ListGrabbed`, `JudgeTorrent`, `Switch`, `DeleteDead` | `stalled_grabs.py`, `_reswitch.py` |
| gates and claim | `ListQueue`, `Reclaim`, `AgeOut`, `NotDue`, `Claim` | `_pass_gates.py` |
| search | `SearchConcludes` | `_search_pass.py` |
| grab | `Choose`, `Reserve`, `AddTorrent`, `AddFails`, `MarkGrabbed`, `RecordObligation`, `ReleaseIntent`, `Conclude` | `_grab_pass.py` |
| faults and world | `Dies`, `GoesStale`, `Resurrect`, `Absorb`, `Lands`, `Disappears` | the process, time, `detect`, a sibling's search, the pipeline, a person |

- **Nondeterminism for data**: whether an item is past its cutoff or due, whether a torrent is
  stalled, which release ranks first, how a search ends.
- **Failures of the client**: a connection error of qBittorrent aborts the pass (`Dies`, the
  reservation kept); one of Transmission comes back as an API error (`AddFails`, landed or not).
- **Releases without a hash** (`Unannounced`): their result carries none, so `Reserve` records
  nothing and the ranking cannot exclude one that was found dead. **Releases without a floor**
  (`Floorless`): their tracker has no economy block, so no obligation is recorded, at the grab
  or late. A tag nobody resolves, being editable by anybody in the client, is a trouble of the
  write, as a store that fails.
- **History**: `fresh[p]` says that nobody wrote the row since `p` read or claimed it;
  `overtaken` that some pass acted on a row that was not fresh. `unanswered`, `unreserved` and
  `forgone` name the torrents whose add was not heard to succeed, those without a hash whose pass
  was cut off before `mark_grabbed`, and those whose pass was cut off, or refused, at the write
  of the obligation.
- **Left out**: several rows (they meet only where a season absorbs its episodes, `Absorb`), the
  season fallback, enqueueing, torrents of other owners in a shared client, provenance,
  download events, the kept verdict of a search, an abandon on corrupt JSON. Obligations are
  recorded here; their satisfaction, release and the permit to delete are not modelled.

### IndexOutbox

One disk and rows numbered in the order they are published; the index is the last row
written to it. `StartDrain` reads what `pending_op` holds, `Replay` and `ReplayFails` go
through it, `Fetch` takes a batch and marks the superseded, then each row is skipped,
parked, applied or failed. A handler writes (`Writes`) or finds nothing to write to and returns
(`Misses`): no path or no item in the index, no row touched, a move without its size. Either
way its row is marked done in the same transaction. Only the moves with every field (`Complete`)
write in any case, since they make their path; the others may miss whatever was done
before, because scans, not drains, give a path its item. The check that the disk is mounted and the transaction that
follows are one step because nothing but a scan's error and a person changes the disk, and
either order gives a state the other gives. The purge of a month-old `pending_op` is a
nondeterministic prefix. A `dispatch` drain takes no lock and a `library-index` drain holds
`indexer_lock`, which excludes only its like: hence two `Drains`. `ByHand` adds the operator
who restores `is_mounted` in the database, for no code does. Left out: `scan_run` and
`scan_event` rows, the deletion of done rows.

## 3. Runs

| run | specification | instance | shows |
|---|---|---|---|
| `lock_safety` | `PipelineLock!Spec` | 2 runs, 2 resolves of one item | `OverlapOnlyAfterTheft`, `NothingLeaked`, `LoneAttemptNotRefused`, `OwnersStealNothing`, `TypeOK` |
| `lock_claim` | same | same | violation of `TwoTierExclusion` |
| `sup_punctual` | `Supervisor!PunctualSpec` | 2 supervisors, 2 requests, 2 workers, 1 trouble | `ImplementsRunQueue`, `OneTicker`, `NoWorkerOnQueued`, `TypeOK` |
| `sup_stalled` | `Supervisor!Spec` | 2 supervisors, 1 request, 2 workers, 2 troubles | `BodiesMeetOnlyByTheft`, `SuccessIsEarned`, `SettledIsFinal` |
| `sup_live` | `Supervisor!FairSpec` | 1 supervisor, 2 requests, 2 workers, 1 trouble | `EveryRequestSettles` |
| `sup_zombie` | `Supervisor!FairSpec` | 2 supervisors, 1 request, 1 trouble | violation of `DeadLockIsFreed` |
| `watch` | `Watcher!FairSpec` | 1 torrent, debounce 1, safety net 2, 1 trouble | `PacesObtainedRuns`, `GraceRestarts`, `SafetyNetOverdue`, `EveryCompletionServed`, `EveryPokeServed`, `SafetyNetLives`, `TypeOK` |
| `writes` | `WriteOutbox!FairSpec` | 2 writes, 2 requests at once, 2 faults | `AppliedOnce`, `FirstAnswerStands`, `ToldTruly`, `HeldIsKept`, `QueueDrains`, `TypeOK` |
| `acquire` | `Acquisition!Spec` | 2 passes, 2 releases, one of them unannounced and floorless, 2 troubles | `EveryTorrentNamed`, `GrabbedIsOwed`, `TypeOK` |
| `acquire_live` | `Acquisition!Spec` | 2 passes, 1 release, 1 trouble | `ClaimsEnd`, `OwnedCloses`, `VanishedIsNoticed` |
| `outbox` | `IndexOutbox!Spec` | 3 rows, 2 of one file, of which one unusable and one complete, batches of 2, 2 drains, 2 troubles, `ByHand` | `DoneIsWritten`, `DeferredIsParked`, `InOrder`, `DrainsEnd`, `EveryRowSettles`, `TypeOK` |
| `outbox_remount` | `IndexOutbox!Spec` | 2 rows, 2 drains, 1 trouble, nobody edits the database | violation of `ReplayedOnRemount` |

**Bounds.** `MaxTrouble` (`MaxFaults` for the writes) bounds how many faults and outside
interferences happen in one behaviour; everything else is free.

- *Supervisor*: a crash, a stop, a killed or failing worker, a row or tick that raises, a pause,
  a foreign lock or theft, a stalled tick, a missed beat. The theft of a worker's lock by a worker
  is no trouble: it is free wherever two attempts overlap. One trouble is enough for each single
  failure to meet every step of every actor; two, with one request, are what a second worker on
  the request and a silent or robbed first one need together: two bodies do run at once in
  `sup_stalled`, by a theft. `MaxStartAttempts` and
  `MaxUnreadable` are 2 (5 and 30 in the code): the first failure, and the one that reaches
  the limit. `Workers` bounds the pids in use at a time; while none is spare the head
  waits, as behind a blocker.
- *PipelineLock*: two processes per tier give every pair the properties speak of, with a third
  and a fourth to interfere.
- *Watcher*: restarts, refused asks, failed writes, lost leases, web asks, deferrals and pauses.
  The debounce and the safety net are two different lengths of time, which is what the
  branches tell apart; a debounce longer than the safety net, which the configuration allows, is
  in the theorems (`GraceIsWhole`, `SafetyNetIsOverdue`), which assume no order of the two. One
  torrent completes, is ingested and comes back. The client's answers come and go freely.
- *Writes*: two faults are a run that dies with its claim and the one that takes it over, or
  that and a lost answer; two slots are the two runs of one key that may meet.
- *Acquisition*: a fault, an unanswered client, a claim outlived by its age, a torrent removed, a
  sibling's absorption. Two passes are a stale one and the one that overtakes it, two
  releases the dead one and its replacement; they differ (one announces its hash and has
  a floor, the other neither), so only passes are symmetric. `AheadOfRaces` compares states
  whole until a race is lost, and from there on, where both properties hold by their first
  conjunct and `overtaken` stays, without what only records. `acquire_live` has one release,
  announced, since liveness allows no symmetry; it compares states under the view `Acting`,
  which hides the history no action reads.
- *IndexOutbox*: refused writes, kills, lost publications, I/O errors. Three rows are two of one
  file and one of another; a batch is 2 rows (100 in the code), so the third comes in another.

`sup_punctual` compares states under the view `Ahead` of `MCSupervisor`: it hides the history
`failed`, which the run does not read, the row of a settled request, which no step that still
changes anything reads, and the two variables of the thefts, which `PunctualNext` has none of.
`sup_stalled` adds these back (`AheadOfTheft`), `racing` where an attempt still goes on and
`robbed` where a worker still has its lock.

**Deadlock** is checked where the system never stops: the supervisor, `acquire*` and `outbox*`
runs. `lock_*` turn it off because every process makes one attempt and exits; `watch` and
`writes` because a quiet instance, or an operator who writes no more, may have nothing left
to do.

**Two next-state relations of Supervisor.** `PunctualNext` leaves out three things the code does
not exclude: an admission tick held up longer than the lease's 60 s (no thread renews it
there), a body without a row (the insert is fail-soft), and a lock file unlinked under a living
worker (`lock_claim`). `Next` has them. What needs the assumption (the refinement, one ticker, no
worker on a queued request, every request settled) is stated under `PunctualSpec`; what holds
without it (bodies meet only by theft, a settlement stands, success is earned) under `Spec`.

**Fairness.** Crashes and faults are never fair, and none is needed.

- *Supervisor* (`FairSpec`). Weak fairness of `Tick(s)`: PM2 restarts the process, its loop
  ticks every 2 s and no step of a tick waits on another process. Of `WorkerRuns(w)`: a
  worker runs to its end. Of `GoesSilent` and `Lapse`: time passes. Of `Resume` and
  `ForeignReleases`: who paused the pipeline or holds its lock is a person or a run that
  comes back. `EveryRequestSettles` is checked with one supervisor because with two it fails:
  a zombie blocks the queue (`sup_zombie`).
- *Watcher*. The loop cycles and makes the ask it decided, the lease of a holder that left
  expires, runs start and end, time passes. Nothing is assumed of the client, the operator
  or the web: the properties are recurrences, `[]<>(served \/ ~Quiet)`, which a client that
  always downloads, or never answers, satisfies by never being quiet.
- *Writes*. The server answers what reached it, time passes, a departure goes on; and
  `DepartAsked`: the operator comes back online or opens the application again. That last one
  is an assumption on the environment, which nothing in the code makes true.
- *Acquisition*. A pass runs to its end (`Runs`), a claim grows old (`GoesStale`), and grab passes
  start again and again (`StartGrab`, strongly fair, since a process is not always idle): the
  cron starts them.
- *IndexOutbox*. Dispatches and scans come again, a drain runs to its end, the volume is plugged
  back. Nobody is bound to edit the database.

### Exceptions written into the properties

What a property excepts is a limit of the code, reached in the instance.

- `NothingLeaked` speaks of attempts that were refused, undone or released. Three errors leave the
  file (`pc` "leaked"): see the smaller disagreements below.
- `BodiesMeetOnlyByTheft` excepts a worker whose file was unlinked while it lived, as
  `OverlapOnlyAfterTheft` does.
- `EveryPokeServed` excepts polls without an answer and a poke `eaten`: written between the commit
  of an earlier poke's ask and the unlink of its sentinel, when that ask's run has started already.
- `GraceRestarts` promises `FirstDelay`, and a whole debounce only where no paced ask stands in the
  memory: a longer debounce is cut at the safety net, and the window so armed may be read as a
  grace delay.

- `EveryTorrentNamed`, `GrabbedIsOwed` except behaviours where a pass was `overtaken`. The code
  has three such races: a grab slower than an hour whose claim is taken back while it still
  adds; a reconciliation whose picture of the client is older than a hash reserved since,
  which reads as vanished and is queued again, although `_grab_pass.py` (around line 254) takes
  a reserved hash absent from the client for an add that never landed; and `set_status` and
  `mark_grabbed`, which have no guard. `EveryTorrentNamed` also excepts an
  add whose answer was lost, and a release without an announced hash, unnamed from its add to
  `mark_grabbed` and for good if its pass is cut off there. `GrabbedIsOwed` is of trackers that
  have an economy, and excepts a pass cut off or refused (by the store, the client or a tag that
  names no tracker) at the write of the obligation, which nothing makes up for, although the
  comment at the same place speaks of nothing left unprotected.
- `OwnedCloses` is a leads-to and not a stability: an unguarded write may open a closed row
  again, which the next pass closes.
- `DoneIsWritten` allows a row whose handler found nothing to write to, but no complete move, and a
  row that gave way to a later one of its file which then failed or missed.
- `DrainsEnd` holds because refusals end (`MaxTrouble`): a lasting refusal of `mark_failed` would
  have a drain fetch the same row for ever.
- `InOrder` excepts two drains at once, a replay refused, a mark of a failed or superseded row
  refused, and a disk restored while a drain works.
- `AppliedOnce` and `ToldTruly` except `lapsed` and `disowned`, the residuals of `service.py`.
- `SafetyNetOverdue` excepts a supervisor that was not told of a success settled by another.

### Findings

- `lock_claim`: `acquire_lock` may unlink the file of a live process, empty between its
  creation and the write of its pid, or judged dead when it was still another's. Two global
  holders, or a run and a resolve, then proceed together. `OverlapOnlyAfterTheft` says this is
  the only way.
- `sup_zombie`: a supervisor that lost the lease polls no child; one that is killed then stays
  a zombie, `os.kill(pid, 0)` finds it, and `pipeline.lock` is held by nobody for as long as
  that supervisor lives.
- `outbox_remount`: a scan's I/O error marks a disk unmounted and forgets its path; no code
  undoes either, so what is parked for it is never replayed, although
  `docs/production/indexer.md` says it is on remount.

Smaller disagreements met on the way, which no run checks:

- "No exception path leaves `pipeline.lock` claimed on disk" (`lock.py:226`) does not hold: the write
  or the close of the pid may raise (a full disk), of which `acquire_lock` catches only
  `FileExistsError` and which comes before the `try` of `acquire_pipeline_lock`; and the unlink that
  should undo a claim may raise. An empty file is taken by the next attempt for a corrupt one; one
  with the pid in it blocks others for as long as its process lives. The probe of a resolve, made
  outside any `try`, leaves the item's lock in the same way.
- "a gone worker that left no row and never beat its heartbeat ran nothing" (`supervisor.py`)
  does not hold, because rows are written fail-soft and the first beat comes after 30 s: the
  run is started again.
- A run whose steps reported errors exits 1 and leaves a `success` row: its request is `error`
  if its parent supervisor settles it and `success` if another does.
- The delay after a completion is not always counted from the moment the client fell quiet: a
  window left by an earlier fire, expired or not, is read as the grace delay
  (`watcher.py:279`). `GraceRestarts` states what the code does keep.
- `outbox.ts:224` forgets a departure asked for during a run that then fails, though
  `outbox.ts:76` says an edge met during a run is remembered: the queue waits for another edge.

Each passing property has a mutant: a change of one mapped definition, written next to
it, that a plausible slip in the code would make and that the run catches.

## 4. Theorems

Checked by TLAPS for every value of the constants that satisfies the module's assumption:
any number of processes, requests, writes, passes, releases, rows and drains, and no bound
on faults but that it is a number.

| module | theorem | statement |
|---|---|---|
| `PipelineLockProofs` | `LockTypeCorrect` | `Spec => []TypeOK` |
| | `ExclusionUnlessTheft` | `Spec => []OverlapOnlyAfterTheft` |
| | `NoFileLeaked` | `Spec => []NothingLeaked` |
| | `ReleaseIsSafe` | `Spec => OwnersStealNothing` |
| | `LoneIsNotRefused` | `Spec => []LoneAttemptNotRefused` |
| `SupervisorProofs` | `SupTypeCorrect` | `Spec => []TypeOK` |
| | `OneTickerAlways` | `PunctualSpec => []OneTicker` |
| | `BodiesApart` | `Spec => []BodiesMeetOnlyByTheft` |
| | `SettledOnce` | `Spec => SettledIsFinal` |
| | `SuccessAlwaysEarned` | `Spec => []SuccessIsEarned` |
| `SupervisorQueueProofs` | `QueueInductive` | `PunctualSpec => []QueueInv` |
| | `QueuedIsUnworked` | `PunctualSpec => []NoWorkerOnQueued` |
| | `QueueImplemented` | `PunctualSpec => ImplementsRunQueue` |
| | `TableTells` | `PunctualSpec => []Queue!Conclusions` |
| `WatcherProofs` | `WatchTypeCorrect` | `Spec => []TypeOK` |
| | `PacesOnlyObtained` | `Spec => []PacesObtainedRuns` |
| | `GraceIsWhole` | `Spec => GraceRestarts` |
| | `SafetyNetIsOverdue` | `Spec => SafetyNetOverdue` |
| `IdempotencyProofs` | `ServerInductive` | `ServerSpec => []IInv` |
| | `OnceTheorem` | `ServerSpec => []AppliedOnce` |
| | `FirstAnswerKept` | `ServerSpec => FirstAnswerStands` |
| `WriteOutboxProofs` | `ClientOfServer` | `Spec => ServerSpec` |
| | `OutboxAppliesOnce` | `Spec => []AppliedOnce` |
| | `OutboxAnswerKept` | `Spec => FirstAnswerStands` |
| | `OutboxTypeCorrect` | `Spec => []TypeOK` |
| | `OutboxKeepsHeld` | `Spec => []HeldIsKept` |
| | `OutboxTellsTruly` | `Spec => []ToldTruly` |
| `AcquisitionProofs` | `AcquisitionTypeCorrect` | `Spec => []TypeOK` |
| | `NoOrphan` | `Spec => []EveryTorrentNamed` |
| | `GrabsAreProtected` | `Spec => []GrabbedIsOwed` |
| `IndexOutboxProofs` | `OutboxTypeCorrect` | `Spec => []TypeOK` |
| | `DoneAlwaysWritten` | `Spec => []DoneIsWritten` |
| | `DeferredAlwaysParked` | `Spec => []DeferredIsParked` |
| | `WrittenInOrder` | `Spec => InOrder` |

*Locks.* `LockInv` is the inductive invariant: an unrobbed claim owns the file of its name,
pid written once past `write` (`FileOwned`); a file was made by a user of its name that
still claims it or died (`FileMade`); and of a run and a resolve, neither robbed, not both
have passed the other by in their check (`NotBothPast`, which is the argument of the
docstring's fail-closed ordering: each wrote its file before it looked). `ScanOver`
says a holder has looked at everything. Exclusion on one file follows from `FileOwned`,
across tiers from `NotBothPast`. `LoneAttempt` is what the one process alive meets: the pids
it judges are those of the dead, and the name it creates is free.

*Supervisor.* `TypeOK` alone is not inductive: a step at `save` writes `cur`, so the
invariant (`SupType`) also says that a supervisor past a read holds a real copy, that a
verdict has been reached where it is saved, and that a process has a job. `OneTicker` needs
that a supervisor inside a tick still is the holder of a live lease; `BodiesMeetOnlyByTheft`
that a process with its lock is the one in `pipeline.lock` or was robbed; `SettledIsFinal` that every write of
a row is guarded by the state the copy was read in, so that none starts from `settled`.
`SuccessIsEarned` cannot rest on copies being current, because under `Spec` they are not. `EarnedInv`
follows the pids instead: whatever table, copy or supervisor names one, it is that of a process
started for that very request, whose exit code 0 `Vouches` for a body that reached its end; a pid is
given again only when nothing names it.

*The refinement.* A step of `Supervisor` is one of `RunQueue` only where the copy in hand tells the
truth, so `QueueInv` relates copies to rows. `OneWorker`: no two processes are on one request.
`Named`: the pid a row records is that of its own process, and what its exit code `Tells` is true.
`Judging`: the copies a tick judges are what the table still says, which is where the lease is needed.
`Grounded`: a verdict "queued" is of a request whose body never began and which has no process, "gone"
of one that has none. `Admitting`: nothing runs when a request is admitted, and until its pid is
recorded the request names nobody. `RowsTell` (a body has its row) is what fails when the insert of a
row does, and why the assumption is made. A worker's step changes neither rows nor copies (`Onward`);
a supervisor's step is taken alone, the others being outside a tick (`Alone`). The refinement adds
that what is not settled has no word (`Unsaid`) and that an abandoned request has no process
(`Abandoned`); then `SaveAdmission` is `Admit`, `SaveVerdict` and `UndoAdmission` are `BackToQueue` or
`Settle`, `BeginBody` is `Begin` since the holder of the lock is the only one in a body, the ends of a
body are `End`, and all else stutters. `TableTells` proves `Conclusions` of `RunQueue` in a few lines
and carries it over.

*Watcher.* A window and the time since the last download seen, or the last automatic ask, add up to the
first delay at least (`Apart`), to a debounce where no paced ask stands (`Fresh`), and so does the
window an ask in flight would give back: without that half `GraceKept` is not inductive, since a
refused ask puts an old window back. `PacedIsObtained` says the same of the origin and `Informed`
of the last success.

*Idempotency.* `IInv` adds two things to the types. `Holding`: at most one request holds a
claim, and the row of that claim is running. `Once`: for a write with no residual, every
request past its claim holds it, one that has not committed finds nothing applied, and a
write without a row was never applied. A second commit would need a second holder, or a row
swept or taken over under a first run that counts as `lapsed`. The theorem is about any
client; `ClientOfServer` shows, action by action, that the outbox is one, and the properties
carry over. `FirstAnswerStands` follows from `Holding`: who completes or releases a record holds it,
and then it has no answer yet.

*The outbox.* `ToldTruly` needs the server's word to be true (`Truthful`: an answer "ok" is of a write
that was applied, a final refusal of one that was not, but for the residuals, in the records as in
every answer on its way), and `HeldIsKept` that no two requests answer for one write at once
(`OneFlight`) and that what is queued or walked was sent before (`Queued`).

*Acquisition.* `AcqType` adds to `TypeOK` that a pass has a real hash where it uses one. `AcqInv`
holds until a race is lost, and its heart is `Known(p)`: what a pass with a `fresh` copy may
rely on where it stands (the claim is its own and names no torrent; it names the one it is
about to add; there is no orphan before the add). A step that writes the row makes the others
unfresh, so only the acting pass's knowledge has to be shown again, and only if it acted in
turn (`ActedInTurn`). `QueuedIsFree`, a queued row names no torrent, is what lets a claim be
made without asking the client. `Orphans \subseteq {hash}` is then kept by every action
that adds, names or unnames a torrent, a pass between the add and `mark_grabbed` of an unannounced
release apart, and `Owed` by the two that record an obligation.

*IndexOutbox.* `RowInv` says that what a batch holds for superseded was replaced by something
published, and that what `pending_op` calls replayed was handled; `DoneIsWritten` and
`DeferredIsParked` are then inductive beside it. `OrderInv` holds until something `disordered`
happens, and lays all the rows out in one line: what the index has, then what waits in
`pending_op`, then what a drain has in hand, then what is pending or unpublished. Each action
moves rows along that line (`LeastRow`, `RowLeaves`, `Settles`), so the row written is
always the least of those left.

**Assumptions.** Each module's `ASSUME`: the sets of processes, requests and pids are disjoint where
the code tells them apart, bounds and delays are numbers (positive where the code's are), and what the theorems of
`SupervisorQueueProofs` assume besides are the three things that `PunctualNext` states. Nothing is assumed finite.

**Only model-checked.** Every safety property of the passing runs is proved. What is left to TLC is
liveness, which is out of the prover's reach (`EveryRequestSettles`, `EveryCompletionServed`,
`EveryPokeServed`, `SafetyNetLives`, `QueueDrains`, `ClaimsEnd`, `OwnedCloses`, `VanishedIsNoticed`,
`DrainsEnd`, `EveryRowSettles`), and the three violations, which are counterexamples.

## 5. Not modelled

- **Dispatch transfer and crash recovery.** Merges and replacements with a backup beside the
  target, and a sweep that deletes what an interrupted one left. A crash between two renames
  is a real hazard (`PROJECT.json` lists it) and the first candidate for a further module.
- **Circuit breaker.** An automaton of three states in the memory of one process; the next one.
- **Seed obligations past their recording**: satisfaction, release after an absence, the
  permit to delete, which by design allows on any error.
- **Event bus, cache, cross-seed children, ingest, trailers, scanner and repair**: I/O and data
  within one process; what other components read of them (a child's exit code, the ingested
  list, a disk's mount state) is in `Watcher` and `IndexOutbox`.
- **Sort, scrape, process, verify, enforce**: they transform names and metadata inside one run and
  interleave with nothing.
- **Maintenance runners and decisions**: present as holders of the locks only.
- **Accounts and other request-scoped services, HTTP, provider clients, push, subscribers,
  configuration, texts, the rest of the frontends, scripts**: one transaction each, or
  translation and wording.

## 6. Plan

1. `DispatchTransfer`, then `CircuitBreaker` and the sweep of seed obligations, each with its
   theorems.
2. What `Spec` keeps of `RunQueue` when a tick outlives its lease or a body has no row, stated as a
   weaker abstract queue that `Spec` implements.
3. A refinement of the lock as `Supervisor` takes it (made, refused, stolen) by `PipelineLock`.
