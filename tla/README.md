# A formal model of cworker

cworker runs commands on Windows machines of a local network. A *worker* process on each machine keeps jobs,
their logs and a file service; the *client* (`cw`) starts, follows, kills and cleans jobs, copies files between
machines and updates the program. This directory holds TLA+ modules for the parts where many actors
meet, TLC configurations that check them on small instances, and theorems that TLAPS proves for every size.

    tlasany M.tla                       parse a module
    tlc -config X.cfg MCModule.tla      model-check (the table under "Runs" has the pairs)
    tlapm MProofs.tla                   check the proofs of a module

1. [Inventory](#1-inventory) · 2. [Modules](#2-modules) · 3. [Runs](#3-runs-and-what-they-show) ·
4. [Fairness](#4-fairness) · 5. [Proofs](#5-proofs) · 6. [Findings](#6-where-the-code-and-its-documentation-disagree) ·
7. [What is left out](#7-what-is-left-out) · 8. [Plan](#8-plan)

## 1. Inventory

### Worker side

| Component | State | Operations | Interacts through |
|---|---|---|---|
| `ManagedJob` (pkg/process/runner.go) | `info` under `mu`, `watchdogConnected`, done channel, log file, job object, `job.json` | `StartJob`, `waitExit`, `Kill`, `WaitExit`, `SaveJobMeta`, `LoadJobMeta` | process and pipe, disk, Broadcaster |
| Job table (pkg/worker/worker.go) | `Worker.jobs` under `Worker.mu`; directories under `DataDir/jobs` | run, kill, list, clean (one, all, days), hydrate, `StopAllJobs`, grace timer, `handleEphemeralDisconnect` | HTTP requests, one goroutine each; WebSocket streams |
| Log stream (pkg/logstream, `handleStreamLogs`) | subscriber map under an RW lock, one channel of 256 chunks per subscription | `Write`, `Subscribe`, unsubscribe, `Close`; history, follow, watchdog loss | copier goroutine, `waitExit`, viewers |
| File service (pkg/fsengine, fs handlers) | the file system; temporary files | upload, download, list, mkdir, rm, copy, hash, cat with slices | streamed HTTP answers with progress lines |
| Instance lock, Windows service (pkg/process, cmd/service.go) | a named mutex; the service's state | acquire, start, stop | service control manager, updater |
| Token (`LoadOrCreateToken`) | token file and environment | load, create, refresh | every authenticated request |

### Client side

| Component | State | Operations | Interacts through |
|---|---|---|---|
| Foreground run (cmd/run.go) | the command's progress and its exit code | dispatch, stream as watchdog, Ctrl-C, query, clean | the worker's handlers |
| Cluster client (pkg/client/client.go) | `nodes.json` | resolve a node, list all, find or kill a job on any node | concurrent requests to all nodes |
| Transfers (client.go, transfer.go, progress.go) | pool of workers, channels, progress counters | upload, download, relay, directories, hash comparison | file services of two workers |
| Updater (pkg/updater, cmd/update.go) | executable and its `.old` | fetch, compare versions, check jobs, download, verify, replace, restart | release server, service, worker |
| Web console (pkg/ui), command line | - | a front for the client's calls | browser |
| Pure helpers (pathutil, netutil, slice.go, `CompareSemVer`) | none | normalise paths, choose proxies, slice lines, order versions | - |

### What is hard here, and what correct means

- **One job, many hands.** A kill request, a shutdown, the grace timer, the watchdog's loss and the natural exit settle
  the same job; none of them holds a lock for its whole course. Correct: one outcome, never rewritten; memory and
  `job.json` agree; a RUNNING job can be reached and has a goroutine that will settle it; clean never takes it.
- **The start is not atomic.** The directory, the process, the record and the table entry appear one after the other.
- **Errors that nobody looks at.** A save of `job.json`, an assignment to a job object and a termination may fail, and the code goes on
  all the same. Correct: an outcome that was saved stays, and what such a failure can leave wrong is known exactly.
- **The worker dies.** It may crash at any step, and a shutdown has a time limit. The kernel then kills the processes;
  records on disk stay RUNNING and the next start heals them. Correct: the promises of `JobLedger` hold across lives.
- **Files that are open cannot be deleted** (Windows). A wipe that comes too early leaves files, which come back later.
- **Streams.** History and live output are read from two places; channels are bounded; viewers stall, leave, or come
  when the job is just ending. Correct: order, a precise account of what may be lost, no panic, nobody waits for ever.
- **The foreground client** talks to the worker in five separate calls with others in between. Correct: its
  exit code, no orphans, nothing left after `-wc`, it returns.
- **Transfers** join two machines, many goroutines and the user's Ctrl-C. Correct: "ok" means that everything is there (section 6 has the one exception); a
  damaged file is not put in place by the client; the error shown is the cause; the command returns, and quietly.
- **Answers that are streamed** (rm, hash) share one response between two goroutines, or two responses one tracker.
- **Small files that many write** (`nodes.json`, `job.json` under two worker processes): read, change, write, without a lock.
- **The update** replaces the program it runs from and restarts the service whose jobs it may kill.

Every hazard, with its line and the property that looks after it, is in `PROJECT.json` under "hazards".

## 2. Modules

    JobLedger     <--implements--  JobLifecycle  <--uses (one client)--  RunClient
    LogStream
    CopyContract  <--implements--  Transfer
    Host          <--uses--        SelfUpdate
    FsRemove   FsDiff   TextSlice   NodeLedger   JobSearch

| Model-checked through | Proofs |
|---|---|
| MCJobLifecycle, MCRunClient | JobLifecycleProofs, JobRecordProofs, RunClientProofs |
| MCLogStream | LogStreamProofs |
| MCTransfer | TransferProofs |
| MCCommands (FsRemove, FsDiff, TextSlice, NodeLedger, JobSearch) | CommandProofs; TextSliceProofs for TextSlice |
| MCHost (Host, SelfUpdate) | HostProofs |

### JobLifecycle: the jobs of one worker

A job's identifier is random and used once, so a member of `Jobs` is started at most once. `disk` survives the worker;
everything else is its memory.

| Variable | Code |
|---|---|
| `worker` | up; `stopping` while `StopAllJobs` runs; `draining` in `server.Shutdown`; down |
| `registry` | keys of `Worker.jobs` |
| `sweep`, `swept` | a bulk clean that holds `Worker.mu` between its two passes, and `cleanedDirs` |
| `stopping` | the rest of `StopAllJobs`' snapshot |
| `busy` | is a request for logs or files being answered, for which `server.Shutdown` waits |
| `run`, `req` | how far `handleRunJob` has come, and what the request asked for |
| `info`, `waiter`, `proc` | `ManagedJob.info`, the `waitExit` goroutine, the operating system's process: `running` in its job object, `loose` outside, `dying` or `spared` after `Terminate`, or how it ended |
| `seen` | `watchdogConnected` |
| `killers` | `handleKillJob` calls between their lookup and their `Kill` |
| `guard` | progress of the grace timer and of the watchdog stream's disconnect |
| `disk` | is the directory there, the log, and what does `job.json` say |
| `unsaved` | history variable: jobs whose last save did not reach the disk |

One action is what happens under one lock or between two points where another goroutine can run:
`StartOpen`, `StartFail`, `StartLaunch`, `Register` are `handleRunJob` with `StartJob`; `WaitExitSave`, `WaitExitRelease`
are `waitExit`; `KillLookup`, `KillApply` are `handleKillJob`; `TimerFire` or `WatchdogLost`, then `GuardKill`, `GuardDrop`,
`GuardWipe` are the two ways to clean on disconnect; `CleanOne`, `SweepRegistry`, `SweepDisk` are `handleCleanJobs`;
`StopBegin`, `StopKill`, `StopDrain`, `StopExit` are the shutdown; `Crash` and `Boot` are the death and `hydrateJobsFromDisk`.

`Faults` names what may go wrong on the machine without the code noticing. "write": `job.json.tmp` cannot be written or `job.json` not be
replaced, and the old record stays. "replace": the old one is removed to make room and the second rename fails, too, so that
none is left; a crash between the two leaves the same. "assign": `OpenProcess` or `AssignProcess` fails and the process is `loose`, out of
reach of `Kill` and of the worker's death. "terminate": `TerminateJobObject` fails and the process is `spared`. "stall": a
request takes as long as its client likes (`RequestBegins`, `RequestEnds`). `Terminate` returns before the process is gone (`dying`,
`ProcDies`).

Abstractions: an exit code is 0, -1 or "another one" (1). Time is the nondeterministic
choice of when a timer fires. "Old enough" for `--days` is any set of jobs, except that a directory that has just been
made is not old. `os.RemoveAll`, the job object and the kernel are external and follow Windows: an open file stays with its
directory, and closing the last handle of a job object kills its processes. `SlowExits` says whether a killed process may
outlast the 3 s for which a wiper waits in `WaitExit`; `Viewed`, whether some request may have `output.log` open for reading at
the moment it is removed (`handleGetLogs`, the history of a stream), which keeps the directory, too.

`JobLedger` is the abstract specification: an entry per job and the moves it may make. `LedgerIsKept` says that
`JobLifecycle` implements it, with `View` as the refinement mapping: what the worker that manages the job says, else what
the files say.

### LogStream: the output of one job

Chunks are numbered. The copier gives each to `output.log` (`WriteLog`) and then to the broadcaster (`Broadcast`);
os/exec runs one copier, as stdout and stderr are the same writer. A viewer goes through `SendHistory`, `CheckStatus`,
`Subscribe`, `Deliver`, and ends by `EndOfStream` or `NoticeGone`, in which a watchdog's loss kills the job; both
run the deferred `Unsubscribe`, whose test of the subscriber map is what keeps it from closing a channel that `Close` has closed;
`StreamFromDisk` is the answer for a job that is no longer in the table. Clients may leave (`Disconnect`) and may stop reading
(`Stall`). History variables `hist`, `since`, `missed` record what a viewer was sent as history, where its subscription
began (`Never`, if there is none) and what met a full channel, so that `InOrder` and `NothingElseIsLost` say exactly which output is lost or doubled.
`Cap`, `Whole` and `Recent` are 256 chunks, 64 KB and 200 lines in the code. Repairing UTF-8 across chunks is left out.

### RunClient: `cw run -w` and `-wc`

Extends JobLifecycle by one client: `phase` is where `RunE` stands. Each call to the worker is answered by the
worker's own action (`Dispatch` is `StartOpen`, `SendKill` is `KillLookup`, `Clean` is `CleanOne`), refused (`CallRefused`) or
lost (`ConnectionBreaks`); `CallFails` holds what the command makes of an error in each phase. `Attach` is not tied to
`following`: the request may arrive after the client has given up. The machine, the worker's goroutines, other clients
(`Others`), Ctrl-C and the client's own death interleave. `result` remembers how the command really ended, `meddled` whether
anything disturbed the run. `listed` says whether nodes.json has the node: without `-n` on a machine that it does not list,
the dispatch goes by `ResolveWorker`'s fallback to 127.0.0.1, while every later call names the node and ends with "not found in known nodes
ledger" (`Refused`).

### Transfer: `cw cp`

One command from `Transfer` (pkg/client/transfer.go) to its return: local, download, upload or relay, a file or a tree.

| Variable | Code |
|---|---|
| `mode`, `tree`, `source`, `dirs`, `into`, `pool` | the command, what the source holds, whether the target is a directory, `--concurrency` |
| `phase`, `nested`, `made`, `todo` | where the command stands: probing both ends, making directories, the pool; the loop's rest |
| `ctxDone`, `interrupted`, `firstErr`, `result` | the pool's context, Ctrl-C, the error kept under `errMu`, the return |
| `cl` | per file, the goroutine of the pool (or the call for a single file) |
| `sv`, `tmp`, `dst` | per file, `SaveStreamWithValidatorContext`, its `.cwsave` file and the target |
| `totalFiles` ... `activeFiles` | `ProgressTracker` |

`ProbeLocal` ... `ProbeRelay` are the four ways to look at the ends; `DirFunction` is what makes `CopyDir`, `UploadDir`, `DownloadDir`
and `RelayCopyDir` different; `Feed`, `Start`, `Open`, `Leave`, `Return` are the pool they share; `ReadAll`, `ReadDamaged`, `CopyBreaks`,
`Commit`, `CommitBlocked`, `CommitFails` are SaveStream, which runs in the client or in the target's worker; `SavedHere`, `Reply` and
`Undo` are what the client makes of its end. A file's content is "absent", "old", "bad" or "new". Any of these steps may
fail, the connection break, the worker crash, the client be killed.

`CopyContract` is what the command promises, without how: targets may change while it runs or if it fails; after "ok" nothing is missing
and each source file is at its target for good. The exception is a `bare` tree, one without a file or a subdirectory: the error of making its root is
ignored by the remote copies (`RootNotMade`), so that "ok" may leave nothing there. `CopyIsKept` is the refinement.

### FsRemove, FsDiff, TextSlice, NodeLedger, JobSearch: the other commands

- **FsRemove** is `cw rm`: `RemoveWithProgress`, with its ticker goroutine that shares a counter and, behind `handleFsRemove`, the
  response with it. Either's line may get lost in the other's (`Overlaps`), and a body that ends without a last line is a success.
- **FsDiff** is `cw diff`: two goroutines follow two `HashStream`s, files may grow while they are hashed, `AddBytes` and the entry's own
  count meet in one tracker, a stream may be cut, the first error cancels the other side, the lists are compared.
- **TextSlice** is pkg/fsengine/slice.go and the worker's `tailFile`: line ranges, head, tail and the log's history read in buffers
  and chunks of a few bytes from a file that may be growing. A file is its size and the places of its line ends and of the bytes that do not
  begin a character; the reference definition is the set of offsets that belong to the wanted lines. `served` is a worker that writes through
  `utf8Writer`: a piece cut within a character is decoded as a whole as text of the code page (`Altered`, `spoilt`).
- **NodeLedger** is `nodes.json` between `SaveKnownNode` and `RemoveKnownNode` of several commands: load, open (which empties the file), write.
- **JobSearch** is `findJobWorker` and `cw kill` without a node: all nodes are asked at once, in memory first and then on disk; answers are
  late or lost, two names may lead to one machine, the job moves meanwhile.

### Host and SelfUpdate: two worker processes and `cw update`

**Host** has the Windows service and a console worker over one data directory: `Launch`, `HydrateRead`, `HydrateHeal`, `Made` are `NewWorker`;
`Lock`, `Listen`, `StartFails` are `Start`; `Stop`, `StopKill`, `Exit`, `Crash` the end. What JobLifecycle says of one worker's jobs in
detail is here a few steps: `StartJob` (directory and log), `Started` or `NotStarted`, `Register`, the exit, the kill. `record` is what the
directory holds: a `job.json` that is `RUNNING`, `ended` or `healed`, or none that is whole (`bare`), for which hydration makes up a STOPPED
one. Both processes write it, every save may fail (`SaveJobMeta`), and a read may fail although the record is there (`misread`).

**SelfUpdate** runs `cw update` on such a machine: `Fetch` (with `CompareSemVer`), `CheckRunningJobs`, `Download`, `VerifyChecksum`, then
`PickTarget`, `WriteBegins`, `WriteEnds`, `PlaceFirst`, `ClearOld`, `MoveAside`, `Place`, `Tidy` for the deployed copy and for the one that runs, and
`RestartStop`, `RestartStart`. It fails or dies at any step (`UpdateEnds`) and is tried again. `UpdateSpec` implies `HostSpec`.
Files are "first" (what was there), "newer", "stale" (not higher than the updater's own version), "damaged" or "partial".

### Seeded faults

A definition whose comment begins with "Seeded fault" is not reachable from any specification. It is a plausible wrong version
of the definition that follows it (a test dropped, an order swapped). Put in its place, TLC finds the named property
violated; `PROJECT.json` lists the pairs under "mutants". They show that each property can fail.

## 3. Runs and what they show

| Run (module, cfg) | Bounds | Distinct states | Shows |
|---|---|---|---|
| lifecycle (MCJobLifecycle, JobLifecycle) | 1 job, all requests, cleans `one` and `days`, all faults | 187,140 | reachability, record = memory, no orphan record, status tells the truth, outcomes final, plain jobs spared, JobLedger implemented; kills are reaped, `-w` jobs without a client end, dropped jobs are wiped, shutdown ends when its requests do |
| lifecycle_two (MCJobLifecycle, JobLifecycle_two) | 2 plain jobs, cleans `one` and `days`, Viewed, failing saves | 4,738,518 (with symmetry) | RUNNING jobs keep their record and log |
| log_stream (MCLogStream, LogStream) | 2 viewers (1 watchdog), 3 chunks, channel 1, history 1 | 502,930 | channels never panic; order; exact losses; nobody is held up; streams end; a lost watchdog is noticed |
| run_client (MCRunClient, RunClient) | 1 job, `-w` and `-wc`, node listed or not, all others may meddle, SlowExits, failed assignments | 410,130 | exit code of a quiet run; clean after the stream is complete; the job ends with its client; the command returns |
| transfer (MCTransfer, Transfer) | 2 files, 1 subdirectory, pool 1 and 2, all four directions | 274,107 | the copy contract, no damaged target, the reported error is the cause, the tracker adds up, nothing is written afterwards; the command returns, temporary files go |
| commands (MCCommands, Commands) | rm: 3 entries; diff: 2 paths, sizes 1 and 2, 2 files; slices: 6 bytes, characters of any length, buffers of 2; ledger: 2 names, 2 writers; search: 3 names, 2 machines | 2,696,458 | "removed" and its counts, "same" and "different", the hashed bytes, lines and history, the ledger, the search |
| host (MCHost, Host) | 2 processes, 1 job, 2 ports, 4 versions, 2 updates | 5,170,828 | outcomes survive starts, a binary survives updates, known jobs are spared |
| lifecycle_clean_all, run_client_exit, run_client_clean, transfer_inside, host_heal | 1 job or 1 file | - | violations, section 6 |

Why these bounds are enough to be of interest.

- JobLifecycle: unbounded are only the number of jobs and,
  per job, the number of concurrent kill requests (a second one finds the job settled, so one at a time shows all outcomes,
  and a new one may follow at once). Each job's interleavings are complete with one job: every goroutine,
  request, crash and restart, any number of times. Jobs meet only in the bulk clean and in the shutdown's snapshot,
  which is what the second job is for; both treat all jobs alike, and two jobs can already be in different phases. Symmetry is used there
  only, and that run has no liveness property. The ledger is checked without `clean --all`, whose race with a start is a
  finding of its own (section 6). The lifecycle run has SlowExits and Viewed = FALSE because `DroppedIsWiped` needs it
  (section 4); with both, the safety properties are proved (section 5), run_client has SlowExits, lifecycle_two has Viewed.
  No passing run has `clean --all`; the theorems of JobLifecycleProofs hold with it. One request at a time
  is `busy`: what counts is whether there is one.
- LogStream: a channel of one slot is full after one chunk, three chunks leave one
  before the history, one in the gap and one after it, and a history limit of one makes the log "long". Two viewers are
  needed for the shared map; they do not otherwise interact. The bound `Chunks` is the only cap on a counter.
- Transfer: goroutines meet only in the semaphore, the context, `firstErr` and the tracker; two files have them all, with a pool of one
  (the second must wait, or is never fed) and of two. One subdirectory is one more than the root, which is treated apart. Nothing is capped.
- Commands: three entries make a directory within a directory; a size of `Large` reports progress and a smaller one does not; six bytes are three
  buffers and more lines than a request can name; two writers are one race; of three names two share a machine.
  `MaxFiles`, `MaxSize`, `MaxLines` bound the inputs. The commands share nothing, so a behaviour of MCCommands is one of them alone.
- Host: two ports are the same port or another one, four versions hold a numeric order that text would get wrong ("1.10"), a missing
  part and a pre-release. `MaxRounds` bounds the updates: two, the second on what the first has left. `MCSpec` has
  two kinds of behaviours, two updates without workers and one among workers, as the product is needlessly large; the proofs are about all of them.

CHECK_DEADLOCK is off where a job or a command comes to its end (LogStream, RunClient, Transfer, Commands) and in Host.cfg, where
the updates are counted. It is on for JobLifecycle, where a worker can always be started again, or crash.

Type invariants are parts of the proved inductive invariants (section 5); the runs spend their time on the other
properties.

## 4. Fairness

- Steps of goroutines that wait for nobody are weakly fair (`WaitExitSave`, `KillApply`, `SweepDisk`, `CloseBroadcaster`, ...):
  the Go scheduler runs what can run. `WaitExitSave` is enabled only once the process has gone; that the command ends by itself is
  never assumed.
- Steps that take `Worker.mu` (`Register`, `TimerFire`, `GuardDrop`, and the client's calls in RunClient) are strongly
  fair: bulk cleans may take the lock again and again, and sync.Mutex and RWMutex do not starve a waiter.
- `ProcDies` is fair: the kernel ends a process that it has been told to end. A process that `Terminate` did not reach may run for ever,
  and the liveness properties say so. `StopDrain` is fair, as `WaitExit` has its deadline of 5 s.
- Not fair: requests of clients and `RequestEnds`, the process's own exit, crash, `Boot`, Ctrl-C, disconnects, stalls. A viewer that reads goes on reading; one that
  does not is `Stall`ed, which may happen at any time.
- RunClient: an answer or a refusal arrives in the end (requests have a 30 s limit), and a broken connection is noticed:
  TCP keep-alive is on by default in net/http.
- Transfer: the client's goroutines and every saver go on (`ClientStep`, `SaverStep`). One fairness condition for the whole client is
  enough, as each of its steps goes forward; it is weak, as some goroutine can always move until the command has returned.
  A copy's bytes arrive or the stream breaks: TCP and the limits of the requests; local reads end.
  Ctrl-C, crashes and broken connections are not fair.
- FsRemove, FsDiff, TextSlice, NodeLedger, JobSearch, Host and SelfUpdate have no liveness property and no fairness.
- `server.Shutdown(context.Background())` has no limit, and the server no write timeout: a client that does not read its answer keeps the worker from ending.
  `StopCompletes` therefore claims the way to "draining" without condition, and the end only if no request goes on.
- `DroppedIsWiped` is checked with SlowExits and Viewed = FALSE: if a killed process takes longer than 3 s to die, or the
  log is being read at that moment, the wipe meets an open log and the directory does stay, as nobody tries again.

## 5. Proofs

All are theorems about the specifications of the modules, for any constants that satisfy the named assumptions; the runs check instances of
them (MCCommands and MCHost: restrictions).

**JobLifecycleProofs.** `TypeCorrect`; `Invariant`: `Spec => []IInv`. Reachability alone is not inductive: a guard
that is "dropping" must be known to come after the kill, which ties guards to statuses (`GuardsMatchJobs`);
that nobody leaves RUNNING unsettled needs the goroutine (`GoroutinesMatchJobs`); that hydration does not resurrect
a job needs what is on disk for each phase (`FilesMatchJobs`) and that a dead worker has nothing in memory (`DownIsEmpty`). Saves,
assignments and terminations may fail at any time (`SaveEffect`, `KillEffect` are what is left of one); `unsaved` is the exact excuse. From
`IInv` follow `Reachable`, `RecordAgrees`, `NoOrphanRecord`, `Truthful`, and, step by step, `OutcomeFinal` and
`PlainSpared`.

**JobRecordProofs.** With `"all" \notin CleanModes` (an assumption of the theorems, needed because of the finding below):
`RecordsProtected` through `RecordInv`, which adds that an open log is on disk; and `LedgerImplemented`, the refinement:
`StepMoves` shows that each step moves each job as JobLedger allows or leaves it. An entry of the ledger is what the worker says of a job and
what its record says, as they come apart when a save fails: an outcome that only memory has is lost with it, and the record of the
start is healed; an outcome on record never changes. `GoneForGood` is what a user gets from it: a job
that is gone from memory and disk stays so through late saves, crashes and restarts.

**LogStreamProofs.** `StreamInvariant` for any set of viewers, any output length and any capacity. `InOrder` is inductive
only with `SourceInv` (a chunk still to be broadcast can be in a stream only as the end of its history), which needs
`CopierInv` (one chunk at most is between log and broadcaster); `NothingElseIsLost` needs `SubscriptionInv` (a stream
that ended by itself has seen the broadcaster closed, after which nothing is pending, or the job's end, before it subscribed);
`NoSendOnClosed` needs from it that a channel in the map is open and that `Close` leaves the map empty. `ChannelsSafe`, `OutputInOrder`,
`OutputComplete` are read off it.

**RunClientProofs.** `RunIsWorker`: `RunSpec => Spec`, so all of the above holds of every foreground run, with its other clients,
crashes and lost connections. `CleanIsComplete` (with `~Viewed`) rests on `FollowInv`: a stream that ended by itself has seen `waitExit`
done, so nothing holds the log, and no step brings the directory of such a job back. `QuietRunIsAligned` rests on
`QuietWorker` (only `waitExit` settles the job, with the command's exit code) and `QuietClient` (the client sees the
job until it has read that code, or, on a node that is not listed, has 1). `ClientTypeCorrect` is the client's type invariant.

**TransferProofs.** For any set of files, any tree, pool and direction. The contract is not inductive: that "ok" is final needs that a file whose
goroutine has counted it has a saver at rest, and that every goroutine is over when the pool returns. The inductive
invariant `IInv` is, besides the types, in four parts. `Flow`: who may run in which phase, what is still to feed. `Saves`: which stages of a file's goroutine and
saver go together, and, when the client saves itself, that a writing saver is under its goroutine's eyes (`OwnSave`). `Errors`: why the
context is done. `Tracks`: what the tracker counts. From it: `CopyKeepsContract` (the refinement), `DamageStaysOut`, `FirstErrorIsTheCause`,
`TrackerEndsAtRest`, `NothingWrittenAfter`, `TransferTypeCorrect`. `Roots` adds that the root of a tree is made whenever anything
was put into it, which leaves the bare tree as the only exception (`NothingIsMissing`). Assumed: `Files` and `Dirs` are finite, no subdirectory is called as the root.

`LandsInsideElsewhere` marks the limit of the finding transfer_inside: a copy of a file, and any copy on one machine, does land inside;
only a remote tree depends on the listing (`Lands` ties `nested` to `into` from the probe on).

Of `TransferEnds` everything but the fairness rule is proved. `EveryStepAdvances`: what there is left to do is five sets (answers to
await, directories to make, files to feed, stages of goroutines, stages of savers); no step adds to one of them, whatever breaks, and a step of
the client or of a saver takes something away. `LittleIsLeft`: they are finite. `TransferIsNeverStuck`: until the result is there, the
guard of some step of the command, a goroutine or a saver holds. Its `StuckInv` is the point at which a hang would show: a goroutine waits
for a saver only while that saver is at work or its answer, or its loss, is there to be noticed. `ENABLED` is not in the theorem; that these guards
imply it can be read off the actions.

**CommandProofs.** A type theorem for each command, and `LedgerIsExact` (an undisturbed file has one writer, who has loaded what it should hold), `SearchIsTruthful` (what an answer
on its way says was true of the job unless the job has moved), `RmIsTruthful` and `RmCountIsHonest` (the counter is one behind what is gone
between removal and addition, and a reported count never ahead of it), `DiffIsTruthful` (a list is what the stream has sent of the scanned files, and
a side that is "ok" has sent all).

`HashedBytesAreExact` is about sums over files, without induction: the size of a side is the number of its *blocks* (`Blocks`, pairs of a file and
a number up to its size), so that sums are cardinalities, and one more file is a disjoint union (`BlocksAdd`). `TallyInv` says where the
bytes are at each moment: those of the files in the lists, and those `AddBytes` has counted of the file each side is at, which its entry
later corrects. Assumed: `Paths` is finite.

**TextSliceProofs.** `SlicesAreExact` and `HistoriesAreExact`, for files, buffers, chunks, limits and requests of any size, while the
file grows. The scans are steps, so they need an invariant and no induction over the file. Line numbers are cardinalities of sets of
line ends (`EndsAdd`, `LineOfBetween`). `SliceInv` says how far each scan has come: a forward scan has counted at least the lines before its place
and, in a file that does not grow, exactly those (`ForwardFits`); what is copied reaches to its place without a gap
(`Gathered`); a backward scan has counted the line ends from its offset on (`BackwardFits`), and stops where the wanted lines begin (`CopyFits`).
`TextInv` is about what `utf8Writer` alters: a piece begins and ends within a character only where a full buffer was cut (`Overfull`), as
lines end between characters.

**HostProofs.** `OutcomesSurvive` (nobody heals a record it has not found RUNNING, missing or unreadable; `SaveOutcomes` is what a save that may fail leaves), `UpdateIsHost`, `HostTypeCorrect` and `UpdateTypeCorrect`, `KnownJobsSpared` (a job that runs in the table of
the instance that was asked has entered it later), `BinariesSurvive` (between `MoveAside` and `Place` the binary is the .old; the lemma
`AboveIsHigher` shows that `CompareSemVer` orders numeric versions). `VersionsAssumption` (three parts, numbers below 100) is there for
`Weight`, the reference order, only.

`LoneHealIsTrue` and `LoneOutcomesLast` mark the limit of the finding host_heal: as long as no two worker processes are there at once
(`Alone`), a start heals only records of dead jobs and a saved outcome stays, but for a read of it that fails. The hypothesis is one about behaviours that the code cannot
guarantee: it is the instance lock, had it been taken before hydration. They rest on `LoneInv` (a job in memory has a process that serves it,
so one that hydrates finds nobody's).

Only model-checked: the liveness properties (fairness and ENABLED are out of the prover's reach), which are `KilledIsReleased`,
`UnwatchedJobsEnd`, `DroppedIsWiped`, `StopCompletes`, the last three of log_stream, `JobEndsWithClient`, `CommandReturns`, `TransferEnds` and
`TempsAreRemoved`; and what needs an instance to be shown wrong (section 6). Every invariant and action property of a passing run is a theorem.

## 6. Where the code and its documentation disagree

| Run | What happens |
|---|---|
| lifecycle_clean_all | `clean --all` protects RUNNING jobs by the table, which a job enters only after `StartJob` has returned. A scan in between deletes the record of a running process. |
| run_client_exit | `Kill` leaves the exit code 0 and `cw run -w` returns it: a job killed by someone else looks like a success. |
| run_client_clean | Ctrl-C of `cw run -wc` kills and cleans at once. The open log keeps the directory, clean answers success all the same, `waitExit` saves the record again and the next start lists the job. `CleanAfterStreamLeavesNothing` shows that the normal path is free of this. |
| transfer_inside | Whether the target is a directory is asked by listing it; a listing that fails counts as "no directory", and `cp -r` then writes over the directory instead of into it. `LandsInsideElsewhere`: no other copy does. |
| host_heal | A second `cw worker` heals, that is marks STOPPED, the running jobs of the first before it finds the instance lock taken. `LoneHealIsTrue`: with one process at a time that cannot happen. |

What the properties deliberately do not claim, as the code does not give it and no document promises it:

- A save of `job.json` that fails is ignored. The record of the start may stay beside an outcome that only memory has; after a crash the
  job is healed to STOPPED, whatever it was (`unsaved`). The comment of hydrateJobsFromDisk ("the old process has been killed by the job
  object", worker.go:168) does not hold for such a record, nor for a process whose assignment failed: it may still run.
- "No orphans" (README) holds for processes that a kill reaches. `JobEndsWithClient` and `KilledIsReleased` say so; the errors of
  `OpenProcess`, `AssignProcess` and `Terminate` are ignored.
- A hydration that cannot read a `job.json` writes STOPPED over it, the outcome of a finished job included (`misread`).
- A shutdown waits for every request that is not a stream, without limit (worker.go:264).
- `cw run -w` without `-n`, on a machine that nodes.json does not have, dispatches (client.go:185) and can then neither follow nor query the job
  (client.go:862): it exits 1 although skills promise the command's exit code (.agents/skills/cworker/SKILL.md:33). Its job, unwatched, ends by the grace timer.
- Output that a job writes after its history was sent is not sent if the job ends before the handler tests its status (worker.go:879), as it is
  not if it comes before the subscription.
- client.go:1772 says that empty directories are kept without fail. Subdirectories are; the error of making the root is ignored (client.go:1776, 1932, 2073).
- `cw logs` and `cw cat` through a worker may alter a character, and the piece around it, that a buffer of 32 KB cuts, in lines or texts longer than
  that, or the end of a file that is just growing (`TextIsKept`).
- The grace timer tests for a watchdog and then kills, in two steps; a watchdog that connects in between loses its job.
- An upload or a relay that fails in its comparison deletes the target, the old content included; while an upload runs, the target may be damaged.
- The last line of `cw rm` can be lost to the ticker's, with the error in it, and the command then reports success (`raced`).
- When a side of `cw diff` fails, exit code 2 may come with the message of the side that was only cancelled. A diff of two single files
  compares contents only. A file that grows while it is hashed has its old size and its new hash.
- A line that grows while it is read counts, and may be printed, as two.
- Writers of `nodes.json` that meet lose entries, or all of them: a ledger that is found empty or corrupt is written anew.
- A pre-release part counts as number 0 in a version.
- An update asks the default port only, and counts no answer as "no jobs"; a job that starts after the check is killed.

## 7. What is left out

- Reads without effect: health, list, overview, metrics, stat and ls; command line parsing, printing, the web frontend.
- `cw mv`, one rename on the target's machine. The web console, which makes the client's calls for a browser.
- Building the shell command, discovering shells and decoding console output; path and proxy helpers, exclusion patterns: data.
- Authentication: one comparison per request, no protocol state. UDP discovery, which only offers names and addresses.
- The process tree: the model has one process per job. A process outside its job object is modelled; a child that was started before
  `AssignProcess`, or keeps the output pipe after its parent's end, is not.
- `SaveJobMeta`'s own steps: it is one step with four ends (done, old record kept, none left, no directory). A crash between its fallback's
  removal and second rename leaves what the third leaves.
- `clean --all` in a passing run: its race with a start is a finding, and everything else of it is proved (`Invariant` and what follows).
- Reads of `job.json` that fail during hydration are in Host, not in JobLifecycle's `Boot`.
- The isWatchdog test of the stream handler (worker.go:928) in JobLifecycle, which has no ordinary viewers; LogStream has them.
- Log text that is not UTF-8: it is decoded as of the code page as it should be.
- Speed and remaining time in the progress line.
- Service installation (which copies the binary without a temporary file) and firewall rules: administration of the operating system.
- Two updates at once; they share .download and .old without a lock (a hazard without a property).

## 8. Plan

Done, in this order: the job life cycle with JobLedger; the log stream; the foreground client; transfers with CopyContract; the other
commands; the worker processes and the update; the proofs of each.

What would add most next:

1. `SaveJobMeta` step by step with crashes in between, as a refinement of the one step of JobLifecycle and Host.
2. Two updates at once in SelfUpdate, and `serviceProgram`'s installation among them.
3. The premises of the other liveness properties (what is left gets less, somebody can go on), as for `TransferEnds`: first `cw run`'s
   return and the end of a shutdown.
4. Liveness of the other commands (`cw rm`, `cw diff` and the search return), with the fairness of their requests' limits.
5. Host composed with JobLifecycle itself instead of its summary of a job, for one port and one job.
