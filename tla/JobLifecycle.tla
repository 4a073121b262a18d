---------------------------- MODULE JobLifecycle ----------------------------
(***************************************************************************)
(* The job side of one worker node: pkg/worker (job table, run, kill,      *)
(* clean, watchdog, shutdown, start-up hydration) together with            *)
(* pkg/process (ManagedJob, its waitExit goroutine and job.json).          *)
(*                                                                         *)
(* A job identifier is drawn at random by handleRunJob and is used for one *)
(* job, so a member of Jobs is started at most once.  What survives the    *)
(* worker process is "disk"; everything else is its memory.              *)
(*                                                                         *)
(* A definition whose comment starts with "Seeded fault" is not part of    *)
(* the model: it is the wrong version of the definition after it that the  *)
(* property it names must detect.                                          *)
(***************************************************************************)
EXTENDS Integers, FiniteSets

CONSTANTS
  Jobs,        \* job identifiers
  Kinds,       \* the run requests clients make, a subset of RunKinds
  CleanModes,  \* the clean requests clients make, a subset of AllCleanModes
  SlowExits,   \* may a killed process outlast the 3 s WaitExit of a wiper?
  Viewed,      \* may a request be reading output.log when it is removed?
  Faults       \* what may go wrong on the machine, a subset of AllFaults

RunKinds == {"plain", "watched", "ephemeral"}   \* cw run, run -w, run -wc
AllCleanModes == {"one", "all", "days"}         \* cw clean <id>, --all, --days
\* job.json cannot be written, or not be replaced; a process does not get into
\* its job object; a job object is not terminated; a client is slow to read.
AllFaults == {"write", "replace", "assign", "terminate", "stall"}

ASSUME KindsAssumption == Kinds \subseteq RunKinds
ASSUME CleanModesAssumption == CleanModes \subseteq AllCleanModes
ASSUME SlowExitsAssumption == SlowExits \in BOOLEAN
ASSUME ViewedAssumption == Viewed \in BOOLEAN
ASSUME FaultsAssumption == Faults \subseteq AllFaults

VARIABLES
  worker,    \* the worker process: "down", "up", "stopping" (StopAllJobs) or
             \* "draining" (server.Shutdown)
  registry,  \* the keys of Worker.jobs
  sweep,     \* the bulk clean that holds Worker.mu: "none" or its mode
  swept,     \* its cleanedDirs
  stopping,  \* jobs of StopAllJobs' snapshot it has not come to yet
  busy,      \* is a request for logs or files being answered?
  run,       \* progress of the handleRunJob call of a job
  req,       \* the kind of that request
  info,      \* ManagedJob.info: status and exit code
  waiter,    \* progress of the waitExit goroutine
  proc,      \* the operating system's process
  seen,      \* ManagedJob.watchdogConnected
  killers,   \* jobs a handleKillJob call holds a pointer to
  guard,     \* progress of the grace timer and of the watchdog stream
  disk,      \* the job's directory under DataDir/jobs
  unsaved    \* history variable: jobs whose last save did not reach the disk

vars == <<worker, registry, sweep, swept, stopping, busy, run, req, info, waiter,
          proc, seen, killers, guard, disk, unsaved>>

----------------------------------------------------------------------------
(* Values *)

Terminal == {"COMPLETED", "FAILED", "STOPPED"}
Status == {"RUNNING"} \cup Terminal

\* JobInfo reduced to what the life cycle decides.  1 stands for every exit
\* code other than 0 and -1.
ExitCodes == {-1, 0, 1}
Info == [status : Status, exit : ExitCodes]
NoInfo == [status |-> "none", exit |-> 0]
MaybeInfo == Info \cup {NoInfo}
Running == [status |-> "RUNNING", exit |-> 0]
Interrupted == [status |-> "STOPPED", exit |-> -1]

Outcome == {"ok", "error", "ioerror"}  \* what cmd.Wait can report
\* A process in its job object; one that is not in it; one whose job object
\* could not be terminated; one that is being terminated.
Alive == {"running", "loose", "spared", "dying"}
\* The processes that no Kill of the worker ends.
Unkilled == {"loose", "spared"}
Guards == {"timer", "watchdog"}
GuardState == {"idle", "armed", "killing", "dropping", "wiping", "over"}

Files == [dir : BOOLEAN, log : BOOLEAN, meta : MaybeInfo]
NoFiles == [dir |-> FALSE, log |-> FALSE, meta |-> NoInfo]

TypeOK ==
  /\ worker \in {"down", "up", "stopping", "draining"}
  /\ registry \subseteq Jobs
  /\ sweep \in {"none", "all", "days"}
  /\ swept \subseteq Jobs
  /\ stopping \subseteq Jobs
  /\ busy \in BOOLEAN
  /\ run \in [Jobs -> {"new", "opened", "launched", "served", "failed", "lost"}]
  /\ req \in [Jobs -> RunKinds]
  /\ info \in [Jobs -> MaybeInfo]
  /\ waiter \in [Jobs -> {"none", "waiting", "saved", "done"}]
  /\ proc \in [Jobs -> {"none"} \cup Alive \cup Outcome]
  /\ seen \in [Jobs -> BOOLEAN]
  /\ killers \subseteq Jobs
  /\ guard \in [Guards \X Jobs -> GuardState]
  /\ disk \in [Jobs -> Files]
  /\ unsaved \subseteq Jobs

\* A ManagedJob with a process behind it; NewHistoricJob has none.
Live(j) == run[j] \in {"launched", "served"}
IsRunning(j) == info[j].status = "RUNNING"
\* output.log is open from StartJob until waitExit closes it.
LogOpen(j) == run[j] = "opened" \/ waiter[j] \in {"waiting", "saved"}
\* Seeded fault (PlainJobsAreNotAutoKilled): no test of the request's flag.
KillsAlways(j) == j \in Jobs
\* Seeded fault (UnwatchedJobsEnd): the flag follows -c instead of -w.
KillsOnlyWithClean(j) == req[j] = "ephemeral"
\* ManagedJob.killOnDisconnect and cleanOnDisconnect, as cmd/run.go sets them.
KillOnDisconnect(j) == req[j] # "plain"
CleanOnDisconnect(j) == req[j] = "ephemeral"
\* Worker.mu, which a bulk clean keeps through both of its passes.
MuFree == worker # "down" /\ sweep = "none"
\* The listener takes new requests; StopAllJobs does not stop it.
Serving == worker \in {"up", "stopping"}

----------------------------------------------------------------------------
(* The file system *)

\* How a save can turn out: done; "kept", when job.json.tmp cannot be written or
\* job.json cannot be replaced; "cut", when job.json is removed to make room and
\* the second rename fails as well.
SaveResult ==
  {"done"} \cup {r \in {"kept", "cut"} :
                  IF r = "kept" THEN "write" \in Faults ELSE "replace" \in Faults}

\* SaveJobMeta does not create the directory either.
SaveJobMeta(d, i, result) ==
  CASE d.dir /\ result = "done" -> [d EXCEPT !.meta = i]
    [] d.dir /\ result = "cut" -> [d EXCEPT !.meta = NoInfo]
    [] OTHER -> d

\* Every caller ignores SaveJobMeta's error.
Save(j, i) ==
  \E result \in SaveResult :
    LET saved == SaveJobMeta(disk[j], i, result) IN
      /\ disk' = [disk EXCEPT ![j] = saved]
      /\ unsaved' = IF saved.meta = i THEN unsaved \ {j} ELSE unsaved \cup {j}

\* os.RemoveAll on Windows: a file that is open cannot be deleted, so
\* output.log and the directory that holds it stay; the rest goes.
RemoveAll(d, open) ==
  IF open /\ d.log THEN [d EXCEPT !.meta = NoInfo] ELSE NoFiles

\* What is left of a job's directory.  handleGetLogs and the history of
\* handleStreamLogs open the log for a moment, too.
Reading == IF Viewed THEN BOOLEAN ELSE {FALSE}
Wiped(j) == {RemoveAll(disk[j], LogOpen(j) \/ read) : read \in Reading}

----------------------------------------------------------------------------
Init ==
  /\ worker = "up"
  /\ registry = {}
  /\ sweep = "none"
  /\ swept = {}
  /\ stopping = {}
  /\ busy = FALSE
  /\ run = [j \in Jobs |-> "new"]
  /\ req = [j \in Jobs |-> "plain"]
  /\ info = [j \in Jobs |-> NoInfo]
  /\ waiter = [j \in Jobs |-> "none"]
  /\ proc = [j \in Jobs |-> "none"]
  /\ seen = [j \in Jobs |-> FALSE]
  /\ killers = {}
  /\ guard = [g \in Guards \X Jobs |-> "idle"]
  /\ disk = [j \in Jobs |-> NoFiles]
  /\ unsaved = {}

(* handleRunJob and StartJob *)

\* StartJob makes the directory and opens output.log.
StartOpen(j, kind) ==
  /\ Serving
  /\ run[j] = "new"
  /\ run' = [run EXCEPT ![j] = "opened"]
  /\ req' = [req EXCEPT ![j] = kind]
  /\ disk' = [disk EXCEPT ![j] = [dir |-> TRUE, log |-> TRUE, meta |-> NoInfo]]
  /\ UNCHANGED <<worker, registry, sweep, swept, stopping, busy, info, waiter, proc,
                 seen, killers, guard, unsaved>>

\* The job object, the shell or the process cannot be created: the handles are
\* closed and the client gets an error; the directory stays.
StartFail(j) ==
  /\ run[j] = "opened"
  /\ run' = [run EXCEPT ![j] = "failed"]
  /\ UNCHANGED <<worker, registry, sweep, swept, stopping, busy, req, info, waiter,
                 proc, seen, killers, guard, disk, unsaved>>

\* The errors of OpenProcess and AssignProcess are ignored: the job goes on with
\* its process outside its job object.
Started == {"running"} \cup IF "assign" \in Faults THEN {"loose"} ELSE {}

\* The process is started and put into its job object, RUNNING is saved and
\* waitExit is spawned.  The job is not in the registry yet.
StartLaunch(j) ==
  /\ run[j] = "opened"
  /\ run' = [run EXCEPT ![j] = "launched"]
  /\ info' = [info EXCEPT ![j] = Running]
  /\ waiter' = [waiter EXCEPT ![j] = "waiting"]
  /\ \E start \in Started : proc' = [proc EXCEPT ![j] = start]
  /\ Save(j, Running)
  /\ UNCHANGED <<worker, registry, sweep, swept, stopping, busy, req, seen, killers,
                 guard>>

\* handleRunJob enters the job under Worker.mu, arms the grace timer when the
\* request says KillOnDisconnect, and answers the client.
Register(j) ==
  /\ MuFree
  /\ run[j] = "launched"
  /\ run' = [run EXCEPT ![j] = "served"]
  /\ registry' = registry \cup {j}
  /\ guard' = IF KillOnDisconnect(j)
              THEN [guard EXCEPT ![<<"timer", j>>] = "armed"]
              ELSE guard
  /\ UNCHANGED <<worker, sweep, swept, stopping, busy, req, info, waiter, proc, seen,
                 killers, disk, unsaved>>

----------------------------------------------------------------------------
(* The process, waitExit and Kill *)

\* The command ends by itself; "ioerror" is a copy of its output that failed.
ProcExit(j, outcome) ==
  /\ proc[j] \in {"running"} \cup Unkilled
  /\ proc' = [proc EXCEPT ![j] = outcome]
  /\ UNCHANGED <<worker, registry, sweep, swept, stopping, busy, run, req, info,
                 waiter, seen, killers, guard, disk, unsaved>>

\* A terminated process ends in its own time, after TerminateJobObject returned.
ProcDies(j) ==
  /\ proc[j] = "dying"
  /\ proc' = [proc EXCEPT ![j] = "error"]
  /\ UNCHANGED <<worker, registry, sweep, swept, stopping, busy, run, req, info,
                 waiter, seen, killers, guard, disk, unsaved>>

\* What waitExit records for a job nobody killed.
ExitInfo(outcome) ==
  IF outcome = "ok" THEN [status |-> "COMPLETED", exit |-> 0]
  ELSE [status |-> "FAILED", exit |-> IF outcome = "error" THEN 1 ELSE -1]

\* Seeded fault (OutcomeIsFinal, the refinement): the status is not tested.
FinalInfoAfterKill(j) == ExitInfo(proc[j])
\* A kill that came first has settled the outcome.
FinalInfo(j) == IF IsRunning(j) THEN ExitInfo(proc[j]) ELSE info[j]

\* cmd.Wait has returned: under ManagedJob.mu the outcome is settled
\* and saved.
WaitExitSave(j) ==
  /\ waiter[j] = "waiting"
  /\ proc[j] \in Outcome
  /\ info' = [info EXCEPT ![j] = FinalInfo(j)]
  /\ Save(j, FinalInfo(j))
  /\ waiter' = [waiter EXCEPT ![j] = "saved"]
  /\ UNCHANGED <<worker, registry, sweep, swept, stopping, busy, run, req, proc, seen,
                 killers, guard>>

\* waitExit closes the job object, output.log and the broadcaster, then done.
WaitExitRelease(j) ==
  /\ waiter[j] = "saved"
  /\ waiter' = [waiter EXCEPT ![j] = "done"]
  /\ UNCHANGED <<worker, registry, sweep, swept, stopping, busy, run, req, info, proc,
                 seen, killers, guard, disk, unsaved>>

\* TerminateJobObject returns before the processes are gone, does not reach one
\* that is not in the job object, and its error is ignored.
Terminated(p) ==
  IF p # "running" THEN {p}
  ELSE {"dying"} \cup IF "terminate" \in Faults THEN {"spared"} ELSE {}

\* Seeded fault (RecordMatchesMemory): the new status is not saved.
KillUnsaved(j) ==
  IF Live(j) /\ IsRunning(j)
  THEN /\ info' = [info EXCEPT ![j].status = "STOPPED"]
       /\ \E end \in Terminated(proc[j]) : proc' = [proc EXCEPT ![j] = end]
       /\ UNCHANGED <<disk, unsaved>>
  ELSE UNCHANGED <<info, disk, unsaved, proc>>

\* Seeded fault (StatusTellsTruth, KilledIsReleased): no TerminateJobObject.
KillUnterminated(j) ==
  IF Live(j) /\ IsRunning(j)
  THEN LET stopped == [info[j] EXCEPT !.status = "STOPPED"] IN
       /\ info' = [info EXCEPT ![j] = stopped]
       /\ Save(j, stopped)
       /\ UNCHANGED proc
  ELSE UNCHANGED <<info, disk, unsaved, proc>>

\* ManagedJob.Kill, one critical section: nothing for a historic or a settled
\* job, otherwise STOPPED is saved and the job object terminated, whatever has
\* become of the save.  The exit code is left as it was.
Kill(j) ==
  IF Live(j) /\ IsRunning(j)
  THEN LET stopped == [info[j] EXCEPT !.status = "STOPPED"] IN
       /\ info' = [info EXCEPT ![j] = stopped]
       /\ Save(j, stopped)
       /\ \E end \in Terminated(proc[j]) : proc' = [proc EXCEPT ![j] = end]
  ELSE UNCHANGED <<info, disk, unsaved, proc>>

(* handleKillJob *)

KillLookup(j) ==
  /\ Serving /\ MuFree
  /\ j \in registry \ killers
  /\ killers' = killers \cup {j}
  /\ UNCHANGED <<worker, registry, sweep, swept, stopping, busy, run, req, info,
                 waiter, proc, seen, guard, disk, unsaved>>

KillApply(j) ==
  /\ j \in killers
  /\ Kill(j)
  /\ killers' = killers \ {j}
  /\ UNCHANGED <<worker, registry, sweep, swept, stopping, busy, run, req, waiter,
                 seen, guard>>

----------------------------------------------------------------------------
(* Clean on disconnect: the grace timer of handleRunJob and the watchdog     *)
(* stream of handleStreamLogs, which share their last three steps.           *)

\* A stream that says watchdog=1 finds its job RUNNING and subscribes.
WatchdogAttach(j) ==
  /\ Serving /\ MuFree
  /\ j \in registry
  /\ Live(j) /\ IsRunning(j)
  /\ guard[<<"watchdog", j>>] = "idle"
  /\ guard' = [guard EXCEPT ![<<"watchdog", j>>] = "armed"]
  /\ seen' = [seen EXCEPT ![j] = TRUE]
  /\ UNCHANGED <<worker, registry, sweep, swept, stopping, busy, run, req, info,
                 waiter, proc, killers, disk, unsaved>>

\* Seeded fault (CleanAfterStreamLeavesNothing): the broadcaster is closed
\* before output.log.
WatchdogEndEarly(j) ==
  /\ guard[<<"watchdog", j>>] = "armed"
  /\ waiter[j] \in {"saved", "done"}
  /\ guard' = [guard EXCEPT ![<<"watchdog", j>>] = "over"]
  /\ UNCHANGED <<worker, registry, sweep, swept, stopping, busy, run, req, info,
                 waiter, proc, seen, killers, disk, unsaved>>

\* waitExit closed the broadcaster, so the stream ends by itself.
WatchdogEnd(j) ==
  /\ guard[<<"watchdog", j>>] = "armed"
  /\ waiter[j] = "done"
  /\ guard' = [guard EXCEPT ![<<"watchdog", j>>] = "over"]
  /\ UNCHANGED <<worker, registry, sweep, swept, stopping, busy, run, req, info,
                 waiter, proc, seen, killers, disk, unsaved>>

\* The client is gone: handleEphemeralDisconnect up to its test of the status.
WatchdogLost(j) ==
  /\ guard[<<"watchdog", j>>] = "armed"
  /\ guard' = [guard EXCEPT ![<<"watchdog", j>>] =
                 IF KillOnDisconnect(j) /\ IsRunning(j) THEN "killing" ELSE "over"]
  /\ UNCHANGED <<worker, registry, sweep, swept, stopping, busy, run, req, info,
                 waiter, proc, seen, killers, disk, unsaved>>

\* The grace period is over: the timer's callback up to its test.
TimerFire(j) ==
  /\ MuFree
  /\ guard[<<"timer", j>>] = "armed"
  /\ guard' = [guard EXCEPT ![<<"timer", j>>] =
                 IF j \in registry /\ IsRunning(j) /\ ~seen[j]
                 THEN "killing" ELSE "over"]
  /\ UNCHANGED <<worker, registry, sweep, swept, stopping, busy, run, req, info,
                 waiter, proc, seen, killers, disk, unsaved>>

GuardKill(g, j) ==
  /\ guard[<<g, j>>] = "killing"
  /\ Kill(j)
  /\ guard' = [guard EXCEPT ![<<g, j>>] =
                 IF CleanOnDisconnect(j) THEN "dropping" ELSE "over"]
  /\ UNCHANGED <<worker, registry, sweep, swept, stopping, busy, run, req, waiter,
                 seen, killers>>

\* The job leaves the registry and a goroutine is left to remove its files.
GuardDrop(g, j) ==
  /\ MuFree
  /\ guard[<<g, j>>] = "dropping"
  /\ registry' = registry \ {j}
  /\ guard' = [guard EXCEPT ![<<g, j>>] = "wiping"]
  /\ UNCHANGED <<worker, sweep, swept, stopping, busy, run, req, info, waiter, proc,
                 seen, killers, disk, unsaved>>

\* Seeded fault (DroppedIsWiped): the files are removed at once.
ExitNotAwaited(j) == waiter[j] # "none"
\* WaitExit(3 s) returns when done is closed or, with SlowExits or a process that
\* no kill has ended, in time.
ExitAwaited(j) == waiter[j] = "done" \/ SlowExits \/ proc[j] \in Unkilled

GuardWipe(g, j) ==
  /\ guard[<<g, j>>] = "wiping"
  /\ ExitAwaited(j)
  /\ \E files \in Wiped(j) : disk' = [disk EXCEPT ![j] = files]
  /\ guard' = [guard EXCEPT ![<<g, j>>] = "over"]
  /\ UNCHANGED <<worker, registry, sweep, swept, stopping, busy, run, req, info,
                 waiter, proc, seen, killers, unsaved>>

----------------------------------------------------------------------------
(* handleCleanJobs, under Worker.mu *)

\* Seeded fault (RunningIsReachable, RunningKeepsRecord): no test of the status.
NeverProtected(j) == j \notin Jobs
\* RUNNING as the registry shows it, which is what clean protects.
Protected(j) == j \in registry /\ IsRunning(j)

\* One job by its identifier, which a client has from its run or from a list.
CleanOne(j) ==
  /\ Serving /\ MuFree
  /\ run[j] \in {"served", "failed", "lost"}
  /\ ~Protected(j)
  /\ j \in registry \/ disk[j].dir
  /\ \E files \in Wiped(j) : disk' = [disk EXCEPT ![j] = files]
  /\ registry' = registry \ {j}
  /\ UNCHANGED <<worker, sweep, swept, stopping, busy, run, req, info, waiter, proc,
                 seen, killers, guard, unsaved>>

\* Remove the files of every job in a set and forget the jobs.
Sweep(victims) ==
  /\ \E read \in [victims -> Reading] :
       disk' = [j \in Jobs |-> IF j \in victims
                               THEN RemoveAll(disk[j], LogOpen(j) \/ read[j])
                               ELSE disk[j]]
  /\ registry' = registry \ victims

\* --all takes every candidate, --days those that are old enough.
Chosen(mode, candidates, old) ==
  IF mode = "all" THEN candidates ELSE candidates \cap old

\* First pass: the jobs of the registry that are not RUNNING.
SweepRegistry(mode) ==
  /\ Serving /\ MuFree
  /\ \E old \in SUBSET Jobs :
       LET victims == Chosen(mode, {j \in registry : ~IsRunning(j)}, old) IN
         /\ Sweep(victims)
         /\ swept' = victims
  /\ sweep' = mode
  /\ UNCHANGED <<worker, stopping, busy, run, req, info, waiter, proc, seen, killers,
                 guard, unsaved>>

\* Second pass: the directories left, which a registered RUNNING job protects.
\* The directory of a job that is being started is never old.
SweepDisk ==
  /\ sweep # "none"
  /\ \E old \in SUBSET {j \in Jobs : run[j] \notin {"opened", "launched"}} :
       Sweep(Chosen(sweep,
                    {j \in Jobs \ swept : disk[j].dir /\ ~Protected(j)}, old))
  /\ sweep' = "none"
  /\ swept' = {}
  /\ UNCHANGED <<worker, stopping, busy, run, req, info, waiter, proc, seen, killers,
                 guard, unsaved>>

----------------------------------------------------------------------------
(* Shutdown, crash and start-up *)

\* The context is cancelled: StopAllJobs takes its snapshot.  The server goes
\* on serving.
StopBegin ==
  /\ MuFree
  /\ worker = "up"
  /\ worker' = "stopping"
  /\ stopping' = registry
  /\ UNCHANGED <<registry, sweep, swept, busy, run, req, info, waiter, proc, seen,
                 killers, guard, disk, unsaved>>

StopKill(j) ==
  /\ j \in stopping
  /\ Kill(j)
  /\ stopping' = stopping \ {j}
  /\ UNCHANGED <<worker, registry, sweep, swept, busy, run, req, waiter, seen,
                 killers, guard>>

\* The worker process ends.  Its handles are closed by the kernel, which kills
\* every process in a job object (KILL_ON_JOB_CLOSE) and spares one that is in
\* none; memory is gone.
Die ==
  /\ worker' = "down"
  /\ registry' = {}
  /\ sweep' = "none"
  /\ swept' = {}
  /\ stopping' = {}
  /\ busy' = FALSE
  /\ run' = [j \in Jobs |-> IF run[j] \in {"opened", "launched", "served"}
                            THEN "lost" ELSE run[j]]
  /\ info' = [j \in Jobs |-> NoInfo]
  /\ waiter' = [j \in Jobs |-> "none"]
  /\ proc' = [j \in Jobs |-> IF proc[j] = "loose" THEN "loose" ELSE "none"]
  /\ seen' = [j \in Jobs |-> FALSE]
  /\ killers' = {}
  /\ guard' = [g \in Guards \X Jobs |-> "idle"]
  /\ req' = [j \in Jobs |-> "plain"]
  /\ unsaved' = {}
  /\ UNCHANGED disk

\* Every job of the snapshot is killed and waited for, 5 s at most in all, and
\* server.Shutdown closes the listener.
StopDrain ==
  /\ worker = "stopping"
  /\ stopping = {}
  /\ worker' = "draining"
  /\ UNCHANGED <<registry, sweep, swept, stopping, busy, run, req, info, waiter, proc,
                 seen, killers, guard, disk, unsaved>>

\* A request for logs, or to list, hash, send, receive or remove files; the
\* server has no time limits, so a client may take its answer as slowly as it
\* likes.
RequestBegins ==
  /\ "stall" \in Faults
  /\ Serving /\ ~busy
  /\ busy' = TRUE
  /\ UNCHANGED <<worker, registry, sweep, swept, stopping, run, req, info, waiter,
                 proc, seen, killers, guard, disk, unsaved>>

RequestEnds ==
  /\ busy
  /\ busy' = FALSE
  /\ UNCHANGED <<worker, registry, sweep, swept, stopping, run, req, info, waiter,
                 proc, seen, killers, guard, disk, unsaved>>

\* What server.Shutdown waits for, without a limit; streams are hijacked
\* connections, which it does not.
RequestsDone ==
  /\ ~busy
  /\ sweep = "none"
  /\ killers = {}
  /\ \A j \in Jobs : run[j] \notin {"opened", "launched"}

\* Seeded fault (StopCompletes): the worker also waits for the streams.
ExitAfterStreams ==
  /\ worker = "draining"
  /\ RequestsDone
  /\ \A j \in Jobs : guard[<<"watchdog", j>>] # "armed"
  /\ Die

\* The requests in progress are answered; Start returns.
StopExit ==
  /\ worker = "draining"
  /\ RequestsDone
  /\ Die

\* A crash, a power cut, or the service control manager, whose Stop does not
\* wait for StopAllJobs.
Crash == worker # "down" /\ Die

\* Seeded fault (RunningRecordHasWaiter): a RUNNING record is taken as it is.
HealedNot(d) == IF d.meta = NoInfo /\ d.log THEN Interrupted ELSE d.meta

\* What hydrateJobsFromDisk takes a directory for: a RUNNING record is healed,
\* and one is made up for a directory that has only a log.
Healed(d) ==
  IF d.meta.status = "RUNNING" \/ (d.meta = NoInfo /\ d.log)
  THEN Interrupted ELSE d.meta

\* It saves what it has changed; that may fail, and is ignored, like any save.
HealedFiles(d, result) ==
  IF Healed(d) = d.meta THEN d ELSE SaveJobMeta(d, Healed(d), result)

\* NewWorker hydrates, then Start serves.
Boot ==
  /\ worker = "down"
  /\ worker' = "up"
  /\ \E result \in [Jobs -> SaveResult] :
       disk' = [j \in Jobs |-> HealedFiles(disk[j], result[j])]
  /\ info' = [j \in Jobs |-> Healed(disk[j])]
  /\ registry' = {j \in Jobs : Healed(disk[j]) # NoInfo}
  /\ unsaved' = {j \in Jobs : disk'[j].meta # Healed(disk[j])}
  /\ UNCHANGED <<sweep, swept, stopping, busy, run, req, waiter, proc, seen, killers,
                 guard>>

----------------------------------------------------------------------------
(* Next: what clients and the outside world may do, and what the worker does *)

Environment ==
  \/ \E j \in Jobs, kind \in Kinds : StartOpen(j, kind)
  \/ \E j \in Jobs, outcome \in Outcome : ProcExit(j, outcome)
  \/ \E j \in Jobs : StartFail(j) \/ KillLookup(j) \/ WatchdogAttach(j)
  \/ \E j \in Jobs : WatchdogLost(j)
  \/ "one" \in CleanModes /\ \E j \in Jobs : CleanOne(j)
  \/ \E mode \in CleanModes \ {"one"} : SweepRegistry(mode)
  \/ RequestBegins \/ RequestEnds
  \/ StopBegin \/ Crash \/ Boot

JobStep(j) ==
  \/ StartLaunch(j) \/ Register(j) \/ ProcDies(j)
  \/ WaitExitSave(j) \/ WaitExitRelease(j)
  \/ KillApply(j) \/ StopKill(j)
  \/ TimerFire(j) \/ WatchdogEnd(j)
  \/ \E g \in Guards : GuardKill(g, j) \/ GuardDrop(g, j) \/ GuardWipe(g, j)

Next == Environment \/ SweepDisk \/ StopDrain \/ StopExit \/ \E j \in Jobs : JobStep(j)

Spec == Init /\ [][Next]_vars

\* Goroutines that can run do run: every step of the worker that waits for no
\* client is weakly fair, and a terminated process does end.
Fairness ==
  /\ WF_vars(SweepDisk)
  /\ WF_vars(StopDrain) /\ WF_vars(StopExit)
  /\ \A j \in Jobs :
       /\ WF_vars(StartLaunch(j)) /\ SF_vars(Register(j))
       /\ WF_vars(ProcDies(j))
       /\ WF_vars(WaitExitSave(j)) /\ WF_vars(WaitExitRelease(j))
       /\ WF_vars(KillApply(j)) /\ WF_vars(StopKill(j))
       /\ SF_vars(TimerFire(j)) /\ WF_vars(WatchdogEnd(j))
       /\ \A g \in Guards :
            WF_vars(GuardKill(g, j)) /\ SF_vars(GuardDrop(g, j))
            /\ WF_vars(GuardWipe(g, j))

FairSpec == Spec /\ Fairness
----------------------------------------------------------------------------
(* Properties *)

\* A job whose ManagedJob is RUNNING can be listed and killed: it is in the
\* registry, or its run request is about to enter it.  Clean, the watchdog and
\* the grace timer delete from Worker.jobs only what is no longer RUNNING.
RunningIsReachable ==
  \A j \in Jobs : Live(j) /\ IsRunning(j) => j \in registry \/ run[j] = "launched"

\* While the worker manages a job, its job.json, when there is one, says what
\* ManagedJob.info says: StartJob, Kill and waitExit save under the same lock
\* under which they change it.  A save that failed, whose error they ignore, may
\* leave the record of the start, and never anything else.
RecordMatchesMemory ==
  \A j \in Jobs :
    Live(j) /\ disk[j].meta # NoInfo
      => disk[j].meta = info[j] \/ (j \in unsaved /\ disk[j].meta = Running)

\* While a worker is up, a RUNNING record on disk has a waitExit goroutine that
\* will settle it, or it is there because the save that settled it failed:
\* hydration leaves none behind from an earlier life.
RunningRecordHasWaiter ==
  \A j \in Jobs :
    worker # "down" /\ disk[j].meta.status = "RUNNING"
      => waiter[j] = "waiting" \/ j \in unsaved

\* A job that is reported as ended has no process left to terminate: what is in
\* a job object and has not been told to end belongs to a RUNNING job.  A process
\* that is ending, and an entry the registry shows as RUNNING, have a waitExit
\* goroutine.  A process that AssignProcess or Terminate failed for, which the
\* code does not notice, is in none of these states.
StatusTellsTruth ==
  \A j \in Jobs :
    /\ proc[j] = "running" => Live(j) /\ IsRunning(j)
    /\ proc[j] \in {"dying", "spared"} => waiter[j] = "waiting"
    /\ IsRunning(j) => waiter[j] = "waiting"

\* The inductive invariant behind the properties above, one conjunct per part
\* of the worker it ties together: the goroutines a managed job has, ...
GoroutinesMatchJobs ==
  \A j \in Jobs :
    /\ Live(j) <=> waiter[j] # "none"
    /\ IsRunning(j) => waiter[j] = "waiting" /\ info[j] = Running
    /\ proc[j] = "running" => IsRunning(j)
    /\ proc[j] \in {"dying", "spared"} => waiter[j] = "waiting"

\* ... the registry, which has no job whose run request is still at work, ...
RegistryMatchesJobs ==
  \A j \in registry : run[j] \in {"served", "failed", "lost"}

\* ... the timer and the stream, which act on served jobs whose request asked
\* for it and drop them from the registry only after the kill, ...
GuardsMatchJobs ==
  \A g \in Guards, j \in Jobs :
    /\ guard[<<g, j>>] # "idle" => run[j] = "served"
    /\ guard[<<g, j>>] \in {"dropping", "wiping"} => ~IsRunning(j)
    /\ guard[<<g, j>>] = "killing" => KillOnDisconnect(j)
    /\ g = "timer" /\ guard[<<g, j>>] = "armed" => KillOnDisconnect(j)

\* ... the files, ...
FilesMatchJobs ==
  \A j \in Jobs :
    /\ disk[j].dir \/ disk[j] = NoFiles
    /\ run[j] = "new" => disk[j] = NoFiles
    /\ run[j] = "opened" => disk[j].meta = NoInfo
    /\ worker # "down" /\ disk[j].meta.status = "RUNNING" => Live(j) \/ j \in unsaved

\* ... and a worker that is down, which has none of it.
DownIsEmpty ==
  worker = "down" =>
    registry = {} /\ \A j \in Jobs : run[j] \notin {"opened", "launched", "served"}

IInv ==
  /\ TypeOK
  /\ RunningIsReachable
  /\ RecordMatchesMemory
  /\ GoroutinesMatchJobs
  /\ RegistryMatchesJobs
  /\ GuardsMatchJobs
  /\ FilesMatchJobs
  /\ DownIsEmpty

\* Clean strictly protects RUNNING jobs (worker.go:536 and 576, README): a
\* RUNNING job keeps its log and its record, unless StartJob could not save one.
RunningKeepsRecord ==
  \A j \in Jobs : Live(j) /\ IsRunning(j)
    => disk[j].log /\ (disk[j].meta = info[j] \/ j \in unsaved)

\* The worker has a job at hand: its run request, the registry, or a goroutine
\* that still has its record to wipe knows its ManagedJob; waitExit does, too.
AtHand(j) ==
  \/ run[j] = "launched"
  \/ j \in registry
  \/ disk[j].meta # NoInfo /\ \E g \in Guards : guard[<<g, j>>] = "wiping"
Known(j) == AtHand(j) \/ waiter[j] \in {"waiting", "saved"}

\* What makes RunningKeepsRecord and the refinement below inductive, when no
\* client asks for clean --all: output.log is there for as long as it is open,
\* a job the worker knows has an outcome or is RUNNING, what hydration found is
\* over, a RUNNING record belongs to a job at hand, and no bulk clean outlives
\* the worker.
RecordInv ==
  /\ IInv
  /\ RunningKeepsRecord
  /\ \A j \in Jobs :
       /\ LogOpen(j) => disk[j].dir /\ disk[j].log
       /\ Live(j) \/ j \in registry => info[j] # NoInfo
       /\ worker # "down" /\ disk[j].meta.status = "RUNNING" => AtHand(j)
       /\ j \in registry /\ ~Live(j)
            => disk[j].meta \in {NoInfo, info[j]} \/ disk[j].meta.status = "RUNNING"
  /\ sweep # "all"
  /\ worker = "down" => sweep = "none"

\* A record that says how a job ended is never changed to say otherwise, by a
\* racing exit, a second kill, a failed save, a crash or the healing after it; it
\* can only be removed.
OutcomeIsFinal ==
  [][\A j \in Jobs :
       disk[j].meta.status \in Terminal
         => disk'[j].meta \in {disk[j].meta, NoInfo}]_vars

\* Only a kill request or a shutdown stops a job that was run without
\* KillOnDisconnect: viewers come and go without effect (worker.go:926).
PlainJobsAreNotAutoKilled ==
  [][\A j \in Jobs :
       /\ req[j] = "plain" /\ Live(j) /\ IsRunning(j)
       /\ info'[j].status = "STOPPED"
       => j \in killers \cup stopping]_vars

\* What there is to know of a job, from the worker that knows it, else from its
\* files, and what its record says.
OnRecord(d) == IF d.meta = NoInfo THEN "none" ELSE d.meta.status
OnDisk(d) ==
  CASE d.meta # NoInfo -> d.meta.status
    [] d.meta = NoInfo /\ d.dir -> "remnant"
    [] OTHER -> "absent"
Says(j) ==
  CASE run[j] = "new" -> "new"
    [] run[j] # "new" /\ Known(j) -> info[j].status
    [] OTHER -> OnDisk(disk[j])
View(j) == [says |-> Says(j), record |-> OnRecord(disk[j])]

\* The worker keeps the promises of JobLedger (StartJob, waitExit, Kill, the
\* cleans, hydration), as long as no clean --all meets a job being started.
Ledger == INSTANCE JobLedger WITH ledger <- [j \in Jobs |-> View(j)]
LedgerIsKept == Ledger!Spec

\* Every job that was killed is reaped and its handles are released, if its
\* process is one that the kill could end.
KilledIsReleased ==
  \A j \in Jobs :
    (Live(j) /\ info[j].status = "STOPPED" /\ proc[j] \notin Unkilled)
      ~> (waiter[j] = "done" \/ worker = "down")

\* A job run with -w whose client is not connected stops within the grace
\* period, unless the client does connect.
UnwatchedJobsEnd ==
  \A j \in Jobs :
    (run[j] = "served" /\ req[j] # "plain" /\ IsRunning(j)
       /\ guard[<<"watchdog", j>>] # "armed")
      ~> (~IsRunning(j) \/ guard[<<"watchdog", j>>] = "armed")

\* When the worker kills a job for its absent client and the job was run with
\* -wc, its directory goes too, unless the kill could not end its process or the
\* worker dies first.
DroppedIsWiped ==
  \A j \in Jobs :
    ((\E g \in Guards : guard[<<g, j>>] = "dropping") /\ proc[j] \notin Unkilled)
      ~> (~disk[j].dir \/ worker = "down")

\* A shutdown that has begun gets as far as server.Shutdown, whatever its jobs
\* do, and ends if no request for logs or files goes on: streams, which are
\* hijacked, and jobs that no kill ends do not hold it up.
StopCompletes ==
  /\ worker = "stopping" ~> worker \in {"draining", "down"}
  /\ (worker = "draining" /\ ~busy) ~> worker = "down"
=============================================================================
