--------------------------- MODULE RunClientProofs ---------------------------
(***************************************************************************)
(* A foreground run is one way to use the worker, so what JobLifecycle     *)
(* promises holds for it; and its clean is complete after the stream.      *)
(***************************************************************************)
EXTENDS RunClient, JobLifecycleProofs

\* Every step of the run is a step of the worker, or leaves it as it is.
LEMMA StepOfWorker == RunNext => [Next]_vars
<1> SUFFICES ASSUME RunNext PROVE [Next]_vars
  OBVIOUS
<1> USE MineAssumption
<1>1. ASSUME NEW kind \in Kinds, Dispatch(kind) PROVE Next
  BY <1>1 DEF Dispatch, Next, Environment
<1>2. CASE ClientStep
  <2>1. CASE Attach
    BY <2>1 DEF Attach, Next, Environment
  <2>2. CASE StreamEnds
    BY <2>2 DEF StreamEnds, Next, JobStep
  <2>3. CASE StreamLost
    BY <2>3 DEF StreamLost, Next, Environment
  <2>4. CASE SendKill
    BY <2>4 DEF SendKill, Next, Environment
  <2>5. CASE Clean
    BY <2>5, OwnCleanAssumption DEF Clean, Next, Environment
  <2>6. CASE Dispatched \/ StreamHistory \/ KillAnswered \/ QueryAnswered \/ CallRefused
    BY <2>6 DEF Dispatched, StreamHistory, KillAnswered, QueryAnswered, CallRefused, CallFails
  <2> QED BY <1>2, <2>1, <2>2, <2>3, <2>4, <2>5, <2>6 DEF ClientStep
<1>3. CASE WorkerStep
  BY <1>3 DEF WorkerStep, Next, Environment, JobStep
<1>4. CASE OthersStep
  BY <1>4, OwnCleanAssumption DEF OthersStep, Next, Environment
<1>5. CASE Interrupt \/ Killed \/ ConnectionBreaks
  BY <1>5 DEF Interrupt, Killed, ConnectionBreaks, CallFails
<1>6. CASE Timer
  BY <1>6 DEF Timer, Next, JobStep
<1> QED BY <1>1, <1>2, <1>3, <1>4, <1>5, <1>6 DEF RunNext

-----------------------------------------------------------------------------
(* The worker's promises hold in a run *)

\* A run is a behaviour of the worker.
THEOREM RunIsWorker == RunSpec => Spec
<1>1. RunInit => Init
  BY DEF RunInit
<1>2. [RunNext]_runVars => [Next]_vars
  BY StepOfWorker DEF runVars
<1>3. QED
  BY <1>1, <1>2, PTL DEF RunSpec, Spec

-----------------------------------------------------------------------------
(* -wc leaves nothing behind *)

\* A job that is over for its waitExit goroutine stays so.
LEMMA ReleasedStays ==
  ASSUME IInv, [Next]_vars,
         run[Mine] \in {"served", "lost"}, waiter[Mine] \in {"done", "none"}
  PROVE  run'[Mine] \in {"served", "lost"} /\ waiter'[Mine] \in {"done", "none"}
<1> USE MineAssumption DEF IInv, TypeOK
<1>1. ASSUME NEW j \in Jobs, JobStep(j)
      PROVE  run'[Mine] \in {"served", "lost"} /\ waiter'[Mine] \in {"done", "none"}
  BY <1>1 DEF JobStep, StartLaunch, Register, ProcDies, WaitExitSave, WaitExitRelease,
     KillApply, StopKill, TimerFire, WatchdogEnd, GuardKill, GuardDrop, GuardWipe
<1>2. CASE Environment
  <2>1. CASE Crash
    BY <2>1 DEF Crash, Die
  <2>2. ASSUME NEW j \in Jobs, NEW kind \in Kinds, StartOpen(j, kind)
        PROVE  run'[Mine] \in {"served", "lost"} /\ waiter'[Mine] \in {"done", "none"}
    BY <2>2 DEF StartOpen
  <2>3. ASSUME NEW j \in Jobs, StartFail(j)
        PROVE  run'[Mine] \in {"served", "lost"} /\ waiter'[Mine] \in {"done", "none"}
    BY <2>3 DEF StartFail
  <2>4. CASE \/ StopBegin \/ Boot \/ RequestBegins \/ RequestEnds
             \/ \E mode \in CleanModes : SweepRegistry(mode)
    BY <2>4 DEF StopBegin, Boot, RequestBegins, RequestEnds, SweepRegistry
  <2>5. ASSUME NEW j \in Jobs,
               \/ \E outcome \in Outcome : ProcExit(j, outcome)
               \/ KillLookup(j) \/ WatchdogAttach(j) \/ WatchdogLost(j) \/ CleanOne(j)
        PROVE  run'[Mine] \in {"served", "lost"} /\ waiter'[Mine] \in {"done", "none"}
    BY <2>5 DEF ProcExit, KillLookup, WatchdogAttach, WatchdogLost, CleanOne
  <2>6. QED
    BY <1>2, <2>1, <2>2, <2>3, <2>4, <2>5 DEF Environment
<1>3. CASE SweepDisk \/ StopDrain \/ StopExit \/ UNCHANGED vars
  BY <1>3 DEF SweepDisk, StopDrain, StopExit, Die, vars
<1>4. QED
  BY <1>1, <1>2, <1>3 DEF Next

\* The directory of such a job does not come back.
LEMMA GoneStays ==
  ASSUME IInv, [Next]_vars, run[Mine] \in {"served", "lost"}, disk[Mine] = NoFiles
  PROVE  disk'[Mine] = NoFiles
<1> USE MineAssumption
<1>0. TypeOK /\ ~disk[Mine].dir
  BY DEF IInv, NoFiles
<1>a. SUFFICES ~disk'[Mine].dir
  <2>1. IInv'
    BY InvNext
  <2>2. QED
    BY <1>a, <2>1 DEF IInv, FilesMatchJobs
<1>b. ~NoFiles.dir
  BY DEF NoFiles
<1>2. \A files \in Wiped(Mine) : files = NoFiles
  BY <1>0, WipedEffect
<1>3. ASSUME NEW j \in Jobs, Kill(j) PROVE ~disk'[Mine].dir
  <2>1. CASE j = Mine
    BY <1>0, <1>3, <2>1, KillEffect
  <2>2. CASE j # Mine
    <3>1. \A k \in Jobs \ {j} : disk'[k] = disk[k]
      BY <1>0, <1>3, KillEffect
    <3>2. QED
      BY <1>0, <2>2, <3>1
  <2>3. QED
    BY <2>1, <2>2
<1>4. ASSUME NEW victims \in SUBSET Jobs, Sweep(victims) PROVE ~disk'[Mine].dir
  BY <1>0, <1>2, <1>4, <1>b, SweepTyped
<1>5. ASSUME NEW j \in Jobs, JobStep(j) PROVE ~disk'[Mine].dir
  <2>a. ASSUME NEW i \in MaybeInfo, Save(j, i) PROVE ~disk'[Mine].dir
    <3>1. /\ \A k \in Jobs \ {j} : disk'[k] = disk[k]
          /\ disk'[j].dir = disk[j].dir
      BY <1>0, <2>a, SaveEffect
    <3>2. QED
      BY <1>0, <3>1
  <2>1. CASE \/ Register(j) \/ ProcDies(j) \/ WaitExitRelease(j)
             \/ TimerFire(j) \/ WatchdogEnd(j)
    BY <1>0, <2>1 DEF Register, ProcDies, WaitExitRelease, TimerFire, WatchdogEnd
  <2>2. CASE StartLaunch(j)
    BY <2>a, <2>2, InfosTyped DEF StartLaunch
  <2>3. CASE WaitExitSave(j)
    <3>1. FinalInfo(j) \in MaybeInfo
      BY <1>0, <2>3, InfosTyped DEF WaitExitSave, FinalInfo, TypeOK
    <3>2. QED
      BY <2>a, <2>3, <3>1 DEF WaitExitSave
  <2>4. CASE KillApply(j) \/ StopKill(j)
    BY <1>3, <2>4 DEF KillApply, StopKill
  <2>5. ASSUME NEW g \in Guards, GuardKill(g, j) \/ GuardDrop(g, j)
        PROVE  ~disk'[Mine].dir
    BY <1>0, <1>3, <2>5 DEF GuardKill, GuardDrop
  <2>6. ASSUME NEW g \in Guards, GuardWipe(g, j) PROVE ~disk'[Mine].dir
    BY <1>0, <1>2, <1>b, <2>6, WipeTyped
  <2>7. QED
    BY <1>5, <2>1, <2>2, <2>3, <2>4, <2>5, <2>6 DEF JobStep
<1>6. CASE Environment
  <2>1. ASSUME NEW j \in Jobs, NEW kind \in Kinds, StartOpen(j, kind)
        PROVE  ~disk'[Mine].dir
    BY <1>0, <2>1 DEF StartOpen, TypeOK
  <2>2. ASSUME NEW j \in Jobs, CleanOne(j) PROVE ~disk'[Mine].dir
    BY <1>0, <1>2, <1>b, <2>2, WipeTyped
  <2>3. ASSUME NEW mode \in CleanModes \ {"one"}, SweepRegistry(mode)
        PROVE  ~disk'[Mine].dir
    BY <1>0, <1>4, <2>3 DEF SweepRegistry, Chosen, TypeOK
  <2>4. CASE Boot
    <3>1. PICK end \in [Jobs -> SaveResult] :
            disk' = [j \in Jobs |-> HealedFiles(disk[j], end[j])]
      BY <2>4 DEF Boot
    <3>2. disk[Mine] \in Files /\ end[Mine] \in SaveResult
      BY <1>0, <3>1 DEF TypeOK
    <3>3. HealedFiles(disk[Mine], end[Mine]).dir = disk[Mine].dir
      BY <3>2, HealEffect
    <3>4. QED
      BY <1>0, <3>1, <3>3
  <2>5. CASE StopBegin \/ Crash \/ RequestBegins \/ RequestEnds
    BY <1>0, <2>5 DEF StopBegin, Crash, Die, RequestBegins, RequestEnds
  <2>6. ASSUME NEW j \in Jobs, NEW outcome \in Outcome, ProcExit(j, outcome)
        PROVE  ~disk'[Mine].dir
    BY <1>0, <2>6 DEF ProcExit
  <2>7. ASSUME NEW j \in Jobs,
               StartFail(j) \/ KillLookup(j) \/ WatchdogAttach(j) \/ WatchdogLost(j)
        PROVE  ~disk'[Mine].dir
    BY <1>0, <2>7 DEF StartFail, KillLookup, WatchdogAttach, WatchdogLost
  <2>8. QED
    BY <1>6, <2>1, <2>2, <2>3, <2>4, <2>5, <2>6, <2>7 DEF Environment
<1>7. CASE SweepDisk
  BY <1>4, <1>7 DEF SweepDisk, Chosen
<1>8. CASE StopDrain \/ StopExit \/ UNCHANGED vars
  BY <1>0, <1>8 DEF StopDrain, StopExit, Die, vars
<1>9. QED
  BY <1>5, <1>6, <1>7, <1>8 DEF Next

\* What the client does to followed and cleaned.
LEMMA FollowNext == IInv /\ FollowInv /\ [RunNext]_runVars => FollowInv'
<1> SUFFICES ASSUME IInv, FollowInv, [RunNext]_runVars PROVE FollowInv'
  OBVIOUS
<1>0. [Next]_vars
  BY StepOfWorker DEF runVars
<1>a. ASSUME followed' = followed, cleaned' = cleaned, cleaned => phase' = "exited"
      PROVE  FollowInv'
  BY <1>0, <1>a, ReleasedStays DEF FollowInv
<1>1. CASE StreamEnds
  <2>1. waiter[Mine] = "done" /\ run[Mine] = "served"
    BY <1>1, MineAssumption
    DEF StreamEnds, WatchdogEnd, IInv, GuardsMatchJobs, Guards
  <2>2. waiter' = waiter /\ run' = run /\ cleaned' = cleaned
    BY <1>1 DEF StreamEnds, WatchdogEnd
  <2>3. /\ cleaned => phase = "exited"
        /\ phase # "following" => phase' = phase
    BY <1>1 DEF StreamEnds, FollowInv
  <2>4. QED
    BY <2>1, <2>2, <2>3 DEF FollowInv
<1>2. CASE Clean
  BY <1>2 DEF Clean, CleanOne, Goto, FollowInv
<1>3. ASSUME NEW kind \in Kinds, Dispatch(kind) PROVE FollowInv'
  BY <1>a, <1>3 DEF Dispatch, FollowInv
<1>4. CASE Dispatched \/ Attach \/ StreamHistory \/ StreamLost
           \/ SendKill \/ KillAnswered \/ QueryAnswered
  BY <1>a, <1>4
  DEF Dispatched, Attach, StreamHistory, StreamLost, SendKill, KillAnswered,
      QueryAnswered, FollowInv, client, Goto
<1>5. CASE CallFails
  BY <1>a, <1>5 DEF CallFails, FollowInv, Calls, Phases
<1>6. CASE WorkerStep \/ OthersStep \/ Timer \/ UNCHANGED runVars
  <2>1. UNCHANGED client
    BY <1>6 DEF WorkerStep, OthersStep, Timer, runVars
  <2>2. QED
    BY <1>a, <2>1 DEF client, FollowInv
<1>7. CASE Interrupt \/ Killed
  BY <1>a, <1>7 DEF Interrupt, Killed, FollowInv, Goto
<1>8. QED
  BY <1>1, <1>2, <1>3, <1>4, <1>5, <1>6, <1>7
  DEF RunNext, ClientStep, CallRefused, ConnectionBreaks

\* The clean after the stream leaves nothing, and nothing comes back.
LEMMA CleanNext ==
  ASSUME ~Viewed, IInv, FollowInv, CleanAfterStreamLeavesNothing,
         [RunNext]_runVars
  PROVE  CleanAfterStreamLeavesNothing'
<1>0. [Next]_vars /\ FollowInv'
  BY StepOfWorker, FollowNext DEF runVars
<1>1. CASE Clean
  <2>1. followed' = followed
    BY <1>1 DEF Clean
  <2>2. followed => disk'[Mine] = NoFiles
    <3>1. followed => ~LogOpen(Mine)
      BY DEF FollowInv, LogOpen
    <3>2. TypeOK /\ disk'[Mine] \in Wiped(Mine)
      BY <1>1, WipeTyped, MineAssumption DEF Clean, IInv
    <3>3. QED
      BY <3>1, <3>2, WipedEffect, MineAssumption
  <2>3. QED
    BY <2>1, <2>2 DEF CleanAfterStreamLeavesNothing, NoFiles
<1>2. CASE StreamEnds
  <2>1. cleaned' = cleaned /\ disk' = disk
    BY <1>2 DEF StreamEnds, WatchdogEnd
  <2>2. cleaned => followed' = followed
    BY <1>2 DEF StreamEnds, FollowInv
  <2>3. QED
    BY <2>1, <2>2 DEF CleanAfterStreamLeavesNothing
<1>3. CASE ~Clean /\ ~StreamEnds
  <2>1. UNCHANGED <<followed, cleaned>>
    BY <1>3 DEF RunNext, ClientStep, Dispatch, Dispatched, Attach, StreamHistory,
       StreamLost, SendKill, KillAnswered, QueryAnswered, CallRefused, CallFails,
       WorkerStep, OthersStep, Timer, Interrupt, Killed, ConnectionBreaks,
       runVars, client
  <2>2. SUFFICES ASSUME cleaned, followed PROVE ~disk'[Mine].dir
    BY <2>1 DEF CleanAfterStreamLeavesNothing
  <2>3. disk[Mine] = NoFiles
    BY <2>2, MineAssumption DEF CleanAfterStreamLeavesNothing, IInv, FilesMatchJobs
  <2>4. disk'[Mine] = NoFiles
    BY <1>0, <2>2, <2>3, GoneStays DEF FollowInv
  <2>5. QED
    BY <2>4 DEF NoFiles
<1>4. QED
  BY <1>1, <1>2, <1>3

\* When the client cleans after a stream that came to its end, and no request
\* is reading the log, nothing of its job is left, then or later, whatever
\* others do and however often the worker is started again.
THEOREM CleanIsComplete ==
  ASSUME ~Viewed
  PROVE  RunSpec => []CleanAfterStreamLeavesNothing
<1> DEFINE CleanInv == IInv /\ FollowInv /\ CleanAfterStreamLeavesNothing
<1>1. RunInit => CleanInv
  BY InvInit DEF RunInit, FollowInv, CleanAfterStreamLeavesNothing
<1>2. CleanInv /\ [RunNext]_runVars => CleanInv'
  <2>1. [RunNext]_runVars => [Next]_vars
    BY StepOfWorker DEF runVars
  <2>2. QED
    BY <2>1, InvNext, FollowNext, CleanNext
<1>3. CleanInv => CleanAfterStreamLeavesNothing
  OBVIOUS
<1> HIDE DEF CleanInv
<1>4. QED
  BY <1>1, <1>2, <1>3, PTL DEF RunSpec

-----------------------------------------------------------------------------
(* The exit code of a run that is left alone *)

\* The quiet part of the invariant.
Quiet == QuietWorker /\ QuietClient

\* What the worker does of itself keeps the client's job in its hands.
LEMMA QuietWorkerStep ==
  ASSUME IInv, Quiet, WorkerStep, Observe(FALSE) PROVE Quiet'
<1> USE MineAssumption DEF Quiet
<1>0. TypeOK /\ GoroutinesMatchJobs /\ GuardsMatchJobs
  BY DEF IInv
<1>1. UNCHANGED client
  BY DEF WorkerStep
<1>2. ASSUME NEW outcome \in Outcome,
             ProcExit(Mine, outcome) \/ (ProcDies(Mine) /\ outcome = "error")
      PROVE  Quiet'
  <2>1. /\ proc[Mine] \in Alive /\ proc'[Mine] = outcome
        /\ UNCHANGED <<worker, registry, sweep, stopping, run, info, killers, guard>>
    BY <1>0, <1>2 DEF ProcExit, ProcDies, TypeOK, Alive, Unkilled
  <2>2. result' = outcome
    BY <1>2, <2>1 DEF Observe, Outcome
  <2>3. Live(Mine) => IsRunning(Mine)
    BY <2>1 DEF QuietWorker, Alive, Outcome
  <2>4. QED
    BY <1>1, <2>1, <2>2, <2>3
    DEF QuietWorker, QuietClient, client, Live, IsRunning
<1>3. CASE StartFail(Mine)
  <2>1. /\ run[Mine] = "opened" /\ run'[Mine] = "failed"
        /\ UNCHANGED <<worker, registry, sweep, stopping, info, proc, killers, guard>>
    BY <1>0, <1>3 DEF StartFail, TypeOK
  <2>2. guard[<<"watchdog", Mine>>] = "idle"
    BY <1>0, <2>1 DEF GuardsMatchJobs, Guards
  <2>3. QED
    BY <1>1, <2>1, <2>2 DEF QuietWorker, QuietClient, client, Live
<1>4. CASE StartLaunch(Mine)
  <2>1. /\ run[Mine] = "opened" /\ run'[Mine] = "launched"
        /\ info'[Mine] = Running /\ proc'[Mine] \in {"running", "loose"}
        /\ UNCHANGED <<worker, registry, sweep, stopping, killers, guard>>
    BY <1>0, <1>4 DEF StartLaunch, TypeOK, Started
  <2>2. IsRunning(Mine)' /\ proc'[Mine] \notin Outcome
    BY <2>1 DEF IsRunning, Running, Outcome
  <2>3. QED
    BY <1>1, <2>1, <2>2 DEF QuietWorker, QuietClient, client, Live
<1>5. CASE Register(Mine)
  <2>1. /\ run[Mine] = "launched" /\ run'[Mine] = "served" /\ Mine \in registry'
        /\ guard'[<<"watchdog", Mine>>] = guard[<<"watchdog", Mine>>]
        /\ guard'[<<"timer", Mine>>] \in {"armed", guard[<<"timer", Mine>>]}
        /\ UNCHANGED <<worker, sweep, stopping, info, proc, killers>>
    BY <1>0, <1>5 DEF Register, TypeOK, Guards
  <2>2. result' = result
    BY <2>1 DEF Observe, Alive, Outcome
  <2>3. QED
    BY <1>1, <2>1, <2>2 DEF QuietWorker, QuietClient, client, Live, IsRunning
<1>6. CASE WaitExitSave(Mine)
  <2>1. /\ waiter[Mine] = "waiting" /\ proc[Mine] \in Outcome
        /\ info'[Mine] = FinalInfo(Mine)
        /\ UNCHANGED <<worker, registry, sweep, stopping, run, proc, killers, guard>>
    BY <1>0, <1>6 DEF WaitExitSave, TypeOK
  <2>2. result' = result
    BY <2>1 DEF Observe, Alive, Outcome
  <2>3. Live(Mine)
    BY <1>0, <2>1 DEF GoroutinesMatchJobs
  <2>4. result' \in Outcome /\ info'[Mine] = ExitInfo(result')
    BY <2>1, <2>2, <2>3 DEF QuietWorker, FinalInfo
  <2>5. ~IsRunning(Mine)'
    BY <2>4 DEF IsRunning, ExitInfo
  <2>6. ~IsRunning(Mine) => info'[Mine] = info[Mine]
    BY <2>1 DEF FinalInfo
  <2>7. QED
    BY <1>1, <2>1, <2>2, <2>3, <2>4, <2>5, <2>6
    DEF QuietWorker, QuietClient, client, Live
<1>7. CASE WaitExitRelease(Mine)
  <2>1. UNCHANGED <<worker, registry, sweep, stopping, run, info, proc, killers, guard>>
    BY <1>7 DEF WaitExitRelease
  <2>2. result' = result
    BY <2>1 DEF Observe, Alive, Outcome
  <2>3. QED
    BY <1>1, <2>1, <2>2 DEF QuietWorker, QuietClient, client, Live, IsRunning
<1>8. ~(KillApply(Mine) \/ StopKill(Mine))
  BY DEF QuietWorker, KillApply, StopKill
<1>9. ASSUME NEW g \in Guards PROVE ~(GuardKill(g, Mine) \/ GuardDrop(g, Mine) \/ GuardWipe(g, Mine))
  BY DEF QuietWorker, GuardKill, GuardDrop, GuardWipe, Guards
<1>10. ~(SweepDisk \/ StopDrain \/ StopExit \/ Boot)
  BY DEF QuietWorker, SweepDisk, StopDrain, StopExit, Boot
<1>11. QED
  BY <1>2, <1>3, <1>4, <1>5, <1>6, <1>7, <1>8, <1>9, <1>10 DEF WorkerStep, Outcome

\* The client's own steps lead it to the exit code of the command.
LEMMA QuietClientStep ==
  ASSUME IInv, Quiet, ClientStep, Observe(FALSE) PROVE Quiet'
<1> USE MineAssumption DEF Quiet
<1>0. TypeOK /\ GoroutinesMatchJobs /\ GuardsMatchJobs
  BY DEF IInv
<1>a. guard[<<"watchdog", Mine>>] # "idle" => run[Mine] = "served"
  BY <1>0 DEF GuardsMatchJobs, Guards
<1>b. ~(StreamLost \/ SendKill \/ KillAnswered)
  <2>1. ~(SendKill \/ KillAnswered)
    BY DEF QuietClient, SendKill, KillAnswered
  <2>2. ~StreamLost
    BY <1>a DEF QuietClient, StreamLost, WatchdogLost
  <2>3. QED
    BY <2>1, <2>2
<1>1. CASE Dispatched \/ StreamHistory \/ QueryAnswered
  <2>1. UNCHANGED <<vars, attached>>
    BY <1>1 DEF Dispatched, StreamHistory, QueryAnswered
  <2>2. QuietWorker'
    BY <2>1 DEF QuietWorker, vars, Live, IsRunning, Observe, Alive, Outcome
  <2>a. UNCHANGED <<registry, run, info, guard, attached>>
    BY <2>1 DEF vars
  <2>3. CASE Dispatched
    <3>1. /\ phase = "dispatching" /\ phase' = "following" /\ run[Mine] = "served"
          /\ UNCHANGED <<listed, streamErr, code>>
      BY <2>3 DEF Dispatched, Goto
    <3>2. QED
      BY <2>2, <2>a, <3>1 DEF QuietClient
  <2>4. CASE StreamHistory
    <3>1. /\ phase = "following" /\ phase' = "querying" /\ ~attached /\ listed
          /\ Mine \in registry => ~IsRunning(Mine)
          /\ UNCHANGED <<listed, streamErr, code>>
      BY <2>4 DEF StreamHistory, Goto
    <3>2. QED
      BY <2>2, <2>a, <3>1 DEF QuietClient, IsRunning
  <2>5. CASE QueryAnswered
    <3>1. /\ phase = "querying" /\ phase' \in {"cleaning", "exited"} /\ listed
          /\ code' = info[Mine].exit
          /\ UNCHANGED <<listed, streamErr>>
      BY <2>5 DEF QueryAnswered, Goto, AfterRun, ExitCodeOf
    <3>2. QED
      BY <2>2, <2>a, <3>1 DEF QuietClient, IsRunning
  <2>6. QED
    BY <1>1, <2>2, <2>3, <2>4, <2>5
<1>2. CASE Attach
  <2>1. /\ guard'[<<"watchdog", Mine>>] = "armed" /\ attached' /\ ~attached /\ listed
        /\ guard'[<<"timer", Mine>>] = guard[<<"timer", Mine>>]
        /\ IsRunning(Mine) /\ Live(Mine)
        /\ phase \notin {"idle", "dispatching"} /\ phase' = phase
        /\ UNCHANGED <<worker, registry, sweep, stopping, run, info, proc, killers,
                       listed, streamErr, code>>
    BY <1>0, <1>2 DEF Attach, WatchdogAttach, TypeOK, Guards
  <2>2. result' = result
    BY <2>1 DEF Observe, Alive, Outcome
  <2>3. phase = "following"
    BY <2>1, <1>0 DEF QuietClient, Live
  <2>4. QED
    BY <2>1, <2>2, <2>3 DEF QuietWorker, QuietClient, Live, IsRunning
<1>3. CASE StreamEnds
  <2>1. /\ guard[<<"watchdog", Mine>>] = "armed" /\ waiter[Mine] = "done"
        /\ guard'[<<"watchdog", Mine>>] = "over"
        /\ guard'[<<"timer", Mine>>] = guard[<<"timer", Mine>>]
        /\ UNCHANGED <<worker, registry, sweep, stopping, run, info, proc, killers,
                       listed, streamErr, attached, code>>
    BY <1>0, <1>3 DEF StreamEnds, WatchdogEnd, TypeOK, Guards
  <2>2. result' = result
    BY <2>1 DEF Observe, Alive, Outcome
  <2>3. phase = "following" /\ ~IsRunning(Mine) /\ run[Mine] = "served"
    BY <1>0, <1>a, <2>1 DEF QuietClient, GoroutinesMatchJobs
  <2>4. phase' = "querying"
    BY <1>3, <2>3 DEF StreamEnds, Goto
  <2>5. QED
    BY <2>1, <2>2, <2>3, <2>4 DEF QuietWorker, QuietClient, Live, IsRunning
<1>4. CASE Clean
  <2>1. /\ phase = "cleaning" /\ phase' = "exited" /\ listed
        /\ UNCHANGED <<worker, sweep, stopping, run, info, proc, killers, guard,
                       listed, streamErr, attached, code>>
    BY <1>4 DEF Clean, CleanOne, Goto
  <2>2. result' = result
    BY <2>1 DEF Observe, Alive, Outcome
  <2>3. QED
    BY <2>1, <2>2 DEF QuietWorker, QuietClient, Live, IsRunning
<1>5. CASE CallRefused
  <2>1. UNCHANGED <<vars, attached>>
    BY <1>5 DEF CallRefused, CallFails
  <2>2. QuietWorker'
    BY <2>1 DEF QuietWorker, vars, Live, IsRunning, Observe, Alive, Outcome
  <2>a. UNCHANGED <<registry, run, info, guard, listed>>
    BY <1>5, <2>1 DEF CallRefused, CallFails, vars
  <2>3. CASE phase = "dispatching"
    <3>1. run[Mine] = "failed" /\ phase' = "exited" /\ ~streamErr'
      BY <1>5, <2>3 DEF CallRefused, CallFails, Refused, QuietClient, Goto
    <3>2. guard[<<"watchdog", Mine>>] = "idle"
      BY <1>a, <3>1
    <3>3. QED
      BY <2>1, <2>2, <2>a, <2>3, <3>1, <3>2 DEF QuietClient
  <2>4. CASE phase = "cleaning"
    <3>1. code' = code /\ phase' = "exited" /\ (streamErr' <=> streamErr)
      BY <1>5, <2>4 DEF CallRefused, CallFails, Goto
    <3>2. QED
      BY <2>1, <2>2, <2>a, <2>4, <3>1 DEF QuietClient, IsRunning
  <2>5. CASE phase = "following" /\ ~listed
    <3>1. phase' = "querying" /\ streamErr'
      BY <1>5, <2>5 DEF CallRefused, CallFails, Goto
    <3>2. QED
      BY <2>1, <2>2, <2>a, <2>5, <3>1 DEF QuietClient, IsRunning
  <2>6. CASE phase = "querying" /\ ~listed
    <3>1. /\ streamErr /\ run[Mine] = "served"
      BY <2>6 DEF QuietClient
    <3>2. phase' \in {"cleaning", "exited"} /\ streamErr' /\ code' = 1
      BY <1>5, <2>6, <3>1 DEF CallRefused, CallFails, Goto, AfterRun
    <3>3. QED
      BY <2>1, <2>2, <2>a, <2>6, <3>1, <3>2 DEF QuietClient, IsRunning
  <2>7. ~(phase \in {"following", "querying"} /\ listed)
    BY <1>5 DEF CallRefused, Refused, QuietClient, QuietWorker, Serving, Unknown
  <2>8. phase \in {"dispatching", "cleaning", "following", "querying"}
    BY <1>5 DEF CallRefused, CallFails, Calls, Phases, QuietClient
  <2>9. QED
    BY <2>3, <2>4, <2>5, <2>6, <2>7, <2>8
<1>6. QED
  BY <1>b, <1>1, <1>2, <1>3, <1>4, <1>5 DEF ClientStep

LEMMA RunNextKeeps == RunInv /\ [RunNext]_runVars => RunInv'
<1> SUFFICES ASSUME RunInv, [RunNext]_runVars PROVE RunInv'
  OBVIOUS
<1> USE MineAssumption
<1>0. IInv /\ FollowInv /\ TypeOK /\ IInv' /\ FollowInv'
  <2>1. [Next]_vars
    BY StepOfWorker DEF runVars
  <2>2. QED
    BY <2>1, InvNext, FollowNext DEF RunInv, IInv
<1>a. SUFFICES ASSUME ~meddled' PROVE Quiet'
  BY <1>0 DEF RunInv, Quiet
<1>1. ASSUME NEW kind \in Kinds, Dispatch(kind), Observe(FALSE) PROVE Quiet'
  <2>1. Quiet
    BY <1>1, <1>a DEF Observe, RunInv, Quiet
  <2>2. /\ phase = "idle" /\ phase' = "dispatching" /\ run'[Mine] = "opened"
        /\ run[Mine] = "new"
        /\ UNCHANGED <<worker, registry, sweep, stopping, info, proc, killers, guard,
                       listed, streamErr, attached, code>>
    BY <1>0, <1>1 DEF Dispatch, StartOpen, Goto, TypeOK
  <2>3. QED
    BY <2>1, <2>2 DEF Quiet, QuietWorker, QuietClient, Live
<1>2. CASE ClientStep /\ Observe(FALSE)
  <2>1. Quiet
    BY <1>2, <1>a DEF Observe, RunInv, Quiet
  <2>2. QED
    BY <1>0, <1>2, <2>1, QuietClientStep
<1>3. CASE WorkerStep /\ Observe(FALSE)
  <2>1. Quiet
    BY <1>3, <1>a DEF Observe, RunInv, Quiet
  <2>2. QED
    BY <1>0, <1>3, <2>1, QuietWorkerStep
<1>4. CASE Timer /\ Observe(guard'[<<"timer", Mine>>] = "killing")
  <2>1. Quiet /\ guard'[<<"timer", Mine>>] # "killing"
    BY <1>4, <1>a DEF Observe, RunInv, Quiet
  <2>2. /\ guard'[<<"timer", Mine>>] = "over"
        /\ guard'[<<"watchdog", Mine>>] = guard[<<"watchdog", Mine>>]
        /\ UNCHANGED <<worker, registry, sweep, stopping, run, info, proc, killers>>
    BY <1>0, <1>4, <2>1 DEF Timer, TimerFire, TypeOK, Guards
  <2>3. UNCHANGED client /\ result' = result
    BY <1>4, <2>2 DEF Timer, Observe, Alive, Outcome
  <2>4. QED
    BY <2>1, <2>2, <2>3
    DEF Quiet, QuietWorker, QuietClient, client, Live, IsRunning
<1>5. ~((OthersStep \/ Interrupt \/ Killed \/ ConnectionBreaks) /\ Observe(TRUE))
  BY <1>a DEF Observe
<1>6. CASE UNCHANGED runVars
  BY <1>a, <1>6
  DEF RunInv, Quiet, QuietWorker, QuietClient, runVars, vars, client, Live, IsRunning
<1>7. QED
  BY <1>1, <1>2, <1>3, <1>4, <1>5, <1>6 DEF RunNext

THEOREM RunInvariant == RunSpec => []RunInv
<1>1. RunInit => RunInv
  <2> SUFFICES ASSUME RunInit PROVE RunInv
    OBVIOUS
  <2>1. IInv /\ FollowInv
    BY InvInit DEF RunInit, FollowInv
  <2>2. QuietWorker /\ QuietClient
    BY MineAssumption
    DEF RunInit, Init, QuietWorker, QuietClient, Live, Guards
  <2>3. QED
    BY <2>1, <2>2 DEF RunInv
<1>2. QED
  BY <1>1, RunNextKeeps, PTL DEF RunSpec

\* A run that is left alone ends with the exit code of its command, or with 1 on a
\* machine that nodes.json does not have.
THEOREM QuietRunIsAligned == RunSpec => []ExitCodeOfQuietRun
<1>1. RunInv => ExitCodeOfQuietRun
  <2> SUFFICES ASSUME RunInv, phase = "exited", ~meddled, run[Mine] = "served"
               PROVE  IF listed THEN code = 0 <=> result = "ok" ELSE code = 1
    BY DEF ExitCodeOfQuietRun
  <2>1. QuietWorker /\ QuietClient
    BY DEF RunInv
  <2>2. CASE listed
    <3>1. code = info[Mine].exit /\ info[Mine] = ExitInfo(result) /\ result \in Outcome
      BY <2>1, <2>2 DEF QuietWorker, QuietClient, Live
    <3>2. QED
      BY <2>2, <3>1 DEF ExitInfo, Outcome
  <2>3. CASE ~listed
    BY <2>1, <2>3 DEF QuietClient
  <2>4. QED
    BY <2>2, <2>3
<1>2. QED
  BY <1>1, RunInvariant, PTL
-----------------------------------------------------------------------------
(* Types of the client *)

\* Every variable of cw run keeps its type.
THEOREM ClientTypeCorrect == RunSpec => []ClientTypeOK
<1>1. RunInit => ClientTypeOK
  <2> QED BY TypeInit, LedgersAssumption DEF RunInit, ClientTypeOK, Phases, ExitCodes
<1>2. ASSUME IInv, IInv', ClientTypeOK, [RunNext]_runVars PROVE ClientTypeOK'
  <2> USE MineAssumption DEF ClientTypeOK, client, runVars, Goto
  <2>1. TypeOK'
    BY <1>2 DEF IInv
  <2>2. result' \in {"none"} \cup Outcome /\ meddled' \in BOOLEAN
    BY <1>2 DEF RunNext, Observe, Outcome
  <2>3. phase' \in Phases
    BY <1>2 DEF RunNext, ClientStep, WorkerStep, OthersStep, Timer, Dispatch, Dispatched, Attach,
                StreamEnds, StreamHistory, StreamLost, Interrupt, SendKill, KillAnswered,
                QueryAnswered, Clean, CallRefused, CallFails, ConnectionBreaks, Killed,
                AfterRun, Phases
  <2>4. streamErr' \in BOOLEAN /\ attached' \in BOOLEAN
        /\ followed' \in BOOLEAN /\ cleaned' \in BOOLEAN
    <3>1. CASE UNCHANGED <<streamErr, attached, followed, cleaned>>
      BY <1>2, <3>1
    <3>2. CASE CallFails
      BY <1>2, <3>2 DEF CallFails
    <3>3. CASE Attach \/ StreamEnds \/ Clean
      BY <1>2, <3>3 DEF Attach, StreamEnds, Clean
    <3> QED BY <1>2, <3>1, <3>2, <3>3
            DEF RunNext, ClientStep, WorkerStep, OthersStep, Timer, Dispatch, Dispatched,
                StreamHistory, StreamLost, Interrupt, SendKill, KillAnswered, QueryAnswered,
                CallRefused, ConnectionBreaks, Killed
  <2>5. code' \in ExitCodes \cup {130}
    <3>1. CASE UNCHANGED code
      BY <1>2, <3>1
    <3>2. CASE CallFails
      BY <1>2, <3>2 DEF CallFails, ExitCodes
    <3>3. CASE Interrupt \/ QueryAnswered
      <4>1. info[Mine] \in Info \cup {NoInfo}
        BY <1>2 DEF TypeOK, MaybeInfo
      <4>2. info[Mine].exit \in ExitCodes
        BY <4>1 DEF Info, NoInfo, ExitCodes
      <4> QED BY <1>2, <3>3, <4>2 DEF Interrupt, QueryAnswered, ExitCodeOf
    <3> QED BY <1>2, <3>1, <3>2, <3>3
            DEF RunNext, ClientStep, WorkerStep, OthersStep, Timer, Dispatch, Dispatched,
                Attach, StreamEnds, StreamHistory, StreamLost, SendKill, KillAnswered, Clean,
                CallRefused, ConnectionBreaks, Killed
  <2>6. listed' \in BOOLEAN
    BY <1>2 DEF RunNext, ClientStep, WorkerStep, OthersStep, Timer, Dispatch, Dispatched,
                Attach, StreamEnds, StreamHistory, StreamLost, Interrupt, SendKill,
                KillAnswered, QueryAnswered, Clean, CallRefused, CallFails,
                ConnectionBreaks, Killed
  <2> QED BY <2>1, <2>2, <2>3, <2>4, <2>5, <2>6
<1>3. IInv /\ IInv' /\ ClientTypeOK /\ [RunNext]_runVars => ClientTypeOK'
  BY <1>2
<1> QED BY <1>1, <1>3, RunIsWorker, Invariant, PTL DEF RunSpec

=============================================================================
