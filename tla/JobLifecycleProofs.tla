------------------------- MODULE JobLifecycleProofs -------------------------
(***************************************************************************)
(* Proofs about JobLifecycle, for every set of jobs, of request kinds and  *)
(* of clean modes.                                                         *)
(***************************************************************************)
EXTENDS JobLifecycle, TLAPS

USE DEF RunKinds, AllCleanModes, Alive, Unkilled

-----------------------------------------------------------------------------
(* Typing *)

\* The two file-system operators stay within Files, and so does hydration.
LEMMA FilesTyped ==
  ASSUME NEW d \in Files, NEW open \in BOOLEAN
  PROVE  RemoveAll(d, open) \in Files /\ Healed(d) \in MaybeInfo
<1>1. RemoveAll(d, open) \in Files
  BY DEF RemoveAll, Files, NoFiles, MaybeInfo
<1>2. Healed(d) \in MaybeInfo
  BY DEF Healed, Interrupted, Files, MaybeInfo, Info, Status, Terminal, ExitCodes
<1>3. QED
  BY <1>1, <1>2

LEMMA SaveTyped ==
  ASSUME NEW d \in Files, NEW i \in MaybeInfo, NEW result \in SaveResult
  PROVE  /\ SaveJobMeta(d, i, result) \in Files
         /\ HealedFiles(d, result) \in Files
<1>1. \A m \in MaybeInfo : SaveJobMeta(d, m, result) \in Files
  BY DEF SaveJobMeta, Files, MaybeInfo, NoInfo
<1>2. Healed(d) \in MaybeInfo
  BY FilesTyped
<1>3. QED
  BY <1>1, <1>2 DEF HealedFiles

\* The records the worker writes are well formed.
LEMMA InfosTyped ==
  /\ Running \in MaybeInfo
  /\ Interrupted \in MaybeInfo
  /\ NoInfo \in MaybeInfo
  /\ \A o \in Outcome : ExitInfo(o) \in MaybeInfo
BY DEF Running, Interrupted, NoInfo, ExitInfo, Outcome, MaybeInfo, Info, Status,
       Terminal, ExitCodes

LEMMA StoppedTyped ==
  ASSUME NEW i \in MaybeInfo PROVE [i EXCEPT !.status = "STOPPED"] \in MaybeInfo
BY DEF NoInfo, MaybeInfo, Info, Status, Terminal, ExitCodes

\* What SaveJobMeta does to a directory and the record in it, done or not.
LEMMA SavedFiles ==
  ASSUME NEW d \in Files, NEW i \in MaybeInfo, NEW result \in SaveResult
  PROVE  /\ SaveJobMeta(d, i, result).dir = d.dir
         /\ SaveJobMeta(d, i, result).log = d.log
         /\ SaveJobMeta(d, i, result).meta \in {d.meta, i, NoInfo}
         /\ ~d.dir => SaveJobMeta(d, i, result) = d
BY DEF SaveJobMeta, Files

\* A save touches one job, whose record becomes the one that was to be saved,
\* stays, or is gone.
LEMMA SaveEffect ==
  ASSUME TypeOK, NEW j \in Jobs, NEW i \in MaybeInfo, Save(j, i)
  PROVE  /\ disk' \in [Jobs -> Files] /\ unsaved' \subseteq Jobs
         /\ \A k \in Jobs \ {j} :
              disk'[k] = disk[k] /\ (k \in unsaved' <=> k \in unsaved)
         /\ disk'[j].dir = disk[j].dir
         /\ disk'[j].log = disk[j].log
         /\ disk'[j].meta \in {disk[j].meta, i, NoInfo}
         /\ disk'[j].meta = i \/ j \in unsaved'
         /\ ~disk[j].dir => disk'[j] = disk[j]
<1>1. PICK result \in SaveResult :
        /\ disk' = [disk EXCEPT ![j] = SaveJobMeta(disk[j], i, result)]
        /\ unsaved' = IF SaveJobMeta(disk[j], i, result).meta = i
                      THEN unsaved \ {j} ELSE unsaved \cup {j}
  BY DEF Save
<1> DEFINE saved == SaveJobMeta(disk[j], i, result)
<1>2. /\ saved \in Files
      /\ saved.dir = disk[j].dir /\ saved.log = disk[j].log
      /\ saved.meta \in {disk[j].meta, i, NoInfo}
      /\ ~disk[j].dir => saved = disk[j]
  BY SaveTyped, SavedFiles DEF TypeOK
<1>3. /\ disk' = [disk EXCEPT ![j] = saved]
      /\ unsaved' = IF saved.meta = i THEN unsaved \ {j} ELSE unsaved \cup {j}
  BY <1>1
<1> HIDE DEF saved
<1>4. disk'[j] = saved /\ \A k \in Jobs \ {j} : disk'[k] = disk[k]
  BY <1>3 DEF TypeOK
<1>5. QED
  BY <1>2, <1>3, <1>4 DEF TypeOK

\* ManagedJob.Kill keeps the four variables it touches well typed.
LEMMA KillTyped ==
  ASSUME TypeOK, NEW j \in Jobs, Kill(j)
  PROVE  /\ info' \in [Jobs -> MaybeInfo]
         /\ disk' \in [Jobs -> Files]
         /\ unsaved' \subseteq Jobs
         /\ proc' \in [Jobs -> {"none"} \cup Alive \cup Outcome]
<1>1. CASE Live(j) /\ IsRunning(j)
  <2> DEFINE stopped == [info[j] EXCEPT !.status = "STOPPED"]
  <2>1. stopped \in MaybeInfo
    BY StoppedTyped DEF TypeOK
  <2>2. /\ info' = [info EXCEPT ![j] = stopped]
        /\ Save(j, stopped)
        /\ \E end \in Terminated(proc[j]) : proc' = [proc EXCEPT ![j] = end]
    BY <1>1 DEF Kill
  <2> HIDE DEF stopped
  <2>3. disk' \in [Jobs -> Files] /\ unsaved' \subseteq Jobs
    BY <2>1, <2>2, SaveEffect
  <2>4. Terminated(proc[j]) \subseteq {"none"} \cup Alive \cup Outcome
    BY DEF Terminated, TypeOK
  <2>5. proc' \in [Jobs -> {"none"} \cup Alive \cup Outcome]
    BY <2>2, <2>4 DEF TypeOK
  <2>6. info' \in [Jobs -> MaybeInfo]
    BY <2>1, <2>2 DEF TypeOK
  <2>7. QED
    BY <2>3, <2>5, <2>6
<1>2. CASE ~(Live(j) /\ IsRunning(j))
  BY <1>2 DEF Kill, TypeOK
<1>3. QED
  BY <1>1, <1>2

\* What is left of a directory is well typed.
LEMMA WipedTyped ==
  ASSUME TypeOK, NEW j \in Jobs, NEW files \in Wiped(j) PROVE files \in Files
<1>1. PICK read \in Reading : files = RemoveAll(disk[j], LogOpen(j) \/ read)
  BY DEF Wiped
<1>2. (LogOpen(j) \/ read) \in BOOLEAN /\ disk[j] \in Files
  BY DEF LogOpen, Reading, TypeOK
<1>3. QED
  BY <1>1, <1>2, FilesTyped, InfosTyped

\* A sweep wipes the files of its victims and keeps the disk well typed.
LEMMA SweepTyped ==
  ASSUME TypeOK, NEW victims \in SUBSET Jobs, Sweep(victims)
  PROVE  /\ \A j \in Jobs : IF j \in victims THEN disk'[j] \in Wiped(j)
                                             ELSE disk'[j] = disk[j]
         /\ disk' \in [Jobs -> Files]
         /\ registry' \subseteq Jobs
<1>1. PICK read \in [victims -> Reading] :
        disk' = [j \in Jobs |-> IF j \in victims
                                THEN RemoveAll(disk[j], LogOpen(j) \/ read[j])
                                ELSE disk[j]]
  BY DEF Sweep
<1>2. \A j \in Jobs : IF j \in victims THEN disk'[j] \in Wiped(j)
                                      ELSE disk'[j] = disk[j]
  BY <1>1 DEF Wiped
<1>3. \A j \in Jobs : disk'[j] \in Files
  BY <1>2, WipedTyped DEF TypeOK
<1>4. QED
  BY <1>1, <1>2, <1>3 DEF Sweep, TypeOK

\* So does what wipes the files of one job.
LEMMA WipeTyped ==
  ASSUME TypeOK, NEW j \in Jobs, CleanOne(j) \/ \E g \in Guards : GuardWipe(g, j)
  PROVE  /\ disk'[j] \in Wiped(j)
         /\ \A k \in Jobs \ {j} : disk'[k] = disk[k]
         /\ disk' \in [Jobs -> Files]
<1>1. PICK files \in Wiped(j) : disk' = [disk EXCEPT ![j] = files]
  BY DEF CleanOne, GuardWipe
<1>2. files \in Files
  BY WipedTyped
<1>3. QED
  BY <1>1, <1>2 DEF TypeOK

LEMMA TypeInit == Init => TypeOK
<1> SUFFICES ASSUME Init PROVE TypeOK
  OBVIOUS
<1>1. NoFiles \in Files
  BY DEF Files, NoFiles, MaybeInfo
<1>2. disk \in [Jobs -> Files] /\ info \in [Jobs -> MaybeInfo]
  BY <1>1 DEF Init, MaybeInfo
<1>3. guard \in [Guards \X Jobs -> GuardState]
  BY DEF Init, GuardState
<1>4. QED
  BY <1>2, <1>3 DEF Init, TypeOK

\* Every action keeps TypeOK, one step per group of actions that touch the same
\* variables.
LEMMA TypeNext == TypeOK /\ [Next]_vars => TypeOK'
<1> SUFFICES ASSUME TypeOK, [Next]_vars PROVE TypeOK'
  OBVIOUS
<1> USE InfosTyped
<1>1. ASSUME NEW j \in Jobs, NEW kind \in Kinds, StartOpen(j, kind)
      PROVE  TypeOK'
  BY <1>1, KindsAssumption DEF StartOpen, TypeOK, Files, NoFiles
<1>2. ASSUME NEW j \in Jobs,
             (\E outcome \in Outcome : ProcExit(j, outcome)) \/ ProcDies(j)
      PROVE  TypeOK'
  BY <1>2 DEF ProcExit, ProcDies, TypeOK, Outcome
<1>3. ASSUME NEW j \in Jobs, StartFail(j) \/ KillLookup(j) PROVE TypeOK'
  BY <1>3 DEF StartFail, KillLookup, TypeOK
<1>4. ASSUME NEW j \in Jobs,
             WatchdogAttach(j) \/ WatchdogEnd(j) \/ WatchdogLost(j) \/ TimerFire(j)
      PROVE  TypeOK'
  BY <1>4 DEF WatchdogAttach, WatchdogEnd, WatchdogLost, TimerFire, TypeOK,
              Guards, GuardState
<1>5. ASSUME NEW j \in Jobs, CleanOne(j) PROVE TypeOK'
  <2>1. disk' \in [Jobs -> Files]
    BY <1>5, WipeTyped
  <2>2. QED
    BY <1>5, <2>1 DEF CleanOne, TypeOK
<1>6. ASSUME NEW mode \in CleanModes \ {"one"}, SweepRegistry(mode) PROVE TypeOK'
  <2>1. PICK victims \in SUBSET Jobs : Sweep(victims) /\ swept' = victims
    BY <1>6 DEF SweepRegistry, Chosen, TypeOK
  <2>2. QED
    BY <1>6, <2>1, SweepTyped, CleanModesAssumption DEF SweepRegistry, TypeOK
<1>7. ASSUME SweepDisk PROVE TypeOK'
  <2>1. PICK victims \in SUBSET Jobs : Sweep(victims)
    BY <1>7 DEF SweepDisk, Chosen, TypeOK
  <2>2. QED
    BY <1>7, <2>1, SweepTyped DEF SweepDisk, TypeOK
<1>8. ASSUME StopBegin \/ StopDrain \/ RequestBegins \/ RequestEnds PROVE TypeOK'
  BY <1>8 DEF StopBegin, StopDrain, RequestBegins, RequestEnds, TypeOK
<1>9. ASSUME StopExit \/ Crash PROVE TypeOK'
  <2>1. Die
    BY <1>9 DEF StopExit, Crash
  <2>2. run' \in [Jobs -> {"new", "opened", "launched", "served", "failed", "lost"}]
    BY <2>1 DEF Die, TypeOK
  <2>3. guard' \in [Guards \X Jobs -> GuardState]
    BY <2>1 DEF Die, GuardState
  <2>4. info' \in [Jobs -> MaybeInfo]
    BY <2>1 DEF Die
  <2>5. proc' \in [Jobs -> {"none"} \cup Alive \cup Outcome]
    BY <2>1 DEF Die
  <2>6. QED
    BY <2>1, <2>2, <2>3, <2>4, <2>5 DEF Die, TypeOK
<1>10. ASSUME Boot PROVE TypeOK'
  <2>1. PICK result \in [Jobs -> SaveResult] :
          disk' = [j \in Jobs |-> HealedFiles(disk[j], result[j])]
    BY <1>10 DEF Boot
  <2>2. \A j \in Jobs : /\ HealedFiles(disk[j], result[j]) \in Files
                        /\ Healed(disk[j]) \in MaybeInfo
    BY FilesTyped, SaveTyped, InfosTyped DEF TypeOK
  <2>3. disk' \in [Jobs -> Files]
    BY <2>1, <2>2
  <2>4. info' \in [Jobs -> MaybeInfo] /\ registry' \subseteq Jobs
        /\ unsaved' \subseteq Jobs
    BY <1>10, <2>2 DEF Boot
  <2>5. QED
    BY <1>10, <2>3, <2>4 DEF Boot, TypeOK
<1>11. ASSUME NEW j \in Jobs, StartLaunch(j) PROVE TypeOK'
  <2>1. disk' \in [Jobs -> Files] /\ unsaved' \subseteq Jobs
    BY <1>11, SaveEffect DEF StartLaunch
  <2>2. proc' \in [Jobs -> {"none"} \cup Alive \cup Outcome]
    BY <1>11 DEF StartLaunch, Started, TypeOK
  <2>3. QED
    BY <1>11, <2>1, <2>2 DEF StartLaunch, TypeOK
<1>12. ASSUME NEW j \in Jobs, Register(j) PROVE TypeOK'
  BY <1>12 DEF Register, TypeOK, Guards, GuardState
<1>13. ASSUME NEW j \in Jobs, WaitExitSave(j) PROVE TypeOK'
  <2>1. FinalInfo(j) \in MaybeInfo
    BY <1>13 DEF WaitExitSave, FinalInfo, TypeOK
  <2>2. disk' \in [Jobs -> Files] /\ unsaved' \subseteq Jobs
    BY <1>13, <2>1, SaveEffect DEF WaitExitSave
  <2>3. QED
    BY <1>13, <2>1, <2>2 DEF WaitExitSave, TypeOK
<1>14. ASSUME NEW j \in Jobs, WaitExitRelease(j) PROVE TypeOK'
  BY <1>14 DEF WaitExitRelease, TypeOK
<1>15. ASSUME NEW j \in Jobs, KillApply(j) \/ StopKill(j) PROVE TypeOK'
  <2>1. Kill(j)
    BY <1>15 DEF KillApply, StopKill
  <2>2. QED
    BY <1>15, <2>1, KillTyped DEF KillApply, StopKill, TypeOK
<1>16. ASSUME NEW j \in Jobs, NEW g \in Guards, GuardKill(g, j) PROVE TypeOK'
  <2>1. Kill(j)
    BY <1>16 DEF GuardKill
  <2>2. QED
    BY <1>16, <2>1, KillTyped DEF GuardKill, TypeOK, GuardState
<1>17. ASSUME NEW j \in Jobs, NEW g \in Guards, GuardDrop(g, j) PROVE TypeOK'
  BY <1>17 DEF GuardDrop, TypeOK, GuardState
<1>18. ASSUME NEW j \in Jobs, NEW g \in Guards, GuardWipe(g, j) PROVE TypeOK'
  <2>1. disk' \in [Jobs -> Files]
    BY <1>18, WipeTyped
  <2>2. QED
    BY <1>18, <2>1 DEF GuardWipe, TypeOK, GuardState
<1>19. CASE UNCHANGED vars
  BY <1>19 DEF vars, TypeOK
<1>20. QED
  BY <1>1, <1>2, <1>3, <1>4, <1>5, <1>6, <1>7, <1>8, <1>9, <1>10, <1>11, <1>12,
     <1>13, <1>14, <1>15, <1>16, <1>17, <1>18, <1>19
  DEF Next, Environment, JobStep

\* Every variable keeps its type, whatever clients do and however often the
\* worker crashes.
THEOREM TypeCorrect == Spec => []TypeOK
<1>1. QED
  BY TypeInit, TypeNext, PTL DEF Spec

-----------------------------------------------------------------------------
(* The inductive invariant *)

\* What RemoveAll leaves: never a record, and everything it can.
LEMMA RemoveEffect ==
  ASSUME NEW d \in Files, NEW open \in BOOLEAN
  PROVE  /\ RemoveAll(d, open).meta = NoInfo
         /\ ~open => RemoveAll(d, open) = NoFiles
         /\ d.dir => RemoveAll(d, open).dir \/ RemoveAll(d, open) = NoFiles
         /\ d = NoFiles => RemoveAll(d, open) = NoFiles
<1>1. CASE open /\ d.log
  <2>1. RemoveAll(d, open) = [dir |-> d.dir, log |-> d.log, meta |-> NoInfo]
    BY <1>1 DEF RemoveAll, Files
  <2>2. d = NoFiles => RemoveAll(d, open) = NoFiles
    BY <2>1 DEF NoFiles
  <2>3. RemoveAll(d, open).meta = NoInfo /\ RemoveAll(d, open).dir = d.dir
    BY <2>1
  <2>4. QED
    BY <1>1, <2>2, <2>3
<1>2. CASE ~(open /\ d.log)
  BY <1>2 DEF RemoveAll, NoFiles
<1>3. QED
  BY <1>1, <1>2

\* The same of what may be left of a job's directory.
LEMMA WipedEffect ==
  ASSUME TypeOK, NEW j \in Jobs, NEW files \in Wiped(j)
  PROVE  /\ files.meta = NoInfo
         /\ disk[j].dir => files.dir \/ files = NoFiles
         /\ disk[j] = NoFiles => files = NoFiles
         /\ ~LogOpen(j) /\ ~Viewed => files = NoFiles
<1>1. PICK read \in Reading : files = RemoveAll(disk[j], LogOpen(j) \/ read)
  BY DEF Wiped
<1>2. /\ (LogOpen(j) \/ read) \in BOOLEAN /\ disk[j] \in Files
      /\ ~Viewed => ~read
  BY DEF LogOpen, Reading, TypeOK
<1>3. QED
  BY <1>1, <1>2, RemoveEffect

\* What hydration makes of a directory: nothing RUNNING, no outcome rewritten,
\* and on disk what it was, unless it is healed.
LEMMA HealEffect ==
  ASSUME NEW d \in Files, NEW result \in SaveResult
  PROVE  /\ Healed(d).status # "RUNNING"
         /\ d.meta.status \in Terminal =>
              Healed(d) = d.meta /\ HealedFiles(d, result) = d
         /\ d = NoFiles => Healed(d) = NoInfo /\ HealedFiles(d, result) = NoFiles
         /\ HealedFiles(d, result).dir = d.dir
         /\ HealedFiles(d, result).log = d.log
         /\ HealedFiles(d, result).meta \in {d.meta, Healed(d), NoInfo}
         /\ ~d.dir => HealedFiles(d, result) = d
<1>1. Healed(d).status # "RUNNING"
  BY DEF Healed, Interrupted, NoInfo
<1>2. d.meta.status \in Terminal => Healed(d) = d.meta
  BY DEF Healed, Terminal, NoInfo
<1>3. d = NoFiles => Healed(d) = NoInfo /\ NoFiles.meta = NoInfo
  BY DEF Healed, NoFiles, NoInfo
<1>4. Healed(d) \in MaybeInfo
  BY FilesTyped
<1>5. /\ HealedFiles(d, result).dir = d.dir
      /\ HealedFiles(d, result).log = d.log
      /\ HealedFiles(d, result).meta \in {d.meta, Healed(d), NoInfo}
      /\ ~d.dir => HealedFiles(d, result) = d
  BY <1>4, SavedFiles DEF HealedFiles
<1>6. Healed(d) = d.meta => HealedFiles(d, result) = d
  BY DEF HealedFiles
<1>7. QED
  BY <1>1, <1>2, <1>3, <1>5, <1>6

\* What ManagedJob.Kill does: it touches one job, leaves it not RUNNING with no
\* process that could be terminated and has not been told to end, and keeps its
\* record, changes it to what its status has become, or loses it.
LEMMA KillEffect ==
  ASSUME TypeOK, NEW j \in Jobs, Kill(j)
  PROVE  /\ \A k \in Jobs \ {j} : /\ info'[k] = info[k]
                                  /\ disk'[k] = disk[k]
                                  /\ proc'[k] = proc[k]
                                  /\ k \in unsaved' <=> k \in unsaved
         /\ Live(j) => ~IsRunning(j)'
         /\ ~(Live(j) /\ IsRunning(j)) =>
              UNCHANGED <<info, disk, proc, unsaved>>
         /\ Live(j) /\ IsRunning(j) =>
              /\ info'[j] = [info[j] EXCEPT !.status = "STOPPED"]
              /\ info'[j].status = "STOPPED"
              /\ disk'[j].dir = disk[j].dir /\ disk'[j].log = disk[j].log
              /\ disk'[j].meta \in {disk[j].meta, info'[j], NoInfo}
              /\ disk'[j].meta = info'[j] \/ j \in unsaved'
              /\ ~disk[j].dir => disk'[j] = disk[j]
              /\ proc'[j] \in Terminated(proc[j])
<1>1. CASE Live(j) /\ IsRunning(j)
  <2> DEFINE stopped == [info[j] EXCEPT !.status = "STOPPED"]
  <2>1. stopped \in MaybeInfo /\ stopped.status = "STOPPED"
    <3>1. info[j] \in MaybeInfo
      BY DEF TypeOK
    <3>2. QED
      BY <3>1, StoppedTyped DEF MaybeInfo, Info, NoInfo
  <2>2. /\ info' = [info EXCEPT ![j] = stopped]
        /\ Save(j, stopped)
        /\ \E end \in Terminated(proc[j]) : proc' = [proc EXCEPT ![j] = end]
    BY <1>1 DEF Kill
  <2>3. info'[j] = stopped
    BY <2>2 DEF TypeOK
  <2> HIDE DEF stopped
  <2>4. /\ \A k \in Jobs \ {j} :
             disk'[k] = disk[k] /\ (k \in unsaved' <=> k \in unsaved)
        /\ disk'[j].dir = disk[j].dir /\ disk'[j].log = disk[j].log
        /\ disk'[j].meta \in {disk[j].meta, stopped, NoInfo}
        /\ disk'[j].meta = stopped \/ j \in unsaved'
        /\ ~disk[j].dir => disk'[j] = disk[j]
    BY <2>1, <2>2, SaveEffect
  <2>5. /\ \A k \in Jobs \ {j} : info'[k] = info[k] /\ proc'[k] = proc[k]
        /\ proc'[j] \in Terminated(proc[j])
    BY <2>2 DEF TypeOK
  <2>6. info'[j].status = "STOPPED"
    BY <2>1, <2>3
  <2>7. info'[j] = [info[j] EXCEPT !.status = "STOPPED"]
    BY <2>3 DEF stopped
  <2>8. QED
    BY <1>1, <2>3, <2>4, <2>5, <2>6, <2>7 DEF IsRunning
<1>2. CASE ~(Live(j) /\ IsRunning(j))
  BY <1>2 DEF Kill, IsRunning
<1>3. QED
  BY <1>1, <1>2

LEMMA InvInit == Init => IInv
<1>1. Init => TypeOK
  BY TypeInit
<1>2. QED
  BY <1>1 DEF Init, IInv, RunningIsReachable, RecordMatchesMemory,
     GoroutinesMatchJobs, RegistryMatchesJobs, GuardsMatchJobs, FilesMatchJobs,
     DownIsEmpty, Live, IsRunning, NoInfo, NoFiles

\* Removing the files of jobs whose records need no protection keeps IInv's
\* conjuncts about files.
LEMMA SweepKeeps ==
  ASSUME IInv, NEW victims \in SUBSET Jobs, Sweep(victims),
         \A j \in victims : ~Protected(j),
         UNCHANGED <<worker, run, info, waiter, proc, guard, unsaved>>
  PROVE  RunningIsReachable' /\ RecordMatchesMemory' /\ FilesMatchJobs'
<1>1. \A j \in Jobs : IF j \in victims THEN disk'[j] \in Wiped(j)
                                      ELSE disk'[j] = disk[j]
  BY SweepTyped DEF IInv
<1>2. \A j \in victims : /\ disk'[j].meta = NoInfo
                         /\ disk[j].dir => disk'[j].dir \/ disk'[j] = NoFiles
                         /\ disk[j] = NoFiles => disk'[j] = NoFiles
  BY <1>1, WipedEffect DEF IInv
<1>3. RunningIsReachable'
  BY DEF IInv, RunningIsReachable, Sweep, Protected, Live, IsRunning
<1>4. RecordMatchesMemory'
  BY <1>1, <1>2 DEF IInv, RecordMatchesMemory, Live
<1>5. FilesMatchJobs'
  BY <1>1, <1>2 DEF IInv, FilesMatchJobs, Live, NoInfo
<1>6. QED
  BY <1>3, <1>4, <1>5

\* A kill keeps everything but the state of the guards, and leaves its job not
\* RUNNING.
LEMMA KillKeeps ==
  ASSUME IInv, NEW j \in Jobs, Kill(j),
         UNCHANGED <<worker, registry, run, waiter>>
  PROVE  /\ RunningIsReachable'
         /\ RecordMatchesMemory'
         /\ GoroutinesMatchJobs'
         /\ FilesMatchJobs'
         /\ DownIsEmpty'
         /\ \A k \in Jobs : IsRunning(k)' => IsRunning(k)
         /\ ~IsRunning(j)'
<1>1. TypeOK
  BY DEF IInv
<1>2. NoFiles.meta = NoInfo /\ NoInfo.status = "none" /\ ~NoFiles.dir
  BY DEF NoFiles, NoInfo
<1>3. CASE Live(j) /\ IsRunning(j)
  <2>1. /\ disk'[j].meta \in {disk[j].meta, info'[j], NoInfo}
        /\ disk'[j].meta = info'[j] \/ j \in unsaved'
        /\ ~disk[j].dir => disk'[j] = disk[j]
        /\ disk'[j].dir = disk[j].dir
        /\ info'[j].status = "STOPPED"
        /\ proc'[j] \in Terminated(proc[j])
    BY <1>1, <1>3, KillEffect
  <2>2. \A k \in Jobs \ {j} : /\ info'[k] = info[k]
                              /\ disk'[k] = disk[k]
                              /\ proc'[k] = proc[k]
                              /\ k \in unsaved' <=> k \in unsaved
    BY <1>1, KillEffect
  <2>3. info[j] = Running /\ waiter[j] = "waiting"
    BY <1>3 DEF IInv, GoroutinesMatchJobs
  <2>4. RunningIsReachable'
    BY <2>1, <2>2 DEF IInv, RunningIsReachable, Live, IsRunning
  <2>5. RecordMatchesMemory'
    BY <1>3, <2>1, <2>2, <2>3 DEF IInv, RecordMatchesMemory, Live
  <2>6. GoroutinesMatchJobs'
    <3>1. proc'[j] # "running"
      BY <2>1 DEF Terminated
    <3>2. QED
      BY <2>1, <2>2, <2>3, <3>1 DEF IInv, GoroutinesMatchJobs, Live, IsRunning
  <2>7. FilesMatchJobs'
    BY <1>2, <1>3, <2>1, <2>2 DEF IInv, FilesMatchJobs, Live
  <2>8. QED
    BY <2>1, <2>2, <2>4, <2>5, <2>6, <2>7 DEF IInv, DownIsEmpty, IsRunning
<1>4. CASE ~(Live(j) /\ IsRunning(j))
  <2>1. UNCHANGED <<info, disk, proc, unsaved>>
    BY <1>1, <1>4, KillEffect
  <2>2. QED
    BY <1>4, <2>1 DEF IInv, RunningIsReachable, RecordMatchesMemory,
       GoroutinesMatchJobs, FilesMatchJobs, DownIsEmpty, Live, IsRunning
<1>5. QED
  BY <1>3, <1>4

\* A step that leaves the guards alone, takes no job out of "served" and makes
\* none RUNNING there keeps what ties them to their jobs.
LEMMA GuardsKept ==
  ASSUME GuardsMatchJobs, UNCHANGED <<guard, req>>,
         \A k \in Jobs : run[k] = "served" => run'[k] = "served",
         \A k \in Jobs : run[k] = "served" /\ IsRunning(k)' => IsRunning(k)
  PROVE  GuardsMatchJobs'
<1> SUFFICES ASSUME NEW g \in Guards, NEW k \in Jobs
             PROVE  /\ guard[<<g, k>>] # "idle" => run'[k] = "served"
                    /\ guard[<<g, k>>] \in {"dropping", "wiping"} => ~IsRunning(k)'
                    /\ guard[<<g, k>>] = "killing" => KillOnDisconnect(k)
                    /\ g = "timer" /\ guard[<<g, k>>] = "armed" => KillOnDisconnect(k)
  BY DEF GuardsMatchJobs, KillOnDisconnect
<1>1. QED
  BY DEF GuardsMatchJobs

\* One step per action.  TypeOK' is TypeNext's; what is shown is the rest.
LEMMA InvNext == IInv /\ [Next]_vars => IInv'
<1> SUFFICES ASSUME IInv, [Next]_vars PROVE IInv'
  OBVIOUS
<1>0. TypeOK /\ TypeOK'
  BY TypeNext DEF IInv
<1> DEFINE Rest == /\ RunningIsReachable
                   /\ RecordMatchesMemory
                   /\ GoroutinesMatchJobs
                   /\ RegistryMatchesJobs
                   /\ GuardsMatchJobs
                   /\ FilesMatchJobs
                   /\ DownIsEmpty
<1>a. SUFFICES Rest'
  BY <1>0 DEF IInv
<1>b. Rest
  BY DEF IInv
<1> USE DEF RunningIsReachable, RecordMatchesMemory, GoroutinesMatchJobs,
            RegistryMatchesJobs, GuardsMatchJobs, FilesMatchJobs, DownIsEmpty,
            Live, IsRunning, KillOnDisconnect
<1>1. ASSUME NEW j \in Jobs, NEW kind \in Kinds, StartOpen(j, kind)
      PROVE  Rest'
  <2>1. /\ disk'[j].meta = NoInfo /\ disk'[j].dir
        /\ \A k \in Jobs \ {j} : disk'[k] = disk[k]
        /\ NoInfo.status = "none"
    BY <1>0, <1>1 DEF StartOpen, TypeOK, NoInfo
  <2>2. QED
    BY <1>0, <1>b, <1>1, <2>1 DEF StartOpen, TypeOK, Serving
<1>2. ASSUME NEW j \in Jobs,
             (\E outcome \in Outcome : ProcExit(j, outcome)) \/ ProcDies(j)
      PROVE  Rest'
  <2>1. \A k \in Jobs : proc'[k] \in Outcome \/ proc'[k] = proc[k]
    BY <1>0, <1>2 DEF ProcExit, ProcDies, TypeOK, Outcome
  <2>2. UNCHANGED <<worker, registry, run, req, info, waiter, guard, disk, unsaved>>
    BY <1>2 DEF ProcExit, ProcDies
  <2>3. QED
    BY <1>b, <2>1, <2>2 DEF Outcome
<1>3. ASSUME NEW j \in Jobs, StartFail(j) \/ KillLookup(j) PROVE Rest'
  <2>1. CASE KillLookup(j)
    BY <1>b, <2>1 DEF KillLookup
  <2>2. CASE StartFail(j)
    <3>1. /\ run[j] = "opened" /\ run'[j] = "failed"
          /\ \A k \in Jobs \ {j} : run'[k] = run[k]
      BY <1>0, <2>2 DEF StartFail, TypeOK
    <3>2. UNCHANGED <<worker, registry, req, info, waiter, proc, guard, disk, unsaved>>
      BY <2>2 DEF StartFail
    <3>3. GuardsMatchJobs'
      <4>1. \A k \in Jobs : /\ run[k] = "served" => run'[k] = "served"
                            /\ IsRunning(k)' => IsRunning(k)
        BY <3>1, <3>2
      <4>2. QED
        BY <1>b, <3>2, <4>1, GuardsKept
    <3>4. ~Live(j) /\ ~Live(j)' /\ j \notin registry
      BY <1>b, <3>1
    <3>5. \A k \in Jobs : Live(k)' <=> Live(k)
      BY <3>1, <3>4
    <3>6. RunningIsReachable' /\ RecordMatchesMemory' /\ GoroutinesMatchJobs'
      BY <1>b, <3>1, <3>2, <3>5
    <3>7. FilesMatchJobs'
      BY <1>b, <3>1, <3>2, <3>5 DEF NoInfo
    <3>8. RegistryMatchesJobs' /\ DownIsEmpty'
      BY <1>0, <1>b, <3>1, <3>2 DEF TypeOK
    <3>9. QED
      BY <3>3, <3>6, <3>7, <3>8
  <2>3. QED
    BY <1>3, <2>1, <2>2
<1>4. ASSUME NEW j \in Jobs,
             WatchdogAttach(j) \/ WatchdogEnd(j) \/ WatchdogLost(j) \/ TimerFire(j)
      PROVE  Rest'
  <2>1. run[j] = "served"
    <3>1. CASE WatchdogAttach(j)
      BY <1>b, <3>1 DEF WatchdogAttach
    <3>2. CASE WatchdogEnd(j) \/ WatchdogLost(j) \/ TimerFire(j)
      BY <1>b, <3>2 DEF WatchdogEnd, WatchdogLost, TimerFire, Guards
    <3>3. QED
      BY <1>4, <3>1, <3>2
  <2>2. PICK g \in Guards, s \in {"armed", "killing", "over"} :
          guard' = [guard EXCEPT ![<<g, j>>] = s]
    BY <1>4 DEF WatchdogAttach, WatchdogEnd, WatchdogLost, TimerFire, Guards
  <2>3. \A h \in Guards, k \in Jobs :
          guard'[<<h, k>>] = IF h = g /\ k = j THEN s ELSE guard[<<h, k>>]
    BY <1>0, <2>2 DEF TypeOK
  <2>4. UNCHANGED <<worker, registry, run, req, info, waiter, proc, disk, unsaved>>
    BY <1>4 DEF WatchdogAttach, WatchdogEnd, WatchdogLost, TimerFire
  <2>5. /\ s = "killing" => KillOnDisconnect(j)
        /\ s = "armed" => g = "watchdog"
    <3>1. CASE TimerFire(j)
      BY <1>0, <1>b, <2>2, <3>1 DEF TimerFire, TypeOK, Guards
    <3>2. CASE WatchdogAttach(j) \/ WatchdogEnd(j) \/ WatchdogLost(j)
      BY <1>0, <2>2, <3>2
      DEF WatchdogAttach, WatchdogEnd, WatchdogLost, TypeOK, Guards
    <3>3. QED
      BY <1>4, <3>1, <3>2
  <2>6. QED
    BY <1>b, <2>1, <2>3, <2>4, <2>5
<1>5. ASSUME NEW j \in Jobs, CleanOne(j) PROVE Rest'
  <2>1. Sweep({j}) /\ ~Protected(j)
    <3>1. PICK read \in Reading :
            disk' = [disk EXCEPT ![j] = RemoveAll(disk[j], LogOpen(j) \/ read)]
      BY <1>5 DEF CleanOne, Wiped
    <3> DEFINE reads == [k \in {j} |-> read]
    <3>2. reads \in [{j} -> Reading] /\ reads[j] = read
      OBVIOUS
    <3>3. disk' = [k \in Jobs |-> IF k \in {j}
                                  THEN RemoveAll(disk[k], LogOpen(k) \/ reads[k])
                                  ELSE disk[k]]
      BY <1>0, <3>1, <3>2 DEF TypeOK
    <3> HIDE DEF reads
    <3>4. QED
      BY <1>5, <3>2, <3>3 DEF CleanOne, Sweep
  <2>2. QED
    BY <1>0, <1>b, <1>5, <2>1, SweepKeeps DEF CleanOne, TypeOK
<1>6. ASSUME NEW mode \in CleanModes \ {"one"}, SweepRegistry(mode) PROVE Rest'
  <2>1. PICK victims \in SUBSET Jobs :
          Sweep(victims) /\ \A j \in victims : ~Protected(j)
    BY <1>0, <1>6 DEF SweepRegistry, Chosen, Protected, TypeOK
  <2>2. UNCHANGED <<worker, run, req, info, waiter, proc, guard, unsaved>>
    BY <1>6 DEF SweepRegistry
  <2>3. RunningIsReachable' /\ RecordMatchesMemory' /\ FilesMatchJobs'
    BY <2>1, <2>2, SweepKeeps
  <2>4. QED
    BY <1>b, <2>1, <2>2, <2>3 DEF Sweep
<1>7. ASSUME SweepDisk PROVE Rest'
  <2>1. PICK victims \in SUBSET Jobs :
          Sweep(victims) /\ \A j \in victims : ~Protected(j)
    BY <1>0, <1>7 DEF SweepDisk, Chosen, TypeOK
  <2>2. UNCHANGED <<worker, run, req, info, waiter, proc, guard, unsaved>>
    BY <1>7 DEF SweepDisk
  <2>3. RunningIsReachable' /\ RecordMatchesMemory' /\ FilesMatchJobs'
    BY <2>1, <2>2, SweepKeeps
  <2>4. QED
    BY <1>b, <2>1, <2>2, <2>3 DEF Sweep
<1>8. ASSUME StopBegin \/ StopDrain \/ RequestBegins \/ RequestEnds PROVE Rest'
  BY <1>0, <1>b, <1>8 DEF StopBegin, StopDrain, RequestBegins, RequestEnds, TypeOK
<1>9. ASSUME StopExit \/ Crash PROVE Rest'
  <2>1. Die
    BY <1>9 DEF StopExit, Crash
  <2>2. QED
    BY <1>0, <1>b, <2>1 DEF Die, TypeOK, NoInfo
<1>10. ASSUME Boot PROVE Rest'
  <2>1. PICK result \in [Jobs -> SaveResult] :
          disk' = [j \in Jobs |-> HealedFiles(disk[j], result[j])]
    BY <1>10 DEF Boot
  <2>2. \A j \in Jobs : /\ info'[j] = Healed(disk[j])
                        /\ disk'[j].meta = info'[j] \/ j \in unsaved'
                        /\ disk'[j] = HealedFiles(disk[j], result[j])
    BY <1>10, <2>1 DEF Boot
  <2>3. \A j \in Jobs : /\ Healed(disk[j]).status # "RUNNING"
                        /\ disk[j] = NoFiles => Healed(disk[j]) = NoInfo
                        /\ disk[j] = NoFiles => disk'[j] = NoFiles
                        /\ disk'[j].dir = disk[j].dir
                        /\ ~disk[j].dir => disk'[j] = disk[j]
    BY <1>0, <2>2, HealEffect DEF TypeOK
  <2>4. \A j \in Jobs : run[j] \in {"new", "failed", "lost"}
    BY <1>0, <1>b, <1>10 DEF Boot, TypeOK
  <2>5. UNCHANGED <<run, waiter, proc, guard, req>>
        /\ registry' = {j \in Jobs : Healed(disk[j]) # NoInfo}
    BY <1>10 DEF Boot
  <2>6. RegistryMatchesJobs'
    BY <1>b, <2>3, <2>4, <2>5
  <2>7. FilesMatchJobs'
    BY <1>b, <2>2, <2>3, <2>4, <2>5
  <2>8. GoroutinesMatchJobs' /\ RecordMatchesMemory' /\ RunningIsReachable'
    BY <1>b, <2>2, <2>3, <2>4, <2>5
  <2>9. GuardsMatchJobs'
    BY <1>b, <2>2, <2>3, <2>4, <2>5
  <2>10. DownIsEmpty'
    BY <1>10 DEF Boot
  <2>11. QED
    BY <2>6, <2>7, <2>8, <2>9, <2>10
<1>11. ASSUME NEW j \in Jobs, StartLaunch(j) PROVE Rest'
  <2>1. /\ \A k \in Jobs \ {j} :
             disk'[k] = disk[k] /\ (k \in unsaved' <=> k \in unsaved)
        /\ disk'[j].dir = disk[j].dir
        /\ disk'[j].meta \in {disk[j].meta, Running, NoInfo}
        /\ ~disk[j].dir => disk'[j] = disk[j]
    BY <1>0, <1>11, SaveEffect, InfosTyped DEF StartLaunch
  <2>2. /\ run[j] = "opened" /\ disk[j].meta = NoInfo /\ NoInfo.status = "none"
        /\ info'[j] = Running /\ waiter'[j] = "waiting" /\ run'[j] = "launched"
        /\ \A k \in Jobs \ {j} : /\ info'[k] = info[k] /\ waiter'[k] = waiter[k]
                                 /\ run'[k] = run[k] /\ proc'[k] = proc[k]
        /\ UNCHANGED <<worker, registry, req, guard>>
    BY <1>0, <1>b, <1>11 DEF StartLaunch, TypeOK, NoInfo
  <2>3. Running.status = "RUNNING"
    BY DEF Running
  <2>4. RecordMatchesMemory' /\ FilesMatchJobs'
    BY <1>b, <2>1, <2>2
  <2>5. RunningIsReachable' /\ RegistryMatchesJobs' /\ DownIsEmpty'
    BY <1>0, <1>b, <2>2 DEF TypeOK
  <2>6. GoroutinesMatchJobs'
    BY <1>b, <2>2, <2>3
  <2>7. GuardsMatchJobs'
    <3>1. \A k \in Jobs : run[k] = "served" => run'[k] = "served" /\ k # j
      BY <2>2
    <3>2. \A k \in Jobs : run[k] = "served" /\ IsRunning(k)' => IsRunning(k)
      BY <2>2, <3>1
    <3>3. QED
      BY <1>b, <2>2, <3>1, <3>2, GuardsKept
  <2>8. QED
    BY <2>4, <2>5, <2>6, <2>7
<1>12. ASSUME NEW j \in Jobs, Register(j) PROVE Rest'
  BY <1>0, <1>b, <1>12 DEF Register, TypeOK, MuFree
<1>13. ASSUME NEW j \in Jobs, WaitExitSave(j) PROVE Rest'
  <2>1. FinalInfo(j) \in MaybeInfo /\ FinalInfo(j).status # "RUNNING"
    BY <1>0, <1>13, InfosTyped DEF WaitExitSave, FinalInfo, ExitInfo, TypeOK
  <2>2. /\ \A k \in Jobs \ {j} :
             disk'[k] = disk[k] /\ (k \in unsaved' <=> k \in unsaved)
        /\ disk'[j].dir = disk[j].dir
        /\ disk'[j].meta \in {disk[j].meta, FinalInfo(j), NoInfo}
        /\ disk'[j].meta = FinalInfo(j) \/ j \in unsaved'
        /\ ~disk[j].dir => disk'[j] = disk[j]
    BY <1>0, <1>13, <2>1, SaveEffect DEF WaitExitSave
  <2>3. /\ info'[j] = FinalInfo(j)
        /\ waiter[j] = "waiting" /\ waiter'[j] = "saved" /\ proc[j] \in Outcome
        /\ \A k \in Jobs \ {j} : info'[k] = info[k] /\ waiter'[k] = waiter[k]
        /\ UNCHANGED <<worker, registry, run, req, proc, guard>>
    BY <1>0, <1>13 DEF WaitExitSave, TypeOK
  <2>4. NoFiles.meta = NoInfo /\ NoInfo.status = "none" /\ ~NoFiles.dir
    BY DEF NoFiles, NoInfo
  <2>5. disk[j].meta \in {NoInfo, info[j], Running} /\ Live(j)
    BY <1>b, <2>3
  <2>6. FinalInfo(j) = info[j] \/ info[j] = Running
    BY <1>b, <2>3 DEF FinalInfo
  <2>7. RecordMatchesMemory'
    BY <1>b, <2>2, <2>3, <2>5, <2>6
  <2>8. FilesMatchJobs'
    BY <1>b, <2>1, <2>2, <2>3, <2>4, <2>5
  <2>9. GoroutinesMatchJobs'
    <3>1. \A k \in Jobs : /\ Live(k)' <=> Live(k)
                          /\ waiter'[k] # "none" <=> waiter[k] # "none"
      BY <2>3
    <3>2. \A k \in Jobs : IsRunning(k)' => waiter'[k] = "waiting" /\ info'[k] = Running
      BY <1>b, <2>1, <2>3
    <3>3. \A k \in Jobs : proc'[k] = "running" => IsRunning(k)'
      BY <1>b, <2>3 DEF Outcome
    <3>4. \A k \in Jobs : proc'[k] \in {"dying", "spared"} => waiter'[k] = "waiting"
      BY <1>b, <2>3 DEF Outcome
    <3>5. QED
      BY <1>b, <3>1, <3>2, <3>3, <3>4
  <2>10. RunningIsReachable' /\ RegistryMatchesJobs' /\ DownIsEmpty'
    BY <1>b, <2>1, <2>3
  <2>11. GuardsMatchJobs'
    <3>1. \A k \in Jobs : IsRunning(k)' => IsRunning(k)
      BY <2>1, <2>3
    <3>2. QED
      BY <1>b, <2>3, <3>1, GuardsKept
  <2>12. QED
    BY <2>7, <2>8, <2>9, <2>10, <2>11
<1>14. ASSUME NEW j \in Jobs, WaitExitRelease(j) PROVE Rest'
  BY <1>0, <1>b, <1>14 DEF WaitExitRelease, TypeOK
<1>15. ASSUME NEW j \in Jobs, KillApply(j) \/ StopKill(j) PROVE Rest'
  <2>1. Kill(j) /\ UNCHANGED <<worker, registry, run, req, waiter, guard>>
    BY <1>15 DEF KillApply, StopKill
  <2>2. QED
    BY <1>0, <1>b, <2>1, KillKeeps
<1>16. ASSUME NEW j \in Jobs, NEW g \in Guards, GuardKill(g, j) PROVE Rest'
  <2>1. Kill(j) /\ UNCHANGED <<worker, registry, run, req, waiter>>
    BY <1>16 DEF GuardKill
  <2>2. /\ run[j] = "served"
        /\ \A h \in Guards, k \in Jobs :
             \/ guard'[<<h, k>>] = guard[<<h, k>>]
             \/ k = j /\ guard'[<<h, k>>] \in {"dropping", "over"}
    BY <1>0, <1>b, <1>16 DEF GuardKill, TypeOK
  <2>3. QED
    BY <1>0, <1>b, <2>1, <2>2, KillKeeps
<1>17. ASSUME NEW j \in Jobs, NEW g \in Guards, GuardDrop(g, j) PROVE Rest'
  BY <1>0, <1>b, <1>17 DEF GuardDrop, TypeOK
<1>18. ASSUME NEW j \in Jobs, NEW g \in Guards, GuardWipe(g, j) PROVE Rest'
  <2>1. /\ disk'[j] \in Wiped(j)
        /\ \A k \in Jobs \ {j} : disk'[k] = disk[k]
    BY <1>0, <1>18, WipeTyped
  <2>2. /\ disk'[j].meta = NoInfo
        /\ disk[j].dir => disk'[j].dir \/ disk'[j] = NoFiles
        /\ disk[j] = NoFiles => disk'[j] = NoFiles
    BY <1>0, <2>1, WipedEffect
  <2>3. QED
    BY <1>0, <1>b, <1>18, <2>1, <2>2 DEF GuardWipe, TypeOK, NoInfo
<1>19. CASE UNCHANGED vars
  BY <1>b, <1>19 DEF vars
<1>20. QED
  BY <1>1, <1>2, <1>3, <1>4, <1>5, <1>6, <1>7, <1>8, <1>9, <1>10, <1>11, <1>12,
     <1>13, <1>14, <1>15, <1>16, <1>17, <1>18, <1>19
  DEF Next, Environment, JobStep

\* The invariant the theorems below are read off.
THEOREM Invariant == Spec => []IInv
<1>1. QED
  BY InvInit, InvNext, PTL DEF Spec

\* A RUNNING job can always be listed and killed.
THEOREM Reachable == Spec => []RunningIsReachable
<1>1. IInv => RunningIsReachable
  BY DEF IInv
<1>2. QED
  BY <1>1, Invariant, PTL

\* job.json never contradicts the worker that manages the job, but for the record
\* of its start when a later save has failed.
THEOREM RecordAgrees == Spec => []RecordMatchesMemory
<1>1. IInv => RecordMatchesMemory
  BY DEF IInv
<1>2. QED
  BY <1>1, Invariant, PTL

\* While a worker is up, a RUNNING record has a goroutine that will settle it, or
\* is there because a save failed.
THEOREM NoOrphanRecord == Spec => []RunningRecordHasWaiter
<1>1. IInv => RunningRecordHasWaiter
  <2> SUFFICES ASSUME IInv, NEW j \in Jobs, worker # "down",
                      disk[j].meta.status = "RUNNING"
               PROVE  waiter[j] = "waiting" \/ j \in unsaved
    BY DEF RunningRecordHasWaiter
  <2>1. CASE Live(j)
    <3>1. disk[j].meta # NoInfo
      BY DEF NoInfo
    <3>2. disk[j].meta = info[j] \/ j \in unsaved
      BY <2>1, <3>1 DEF IInv, RecordMatchesMemory
    <3>3. QED
      BY <3>2 DEF IInv, GoroutinesMatchJobs, IsRunning
  <2>2. CASE ~Live(j)
    BY <2>2 DEF IInv, FilesMatchJobs
  <2>3. QED
    BY <2>1, <2>2
<1>2. QED
  BY <1>1, Invariant, PTL

\* A job reported as ended has no process left to terminate, and one reported as
\* RUNNING has a waiter.
THEOREM Truthful == Spec => []StatusTellsTruth
<1>1. IInv => StatusTellsTruth
  BY DEF IInv, GoroutinesMatchJobs, StatusTellsTruth, Live, IsRunning
<1>2. QED
  BY <1>1, Invariant, PTL

-----------------------------------------------------------------------------
(* What a step may never do *)

\* A record with an outcome keeps it, or is removed.
LEMMA OutcomeStep ==
  ASSUME IInv, [Next]_vars, NEW k \in Jobs, disk[k].meta.status \in Terminal
  PROVE  disk'[k].meta \in {disk[k].meta, NoInfo}
<1> DEFINE Kept == disk'[k].meta \in {disk[k].meta, NoInfo}
<1> SUFFICES Kept
  OBVIOUS
<1>0. /\ TypeOK
      /\ NoInfo.status = "none" /\ NoFiles.meta = NoInfo
      /\ disk[k].meta # NoInfo /\ disk[k].meta.status # "RUNNING"
      /\ run[k] # "new" /\ run[k] # "opened"
      /\ Live(k) => disk[k].meta = info[k]
  <2>1. /\ NoInfo.status = "none" /\ NoFiles.meta = NoInfo
        /\ disk[k].meta # NoInfo /\ disk[k].meta.status # "RUNNING"
        /\ Running.status = "RUNNING"
    BY DEF NoInfo, NoFiles, Terminal, Running
  <2>2. QED
    BY <2>1 DEF IInv, FilesMatchJobs, RecordMatchesMemory
<1>1. ASSUME NEW j \in Jobs, Kill(j) PROVE Kept
  <2>1. CASE k = j /\ Live(j) /\ IsRunning(j)
    BY <1>0, <2>1 DEF IsRunning
  <2>2. CASE ~(k = j /\ Live(j) /\ IsRunning(j))
    BY <1>0, <1>1, <2>2, KillEffect
  <2>3. QED
    BY <2>1, <2>2
<1>2. ASSUME NEW victims \in SUBSET Jobs, Sweep(victims) PROVE Kept
  <2>1. IF k \in victims THEN disk'[k] \in Wiped(k) ELSE disk'[k] = disk[k]
    BY <1>0, <1>2, SweepTyped
  <2>2. QED
    BY <1>0, <2>1, WipedEffect
<1>3. ASSUME NEW j \in Jobs, NEW kind \in Kinds, StartOpen(j, kind) PROVE Kept
  BY <1>0, <1>3 DEF StartOpen, TypeOK
<1>4. ASSUME NEW j \in Jobs, StartLaunch(j) PROVE Kept
  <2>1. k # j /\ Save(j, Running)
    BY <1>0, <1>4 DEF StartLaunch
  <2>2. QED
    BY <1>0, <2>1, SaveEffect, InfosTyped
<1>5. ASSUME NEW j \in Jobs, WaitExitSave(j) PROVE Kept
  <2>1. CASE k = j
    <3>1. Live(k)
      BY <1>5, <2>1 DEF WaitExitSave, IInv, GoroutinesMatchJobs
    <3>2. FinalInfo(k) = disk[k].meta
      BY <1>0, <3>1 DEF FinalInfo, IsRunning
    <3>3. disk[k].meta \in MaybeInfo /\ Save(k, disk[k].meta)
      BY <1>0, <1>5, <2>1, <3>2 DEF WaitExitSave, TypeOK, Files
    <3>4. QED
      BY <1>0, <3>3, SaveEffect
  <2>2. CASE k # j
    <3>1. FinalInfo(j) \in MaybeInfo
      BY <1>0, <1>5, InfosTyped DEF WaitExitSave, FinalInfo, TypeOK
    <3>2. QED
      BY <1>0, <1>5, <2>2, <3>1, SaveEffect DEF WaitExitSave
  <2>3. QED
    BY <2>1, <2>2
<1>6. ASSUME NEW j \in Jobs,
             \/ CleanOne(j)
             \/ \E g \in Guards : GuardWipe(g, j)
      PROVE  Kept
  <2>1. disk'[k] \in Wiped(k) \/ disk'[k] = disk[k]
    BY <1>0, <1>6, WipeTyped
  <2>2. QED
    BY <1>0, <2>1, WipedEffect
<1>7. ASSUME NEW mode \in CleanModes, SweepRegistry(mode) PROVE Kept
  <2>1. PICK victims \in SUBSET Jobs : Sweep(victims)
    BY <1>0, <1>7 DEF SweepRegistry, Chosen, TypeOK
  <2>2. QED
    BY <1>2, <2>1
<1>8. ASSUME SweepDisk PROVE Kept
  <2>1. PICK victims \in SUBSET Jobs : Sweep(victims)
    BY <1>8 DEF SweepDisk, Chosen
  <2>2. QED
    BY <1>2, <2>1
<1>9. ASSUME Boot PROVE Kept
  <2>1. PICK result \in [Jobs -> SaveResult] :
          disk' = [j \in Jobs |-> HealedFiles(disk[j], result[j])]
    BY <1>9 DEF Boot
  <2>2. QED
    BY <1>0, <2>1, HealEffect DEF TypeOK
<1>10. ASSUME UNCHANGED disk PROVE Kept
  BY <1>10
<1>11. QED
  BY <1>1, <1>3, <1>4, <1>5, <1>6, <1>7, <1>8, <1>9, <1>10
  DEF Next, Environment, JobStep, vars, ProcExit, StartFail, KillLookup,
      WatchdogAttach, WatchdogLost, StopBegin, Crash, Die, StopDrain, StopExit,
      Register, WaitExitRelease, KillApply, StopKill, TimerFire, WatchdogEnd,
      GuardKill, GuardDrop, ProcDies, RequestBegins, RequestEnds

\* How a job ended is never rewritten.
THEOREM OutcomeFinal == Spec => OutcomeIsFinal
<1>1. IInv /\ [Next]_vars =>
        [\A j \in Jobs :
           disk[j].meta.status \in Terminal
             => disk'[j].meta \in {disk[j].meta, NoInfo}]_vars
  BY OutcomeStep
<1>2. QED
  BY <1>1, Invariant, PTL DEF Spec, OutcomeIsFinal

\* A job run without KillOnDisconnect is stopped by a kill or a shutdown only.
THEOREM PlainSpared == Spec => PlainJobsAreNotAutoKilled
<1> DEFINE Spared(j) ==
             /\ req[j] = "plain" /\ Live(j) /\ IsRunning(j)
             /\ info'[j].status = "STOPPED"
             => j \in killers \cup stopping
<1>1. ASSUME IInv, [Next]_vars, NEW k \in Jobs PROVE Spared(k)
  <2> SUFFICES ASSUME req[k] = "plain", Live(k), IsRunning(k),
                      info'[k].status = "STOPPED",
                      k \notin killers \cup stopping
               PROVE  FALSE
    OBVIOUS
  <2>0. TypeOK /\ info[k].status = "RUNNING" /\ worker # "down"
        /\ run[k] # "opened"
    BY <1>1 DEF IInv, DownIsEmpty, Live, IsRunning
  <2>1. ASSUME NEW j \in Jobs, Kill(j), k # j PROVE FALSE
    BY <2>0, <2>1, KillEffect
  <2>2. ASSUME NEW j \in Jobs, NEW g \in Guards, GuardKill(g, j) PROVE FALSE
    <3>1. k = j
      BY <2>1, <2>2 DEF GuardKill
    <3>2. KillOnDisconnect(j)
      BY <1>1, <2>2 DEF GuardKill, IInv, GuardsMatchJobs
    <3>3. QED
      BY <3>1, <3>2 DEF KillOnDisconnect
  <2>3. ASSUME NEW j \in Jobs, WaitExitSave(j) PROVE FALSE
    <3>1. info'[k] = info[k] \/ info'[k] = ExitInfo(proc[k])
      BY <2>0, <2>3 DEF WaitExitSave, FinalInfo, TypeOK
    <3>2. QED
      BY <2>0, <3>1 DEF ExitInfo
  <2>4. ASSUME NEW j \in Jobs, StartLaunch(j) PROVE FALSE
    BY <2>0, <2>4 DEF StartLaunch, TypeOK
  <2>5. ASSUME NEW j \in Jobs, KillApply(j) \/ StopKill(j) PROVE FALSE
    BY <2>1, <2>5 DEF KillApply, StopKill
  <2>6. ASSUME Die \/ Boot PROVE FALSE
    BY <2>0, <2>6 DEF Die, Boot, NoInfo
  <2>7. ASSUME UNCHANGED info PROVE FALSE
    BY <2>0, <2>7
  <2>8. QED
    BY <1>1, <2>2, <2>3, <2>4, <2>5, <2>6, <2>7
    DEF Next, Environment, JobStep, vars, StartOpen, ProcExit, StartFail,
        KillLookup, WatchdogAttach, WatchdogLost, CleanOne, SweepRegistry,
        SweepDisk, StopBegin, Crash, StopDrain, StopExit, Register,
        WaitExitRelease, TimerFire, WatchdogEnd, GuardDrop, GuardWipe, ProcDies,
        RequestBegins, RequestEnds
<1>2. IInv /\ [Next]_vars => [\A j \in Jobs : Spared(j)]_vars
  BY <1>1
<1>3. QED
  BY <1>2, Invariant, PTL DEF Spec, PlainJobsAreNotAutoKilled
=============================================================================
