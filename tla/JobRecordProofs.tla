--------------------------- MODULE JobRecordProofs ---------------------------
(***************************************************************************)
(* JobLifecycle keeps the promises of JobLedger, and RUNNING jobs keep     *)
(* their records, when no client asks for clean --all.  With clean --all   *)
(* neither holds: TLC shows the behaviour (JobLifecycle_clean_all.cfg).    *)
(***************************************************************************)
EXTENDS JobLifecycleProofs

\* A log that is open outlasts the removal of its directory, with it.
LEMMA LogEffect ==
  ASSUME NEW d \in Files, NEW open \in BOOLEAN
  PROVE  open /\ d.log => /\ RemoveAll(d, open).log = d.log
                          /\ RemoveAll(d, open).dir = d.dir
<1>1. ASSUME open, d.log
      PROVE  RemoveAll(d, open).log = d.log /\ RemoveAll(d, open).dir = d.dir
  <2>1. RemoveAll(d, open) = [dir |-> d.dir, log |-> d.log, meta |-> NoInfo]
    BY <1>1 DEF RemoveAll, Files
  <2>2. QED
    BY <2>1
<1>2. QED
  BY <1>1

\* A set of jobs whose files may go: none of them is RUNNING.
Expendable(victims) ==
  \A j \in victims : ~(Live(j) /\ IsRunning(j))

\* The parts of RecordInv, one job at a time.
Logged(j) == LogOpen(j) => disk[j].dir /\ disk[j].log
Informed(j) == Live(j) \/ j \in registry => info[j] # NoInfo
Claimed(j) == worker # "down" /\ disk[j].meta.status = "RUNNING" => AtHand(j)
Listed(j) ==
  j \in registry /\ ~Live(j)
    => disk[j].meta \in {NoInfo, info[j]} \/ disk[j].meta.status = "RUNNING"
Protects(j) ==
  Live(j) /\ IsRunning(j)
    => disk[j].log /\ (disk[j].meta = info[j] \/ j \in unsaved)
Sound(j) == Logged(j) /\ Informed(j) /\ Claimed(j) /\ Listed(j) /\ Protects(j)
NoSweepAll == sweep # "all" /\ (worker = "down" => sweep = "none")

LEMMA RecordParts == RecordInv <=> IInv /\ (\A j \in Jobs : Sound(j)) /\ NoSweepAll
BY DEF RecordInv, RunningKeepsRecord, Sound, Logged, Informed, Claimed, Listed,
       Protects, NoSweepAll

\* What a step leaves alone stays sound.
LEMMA SoundKept ==
  ASSUME NEW j \in Jobs, Sound(j), worker' = worker \/ worker # "down",
         run'[j] = run[j], info'[j] = info[j], waiter'[j] = waiter[j],
         disk'[j] = disk[j], j \in unsaved' <=> j \in unsaved,
         j \in registry' <=> j \in registry,
         \A g \in Guards : guard[<<g, j>>] = "wiping" => guard'[<<g, j>>] = "wiping"
  PROVE  Sound(j)'
BY DEF Sound, Logged, Informed, Claimed, Listed, Protects, LogOpen, Live, IsRunning,
       AtHand

\* Nor does the removal of the files of a job that is not RUNNING disturb it.
LEMMA WipeKeeps ==
  ASSUME TypeOK, NEW j \in Jobs, Sound(j), ~(Live(j) /\ IsRunning(j)),
         UNCHANGED <<run, info, waiter>>, registry' \subseteq registry,
         disk'[j] \in Wiped(j)
  PROVE  Sound(j)'
<1>1. disk'[j].meta = NoInfo /\ NoInfo.status = "none"
  BY WipedEffect DEF NoInfo
<1>2. Claimed(j)' /\ Listed(j)' /\ Informed(j)' /\ Protects(j)'
  BY <1>1 DEF Sound, Claimed, Listed, Informed, Protects, Live, IsRunning
<1>3. Logged(j)'
  <2>1. SUFFICES ASSUME LogOpen(j) PROVE disk'[j].dir /\ disk'[j].log
    BY DEF Logged, LogOpen
  <2>2. disk[j] \in Files /\ disk[j].dir /\ disk[j].log
    BY <2>1 DEF TypeOK, Sound, Logged
  <2>3. PICK read \in Reading : disk'[j] = RemoveAll(disk[j], LogOpen(j) \/ read)
    BY DEF Wiped
  <2>4. (LogOpen(j) \/ read) = TRUE
    BY <2>1
  <2>5. disk'[j] = RemoveAll(disk[j], TRUE)
    BY <2>3, <2>4
  <2>6. QED
    BY <2>2, <2>5, LogEffect
<1>4. QED
  BY <1>2, <1>3 DEF Sound

\* Both for the jobs of a clean or of a wipe, which forget their victims.
LEMMA SweepKeepsSound ==
  ASSUME RecordInv, NEW victims \in SUBSET Jobs, Expendable(victims),
         worker' = worker, UNCHANGED <<run, info, waiter, unsaved>>,
         registry' \subseteq registry, registry \ victims \subseteq registry',
         \A g \in Guards, j \in Jobs \ victims : guard'[<<g, j>>] = guard[<<g, j>>],
         \A j \in Jobs : IF j \in victims THEN disk'[j] \in Wiped(j)
                                         ELSE disk'[j] = disk[j]
  PROVE  \A j \in Jobs : Sound(j)'
<1>1. TypeOK /\ \A j \in Jobs : Sound(j)
  BY RecordParts DEF IInv
<1>2. ASSUME NEW j \in Jobs, j \in victims PROVE Sound(j)'
  BY <1>1, <1>2, WipeKeeps DEF Expendable
<1>3. ASSUME NEW j \in Jobs, j \notin victims PROVE Sound(j)'
  BY <1>1, <1>3, SoundKept
<1>4. QED
  BY <1>2, <1>3

LEMMA RecordInit == Init => RecordInv
<1> SUFFICES ASSUME Init PROVE RecordInv
  OBVIOUS
<1>1. IInv /\ NoSweepAll
  BY InvInit DEF Init, NoSweepAll
<1>2. ASSUME NEW j \in Jobs PROVE Sound(j)
  <2>1. /\ run[j] = "new" /\ waiter[j] = "none" /\ registry = {}
        /\ disk[j].meta.status = "none"
    BY DEF Init, NoFiles, NoInfo
  <2>2. QED
    BY <2>1 DEF Sound, Logged, Informed, Claimed, Listed, Protects, Live, LogOpen
<1>3. QED
  BY <1>1, <1>2, RecordParts

\* One step per group of actions; each job is sound after it.
LEMMA RecordNext ==
  ASSUME "all" \notin CleanModes, RecordInv, [Next]_vars
  PROVE  RecordInv'
<1> DEFINE Kept == (\A k \in Jobs : Sound(k)) /\ NoSweepAll
<1>0. IInv /\ TypeOK /\ IInv' /\ Kept
  BY InvNext, RecordParts DEF IInv
<1>a. SUFFICES Kept'
  BY <1>0 DEF RecordInv, RunningKeepsRecord, Sound, Logged, Informed, Claimed,
     Listed, Protects, NoSweepAll
<1>b. RegistryMatchesJobs /\ GuardsMatchJobs /\ GoroutinesMatchJobs /\ FilesMatchJobs
  BY <1>0 DEF IInv
<1> HIDE DEF Kept
<1>c. ASSUME UNCHANGED <<run, info, waiter, disk, unsaved, registry, guard, sweep>>,
             worker' = worker \/ (worker # "down" /\ worker' # "down")
      PROVE  Kept'
  BY <1>0, <1>c, SoundKept DEF Kept, NoSweepAll
<1>1. ASSUME NEW j \in Jobs, NEW kind \in Kinds, StartOpen(j, kind)
      PROVE  Kept'
  <2>1. /\ run[j] = "new" /\ run'[j] = "opened"
        /\ disk'[j] = [dir |-> TRUE, log |-> TRUE, meta |-> NoInfo]
        /\ \A k \in Jobs \ {j} : run'[k] = run[k] /\ disk'[k] = disk[k]
        /\ UNCHANGED <<worker, registry, sweep, info, waiter, guard, unsaved>>
    BY <1>0, <1>1 DEF StartOpen, TypeOK
  <2>2. j \notin registry /\ NoInfo.status = "none"
    BY <1>b, <2>1 DEF RegistryMatchesJobs, NoInfo
  <2>3. Sound(j)'
    BY <2>1, <2>2 DEF Sound, Logged, Informed, Claimed, Listed, Protects, Live
  <2>4. \A k \in Jobs \ {j} : Sound(k)'
    BY <1>0, <2>1, SoundKept DEF Kept
  <2>5. QED
    BY <1>0, <2>1, <2>3, <2>4 DEF Kept, NoSweepAll
<1>2. ASSUME NEW j \in Jobs, StartFail(j) PROVE Kept'
  <2>1. /\ run[j] = "opened" /\ run'[j] = "failed"
        /\ \A k \in Jobs \ {j} : run'[k] = run[k]
        /\ UNCHANGED <<worker, registry, sweep, info, waiter, guard, unsaved, disk>>
    BY <1>0, <1>2 DEF StartFail, TypeOK
  <2>2. j \notin registry /\ disk[j].meta = NoInfo /\ NoInfo.status = "none"
        /\ waiter[j] = "none"
    BY <1>b, <2>1
    DEF RegistryMatchesJobs, FilesMatchJobs, GoroutinesMatchJobs, Live, NoInfo
  <2>3. Sound(j)'
    BY <2>1, <2>2
    DEF Sound, Logged, Informed, Claimed, Listed, Protects, Live, LogOpen
  <2>4. \A k \in Jobs \ {j} : Sound(k)'
    BY <1>0, <2>1, SoundKept DEF Kept
  <2>5. QED
    BY <1>0, <2>1, <2>3, <2>4 DEF Kept, NoSweepAll
<1>3. ASSUME NEW j \in Jobs, Register(j) PROVE Kept'
  <2>1. /\ run[j] = "launched" /\ run'[j] = "served" /\ worker # "down"
        /\ \A k \in Jobs \ {j} : run'[k] = run[k]
        /\ registry' = registry \cup {j}
        /\ UNCHANGED <<worker, sweep, info, waiter, unsaved, disk>>
    BY <1>0, <1>3 DEF Register, MuFree, TypeOK
  <2>2. \A g \in Guards, k \in Jobs \ {j} : guard'[<<g, k>>] = guard[<<g, k>>]
    BY <1>0, <1>3 DEF Register, TypeOK
  <2>3. Sound(j)
    BY <1>0 DEF Kept
  <2>4. Sound(j)'
    BY <2>1, <2>3 DEF Sound, Logged, Informed, Claimed, Listed, Protects, Live,
       LogOpen, IsRunning, AtHand
  <2>5. \A k \in Jobs \ {j} : Sound(k)'
    BY <1>0, <2>1, <2>2, SoundKept DEF Kept
  <2>6. QED
    BY <1>0, <2>1, <2>4, <2>5 DEF Kept, NoSweepAll
<1>4. ASSUME NEW j \in Jobs, StartLaunch(j) PROVE Kept'
  <2>1. /\ run[j] = "opened" /\ run'[j] = "launched"
        /\ info'[j] = Running /\ waiter'[j] = "waiting"
        /\ \A k \in Jobs \ {j} : /\ run'[k] = run[k] /\ info'[k] = info[k]
                                 /\ waiter'[k] = waiter[k]
        /\ UNCHANGED <<worker, registry, sweep, guard>>
    BY <1>0, <1>4 DEF StartLaunch, TypeOK
  <2>2. /\ \A k \in Jobs \ {j} :
             disk'[k] = disk[k] /\ (k \in unsaved' <=> k \in unsaved)
        /\ disk'[j].dir = disk[j].dir /\ disk'[j].log = disk[j].log
        /\ disk'[j].meta = Running \/ j \in unsaved'
    BY <1>0, <1>4, SaveEffect, InfosTyped DEF StartLaunch
  <2>3. disk[j].dir /\ disk[j].log
    BY <1>0, <2>1 DEF Kept, Sound, Logged, LogOpen
  <2>4. Running # NoInfo
    BY DEF Running, NoInfo
  <2>5. Sound(j)'
    BY <2>1, <2>2, <2>3, <2>4
    DEF Sound, Logged, Informed, Claimed, Listed, Protects, Live, AtHand
  <2>6. \A k \in Jobs \ {j} : Sound(k)'
    BY <1>0, <2>1, <2>2, SoundKept DEF Kept
  <2>7. QED
    BY <1>0, <2>1, <2>5, <2>6 DEF Kept, NoSweepAll
<1>5. ASSUME NEW j \in Jobs, WaitExitSave(j) PROVE Kept'
  <2>1. FinalInfo(j) \in MaybeInfo /\ FinalInfo(j).status # "RUNNING"
    BY <1>0, <1>5, InfosTyped
    DEF WaitExitSave, FinalInfo, ExitInfo, TypeOK, IsRunning
  <2>2. /\ waiter[j] = "waiting" /\ waiter'[j] = "saved"
        /\ info'[j] = FinalInfo(j)
        /\ \A k \in Jobs \ {j} : info'[k] = info[k] /\ waiter'[k] = waiter[k]
        /\ UNCHANGED <<worker, registry, run, sweep, guard>>
    BY <1>0, <1>5 DEF WaitExitSave, TypeOK
  <2>3. Live(j) /\ Sound(j)
    BY <1>0, <1>b, <2>2 DEF GoroutinesMatchJobs, Kept
  <2>4. FinalInfo(j) # NoInfo
    BY <2>3 DEF FinalInfo, ExitInfo, NoInfo, Sound, Informed
  <2>5. /\ \A k \in Jobs \ {j} :
             disk'[k] = disk[k] /\ (k \in unsaved' <=> k \in unsaved)
        /\ disk'[j].dir = disk[j].dir /\ disk'[j].log = disk[j].log
        /\ disk'[j].meta \in {disk[j].meta, FinalInfo(j), NoInfo}
    BY <1>0, <1>5, <2>1, SaveEffect DEF WaitExitSave
  <2>6. NoInfo.status = "none"
    BY DEF NoInfo
  <2>7. Logged(j)' /\ Informed(j)' /\ Listed(j)' /\ Protects(j)'
    BY <2>1, <2>2, <2>3, <2>4, <2>5
    DEF Sound, Logged, Informed, Listed, Protects, Live, LogOpen, IsRunning
  <2>8. Claimed(j)'
    BY <2>1, <2>2, <2>3, <2>5, <2>6 DEF Sound, Claimed, AtHand
  <2>9. \A k \in Jobs \ {j} : Sound(k)'
    BY <1>0, <2>2, <2>5, SoundKept DEF Kept
  <2>10. QED
    BY <1>0, <2>2, <2>7, <2>8, <2>9 DEF Kept, NoSweepAll, Sound
<1>6. ASSUME NEW j \in Jobs, WaitExitRelease(j) PROVE Kept'
  <2>1. /\ waiter[j] = "saved" /\ waiter'[j] = "done"
        /\ \A k \in Jobs \ {j} : waiter'[k] = waiter[k]
        /\ UNCHANGED <<worker, registry, run, sweep, guard, info, disk, unsaved>>
    BY <1>0, <1>6 DEF WaitExitRelease, TypeOK
  <2>2. Sound(j)'
    BY <1>0, <2>1 DEF Kept, Sound, Logged, Informed, Claimed, Listed, Protects,
       Live, LogOpen, IsRunning, AtHand
  <2>3. \A k \in Jobs \ {j} : Sound(k)'
    BY <1>0, <2>1, SoundKept DEF Kept
  <2>4. QED
    BY <1>0, <2>1, <2>2, <2>3 DEF Kept, NoSweepAll
<1>7. ASSUME NEW j \in Jobs,
             \/ KillApply(j) \/ StopKill(j)
             \/ \E g \in Guards : GuardKill(g, j)
      PROVE  Kept'
  <2>1. Kill(j) /\ UNCHANGED <<worker, registry, run, waiter, sweep>>
    BY <1>7 DEF KillApply, StopKill, GuardKill
  <2>2. \A g \in Guards, k \in Jobs :
          guard[<<g, k>>] = "wiping" => guard'[<<g, k>>] = "wiping"
    BY <1>0, <1>7 DEF KillApply, StopKill, GuardKill, TypeOK
  <2>3. \A k \in Jobs \ {j} : Sound(k)'
    BY <1>0, <2>1, <2>2, KillEffect, SoundKept DEF Kept
  <2>4. CASE Live(j) /\ IsRunning(j)
    <3>1. /\ info'[j].status = "STOPPED"
          /\ disk'[j].dir = disk[j].dir /\ disk'[j].log = disk[j].log
          /\ disk'[j].meta \in {disk[j].meta, info'[j], NoInfo}
      BY <1>0, <2>1, <2>4, KillEffect
    <3>2. NoInfo.status = "none" /\ Sound(j)
      BY <1>0 DEF NoInfo, Kept
    <3>3. Logged(j)' /\ Informed(j)' /\ Listed(j)' /\ Protects(j)'
      BY <2>1, <2>4, <3>1, <3>2
      DEF Sound, Logged, Informed, Listed, Protects, Live, LogOpen, IsRunning
    <3>4. Claimed(j)'
      BY <2>1, <2>2, <3>1, <3>2 DEF Sound, Claimed, AtHand
    <3>5. QED
      BY <1>0, <2>1, <2>3, <3>3, <3>4 DEF Kept, NoSweepAll, Sound
  <2>5. CASE ~(Live(j) /\ IsRunning(j))
    <3>1. UNCHANGED <<info, disk, unsaved>>
      BY <1>0, <2>1, <2>5, KillEffect
    <3>2. Sound(j)'
      BY <1>0, <2>1, <2>2, <3>1, SoundKept DEF Kept
    <3>3. QED
      BY <1>0, <2>1, <2>3, <3>2 DEF Kept, NoSweepAll
  <2>6. QED
    BY <2>4, <2>5
<1>8. ASSUME NEW j \in Jobs, CleanOne(j) \/ \E g \in Guards : GuardWipe(g, j)
      PROVE  Kept'
  <2>1. Expendable({j})
    <3>1. CASE CleanOne(j)
      BY <1>0, <3>1 DEF CleanOne, Expendable, Protected, IInv, RunningIsReachable
    <3>2. CASE \E g \in Guards : GuardWipe(g, j)
      BY <1>0, <3>2 DEF GuardWipe, Expendable, IInv, GuardsMatchJobs
    <3>3. QED
      BY <1>8, <3>1, <3>2
  <2>2. \A k \in Jobs : IF k \in {j} THEN disk'[k] \in Wiped(k)
                                     ELSE disk'[k] = disk[k]
    BY <1>0, <1>8, WipeTyped
  <2>3. UNCHANGED <<worker, sweep, run, info, waiter, unsaved>>
    BY <1>8 DEF CleanOne, GuardWipe
  <2>4. registry' \subseteq registry /\ registry \ {j} \subseteq registry'
    BY <1>8 DEF CleanOne, GuardWipe
  <2>5. \A g \in Guards, k \in Jobs \ {j} : guard'[<<g, k>>] = guard[<<g, k>>]
    BY <1>0, <1>8 DEF CleanOne, GuardWipe, TypeOK
  <2>6. \A k \in Jobs : Sound(k)'
    BY <2>1, <2>2, <2>3, <2>4, <2>5, SweepKeepsSound
  <2>7. QED
    BY <1>0, <2>3, <2>6 DEF Kept, NoSweepAll
<1>9. ASSUME NEW mode \in CleanModes \ {"one"}, SweepRegistry(mode)
      PROVE  Kept'
  <2>1. PICK victims \in SUBSET Jobs : Sweep(victims) /\ Expendable(victims)
    BY <1>0, <1>9 DEF SweepRegistry, Chosen, Expendable, TypeOK
  <2>2. UNCHANGED <<worker, run, info, waiter, unsaved, guard>> /\ sweep' = mode
        /\ MuFree
    BY <1>9 DEF SweepRegistry
  <2>3. registry' = registry \ victims
    BY <2>1 DEF Sweep
  <2>4. \A k \in Jobs : Sound(k)'
    BY <1>0, <2>1, <2>2, <2>3, SweepTyped, SweepKeepsSound
  <2>5. QED
    BY <2>2, <2>4 DEF Kept, NoSweepAll, MuFree
<1>10. ASSUME SweepDisk PROVE Kept'
  <2>1. PICK old \in SUBSET {j \in Jobs : run[j] \notin {"opened", "launched"}} :
          Sweep(Chosen(sweep, {j \in Jobs \ swept : disk[j].dir /\ ~Protected(j)},
                       old))
    BY <1>10 DEF SweepDisk
  <2> DEFINE victims ==
        Chosen(sweep, {j \in Jobs \ swept : disk[j].dir /\ ~Protected(j)}, old)
  <2>2. victims \in SUBSET Jobs /\ Expendable(victims)
    BY <1>0 DEF Chosen, Expendable, Protected, IInv, RunningIsReachable, Kept,
       NoSweepAll
  <2>3. UNCHANGED <<worker, run, info, waiter, unsaved, guard>> /\ sweep' = "none"
    BY <1>10 DEF SweepDisk
  <2>4. Sweep(victims)
    BY <2>1
  <2> HIDE DEF victims
  <2>5. registry' = registry \ victims
    BY <2>4 DEF Sweep
  <2>6. \A k \in Jobs : Sound(k)'
    BY <1>0, <2>2, <2>3, <2>4, <2>5, SweepTyped, SweepKeepsSound
  <2>7. QED
    BY <2>3, <2>6 DEF Kept, NoSweepAll
<1>11. ASSUME Die PROVE Kept'
  <2>1. /\ worker' = "down" /\ sweep' = "none" /\ registry' = {}
        /\ \A k \in Jobs : waiter'[k] = "none" /\ ~Live(k)' /\ run'[k] # "opened"
    BY <1>0, <1>11 DEF Die, Live, TypeOK
  <2>2. \A k \in Jobs : Sound(k)'
    BY <2>1 DEF Sound, Logged, Informed, Claimed, Listed, Protects, LogOpen
  <2>3. QED
    BY <2>1, <2>2 DEF Kept, NoSweepAll
<1>12. ASSUME Boot PROVE Kept'
  <2>1. PICK result \in [Jobs -> SaveResult] :
          disk' = [j \in Jobs |-> HealedFiles(disk[j], result[j])]
    BY <1>12 DEF Boot
  <2>2. /\ worker = "down" /\ UNCHANGED <<run, waiter, sweep>>
        /\ registry' = {j \in Jobs : Healed(disk[j]) # NoInfo}
        /\ \A j \in Jobs : info'[j] = Healed(disk[j])
    BY <1>12 DEF Boot
  <2>3. ASSUME NEW k \in Jobs PROVE Sound(k)'
    <3>1. ~Live(k)' /\ ~LogOpen(k)'
      BY <1>0, <2>2 DEF IInv, DownIsEmpty, GoroutinesMatchJobs, Live, LogOpen
    <3>2. disk'[k].meta \in {disk[k].meta, Healed(disk[k]), NoInfo}
          /\ Healed(disk[k]).status # "RUNNING"
      BY <1>0, <2>1, HealEffect DEF TypeOK
    <3>3. \/ Healed(disk[k]) = disk[k].meta
          \/ disk[k].meta = NoInfo /\ Healed(disk[k]) # NoInfo
          \/ disk[k].meta.status = "RUNNING" /\ Healed(disk[k]) # NoInfo
      BY DEF Healed, Interrupted, NoInfo
    <3>4. NoInfo.status = "none"
      BY DEF NoInfo
    <3>5. Claimed(k)' /\ Listed(k)' /\ Informed(k)'
      BY <2>2, <3>1, <3>2, <3>3, <3>4 DEF Claimed, Listed, Informed, AtHand
    <3>6. QED
      BY <3>1, <3>5 DEF Sound, Logged, Protects
  <2>4. sweep' = "none"
    BY <1>0, <2>2 DEF Kept, NoSweepAll
  <2>5. QED
    BY <2>3, <2>4 DEF Kept, NoSweepAll
<1>13. ASSUME NEW j \in Jobs, NEW g \in Guards, GuardDrop(g, j) PROVE Kept'
  <2>1. /\ worker # "down" /\ registry' = registry \ {j}
        /\ guard'[<<g, j>>] = "wiping"
        /\ \A h \in Guards, k \in Jobs :
             guard[<<h, k>>] = "wiping" => guard'[<<h, k>>] = "wiping"
        /\ UNCHANGED <<worker, sweep, run, info, waiter, disk, unsaved>>
    BY <1>0, <1>13 DEF GuardDrop, MuFree, TypeOK
  <2>2. Sound(j)
    BY <1>0 DEF Kept
  <2>3. Sound(j)'
    <3>1. disk[j].meta.status = "RUNNING" => disk[j].meta # NoInfo
      BY DEF NoInfo
    <3>2. QED
      BY <2>1, <2>2, <3>1 DEF Sound, Logged, Informed, Claimed, Listed, Protects,
         Live, LogOpen, IsRunning, AtHand
  <2>4. \A k \in Jobs \ {j} : Sound(k)'
    BY <1>0, <2>1, SoundKept DEF Kept
  <2>5. QED
    BY <1>0, <2>1, <2>3, <2>4 DEF Kept, NoSweepAll
<1>14. ASSUME NEW j \in Jobs,
              WatchdogAttach(j) \/ WatchdogEnd(j) \/ WatchdogLost(j) \/ TimerFire(j)
       PROVE  Kept'
  <2>1. \A h \in Guards, k \in Jobs :
          guard[<<h, k>>] = "wiping" => guard'[<<h, k>>] = "wiping"
    BY <1>0, <1>14
    DEF WatchdogAttach, WatchdogEnd, WatchdogLost, TimerFire, TypeOK, Guards
  <2>2. UNCHANGED <<worker, sweep, registry, run, info, waiter, disk, unsaved>>
    BY <1>14 DEF WatchdogAttach, WatchdogEnd, WatchdogLost, TimerFire
  <2>3. QED
    BY <1>0, <2>1, <2>2, SoundKept DEF Kept, NoSweepAll
<1>15. ASSUME NEW j \in Jobs,
              \/ KillLookup(j) \/ ProcDies(j)
              \/ \E outcome \in Outcome : ProcExit(j, outcome)
       PROVE  Kept'
  BY <1>c, <1>15 DEF KillLookup, ProcDies, ProcExit
<1>16. ASSUME StopBegin \/ StopDrain \/ RequestBegins \/ RequestEnds PROVE Kept'
  BY <1>c, <1>16 DEF StopBegin, StopDrain, RequestBegins, RequestEnds
<1>17. CASE UNCHANGED vars
  BY <1>c, <1>17 DEF vars
<1>18. QED
  BY <1>1, <1>2, <1>3, <1>4, <1>5, <1>6, <1>7, <1>8, <1>9, <1>10, <1>11, <1>12,
     <1>13, <1>14, <1>15, <1>16, <1>17
  DEF Next, Environment, JobStep, Crash, StopExit

\* With no clean --all, whatever else clients do, whatever saves fail and however
\* often the worker crashes, a RUNNING job keeps its log, and its job.json if
\* StartJob could save one.
THEOREM RecordsProtected ==
  ASSUME "all" \notin CleanModes
  PROVE  Spec => []RunningKeepsRecord
<1>1. RecordInv /\ [Next]_vars => RecordInv'
  BY RecordNext
<1>2. RecordInv => RunningKeepsRecord
  BY DEF RecordInv
<1>3. QED
  BY <1>1, <1>2, RecordInit, PTL DEF Spec

-----------------------------------------------------------------------------
(* The refinement *)

May(old, new) == old = new \/ Ledger!Follows(old, new)

Ended == {"COMPLETED", "FAILED", "STOPPED"}

\* The moves JobLedger allows, one row each.
LEMMA MovesAre ==
  ASSUME NEW r, NEW e \in Ended
  PROVE  /\ May(Ledger!Entry("new", r), Ledger!Entry("remnant", "none"))
         /\ \A q \in {"RUNNING", "none"} :
              May(Ledger!Entry("remnant", r), Ledger!Entry("RUNNING", q))
         /\ \A q \in {"STOPPED", "none"} :
              May(Ledger!Entry("remnant", r), Ledger!Entry("STOPPED", q))
         /\ \A q \in {e, r, "none"} :
              May(Ledger!Entry("RUNNING", r), Ledger!Entry(e, q))
         /\ \A q \in {e, r, "none"} : May(Ledger!Entry(e, r), Ledger!Entry(e, q))
         /\ \A s \in {"remnant", "absent"} :
              /\ May(Ledger!Entry(e, r), Ledger!Entry(s, "none"))
              /\ May(Ledger!Entry("remnant", r), Ledger!Entry(s, "none"))
         /\ May(Ledger!Entry(e, "RUNNING"), Ledger!Entry("RUNNING", "RUNNING"))
         /\ May(Ledger!Entry("RUNNING", "none"), Ledger!Entry("remnant", "none"))
BY DEF May, Ledger!Follows, Ledger!Entry, Ledger!Ends, Ended

\* What the files and their record say.
LEMMA OnDiskIs ==
  ASSUME NEW d \in Files
  PROVE  /\ d.meta = NoInfo => OnRecord(d) = "none"
         /\ d.meta # NoInfo => /\ OnRecord(d) = d.meta.status
                               /\ OnDisk(d) = d.meta.status
                               /\ d.meta.status \in Status
         /\ d.meta = NoInfo /\ d.dir => OnDisk(d) = "remnant"
         /\ d.meta = NoInfo /\ ~d.dir => OnDisk(d) = "absent"
BY DEF OnDisk, OnRecord, Files, MaybeInfo, Info

\* What the worker and the files say of a job, and how they agree: a job whose
\* run request has not come, ...
LEMMA NewIs ==
  ASSUME RecordInv, NEW k \in Jobs, run[k] = "new"
  PROVE  Says(k) = "new" /\ disk[k] = NoFiles
BY DEF RecordInv, IInv, FilesMatchJobs, Says

\* ... one that the worker knows, ...
LEMMA KnownIs ==
  ASSUME RecordInv, NEW k \in Jobs, Known(k)
  PROVE  /\ run[k] # "new" /\ Says(k) = info[k].status
         /\ info[k] \in Info /\ info[k].status \in {"RUNNING"} \cup Ended
         /\ disk[k].meta \in {NoInfo, info[k]} \/ disk[k].meta.status = "RUNNING"
         /\ info[k].status = "RUNNING" => /\ waiter[k] = "waiting" /\ Live(k)
                                          /\ disk[k].dir
<1>0. /\ TypeOK /\ GoroutinesMatchJobs /\ GuardsMatchJobs /\ RegistryMatchesJobs
      /\ RecordMatchesMemory /\ Sound(k) /\ Running.status = "RUNNING"
  BY RecordParts DEF IInv, Running
<1>1. Live(k) \/ k \in registry
  BY <1>0 DEF Known, AtHand, GoroutinesMatchJobs, GuardsMatchJobs, Live
<1>2. run[k] # "new"
  BY <1>0, <1>1 DEF Live, RegistryMatchesJobs
<1>3. info[k] \in Info
  BY <1>0, <1>1 DEF Sound, Informed, TypeOK, MaybeInfo
<1>4. info[k].status \in {"RUNNING"} \cup Ended
  BY <1>3 DEF Info, Status, Terminal, Ended
<1>5. disk[k].meta \in {NoInfo, info[k]} \/ disk[k].meta.status = "RUNNING"
  <2>1. CASE Live(k)
    BY <1>0, <2>1 DEF RecordMatchesMemory
  <2>2. CASE ~Live(k)
    BY <1>0, <1>1, <2>2 DEF Sound, Listed
  <2>3. QED
    BY <2>1, <2>2
<1>6. ASSUME info[k].status = "RUNNING"
      PROVE  waiter[k] = "waiting" /\ Live(k) /\ disk[k].dir
  <2>1. waiter[k] = "waiting"
    BY <1>0, <1>6 DEF GoroutinesMatchJobs, IsRunning
  <2>2. QED
    BY <1>0, <2>1 DEF GoroutinesMatchJobs, Sound, Logged, LogOpen
<1>7. Says(k) = info[k].status
  BY <1>2 DEF Says
<1>8. QED
  BY <1>2, <1>3, <1>4, <1>5, <1>6, <1>7

\* ... and one that it does not.
LEMMA UnknownIs ==
  ASSUME RecordInv, NEW k \in Jobs, ~Known(k), run[k] # "new"
  PROVE  /\ Says(k) = OnDisk(disk[k])
         /\ worker # "down" => disk[k].meta.status # "RUNNING"
<1>1. Sound(k)
  BY RecordParts
<1>2. QED
  BY <1>1 DEF Says, Known, Sound, Claimed

LEMMA ViewIs == \A k \in Jobs : View(k) = Ledger!Entry(Says(k), OnRecord(disk[k]))
BY DEF View, Ledger!Entry

\* A step that changes neither what is said of a job nor its record.
LEMMA Same ==
  ASSUME NEW k \in Jobs, Says(k)' = Says(k), disk'[k].meta = disk[k].meta
  PROVE  May(View(k), View(k)')
BY DEF View, OnRecord, May

LEMMA Still ==
  ASSUME NEW k \in Jobs, run'[k] = "new" <=> run[k] = "new",
         Known(k)' <=> Known(k), info'[k] = info[k], disk'[k] = disk[k]
  PROVE  May(View(k), View(k)')
<1>1. Says(k)' = Says(k)
  BY DEF Says
<1>2. QED
  BY <1>1, Same

\* What the worker knows of a job does not change with these.
LEMMA KnownKept ==
  ASSUME NEW k \in Jobs, run'[k] = run[k], waiter'[k] = waiter[k],
         disk'[k] = disk[k], k \in registry' <=> k \in registry,
         \A g \in Guards : guard'[<<g, k>>] = "wiping" <=> guard[<<g, k>>] = "wiping"
  PROVE  Known(k)' <=> Known(k)
BY DEF Known, AtHand

\* The removal of the files of a job that is not RUNNING, which the worker may
\* forget with them.
LEMMA WipeMoves ==
  ASSUME RecordInv, RecordInv', NEW k \in Jobs, worker # "down",
         UNCHANGED <<run, info, waiter>>, registry' \subseteq registry,
         disk'[k] \in Wiped(k), ~(Live(k) /\ IsRunning(k))
  PROVE  May(View(k), View(k)')
<1>0. /\ TypeOK /\ disk[k] \in Files /\ disk'[k] \in Files
      /\ disk[k].dir \/ disk[k] = NoFiles
  BY DEF RecordInv, IInv, TypeOK, FilesMatchJobs
<1>1. /\ disk'[k].meta = NoInfo
      /\ disk[k] = NoFiles => disk'[k] = NoFiles
  BY <1>0, WipedEffect
<1>2. /\ View(k) = Ledger!Entry(Says(k), OnRecord(disk[k]))
      /\ View(k)' = Ledger!Entry(Says(k)', "none")
  BY <1>0, <1>1, OnDiskIs DEF View, Ledger!Entry
<1>3. CASE run[k] = "new"
  <2>1. disk[k] = NoFiles
    BY <1>3, NewIs
  <2>2. QED
    BY <1>1, <1>3, <2>1, Same DEF Says
<1>4. CASE Known(k)
  <2>1. Says(k) \in Ended /\ Says(k) = info[k].status /\ run[k] # "new"
    BY <1>4, KnownIs DEF IsRunning
  <2>2. CASE Known(k)'
    <3>1. Says(k)' = Says(k)
      BY <2>1, <2>2 DEF Says
    <3>2. QED
      BY <1>2, <2>1, <3>1, MovesAre
  <2>3. CASE ~Known(k)'
    <3>1. Says(k)' \in {"remnant", "absent"}
      BY <1>0, <1>1, <2>1, <2>3, OnDiskIs DEF Says
    <3>2. QED
      BY <1>2, <2>1, <3>1, MovesAre
  <2>4. QED
    BY <2>2, <2>3
<1>5. CASE ~Known(k) /\ run[k] # "new"
  <2>1. Says(k) = OnDisk(disk[k]) /\ disk[k].meta.status # "RUNNING"
    BY <1>5, UnknownIs
  <2>2. ~Known(k)'
    BY <1>1, <1>5 DEF Known, AtHand
  <2>3. Says(k)' = OnDisk(disk'[k])
    BY <1>5, <2>2 DEF Says
  <2>4. OnDisk(disk'[k]) \in {"remnant", "absent"}
    BY <1>0, <1>1, OnDiskIs
  <2>5. CASE disk[k].meta # NoInfo \/ disk[k].dir
    <3>1. Says(k) \in Ended \cup {"remnant"}
      BY <1>0, <2>1, <2>5, OnDiskIs DEF Status, Terminal, Ended
    <3>2. CASE Says(k) \in Ended
      BY <1>2, <2>3, <2>4, <3>2, MovesAre
    <3>3. CASE Says(k) = "remnant"
      <4>1. "STOPPED" \in Ended
        BY DEF Ended
      <4>2. QED
        BY <1>2, <2>3, <2>4, <3>3, <4>1, MovesAre
    <3>4. QED
      BY <3>1, <3>2, <3>3
  <2>6. CASE disk[k] = NoFiles
    BY <1>1, <2>1, <2>3, <2>6, Same
  <2>7. QED
    BY <1>0, <2>5, <2>6
<1>6. QED
  BY <1>3, <1>4, <1>5

\* The same of a clean of several jobs, of which k may be one.
LEMMA SweepMoves ==
  ASSUME RecordInv, RecordInv', NEW k \in Jobs, NEW victims \in SUBSET Jobs,
         Expendable(victims), worker # "down", UNCHANGED <<run, info, waiter>>,
         registry' \subseteq registry, registry \ victims \subseteq registry',
         \A g \in Guards, j \in Jobs \ victims : guard'[<<g, j>>] = guard[<<g, j>>],
         \A j \in Jobs : IF j \in victims THEN disk'[j] \in Wiped(j)
                                         ELSE disk'[j] = disk[j]
  PROVE  May(View(k), View(k)')
<1>1. CASE k \in victims
  BY <1>1, WipeMoves DEF Expendable
<1>2. CASE k \notin victims
  <2>1. Known(k)' <=> Known(k)
    BY <1>2, KnownKept
  <2>2. QED
    BY <1>2, <2>1, Still
<1>3. QED
  BY <1>1, <1>2

\* A kill ends a RUNNING job, and changes nothing else that is known.
LEMMA KillMoves ==
  ASSUME RecordInv, NEW j \in Jobs, Kill(j), NEW k \in Jobs,
         UNCHANGED <<run, waiter, registry>>,
         \A g \in Guards : guard'[<<g, k>>] = "wiping" <=> guard[<<g, k>>] = "wiping"
  PROVE  May(View(k), View(k)')
<1>0. TypeOK /\ GoroutinesMatchJobs
  BY DEF RecordInv, IInv
<1>1. CASE k = j /\ Live(j) /\ IsRunning(j)
  <2>1. waiter[k] = "waiting" /\ run[k] # "new" /\ info'[k].status = "STOPPED"
        /\ disk'[k].meta \in {disk[k].meta, info'[k], NoInfo}
    BY <1>0, <1>1, KillEffect DEF GoroutinesMatchJobs, Live
  <2>2. Says(k) = "RUNNING" /\ Says(k)' = "STOPPED"
    BY <1>1, <2>1 DEF Says, Known, IsRunning
  <2>3. OnRecord(disk'[k]) \in {"STOPPED", OnRecord(disk[k]), "none"}
    BY <2>1 DEF OnRecord
  <2>4. /\ View(k) = Ledger!Entry("RUNNING", OnRecord(disk[k]))
        /\ View(k)' = Ledger!Entry("STOPPED", OnRecord(disk'[k]))
    BY <2>2 DEF View, Ledger!Entry
  <2>5. QED
    BY <2>3, <2>4, MovesAre DEF Ended
<1>2. CASE ~(k = j /\ Live(j) /\ IsRunning(j))
  <2>1. info'[k] = info[k] /\ disk'[k] = disk[k]
    BY <1>0, <1>2, KillEffect
  <2>2. Known(k)' <=> Known(k)
    BY <2>1, KnownKept
  <2>3. QED
    BY <2>1, <2>2, Still
<1>3. QED
  BY <1>1, <1>2

\* The worker is gone: what it knew is now read from the files.
LEMMA DieMoves ==
  ASSUME RecordInv, Die, NEW k \in Jobs
  PROVE  May(View(k), View(k)')
<1>0. disk[k] \in Files /\ TypeOK /\ disk' = disk
  BY DEF RecordInv, IInv, TypeOK, Die
<1>1. ~Known(k)' /\ (run'[k] = "new" <=> run[k] = "new")
  BY <1>0 DEF Die, Known, AtHand, TypeOK
<1>2. CASE run[k] = "new" \/ ~Known(k)
  <2>1. Says(k)' = Says(k)
    BY <1>0, <1>1, <1>2 DEF Says
  <2>2. QED
    BY <1>0, <2>1, Same
<1>3. CASE run[k] # "new" /\ Known(k)
  <2>1. Says(k) = info[k].status /\ info[k].status \in {"RUNNING"} \cup Ended
    BY <1>3, KnownIs
  <2>2. Says(k)' = OnDisk(disk[k])
    BY <1>0, <1>1, <1>3 DEF Says
  <2>3. /\ View(k) = Ledger!Entry(Says(k), OnRecord(disk[k]))
        /\ View(k)' = Ledger!Entry(OnDisk(disk[k]), OnRecord(disk[k]))
    BY <1>0, <2>2 DEF View, Ledger!Entry
  <2>4. CASE disk[k].meta = NoInfo
    <3>1. OnRecord(disk[k]) = "none" /\ OnDisk(disk[k]) \in {"remnant", "absent"}
      BY <1>0, <2>4, OnDiskIs
    <3>2. CASE info[k].status = "RUNNING"
      <4>1. OnDisk(disk[k]) = "remnant"
        BY <1>0, <1>3, <2>4, <3>2, KnownIs, OnDiskIs
      <4>2. QED
        BY <2>1, <2>3, <3>1, <3>2, <4>1, MovesAre DEF Ended
    <3>3. CASE info[k].status # "RUNNING"
      BY <2>1, <2>3, <3>1, <3>3, MovesAre
    <3>4. QED
      BY <3>2, <3>3
  <2>5. CASE disk[k].meta # NoInfo /\ disk[k].meta = info[k]
    BY <1>0, <2>1, <2>3, <2>5, OnDiskIs DEF May
  <2>6. CASE disk[k].meta # NoInfo /\ disk[k].meta.status = "RUNNING"
    <3>1. OnDisk(disk[k]) = "RUNNING" /\ OnRecord(disk[k]) = "RUNNING"
      BY <1>0, <2>6, OnDiskIs
    <3>2. QED
      BY <2>1, <2>3, <3>1, MovesAre DEF May
  <2>7. QED
    BY <1>3, <2>4, <2>5, <2>6, KnownIs
<1>4. QED
  BY <1>2, <1>3

\* Hydration takes a RUNNING job and a lone log for interrupted, whether it can
\* save that or not.
LEMMA BootMoves ==
  ASSUME RecordInv, Boot, NEW k \in Jobs
  PROVE  May(View(k), View(k)')
<1>0. /\ disk[k] \in Files /\ TypeOK /\ (disk[k].dir \/ disk[k] = NoFiles)
      /\ worker = "down" /\ run' = run /\ waiter' = waiter /\ guard' = guard
  BY DEF RecordInv, IInv, TypeOK, FilesMatchJobs, Boot
<1>1. /\ ~Live(k) /\ waiter[k] = "none" /\ registry = {}
      /\ \A g \in Guards : guard[<<g, k>>] = "idle"
  BY <1>0 DEF RecordInv, IInv, DownIsEmpty, GoroutinesMatchJobs, GuardsMatchJobs, Live
<1>2. ~Known(k)
  BY <1>1 DEF Known, AtHand, Live
<1>3. Known(k)' <=> Healed(disk[k]) # NoInfo
  BY <1>0, <1>1 DEF Known, AtHand, Live, Boot
<1>4. info'[k] = Healed(disk[k])
  BY DEF Boot
<1>5. PICK result \in SaveResult : disk'[k] = HealedFiles(disk[k], result)
  BY DEF Boot
<1>6. disk'[k].meta \in {disk[k].meta, Healed(disk[k]), NoInfo}
  BY <1>0, <1>5, HealEffect
<1>7. NoInfo.status = "none" /\ Interrupted.status = "STOPPED" /\ Interrupted # NoInfo
      /\ ~NoFiles.log
  BY DEF NoInfo, Interrupted, NoFiles
<1>8. CASE run[k] = "new"
  <2>1. disk[k] = NoFiles
    BY <1>8, NewIs
  <2>2. disk'[k] = NoFiles
    BY <1>0, <1>5, <2>1, HealEffect
  <2>3. QED
    BY <1>0, <1>8, <2>1, <2>2, Same DEF Says
<1>9. CASE run[k] # "new" /\ Healed(disk[k]) = disk[k].meta
  <2>1. disk'[k] = disk[k]
    BY <1>5, <1>9 DEF HealedFiles
  <2>2. Says(k) = OnDisk(disk[k])
    BY <1>2, <1>9 DEF Says
  <2>3. CASE disk[k].meta = NoInfo
    <3>1. Says(k)' = OnDisk(disk[k])
      BY <1>0, <1>3, <1>9, <2>1, <2>3 DEF Says
    <3>2. QED
      BY <2>1, <2>2, <3>1, Same
  <2>4. CASE disk[k].meta # NoInfo
    <3>1. Says(k)' = disk[k].meta.status
      BY <1>0, <1>3, <1>4, <1>9, <2>4 DEF Says
    <3>2. QED
      BY <1>0, <2>1, <2>2, <2>4, <3>1, OnDiskIs, Same
  <2>5. QED
    BY <2>3, <2>4
<1>10. CASE run[k] # "new" /\ Healed(disk[k]) # disk[k].meta
  <2>1. /\ Healed(disk[k]) = Interrupted
        /\ disk[k].meta.status = "RUNNING" \/ (disk[k].meta = NoInfo /\ disk[k].log)
    BY <1>10 DEF Healed
  <2>2. Says(k) = OnDisk(disk[k]) /\ Says(k)' = "STOPPED"
    BY <1>0, <1>2, <1>3, <1>4, <1>7, <1>10, <2>1 DEF Says
  <2>3. OnRecord(disk'[k]) \in {OnRecord(disk[k]), "STOPPED", "none"}
    BY <1>6, <1>7, <2>1 DEF OnRecord
  <2>4. /\ View(k) = Ledger!Entry(OnDisk(disk[k]), OnRecord(disk[k]))
        /\ View(k)' = Ledger!Entry("STOPPED", OnRecord(disk'[k]))
    BY <2>2 DEF View, Ledger!Entry
  <2>5. CASE disk[k].meta.status = "RUNNING"
    <3>1. OnDisk(disk[k]) = "RUNNING"
      BY <1>0, <1>7, <2>5, OnDiskIs
    <3>2. QED
      BY <2>3, <2>4, <3>1, MovesAre DEF Ended
  <2>6. CASE disk[k].meta = NoInfo /\ disk[k].log
    <3>1. OnDisk(disk[k]) = "remnant" /\ OnRecord(disk[k]) = "none"
      BY <1>0, <1>7, <2>6, OnDiskIs
    <3>2. QED
      BY <2>3, <2>4, <3>1, MovesAre DEF Ended
  <2>7. QED
    BY <2>1, <2>5, <2>6
<1>11. QED
  BY <1>8, <1>9, <1>10

\* Every step of the worker moves every job as JobLedger allows.
LEMMA StepMoves ==
  ASSUME RecordInv, RecordInv', [Next]_vars, NEW k \in Jobs
  PROVE  May(View(k), View(k)')
<1> DEFINE Moved == May(View(k), View(k)')
<1> SUFFICES Moved
  OBVIOUS
<1>0. /\ IInv /\ TypeOK /\ disk[k] \in Files /\ (disk[k].dir \/ disk[k] = NoFiles)
      /\ GoroutinesMatchJobs /\ GuardsMatchJobs /\ RegistryMatchesJobs
      /\ Sound(k)
  BY RecordParts DEF IInv, TypeOK, FilesMatchJobs
<1>a. ASSUME run'[k] = run[k], waiter'[k] = waiter[k], info'[k] = info[k],
             disk'[k] = disk[k], registry' = registry, guard' = guard
      PROVE  Moved
  BY <1>a, KnownKept, Still
<1>1. ASSUME NEW j \in Jobs, NEW kind \in Kinds, StartOpen(j, kind) PROVE Moved
  <2>1. CASE k = j
    <3>1. /\ run[k] = "new" /\ run'[k] = "opened"
          /\ disk'[k] = [dir |-> TRUE, log |-> TRUE, meta |-> NoInfo]
          /\ UNCHANGED <<waiter, registry, guard>>
      BY <1>0, <1>1, <2>1 DEF StartOpen, TypeOK
    <3>2. ~Known(k)'
      BY <1>0, <3>1 DEF Known, AtHand, GoroutinesMatchJobs, GuardsMatchJobs,
         RegistryMatchesJobs, Live
    <3>3. /\ View(k) = Ledger!Entry("new", OnRecord(disk[k]))
          /\ View(k)' = Ledger!Entry("remnant", "none")
      BY <3>1, <3>2 DEF View, Says, OnDisk, OnRecord, Ledger!Entry
    <3>4. "COMPLETED" \in Ended
      BY DEF Ended
    <3>5. QED
      BY <3>3, <3>4, MovesAre
  <2>2. CASE k # j
    BY <1>0, <1>1, <1>a, <2>2 DEF StartOpen, TypeOK
  <2>3. QED
    BY <2>1, <2>2
<1>2. ASSUME NEW j \in Jobs, StartFail(j) PROVE Moved
  <2>1. CASE k = j
    <3>1. /\ run[k] = "opened" /\ run'[k] = "failed"
          /\ UNCHANGED <<waiter, registry, guard, info, disk>>
      BY <1>0, <1>2, <2>1 DEF StartFail, TypeOK
    <3>2. Known(k)' <=> Known(k)
      BY <3>1 DEF Known, AtHand
    <3>3. QED
      BY <3>1, <3>2, Still
  <2>2. CASE k # j
    BY <1>0, <1>2, <1>a, <2>2 DEF StartFail, TypeOK
  <2>3. QED
    BY <2>1, <2>2
<1>3. ASSUME NEW j \in Jobs, StartLaunch(j) PROVE Moved
  <2>1. CASE k = j
    <3>1. /\ run[k] = "opened" /\ run'[k] = "launched"
          /\ waiter'[k] = "waiting" /\ info'[k] = Running
          /\ UNCHANGED <<registry, guard>>
      BY <1>0, <1>3, <2>1 DEF StartLaunch, TypeOK
    <3>2. ~Known(k) /\ Known(k)'
      BY <1>0, <3>1 DEF Known, AtHand, GoroutinesMatchJobs, GuardsMatchJobs,
         RegistryMatchesJobs, Live
    <3>3. disk[k].meta = NoInfo /\ disk[k].dir
      BY <1>0, <3>1 DEF IInv, FilesMatchJobs, Sound, Logged, LogOpen
    <3>4. disk'[k].meta \in {NoInfo, Running}
      BY <1>0, <1>3, <2>1, <3>3, SaveEffect, InfosTyped DEF StartLaunch
    <3>5. OnRecord(disk'[k]) \in {"RUNNING", "none"}
      BY <3>4 DEF OnRecord, Running
    <3>6. Says(k) = "remnant" /\ Says(k)' = "RUNNING"
      BY <3>1, <3>2, <3>3 DEF Says, OnDisk, Running
    <3>7. /\ View(k) = Ledger!Entry("remnant", OnRecord(disk[k]))
          /\ View(k)' = Ledger!Entry("RUNNING", OnRecord(disk'[k]))
      BY <3>6 DEF View, Ledger!Entry
    <3>8. "COMPLETED" \in Ended
      BY DEF Ended
    <3>9. QED
      BY <3>5, <3>7, <3>8, MovesAre
  <2>2. CASE k # j
    <3>1. disk'[k] = disk[k]
      BY <1>0, <1>3, <2>2, SaveEffect, InfosTyped DEF StartLaunch
    <3>2. QED
      BY <1>0, <1>3, <1>a, <2>2, <3>1 DEF StartLaunch, TypeOK
  <2>3. QED
    BY <2>1, <2>2
<1>4. ASSUME NEW j \in Jobs, Register(j) PROVE Moved
  <2>1. /\ k = j => run[k] = "launched" /\ run'[k] = "served" /\ k \in registry'
        /\ k # j => run'[k] = run[k] /\ (k \in registry' <=> k \in registry)
        /\ UNCHANGED <<waiter, info, disk>>
    BY <1>0, <1>4 DEF Register, TypeOK
  <2>2. \A g \in Guards : guard'[<<g, k>>] = "wiping" <=> guard[<<g, k>>] = "wiping"
    BY <1>0, <1>4, <2>1 DEF Register, TypeOK, GuardsMatchJobs
  <2>3. Known(k)' <=> Known(k)
    BY <2>1, <2>2 DEF Known, AtHand
  <2>4. QED
    BY <2>1, <2>3, Still
<1>5. ASSUME NEW j \in Jobs, WaitExitSave(j) PROVE Moved
  <2>1. FinalInfo(j) \in MaybeInfo
    BY <1>0, <1>5, InfosTyped DEF WaitExitSave, FinalInfo, TypeOK
  <2>2. CASE k = j
    <3>1. /\ waiter[k] = "waiting" /\ waiter'[k] = "saved"
          /\ info'[k] = FinalInfo(k) /\ run' = run
      BY <1>0, <1>5, <2>2 DEF WaitExitSave, TypeOK
    <3>2. Known(k) /\ Known(k)'
      BY <3>1 DEF Known
    <3>3. run[k] # "new" /\ info[k].status \in {"RUNNING"} \cup Ended
      BY <3>2, KnownIs
    <3>4. Says(k) = info[k].status /\ Says(k)' = FinalInfo(k).status
      BY <3>1, <3>2, <3>3 DEF Says
    <3>5. disk'[k].meta \in {disk[k].meta, FinalInfo(k), NoInfo}
      BY <1>0, <1>5, <2>1, <2>2, SaveEffect DEF WaitExitSave
    <3>6. OnRecord(disk'[k]) \in {OnRecord(disk[k]), FinalInfo(k).status, "none"}
      BY <3>5 DEF OnRecord
    <3>7. /\ FinalInfo(k).status \in Ended
          /\ info[k].status = "RUNNING" \/ FinalInfo(k) = info[k]
      BY <3>3 DEF FinalInfo, ExitInfo, IsRunning, Ended
    <3>8. /\ View(k) = Ledger!Entry(info[k].status, OnRecord(disk[k]))
          /\ View(k)' = Ledger!Entry(FinalInfo(k).status, OnRecord(disk'[k]))
      BY <3>4 DEF View, Ledger!Entry
    <3>9. QED
      BY <3>6, <3>7, <3>8, MovesAre
  <2>3. CASE k # j
    <3>1. disk'[k] = disk[k]
      BY <1>0, <1>5, <2>1, <2>3, SaveEffect DEF WaitExitSave
    <3>2. QED
      BY <1>0, <1>5, <1>a, <2>3, <3>1 DEF WaitExitSave, TypeOK
  <2>4. QED
    BY <2>2, <2>3
<1>6. ASSUME NEW j \in Jobs, WaitExitRelease(j) PROVE Moved
  <2>1. CASE k = j
    <3>1. /\ waiter[k] = "saved" /\ waiter'[k] = "done"
          /\ UNCHANGED <<worker, run, registry, guard, info, disk>>
      BY <1>0, <1>6, <2>1 DEF WaitExitRelease, TypeOK
    <3>2. Known(k) /\ Live(k) /\ worker # "down"
      BY <1>0, <3>1 DEF Known, GoroutinesMatchJobs, IInv, DownIsEmpty, Live
    <3>3. CASE AtHand(k)
      BY <3>1, <3>2, <3>3, Still DEF Known, AtHand
    <3>4. CASE ~AtHand(k)
      <4>1. ~Known(k)'
        BY <3>1, <3>4 DEF Known, AtHand
      <4>2. /\ run[k] # "new" /\ Says(k) = info[k].status
            /\ info[k].status \in Ended /\ disk[k].meta \in {NoInfo, info[k]}
        BY <1>0, <3>1, <3>2, <3>4, KnownIs DEF Sound, Claimed
      <4>3. Says(k)' = OnDisk(disk[k])
        BY <3>1, <4>1, <4>2 DEF Says
      <4>4. CASE disk[k].meta = NoInfo
        <5>1. disk[k].dir
          BY <1>0, <3>1 DEF Sound, Logged, LogOpen
        <5>2. OnDisk(disk[k]) = "remnant" /\ OnRecord(disk[k]) = "none"
          BY <1>0, <4>4, <5>1, OnDiskIs
        <5>3. /\ View(k) = Ledger!Entry(info[k].status, "none")
              /\ View(k)' = Ledger!Entry("remnant", "none")
          BY <3>1, <4>2, <4>3, <5>2 DEF View, Ledger!Entry
        <5>4. QED
          BY <4>2, <5>3, MovesAre
      <4>5. CASE disk[k].meta # NoInfo
        BY <1>0, <3>1, <4>2, <4>3, <4>5, OnDiskIs, Same
      <4>6. QED
        BY <4>4, <4>5
    <3>5. QED
      BY <3>3, <3>4
  <2>2. CASE k # j
    BY <1>0, <1>6, <1>a, <2>2 DEF WaitExitRelease, TypeOK
  <2>3. QED
    BY <2>1, <2>2
<1>7. ASSUME Die PROVE Moved
  BY <1>7, DieMoves
<1>8. ASSUME Boot PROVE Moved
  BY <1>8, BootMoves
<1>9. ASSUME NEW j \in Jobs,
             \/ KillApply(j) \/ StopKill(j)
             \/ \E g \in Guards : GuardKill(g, j)
      PROVE  Moved
  <2>1. Kill(j) /\ UNCHANGED <<run, waiter, registry>>
    BY <1>9 DEF KillApply, StopKill, GuardKill
  <2>2. \A g \in Guards : guard'[<<g, k>>] = "wiping" <=> guard[<<g, k>>] = "wiping"
    BY <1>0, <1>9 DEF KillApply, StopKill, GuardKill, TypeOK
  <2>3. QED
    BY <2>1, <2>2, KillMoves
<1>10. ASSUME NEW j \in Jobs, CleanOne(j) \/ \E g \in Guards : GuardWipe(g, j)
       PROVE  Moved
  <2>1. Expendable({j})
    <3>1. CASE CleanOne(j)
      BY <1>0, <3>1 DEF CleanOne, Expendable, Protected, IInv, RunningIsReachable
    <3>2. CASE \E g \in Guards : GuardWipe(g, j)
      BY <1>0, <3>2 DEF GuardWipe, Expendable, GuardsMatchJobs
    <3>3. QED
      BY <1>10, <3>1, <3>2
  <2>2. \A i \in Jobs : IF i \in {j} THEN disk'[i] \in Wiped(i)
                                     ELSE disk'[i] = disk[i]
    BY <1>0, <1>10, WipeTyped
  <2>3. UNCHANGED <<run, info, waiter>>
    BY <1>10 DEF CleanOne, GuardWipe
  <2>4. registry' \subseteq registry /\ registry \ {j} \subseteq registry'
    BY <1>10 DEF CleanOne, GuardWipe
  <2>5. \A g \in Guards, i \in Jobs \ {j} : guard'[<<g, i>>] = guard[<<g, i>>]
    BY <1>0, <1>10 DEF CleanOne, GuardWipe, TypeOK
  <2>6. worker # "down"
    BY <1>0, <1>10 DEF CleanOne, GuardWipe, Serving, IInv, GuardsMatchJobs,
       DownIsEmpty
  <2>7. QED
    BY <2>1, <2>2, <2>3, <2>4, <2>5, <2>6, SweepMoves
<1>11. ASSUME NEW mode \in CleanModes, SweepRegistry(mode) PROVE Moved
  <2>1. PICK victims \in SUBSET Jobs : Sweep(victims) /\ Expendable(victims)
    BY <1>0, <1>11 DEF SweepRegistry, Chosen, Expendable, TypeOK
  <2>2. worker # "down" /\ UNCHANGED <<run, info, waiter, guard>>
    BY <1>11 DEF SweepRegistry, MuFree
  <2>3. registry' = registry \ victims
    BY <2>1 DEF Sweep
  <2>4. QED
    BY <1>0, <2>1, <2>2, <2>3, SweepTyped, SweepMoves
<1>12. ASSUME SweepDisk PROVE Moved
  <2>1. PICK old \in SUBSET {j \in Jobs : run[j] \notin {"opened", "launched"}} :
          Sweep(Chosen(sweep, {j \in Jobs \ swept : disk[j].dir /\ ~Protected(j)},
                       old))
    BY <1>12 DEF SweepDisk
  <2> DEFINE victims ==
        Chosen(sweep, {j \in Jobs \ swept : disk[j].dir /\ ~Protected(j)}, old)
  <2>2. victims \in SUBSET Jobs /\ Expendable(victims)
    BY <1>0 DEF Chosen, Expendable, Protected, IInv, RunningIsReachable, RecordInv
  <2>3. worker # "down" /\ UNCHANGED <<run, info, waiter, guard>>
    BY <1>12 DEF SweepDisk, RecordInv
  <2>4. Sweep(victims)
    BY <2>1
  <2> HIDE DEF victims
  <2>5. registry' = registry \ victims
    BY <2>4 DEF Sweep
  <2>6. QED
    BY <1>0, <2>2, <2>3, <2>4, <2>5, SweepTyped, SweepMoves
<1>13. ASSUME NEW j \in Jobs, NEW g \in Guards, GuardDrop(g, j) PROVE Moved
  <2>1. /\ worker # "down" /\ guard[<<g, j>>] = "dropping"
        /\ guard'[<<g, j>>] = "wiping" /\ registry' = registry \ {j}
        /\ UNCHANGED <<run, info, waiter, disk>>
        /\ k # j => \A h \in Guards : guard'[<<h, k>>] = guard[<<h, k>>]
    BY <1>0, <1>13 DEF GuardDrop, MuFree, TypeOK
  <2>2. CASE k # j
    <3>1. Known(k)' <=> Known(k)
      BY <2>1, <2>2, KnownKept
    <3>2. QED
      BY <2>1, <2>2, <3>1, Still
  <2>3. CASE k = j
    <3>1. run[k] = "served" /\ ~IsRunning(k)
      BY <1>0, <2>1, <2>3 DEF GuardsMatchJobs
    <3>2. info[k] # NoInfo /\ Live(k)
      BY <1>0, <3>1 DEF Sound, Informed, Live
    <3>3. info[k].status \in Ended
      BY <1>0, <3>1, <3>2 DEF TypeOK, MaybeInfo, Info, Status, Terminal, Ended,
         IsRunning
    <3>4. Known(k) => Says(k) = info[k].status
      BY <3>1 DEF Says
    <3>5. CASE disk[k].meta # NoInfo
      <4>1. Known(k)'
        BY <2>1, <2>3, <3>5 DEF Known, AtHand
      <4>2. Says(k)' = info[k].status
        BY <2>1, <3>1, <4>1 DEF Says
      <4>3. CASE ~Known(k)
        <5>1. Says(k) = OnDisk(disk[k]) /\ disk[k].meta.status # "RUNNING"
          BY <2>1, <3>1, <4>3, UnknownIs
        <5>2. disk[k].meta = info[k]
          BY <1>0, <3>2, <3>5, <5>1 DEF IInv, RecordMatchesMemory, Running
        <5>3. QED
          BY <1>0, <2>1, <3>5, <4>2, <5>1, <5>2, OnDiskIs, Same
      <4>4. QED
        BY <2>1, <3>4, <4>2, <4>3, Same
    <3>6. CASE disk[k].meta = NoInfo
      <4>1. CASE Known(k)' \/ ~Known(k)
        <5>1. Known(k)' <=> Known(k)
          BY <2>1, <3>1, <3>6, <4>1 DEF Known, AtHand
        <5>2. QED
          BY <2>1, <5>1, Still
      <4>2. CASE ~Known(k)' /\ Known(k)
        <5>1. Says(k)' = OnDisk(disk[k])
          BY <2>1, <3>1, <4>2 DEF Says
        <5>2. OnDisk(disk[k]) \in {"remnant", "absent"} /\ OnRecord(disk[k]) = "none"
          BY <1>0, <3>6, OnDiskIs
        <5>3. /\ View(k) = Ledger!Entry(info[k].status, "none")
              /\ View(k)' = Ledger!Entry(OnDisk(disk[k]), "none")
          BY <2>1, <3>4, <4>2, <5>1, <5>2 DEF View, Ledger!Entry
        <5>4. QED
          BY <3>3, <5>2, <5>3, MovesAre
      <4>3. QED
        BY <4>1, <4>2
    <3>7. QED
      BY <3>5, <3>6
  <2>4. QED
    BY <2>2, <2>3
<1>14. ASSUME NEW j \in Jobs,
              WatchdogAttach(j) \/ WatchdogEnd(j) \/ WatchdogLost(j) \/ TimerFire(j)
       PROVE  Moved
  <2>1. \A g \in Guards : guard'[<<g, k>>] = "wiping" <=> guard[<<g, k>>] = "wiping"
    BY <1>0, <1>14
    DEF WatchdogAttach, WatchdogEnd, WatchdogLost, TimerFire, TypeOK, Guards
  <2>2. UNCHANGED <<registry, run, info, waiter, disk>>
    BY <1>14 DEF WatchdogAttach, WatchdogEnd, WatchdogLost, TimerFire
  <2>3. Known(k)' <=> Known(k)
    BY <2>1, <2>2, KnownKept
  <2>4. QED
    BY <2>2, <2>3, Still
<1>15. ASSUME UNCHANGED <<run, waiter, info, disk, registry, guard>> PROVE Moved
  BY <1>a, <1>15
<1>16. QED
  BY <1>1, <1>2, <1>3, <1>4, <1>5, <1>6, <1>7, <1>8, <1>9, <1>10, <1>11, <1>12,
     <1>13, <1>14, <1>15
  DEF Next, Environment, JobStep, vars, ProcExit, ProcDies, KillLookup, StopBegin,
      Crash, StopDrain, StopExit, RequestBegins, RequestEnds

\* What is known of a job is always an entry of the ledger.
LEMMA ViewTyped == ASSUME RecordInv, NEW k \in Jobs PROVE View(k) \in Ledger!Entries
<1>1. disk[k] \in Files
  BY DEF RecordInv, IInv, TypeOK
<1>2. OnRecord(disk[k]) \in {"none", "RUNNING"} \cup Ended
  BY <1>1, OnDiskIs DEF Status, Terminal, Ended
<1>3. OnDisk(disk[k]) \in {"remnant", "RUNNING", "absent"} \cup Ended
  BY <1>1, OnDiskIs DEF Status, Terminal, Ended
<1>4. Says(k) \in {"new", "remnant", "RUNNING", "absent"} \cup Ended
  BY <1>3, KnownIs, NewIs, UnknownIs
<1>5. QED
  BY <1>2, <1>4 DEF View, Ledger!Entries, Ledger!Ends, Ended

\* JobLifecycle implements JobLedger: a job that has begun leaves RUNNING only
\* by ending, an end on record is never rewritten, one that no save has put on
\* record is at worst healed to STOPPED, and what is gone stays gone.
THEOREM LedgerImplemented ==
  ASSUME "all" \notin CleanModes
  PROVE  Spec => LedgerIsKept
<1> DEFINE Typed == \A k \in Jobs : View(k) \in Ledger!Entries
<1>1. Init => Ledger!Init
  <2>1. Init => \A j \in Jobs : View(j) = Ledger!Entry("new", "none")
    BY DEF Init, View, Says, OnRecord, NoFiles, Ledger!Entry
  <2>2. QED
    BY <2>1 DEF Ledger!Init
<1>2. RecordInv => Typed
  BY ViewTyped
<1>3. RecordInv /\ RecordInv' /\ Typed' /\ [Next]_vars
        => [Ledger!Next]_([j \in Jobs |-> View(j)])
  <2> SUFFICES ASSUME RecordInv, RecordInv', Typed', [Next]_vars PROVE Ledger!Next
    OBVIOUS
  <2>1. \A k \in Jobs : May(View(k), View(k)')
    BY StepMoves
  <2>2. QED
    BY <2>1 DEF Ledger!Next, May
<1>4. RecordInv /\ [Next]_vars => RecordInv'
  BY RecordNext
<1> HIDE DEF Typed
<1>5. QED
  BY <1>1, <1>2, <1>3, <1>4, RecordInit, PTL DEF Spec, LedgerIsKept, Ledger!Spec

\* A job that is gone from memory and from disk never comes back: not by a
\* record saved late, not by a restart that finds something to heal, not by a
\* start (waitExit, hydrateJobsFromDisk, StartJob).
THEOREM GoneForGood ==
  ASSUME "all" \notin CleanModes, NEW j \in Jobs
  PROVE  Spec => [](Says(j) = "absent" => [](Says(j) = "absent"))
<1> DEFINE Gone == Says(j) = "absent"
<1>1. RecordInv /\ RecordInv' /\ Gone /\ [Next]_vars => Gone'
  <2> SUFFICES ASSUME RecordInv, RecordInv', Gone, [Next]_vars PROVE Gone'
    OBVIOUS
  <2>1. May(View(j), View(j)')
    BY StepMoves
  <2>2. View(j).says = "absent" /\ View(j)'.says = Says(j)'
    BY DEF View
  <2>3. \A a, b : a.says = "absent" => ~Ledger!Follows(a, b)
    BY DEF Ledger!Follows, Ledger!Ends
  <2>4. QED
    BY <2>1, <2>2, <2>3 DEF May
<1>2. RecordInv /\ [Next]_vars => RecordInv'
  BY RecordNext
<1> HIDE DEF Gone
<1>3. Spec => [](Gone => []Gone)
  BY <1>1, <1>2, RecordInit, PTL DEF Spec
<1>4. QED
  BY <1>3 DEF Gone
=============================================================================
