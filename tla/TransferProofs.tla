--------------------------- MODULE TransferProofs ---------------------------
(***************************************************************************)
(* cw cp keeps its contract for any tree, any --concurrency and any order  *)
(* of its goroutines, the workers' savers, failures and signals.           *)
(*                                                                         *)
(* The inductive invariant has four parts: where the command is (Flow),    *)
(* what each file's goroutine and saver may be at (Saves), why the context *)
(* is done (Errors), and what the tracker counts (Tracks).                 *)
(***************************************************************************)
EXTENDS Transfer, FiniteSetTheorems, TLAPS

Writing == {"writing", "sealed", "cleared"}
Active == {"open", "busy", "undo", "failing", "cancelled"}

Flow ==
  /\ phase = "done" <=> result # "none"
  /\ ~tree => dirs = {} /\ Cardinality(source) = 1
  /\ phase \in {"probe", "mkdir"} => \A f \in Files : cl[f] = "idle"
  /\ phase = "mkdir" => tree /\ todo \subseteq dirs \cup {Root}
                             /\ dirs \subseteq made \cup todo
  /\ phase = "pool" => /\ dirs \subseteq made /\ todo \subseteq source
                       /\ ~tree => todo = {}
                       /\ \A f \in todo : cl[f] = "idle"
                       /\ \A f \in source \ todo : cl[f] = "idle" => tree /\ ctxDone
  /\ result = "ok" => dirs \subseteq made /\ \A f \in source : cl[f] = "ok"

\* A copy of the client's own is written only under its goroutine's eyes.
OwnSave(f) ==
  /\ sv[f] \in Writing => cl[f] = "busy" /\ result = "none"
  /\ dst[f] # "bad"
  /\ sv[f] = "saved" => dst[f] = "new"
  /\ sv[f] = "cleared" => tmp[f] = "new"
  /\ mode = "local" /\ sv[f] = "sealed" => tmp[f] = "new"
  /\ cl[f] # "undo"

SaveFits(f) ==
  /\ cl[f] # "idle" \/ sv[f] # "none" => f \in source
  /\ cl[f] \in {"idle", "spawned", "open"} => sv[f] = "none"
  /\ cl[f] = "ok" => sv[f] = "saved" /\ dst[f] = "new"
  /\ sv[f] \in Writing => tmp[f] # "none"
  /\ ~Remote => OwnSave(f)

Saves == \A f \in Files : SaveFits(f)

Errors ==
  /\ ctxDone => interrupted \/ firstErr # "none"
  /\ firstErr = "cancel" => interrupted
  /\ \A f \in Files :
       /\ cl[f] = "cancelled" => ctxDone
       /\ cl[f] = "failed" => firstErr # "none"
       /\ cl[f] = "skipped" => tree /\ ctxDone
       /\ cl[f] = "spawned" => tree

OkFiles == {f \in Files : cl[f] = "ok"}
Counts == /\ activeFiles = {f \in Files : cl[f] \in Active}
          /\ completedFiles = Cardinality(OkFiles)

Begun == \E f \in Files : cl[f] \in {"busy", "undo", "ok"}
TotalsFit ==
  phase # "probe" /\ result \in {"none", "ok"} =>
    /\ totalFiles = Cardinality(source)
    /\ tree => totalBytes = Cardinality(source)
    /\ ~tree => /\ totalBytes \in {0, 1}
                /\ mode \in {"local", "upload"} \/ Begun => totalBytes = 1

AllOver == result \notin {"none", "killed"} => \A f \in Files : cl[f] \in {"idle"} \cup Ended

Tracks == Counts /\ TotalsFit /\ AllOver

-----------------------------------------------------------------------------
(* Types *)

LEMMA SourceCounts ==
  ASSUME TypeOK
  PROVE  /\ IsFiniteSet(source) /\ Cardinality(source) \in Nat
         /\ Cardinality(source) = 0 <=> source = {}
         /\ IsFiniteSet(OkFiles) /\ Cardinality(OkFiles) \in Nat
<1>1. source \in SUBSET Files /\ OkFiles \in SUBSET Files
  BY DEF TypeOK, OkFiles
<1>2. IsFiniteSet(source) /\ IsFiniteSet(OkFiles)
  BY <1>1, FilesAssumption, FS_Subset
<1> QED BY <1>2, FS_CardinalityType, FS_EmptySet

LEMMA TypeInit == Init => TypeOK
<1> SUFFICES ASSUME Init PROVE TypeOK
  OBVIOUS
<1>1. dst \in [Files -> Contents]
  BY BeforeAssumption DEF Init, Contents
<1>2. /\ cl \in [Files -> ClientStages] /\ sv \in [Files -> SaverStages]
      /\ tmp \in [Files -> {"none", "bad", "new"}]
  BY DEF Init, ClientStages, SaverStages
<1>3. into \in BOOLEAN
  BY ExistingAssumption DEF Init
<1> QED BY <1>1, <1>2, <1>3 DEF Init, TypeOK, NewProgressTracker, Results

\* The command itself: up to the pool, and its end.
LEMMA TypeOfCommand ==
  ASSUME TypeOK, \/ Probe \/ ProbeFails \/ RootNotMade \/ StopFeeding \/ Return
                 \/ \E d \in Dirs \cup {Root} : MakeDir(d) \/ MakeDirFails(d)
  PROVE  TypeOK'
<1> USE DEF TypeOK, command, outcome, saving, totals, tracker, vars
<1>1. CASE Probe
  <2>1. nested' \in BOOLEAN /\ \E b \in {0, 1} : Begin(b)
    BY <1>1 DEF Probe, ProbeLocal, ProbeDownload, ProbeUpload, ProbeRelay
  <2>2. PICK b \in {0, 1} : Begin(b)
    BY <2>1
  <2>3. CASE tree
    BY <1>1, <2>1, <2>2, <2>3, SourceCounts DEF Probe, Begin, SetTotals
  <2>4. CASE ~tree
    BY <1>1, <2>1, <2>2, <2>4 DEF Probe, Begin, SetTotals, ClientStages
  <2> QED BY <2>3, <2>4
<1>2. CASE ProbeFails
  BY <1>2 DEF ProbeFails, Refuse, Answer, Results
<1>3. CASE RootNotMade
  BY <1>3 DEF RootNotMade, ToPool
<1>4. CASE StopFeeding
  BY <1>4 DEF StopFeeding
<1>5. CASE Return
  BY <1>5 DEF Return, Answer, Results
<1>6. ASSUME NEW d \in Dirs \cup {Root}, MakeDir(d) PROVE TypeOK'
  BY <1>6 DEF MakeDir, ToPool
<1>7. ASSUME NEW d \in Dirs \cup {Root}, MakeDirFails(d) PROVE TypeOK'
  BY <1>7 DEF MakeDirFails, Refuse, Answer, Results
<1> QED BY <1>1, <1>2, <1>3, <1>4, <1>5, <1>6, <1>7

\* The goroutines of the files.
LEMMA TypeOfGoroutine ==
  ASSUME TypeOK, NEW f \in Files,
         \/ Feed(f) \/ Start(f) \/ Open(f) \/ OpenFails(f) \/ SavedHere(f)
         \/ Reply(f) \/ RequestFails(f) \/ Undo(f) \/ Leave(f) \/ ConnectionBreaks(f)
  PROVE  TypeOK'
<1> USE DEF TypeOK, command, control, outcome, saving, totals, tracker, ClientStages
<1>1. CASE Feed(f) \/ Start(f)
  BY <1>1 DEF Feed, Start, StartFile
<1>2. CASE Open(f)
  <2>1. sv' \in [Files -> SaverStages] /\ tmp' \in [Files -> {"none", "bad", "new"}]
        /\ made' \subseteq Dirs \cup {Root} /\ dst' = dst
        /\ (SetTotalBytes(1) \/ UNCHANGED totals)
    BY <1>2 DEF Open, CopyFile, DownloadToLocalFile, UploadFile, RelayCopy, Create, SaverStages
  <2>2. totalFiles' \in Nat /\ totalBytes' \in Nat
    BY <2>1 DEF SetTotalBytes
  <2> QED BY <1>2, <2>1, <2>2 DEF Open
<1>3. CASE OpenFails(f) \/ RequestFails(f) \/ ConnectionBreaks(f)
  BY <1>3 DEF OpenFails, RequestFails, ConnectionBreaks, Fails
<1>4. CASE SavedHere(f)
  BY <1>4 DEF SavedHere, Counted, AddFile, EndFile
<1>5. CASE Reply(f)
  BY <1>5 DEF Reply, JudgeUpload, JudgeRelay, Counted, AddFile, EndFile
<1>6. CASE Undo(f)
  BY <1>6 DEF Undo, Contents
<1>7. CASE Leave(f)
  BY <1>7 DEF Leave, EndFile
<1> QED BY <1>1, <1>2, <1>3, <1>4, <1>5, <1>6, <1>7

LEMMA TypeOfSaver ==
  ASSUME TypeOK, Saves, NEW f \in Files, SaverStep(f) PROVE TypeOK'
<1> USE DEF TypeOK, command, control, outcome, saving, totals, tracker, ClientStages,
            SaverStages, Contents, Becomes
<1>1. CASE ReadAll(f) \/ ReadDamaged(f)
  BY <1>1 DEF ReadAll, ReadDamaged
<1>2. CASE CopyBreaks(f) \/ CommitFails(f)
  BY <1>2 DEF CopyBreaks, CommitFails, Abort, Fails
<1>3. CASE Commit(f)
  <2>1. tmp[f] # "none"
    BY <1>3 DEF Commit, Valid, Saves, SaveFits, Writing
  <2> QED BY <1>3, <2>1 DEF Commit
<1>4. CASE CommitBlocked(f)
  BY <1>4 DEF CommitBlocked
<1> QED BY <1>1, <1>2, <1>3, <1>4 DEF SaverStep

LEMMA TypeKept == TypeOK /\ Saves /\ [Next]_vars => TypeOK'
<1> SUFFICES ASSUME TypeOK, Saves, [Next]_vars PROVE TypeOK'
  OBVIOUS
<1>1. CASE UNCHANGED vars
  BY <1>1 DEF vars, command, control, outcome, saving, totals, tracker, TypeOK
<1>2. CASE Interrupt
  BY <1>2 DEF Interrupt, command, control, saving, totals, tracker, TypeOK
<1>3. CASE ClientKilled \/ WorkerCrash
  BY <1>3 DEF ClientKilled, WorkerCrash, SaversDie, command, control, outcome, totals,
              tracker, TypeOK, Results, SaverStages
<1> QED BY <1>1, <1>2, <1>3, TypeOfCommand, TypeOfGoroutine, TypeOfSaver
        DEF Next, ClientStep

-----------------------------------------------------------------------------
(* Flow: nobody starts before the pool, and the pool ends when all are over. *)

LEMMA FlowInit == Init => Flow
BY DEF Init, Flow

\* A step of one goroutine that leaves the others and the loop alone.
LEMMA FlowOfGoroutine ==
  ASSUME TypeOK, Flow, NEW f \in Files,
         UNCHANGED <<command, phase, todo, result>>, made \subseteq made',
         ctxDone => ctxDone', result = "none",
         cl[f] \notin {"idle", "ok"}, NEW stage \in ClientStages \ {"idle"},
         cl' = [cl EXCEPT ![f] = stage]
  PROVE  Flow'
BY DEF Flow, TypeOK, command

LEMMA FlowOfCommand ==
  ASSUME TypeOK, Flow, Errors,
         \/ Probe \/ ProbeFails \/ RootNotMade \/ StopFeeding \/ Return
         \/ \E d \in Dirs \cup {Root} : MakeDir(d) \/ MakeDirFails(d)
  PROVE  Flow'
<1> USE DirsAssumption
    DEF TypeOK, Flow, command, outcome, saving, totals, tracker, vars, Running, Root
<1>1. CASE Probe
  <2>1. PICK b \in {0, 1} : Begin(b)
    BY <1>1 DEF Probe, ProbeLocal, ProbeDownload, ProbeUpload, ProbeRelay
  <2>2. CASE tree
    BY <1>1, <2>1, <2>2 DEF Probe, Begin, SetTotals
  <2>3. CASE ~tree
    BY <1>1, <2>1, <2>3 DEF Probe, Begin, SetTotals
  <2> QED BY <2>2, <2>3
<1>2. CASE ProbeFails
  BY <1>2 DEF ProbeFails, Refuse, Answer
<1>3. CASE RootNotMade
  <2>1. dirs \subseteq made \cup (todo \ {Root})
    BY <1>3 DEF RootNotMade, NextDir
  <2> QED BY <1>3, <2>1 DEF RootNotMade, ToPool
<1>4. CASE StopFeeding
  BY <1>4 DEF StopFeeding
<1>5. CASE Return
  <2>1. phase' = "done" /\ result' # "none" /\ todo = {}
        /\ UNCHANGED <<tree, dirs, source, made, todo, cl>>
    BY <1>5 DEF Return, Answer, Joined
  <2>2. ASSUME result' = "ok", NEW f \in source PROVE cl[f] = "ok"
    <3>1. firstErr = "none" /\ ~(tree /\ ctxDone)
      BY <1>5, <2>2 DEF Return, Answer
    <3>2. cl[f] \in {"idle", "ok", "failed", "skipped"}
      BY <1>5, <2>2 DEF Return, Joined, Ended
    <3>3. cl[f] # "idle"
      BY <1>5, <2>1, <2>2, <3>1 DEF Return
    <3> QED BY <2>2, <3>1, <3>2, <3>3 DEF Errors
  <2>3. dirs \subseteq made
    BY <1>5 DEF Return
  <2> QED BY <2>1, <2>2, <2>3
<1>6. ASSUME NEW d \in Dirs \cup {Root}, MakeDir(d) PROVE Flow'
  <2>1. dirs \subseteq made' \cup (todo \ {d})
    BY <1>6 DEF MakeDir, NextDir
  <2> QED BY <1>6, <2>1 DEF MakeDir, ToPool
<1>7. ASSUME NEW d \in Dirs \cup {Root}, MakeDirFails(d) PROVE Flow'
  BY <1>7 DEF MakeDirFails, Refuse, Answer
<1> QED BY <1>1, <1>2, <1>3, <1>4, <1>5, <1>6, <1>7

LEMMA FlowKept == TypeOK /\ Flow /\ Saves /\ Errors /\ [Next]_vars => Flow'
<1> SUFFICES ASSUME TypeOK, Flow, Saves, Errors, [Next]_vars PROVE Flow'
  OBVIOUS
<1> USE DEF command, control, outcome, saving, totals, tracker, Running
<1>1. CASE UNCHANGED vars \/ Interrupt \/ WorkerCrash
  BY <1>1 DEF vars, Interrupt, WorkerCrash, Flow
<1>2. CASE ClientKilled
  BY <1>2 DEF ClientKilled, Flow
<1>3. ASSUME NEW f \in Files, Feed(f) PROVE Flow'
  BY <1>3 DEF Feed, Flow, TypeOK
<1>4. ASSUME NEW f \in Files,
             \/ Start(f) \/ Open(f) \/ OpenFails(f) \/ SavedHere(f) \/ Reply(f)
             \/ RequestFails(f) \/ Undo(f) \/ Leave(f) \/ ConnectionBreaks(f)
      PROVE  Flow'
  <2>1. UNCHANGED <<command, phase, todo, result>> /\ result = "none" /\ made \subseteq made'
    BY <1>4 DEF Start, Open, OpenFails, SavedHere, Reply, RequestFails, Undo, Leave,
                ConnectionBreaks, CopyFile, DownloadToLocalFile, UploadFile, RelayCopy,
                Create
  <2>2. ctxDone => ctxDone'
    BY <1>4 DEF Start, Open, OpenFails, SavedHere, Reply, RequestFails, Undo, Leave,
                ConnectionBreaks, Fails
  <2>3. cl[f] \notin {"idle", "ok"}
    BY <1>4 DEF Start, Open, OpenFails, SavedHere, Reply, RequestFails, Undo, Leave,
                ConnectionBreaks
  <2>4. \E stage \in ClientStages \ {"idle"} : cl' = [cl EXCEPT ![f] = stage]
    BY <1>4 DEF Start, Open, OpenFails, SavedHere, Reply, RequestFails, Undo, Leave,
                ConnectionBreaks, Fails, JudgeUpload, JudgeRelay, Counted, ClientStages
  <2> QED BY <2>1, <2>2, <2>3, <2>4, FlowOfGoroutine
<1>5. ASSUME NEW f \in Files, SaverStep(f) PROVE Flow'
  <2>1. UNCHANGED <<command, control, result>> /\ (ctxDone => ctxDone')
    BY <1>5 DEF SaverStep, ReadAll, ReadDamaged, CopyBreaks, CommitFails, Abort, Fails,
                Commit, CommitBlocked
  <2>2. CASE UNCHANGED cl
    BY <2>1, <2>2 DEF Flow
  <2>3. CASE ~Remote /\ Abort(f) /\ sv[f] \in Writing
    <3>1. cl[f] = "busy" /\ result = "none"
      BY <2>3 DEF Saves, SaveFits, OwnSave
    <3>2. \E stage \in ClientStages \ {"idle"} : cl' = [cl EXCEPT ![f] = stage]
      BY <2>3 DEF Abort, Fails, ClientStages
    <3> QED BY <2>1, <3>1, <3>2, FlowOfGoroutine
  <2> QED BY <1>5, <2>2, <2>3 DEF SaverStep, ReadAll, ReadDamaged, CopyBreaks, CommitFails,
                                  Abort, Commit, CommitBlocked, Writing
<1> QED BY <1>1, <1>2, <1>3, <1>4, <1>5, FlowOfCommand DEF Next, ClientStep

-----------------------------------------------------------------------------
(* Saves: each step fits its own file and leaves the others as they were. *)

LEMMA SavesInit == Init => Saves
BY BeforeAssumption DEF Init, Saves, SaveFits, OwnSave, Writing, Remote

\* A step of file f alone.
LEMMA SavesOfOne ==
  ASSUME TypeOK, Saves, NEW f \in Files, UNCHANGED <<command, result>>,
         \A g \in Files \ {f} : /\ cl'[g] = cl[g] /\ sv'[g] = sv[g]
                                /\ tmp'[g] = tmp[g] /\ dst'[g] = dst[g],
         SaveFits(f)'
  PROVE  Saves'
<1> SUFFICES ASSUME NEW g \in Files \ {f} PROVE SaveFits(g)'
  BY DEF Saves
<1> QED BY DEF Saves, SaveFits, OwnSave, Writing, Remote, command

\* Whoever ends the command, nothing of the client's own is being written.
LEMMA SavesAtEnd ==
  ASSUME TypeOK, Saves, UNCHANGED <<command, cl, saving>>,
         \A f \in Files : cl[f] # "busy"
  PROVE  Saves'
BY DEF Saves, SaveFits, OwnSave, Writing, Remote, command, saving

LEMMA SavesOfCommand ==
  ASSUME TypeOK, Flow, Saves,
         \/ Probe \/ ProbeFails \/ RootNotMade \/ StopFeeding \/ Return
         \/ \E d \in Dirs \cup {Root} : MakeDir(d) \/ MakeDirFails(d)
  PROVE  Saves'
<1> USE DEF command, outcome, saving, tracker
<1>1. CASE Probe
  <2>1. PICK b \in {0, 1} : Begin(b)
    BY <1>1 DEF Probe, ProbeLocal, ProbeDownload, ProbeUpload, ProbeRelay
  <2>2. \A f \in Files : cl[f] = "idle" /\ (cl'[f] = "idle" \/ (cl'[f] = "open" /\ f \in source))
    BY <1>1, <2>1 DEF Probe, Begin, Flow, TypeOK
  <2>3. UNCHANGED <<command, result, saving>>
    BY <1>1 DEF Probe
  <2> QED BY <2>2, <2>3 DEF Saves, SaveFits, OwnSave, Writing, Remote
<1>2. CASE ProbeFails
  BY <1>2, SavesAtEnd DEF ProbeFails, Refuse, Flow
<1>3. CASE RootNotMade \/ StopFeeding
  BY <1>3 DEF RootNotMade, StopFeeding, Saves, SaveFits, OwnSave, Remote
<1>4. CASE Return
  <2>1. \A f \in Files : cl[f] # "busy"
    BY <1>4 DEF Return, Joined, Ended, Saves, SaveFits
  <2> QED BY <1>4, <2>1, SavesAtEnd DEF Return
<1>5. ASSUME NEW d \in Dirs \cup {Root}, MakeDir(d) PROVE Saves'
  BY <1>5 DEF MakeDir, Saves, SaveFits, OwnSave, Remote
<1>6. ASSUME NEW d \in Dirs \cup {Root}, MakeDirFails(d) PROVE Saves'
  BY <1>6, SavesAtEnd DEF MakeDirFails, Refuse, Flow
<1> QED BY <1>1, <1>2, <1>3, <1>4, <1>5, <1>6

LEMMA SavesOfGoroutine ==
  ASSUME TypeOK, Flow, Saves, NEW f \in Files,
         \/ Feed(f) \/ Start(f) \/ Open(f) \/ OpenFails(f) \/ SavedHere(f)
         \/ Reply(f) \/ RequestFails(f) \/ Undo(f) \/ Leave(f) \/ ConnectionBreaks(f)
  PROVE  Saves'
<1> USE DEF TypeOK, command, control, outcome, saving, totals, tracker, Running
<1>1. SaveFits(f)
  BY DEF Saves
<1>2. UNCHANGED <<command, result>>
      /\ \A g \in Files \ {f} : /\ cl'[g] = cl[g] /\ sv'[g] = sv[g]
                                /\ tmp'[g] = tmp[g] /\ dst'[g] = dst[g]
  <2>1. CASE Open(f)
    BY <2>1 DEF Open, CopyFile, DownloadToLocalFile, UploadFile, RelayCopy, Create
  <2>2. CASE ~Open(f)
    BY <2>2 DEF Feed, Start, OpenFails, SavedHere, Reply, RequestFails, Undo, Leave,
                ConnectionBreaks, Fails, JudgeUpload, JudgeRelay, Counted
  <2> QED BY <2>1, <2>2
<1> SUFFICES SaveFits(f)'
  BY <1>2, SavesOfOne
<1> USE <1>1 DEF SaveFits, OwnSave, Writing, Remote
<1>3. CASE Feed(f)
  BY <1>3 DEF Feed, Flow
<1>4. CASE Start(f)
  BY <1>4 DEF Start
<1>5. CASE Open(f)
  BY <1>5 DEF Open, CopyFile, DownloadToLocalFile, UploadFile, RelayCopy, Create
<1>6. CASE OpenFails(f)
  BY <1>6 DEF OpenFails, Fails
<1>7. CASE SavedHere(f)
  BY <1>7 DEF SavedHere, Counted
<1>8. CASE Reply(f)
  BY <1>8 DEF Reply, JudgeUpload, JudgeRelay, Counted
<1>9. CASE RequestFails(f) \/ ConnectionBreaks(f)
  BY <1>9 DEF RequestFails, ConnectionBreaks, Fails
<1>10. CASE Undo(f)
  BY <1>10 DEF Undo
<1>11. CASE Leave(f)
  BY <1>11 DEF Leave
<1> QED BY <1>3, <1>4, <1>5, <1>6, <1>7, <1>8, <1>9, <1>10, <1>11

LEMMA SavesOfSaver ==
  ASSUME TypeOK, Saves, NEW f \in Files, SaverStep(f) PROVE Saves'
<1> USE DEF TypeOK, command, control, outcome, saving, totals, tracker, Becomes
<1>1. SaveFits(f)
  BY DEF Saves
<1>2. UNCHANGED <<command, result>>
      /\ \A g \in Files \ {f} : /\ cl'[g] = cl[g] /\ sv'[g] = sv[g]
                                /\ tmp'[g] = tmp[g] /\ dst'[g] = dst[g]
  BY DEF SaverStep, ReadAll, ReadDamaged, CopyBreaks, CommitFails, Abort, Fails, Commit,
         CommitBlocked
<1> SUFFICES SaveFits(f)'
  BY <1>2, SavesOfOne
<1> USE <1>1 DEF SaveFits, OwnSave, Writing, Remote
<1>3. CASE ReadAll(f)
  BY <1>3 DEF ReadAll, Reads
<1>4. CASE ReadDamaged(f)
  BY <1>4 DEF ReadDamaged, Reads
<1>5. CASE CopyBreaks(f) \/ CommitFails(f)
  <2>1. Abort(f) /\ sv[f] \in Writing
    BY <1>5 DEF CopyBreaks, CommitFails
  <2>2. cl'[f] \in {cl[f], "failing", "cancelled"} /\ sv'[f] = "aborted"
        /\ dst'[f] = dst[f]
    BY <2>1 DEF Abort, Fails
  <2> QED BY <1>2, <2>1, <2>2
<1>6. CASE Commit(f)
  <2>1. sv'[f] = "saved" /\ tmp'[f] = "none" /\ dst'[f] = tmp[f] /\ cl' = cl
        /\ sv[f] \in Writing
    BY <1>6 DEF Commit, Valid
  <2>2. ~Remote => tmp[f] = "new"
    BY <1>6, ModesAssumption DEF Commit, Valid, HashMatches, AllModes
  <2> QED BY <1>2, <2>1, <2>2
<1>7. CASE CommitBlocked(f)
  <2>1. sv'[f] = "cleared" /\ tmp'[f] = tmp[f] /\ dst'[f] \in {dst[f], "absent"}
        /\ cl' = cl /\ sv[f] = "sealed"
    BY <1>7 DEF CommitBlocked, Valid
  <2>2. ~Remote => tmp[f] = "new"
    BY <1>7, ModesAssumption DEF CommitBlocked, Valid, HashMatches, AllModes
  <2> QED BY <1>2, <2>1, <2>2
<1> QED BY <1>3, <1>4, <1>5, <1>6, <1>7 DEF SaverStep

LEMMA SavesKept == TypeOK /\ Flow /\ Saves /\ [Next]_vars => Saves'
<1> SUFFICES ASSUME TypeOK, Flow, Saves, [Next]_vars PROVE Saves'
  OBVIOUS
<1> USE DEF command, control, outcome, saving, totals, tracker
<1>1. CASE UNCHANGED vars \/ Interrupt
  BY <1>1 DEF vars, Interrupt, Saves, SaveFits, OwnSave, Remote
<1>2. CASE WorkerCrash
  BY <1>2 DEF WorkerCrash, SaversDie, Saver, Saves, SaveFits, Writing, Remote
<1>3. CASE ClientKilled
  BY <1>3 DEF ClientKilled, SaversDie, Saver, Saves, SaveFits, OwnSave, Writing, Remote
<1> QED BY <1>1, <1>2, <1>3, SavesOfCommand, SavesOfGoroutine, SavesOfSaver
        DEF Next, ClientStep

-----------------------------------------------------------------------------
(* Errors: why the context is done. *)

LEMMA ErrorsInit == Init => Errors
BY DEF Init, Errors

LEMMA ErrorsKept == TypeOK /\ Flow /\ Saves /\ Errors /\ [Next]_vars => Errors'
<1> SUFFICES ASSUME TypeOK, Flow, Saves, Errors, [Next]_vars PROVE Errors'
  OBVIOUS
<1> USE DEF TypeOK, command, control, outcome, saving, totals, tracker, Errors
<1>1. CASE UNCHANGED vars \/ Interrupt \/ WorkerCrash \/ ClientKilled
  BY <1>1 DEF vars, Interrupt, WorkerCrash, ClientKilled
<1>2. CASE Probe
  <2>1. PICK b \in {0, 1} : Begin(b)
    BY <1>2 DEF Probe, ProbeLocal, ProbeDownload, ProbeUpload, ProbeRelay
  <2> QED BY <1>2, <2>1 DEF Probe, Begin
<1>3. CASE ProbeFails \/ RootNotMade \/ StopFeeding \/ Return
  BY <1>3 DEF ProbeFails, Refuse, RootNotMade, StopFeeding, Return
<1>4. ASSUME NEW d \in Dirs \cup {Root}, MakeDir(d) \/ MakeDirFails(d) PROVE Errors'
  BY <1>4 DEF MakeDir, MakeDirFails, Refuse
<1>5. ASSUME NEW f \in Files, Feed(f) \/ Start(f) PROVE Errors'
  BY <1>5 DEF Feed, Start, Flow
<1>6. ASSUME NEW f \in Files, Open(f) PROVE Errors'
  BY <1>6 DEF Open
<1>7. ASSUME NEW f \in Files, OpenFails(f) \/ RequestFails(f) \/ ConnectionBreaks(f)
      PROVE  Errors'
  BY <1>7 DEF OpenFails, RequestFails, ConnectionBreaks, Fails
<1>8. ASSUME NEW f \in Files, SavedHere(f) \/ Reply(f) \/ Undo(f) PROVE Errors'
  BY <1>8 DEF SavedHere, Reply, JudgeUpload, JudgeRelay, Counted, Undo
<1>9. ASSUME NEW f \in Files, Leave(f) PROVE Errors'
  <2>1. firstErr' # "none" /\ (ctxDone => ctxDone') /\ UNCHANGED <<tree, interrupted>>
    BY <1>9 DEF Leave
  <2>2. firstErr' = "cancel" => interrupted
    BY <1>9 DEF Leave
  <2> QED BY <1>9, <2>1, <2>2 DEF Leave
<1>10. ASSUME NEW f \in Files, SaverStep(f) PROVE Errors'
  BY <1>10 DEF SaverStep, ReadAll, ReadDamaged, CopyBreaks, CommitFails, Abort, Fails,
               Commit, CommitBlocked
<1> QED BY <1>1, <1>2, <1>3, <1>4, <1>5, <1>6, <1>7, <1>8, <1>9, <1>10
        DEF Next, ClientStep

-----------------------------------------------------------------------------
(* Tracks: what the tracker counts is what the goroutines have done. *)

LEMMA TracksInit == Init => Tracks
<1> SUFFICES ASSUME Init PROVE Tracks
  OBVIOUS
<1>1. OkFiles = {} /\ {f \in Files : cl[f] \in Active} = {}
  BY DEF Init, OkFiles, Active
<1>2. Counts
  BY <1>1, FS_EmptySet DEF Counts, Init, NewProgressTracker
<1> QED BY <1>2 DEF Tracks, TotalsFit, AllOver, Init

\* A goroutine goes on, and is shown as active where it should be.
LEMMA CountsOfMove ==
  ASSUME TypeOK, Counts, NEW f \in Files, NEW stage \in ClientStages,
         cl' = [cl EXCEPT ![f] = stage], cl[f] # "ok", stage # "ok",
         completedFiles' = completedFiles,
         activeFiles' = IF stage \in Active THEN activeFiles \cup {f} ELSE activeFiles \ {f}
  PROVE  Counts'
<1> USE DEF TypeOK, Counts
<1>1. OkFiles' = OkFiles
  BY DEF OkFiles
<1>2. activeFiles' = {g \in Files : cl'[g] \in Active}
  OBVIOUS
<1> QED BY <1>1, <1>2 DEF Counts

\* AddFile counts a file once.
LEMMA CountsOfCounted ==
  ASSUME TypeOK, Counts, NEW f \in Files, cl[f] # "ok", Counted(f)
  PROVE  Counts'
<1> USE DEF TypeOK, Counts, Counted
<1>1. OkFiles' = OkFiles \cup {f} /\ f \notin OkFiles
  BY DEF OkFiles
<1>2. Cardinality(OkFiles') = Cardinality(OkFiles) + 1
  BY <1>1, SourceCounts, FS_AddElement
<1>3. activeFiles' = {g \in Files : cl'[g] \in Active}
  BY DEF EndFile, Active
<1> QED BY <1>2, <1>3 DEF AddFile

LEMMA CountsKeptWith ==
  ASSUME Counts, UNCHANGED <<cl, completedFiles, activeFiles>> PROVE Counts'
BY DEF Counts, OkFiles

LEMMA CountsOfCommand ==
  ASSUME TypeOK, Flow, Counts,
         \/ Probe \/ ProbeFails \/ RootNotMade \/ StopFeeding \/ Return
         \/ \E d \in Dirs \cup {Root} : MakeDir(d) \/ MakeDirFails(d)
  PROVE  Counts'
<1> USE DEF tracker
<1>1. CASE Probe
  <2>1. PICK b \in {0, 1} : Begin(b)
    BY <1>1 DEF Probe, ProbeLocal, ProbeDownload, ProbeUpload, ProbeRelay
  <2>2. \A f \in Files : cl[f] = "idle"
    BY <1>1 DEF Probe, Flow
  <2>3. CASE tree
    BY <1>1, <2>1, <2>3, CountsKeptWith DEF Probe, Begin
  <2>4. CASE ~tree
    <3>1. OkFiles' = OkFiles
      BY <2>1, <2>2, <2>4 DEF Begin, OkFiles
    <3>2. activeFiles' = {f \in Files : cl'[f] \in Active}
      BY <2>1, <2>2, <2>4 DEF Begin, Active, TypeOK
    <3>3. completedFiles' = completedFiles
      BY <1>1 DEF Probe
    <3> QED BY <3>1, <3>2, <3>3 DEF Counts
  <2> QED BY <2>3, <2>4
<1>2. UNCHANGED <<cl, completedFiles, activeFiles>> \/ Probe
  <2>1. ASSUME NEW d \in Dirs \cup {Root}, MakeDir(d) \/ MakeDirFails(d)
        PROVE  UNCHANGED <<cl, completedFiles, activeFiles>>
    BY <2>1 DEF MakeDir, MakeDirFails, Refuse
  <2> QED BY <2>1 DEF ProbeFails, Refuse, RootNotMade, StopFeeding, Return
<1> QED BY <1>1, <1>2, CountsKeptWith

LEMMA CountsOfGoroutine ==
  ASSUME TypeOK, Flow, Counts, NEW f \in Files,
         \/ Feed(f) \/ Start(f) \/ Open(f) \/ OpenFails(f) \/ SavedHere(f)
         \/ Reply(f) \/ RequestFails(f) \/ Undo(f) \/ Leave(f) \/ ConnectionBreaks(f)
  PROVE  Counts'
<1> USE DEF totals, tracker
<1>0. \A g \in Files : g \in activeFiles <=> cl[g] \in Active
  BY DEF Counts
<1>1. CASE Feed(f)
  <2>1. cl[f] = "idle"
    BY <1>1 DEF Feed, Flow
  <2>2. activeFiles = activeFiles \ {f}
    BY <1>0, <2>1 DEF Active
  <2> QED BY <1>1, <2>1, <2>2, CountsOfMove DEF Feed, Active, ClientStages
<1>2. CASE Start(f)
  BY <1>0, <1>2, CountsOfMove DEF Start, StartFile, Active, ClientStages
<1>3. CASE Open(f)
  BY <1>0, <1>3, CountsOfMove DEF Open, Active, ClientStages
<1>4. CASE OpenFails(f) \/ RequestFails(f) \/ ConnectionBreaks(f)
  <2>1. \E stage \in {"failing", "cancelled"} : cl' = [cl EXCEPT ![f] = stage]
    BY <1>4 DEF OpenFails, RequestFails, ConnectionBreaks, Fails
  <2>2. cl[f] \in {"open", "busy"} /\ UNCHANGED <<completedFiles, activeFiles>>
    BY <1>4 DEF OpenFails, RequestFails, ConnectionBreaks
  <2>3. activeFiles = activeFiles \cup {f}
    BY <1>0, <2>2 DEF Active
  <2>4. PICK stage \in {"failing", "cancelled"} : cl' = [cl EXCEPT ![f] = stage]
    BY <2>1
  <2> QED BY <2>2, <2>3, <2>4, CountsOfMove DEF Active, ClientStages
<1>5. CASE SavedHere(f)
  BY <1>5, CountsOfCounted DEF SavedHere
<1>6. CASE Reply(f)
  <2>1. cl[f] = "busy"
    BY <1>6 DEF Reply
  <2>2. CASE Counted(f)
    BY <2>1, <2>2, CountsOfCounted
  <2>3. CASE cl' = [cl EXCEPT ![f] = "undo"] /\ UNCHANGED <<completedFiles, activeFiles>>
    BY <1>0, <2>1, <2>3, CountsOfMove DEF Active, ClientStages
  <2> QED BY <1>6, <2>2, <2>3 DEF Reply, JudgeUpload, JudgeRelay
<1>7. CASE Undo(f)
  BY <1>0, <1>7, CountsOfMove DEF Undo, Active, ClientStages
<1>8. CASE Leave(f)
  BY <1>8, CountsOfMove DEF Leave, EndFile, Active, ClientStages
<1> QED BY <1>1, <1>2, <1>3, <1>4, <1>5, <1>6, <1>7, <1>8

LEMMA CountsKept == TypeOK /\ Flow /\ Saves /\ Counts /\ [Next]_vars => Counts'
<1> SUFFICES ASSUME TypeOK, Flow, Saves, Counts, [Next]_vars PROVE Counts'
  OBVIOUS
<1> USE DEF tracker
<1>1. CASE UNCHANGED vars \/ Interrupt \/ WorkerCrash \/ ClientKilled
  BY <1>1, CountsKeptWith DEF vars, Interrupt, WorkerCrash, ClientKilled
<1>2. ASSUME NEW f \in Files, SaverStep(f) PROVE Counts'
  <2>1. CASE UNCHANGED cl
    BY <1>2, <2>1, CountsKeptWith
       DEF SaverStep, ReadAll, ReadDamaged, CopyBreaks, CommitFails, Abort, Commit,
           CommitBlocked
  <2>2. CASE ~Remote /\ Abort(f) /\ sv[f] \in Writing
    <3>1. cl[f] = "busy" /\ UNCHANGED <<completedFiles, activeFiles>>
      BY <2>2 DEF Saves, SaveFits, OwnSave, Abort
    <3>2. PICK stage \in {"failing", "cancelled"} : cl' = [cl EXCEPT ![f] = stage]
      BY <2>2 DEF Abort, Fails
    <3>3. activeFiles = activeFiles \cup {f}
      BY <3>1 DEF Counts, Active
    <3> QED BY <3>1, <3>2, <3>3, CountsOfMove DEF Active, ClientStages
  <2> QED BY <1>2, <2>1, <2>2
          DEF SaverStep, ReadAll, ReadDamaged, CopyBreaks, CommitFails, Abort, Commit,
              CommitBlocked, Writing, outcome
<1> QED BY <1>1, <1>2, CountsOfCommand, CountsOfGoroutine DEF Next, ClientStep

\* The totals, when no file begins.
LEMMA TotalsKeptWith ==
  ASSUME TotalsFit, UNCHANGED <<command, totals>>, phase # "probe",
         result' \in {"none", "ok"} => result \in {"none", "ok"}, Begun' => Begun
  PROVE  TotalsFit'
BY DEF TotalsFit, command, totals

LEMMA TotalsOfProbe == ASSUME TypeOK, Flow, Probe PROVE TotalsFit'
<1> USE DEF command
<1>1. \A f \in Files : cl[f] = "idle"
  BY DEF Probe, Flow
<1>2. CASE tree
  BY <1>2 DEF Probe, ProbeLocal, ProbeDownload, ProbeUpload, ProbeRelay, Begin, SetTotals,
              TotalsFit
<1>3. CASE ~tree
  <2>1. PICK b \in {0, 1} : Begin(b) /\ (mode \in {"local", "upload"} => b = 1)
    BY DEF Probe, ProbeLocal, ProbeDownload, ProbeUpload, ProbeRelay
  <2>2. ~Begun'
    BY <1>1, <1>3, <2>1 DEF Begin, Begun
  <2>3. totalFiles' = Cardinality(source) /\ totalBytes' = b /\ UNCHANGED <<mode, tree, source>>
    BY <1>3, <2>1 DEF Begin, SetTotals, Flow, Probe
  <2> QED BY <1>3, <2>1, <2>2, <2>3 DEF TotalsFit
<1> QED BY <1>2, <1>3

\* X-File-Size arrives.
LEMMA TotalsOfOpen ==
  ASSUME TypeOK, Flow, Saves, TotalsFit, NEW f \in Files, Open(f) PROVE TotalsFit'
<1> USE DEF command, totals
<1>1. /\ phase # "probe" /\ result = "none" /\ f \in source
      /\ UNCHANGED <<command, phase, result>>
  BY DEF Open, Running, Flow, Saves, SaveFits, outcome
<1>2. totalFiles = Cardinality(source) /\ Cardinality(source) \in Nat
      /\ Cardinality(source) # 0
  BY <1>1, SourceCounts DEF TotalsFit
<1>3. \/ mode \in {"local", "upload"} /\ UNCHANGED totals
      \/ SetTotalBytes(1)
  BY DEF Open, CopyFile, DownloadToLocalFile, UploadFile, RelayCopy
<1>4. tree => totalBytes = Cardinality(source)
  BY <1>1 DEF TotalsFit
<1>5. ~tree => totalBytes \in {0, 1} /\ (mode \in {"local", "upload"} => totalBytes = 1)
               /\ Cardinality(source) = 1
  BY <1>1 DEF TotalsFit, Flow
<1>6. totalFiles' = totalFiles /\ (tree => totalBytes' = totalBytes)
      /\ (~tree => totalBytes' = 1)
  BY <1>2, <1>3, <1>4, <1>5 DEF SetTotalBytes, TypeOK
<1> QED BY <1>1, <1>2, <1>4, <1>6 DEF TotalsFit

LEMMA TotalsKept ==
  TypeOK /\ Flow /\ Saves /\ TotalsFit /\ [Next]_vars => TotalsFit'
<1> SUFFICES ASSUME TypeOK, Flow, Saves, TotalsFit, [Next]_vars PROVE TotalsFit'
  OBVIOUS
<1> USE DEF command, control, outcome, tracker
<1>1. CASE UNCHANGED vars
  BY <1>1 DEF vars, TotalsFit, Begun, totals
<1>2. CASE Interrupt \/ WorkerCrash
  BY <1>2 DEF Interrupt, WorkerCrash, TotalsFit, Begun, totals
<1>3. CASE ClientKilled \/ ProbeFails \/ \E d \in Dirs \cup {Root} : MakeDirFails(d)
  <2>1. result' \notin {"none", "ok"}
    BY <1>3 DEF ClientKilled, ProbeFails, MakeDirFails, Refuse, Answer
  <2> QED BY <2>1 DEF TotalsFit
<1>4. CASE RootNotMade \/ StopFeeding \/ Return \/ \E d \in Dirs \cup {Root} : MakeDir(d)
  <2>1. /\ phase # "probe" /\ result = "none"
        /\ UNCHANGED <<command, totals, cl>>
    BY <1>4 DEF RootNotMade, StopFeeding, Return, MakeDir, Running
  <2> QED BY <2>1, TotalsKeptWith DEF Begun
<1>5. ASSUME NEW f \in Files,
             \/ Feed(f) \/ Start(f) \/ OpenFails(f) \/ SavedHere(f)
             \/ Reply(f) \/ RequestFails(f) \/ Undo(f) \/ Leave(f) \/ ConnectionBreaks(f)
      PROVE  TotalsFit'
  <2>1. /\ phase # "probe" /\ result = "none"
        /\ UNCHANGED <<command, totals, result>>
    BY <1>5 DEF Feed, Start, OpenFails, SavedHere, Reply, RequestFails, Undo, Leave,
                ConnectionBreaks, Running, Flow
  <2>2. \A g \in Files : cl'[g] \in {"busy", "undo", "ok"} => cl[g] \in {"busy", "undo", "ok"}
    BY <1>5 DEF Feed, Start, OpenFails, SavedHere, Reply, RequestFails, Undo, Leave,
                ConnectionBreaks, Fails, JudgeUpload, JudgeRelay, Counted, TypeOK
  <2> QED BY <2>1, <2>2, TotalsKeptWith DEF Begun
<1>6. ASSUME NEW f \in Files, SaverStep(f) PROVE TotalsFit'
  <2>1. UNCHANGED <<command, totals, result, phase>>
    BY <1>6 DEF SaverStep, ReadAll, ReadDamaged, CopyBreaks, CommitFails, Abort, Commit,
                CommitBlocked
  <2>2. \A g \in Files : cl'[g] \in {"busy", "undo", "ok"} => cl[g] \in {"busy", "undo", "ok"}
    BY <1>6 DEF SaverStep, ReadAll, ReadDamaged, CopyBreaks, CommitFails, Abort, Fails,
                Commit, CommitBlocked, TypeOK
  <2> QED BY <2>1, <2>2 DEF TotalsFit, Begun, totals
<1> QED BY <1>1, <1>2, <1>3, <1>4, <1>5, <1>6, TotalsOfProbe, TotalsOfOpen
        DEF Next, ClientStep

LEMMA AllOverKept == TypeOK /\ Flow /\ Saves /\ AllOver /\ [Next]_vars => AllOver'
<1> SUFFICES ASSUME TypeOK, Flow, Saves, AllOver, [Next]_vars PROVE AllOver'
  OBVIOUS
<1> USE DEF outcome
<1>1. CASE UNCHANGED vars \/ Interrupt \/ WorkerCrash \/ ClientKilled
  BY <1>1 DEF vars, Interrupt, WorkerCrash, ClientKilled, AllOver
<1>2. CASE ProbeFails \/ \E d \in Dirs \cup {Root} : MakeDirFails(d)
  BY <1>2 DEF ProbeFails, MakeDirFails, Refuse, Flow, AllOver
<1>3. CASE Return
  BY <1>3 DEF Return, Joined, Saves, SaveFits, AllOver
<1>4. CASE Probe \/ RootNotMade \/ StopFeeding \/ \E d \in Dirs \cup {Root} : MakeDir(d)
  BY <1>4 DEF Probe, RootNotMade, StopFeeding, MakeDir, Running, AllOver
<1>5. ASSUME NEW f \in Files,
             \/ Feed(f) \/ Start(f) \/ Open(f) \/ OpenFails(f) \/ SavedHere(f)
             \/ Reply(f) \/ RequestFails(f) \/ Undo(f) \/ Leave(f) \/ ConnectionBreaks(f)
      PROVE  AllOver'
  BY <1>5 DEF Feed, Start, Open, OpenFails, SavedHere, Reply, RequestFails, Undo, Leave,
              ConnectionBreaks, Running, AllOver
<1>6. ASSUME NEW f \in Files, SaverStep(f) PROVE AllOver'
  BY <1>6 DEF SaverStep, ReadAll, ReadDamaged, CopyBreaks, CommitFails, Abort, Commit,
              CommitBlocked, Saves, SaveFits, OwnSave, Writing, AllOver
<1> QED BY <1>1, <1>2, <1>3, <1>4, <1>5, <1>6 DEF Next, ClientStep

-----------------------------------------------------------------------------
(* The inductive invariant, and what follows from it *)

IInv == TypeOK /\ Flow /\ Saves /\ Errors /\ Tracks

LEMMA IInvInit == Init => IInv
BY TypeInit, FlowInit, SavesInit, ErrorsInit, TracksInit DEF IInv

LEMMA IInvKept == IInv /\ [Next]_vars => IInv'
BY TypeKept, FlowKept, SavesKept, ErrorsKept, CountsKept, TotalsKept, AllOverKept
   DEF IInv, Tracks

LEMMA IInvAlways == Spec => []IInv
BY IInvInit, IInvKept, PTL DEF Spec

\* Every variable of a transfer keeps its type (Transfer, pkg/client).
THEOREM TransferTypeCorrect == Spec => []TypeOK
<1>1. IInv => TypeOK
  BY DEF IInv
<1> QED BY <1>1, IInvAlways, PTL

\* SaveStream of the client validates before it renames: whatever a node
\* sends, a download or a local copy puts no damaged file in place.
THEOREM DamageStaysOut == Spec => []NoDamagedTarget
<1>1. IInv => NoDamagedTarget
  BY DEF IInv, NoDamagedTarget, Saves, SaveFits, OwnSave
<1> QED BY <1>1, IInvAlways, PTL

\* The pools of CopyDir, UploadDir, DownloadDir and RelayCopyDir report the
\* error that stopped them, however many goroutines fail at once.
THEOREM FirstErrorIsTheCause == Spec => []RootCause
<1>1. IInv => RootCause
  BY DEF IInv, RootCause, Errors
<1> QED BY <1>1, IInvAlways, PTL

\* The ProgressTracker is at rest when the command has returned, and after a
\* success it has counted every file of the source once.
THEOREM TrackerEndsAtRest == Spec => []TrackerAtRest
<1> SUFFICES IInv => TrackerAtRest
  BY IInvAlways, PTL
<1> SUFFICES ASSUME IInv, result \notin {"none", "killed"} PROVE
      /\ activeFiles = {}
      /\ result = "ok" => /\ totalFiles = Cardinality(source)
                          /\ totalBytes = Cardinality(source)
                          /\ completedFiles = Cardinality(source)
  BY DEF TrackerAtRest
<1> USE DEF IInv
<1>1. activeFiles = {}
  BY DEF Tracks, AllOver, Counts, Active, Ended
<1>2. ASSUME result = "ok" PROVE totalFiles = Cardinality(source) /\ OkFiles = source
  <2>1. phase # "probe" /\ \A f \in source : cl[f] = "ok"
    BY <1>2 DEF Flow
  <2> QED BY <1>2, <2>1 DEF Tracks, TotalsFit, OkFiles, Saves, SaveFits, TypeOK
<1>3. ASSUME result = "ok" PROVE totalBytes = Cardinality(source)
  <2>1. phase # "probe" /\ \A f \in source : cl[f] = "ok"
    BY <1>3 DEF Flow
  <2>2. CASE tree
    BY <1>3, <2>1, <2>2 DEF Tracks, TotalsFit
  <2>3. CASE ~tree
    <3>1. Cardinality(source) = 1 /\ source # {}
      BY <2>3, SourceCounts DEF Flow
    <3>2. Begun
      BY <2>1, <3>1 DEF Begun, TypeOK
    <3> QED BY <1>3, <2>1, <2>3, <3>1, <3>2 DEF Tracks, TotalsFit
  <2> QED BY <2>2, <2>3
<1> QED BY <1>1, <1>2, <1>3 DEF Tracks, Counts

-----------------------------------------------------------------------------
(* What a step may do to the files *)

\* A step that touches a target or a temporary file is one file's, and it is
\* a source file whose command has not said "ok".
LEMMA TargetsChangeOneByOne ==
  ASSUME IInv, [Next]_vars, dst' # dst
  PROVE  /\ result # "ok" /\ UNCHANGED <<source, dirs, made, result>>
         /\ \E f \in source : \E c \in Contents : dst' = [dst EXCEPT ![f] = c]
<1> USE DEF IInv, TypeOK, command, control, outcome, saving
<1>1. ASSUME NEW f \in Files, Undo(f) PROVE f \in source /\ result = "none"
  BY <1>1 DEF Undo, Running, Saves, SaveFits
<1>2. ASSUME NEW f \in Files, Commit(f) \/ CommitBlocked(f)
      PROVE  /\ f \in source /\ result # "ok"
             /\ tmp[f] \in Contents
    <2>1. sv[f] \in Writing
      BY <1>2 DEF Commit, CommitBlocked, Valid, Writing
    <2>2. f \in source /\ tmp[f] # "none"
      BY <2>1 DEF Saves, SaveFits, Writing
    <2>3. cl[f] # "ok"
      BY <2>1 DEF Saves, SaveFits, Writing
    <2> QED BY <2>2, <2>3 DEF Flow, Contents
<1>3. \E f \in Files : Undo(f) \/ Commit(f) \/ CommitBlocked(f)
  <2>1. ASSUME NEW f \in Files, Open(f) PROVE UNCHANGED dst
    BY <2>1 DEF Open, CopyFile, DownloadToLocalFile, UploadFile, RelayCopy, Create
  <2>2. ASSUME NEW f \in Files,
               \/ Feed(f) \/ Start(f) \/ OpenFails(f) \/ SavedHere(f) \/ Reply(f)
               \/ RequestFails(f) \/ Leave(f) \/ ConnectionBreaks(f)
               \/ ReadAll(f) \/ ReadDamaged(f) \/ CopyBreaks(f) \/ CommitFails(f)
        PROVE  UNCHANGED dst
    BY <2>2 DEF Feed, Start, OpenFails, SavedHere, Reply, RequestFails, Leave,
                ConnectionBreaks, ReadAll, ReadDamaged, CopyBreaks, CommitFails, Abort
  <2>3. ASSUME NEW d \in Dirs \cup {Root}, MakeDir(d) \/ MakeDirFails(d)
        PROVE  UNCHANGED dst
    BY <2>3 DEF MakeDir, MakeDirFails, Refuse
  <2>4. ASSUME \/ Probe \/ ProbeFails \/ RootNotMade \/ StopFeeding \/ Return
               \/ Interrupt \/ WorkerCrash \/ ClientKilled \/ UNCHANGED vars
        PROVE  UNCHANGED dst
    BY <2>4 DEF Probe, ProbeFails, Refuse, RootNotMade, StopFeeding, Return, Interrupt,
                WorkerCrash, ClientKilled, vars
  <2> QED BY <2>1, <2>2, <2>3, <2>4 DEF Next, ClientStep, SaverStep
<1>4. PICK f \in Files : Undo(f) \/ Commit(f) \/ CommitBlocked(f)
  BY <1>3
<1>5. f \in source /\ result # "ok" /\ UNCHANGED <<source, dirs, made, result>>
  BY <1>1, <1>2, <1>4 DEF Undo, Commit, CommitBlocked
<1>6. \E c \in Contents : dst' = [dst EXCEPT ![f] = c]
  <2>1. CASE Undo(f) \/ CommitBlocked(f)
    BY <2>1 DEF Undo, CommitBlocked, Contents
  <2>2. CASE Commit(f)
    BY <1>2, <2>2 DEF Commit
  <2> QED BY <1>4, <2>1, <2>2
<1> QED BY <1>5, <1>6

\* What cw cp was asked to do does not change on the way.
LEMMA CommandIsFixed == ASSUME [Next]_vars PROVE UNCHANGED command
<1>1. ASSUME NEW f \in Files, SaverStep(f) PROVE UNCHANGED command
  BY <1>1 DEF SaverStep, ReadAll, ReadDamaged, CopyBreaks, CommitFails, Abort, Commit,
              CommitBlocked
<1>2. ASSUME ClientStep PROVE UNCHANGED command
  BY <1>2 DEF ClientStep, Probe, ProbeFails, Refuse, RootNotMade, StopFeeding, Return,
              MakeDir, MakeDirFails, Feed, Start, Open, OpenFails, SavedHere, Reply,
              RequestFails, Undo, Leave
<1> QED BY <1>1, <1>2 DEF Next, Interrupt, ClientKilled, WorkerCrash, ConnectionBreaks, vars

\* No directory that was made is forgotten.
LEMMA MadeGrows == ASSUME [Next]_vars PROVE made \subseteq made'
<1> USE DEF control
<1>1. ASSUME NEW f \in Files, SaverStep(f) PROVE made \subseteq made'
  BY <1>1 DEF SaverStep, ReadAll, ReadDamaged, CopyBreaks, CommitFails, Abort, Commit,
              CommitBlocked
<1>2. ASSUME NEW f \in Files, Open(f) PROVE made \subseteq made'
  BY <1>2 DEF Open, CopyFile, DownloadToLocalFile, UploadFile, RelayCopy, Create
<1>3. ASSUME NEW f \in Files,
             \/ Feed(f) \/ Start(f) \/ OpenFails(f) \/ SavedHere(f) \/ Reply(f)
             \/ RequestFails(f) \/ Undo(f) \/ Leave(f) \/ ConnectionBreaks(f)
      PROVE  made \subseteq made'
  BY <1>3 DEF Feed, Start, OpenFails, SavedHere, Reply, RequestFails, Undo, Leave,
              ConnectionBreaks
<1>4. ASSUME \/ Probe \/ ProbeFails \/ RootNotMade \/ StopFeeding \/ Return
             \/ \E d \in Dirs \cup {Root} : MakeDir(d) \/ MakeDirFails(d)
      PROVE  made \subseteq made'
  BY <1>4 DEF Probe, ProbeFails, Refuse, RootNotMade, StopFeeding, Return, MakeDir,
              MakeDirFails
<1> QED BY <1>1, <1>2, <1>3, <1>4
        DEF Next, ClientStep, Interrupt, ClientKilled, WorkerCrash, vars

\* What is known of the root: whoever made something below it made it as well,
\* and a local copy made it first.
Roots ==
  /\ made # {} => Root \in made
  /\ \A f \in Files : sv[f] # "none" => Root \in made
  /\ tree /\ mode = "local" /\ phase = "mkdir" => Root \in made \cup todo
  /\ tree /\ mode = "local" /\ (phase = "pool" \/ result = "ok") => Root \in made

LEMMA RootsInit == Init => Roots
BY DEF Init, Roots

LEMMA RootsOfSkeleton ==
  ASSUME IInv, Roots,
         \/ RootNotMade
         \/ \E d \in Dirs \cup {Root} : MakeDir(d) \/ MakeDirFails(d)
  PROVE  Roots'
<1> USE DEF command, outcome, saving, Roots
<1>1. CASE RootNotMade
  <2>1. mode # "local"
    BY <1>1 DEF RootNotMade, DirFunction, CopyDir
  <2> QED BY <1>1, <2>1 DEF RootNotMade
<1>2. ASSUME NEW d \in Dirs \cup {Root}, MakeDir(d) PROVE Roots'
  BY <1>2 DEF MakeDir
<1>3. ASSUME NEW d \in Dirs \cup {Root}, MakeDirFails(d) PROVE Roots'
  BY <1>3 DEF MakeDirFails, Refuse, Answer
<1> QED BY <1>1, <1>2, <1>3

LEMMA RootsOfCommand ==
  ASSUME IInv, Roots, Probe \/ ProbeFails \/ StopFeeding \/ Return
  PROVE  Roots'
<1> USE DEF command, outcome, saving, Roots
<1>1. CASE Probe
  <2>1. PICK b \in {0, 1} : Begin(b)
    BY <1>1 DEF Probe, ProbeLocal, ProbeDownload, ProbeUpload, ProbeRelay
  <2>2. tree => phase' = "mkdir" /\ Root \in todo'
    BY <2>1 DEF Begin
  <2> QED BY <1>1, <2>2 DEF Probe, Running
<1>2. CASE ProbeFails
  BY <1>2 DEF ProbeFails, Refuse, Answer
<1>3. CASE StopFeeding
  BY <1>3 DEF StopFeeding
<1>4. CASE Return
  BY <1>4 DEF Return, Answer
<1> QED BY <1>1, <1>2, <1>3, <1>4

LEMMA RootsKept == IInv /\ Roots /\ [Next]_vars => Roots'
<1> SUFFICES ASSUME IInv, Roots, [Next]_vars PROVE Roots'
  OBVIOUS
<1>1. ASSUME UNCHANGED <<command, phase, todo, result>>, made' \in {made, made \cup {Root}},
             \A f \in Files : sv'[f] # "none" => sv[f] # "none" \/ Root \in made'
      PROVE  Roots'
  BY <1>1 DEF Roots, command
<1>2. ASSUME NEW f \in Files, Open(f) PROVE Roots'
  <2>1. UNCHANGED <<command, phase, todo, result>> /\ made' = made \cup {Root}
    BY <1>2 DEF Open, CopyFile, DownloadToLocalFile, UploadFile, RelayCopy, Create, outcome
  <2> QED BY <1>1, <2>1
<1>3. ASSUME NEW f \in Files,
             \/ Feed(f) \/ Start(f) \/ OpenFails(f) \/ SavedHere(f) \/ Reply(f)
             \/ RequestFails(f) \/ Undo(f) \/ Leave(f) \/ ConnectionBreaks(f)
      PROVE  Roots'
  <2> QED BY <1>3 DEF Feed, Start, OpenFails, SavedHere, Reply, RequestFails, Undo, Leave,
             ConnectionBreaks, Roots, command, control, outcome, saving
<1>4. ASSUME NEW f \in Files, SaverStep(f) PROVE Roots'
  <2>1. UNCHANGED <<command, control, result>>
    BY <1>4 DEF SaverStep, ReadAll, ReadDamaged, CopyBreaks, CommitFails, Abort, Commit,
                CommitBlocked, outcome
  <2>2. sv[f] # "none"
    BY <1>4 DEF SaverStep, ReadAll, ReadDamaged, Reads, CopyBreaks, CommitFails, Commit,
                CommitBlocked, Valid
  <2>3. \A g \in Files \ {f} : sv'[g] = sv[g]
    BY <1>4 DEF SaverStep, ReadAll, ReadDamaged, CopyBreaks, CommitFails, Abort, Commit,
                CommitBlocked, Becomes, IInv, TypeOK
  <2> QED BY <1>1, <2>1, <2>2, <2>3 DEF control
<1>5. ASSUME SaversDie \/ UNCHANGED sv PROVE \A f \in Files : sv'[f] # "none" => sv[f] # "none"
  BY <1>5 DEF SaversDie, Saver
<1>6. CASE UNCHANGED vars \/ Interrupt \/ WorkerCrash
  BY <1>1, <1>5, <1>6 DEF vars, Interrupt, WorkerCrash, control, outcome, saving
<1>7. CASE ClientKilled
  <2>1. SaversDie \/ UNCHANGED sv
    BY <1>7 DEF ClientKilled
  <2> QED BY <1>5, <1>7, <2>1 DEF ClientKilled, Roots, command
<1> QED BY <1>2, <1>3, <1>4, <1>6, <1>7, RootsOfSkeleton, RootsOfCommand DEF Next, ClientStep

\* What is missing only shrinks, and nothing is when the command says "ok".
LEMMA NothingIsMissing == IInv /\ Roots /\ result = "ok" => Bare \/ Missing = {}
<1> SUFFICES ASSUME IInv, Roots, result = "ok" PROVE Bare \/ Missing = {}
  OBVIOUS
<1>1. dirs \subseteq made /\ \A f \in source : f \in Files /\ sv[f] # "none"
  BY DEF IInv, TypeOK, Flow, Saves, SaveFits
<1>2. tree => Bare \/ Root \in made
  BY <1>1 DEF Roots, Bare
<1> QED BY <1>1, <1>2 DEF Missing, Wanted

LEMMA MissingShrinks ==
  ASSUME [Next]_vars PROVE Missing' \subseteq Missing /\ UNCHANGED Bare
<1>1. made \subseteq made' /\ UNCHANGED <<dirs, tree, mode, source>>
  BY MadeGrows, CommandIsFixed DEF command
<1>2. Wanted' = Wanted
  BY <1>1 DEF Wanted
<1>3. Bare' = Bare
  BY <1>1 DEF Bare
<1> QED BY <1>1, <1>2, <1>3 DEF Missing

LEMMA StepKeepsContract ==
  ASSUME IInv, IInv', Roots', [Next]_vars
  PROVE  Contract!Next \/ UNCHANGED <<source, Bare, Missing, dst, result>>
<1>0. Missing' \subseteq Missing /\ source' = source
  BY MissingShrinks, CommandIsFixed DEF command
<1>00. UNCHANGED Bare
  BY MissingShrinks
<1>1. CASE dst' # dst
  <2>1. /\ result # "ok" /\ UNCHANGED <<source, dirs, made, result>>
        /\ \E f \in source : \E c \in Contents : dst' = [dst EXCEPT ![f] = c]
    BY <1>1, TargetsChangeOneByOne
  <2>2. source \subseteq Files
    BY DEF IInv, TypeOK
  <2>3. UNCHANGED Missing
    BY <2>1, CommandIsFixed DEF Missing, Wanted, command
  <2> QED BY <1>00, <2>1, <2>2, <2>3
          DEF Contract!Next, Contract!Write, Contract!Contents, Contents
<1>2. CASE dst' = dst
  <2>3. CASE result' # result
    <3>1. ProbeFails \/ Return \/ ClientKilled \/ \E d \in Dirs \cup {Root} : MakeDirFails(d)
      BY <2>3 DEF Next, ClientStep, SaverStep, vars, outcome, Probe, RootNotMade,
             StopFeeding, MakeDir, Feed, Start, Open, OpenFails, SavedHere, Reply,
             RequestFails, Undo, Leave, ReadAll, ReadDamaged, CopyBreaks, CommitFails,
             Abort, Commit, CommitBlocked, Interrupt, WorkerCrash, ConnectionBreaks
    <3>2. result = "none" /\ UNCHANGED made
      BY <3>1 DEF ProbeFails, Return, ClientKilled, MakeDirFails, Refuse, Running
    <3>3. result' \in Contract!Answers \ {"none"}
      BY <2>3, <3>2 DEF IInv, TypeOK, Results, Contract!Answers
    <3>4. UNCHANGED Missing
      BY <3>2, CommandIsFixed DEF Missing, Wanted, command
    <3>5. ASSUME result' = "ok" PROVE Bare \/ Missing = {}
      <4>1. (IInv /\ Roots /\ result = "ok" => Bare \/ Missing = {})'
        BY NothingIsMissing, PTL
      <4> QED BY <1>00, <3>4, <3>5, <4>1
    <3>6. ASSUME result' = "ok", NEW f \in source PROVE dst[f] = "new"
      <4>1. f \in Files /\ cl'[f] = "ok"
        BY <1>0, <3>6 DEF IInv, Flow, TypeOK
      <4> QED BY <1>2, <4>1 DEF IInv, Saves, SaveFits
    <3> QED BY <1>0, <1>00, <1>2, <3>2, <3>3, <3>4, <3>5, <3>6
            DEF Contract!Next, Contract!Return
  <2>4. CASE result' = result
    BY <1>0, <1>00, <1>2, <2>4 DEF Contract!Next, Contract!MakeDir
  <2> QED BY <2>3, <2>4
<1> QED BY <1>1, <1>2

\* cw cp implements what it promises: after "ok" no directory is missing, the
\* root included, and every source file is at its target, for good.  Only a bare
\* tree that comes from or goes to a node may be "ok" without its root.
THEOREM CopyKeepsContract == Spec => CopyIsKept
<1>1. Init => Contract!Init
  <2> SUFFICES ASSUME Init PROVE Contract!Init
    OBVIOUS
  <2>1. source \in SUBSET Files /\ Missing \in SUBSET (Dirs \cup {Root}) /\ result = "none"
    BY DEF Init, Missing, Wanted
  <2>2. dst \in [Files -> {"absent", "old"}]
    BY BeforeAssumption DEF Init
  <2>3. Bare \in BOOLEAN
    BY DEF Bare
  <2> QED BY <2>1, <2>2, <2>3 DEF Contract!Init
<1>2. IInv /\ IInv' /\ Roots' /\ [Next]_vars
        => [Contract!Next]_<<source, Bare, Missing, dst, result>>
  BY StepKeepsContract
<1> QED BY <1>1, <1>2, RootsInit, RootsKept, IInvAlways, PTL
        DEF Spec, CopyIsKept, Contract!Spec

\* Transfer joins every goroutine it has started: a local copy or a download
\* writes nothing after the command has returned.
THEOREM NothingWrittenAfter == Spec => ReturnIsQuiet
<1>1. ASSUME IInv, [Next]_vars, result # "none", ~Remote PROVE UNCHANGED <<dst, tmp>>
  <2> USE DEF IInv, saving, outcome, Running
  <2>1. \A f \in Files : sv[f] \notin Writing
    BY <1>1 DEF Saves, SaveFits, OwnSave
  <2>2. \A f \in Files : ~SaverStep(f)
    BY <1>1, <2>1 DEF SaverStep, ReadAll, ReadDamaged, Reads, CopyBreaks, CommitFails, Commit,
                CommitBlocked, Valid, Writing
  <2>3. ~ClientStep /\ ~Interrupt /\ ~ClientKilled /\ \A f \in Files : ~ConnectionBreaks(f)
    BY <1>1 DEF ClientStep, Probe, ProbeFails, RootNotMade, StopFeeding, Return, MakeDir,
           MakeDirFails, Feed, Start, Open, OpenFails, SavedHere, Reply, RequestFails, Undo,
           Leave, Interrupt, ClientKilled, ConnectionBreaks
  <2>4. UNCHANGED vars
    BY <1>1, <2>2, <2>3 DEF Next, WorkerCrash
  <2> QED BY <2>4 DEF vars
<1>2. IInv /\ [Next]_vars => [result # "none" /\ ~Remote => UNCHANGED <<dst, tmp>>]_vars
  BY <1>1
<1> QED BY <1>2, IInvAlways, PTL DEF Spec, ReturnIsQuiet

-----------------------------------------------------------------------------
(* Where the copy lands.  Only a tree that goes to a node depends on the     *)
(* answer to a listing, which may be lost (run transfer_inside).             *)

Lands ==
  /\ ~Remote /\ (phase \in {"mkdir", "pool"} \/ result = "ok") => nested = into
  /\ ~tree => \A f \in Files : sv[f] # "none" => nested = into

LEMMA LandsKept == IInv /\ Lands /\ [Next]_vars => Lands'
<1> SUFFICES ASSUME IInv, Lands, [Next]_vars PROVE Lands'
  OBVIOUS
<1> USE DEF command, control, outcome, saving, Remote, Running
<1>1. UNCHANGED command
  BY CommandIsFixed
<1>2. CASE Probe
  <2>1. /\ ~Remote => nested' = into
        /\ UNCHANGED <<sv, result>>
    BY <1>2 DEF Probe, ProbeLocal, ProbeDownload, ProbeUpload, ProbeRelay
  <2>2. \A f \in Files : sv[f] = "none"
    BY <1>2 DEF Probe, IInv, Flow, Saves, SaveFits
  <2> QED BY <1>1, <2>1, <2>2 DEF Lands
<1>3. CASE ProbeFails \/ \E d \in Dirs \cup {Root} : MakeDirFails(d)
  BY <1>1, <1>3 DEF ProbeFails, MakeDirFails, Refuse, Answer, Lands
<1>4. CASE RootNotMade \/ StopFeeding \/ \E d \in Dirs \cup {Root} : MakeDir(d)
  BY <1>1, <1>4 DEF RootNotMade, StopFeeding, MakeDir, ToPool, Lands
<1>5. CASE Return
  BY <1>1, <1>5 DEF Return, Answer, Lands
<1>6. CASE UNCHANGED vars \/ Interrupt
  BY <1>1, <1>6 DEF vars, Interrupt, Lands
<1>7. CASE ClientKilled \/ WorkerCrash
  <2>1. \A f \in Files : sv'[f] # "none" => sv[f] # "none"
    BY <1>7 DEF ClientKilled, WorkerCrash, SaversDie, Saver
  <2> QED BY <1>1, <1>7, <2>1 DEF ClientKilled, WorkerCrash, Lands
<1>8. ASSUME NEW f \in Files, Open(f) PROVE Lands'
  <2>1. UNCHANGED <<phase, nested, result>> /\ Create(f)
    BY <1>8 DEF Open, CopyFile, DownloadToLocalFile, UploadFile, RelayCopy
  <2> QED BY <1>1, <2>1 DEF Create, Lands, IInv, TypeOK
<1>9. ASSUME NEW f \in Files,
             \/ Feed(f) \/ Start(f) \/ OpenFails(f) \/ SavedHere(f) \/ Reply(f)
             \/ RequestFails(f) \/ Undo(f) \/ Leave(f) \/ ConnectionBreaks(f)
      PROVE  Lands'
  <2>1. UNCHANGED <<phase, nested, result, sv>>
    BY <1>9 DEF Feed, Start, OpenFails, SavedHere, Reply, RequestFails, Undo, Leave,
                ConnectionBreaks
  <2> QED BY <1>1, <2>1 DEF Lands
<1>10. ASSUME NEW f \in Files, SaverStep(f) PROVE Lands'
  <2>1. /\ UNCHANGED <<phase, nested, result>> /\ sv[f] # "none"
        /\ \E s \in SaverStages : sv' = [sv EXCEPT ![f] = s]
    BY <1>10 DEF SaverStep, ReadAll, ReadDamaged, Reads, CopyBreaks, CommitFails, Abort,
                 Commit, CommitBlocked, Valid, Becomes, SaverStages
  <2> QED BY <1>1, <2>1 DEF Lands, IInv, TypeOK
<1> QED BY <1>2, <1>3, <1>4, <1>5, <1>6, <1>7, <1>8, <1>9, <1>10 DEF Next, ClientStep

\* A copy that ends well lies inside a target that is a directory, unless it is
\* a tree and the target a node's: nobody but an unanswered listing can lead it
\* astray (the comment at Transfer, transfer.go:127).
THEOREM LandsInsideElsewhere == Spec => [](~(tree /\ Remote) => LandsInside)
<1>1. Init => Lands
  BY DEF Init, Lands, Remote
<1>2. IInv /\ Lands => (~(tree /\ Remote) => LandsInside)
  <2> SUFFICES ASSUME IInv, Lands, ~(tree /\ Remote), result = "ok" PROVE nested = into
    BY DEF LandsInside
  <2>1. CASE ~Remote
    BY <2>1 DEF Lands
  <2>2. CASE ~tree
    <3>1. source # {} /\ source \subseteq Files
      BY <2>2, SourceCounts DEF IInv, Flow, TypeOK
    <3>2. PICK f \in source : cl[f] = "ok" /\ f \in Files
      BY <3>1 DEF IInv, Flow
    <3>3. sv[f] = "saved"
      BY <3>2 DEF IInv, Saves, SaveFits
    <3> QED BY <2>2, <3>2, <3>3 DEF Lands
  <2> QED BY <2>1, <2>2
<1> QED BY <1>1, <1>2, IInvAlways, LandsKept, PTL DEF Spec

-----------------------------------------------------------------------------
(* Why a transfer ends.  What is left of it is five finite sets that no step *)
(* makes larger: a retry, a late goroutine or a crash never gives new work.  *)

GoroutineWork(s) ==
  CASE s = "idle" -> 6 [] s = "spawned" -> 5 [] s = "open" -> 4 [] s = "busy" -> 3
    [] s = "undo" -> 2 [] s \in {"failing", "cancelled"} -> 1 [] OTHER -> 0
SaverWork(s) ==
  CASE s = "none" -> 4 [] s = "writing" -> 3 [] s = "sealed" -> 2
    [] s = "cleared" -> 1 [] OTHER -> 0

ToAnswer == {"probe", "return"} \ ((IF phase = "probe" THEN {} ELSE {"probe"})
                                    \cup (IF Running THEN {} ELSE {"return"}))
ToMake == IF phase = "probe" THEN dirs \cup {Root}
          ELSE IF phase = "mkdir" THEN todo ELSE {}
ToFeed == IF phase \in {"probe", "mkdir"} THEN source
          ELSE IF phase = "pool" THEN todo ELSE {}
Below(files, work) == {w \in files \X (1..6) : w[2] <= work[w[1]]}
ToCopy == Below(source, [f \in source |-> GoroutineWork(cl[f])])
ToSave == Below(source, [f \in source |-> SaverWork(sv[f])])

Left == <<ToAnswer, ToMake, ToFeed, ToCopy, ToSave>>
LeftIsFinite == /\ IsFiniteSet(ToAnswer) /\ IsFiniteSet(ToMake) /\ IsFiniteSet(ToFeed)
                /\ IsFiniteSet(ToCopy) /\ IsFiniteSet(ToSave)
NoMoreLeft == /\ ToAnswer' \subseteq ToAnswer /\ ToMake' \subseteq ToMake
              /\ ToFeed' \subseteq ToFeed /\ ToCopy' \subseteq ToCopy
              /\ ToSave' \subseteq ToSave

LEMMA LeftFinite == ASSUME TypeOK PROVE LeftIsFinite
<1>1. IsFiniteSet(source) /\ IsFiniteSet(dirs) /\ IsFiniteSet(todo) /\ IsFiniteSet({Root})
  <2>1. IsFiniteSet({Root})
    BY FS_Singleton
  <2>2. IsFiniteSet(Dirs \cup {Root})
    BY <2>1, DirsAssumption, FS_Union
  <2>3. IsFiniteSet(Files \cup (Dirs \cup {Root}))
    BY <2>2, FilesAssumption, FS_Union
  <2>4. todo \in SUBSET (Files \cup (Dirs \cup {Root})) /\ source \in SUBSET Files
        /\ dirs \in SUBSET Dirs
    BY DEF TypeOK
  <2> QED BY <2>1, <2>3, <2>4, FilesAssumption, DirsAssumption, FS_Subset
<1>2. IsFiniteSet(dirs \cup {Root}) /\ IsFiniteSet({})
  BY <1>1, FS_Union, FS_EmptySet
<1>3. IsFiniteSet(source \X (1..6))
  <2>1. 1 \in Int /\ 6 \in Int
    OBVIOUS
  <2>2. IsFiniteSet(1..6)
    BY <2>1, FS_Interval
  <2> QED BY <1>1, <2>2, FS_Product
<1>4. ToCopy \in SUBSET (source \X (1..6)) /\ ToSave \in SUBSET (source \X (1..6))
  BY DEF ToCopy, ToSave, Below
<1>5. IsFiniteSet(ToCopy) /\ IsFiniteSet(ToSave)
  BY <1>3, <1>4, FS_Subset
<1>6. IsFiniteSet(ToAnswer)
  <2>1. IsFiniteSet({"probe"}) /\ IsFiniteSet({"return"})
    BY FS_Singleton
  <2>2. IsFiniteSet({"probe"} \cup {"return"})
    BY <2>1, FS_Union
  <2>3. ToAnswer \in SUBSET ({"probe"} \cup {"return"})
    BY DEF ToAnswer
  <2> QED BY <2>2, <2>3, FS_Subset
<1>7. IsFiniteSet(ToMake)
  BY <1>1, <1>2 DEF ToMake
<1>8. IsFiniteSet(ToFeed)
  BY <1>1, <1>2 DEF ToFeed
<1> QED BY <1>5, <1>6, <1>7, <1>8 DEF LeftIsFinite

LEMMA BelowIsLess ==
  ASSUME NEW S, NEW v \in [S -> 0..6], NEW w \in [S -> 0..6], \A f \in S : w[f] <= v[f]
  PROVE  /\ Below(S, w) \subseteq Below(S, v)
         /\ (\E f \in S : w[f] < v[f]) => Below(S, w) # Below(S, v)
<1>1. ASSUME NEW x \in Below(S, w) PROVE x \in Below(S, v)
  <2>1. x \in S \X (1..6) /\ x[2] <= w[x[1]] /\ x[1] \in S /\ x[2] \in 1..6
    BY <1>1 DEF Below
  <2>2. w[x[1]] <= v[x[1]] /\ w[x[1]] \in 0..6 /\ v[x[1]] \in 0..6
    BY <2>1
  <2>3. x[2] <= v[x[1]]
    BY <2>1, <2>2
  <2> QED BY <2>1, <2>3 DEF Below
<1>2. ASSUME NEW f \in S, w[f] < v[f] PROVE Below(S, w) # Below(S, v)
  <2>1. w[f] \in 0..6 /\ v[f] \in 1..6
    BY <1>2
  <2>2. <<f, v[f]>> \in Below(S, v)
    BY <2>1 DEF Below
  <2>3. <<f, v[f]>> \notin Below(S, w)
    BY <1>2, <2>1 DEF Below
  <2> QED BY <2>2, <2>3
<1> QED BY <1>1, <1>2

\* A goroutine that goes on has less before it, and so has a saver.
LEMMA CopiesAdvance ==
  ASSUME TypeOK, TypeOK', UNCHANGED source,
         \A f \in source : GoroutineWork(cl'[f]) <= GoroutineWork(cl[f])
  PROVE  /\ ToCopy' \subseteq ToCopy
         /\ (\E f \in source : GoroutineWork(cl'[f]) < GoroutineWork(cl[f]))
              => ToCopy' # ToCopy
<1> DEFINE v == [f \in source |-> GoroutineWork(cl[f])]
           w == [f \in source |-> GoroutineWork(cl'[f])]
<1>1. \A s \in ClientStages : GoroutineWork(s) \in 0..6
  BY DEF ClientStages, GoroutineWork
<1>2. \A f \in source : cl[f] \in ClientStages /\ cl'[f] \in ClientStages
  BY DEF TypeOK
<1>3. v \in [source -> 0..6] /\ w \in [source -> 0..6]
  BY <1>1, <1>2
<1>4. ToCopy = Below(source, v) /\ ToCopy' = Below(source, w)
  BY DEF ToCopy, Below
<1>5. \A f \in source : v[f] = GoroutineWork(cl[f]) /\ w[f] = GoroutineWork(cl'[f])
  OBVIOUS
<1> HIDE DEF v, w
<1> QED BY <1>3, <1>4, <1>5, BelowIsLess

LEMMA SavesAdvance ==
  ASSUME TypeOK, TypeOK', UNCHANGED source,
         \A f \in source : SaverWork(sv'[f]) <= SaverWork(sv[f])
  PROVE  /\ ToSave' \subseteq ToSave
         /\ (\E f \in source : SaverWork(sv'[f]) < SaverWork(sv[f])) => ToSave' # ToSave
<1> DEFINE v == [f \in source |-> SaverWork(sv[f])]
           w == [f \in source |-> SaverWork(sv'[f])]
<1>1. \A s \in SaverStages : SaverWork(s) \in 0..6
  BY DEF SaverStages, SaverWork
<1>2. \A f \in source : sv[f] \in SaverStages /\ sv'[f] \in SaverStages
  BY DEF TypeOK
<1>3. v \in [source -> 0..6] /\ w \in [source -> 0..6]
  BY <1>1, <1>2
<1>4. ToSave = Below(source, v) /\ ToSave' = Below(source, w)
  BY DEF ToSave, Below
<1>5. \A f \in source : v[f] = SaverWork(sv[f]) /\ w[f] = SaverWork(sv'[f])
  OBVIOUS
<1> HIDE DEF v, w
<1> QED BY <1>3, <1>4, <1>5, BelowIsLess

\* The command's own steps answer, make or feed.
LEMMA CommandAdvances ==
  ASSUME IInv, IInv', UNCHANGED command,
         \/ Probe \/ ProbeFails \/ RootNotMade \/ StopFeeding \/ Return
         \/ \E d \in Dirs \cup {Root} : MakeDir(d) \/ MakeDirFails(d)
  PROVE  NoMoreLeft /\ Left' # Left
<1> USE DEF IInv, command, outcome, saving, tracker
<1>1. UNCHANGED sv /\ \A f \in Files : cl'[f] = cl[f] \/ cl[f] = "idle"
  BY DEF Probe, Begin, ProbeLocal, ProbeDownload, ProbeUpload, ProbeRelay, ProbeFails,
         RootNotMade, StopFeeding, Return, MakeDir, MakeDirFails, Refuse, Flow, TypeOK
<1>2. ToCopy' \subseteq ToCopy
  <2>1. \A f \in source : cl[f] \in ClientStages /\ cl'[f] \in ClientStages
    BY DEF TypeOK
  <2>2. \A s \in ClientStages : GoroutineWork(s) \in 0..6 /\ GoroutineWork("idle") = 6
    BY DEF ClientStages, GoroutineWork
  <2>3. \A f \in source : GoroutineWork(cl'[f]) <= GoroutineWork(cl[f])
    <3> SUFFICES ASSUME NEW f \in source PROVE GoroutineWork(cl'[f]) <= GoroutineWork(cl[f])
      OBVIOUS
    <3>1. GoroutineWork(cl[f]) \in 0..6 /\ GoroutineWork(cl'[f]) \in 0..6
      BY <2>1, <2>2
    <3>2. cl'[f] = cl[f] \/ cl[f] = "idle"
      BY <1>1 DEF TypeOK
    <3> QED BY <2>1, <2>2, <3>1, <3>2
  <2> QED BY <2>3, CopiesAdvance
<1>3. ToSave' \subseteq ToSave
  BY <1>1 DEF ToSave, Below
<1>4. CASE Probe
  <2>1. /\ phase = "probe" /\ phase' \in {"mkdir", "pool"} /\ UNCHANGED result
        /\ phase' = "mkdir" => todo' = dirs \cup {Root}
        /\ phase' = "pool" => todo' = {}
    BY <1>4 DEF Probe, Begin, ProbeLocal, ProbeDownload, ProbeUpload, ProbeRelay
  <2>2. "probe" \in ToAnswer /\ "probe" \notin ToAnswer'
    BY <2>1 DEF ToAnswer
  <2>3. ToAnswer' \subseteq ToAnswer /\ ToMake' \subseteq ToMake /\ ToFeed' \subseteq ToFeed
    BY <2>1 DEF ToAnswer, ToMake, ToFeed, Running
  <2> QED BY <1>2, <1>3, <2>2, <2>3 DEF NoMoreLeft, Left
<1>5. CASE ProbeFails \/ Return \/ \E d \in Dirs \cup {Root} : MakeDirFails(d)
  <2>1. Running /\ ~Running' /\ phase' = "done"
    BY <1>5 DEF ProbeFails, MakeDirFails, Return, Refuse, Answer, Running
  <2>2. "return" \in ToAnswer /\ "return" \notin ToAnswer'
    BY <2>1 DEF ToAnswer
  <2>3. ToAnswer' \subseteq ToAnswer /\ ToMake' = {} /\ ToFeed' = {}
    BY <2>1 DEF ToAnswer, ToMake, ToFeed, Running
  <2> QED BY <1>2, <1>3, <2>2, <2>3 DEF NoMoreLeft, Left
<1>6. CASE RootNotMade \/ \E d \in Dirs \cup {Root} : MakeDir(d)
  <2>1. PICK d \in todo : ToPool(todo \ {d}) /\ phase = "mkdir" /\ UNCHANGED result
    BY <1>6 DEF RootNotMade, MakeDir, NextDir
  <2>2. ToMake = todo /\ ToMake' \subseteq todo \ {d}
    BY <2>1 DEF ToMake, ToPool
  <2>3. ToFeed' = ToFeed /\ ToAnswer' = ToAnswer
    BY <2>1 DEF ToFeed, ToAnswer, ToPool, Running
  <2> QED BY <1>2, <1>3, <2>1, <2>2, <2>3 DEF NoMoreLeft, Left
<1>7. CASE StopFeeding
  <2>1. todo # {} /\ todo' = {} /\ phase = "pool" /\ UNCHANGED <<phase, result>>
    BY <1>7 DEF StopFeeding
  <2>2. ToFeed' = {} /\ ToFeed # {} /\ ToMake' = ToMake /\ ToAnswer' = ToAnswer
    BY <2>1 DEF ToFeed, ToMake, ToAnswer, Running
  <2> QED BY <1>2, <1>3, <2>2 DEF NoMoreLeft, Left
<1> QED BY <1>4, <1>5, <1>6, <1>7

\* A step of a file's goroutine, of its saver, or of the world around them.
LEMMA FileAdvances ==
  ASSUME IInv, IInv', UNCHANGED <<source, dirs, phase, result>>, todo' \subseteq todo,
         \A f \in source : GoroutineWork(cl'[f]) <= GoroutineWork(cl[f]),
         \A f \in source : SaverWork(sv'[f]) <= SaverWork(sv[f])
  PROVE  /\ NoMoreLeft
         /\ (\E f \in source : \/ GoroutineWork(cl'[f]) < GoroutineWork(cl[f])
                               \/ SaverWork(sv'[f]) < SaverWork(sv[f])) => Left' # Left
<1>1. /\ ToCopy' \subseteq ToCopy
      /\ (\E f \in source : GoroutineWork(cl'[f]) < GoroutineWork(cl[f])) => ToCopy' # ToCopy
  BY CopiesAdvance DEF IInv
<1>2. /\ ToSave' \subseteq ToSave
      /\ (\E f \in source : SaverWork(sv'[f]) < SaverWork(sv[f])) => ToSave' # ToSave
  BY SavesAdvance DEF IInv
<1>3. ToAnswer' = ToAnswer /\ ToMake' \subseteq ToMake /\ ToFeed' \subseteq ToFeed
  BY DEF ToAnswer, ToMake, ToFeed, Running
<1> QED BY <1>1, <1>2, <1>3 DEF NoMoreLeft, Left

\* A goroutine's step takes it forward, or into its failure.
LEMMA GoroutineGoesOn ==
  ASSUME IInv, NEW f \in Files,
         \/ Feed(f) \/ Start(f) \/ Open(f) \/ OpenFails(f) \/ SavedHere(f)
         \/ Reply(f) \/ RequestFails(f) \/ Undo(f) \/ Leave(f) \/ ConnectionBreaks(f)
  PROVE  /\ f \in source /\ UNCHANGED <<phase, result>> /\ todo' \subseteq todo
         /\ \E s \in ClientStages : /\ cl' = [cl EXCEPT ![f] = s]
                                    /\ GoroutineWork(s) < GoroutineWork(cl[f])
         /\ sv' = sv \/ (sv[f] = "none" /\ sv' = [sv EXCEPT ![f] = "writing"])
<1> USE DEF control, outcome, saving
<1>1. UNCHANGED <<phase, result>> /\ todo' \subseteq todo
  BY DEF Feed, Start, Open, OpenFails, SavedHere, Reply, RequestFails, Undo, Leave,
         ConnectionBreaks
<1>2. f \in source
  BY DEF IInv, Flow, Saves, SaveFits, Feed, Start, Open, OpenFails, SavedHere, Reply,
         RequestFails, Undo, Leave, ConnectionBreaks
<1>3. PICK s \in ClientStages :
        /\ cl' = [cl EXCEPT ![f] = s]
        /\ \/ cl[f] = "idle" /\ s = "spawned"
           \/ cl[f] = "spawned" /\ s \in {"open", "skipped"}
           \/ cl[f] = "open" /\ s \in {"busy", "failing", "cancelled"}
           \/ cl[f] = "busy" /\ s \in {"ok", "undo", "failing", "cancelled"}
           \/ cl[f] = "undo" /\ s = "failing"
           \/ cl[f] \in {"failing", "cancelled"} /\ s = "failed"
  <2>1. cl[f] = "idle" \/ ~Feed(f)
    BY DEF IInv, Flow, Feed
  <2> QED BY <2>1 DEF ClientStages, Feed, Start, Open, OpenFails, Fails, SavedHere,
             Reply, JudgeUpload, JudgeRelay, Counted, RequestFails, Undo, Leave,
             ConnectionBreaks
<1>4. GoroutineWork(s) < GoroutineWork(cl[f])
  BY <1>3 DEF GoroutineWork
<1>5. sv' = sv \/ (sv[f] = "none" /\ sv' = [sv EXCEPT ![f] = "writing"])
  BY DEF IInv, Saves, SaveFits, Feed, Start, Open, CopyFile, DownloadToLocalFile,
         UploadFile, RelayCopy, Create, OpenFails, SavedHere, Reply, RequestFails,
         Undo, Leave, ConnectionBreaks
<1> QED BY <1>1, <1>2, <1>3, <1>4, <1>5

LEMMA SaverGoesOn ==
  ASSUME IInv, NEW f \in Files, SaverStep(f)
  PROVE  /\ f \in source /\ UNCHANGED <<phase, result, todo>>
         /\ \E s \in SaverStages : /\ sv' = [sv EXCEPT ![f] = s]
                                   /\ SaverWork(s) < SaverWork(sv[f])
         /\ cl' = cl \/ (cl[f] = "busy" /\ \E s \in {"failing", "cancelled"} :
                                             cl' = [cl EXCEPT ![f] = s])
<1> USE DEF control, outcome, saving
<1>1. UNCHANGED <<phase, result, todo>> /\ sv[f] \in Writing
  BY DEF SaverStep, ReadAll, ReadDamaged, Reads, CopyBreaks, CommitFails, Abort, Commit,
         CommitBlocked, Valid, Writing
<1>2. f \in source
  BY <1>1 DEF IInv, Saves, SaveFits, Writing
<1>3. PICK s \in SaverStages :
        /\ sv' = [sv EXCEPT ![f] = s]
        /\ \/ sv[f] = "writing" /\ s \in {"sealed", "aborted"}
           \/ sv[f] = "sealed" /\ s \in {"cleared", "saved", "aborted"}
           \/ sv[f] = "cleared" /\ s \in {"saved", "aborted"}
  BY DEF SaverStep, ReadAll, ReadDamaged, Reads, CopyBreaks, CommitFails, Abort, Commit,
         CommitBlocked, Valid, Becomes, SaverStages
<1>4. SaverWork(s) < SaverWork(sv[f])
  BY <1>3 DEF SaverWork
<1>5. cl' = cl \/ (cl[f] = "busy" /\ \E c \in {"failing", "cancelled"} :
                                       cl' = [cl EXCEPT ![f] = c])
  <2>1. cl' = cl \/ (~Remote /\ Fails(f))
    BY DEF SaverStep, ReadAll, ReadDamaged, CopyBreaks, CommitFails, Abort, Commit,
           CommitBlocked
  <2>2. ~Remote => cl[f] = "busy"
    BY <1>1 DEF IInv, Saves, SaveFits, OwnSave
  <2> QED BY <2>1, <2>2 DEF Fails
<1> QED BY <1>1, <1>2, <1>3, <1>4, <1>5

LEMMA StepAdvances ==
  ASSUME IInv, IInv', [Next]_vars
  PROVE  NoMoreLeft /\ (ClientStep \/ (\E f \in Files : SaverStep(f)) => Left' # Left)
<1>1. UNCHANGED command /\ source' = source /\ dirs' = dirs /\ source \subseteq Files
  BY CommandIsFixed DEF command, IInv, TypeOK
<1>2. \A s \in ClientStages : GoroutineWork(s) \in 0..6
  BY DEF ClientStages, GoroutineWork
<1>3. \A s \in SaverStages : SaverWork(s) \in 0..4
  BY DEF SaverStages, SaverWork
<1>4. \A f \in Files : /\ cl[f] \in ClientStages /\ sv[f] \in SaverStages
                       /\ GoroutineWork(cl[f]) \in 0..6 /\ SaverWork(sv[f]) \in 0..4
  BY <1>2, <1>3 DEF IInv, TypeOK
<1>5. ASSUME NEW f \in Files,
             \/ Feed(f) \/ Start(f) \/ Open(f) \/ OpenFails(f) \/ SavedHere(f)
             \/ Reply(f) \/ RequestFails(f) \/ Undo(f) \/ Leave(f) \/ ConnectionBreaks(f)
      PROVE  NoMoreLeft /\ Left' # Left
  <2>1. /\ f \in source /\ UNCHANGED <<phase, result>> /\ todo' \subseteq todo
        /\ sv' = sv \/ (sv[f] = "none" /\ sv' = [sv EXCEPT ![f] = "writing"])
    BY <1>5, GoroutineGoesOn
  <2>2. PICK s \in ClientStages : /\ cl' = [cl EXCEPT ![f] = s]
                                  /\ GoroutineWork(s) < GoroutineWork(cl[f])
    BY <1>5, GoroutineGoesOn
  <2>3. \A g \in Files : cl'[g] = IF g = f THEN s ELSE cl[g]
    BY <2>2 DEF IInv, TypeOK
  <2>4. /\ \A g \in source : GoroutineWork(cl'[g]) <= GoroutineWork(cl[g])
        /\ GoroutineWork(cl'[f]) < GoroutineWork(cl[f])
    BY <1>1, <1>2, <1>4, <2>2, <2>3
  <2>5. SaverWork("writing") = 3 /\ SaverWork("none") = 4
    BY DEF SaverWork
  <2>6. \A g \in source : sv'[g] = sv[g] \/ (sv[g] = "none" /\ sv'[g] = "writing")
    BY <1>1, <2>1 DEF IInv, TypeOK
  <2>7. \A g \in source : SaverWork(sv'[g]) <= SaverWork(sv[g])
    BY <1>1, <1>4, <2>5, <2>6
  <2> QED BY <1>1, <2>1, <2>4, <2>7, FileAdvances
<1>6. ASSUME NEW f \in Files, SaverStep(f) PROVE NoMoreLeft /\ Left' # Left
  <2>1. /\ f \in source /\ UNCHANGED <<phase, result, todo>>
        /\ cl' = cl \/ (cl[f] = "busy" /\ \E c \in {"failing", "cancelled"} :
                                            cl' = [cl EXCEPT ![f] = c])
    BY <1>6, SaverGoesOn
  <2>2. PICK s \in SaverStages : /\ sv' = [sv EXCEPT ![f] = s]
                                 /\ SaverWork(s) < SaverWork(sv[f])
    BY <1>6, SaverGoesOn
  <2>3. \A g \in Files : sv'[g] = IF g = f THEN s ELSE sv[g]
    BY <2>2 DEF IInv, TypeOK
  <2>4. /\ \A g \in source : SaverWork(sv'[g]) <= SaverWork(sv[g])
        /\ SaverWork(sv'[f]) < SaverWork(sv[f])
    BY <1>1, <1>3, <1>4, <2>2, <2>3
  <2>5. GoroutineWork("busy") = 3 /\ \A c \in {"failing", "cancelled"} : GoroutineWork(c) = 1
    BY DEF GoroutineWork
  <2>6. \A g \in source : \/ cl'[g] = cl[g]
                          \/ cl[g] = "busy" /\ cl'[g] \in {"failing", "cancelled"}
    BY <1>1, <2>1 DEF IInv, TypeOK
  <2>7. \A g \in source : GoroutineWork(cl'[g]) <= GoroutineWork(cl[g])
    BY <1>1, <1>4, <2>5, <2>6
  <2> QED BY <1>1, <2>1, <2>4, <2>7, FileAdvances
<1>7. ASSUME UNCHANGED vars \/ Interrupt \/ WorkerCrash \/ ClientKilled
      PROVE  NoMoreLeft
  <2>1. cl' = cl /\ \A f \in Files : sv'[f] = sv[f] \/ sv'[f] = "dead"
    BY <1>7 DEF vars, saving, Interrupt, WorkerCrash, ClientKilled, SaversDie, IInv, TypeOK
  <2>2. SaverWork("dead") = 0
    BY DEF SaverWork
  <2>3. /\ \A f \in source : SaverWork(sv'[f]) <= SaverWork(sv[f])
        /\ \A f \in source : GoroutineWork(cl'[f]) <= GoroutineWork(cl[f])
    BY <1>1, <1>4, <2>1, <2>2
  <2>4. CASE ClientKilled
    <3>1. ToCopy' \subseteq ToCopy /\ ToSave' \subseteq ToSave
      BY <1>1, <2>3, CopiesAdvance, SavesAdvance DEF IInv
    <3>2. phase' = "done" /\ result' # "none"
      BY <2>4 DEF ClientKilled
    <3>3. ToAnswer' = {} /\ ToMake' = {} /\ ToFeed' = {}
      BY <3>2 DEF ToAnswer, ToMake, ToFeed, Running
    <3> QED BY <3>1, <3>3 DEF NoMoreLeft
  <2>5. CASE UNCHANGED vars \/ Interrupt \/ WorkerCrash
    <3>1. UNCHANGED <<phase, result, todo>>
      BY <2>5 DEF vars, control, outcome, Interrupt, WorkerCrash
    <3> QED BY <1>1, <2>3, <3>1, FileAdvances
  <2> QED BY <1>7, <2>4, <2>5
<1>8. ClientStep => NoMoreLeft /\ Left' # Left
  BY <1>1, <1>5, CommandAdvances DEF ClientStep
<1> QED BY <1>5, <1>6, <1>7, <1>8 DEF Next

\* Every step of the client and of a saver leaves less to do, and nothing that
\* happens to them leaves more: no transfer goes on for ever (TransferEnds).
THEOREM EveryStepAdvances ==
  Spec => [][/\ NoMoreLeft
             /\ ClientStep \/ (\E f \in Files : SaverStep(f)) => Left' # Left]_vars
<1>1. IInv /\ IInv' /\ [Next]_vars =>
        [/\ NoMoreLeft
         /\ ClientStep \/ (\E f \in Files : SaverStep(f)) => Left' # Left]_vars
  BY StepAdvances
<1> QED BY <1>1, IInvAlways, PTL DEF Spec

\* What is left is finite, so that its getting less comes to an end.
THEOREM LittleIsLeft == Spec => []LeftIsFinite
<1>1. IInv => LeftIsFinite
  BY LeftFinite DEF IInv
<1> QED BY <1>1, IInvAlways, PTL

-----------------------------------------------------------------------------
(* And why it does not stop before its end: somebody can always go on.       *)

CommandCan ==
  \/ phase = "probe"
  \/ phase = "mkdir" /\ \E d \in todo : NextDir(d)
  \/ phase = "pool" /\ Joined
  \/ phase = "pool" /\ todo # {} /\ Cardinality(Busy) < pool

\* A goroutine waits for its saver only, which is at work or has answered.
GoroutineCan(f) ==
  \/ cl[f] \in {"spawned", "open", "undo", "failing", "cancelled"}
  \/ cl[f] = "busy" /\ sv[f] = "saved"
  \/ cl[f] = "busy" /\ Remote /\ sv[f] \in {"aborted", "dead"}
SaverCan(f) == sv[f] \in Writing

\* Until it has its result some part of a transfer can make a step, in spite of
\* the semaphore, the join and the remote savers that each goroutine waits for.
NeverStuck ==
  Running => CommandCan \/ \E f \in source : GoroutineCan(f) \/ SaverCan(f)

StuckInv ==
  /\ phase = "mkdir" => todo # {}
  /\ Running => \A f \in Files : cl[f] = "busy" =>
       sv[f] \in Writing \cup {"saved"} \/ (Remote /\ sv[f] \in {"aborted", "dead"})

LEMMA StuckInvKept == IInv /\ StuckInv /\ [Next]_vars => StuckInv'
<1> SUFFICES ASSUME IInv, StuckInv, [Next]_vars PROVE StuckInv'
  OBVIOUS
<1> USE DEF command, control, outcome, saving, Running, Remote
<1>1. UNCHANGED command
  BY CommandIsFixed
<1>2. CASE Probe
  <2>1. phase' = "mkdir" => todo' # {}
    BY <1>2 DEF Probe, Begin, ProbeLocal, ProbeDownload, ProbeUpload, ProbeRelay
  <2>2. \A f \in Files : cl'[f] # "busy"
    BY <1>2 DEF Probe, Begin, ProbeLocal, ProbeDownload, ProbeUpload, ProbeRelay, IInv,
                Flow, TypeOK
  <2> QED BY <2>1, <2>2 DEF StuckInv
<1>3. CASE ProbeFails \/ Return \/ ClientKilled \/ \E d \in Dirs \cup {Root} : MakeDirFails(d)
  <2>1. result' # "none" /\ phase' = "done"
    BY <1>3 DEF ProbeFails, MakeDirFails, Return, Refuse, Answer, ClientKilled
  <2> QED BY <2>1 DEF StuckInv
<1>4. CASE RootNotMade \/ StopFeeding \/ \E d \in Dirs \cup {Root} : MakeDir(d)
  <2>1. UNCHANGED <<cl, sv, result>>
    BY <1>4 DEF RootNotMade, StopFeeding, MakeDir
  <2>2. phase' = "mkdir" => todo' # {}
    BY <1>4 DEF RootNotMade, StopFeeding, MakeDir, ToPool
  <2> QED BY <1>1, <2>1, <2>2 DEF StuckInv
<1>5. CASE UNCHANGED vars \/ Interrupt
  BY <1>1, <1>5 DEF vars, Interrupt, StuckInv
<1>6. CASE WorkerCrash
  <2>1. /\ UNCHANGED <<phase, todo, cl, result>> /\ Remote
        /\ \A f \in Files : sv'[f] = sv[f] \/ sv'[f] = "dead"
    BY <1>6 DEF WorkerCrash, SaversDie
  <2> QED BY <1>1, <2>1 DEF StuckInv
<1>7. ASSUME NEW f \in Files, Open(f) PROVE StuckInv'
  <2>1. /\ UNCHANGED <<phase, todo, result>> /\ cl' = [cl EXCEPT ![f] = "busy"]
        /\ sv' = [sv EXCEPT ![f] = "writing"]
    BY <1>7 DEF Open, CopyFile, DownloadToLocalFile, UploadFile, RelayCopy, Create
  <2> QED BY <1>1, <2>1 DEF StuckInv, IInv, TypeOK, Writing
<1>8. ASSUME NEW f \in Files,
             \/ Feed(f) \/ Start(f) \/ OpenFails(f) \/ SavedHere(f) \/ Reply(f)
             \/ RequestFails(f) \/ Undo(f) \/ Leave(f) \/ ConnectionBreaks(f)
      PROVE  StuckInv'
  <2>1. /\ UNCHANGED <<phase, result, sv>>
        /\ \A g \in Files : cl'[g] = "busy" => cl[g] = "busy"
    BY <1>8 DEF Feed, Start, OpenFails, Fails, SavedHere, Reply, JudgeUpload, JudgeRelay,
                Counted, RequestFails, Undo, Leave, ConnectionBreaks, IInv, TypeOK
  <2>2. phase' = "mkdir" => todo' # {}
    BY <1>8 DEF Feed, Start, OpenFails, SavedHere, Reply, RequestFails, Undo, Leave,
                ConnectionBreaks, StuckInv
  <2> QED BY <1>1, <2>1, <2>2 DEF StuckInv
<1>9. ASSUME NEW f \in Files, SaverStep(f) PROVE StuckInv'
  <2>1. UNCHANGED <<phase, result, todo>>
    BY <1>9, SaverGoesOn
  <2>2. PICK s \in SaverStages :
          /\ sv' = [sv EXCEPT ![f] = s] /\ s \in {"sealed", "cleared", "saved", "aborted"}
          /\ s = "aborted" => Remote \/ Fails(f)
    BY <1>9 DEF SaverStep, ReadAll, ReadDamaged, CopyBreaks, CommitFails, Abort, Commit,
                CommitBlocked, Becomes, SaverStages
  <2>3. cl' = cl \/ Fails(f)
    BY <1>9 DEF SaverStep, ReadAll, ReadDamaged, CopyBreaks, CommitFails, Abort, Commit,
                CommitBlocked
  <2>4. /\ \A g \in Files : sv'[g] = IF g = f THEN s ELSE sv[g]
        /\ \A g \in Files : cl'[g] = "busy" => cl[g] = "busy"
        /\ Fails(f) => cl'[f] # "busy"
    BY <2>2, <2>3 DEF Fails, IInv, TypeOK
  <2> QED BY <1>1, <2>1, <2>2, <2>4 DEF StuckInv, Writing
<1> QED BY <1>2, <1>3, <1>4, <1>5, <1>6, <1>7, <1>8, <1>9 DEF Next, ClientStep

\* No semaphore, join or answer that never comes holds a transfer up: whatever
\* the files, the pool and the failures, some part of it can go on until it has
\* its result (TransferEnds).
THEOREM TransferIsNeverStuck == Spec => []NeverStuck
<1>1. Init => StuckInv
  BY DEF Init, StuckInv
<1>2. IInv /\ StuckInv => NeverStuck
  <2> SUFFICES ASSUME IInv, StuckInv, Running, phase # "probe",
                      \A f \in source : ~GoroutineCan(f) /\ ~SaverCan(f)
               PROVE  CommandCan
    BY DEF NeverStuck, CommandCan
  <2>1. phase \in {"mkdir", "pool"}
    BY DEF IInv, TypeOK, Flow, Running
  <2>2. CASE phase = "mkdir"
    BY <2>2 DEF StuckInv, CommandCan, NextDir
  <2>3. CASE phase = "pool"
    <3>1. \A f \in source : cl[f] \in {"idle"} \cup Ended
      <4> SUFFICES ASSUME NEW f \in source PROVE cl[f] \in {"idle"} \cup Ended
        OBVIOUS
      <4>1. cl[f] \in ClientStages /\ f \in Files
        BY DEF IInv, TypeOK
      <4>2. cl[f] # "busy"
        BY <4>1 DEF StuckInv, GoroutineCan, SaverCan
      <4> QED BY <4>1, <4>2 DEF GoroutineCan, ClientStages, Ended
    <3>2. Busy = {}
      BY <3>1 DEF Busy
    <3>3. Cardinality(Busy) < pool
      BY <3>2, PoolsAssumption, FS_EmptySet DEF IInv, TypeOK
    <3> QED BY <2>3, <3>1, <3>3 DEF CommandCan, Joined
  <2> QED BY <2>1, <2>2, <2>3
<1> QED BY <1>1, <1>2, IInvAlways, StuckInvKept, PTL DEF Spec

=============================================================================
