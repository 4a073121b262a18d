------------------------------ MODULE Transfer ------------------------------
(***************************************************************************)
(* cw cp: one file or a directory tree, copied locally, down from a node,  *)
(* up to a node, or from node to node through the client (pkg/client       *)
(* Transfer and the functions it calls, pkg/fsengine CopyDir and           *)
(* SaveStream, and the upload and download handlers of pkg/worker).        *)
(*                                                                         *)
(* A file is saved by the client (local, download) or by the target's      *)
(* worker (upload, relay), always by SaveStream.  What a file holds is     *)
(* "absent", "old" (there before), "new" (the source's content) or "bad"   *)
(* (a part of it, or damaged on the way).                                  *)
(*                                                                         *)
(* A definition whose comment starts with "Seeded fault" is not part of    *)
(* the model: it is the wrong version of the definition after it that the  *)
(* property it names must detect.                                          *)
(***************************************************************************)
EXTENDS Integers, FiniteSets

CONSTANTS
  Files,   \* files a source may have
  Dirs,    \* subdirectories a source tree may have
  Modes,   \* the commands given, a subset of AllModes
  Pools,   \* the values of --concurrency
  Before,  \* what a target may hold before, a subset of {"absent", "old"}
  Existing \* may the given target be an existing directory? a subset of BOOLEAN

AllModes == {"local", "download", "upload", "relay"}

ASSUME FilesAssumption == IsFiniteSet(Files)
ASSUME DirsAssumption == "root" \notin Dirs /\ IsFiniteSet(Dirs)
ASSUME ModesAssumption == Modes \subseteq AllModes
ASSUME PoolsAssumption == Pools \subseteq Nat \ {0}
ASSUME BeforeAssumption == Before \subseteq {"absent", "old"}
ASSUME ExistingAssumption == Existing \subseteq BOOLEAN

VARIABLES
  mode, tree,        \* the quadrant; is the source a directory (with -r)?
  source, dirs,      \* its files and its subdirectories
  into,              \* is the given target an existing directory?
  pool,              \* --concurrency
  phase,             \* "probe", "mkdir", "pool", "done"
  nested,            \* was the target moved into that directory?
  made,              \* directories known to exist at the target
  todo,              \* files the loop has not reached yet
  ctxDone,           \* is the context of the transfer cancelled?
  interrupted,       \* did the user interrupt the command?
  firstErr,          \* firstErr: "none", "own" (of a file) or "cancel"
  result,            \* what the command returned
  cl,                \* per file: progress of its goroutine in the client
  sv,                \* per file: progress of SaveStream
  tmp,               \* per file: its .cwsave temporary file
  dst,               \* per file: the target
  totalFiles, totalBytes,           \* ProgressTracker: what there is to do,
  completedFiles, activeFiles       \* what is done, what is under way

command == <<mode, tree, source, dirs, into, pool>>
control == <<phase, nested, made, todo>>
outcome == <<ctxDone, interrupted, firstErr, result>>
saving == <<sv, tmp, dst>>
totals == <<totalFiles, totalBytes>>
tracker == <<totals, completedFiles, activeFiles>>
vars == <<command, control, outcome, cl, saving, tracker>>

Root == "root"
Contents == {"absent", "old", "bad", "new"}
Results == {"none", "ok", "failed", "interrupted", "killed"}
ClientStages == {"idle", "spawned", "open", "busy", "undo", "failing",
                 "cancelled", "ok", "failed", "skipped"}
SaverStages == {"none", "writing", "sealed", "cleared", "saved",
                "aborted", "dead"}
Ended == {"ok", "failed", "skipped"}

\* Who saves, and which worker sends.
Remote == mode \in {"upload", "relay"}
Running == result = "none"
\* The goroutines of the pool that hold a place of its semaphore.
Busy == {f \in source : cl[f] \notin {"idle"} \cup Ended}

\* How the four directory functions differ: is a failed MakeDir of the root an
\* error, and is the context tested before each directory is made?
CopyDir == [rootChecked |-> TRUE, tests |-> FALSE]
UploadDir == [rootChecked |-> FALSE, tests |-> TRUE]
DownloadDir == [rootChecked |-> FALSE, tests |-> FALSE]
RelayCopyDir == [rootChecked |-> FALSE, tests |-> TRUE]
DirFunction ==
  CASE mode = "local" -> CopyDir
    [] mode = "upload" -> UploadDir
    [] mode = "download" -> DownloadDir
    [] mode = "relay" -> RelayCopyDir

----------------------------------------------------------------------------
(* The progress tracker *)

NewProgressTracker ==
  totalFiles = 1 /\ totalBytes = 0 /\ completedFiles = 0 /\ activeFiles = {}

SetTotals(n, bytes) == totalFiles' = n /\ totalBytes' = bytes

\* Seeded fault (TrackerAtRest): the size of one file replaces the total.
SetTotalBytesOfOne(bytes) == totalBytes' = bytes /\ UNCHANGED totalFiles

\* X-File-Size of one file never replaces the total of a tree.
SetTotalBytes(bytes) ==
  /\ totalBytes' = IF totalFiles > 1 \/ totalBytes > 0 THEN totalBytes ELSE bytes
  /\ UNCHANGED totalFiles

StartFile(f) == activeFiles' = activeFiles \cup {f}
EndFile(f) == activeFiles' = activeFiles \ {f}
AddFile == completedFiles' = completedFiles + 1

----------------------------------------------------------------------------
(* Transfer: look at both ends, choose the function *)

Init ==
  /\ mode \in Modes
  /\ tree \in BOOLEAN
  /\ source \in SUBSET Files
  /\ dirs \in SUBSET Dirs
  /\ ~tree => dirs = {} /\ Cardinality(source) = 1
  /\ into \in Existing
  /\ pool \in Pools
  /\ phase = "probe" /\ nested = FALSE /\ todo = {}
  /\ made = {}
  /\ ctxDone = FALSE /\ interrupted = FALSE
  /\ firstErr = "none" /\ result = "none"
  /\ cl = [f \in Files |-> "idle"]
  /\ sv = [f \in Files |-> "none"]
  /\ tmp = [f \in Files |-> "none"]
  /\ dst \in [Files -> Before]
  /\ NewProgressTracker

\* cw cp turns any error after a signal into "interrupted".
Answer(r) ==
  /\ phase' = "done"
  /\ result' = IF r # "ok" /\ interrupted THEN "interrupted" ELSE r

Refuse ==
  /\ Answer("failed")
  /\ UNCHANGED <<command, nested, made, todo, ctxDone, interrupted, firstErr,
                 cl, saving, tracker>>

\* The source cannot be read, or is a directory without -r.
ProbeFails == Running /\ phase = "probe" /\ Refuse

\* A tree is scanned for its totals; a single file starts at once.
Begin(bytes) ==
  IF tree
  THEN /\ phase' = "mkdir" /\ todo' = dirs \cup {Root}
       /\ SetTotals(Cardinality(source), Cardinality(source))
       /\ UNCHANGED <<cl, activeFiles>>
  ELSE /\ phase' = "pool" /\ todo' = {}
       /\ SetTotals(1, bytes) /\ activeFiles' = source
       /\ cl' = [f \in Files |-> IF f \in source THEN "open" ELSE cl[f]]

\* Both ends local, or only the target: it is tested with os.Stat.
ProbeLocal == mode = "local" /\ nested' = into /\ Begin(1)
ProbeDownload == mode = "download" /\ nested' = into /\ Begin(0)

\* The target is a worker's: it counts as a directory only if ListDir answers.
ProbeUpload == mode = "upload" /\ nested' \in {FALSE, into} /\ Begin(1)
ProbeRelay == mode = "relay" /\ nested' \in {FALSE, into} /\ Begin(0)

Probe ==
  /\ Running /\ phase = "probe"
  /\ tree => ~ctxDone
  /\ ProbeLocal \/ ProbeDownload \/ ProbeUpload \/ ProbeRelay
  /\ UNCHANGED <<command, made, outcome, saving, completedFiles>>

----------------------------------------------------------------------------
(* The directory skeleton: the root first, then what it holds *)

NextDir(d) == d \in todo /\ (Root \in todo => d = Root)

ToPool(rest) ==
  IF rest = {} THEN phase' = "pool" /\ todo' = source
               ELSE phase' = phase /\ todo' = rest

MakeDir(d) ==
  /\ Running /\ phase = "mkdir" /\ NextDir(d)
  /\ ~(DirFunction.tests /\ ctxDone)
  /\ made' = made \cup {d, Root}
  /\ ToPool(todo \ {d})
  /\ UNCHANGED <<command, nested, outcome, cl, saving, tracker>>

\* The root's failure is ignored by all but CopyDir.
RootNotMade ==
  /\ Running /\ phase = "mkdir" /\ NextDir(Root)
  /\ ~DirFunction.rootChecked
  /\ ~(DirFunction.tests /\ ctxDone)
  /\ ToPool(todo \ {Root})
  /\ UNCHANGED <<command, nested, made, outcome, cl, saving, tracker>>

MakeDirFails(d) ==
  /\ Running /\ phase = "mkdir" /\ NextDir(d)
  /\ d = Root => DirFunction.rootChecked \/ (DirFunction.tests /\ ctxDone)
  /\ Refuse

----------------------------------------------------------------------------
(* The pool: the loop, and one goroutine per file *)

Feed(f) ==
  /\ Running /\ phase = "pool" /\ f \in todo
  /\ Cardinality(Busy) < pool
  /\ todo' = todo \ {f}
  /\ cl' = [cl EXCEPT ![f] = "spawned"]
  /\ UNCHANGED <<command, phase, nested, made, outcome, saving, tracker>>

StopFeeding ==
  /\ Running /\ phase = "pool" /\ todo # {} /\ ctxDone
  /\ todo' = {}
  /\ UNCHANGED <<command, phase, nested, made, outcome, cl, saving, tracker>>

Start(f) ==
  /\ Running /\ cl[f] = "spawned"
  /\ IF ctxDone
     THEN cl' = [cl EXCEPT ![f] = "skipped"] /\ UNCHANGED activeFiles
     ELSE cl' = [cl EXCEPT ![f] = "open"] /\ StartFile(f)
  /\ UNCHANGED <<command, control, outcome, saving, totals, completedFiles>>

\* Seeded fault (RootCause): a failing goroutine cancels the others before it
\* has locked errMu and set firstErr.
FailsCancelling(f) ==
  /\ cl' = [cl EXCEPT ![f] = IF ctxDone THEN "cancelled" ELSE "failing"]
  /\ ctxDone' = (ctxDone \/ tree)

\* A step of a goroutine fails: by itself, or because the context is done.
Fails(f) ==
  /\ \E s \in {"failing"} \cup (IF ctxDone THEN {"cancelled"} ELSE {}) :
       cl' = [cl EXCEPT ![f] = s]
  /\ UNCHANGED ctxDone

----------------------------------------------------------------------------
(* The beginning of a copy: both ends are opened *)

\* SaveStream up to its temporary file, in the client or in the worker.
Create(f) ==
  /\ ~tree => nested = into
  /\ sv' = [sv EXCEPT ![f] = "writing"]
  /\ tmp' = [tmp EXCEPT ![f] = "bad"]
  /\ made' = made \cup {Root}
  /\ UNCHANGED dst

CopyFile(f) == mode = "local" /\ Create(f) /\ UNCHANGED totals

DownloadToLocalFile(f) ==
  /\ mode = "download"
  /\ Create(f)
  /\ SetTotalBytes(1)

UploadFile(f) == mode = "upload" /\ Create(f) /\ UNCHANGED totals

RelayCopy(f) ==
  /\ mode = "relay"
  /\ Create(f)
  /\ SetTotalBytes(1)

Open(f) ==
  /\ Running /\ cl[f] = "open" /\ ~ctxDone
  /\ CopyFile(f) \/ DownloadToLocalFile(f) \/ UploadFile(f) \/ RelayCopy(f)
  /\ cl' = [cl EXCEPT ![f] = "busy"]
  /\ UNCHANGED <<command, phase, nested, todo, outcome, completedFiles, activeFiles>>

\* No source file, no connection, no answer, a target that is a directory.
OpenFails(f) ==
  /\ Running /\ cl[f] = "open"
  /\ Fails(f)
  /\ UNCHANGED <<command, control, interrupted, firstErr, result, saving, tracker>>

----------------------------------------------------------------------------
(* SaveStream: temporary file, validation, rename *)

Saver(f) == sv[f] \notin {"none", "saved", "aborted", "dead"}

Becomes(f, stage, temp) ==
  /\ sv' = [sv EXCEPT ![f] = stage]
  /\ tmp' = [tmp EXCEPT ![f] = temp]

\* A contextReader of the client fails as soon as the context is done.
Reads(f) == sv[f] = "writing" /\ (Remote \/ ~ctxDone)

ReadAll(f) ==
  /\ Reads(f)
  /\ Becomes(f, "sealed", "new")
  /\ UNCHANGED <<command, control, outcome, cl, dst, tracker>>

\* The body ends early but cleanly (handleFsDownload returns when reading its
\* file fails), or it was damaged on the way.
ReadDamaged(f) ==
  /\ Reads(f) /\ mode # "local"
  /\ Becomes(f, "sealed", "bad")
  /\ UNCHANGED <<command, control, outcome, cl, dst, tracker>>

\* Seeded fault (TempsAreRemoved): the temporary file is left when it fails.
AbortKeepingTemp(f) ==
  /\ Becomes(f, "aborted", tmp[f])
  /\ IF Remote THEN UNCHANGED <<cl, ctxDone>> ELSE Fails(f)
  /\ UNCHANGED <<command, control, interrupted, firstErr, result, dst, tracker>>

\* SaveStream gives up: its deferred function removes the temporary file.
Abort(f) ==
  /\ Becomes(f, "aborted", "none")
  /\ IF Remote THEN UNCHANGED <<cl, ctxDone>> ELSE Fails(f)
  /\ UNCHANGED <<command, control, interrupted, firstErr, result, dst, tracker>>

\* The stream breaks, the disk is full, the context is done.
CopyBreaks(f) == sv[f] \in {"writing", "sealed"} /\ Abort(f)

\* Seeded fault (NoDamagedTarget): the download's trailer is not required.
HashMatchesIfSent(f) == TRUE

\* The client compares a download with the trailer, which a download that was
\* cut has not; uploads are sent without an expected hash.
HashMatches(f) == mode = "download" => tmp[f] = "new"

Valid(f) == sv[f] = "sealed" /\ (Remote \/ ~ctxDone) /\ HashMatches(f)

Commit(f) ==
  /\ Valid(f) \/ sv[f] = "cleared"
  /\ Becomes(f, "saved", "none")
  /\ dst' = [dst EXCEPT ![f] = tmp[f]]
  /\ UNCHANGED <<command, control, outcome, cl, tracker>>

\* Rename fails: the target is removed, if possible, before the second try.
CommitBlocked(f) ==
  /\ Valid(f)
  /\ Becomes(f, "cleared", tmp[f])
  /\ \E c \in {dst[f], "absent"} : dst' = [dst EXCEPT ![f] = c]
  /\ UNCHANGED <<command, control, outcome, cl, tracker>>

CommitFails(f) == sv[f] = "cleared" /\ Abort(f)

SaverStep(f) ==
  \/ ReadAll(f) \/ ReadDamaged(f) \/ CopyBreaks(f)
  \/ Commit(f) \/ CommitBlocked(f) \/ CommitFails(f)

----------------------------------------------------------------------------
(* The end of a copy *)

\* The goroutine counts its file and gives back its place.
Counted(f) ==
  /\ cl' = [cl EXCEPT ![f] = "ok"]
  /\ AddFile /\ EndFile(f)

SavedHere(f) ==
  /\ Running /\ cl[f] = "busy" /\ ~Remote /\ sv[f] = "saved"
  /\ Counted(f)
  /\ UNCHANGED <<command, control, outcome, saving, totals>>

\* The request ends without that answer, while the worker may go on.
RequestFails(f) ==
  /\ Running /\ cl[f] = "busy" /\ Remote
  /\ ctxDone \/ sv[f] \in {"aborted", "dead"}
  /\ Fails(f)
  /\ UNCHANGED <<command, control, interrupted, firstErr, result, saving, tracker>>

\* Seeded fault (CopyIsKept): a missing source hash is accepted.
JudgeRelayLeniently(f) == mode = "relay" /\ Counted(f)

\* The client's hash against the worker's; against the source's as well.
JudgeUpload(f) ==
  /\ mode = "upload"
  /\ IF dst[f] = "new" THEN Counted(f)
     ELSE cl' = [cl EXCEPT ![f] = "undo"] /\ UNCHANGED <<completedFiles, activeFiles>>
JudgeRelay(f) ==
  /\ mode = "relay"
  /\ IF dst[f] = "new" THEN Counted(f)
     ELSE cl' = [cl EXCEPT ![f] = "undo"] /\ UNCHANGED <<completedFiles, activeFiles>>

\* handleFsUpload has answered with its hash.
Reply(f) ==
  /\ Running /\ cl[f] = "busy" /\ sv[f] = "saved"
  /\ JudgeUpload(f) \/ JudgeRelay(f)
  /\ UNCHANGED <<command, control, outcome, saving, totals>>

\* Delete of the target; whether it worked is ignored.
Undo(f) ==
  /\ Running /\ cl[f] = "undo"
  /\ \E c \in {dst[f], "absent"} : dst' = [dst EXCEPT ![f] = c]
  /\ cl' = [cl EXCEPT ![f] = "failing"]
  /\ UNCHANGED <<command, control, outcome, sv, tmp, tracker>>

\* Under errMu: the first error of a tree is kept and cancels the others.
Leave(f) ==
  /\ Running /\ cl[f] \in {"failing", "cancelled"}
  /\ firstErr' = IF firstErr # "none" THEN firstErr
                 ELSE IF cl[f] = "failing" THEN "own" ELSE "cancel"
  /\ ctxDone' = (ctxDone \/ (tree /\ firstErr = "none"))
  /\ cl' = [cl EXCEPT ![f] = "failed"]
  /\ EndFile(f)
  /\ UNCHANGED <<command, control, interrupted, result, saving, totals,
                 completedFiles>>

\* Seeded fault (ReturnIsQuiet): the command returns on the first error.
JoinedOrFailed ==
  firstErr # "none" \/ (todo = {} /\ \A f \in source : cl[f] \in {"idle"} \cup Ended)

\* Seeded fault (TransferEnds): a goroutine that finds its context done leaves
\* without wg.Done.
JoinedUnlessSkipped ==
  todo = {} /\ \A f \in source : cl[f] \in {"idle", "ok", "failed"}

\* wg.Wait of the pool, the end of the call for a single file.
Joined == todo = {} /\ \A f \in source : cl[f] \in {"idle"} \cup Ended

Return ==
  /\ Running /\ phase = "pool" /\ Joined
  /\ Answer(IF firstErr # "none" \/ (tree /\ ctxDone) THEN "failed" ELSE "ok")
  /\ UNCHANGED <<command, nested, made, todo, ctxDone, interrupted, firstErr,
                 cl, saving, tracker>>

----------------------------------------------------------------------------
(* The surroundings *)

\* Ctrl-C: the signal cancels the command's context.
Interrupt ==
  /\ Running /\ ~interrupted
  /\ ctxDone' = TRUE /\ interrupted' = TRUE
  /\ UNCHANGED <<command, control, firstErr, result, cl, saving, tracker>>

ConnectionBreaks(f) ==
  /\ Running /\ cl[f] = "busy" /\ Remote
  /\ Fails(f)
  /\ UNCHANGED <<command, control, interrupted, firstErr, result, saving, tracker>>

\* A worker that is down is one that answers no request: each of them may
\* fail.  A crash ends the saves under way; their temporary files stay.
SaversDie ==
  sv' = [f \in Files |->
           IF Saver(f) \/ (sv[f] = "saved" /\ cl[f] = "busy") THEN "dead" ELSE sv[f]]

WorkerCrash ==
  /\ Remote
  /\ SaversDie
  /\ UNCHANGED <<command, control, outcome, cl, tmp, dst, tracker>>

ClientKilled ==
  /\ Running
  /\ result' = "killed" /\ phase' = "done"
  /\ IF Remote THEN UNCHANGED sv ELSE SaversDie
  /\ UNCHANGED <<command, nested, made, todo, ctxDone, interrupted, firstErr,
                 cl, tmp, dst, tracker>>

ClientStep ==
  \/ Probe \/ ProbeFails \/ RootNotMade \/ StopFeeding \/ Return
  \/ \E d \in Dirs \cup {Root} : MakeDir(d) \/ MakeDirFails(d)
  \/ \E f \in Files :
       \/ Feed(f) \/ Start(f) \/ Open(f) \/ OpenFails(f) \/ SavedHere(f)
       \/ Reply(f) \/ RequestFails(f) \/ Undo(f) \/ Leave(f)

Next ==
  \/ ClientStep
  \/ \E f \in Files : SaverStep(f)
  \/ Interrupt \/ ClientKilled \/ WorkerCrash \/ \E f \in Files : ConnectionBreaks(f)

Spec == Init /\ [][Next]_vars

\* The goroutines of the client and of the workers run on.
FairSpec ==
  /\ Spec
  /\ WF_vars(ClientStep)
  /\ \A f \in Files : WF_vars(SaverStep(f))

----------------------------------------------------------------------------
(* Properties *)

TypeOK ==
  /\ mode \in Modes /\ tree \in BOOLEAN /\ source \subseteq Files
  /\ dirs \subseteq Dirs /\ into \in BOOLEAN /\ pool \in Pools
  /\ phase \in {"probe", "mkdir", "pool", "done"} /\ nested \in BOOLEAN
  /\ made \subseteq Dirs \cup {Root}
  /\ todo \subseteq Files \cup Dirs \cup {Root}
  /\ ctxDone \in BOOLEAN /\ interrupted \in BOOLEAN
  /\ firstErr \in {"none", "own", "cancel"} /\ result \in Results
  /\ cl \in [Files -> ClientStages]
  /\ sv \in [Files -> SaverStages]
  /\ tmp \in [Files -> {"none", "bad", "new"}]
  /\ dst \in [Files -> Contents]
  /\ totalFiles \in Nat /\ totalBytes \in Nat /\ completedFiles \in Nat
  /\ activeFiles \subseteq Files

\* A damaged copy never takes the place of a file when the client saves it
\* itself: SaveStream validates before it renames.
NoDamagedTarget == ~Remote => \A f \in Files : dst[f] # "bad"

\* The directories of a copy, and those that are not known to exist yet.
Wanted == dirs \cup IF tree THEN {Root} ELSE {}
Missing == Wanted \ made
\* Nothing is put into such a tree, and nobody checks that its root was made.
Bare == tree /\ mode # "local" /\ source = {} /\ dirs = {}

\* What Transfer promises is CopyContract: whatever workers, connections and
\* the user do, "ok" means that the root and every subdirectory of a tree were
\* made and every file is at its target, for good.  Only a bare tree that comes
\* from or goes to a node may be "ok" without its root.
Contract == INSTANCE CopyContract
              WITH Dirs <- Dirs \cup {Root}, target <- dst, answer <- result,
                   missing <- Missing, bare <- Bare
CopyIsKept == Contract!Spec

\* The error that is reported is the one that stopped the transfer, never one
\* that only follows from its cancelling the others (errMu, firstErr).
RootCause == firstErr = "cancel" => interrupted

\* When the command has returned no file is shown as active, and after a
\* success the totals are those of the source, all of it done.
TrackerAtRest ==
  result \notin {"none", "killed"} =>
    /\ activeFiles = {}
    /\ result = "ok" => /\ totalFiles = Cardinality(source)
                        /\ totalBytes = Cardinality(source)
                        /\ completedFiles = Cardinality(source)

\* A local copy or a download writes nothing after the command has returned:
\* Transfer waits for every goroutine it has started.
ReturnIsQuiet == [][result # "none" /\ ~Remote => UNCHANGED <<dst, tmp>>]_vars

\* The command returns, whichever files fail and whoever is interrupted.
TransferEnds == <>(result # "none")

\* Temporary files are removed unless the process that saves has died.
TempsAreRemoved ==
  \A f \in Files : tmp[f] # "none" ~> tmp[f] = "none" \/ sv[f] = "dead"

\* "If the destination exists and is a directory, put it inside."
LandsInside == result = "ok" => nested = into
=============================================================================
