------------------------------- MODULE FsDiff -------------------------------
(***************************************************************************)
(* cw diff: the files of both sides are hashed at the same time, each by a *)
(* goroutine of the client that follows HashStream (pkg/fsengine), locally *)
(* or through the worker's handleFsHash, and both account in one progress  *)
(* tracker; then the two lists are compared.                               *)
(*                                                                         *)
(* An event and what the client makes of it are one step: HashStream emits *)
(* its events from one goroutine, so they arrive in order or not at all.   *)
(* Sizes are counted in blocks of the hash loop.                           *)
(***************************************************************************)
EXTENDS Integers, FiniteSets

CONSTANTS
  Paths,    \* relative paths of files
  Blobs,    \* what a file can be: [size, hash]
  Large,    \* the size from which HashStream reports progress in a file
  MaxFiles  \* bound: files on both sides together

ASSUME PathsAssumption == IsFiniteSet(Paths)
ASSUME BlobsAssumption == Blobs \subseteq [size : Nat, hash : STRING \ {"grown"}]
ASSUME LargeAssumption == Large \in Nat /\ MaxFiles \in Nat

Sides == {"src", "dst"}
NoPath == "none"

VARIABLES
  far,          \* per side: is it on a node?
  files,        \* per side: its files when it is scanned
  grown,        \* per side: files that have become longer since
  stage,        \* per side: "init", "hash", "ok", "own" or "cancel" (errors)
  path, done,   \* per side: the file being hashed, the blocks read of it
  list,         \* per side: the entries received
  currentFile, currentFileDoneBytes,   \* per side: the client's place in it
  totalFiles, totalBytes, completedFiles, bytes, active,   \* the tracker
  ctxDone, interrupted,
  exit          \* exit code of cw diff: -1 none yet, 0, 1, 2 or 130

diffCommand == <<far, files, grown>>
position == <<currentFile, currentFileDoneBytes>>
tracker == <<totalFiles, totalBytes, completedFiles, bytes, active>>
diffVars == <<diffCommand, stage, path, done, list, position, tracker, ctxDone,
              interrupted, exit>>

PathsOf(s) == DOMAIN files[s]
Blocks(s, ps) == UNION {{p} \X (1..files[s][p].size) : p \in ps}
SizeSum(s) == Cardinality(Blocks(s, PathsOf(s)))
Length(s, p) == files[s][p].size + (IF p \in grown[s] THEN 1 ELSE 0)
Positive(n) == IF n > 0 THEN n ELSE 0

DiffInit ==
  /\ far \in [Sides -> BOOLEAN]
  /\ files \in [Sides -> UNION {[ps -> Blobs] : ps \in SUBSET Paths}]
  /\ Cardinality(PathsOf("src")) + Cardinality(PathsOf("dst")) <= MaxFiles
  /\ grown \in [Sides -> SUBSET Paths]
  /\ grown["dst"] = {} /\ grown["src"] \subseteq PathsOf("src")
  /\ stage = [s \in Sides |-> "init"]
  /\ path = [s \in Sides |-> NoPath] /\ done = [s \in Sides |-> 0]
  /\ list = [s \in Sides |-> {}]
  /\ currentFile = [s \in Sides |-> NoPath]
  /\ currentFileDoneBytes = [s \in Sides |-> 0]
  /\ totalFiles = 0 /\ totalBytes = 0 /\ completedFiles = 0 /\ bytes = 0
  /\ active = {}
  /\ ctxDone = FALSE /\ interrupted = FALSE /\ exit = -1

----------------------------------------------------------------------------
(* HashStream and what the client makes of its events *)

InitEvent(s) ==
  /\ stage[s] = "init"
  /\ stage' = [stage EXCEPT ![s] = "hash"]
  /\ totalFiles' = totalFiles + Cardinality(PathsOf(s))
  /\ totalBytes' = totalBytes + SizeSum(s)
  /\ UNCHANGED <<diffCommand, path, done, list, position, completedFiles, bytes,
                 active, ctxDone, interrupted, exit>>

OpenFile(s, p) ==
  /\ stage[s] = "hash" /\ path[s] = NoPath
  /\ p \in PathsOf(s) \ list[s]
  /\ path' = [path EXCEPT ![s] = p]
  /\ done' = [done EXCEPT ![s] = 0]
  /\ UNCHANGED <<diffCommand, stage, list, position, tracker, ctxDone,
                 interrupted, exit>>

\* Seeded fault (HashedBytesAddUp): an event's bytes count as new ones.
SeenNothing(s) == 0

\* What earlier events have counted of the file.
Seen(s) == IF currentFile[s] = path[s] THEN currentFileDoneBytes[s] ELSE 0

\* The client adds what is new since the file's last event.
ProgressEvent(s, n) ==
  /\ active' = active \cup {path[s]}
  /\ bytes' = bytes + Positive(n - Seen(s))
  /\ currentFile' = [currentFile EXCEPT ![s] = path[s]]
  /\ currentFileDoneBytes' =
       [currentFileDoneBytes EXCEPT ![s] = IF n > Seen(s) THEN n ELSE Seen(s)]

\* hashFileWithProgress reads a block.  A large file reports it when 100 ms
\* have passed or its scanned size is reached, a small one never.
ReadBlock(s) ==
  /\ stage[s] = "hash" /\ path[s] # NoPath /\ done[s] < Length(s, path[s])
  /\ done' = [done EXCEPT ![s] = @ + 1]
  /\ LET size == files[s][path[s]].size
     IN \/ size >= Large /\ ProgressEvent(s, done[s] + 1)
        \/ (size < Large \/ done[s] + 1 # size) /\ UNCHANGED <<position, bytes, active>>
  /\ UNCHANGED <<diffCommand, stage, path, list, totalFiles, totalBytes,
                 completedFiles, ctxDone, interrupted, exit>>

\* The entry: what progress has not counted of the file is added.
EntryEvent(s) ==
  /\ stage[s] = "hash" /\ path[s] # NoPath /\ done[s] = Length(s, path[s])
  /\ list' = [list EXCEPT ![s] = @ \cup {path[s]}]
  /\ active' = active \ {path[s]}
  /\ bytes' = bytes + Positive(files[s][path[s]].size - Seen(s))
  /\ currentFile' = [currentFile EXCEPT ![s] = NoPath]
  /\ currentFileDoneBytes' = [currentFileDoneBytes EXCEPT ![s] = 0]
  /\ completedFiles' = completedFiles + 1
  /\ path' = [path EXCEPT ![s] = NoPath]
  /\ UNCHANGED <<diffCommand, stage, done, totalFiles, totalBytes, ctxDone,
                 interrupted, exit>>

\* Seeded fault (DiffTellsTruth): a stream that is cut ends the list.
StreamCutTaken(s) ==
  /\ stage[s] = "hash"
  /\ stage' = [stage EXCEPT ![s] = "ok"]
  /\ UNCHANGED <<diffCommand, path, done, list, position, tracker, ctxDone,
                 interrupted, exit>>

StreamEnd(s) ==
  /\ stage[s] = "hash" /\ path[s] = NoPath /\ list[s] = PathsOf(s)
  /\ stage' = [stage EXCEPT ![s] = "ok"]
  /\ UNCHANGED <<diffCommand, path, done, list, position, tracker, ctxDone,
                 interrupted, exit>>

\* The path cannot be read, an error event comes, or the stream is cut.
StreamFails(s) ==
  /\ stage[s] \in {"init", "hash"}
  /\ stage' = [stage EXCEPT ![s] = "own"]
  /\ ctxDone' = TRUE
  /\ UNCHANGED <<diffCommand, path, done, list, position, tracker, interrupted,
                 exit>>

\* Only a remote side notices the context: HashLocalPath does not have it.
StreamCancelled(s) ==
  /\ stage[s] \in {"init", "hash"} /\ far[s] /\ ctxDone
  /\ stage' = [stage EXCEPT ![s] = "cancel"]
  /\ UNCHANGED <<diffCommand, path, done, list, position, tracker, ctxDone,
                 interrupted, exit>>

HashStep(s) ==
  \/ InitEvent(s) \/ ReadBlock(s) \/ EntryEvent(s) \/ StreamEnd(s)
  \/ StreamFails(s) \/ StreamCancelled(s)
  \/ \E p \in Paths : OpenFile(s, p)

----------------------------------------------------------------------------
(* The comparison *)

\* What an entry says of a file: its size when scanned, its hash when read.
Entry(s, p) ==
  [size |-> files[s][p].size,
   hash |-> IF p \in grown[s] THEN "grown" ELSE files[s][p].hash]

Both == list["src"] \cap list["dst"]
Matched == {p \in Both : Entry("src", p) = Entry("dst", p)}
Modified == Both \ Matched
Added == list["src"] \ list["dst"]
Deleted == list["dst"] \ list["src"]
CompareFileInfos == IF Modified \cup Added \cup Deleted = {} THEN 0 ELSE 1

Compare ==
  /\ exit = -1 /\ \A s \in Sides : stage[s] \notin {"init", "hash"}
  /\ exit' = IF interrupted THEN 130
             ELSE IF \E s \in Sides : stage[s] # "ok" THEN 2
             ELSE CompareFileInfos
  /\ UNCHANGED <<diffCommand, stage, path, done, list, position, tracker, ctxDone,
                 interrupted>>

DiffInterrupt ==
  /\ exit = -1 /\ ~interrupted
  /\ ctxDone' = TRUE /\ interrupted' = TRUE
  /\ UNCHANGED <<diffCommand, stage, path, done, list, position, tracker, exit>>

DiffNext == Compare \/ DiffInterrupt \/ \E s \in Sides : HashStep(s)

DiffSpec == DiffInit /\ [][DiffNext]_diffVars

----------------------------------------------------------------------------
(* Properties *)

DiffTypeOK ==
  /\ far \in [Sides -> BOOLEAN]
  /\ files \in [Sides -> UNION {[ps -> Blobs] : ps \in SUBSET Paths}]
  /\ grown \in [Sides -> SUBSET Paths]
  /\ stage \in [Sides -> {"init", "hash", "ok", "own", "cancel"}]
  /\ path \in [Sides -> Paths \cup {NoPath}] /\ done \in [Sides -> Nat]
  /\ list \in [Sides -> SUBSET Paths]
  /\ currentFile \in [Sides -> Paths \cup {NoPath}]
  /\ currentFileDoneBytes \in [Sides -> Nat]
  /\ totalFiles \in Nat /\ totalBytes \in Nat
  /\ completedFiles \in Nat /\ bytes \in Nat /\ active \in SUBSET Paths
  /\ ctxDone \in BOOLEAN /\ interrupted \in BOOLEAN
  /\ exit \in {-1, 0, 1, 2, 130}

Unchanged == \A s \in Sides : grown[s] = {}

\* Exit code 0 means that both sides hold the same files, 1 that they do not;
\* neither is given when a side could not be hashed to its end.
DiffTellsTruth ==
  /\ exit = 0 => files["src"] = files["dst"] /\ Unchanged
  /\ exit = 1 => files["src"] # files["dst"] \/ ~Unchanged

\* The bytes that are counted never pass the total, and meet it in the end,
\* wherever the progress events of both sides fall; no file stays active.
HashedBytesAddUp ==
  Unchanged =>
    /\ bytes <= totalBytes
    /\ exit \in {0, 1} =>
         bytes = totalBytes /\ completedFiles = totalFiles /\ active = {}
=============================================================================
