------------------------------ MODULE FsRemove ------------------------------
(***************************************************************************)
(* cw rm: pkg/fsengine RemoveWithProgress, alone or behind the worker's    *)
(* handleFsRemove, which streams it to the client as lines of JSON.        *)
(*                                                                         *)
(* Two goroutines write those lines without a lock: the handler and the    *)
(* progress ticker, which is told to stop but not waited for.  A line that *)
(* is written while the other goroutine may be writing can be lost.        *)
(*                                                                         *)
(* The client handles a line in the step that writes it: nothing depends   *)
(* on the time between, and a broken connection can lose it anyway.        *)
(***************************************************************************)
EXTENDS Integers, FiniteSets

CONSTANT Entries   \* what a directory may hold, numbers; 0 is the target

ASSUME EntriesAssumption == Entries \subseteq Nat \ {0} /\ IsFiniteSet(Entries)

VARIABLES
  remote, recursive,  \* is the target on a node? is -r given?
  isDir, parent,      \* is the target a directory? where its entries are
  there,              \* what exists at the beginning
  left,               \* what exists now
  count,              \* the counter removeDirTree and the ticker share
  remover,            \* progress of RemoveWithProgress and its caller
  err,                \* did it fail?
  ticker, reported,   \* the ticker goroutine, its lastReported
  raced,              \* was the handler's last line lost to the ticker?
  answered,           \* did the client see the last line?
  shown,              \* the count the client has seen last
  rmResult            \* what cw rm returned

rmCommand == <<remote, recursive, isDir, parent, there>>
rmVars == <<rmCommand, left, count, remover, err, ticker, reported, raced,
            answered, shown, rmResult>>

Root == 0
Children(d) == {e \in left \ {Root} : parent[e] = d}
RmRunning == rmResult = "none"
Removed == Cardinality(there) - Cardinality(left)

RmInit ==
  /\ remote \in BOOLEAN /\ recursive \in BOOLEAN /\ isDir \in BOOLEAN
  /\ there \in {{Root} \cup s : s \in SUBSET Entries}
  /\ ~isDir => there = {Root}
  /\ parent \in [there \ {Root} -> there]
  /\ \A e \in there \ {Root} : parent[e] < e
  /\ there # {Root} => \E e \in there \ {Root} : parent[e] = Root
  /\ left = there
  /\ count = 0 /\ remover = "check" /\ err = FALSE
  /\ ticker = "off" /\ reported = 0
  /\ raced = FALSE /\ answered = FALSE /\ shown = 0 /\ rmResult = "none"

----------------------------------------------------------------------------
(* What the client makes of a line *)

\* Ctrl-C counts, even after the last line (fs_rm.go tests it first).
RmReturns(r) == rmResult' = r

ShowProgress(n) ==
  /\ shown' = IF RmRunning THEN n ELSE shown
  /\ UNCHANGED <<answered, rmResult>>

LineLost == UNCHANGED <<answered, shown, rmResult>>

\* The ticker may be inside Encode.
Overlaps == remote /\ ticker = "encode"

----------------------------------------------------------------------------
(* RemoveWithProgress and handleFsRemove *)

RmRefused ==
  /\ remover = "check"
  /\ remover' = "end" /\ RmReturns("failed")
  /\ UNCHANGED <<rmCommand, left, count, err, ticker, reported, raced, answered,
                 shown>>

\* A file, a link or an empty directory.
RemoveOne ==
  /\ remover = "check" /\ ~(isDir /\ recursive) /\ Children(Root) = {}
  /\ \/ left' = {} /\ count' = 1 /\ remover' = "progress" /\ UNCHANGED err
     \/ err' = TRUE /\ remover' = "last" /\ UNCHANGED <<left, count>>
  /\ UNCHANGED <<rmCommand, ticker, reported, raced, answered, shown, rmResult>>

RemoveTree ==
  /\ remover = "check" /\ isDir /\ recursive
  /\ remover' = "walk" /\ ticker' = "wait"
  /\ UNCHANGED <<rmCommand, left, count, err, reported, raced, answered, shown,
                 rmResult>>

\* A directory comes after all it holds.
RemoveItem(e) ==
  /\ remover = "walk" /\ e \in left /\ Children(e) = {}
  /\ left' = left \ {e} /\ remover' = "add"
  /\ UNCHANGED <<rmCommand, count, err, ticker, reported, raced, answered,
                 shown, rmResult>>

\* Seeded fault (CountIsHonest): the counter is raised before the removal.
AddEarly ==
  /\ remover \in {"walk", "add"} /\ count < Cardinality(there)
  /\ count' = count + 1
  /\ remover' = IF left = {} THEN "progress" ELSE "walk"
  /\ UNCHANGED <<rmCommand, left, err, ticker, reported, raced, answered, shown,
                 rmResult>>

\* atomic.AddInt64, a step of its own for the ticker.
AddCount ==
  /\ remover = "add"
  /\ count' = count + 1
  /\ remover' = IF left = {} THEN "progress" ELSE "walk"
  /\ UNCHANGED <<rmCommand, left, err, ticker, reported, raced, answered, shown,
                 rmResult>>

\* Seeded fault (RmOkMeansGone): the walk ends without its error.
RemoveFailsUnreported ==
  /\ remover = "walk"
  /\ remover' = "progress"
  /\ UNCHANGED <<rmCommand, left, count, err, ticker, reported, raced, answered,
                 shown, rmResult>>

\* An entry cannot be removed, or the context is done.
RemoveFails ==
  /\ remover = "walk"
  /\ err' = TRUE /\ remover' = "progress"
  /\ UNCHANGED <<rmCommand, left, count, ticker, reported, raced, answered,
                 shown, rmResult>>

\* onProgress(finalCount), with or without an error.
LastProgress ==
  /\ remover = "progress"
  /\ remover' = "return"
  /\ \/ ShowProgress(count)
     \/ Overlaps /\ LineLost
  /\ UNCHANGED <<rmCommand, left, count, err, ticker, reported, raced>>

\* close(stopTicker): the ticker learns of it at its next select.
CloseTicker ==
  /\ remover = "return"
  /\ remover' = "last"
  /\ UNCHANGED <<rmCommand, left, count, err, ticker, reported, raced, answered,
                 shown, rmResult>>

\* Done or Error; a local call returns its result instead.
LastLine ==
  /\ remover = "last"
  /\ remover' = "end"
  /\ \/ /\ answered' = TRUE
        /\ shown' = IF RmRunning /\ ~err THEN count ELSE shown
        /\ IF RmRunning THEN RmReturns(IF err THEN "failed" ELSE "ok")
                        ELSE UNCHANGED rmResult
        /\ UNCHANGED raced
     \/ Overlaps /\ LineLost /\ raced' = TRUE
  /\ UNCHANGED <<rmCommand, left, count, err, ticker, reported>>

----------------------------------------------------------------------------
(* The progress ticker *)

\* A tick: the counter is read, and reported if it has changed.
Tick ==
  /\ ticker = "wait" /\ count # reported
  /\ reported' = count
  /\ ticker' = "encode"
  /\ UNCHANGED <<rmCommand, left, count, remover, err, raced, answered, shown,
                 rmResult>>

\* Its line may come after the handler has returned.
TickerWrites ==
  /\ ticker = "encode"
  /\ ticker' = "wait"
  /\ \/ ShowProgress(reported)
     \/ remote /\ remover \in {"return", "last", "end"} /\ LineLost
  /\ UNCHANGED <<rmCommand, left, count, remover, err, reported, raced>>

TickerStops ==
  /\ ticker = "wait" /\ remover \in {"last", "end"}
  /\ ticker' = "off"
  /\ UNCHANGED <<rmCommand, left, count, remover, err, reported, raced, answered,
                 shown, rmResult>>

----------------------------------------------------------------------------
(* The client *)

\* The body ends without a last line: that counts as a success.
EndOfBody ==
  /\ RmRunning /\ remote /\ remover = "end"
  /\ RmReturns("ok")
  /\ UNCHANGED <<rmCommand, left, count, remover, err, ticker, reported, raced,
                 answered, shown>>

\* The connection breaks, the lines are garbled, or the user interrupts; the
\* worker finds out at its next test of the request's context.
ClientLeaves ==
  /\ RmRunning /\ remover # "check"
  /\ RmReturns("failed") \/ RmReturns("interrupted")
  /\ UNCHANGED <<rmCommand, left, count, remover, err, ticker, reported, raced,
                 answered, shown>>

RemoverStep ==
  \/ RmRefused \/ RemoveOne \/ RemoveTree \/ AddCount \/ RemoveFails
  \/ LastProgress \/ CloseTicker \/ LastLine
  \/ \E e \in there : RemoveItem(e)

RmNext ==
  RemoverStep \/ Tick \/ TickerWrites \/ TickerStops \/ EndOfBody \/ ClientLeaves

RmSpec == RmInit /\ [][RmNext]_rmVars

----------------------------------------------------------------------------
(* Properties *)

RmTypeOK ==
  /\ remote \in BOOLEAN /\ recursive \in BOOLEAN /\ isDir \in BOOLEAN
  /\ there \in SUBSET (Entries \cup {Root}) /\ parent \in [there \ {Root} -> there]
  /\ left \in SUBSET there /\ count \in Nat /\ reported \in Nat /\ shown \in Nat
  /\ remover \in {"check", "walk", "add", "progress", "return", "last", "end"}
  /\ ticker \in {"off", "wait", "encode"}
  /\ err \in BOOLEAN /\ raced \in BOOLEAN /\ answered \in BOOLEAN
  /\ rmResult \in {"none", "ok", "failed", "interrupted"}

\* When cw rm reports success nothing of the target is left, unless the line
\* with the error was lost to the ticker's.
RmOkMeansGone == rmResult = "ok" => left = {} \/ (raced /\ err)

\* No count that is shown is ahead of what has been removed; the last one is
\* all of it.
CountIsHonest ==
  /\ count <= Removed /\ shown <= Removed
  /\ rmResult = "ok" /\ answered => shown = Cardinality(there)
=============================================================================
