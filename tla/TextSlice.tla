------------------------------ MODULE TextSlice ------------------------------
(***************************************************************************)
(* cw logs and cw cat: pkg/fsengine/slice.go writes some lines of a file,  *)
(* and the worker's tailFile collects the last ones for a log stream, both *)
(* while a job may be appending to the file.                               *)
(*                                                                         *)
(* A file is UTF-8 text: its size, the offsets of its line ends, and those *)
(* of the bytes that do not begin a character.  What is written is the set *)
(* of the offsets copied, in order, of those before which a line end was   *)
(* put that the file does not have, and of those whose text was altered: a *)
(* worker writes through utf8Writer, which takes a piece that begins or    *)
(* ends within a character for text of another code page.                  *)
(***************************************************************************)
EXTENDS Integers, FiniteSets

CONSTANTS
  MaxSize,      \* bound: bytes in the file
  MaxLines,     \* bound: numbers in a request
  Buffer,       \* bytes in the buffers of bufio.Reader and io.Copy (32 K)
  SmallFile,    \* streamTail reads up to this size at once (32 K)
  Chunk,        \* a step of a backward scan (64 K), for tailFile SmallFile too
  Threshold,    \* DefaultTextSafetyThresholdBytes (1 M)
  DefaultTail,  \* DefaultTextTailLines (100)
  Limit         \* tailFile gives up at this size (2 M)

ASSUME SliceAssumption ==
  /\ MaxSize \in Nat /\ MaxLines \in Nat /\ Threshold \in Nat
  /\ Buffer \in Nat \ {0} /\ Chunk \in Nat \ {0} /\ Limit \in Nat \ {0}
  /\ SmallFile \in Nat /\ DefaultTail \in Nat \ {0}

VARIABLES
  lineEnds,     \* offsets of line ends, in the file and in what will be added
  inside,       \* offsets of bytes that do not begin a character
  served,       \* is it a worker that writes (every log, a node's file)?
  size,         \* bytes in the file
  request,      \* what is asked for
  slicing,      \* "stat", "forward", "backward", "copy", "done" or "refused"
  stat, seen,   \* the size at file.Stat, and when the reader last looked
  pos, line,    \* forward, io.Copy: bytes read; forward: currentLine
  offset, found, target,   \* backward: the scan so far
  copied, put, spoilt   \* what has been written

textVars == <<lineEnds, inside, served, request>>
sliceVars == <<textVars, size, slicing, stat, seen, pos, line, offset, found, target,
               copied, put, spoilt>>

----------------------------------------------------------------------------
(* Requests *)

Numbers == 0..MaxLines
None == -1   \* an empty part of a range

Ranges == [parts : {1}, a : Numbers, b : {None}]
            \cup [parts : {2}, a : Numbers \cup {None}, b : Numbers \cup {None}]
            \cup [parts : {0}, a : {None}, b : {None}]   \* only blanks

NoRange == [parts |-> 3, a |-> None, b |-> None]   \* -L is not given
Options == [range : {NoRange}, head : Numbers, tail : Numbers, all : BOOLEAN]
             \cup [range : Ranges, head : {1}, tail : {1}, all : {FALSE}]
\* tailFile is only asked for a number of lines.
History == [history : 1..MaxLines]

\* 0 for the end means the end of the file.
ParseLineRange(r) ==
  LET start == IF r.parts = 0 THEN 0 ELSE IF r.a = None THEN 1 ELSE r.a
      end == IF r.parts = 1 THEN r.a ELSE IF r.b = None THEN 0 ELSE r.b
  IN [ok |-> /\ r.a # 0 /\ r.b # 0
             /\ end > 0 => start <= end,
      start |-> start, end |-> end]

IsHistory == request \in History
ForRange == ~IsHistory /\ request.range # NoRange
ForHead == ~IsHistory /\ ~ForRange /\ request.head > 0
TailOf(bytes) ==
  /\ ~IsHistory /\ ~ForRange /\ ~ForHead
  /\ request.tail > 0 \/ (~request.all /\ bytes > Threshold)
ForTail == TailOf(stat)
First == IF ForRange THEN ParseLineRange(request.range).start ELSE 1
Last == IF ForRange THEN ParseLineRange(request.range).end
        ELSE IF ForHead THEN request.head ELSE 0
Wanted == IF IsHistory THEN request.history
          ELSE IF request.tail > 0 THEN request.tail ELSE DefaultTail

----------------------------------------------------------------------------
(* Lines *)

LineOf(b) == 1 + Cardinality({e \in lineEnds : e < b})
LineCount(s) ==
  Cardinality({e \in lineEnds : e < s})
    + (IF s > 0 /\ s - 1 \notin lineEnds THEN 1 ELSE 0)
LastLines(n, s) == {b \in 0..(s - 1) : LineOf(b) > LineCount(s) - n}

\* A character begins with a line, and a line end is one.
Continued == {b \in 1..(MaxSize - 1) : {b - 1, b} \cap lineEnds = {}}

SliceInit ==
  /\ lineEnds \in SUBSET (0..(MaxSize - 1))
  /\ inside \in SUBSET Continued
  /\ size \in 0..MaxSize
  /\ request \in Options \cup History
  /\ served \in BOOLEAN /\ (IsHistory => served)
  /\ slicing = "stat" /\ stat = 0 /\ seen = 0 /\ pos = 0 /\ line = 1
  /\ offset = 0 /\ found = 0 /\ target = 0 /\ copied = {} /\ put = {}
  /\ spoilt = {}

\* SliceFile decides; a small tail, and the whole of a file, are one read.
StatFile ==
  /\ slicing = "stat"
  /\ stat' = size /\ offset' = size
  /\ slicing' = IF size = 0 THEN "done"
                ELSE IF ForRange /\ ~ParseLineRange(request.range).ok THEN "refused"
                ELSE IF ForRange \/ ForHead THEN "forward"
                ELSE IF IsHistory /\ size > Chunk THEN "backward"
                ELSE IF TailOf(size) /\ size > SmallFile THEN "backward"
                ELSE "copy"
  /\ UNCHANGED <<textVars, size, seen, pos, line, found, target, copied, put, spoilt>>

\* EnsureUTF8 of one Write of the bytes from a to before b: text that is not
\* valid UTF-8 is decoded as of the machine's code page, all of it.
Altered(a, b) ==
  IF served /\ (a \in inside \/ b \in inside) THEN a..(b - 1) ELSE {}

----------------------------------------------------------------------------
(* streamHead and streamRange *)

\* What ReadLine returns: a line, a full buffer of a longer one (isPrefix),
\* the rest of the file, or nothing at its end.
LineEndsAt(p) == p \in lineEnds /\ pos <= p /\ \A e \in lineEnds : e < pos \/ p <= e
WholeLine(p) == LineEndsAt(p) /\ p < size /\ p - pos < Buffer
Rest == IF size - pos < Buffer THEN size - pos ELSE Buffer

\* end = 0 is the end of the file for -L, and --head 0 does not come here.
Selected == First <= line /\ (Last = 0 \/ line <= Last)

NextLine ==
  /\ line' = line + 1
  /\ slicing' = IF Last > 0 /\ line >= Last THEN "done" ELSE "forward"

ReadWholeLine ==
  /\ slicing = "forward"
  /\ \E p \in lineEnds :
       /\ WholeLine(p)
       /\ copied' = IF Selected THEN copied \cup pos..p ELSE copied
       /\ spoilt' = IF Selected THEN spoilt \cup Altered(pos, p) ELSE spoilt
       /\ pos' = p + 1
  /\ NextLine
  /\ seen' = size
  /\ UNCHANGED <<textVars, size, stat, offset, found, target, put>>

ReadPart ==
  /\ slicing = "forward" /\ Rest > 0 /\ \A p \in lineEnds : ~WholeLine(p)
  /\ copied' = IF Selected THEN copied \cup pos..(pos + Rest - 1) ELSE copied
  /\ spoilt' = IF Selected THEN spoilt \cup Altered(pos, pos + Rest) ELSE spoilt
  /\ pos' = pos + Rest
  /\ IF Rest = Buffer
     THEN UNCHANGED <<line, slicing, put>>
     ELSE NextLine /\ put' = IF Selected THEN put \cup {pos + Rest} ELSE put
  /\ seen' = size
  /\ UNCHANGED <<textVars, size, stat, offset, found, target>>

ReadEnd ==
  /\ slicing = "forward" /\ Rest = 0
  /\ slicing' = "done" /\ seen' = size
  /\ UNCHANGED <<textVars, size, stat, pos, line, offset, found, target, copied, put,
                 spoilt>>

----------------------------------------------------------------------------
(* streamTail and tailFile *)

Low == IF offset < Chunk THEN 0 ELSE offset - Chunk

\* Seeded fault (SliceIsExact): the line end at the end of the file counts.
CountedAll == {e \in lineEnds : Low <= e /\ e < offset}

\* The line end at the very end of the file opens no line.
Counted == {e \in lineEnds : Low <= e /\ e < offset /\ e # stat - 1}

ScanChunk ==
  /\ slicing = "backward" /\ ~IsHistory
  /\ offset' = Low
  /\ IF found + Cardinality(Counted) >= Wanted
     THEN /\ slicing' = "copy" /\ found' = Wanted
          /\ \E e \in Counted :
               /\ found + Cardinality({f \in Counted : f >= e}) = Wanted
               /\ target' = e + 1
     ELSE /\ found' = found + Cardinality(Counted)
          /\ slicing' = IF Low = 0 THEN "copy" ELSE "backward"
          /\ UNCHANGED target
  /\ UNCHANGED <<textVars, size, stat, seen, pos, line, copied, put, spoilt>>

\* Seeded fault (HistoryIsExact): the scan stops one line end too early.
EnoughEarly(newlines, bytes) == newlines >= Wanted \/ bytes >= Limit

Enough(newlines, bytes) == newlines >= Wanted + 1 \/ bytes >= Limit

\* extractLastNLines works on the data that was collected.
Collect ==
  /\ slicing = "backward" /\ IsHistory
  /\ offset' = Low
  /\ found' = found + Cardinality({e \in lineEnds : Low <= e /\ e < offset})
  /\ seen' = stat
  /\ IF Low = 0 \/ Enough(found', stat - Low)
     THEN /\ slicing' = "done"
          /\ copied' = LastLines(Wanted, stat) \cap Low..(stat - 1)
          /\ spoilt' = IF stat \in inside \/ Low \in inside \cap copied'
                       THEN copied' ELSE {}
     ELSE UNCHANGED <<slicing, copied, spoilt>>
  /\ UNCHANGED <<textVars, size, stat, pos, line, target, put>>

\* tailFile of a file of one chunk, and streamTailSmall.
Small == IsHistory \/ (ForTail /\ stat <= SmallFile)

\* io.ReadAll to what is now the end.  The history is written at once, a small
\* tail line by line; streamTailSmall ends its last line if the file does not.
CopySmall ==
  /\ slicing = "copy" /\ Small
  /\ slicing' = "done" /\ seen' = size
  /\ copied' = LastLines(Wanted, size)
  /\ put' = IF ~IsHistory /\ size - 1 \notin lineEnds THEN {size} ELSE {}
  /\ spoilt' = IF served /\ size \in inside
               THEN {b \in copied' : IsHistory \/ LineOf(b) = LineOf(size - 1)}
               ELSE {}
  /\ UNCHANGED <<textVars, size, stat, pos, line, offset, found, target>>

\* io.Copy writes a full buffer, or what there is.
From == target + pos
To == IF size - From < Buffer THEN size ELSE From + Buffer

CopyPiece ==
  /\ slicing = "copy" /\ ~Small /\ From < size
  /\ copied' = copied \cup From..(To - 1)
  /\ spoilt' = spoilt \cup Altered(From, To)
  /\ pos' = To - target
  /\ UNCHANGED <<textVars, size, slicing, stat, seen, line, offset, found, target, put>>

CopyEnd ==
  /\ slicing = "copy" /\ ~Small /\ From >= size
  /\ slicing' = "done" /\ seen' = size
  /\ UNCHANGED <<textVars, size, stat, pos, line, offset, found, target, copied, put,
                 spoilt>>

\* The job writes a byte.
FileGrows ==
  /\ slicing \in {"stat", "forward", "backward", "copy"} /\ size < MaxSize
  /\ size' = size + 1
  /\ UNCHANGED <<textVars, slicing, stat, seen, pos, line, offset, found, target,
                 copied, put, spoilt>>

SliceStep ==
  \/ StatFile \/ ReadWholeLine \/ ReadPart \/ ReadEnd
  \/ ScanChunk \/ Collect \/ CopySmall \/ CopyPiece \/ CopyEnd

SliceNext == SliceStep \/ FileGrows

SliceSpec == SliceInit /\ [][SliceNext]_sliceVars

----------------------------------------------------------------------------
(* Properties *)

ScanTypeOK ==
  /\ lineEnds \in SUBSET (0..(MaxSize - 1))
  /\ size \in 0..MaxSize /\ stat \in 0..size /\ seen \in 0..size
  /\ request \in Options \cup History
  /\ slicing \in {"stat", "forward", "backward", "copy", "done", "refused"}
  /\ pos \in 0..size /\ line \in Nat \ {0}
  /\ offset \in 0..stat /\ found \in Nat /\ target \in Nat
  /\ copied \in SUBSET (0..(size - 1)) /\ put \in SUBSET (0..size)

SliceTypeOK ==
  /\ ScanTypeOK
  /\ inside \in SUBSET Continued /\ served \in BOOLEAN
  /\ spoilt \in SUBSET copied

Bytes(s) == 0..(s - 1)
LinesFrom(first, s) == {b \in Bytes(s) : first <= LineOf(b)}
Exactly(s) ==
  IF ForRange \/ ForHead
  THEN {b \in Bytes(s) : First <= LineOf(b) /\ (Last = 0 \/ LineOf(b) <= Last)}
  ELSE IF ForTail THEN LinesFrom(LineCount(s) - Wanted + 1, s) ELSE Bytes(s)

\* The lines that were asked for, whole, with a line end put only after the
\* last of them.  A file that grows changes that: a tail is its lines and all
\* that was added, a line that is read while it grows counts, and may come, as
\* two.
LinesAreExact ==
  /\ ForTail => copied = LinesFrom(LineCount(
                  IF stat <= SmallFile THEN seen ELSE stat) - Wanted + 1, seen)
  /\ seen = stat => copied = Exactly(stat) /\ put \subseteq {stat}
  /\ \A b, c \in copied : b..c \subseteq copied
  /\ ForRange \/ ForHead =>
       \A b \in copied : Last = 0 \/ LineOf(b) <= Last

\* There is a full buffer and more: within the line of b if lines are read.
Overfull(b) ==
  \E c \in Bytes(stat) :
    /\ target <= c /\ c + Buffer < stat
    /\ ForRange \/ ForHead =>
         \A d \in c..(c + Buffer) : d \notin lineEnds /\ LineOf(d) = LineOf(b)

\* Nothing is altered that does not come from a worker.  What does is altered
\* only in lines, or in a whole text, longer than a buffer, unless the file
\* grows or ends within a character; a small tail never is.
TextIsKept ==
  /\ ~served => spoilt = {}
  /\ seen = stat /\ stat \notin inside =>
       IF Small THEN spoilt = {} ELSE \A b \in spoilt : Overfull(b)

\* cw logs and cw cat write the lines that were asked for, wherever buffers and
\* chunks end; utf8Writer alters them only where a buffer cuts a character.
SliceIsExact == slicing = "done" /\ ~IsHistory => LinesAreExact /\ TextIsKept

\* The history of a log stream is the last lines of the log, whole and with
\* their text kept unless the log ends within a character; or, where they are
\* longer than the limit, the end of the log from there.
HistoryIsExact ==
  slicing = "done" /\ IsHistory =>
    \/ /\ copied = LinesFrom(LineCount(seen) - Wanted + 1, seen)
       /\ seen \notin inside => spoilt = {}
    \/ \E low \in Bytes(seen) : seen - low >= Limit /\ copied = low..(seen - 1)
=============================================================================
