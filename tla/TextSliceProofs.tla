--------------------------- MODULE TextSliceProofs ---------------------------
(***************************************************************************)
(* cw logs and cw cat write exactly the lines that were asked for, for     *)
(* files, buffers, chunks and requests of any size, and whatever is added  *)
(* to the file while they read it.                                         *)
(***************************************************************************)
EXTENDS TextSlice, FiniteSetTheorems, TLAPS

USE DEF textVars

-----------------------------------------------------------------------------
(* Line ends and line numbers *)

Ends(a, b) == {e \in lineEnds : a <= e /\ e < b}

Placed == lineEnds \in SUBSET (0..(MaxSize - 1))

LEMMA EndsFinite ==
  ASSUME Placed, NEW T \in SUBSET lineEnds
  PROVE  IsFiniteSet(T) /\ Cardinality(T) \in Nat
<1>1. IsFiniteSet(0..(MaxSize - 1))
  BY FS_Interval, SliceAssumption
<1>2. IsFiniteSet(T)
  BY <1>1, FS_Subset DEF Placed
<1> QED BY <1>2, FS_CardinalityType

\* Line ends are counted piece by piece.
LEMMA EndsAdd ==
  ASSUME Placed, NEW a \in Int, NEW b \in Int, NEW c \in Int, a <= b, b <= c
  PROVE  /\ Cardinality(Ends(a, c)) = Cardinality(Ends(a, b)) + Cardinality(Ends(b, c))
         /\ Cardinality(Ends(a, b)) \in Nat /\ Cardinality(Ends(b, c)) \in Nat
<1>1. Ends(a, b) \in SUBSET lineEnds /\ Ends(b, c) \in SUBSET lineEnds
  BY DEF Ends
<1>2. \A e \in lineEnds : e \in Int
  BY SliceAssumption DEF Placed
<1>3. Ends(a, c) = Ends(a, b) \cup Ends(b, c)
  <2>1. \A e \in lineEnds : a <= e /\ e < c <=> (a <= e /\ e < b) \/ (b <= e /\ e < c)
    BY <1>2
  <2> QED BY <2>1 DEF Ends
<1>4. Ends(a, b) \cap Ends(b, c) = {}
  <2>1. \A e \in lineEnds : ~((a <= e /\ e < b) /\ (b <= e /\ e < c))
    BY <1>2
  <2> QED BY <2>1 DEF Ends
<1>5. /\ IsFiniteSet(Ends(a, b)) /\ Cardinality(Ends(a, b)) \in Nat
      /\ IsFiniteSet(Ends(b, c)) /\ Cardinality(Ends(b, c)) \in Nat
  BY <1>1, EndsFinite
<1>6. Cardinality(Ends(a, b) \cup Ends(b, c))
        = Cardinality(Ends(a, b)) + Cardinality(Ends(b, c))
            - Cardinality(Ends(a, b) \cap Ends(b, c))
  BY <1>5, FS_Union
<1>7. Cardinality(Ends(a, b) \cap Ends(b, c)) = 0
  BY <1>4, FS_EmptySet
<1> QED BY <1>3, <1>5, <1>6, <1>7

\* The line of a byte is one more than the line ends before it.
LEMMA LineOfEnds ==
  ASSUME Placed, NEW b \in Int
  PROVE  LineOf(b) = 1 + Cardinality(Ends(0, b)) /\ LineOf(b) \in Nat \ {0}
<1>1. {e \in lineEnds : e < b} = Ends(0, b)
  <2>1. \A e \in lineEnds : e < b <=> 0 <= e /\ e < b
    BY SliceAssumption DEF Placed
  <2> QED BY <2>1 DEF Ends
<1>2. Ends(0, b) \in SUBSET lineEnds
  BY DEF Ends
<1>3. Cardinality(Ends(0, b)) \in Nat
  BY <1>2, EndsFinite
<1> QED BY <1>1, <1>3 DEF LineOf

\* Between two bytes the line number grows by the line ends between them.
LEMMA LineOfBetween ==
  ASSUME Placed, NEW a \in Nat, NEW b \in Nat, a <= b
  PROVE  /\ LineOf(b) = LineOf(a) + Cardinality(Ends(a, b))
         /\ Cardinality(Ends(a, b)) \in Nat
         /\ LineOf(a) <= LineOf(b)
         /\ LineOf(a) \in Nat \ {0} /\ LineOf(b) \in Nat \ {0}
<1>1. Cardinality(Ends(0, b)) = Cardinality(Ends(0, a)) + Cardinality(Ends(a, b))
      /\ Cardinality(Ends(0, a)) \in Nat /\ Cardinality(Ends(a, b)) \in Nat
  BY EndsAdd
<1>2. LineOf(a) = 1 + Cardinality(Ends(0, a)) /\ LineOf(b) = 1 + Cardinality(Ends(0, b))
  BY LineOfEnds
<1> QED BY <1>1, <1>2

\* A line end belongs to its line; the next byte begins a new one.
LEMMA LineOfNext ==
  ASSUME Placed, NEW p \in lineEnds
  PROVE  p \in Nat /\ LineOf(p + 1) = LineOf(p) + 1
<1>1. p \in Nat
  BY SliceAssumption DEF Placed
<1>2. Ends(p, p + 1) = {p}
  <2>1. \A e \in lineEnds : p <= e /\ e < p + 1 <=> e = p
    BY <1>1, SliceAssumption DEF Placed
  <2> QED BY <2>1 DEF Ends
<1>3. Cardinality({p}) = 1
  BY FS_Singleton
<1>4. p + 1 \in Nat /\ p <= p + 1
  BY <1>1
<1>5. LineOf(p + 1) = LineOf(p) + Cardinality(Ends(p, p + 1))
  BY <1>1, <1>4, LineOfBetween
<1> QED BY <1>1, <1>2, <1>3, <1>5

\* Without a line end in between, two bytes are on one line.
LEMMA SameLine ==
  ASSUME Placed, NEW a \in Nat, NEW b \in Nat, a <= b,
         \A e \in lineEnds : ~(a <= e /\ e < b)
  PROVE  LineOf(b) = LineOf(a)
<1>1. Ends(a, b) = {}
  BY DEF Ends
<1>2. LineOf(b) = LineOf(a) + Cardinality(Ends(a, b)) /\ LineOf(a) \in Nat
  BY LineOfBetween
<1> QED BY <1>1, <1>2, FS_EmptySet

\* A file has as many lines as the number of its last byte's line.
LEMMA LineCountIsLast ==
  ASSUME Placed, NEW s \in Nat \ {0}
  PROVE  LineCount(s) = LineOf(s - 1)
<1>1. LineOf(s) = 1 + Cardinality({e \in lineEnds : e < s})
  BY DEF LineOf
<1>2. s \in Nat /\ s - 1 \in Nat
  OBVIOUS
<1>3. LineOf(s) \in Nat /\ LineOf(s - 1) \in Nat
  BY <1>2, LineOfEnds
<1>4. Cardinality({e \in lineEnds : e < s}) = LineOf(s) - 1
  <2>1. {e \in lineEnds : e < s} \in SUBSET lineEnds
    OBVIOUS
  <2>2. Cardinality({e \in lineEnds : e < s}) \in Nat
    BY <2>1, EndsFinite
  <2> QED BY <1>1, <2>2
<1>5. CASE s - 1 \in lineEnds
  <2>1. LineOf((s - 1) + 1) = LineOf(s - 1) + 1
    BY <1>5, LineOfNext
  <2>2. (s - 1) + 1 = s
    OBVIOUS
  <2> QED BY <1>3, <1>4, <1>5, <2>1, <2>2 DEF LineCount
<1>6. CASE s - 1 \notin lineEnds
  <2>1. \A e \in lineEnds : ~(s - 1 <= e /\ e < s)
    BY <1>6, SliceAssumption DEF Placed
  <2>2. LineOf(s) = LineOf(s - 1)
    BY <1>2, <2>1, SameLine
  <2> QED BY <1>3, <1>4, <1>6, <2>2 DEF LineCount
<1> QED BY <1>5, <1>6

\* The order of the numbers, as a relation.
LEMMA NumbersOrdered ==
  \E R : /\ IsWellFoundedOn(R, Nat)
         /\ \A x, y \in Nat : <<y, x>> \in R <=> y < x
<1>1. \A x, y \in Nat : <<y, x>> \in OpToRel(<, Nat) <=> y < x
  BY Zenon DEF OpToRel
<1> QED BY <1>1, NatLessThanWellFounded, Zenon

\* A set of numbers has a least one.
LEMMA LeastNumber ==
  ASSUME NEW T \in SUBSET Nat, T # {}
  PROVE  \E x \in T : \A y \in T : x <= y
<1>1. PICK R : /\ IsWellFoundedOn(R, Nat)
               /\ \A x, y \in Nat : <<y, x>> \in R <=> y < x
  BY NumbersOrdered
<1>2. PICK x \in T : \A y \in T : <<y, x>> \notin R
  BY <1>1, WFMin
<1>3. \A y \in T : x \in Nat /\ y \in Nat /\ ~(y < x)
  BY <1>1, <1>2, Zenon
<1> QED BY <1>3

-----------------------------------------------------------------------------
(* The inductive invariant: where each of the scans has come to.            *)

ByLine == ForRange \/ ForHead
BigTail == ForTail /\ SmallFile < stat

Fresh ==
  slicing = "stat" =>
    stat = 0 /\ pos = 0 /\ line = 1 /\ found = 0 /\ target = 0 /\ copied = {} /\ put = {}

\* The bytes before p that are in the lines asked for.
Chosen(p) ==
  {b \in 0..(p - 1) : First <= LineOf(b) /\ (Last = 0 \/ LineOf(b) <= Last)}

\* What has been copied goes on to where the scan is, in no line too late.
Gathered ==
  \A b \in copied :
    b < pos /\ b..(pos - 1) \subseteq copied /\ (Last = 0 \/ LineOf(b) <= Last)

\* A forward scan has never counted too few lines, and has copied all since
\* the first one it wanted; in a file that does not grow it counts exactly.
ForwardFits ==
  slicing = "forward" =>
    /\ ~IsHistory /\ ByLine /\ (Last = 0 \/ First <= Last)
    /\ Last = 0 \/ line <= Last
    /\ LineOf(pos) <= line
    /\ line < First => copied = {}
    /\ Gathered
    /\ size = stat =>
         copied = Chosen(pos) /\ put \subseteq {stat} /\ (line = LineOf(pos) \/ pos = size)

\* A backward scan has counted the line ends from its offset on.
BackwardFits ==
  slicing = "backward" =>
    /\ 0 < offset
    /\ IsHistory => found = Cardinality(Ends(offset, stat))
    /\ ~IsHistory =>
         /\ BigTail /\ target = 0 /\ found < Wanted
         /\ pos = 0 /\ copied = {} /\ put = {}
         /\ found = Cardinality(Ends(offset, stat - 1))

\* The scan of a tail has stopped where the lines asked for begin.
CopyFits ==
  slicing = "copy" =>
    /\ 0 < stat
    /\ ~IsHistory =>
         /\ ~ByLine
         /\ ~ForTail => target = 0
         /\ BigTail => \A b \in Nat : target <= b <=> LineCount(stat) - Wanted + 1 <= LineOf(b)
    /\ ~Small => From <= size /\ copied = target..(From - 1) /\ put = {}

\* What is written is right, but for the text of its characters.
Selects == slicing = "done" /\ ~IsHistory => LinesAreExact
Remembers ==
  slicing = "done" /\ IsHistory =>
    \/ copied = LinesFrom(LineCount(seen) - Wanted + 1, seen)
    \/ \E low \in Bytes(seen) : seen - low >= Limit /\ copied = low..(seen - 1)

SliceInv ==
  /\ ScanTypeOK /\ Fresh /\ ForwardFits /\ BackwardFits /\ CopyFits
  /\ Selects /\ Remembers

\* What a request says, as numbers.
LEMMA RequestFits ==
  ASSUME ScanTypeOK
  PROVE  /\ First \in Nat /\ Last \in Nat /\ Wanted \in Nat \ {0}
         /\ ForRange /\ ParseLineRange(request.range).ok => Last = 0 \/ First <= Last
         /\ ForHead => Last = 0 \/ First <= Last
<1> USE SliceAssumption DEF Numbers, None
<1>1. CASE IsHistory
  BY <1>1 DEF IsHistory, History, Wanted, First, Last, ForRange, ForHead
<1>2. CASE ~IsHistory
  <2>1. request \in Options
    BY <1>2 DEF ScanTypeOK, IsHistory
  <2>2. request.head \in Nat /\ request.tail \in Nat
    <3>1. CASE request \in [range : {NoRange}, head : Numbers, tail : Numbers, all : BOOLEAN]
      BY <3>1
    <3>2. CASE request \in [range : Ranges, head : {1}, tail : {1}, all : {FALSE}]
      BY <3>2
    <3> QED BY <2>1, <3>1, <3>2 DEF Options
  <2>3. Wanted \in Nat \ {0}
    BY <1>2, <2>2 DEF Wanted
  <2>4. CASE ~ForRange
    BY <1>2, <2>2, <2>3, <2>4 DEF First, Last, ForHead
  <2>5. CASE ForRange
    <3>1. request.range \in Ranges
      BY <2>1, <2>5 DEF ForRange, Options
    <3>2. First = ParseLineRange(request.range).start
          /\ Last = ParseLineRange(request.range).end
      BY <2>5 DEF First, Last
    <3>3. /\ ParseLineRange(request.range).start \in Nat
          /\ ParseLineRange(request.range).end \in Nat
          /\ ParseLineRange(request.range).ok =>
               ParseLineRange(request.range).end = 0
               \/ ParseLineRange(request.range).start <= ParseLineRange(request.range).end
      BY <3>1 DEF Ranges, ParseLineRange
    <3> QED BY <2>3, <2>5, <3>2, <3>3 DEF ForHead
  <2> QED BY <2>4, <2>5
<1> QED BY <1>1, <1>2

\* The request, the line ends and what is derived from them stay.
LEMMA SameRequest ==
  ASSUME UNCHANGED <<lineEnds, request>>
  PROVE  /\ (IsHistory' <=> IsHistory) /\ (ByLine' <=> ByLine)
         /\ First' = First /\ Last' = Last /\ Wanted' = Wanted
         /\ \A b : LineOf(b)' = LineOf(b) /\ LineCount(b)' = LineCount(b)
         /\ \A a, b : Ends(a, b)' = Ends(a, b)
<1>1. (IsHistory' <=> IsHistory) /\ (ForRange' <=> ForRange) /\ (ForHead' <=> ForHead)
  BY DEF IsHistory, ForRange, ForHead
<1> QED BY <1>1 DEF ByLine, First, Last, Wanted, LineOf, LineCount, Ends

-----------------------------------------------------------------------------
(* The forward scan *)

\* A read that goes to byte q, past no line end but the one just before q.
LEMMA ReadOn ==
  ASSUME SliceInv, slicing = "forward", UNCHANGED <<lineEnds, size, request, stat>>,
         NEW q \in Nat, pos < q, q <= size, pos' = q,
         \A e \in lineEnds : ~(pos <= e /\ e < q - 1),
         copied' = IF Selected THEN copied \cup pos..(q - 1) ELSE copied
  PROVE  /\ copied' \in SUBSET (0..(size - 1))
         /\ Gathered'
         /\ line < First => copied' = {}
         /\ size = stat => line = LineOf(pos) /\ copied' = Chosen(q)
<1>1. ScanTypeOK /\ Placed /\ pos \in Nat /\ line \in Nat \ {0} /\ size \in Nat
  BY SliceAssumption DEF SliceInv, ScanTypeOK, Placed
<1>2. First \in Nat /\ Last \in Nat
  BY <1>1, RequestFits
<1>3. /\ Last = 0 \/ line <= Last
      /\ LineOf(pos) <= line
      /\ line < First => copied = {}
      /\ Gathered
      /\ size = stat =>
           copied = Chosen(pos) /\ (line = LineOf(pos) \/ pos = size)
  BY DEF SliceInv, ForwardFits
<1>4. \A b \in pos..(q - 1) : b \in Nat /\ LineOf(b) = LineOf(pos)
  <2> SUFFICES ASSUME NEW b \in pos..(q - 1) PROVE b \in Nat /\ LineOf(b) = LineOf(pos)
    OBVIOUS
  <2>1. b \in Nat /\ pos <= b /\ b <= q - 1
    BY <1>1
  <2>2. \A e \in lineEnds : ~(pos <= e /\ e < b)
    <3>1. \A e \in lineEnds : e \in Int
      BY SliceAssumption, <1>1 DEF Placed
    <3> QED BY <2>1, <3>1
  <2> QED BY <1>1, <2>1, <2>2, SameLine
<1>5. LineOf(pos) \in Nat
  BY <1>1, LineOfEnds
<1>6. copied \in SUBSET (0..(size - 1)) /\ \A b \in copied : b \in Nat
  BY <1>1 DEF ScanTypeOK
<1>7. copied' \in SUBSET (0..(size - 1))
  <2>1. pos..(q - 1) \in SUBSET (0..(size - 1))
    BY <1>1
  <2> QED BY <1>6, <2>1
<1>8. line < First => copied' = {}
  BY <1>1, <1>2, <1>3 DEF Selected
<1>9. Gathered'
  <2> SUFFICES ASSUME NEW b \in copied'
               PROVE  b < q /\ b..(q - 1) \subseteq copied'
                      /\ (Last = 0 \/ LineOf(b) <= Last)
    BY SameRequest DEF Gathered
  <2>1. CASE Selected
    <3>1. copied' = copied \cup pos..(q - 1)
      BY <2>1
    <3>2. CASE b \in copied
      <4>1. b \in Nat /\ b < pos /\ b..(pos - 1) \subseteq copied
            /\ (Last = 0 \/ LineOf(b) <= Last)
        BY <1>3, <1>6, <3>2 DEF Gathered
      <4>2. b..(q - 1) \subseteq b..(pos - 1) \cup pos..(q - 1)
        BY <1>1, <4>1
      <4> QED BY <1>1, <3>1, <4>1, <4>2
    <3>3. CASE b \in pos..(q - 1)
      <4>1. b..(q - 1) \subseteq pos..(q - 1)
        BY <1>1, <3>3
      <4>2. Last = 0 \/ LineOf(b) <= Last
        BY <1>1, <1>2, <1>3, <1>4, <1>5, <3>3
      <4> QED BY <1>1, <3>1, <3>3, <4>1, <4>2
    <3> QED BY <3>1, <3>2, <3>3
  <2>2. CASE ~Selected
    <3>1. line < First
      BY <1>1, <1>2, <1>3, <2>2 DEF Selected
    <3> QED BY <1>8, <3>1
  <2> QED BY <2>1, <2>2
<1>10. ASSUME size = stat PROVE line = LineOf(pos) /\ copied' = Chosen(q)
  <2>1. line = LineOf(pos) /\ copied = Chosen(pos)
    BY <1>1, <1>3, <1>10
  <2>2. 0..(q - 1) = 0..(pos - 1) \cup pos..(q - 1)
    BY <1>1
  <2>3. \A b \in pos..(q - 1) :
          Selected <=> First <= LineOf(b) /\ (Last = 0 \/ LineOf(b) <= Last)
    BY <1>4, <2>1 DEF Selected
  <2> QED BY <2>1, <2>2, <2>3 DEF Chosen
<1> QED BY <1>7, <1>8, <1>9, <1>10

\* A forward scan that is done has written what was asked for.
LEMMA DoneByLine ==
  ASSUME ScanTypeOK', ~IsHistory', ByLine', Gathered',
         seen' = stat' => copied' = Chosen(stat)' /\ put' \subseteq {stat}'
  PROVE  Selects'
<1>1. ~ForTail'
  BY DEF ForTail, TailOf, ByLine
<1>2. Exactly(stat)' = Chosen(stat)'
  BY DEF Exactly, Chosen, Bytes, ByLine
<1>3. \A b, c \in copied' : b..c \subseteq copied'
  <2> SUFFICES ASSUME NEW b \in copied', NEW c \in copied' PROVE b..c \subseteq copied'
    OBVIOUS
  <2>1. size' \in Nat /\ pos' \in Nat
    BY SliceAssumption DEF ScanTypeOK
  <2>2. b \in 0..(size' - 1) /\ c \in 0..(size' - 1)
    BY DEF ScanTypeOK
  <2>3. b \in Int /\ c \in Int
    BY <2>1, <2>2
  <2>4. c < pos' /\ b..(pos' - 1) \subseteq copied'
    BY DEF Gathered
  <2>5. \A x, y, z \in Int : y < z => x..y \subseteq x..(z - 1)
    OBVIOUS
  <2>6. b..c \subseteq b..(pos' - 1)
    <3>1. pos' \in Int
      BY <2>1
    <3> QED BY <2>3, <2>4, <2>5, <3>1, Zenon
  <2> QED BY <2>4, <2>6
<1>4. \A b \in copied' : Last' = 0 \/ LineOf(b)' <= Last'
  BY DEF Gathered
<1> QED BY <1>1, <1>2, <1>3, <1>4 DEF Selects, LinesAreExact

\* io.Copy is about to begin.
LEMMA NothingCopied ==
  ASSUME pos' = 0, copied' = {}, put' = {}, target' \in Nat, size' \in Nat, target' <= size'
  PROVE  (~Small => From <= size /\ copied = target..(From - 1) /\ put = {})'
<1>0. \A t \in Nat : t + 0 = t
  OBVIOUS
<1>1. From' = target'
  BY <1>0, Zenon DEF From
<1>2. \A t \in Nat : t..(t - 1) = {}
  OBVIOUS
<1>3. target'..(target' - 1) = {}
  BY <1>2
<1>4. target'..(From' - 1) = {}
  BY <1>1, <1>3
<1> QED BY <1>1, <1>4

LEMMA StatFileKeeps ==
  ASSUME SliceInv, StatFile PROVE SliceInv'
<1>1. ScanTypeOK /\ Placed /\ size \in Nat
  BY SliceAssumption DEF SliceInv, ScanTypeOK, Placed
<1>2. stat = 0 /\ pos = 0 /\ line = 1 /\ found = 0 /\ target = 0 /\ copied = {} /\ put = {}
  BY DEF SliceInv, Fresh, StatFile
<1>3. /\ (IsHistory' <=> IsHistory) /\ (ByLine' <=> ByLine)
      /\ First' = First /\ Last' = Last /\ Wanted' = Wanted
      /\ \A b : LineOf(b)' = LineOf(b) /\ LineCount(b)' = LineCount(b)
      /\ \A a, b : Ends(a, b)' = Ends(a, b)
  BY SameRequest DEF StatFile
<1>4. ScanTypeOK' /\ Fresh'
  BY <1>1, <1>2, SliceAssumption DEF StatFile, ScanTypeOK, Fresh
<1>5. First \in Nat /\ Last \in Nat /\ Wanted \in Nat \ {0}
      /\ (ForRange /\ ParseLineRange(request.range).ok => Last = 0 \/ First <= Last)
      /\ (ForHead => Last = 0 \/ First <= Last)
  BY <1>1, RequestFits
<1>6. slicing' = "forward" => ~IsHistory /\ ByLine /\ (Last = 0 \/ First <= Last)
  BY <1>5 DEF StatFile, ByLine, ForRange, ForHead
<1>7. LineOf(0) = 1
  <2>1. \A e \in lineEnds : ~(0 <= e /\ e < 0)
    BY <1>1, SliceAssumption DEF Placed
  <2>2. Ends(0, 0) = {}
    BY <2>1 DEF Ends
  <2>3. LineOf(0) = 1 + Cardinality(Ends(0, 0))
    BY <1>1, LineOfEnds
  <2> QED BY <2>2, <2>3, FS_EmptySet
<1>8. ForwardFits'
  <2> SUFFICES ASSUME slicing' = "forward" PROVE ForwardFits'
    BY DEF ForwardFits
  <2>1. ~IsHistory' /\ ByLine' /\ (Last' = 0 \/ First' <= Last')
    BY <1>3, <1>6
  <2>2. First \in {0, 1}  \/ 1 <= Last \/ Last = 0
    BY <1>5, <1>6
  <2>3. Last = 0 \/ 1 <= Last
    BY <1>5
  <2>4. UNCHANGED <<pos, line, copied, put>>
    BY DEF StatFile
  <2>5. Gathered'
    BY <1>2, <2>4 DEF Gathered
  <2>6. Chosen(0)' = {}
    BY DEF Chosen
  <2> QED BY <1>2, <1>3, <1>7, <2>1, <2>3, <2>4, <2>5, <2>6 DEF ForwardFits
<1>9. BackwardFits'
  <2> SUFFICES ASSUME slicing' = "backward" PROVE BackwardFits'
    BY DEF BackwardFits
  <2>1. 0 < offset' /\ found' = 0 /\ target' = 0 /\ offset' = size /\ stat' = size
    BY <1>1, <1>2 DEF StatFile
  <2>2. Ends(size, size) = {} /\ Ends(size, size - 1) = {}
    <3>1. \A e \in lineEnds : e \in Int
      BY SliceAssumption, <1>1 DEF Placed
    <3> QED BY <1>1, <3>1 DEF Ends
  <2>3. Cardinality({}) = 0
    BY FS_EmptySet
  <2>4. ~IsHistory => TailOf(size) /\ SmallFile < size
    BY <1>1, SliceAssumption DEF StatFile
  <2>5. ~IsHistory' => BigTail'
    BY <1>3, <2>1, <2>4 DEF StatFile, BigTail, ForTail, TailOf, IsHistory, ForRange, ForHead
  <2>6. pos' = 0 /\ copied' = {} /\ put' = {}
    BY <1>2 DEF StatFile
  <2> QED BY <1>3, <1>5, <2>1, <2>2, <2>3, <2>5, <2>6 DEF BackwardFits
<1>10. CopyFits'
  <2> SUFFICES ASSUME slicing' = "copy" PROVE CopyFits'
    BY DEF CopyFits
  <2>1. 0 < stat' /\ target' = 0 /\ stat' = size /\ request' = request
    BY <1>1, <1>2 DEF StatFile
  <2>2. ~ByLine' /\ (~IsHistory => ~(TailOf(size) /\ SmallFile < size))
    BY <1>1, <1>3, SliceAssumption DEF StatFile, ByLine
  <2>3. BigTail' => ~IsHistory /\ TailOf(size) /\ SmallFile < size
    BY <2>1 DEF BigTail, ForTail, TailOf, IsHistory, ForRange, ForHead
  <2>4. pos' = 0 /\ copied' = {} /\ put' = {} /\ size' = size
    BY <1>2 DEF StatFile
  <2>5. (~Small => From <= size /\ copied = target..(From - 1) /\ put = {})'
    BY <1>1, <2>1, <2>4, NothingCopied
  <2> QED BY <2>1, <2>2, <2>3, <2>5 DEF CopyFits
<1>11. slicing' = "done" => seen' = 0 /\ copied' = {} /\ put' = {} /\ stat' = 0
  <2>1. slicing' = "done" => size = 0
    BY DEF StatFile
  <2>2. seen = 0 \/ size # 0
    BY <1>1 DEF ScanTypeOK
  <2> QED BY <1>2, <2>1, <2>2 DEF StatFile
<1>12. Selects' /\ Remembers'
  <2> SUFFICES ASSUME slicing' = "done" PROVE Selects' /\ Remembers'
    BY DEF Selects, LinesAreExact, Remembers
  <2>1. \A n : LinesFrom(n, 0)' = {}
    BY DEF LinesFrom, Bytes
  <2>2. Exactly(0)' = {}
    BY <2>1 DEF Exactly, Bytes
  <2> QED BY <1>11, <2>1, <2>2 DEF Selects, LinesAreExact, Remembers
<1> QED BY <1>4, <1>8, <1>9, <1>10, <1>12 DEF SliceInv

LEMMA ReadWholeLineKeeps ==
  ASSUME SliceInv, ReadWholeLine PROVE SliceInv'
<1>1. PICK p \in lineEnds :
        /\ WholeLine(p)
        /\ copied' = IF Selected THEN copied \cup pos..p ELSE copied
        /\ pos' = p + 1
  BY DEF ReadWholeLine
<1>2. ScanTypeOK /\ Placed /\ pos \in Nat /\ line \in Nat \ {0} /\ size \in Nat
      /\ p \in Nat
  BY SliceAssumption DEF SliceInv, ScanTypeOK, Placed
<1>3. pos <= p /\ p < size /\ \A e \in lineEnds : e < pos \/ p <= e
  BY <1>1 DEF WholeLine, LineEndsAt
<1>4. slicing = "forward" /\ line' = line + 1 /\ seen' = size
      /\ slicing' = (IF Last > 0 /\ line >= Last THEN "done" ELSE "forward")
      /\ UNCHANGED <<lineEnds, size, request, stat, offset, found, target, put>>
  BY DEF ReadWholeLine, NextLine
<1>5. /\ copied' \in SUBSET (0..(size - 1))
      /\ Gathered'
      /\ line < First => copied' = {}
      /\ size = stat => line = LineOf(pos) /\ copied' = Chosen(p + 1)
  <2>1. \A e \in lineEnds : ~(pos <= e /\ e < (p + 1) - 1)
    <3>1. \A e \in lineEnds : e \in Int
      BY SliceAssumption, <1>2 DEF Placed
    <3> QED BY <1>2, <1>3, <3>1
  <2>2. (p + 1) - 1 = p /\ p + 1 \in Nat /\ pos < p + 1 /\ p + 1 <= size
    BY <1>2, <1>3
  <2>3. copied' = IF Selected THEN copied \cup pos..((p + 1) - 1) ELSE copied
    BY <1>1, <2>2
  <2> HIDE DEF Chosen
  <2> QED BY <1>1, <1>4, <2>1, <2>2, <2>3, ReadOn
<1>6. /\ (IsHistory' <=> IsHistory) /\ (ByLine' <=> ByLine)
      /\ First' = First /\ Last' = Last
      /\ \A b : LineOf(b)' = LineOf(b)
  BY <1>4, SameRequest
<1>7. ScanTypeOK' /\ Fresh' /\ BackwardFits' /\ CopyFits'
  <2>1. pos' \in 0..size /\ line' \in Nat \ {0} /\ slicing' \in {"forward", "done"}
    BY <1>1, <1>2, <1>3, <1>4
  <2> QED BY <1>2, <1>4, <1>5, <2>1
          DEF SliceInv, ScanTypeOK, Fresh, BackwardFits, CopyFits
<1>8. LineOf(p + 1) = LineOf(pos) + 1 /\ LineOf(pos) \in Nat
  <2>1. \A e \in lineEnds : ~(pos <= e /\ e < p)
    <3>1. \A e \in lineEnds : e \in Int
      BY SliceAssumption, <1>2 DEF Placed
    <3> QED BY <1>2, <1>3, <3>1
  <2>2. LineOf(p) = LineOf(pos)
    BY <1>2, <1>3, <2>1, SameLine
  <2>3. LineOf(p + 1) = LineOf(p) + 1
    BY <1>2, LineOfNext
  <2> QED BY <1>2, <2>2, <2>3, LineOfEnds
<1>9. /\ First \in Nat /\ Last \in Nat /\ ~IsHistory /\ ByLine
      /\ Last = 0 \/ First <= Last
      /\ Last = 0 \/ line <= Last
      /\ LineOf(pos) <= line
      /\ size = stat => put \subseteq {stat}
  BY <1>2, <1>4, RequestFits DEF SliceInv, ForwardFits
<1>10. Chosen(p + 1)' = Chosen(p + 1) /\ Chosen(stat)' = Chosen(stat)
  BY <1>4, <1>6 DEF Chosen
<1>11. ForwardFits'
  <2> SUFFICES ASSUME slicing' = "forward" PROVE ForwardFits'
    BY DEF ForwardFits
  <2>1. Last = 0 \/ line + 1 <= Last
    BY <1>2, <1>4, <1>9
  <2>2. LineOf(p + 1) <= line + 1
    BY <1>2, <1>8, <1>9
  <2>3. line + 1 < First => copied' = {}
    BY <1>2, <1>5, <1>9
  <2>4. size = stat => line + 1 = LineOf(p + 1)
    BY <1>5, <1>8
  <2> QED BY <1>1, <1>4, <1>5, <1>6, <1>9, <1>10, <2>1, <2>2, <2>3, <2>4 DEF ForwardFits
<1>12. Selects'
  <2> SUFFICES ASSUME slicing' = "done" PROVE Selects'
    BY DEF Selects, LinesAreExact
  <2>1. Last > 0 /\ line = Last
    BY <1>2, <1>4, <1>9
  <2>2. ASSUME size = stat PROVE copied' = Chosen(stat)
    <3>1. copied' = Chosen(p + 1) /\ LineOf(p + 1) = Last + 1
      BY <1>5, <1>8, <2>1, <2>2
    <3>2. \A b \in (p + 1)..(stat - 1) : Last < LineOf(b)
      <4> SUFFICES ASSUME NEW b \in (p + 1)..(stat - 1) PROVE Last < LineOf(b)
        OBVIOUS
      <4>1. b \in Nat /\ p + 1 \in Nat /\ p + 1 <= b
        BY <1>2, <2>2
      <4>2. LineOf(p + 1) <= LineOf(b) /\ LineOf(b) \in Nat
        BY <1>2, <4>1, LineOfBetween
      <4> QED BY <1>9, <3>1, <4>2
    <3>3. 0..(stat - 1) = 0..p \cup (p + 1)..(stat - 1) /\ (p + 1) - 1 = p
      BY <1>2, <1>3, <2>2
    <3>4. \A b \in (p + 1)..(stat - 1) : ~(Last = 0 \/ LineOf(b) <= Last)
      <4>1. \A b \in (p + 1)..(stat - 1) : LineOf(b) \in Nat
        <5>1. \A b \in (p + 1)..(stat - 1) : b \in Int
          OBVIOUS
        <5> QED BY <1>2, <5>1, LineOfEnds
      <4> QED BY <1>9, <2>1, <3>2, <4>1
    <3>5. Chosen(p + 1) = Chosen(stat)
      BY <3>3, <3>4 DEF Chosen
    <3> QED BY <3>1, <3>5
  <2> QED BY <1>4, <1>5, <1>6, <1>7, <1>9, <1>10, <2>2, DoneByLine
<1>13. Remembers'
  BY <1>6, <1>9 DEF Remembers
<1> QED BY <1>7, <1>11, <1>12, <1>13 DEF SliceInv

\* Where no whole line is read, no line end is in what is read.
LEMMA PartHasNoLineEnd ==
  ASSUME ScanTypeOK, \A p \in lineEnds : ~WholeLine(p)
  PROVE  \A e \in lineEnds : ~(pos <= e /\ e < pos + Rest)
<1> DEFINE T == {e \in lineEnds : pos <= e /\ e < pos + Rest}
<1>1. pos \in Nat /\ size \in Nat /\ pos <= size /\ Rest \in Nat /\ Rest <= Buffer
      /\ pos + Rest <= size /\ Buffer \in Nat /\ \A e \in lineEnds : e \in Nat
  BY SliceAssumption DEF ScanTypeOK, Rest
<1>2. T \in SUBSET Nat
  BY <1>1
<1>3. ASSUME T # {} PROVE FALSE
  <2> HIDE DEF T
  <2>1. PICK x \in T : \A y \in T : x <= y
    BY <1>2, <1>3, LeastNumber
  <2>2. x \in lineEnds /\ pos <= x /\ x < pos + Rest /\ x \in Nat
    BY <1>1, <2>1 DEF T
  <2>3. \A e \in lineEnds : e < pos \/ x <= e
    <3> SUFFICES ASSUME NEW e \in lineEnds, ~(e < pos) PROVE x <= e
      OBVIOUS
    <3>1. e \in Nat /\ pos <= e
      BY <1>1
    <3>2. CASE e < pos + Rest
      <4>1. e \in T
        BY <3>1, <3>2 DEF T
      <4> QED BY <2>1, <4>1
    <3>3. CASE ~(e < pos + Rest)
      BY <1>1, <2>2, <3>1, <3>3
    <3> QED BY <3>2, <3>3
  <2>4. x < size /\ x - pos < Buffer
    BY <1>1, <2>2
  <2>5. WholeLine(x)
    BY <2>2, <2>3, <2>4 DEF WholeLine, LineEndsAt
  <2> QED BY <2>2, <2>5
<1> QED BY <1>3

LEMMA ReadPartKeeps ==
  ASSUME SliceInv, ReadPart PROVE SliceInv'
<1> DEFINE q == pos + Rest
<1>1. ScanTypeOK /\ Placed /\ pos \in Nat /\ line \in Nat \ {0} /\ size \in Nat
  BY SliceAssumption DEF SliceInv, ScanTypeOK, Placed
<1>2. q \in Nat /\ pos < q /\ q <= size /\ (Rest # Buffer => q = size)
  BY <1>1, SliceAssumption DEF ReadPart, Rest, ScanTypeOK
<1>3. \A e \in lineEnds : ~(pos <= e /\ e < q)
  BY <1>1, PartHasNoLineEnd DEF ReadPart
<1>4. slicing = "forward" /\ seen' = size /\ pos' = q
      /\ UNCHANGED <<lineEnds, size, request, stat, offset, found, target>>
  BY DEF ReadPart
<1>5. copied' = IF Selected THEN copied \cup pos..(q - 1) ELSE copied
  <2>1. Selected => copied' = copied \cup pos..(pos + Rest - 1)
    BY DEF ReadPart
  <2>2. ~Selected => copied' = copied
    BY DEF ReadPart
  <2>3. q - 1 = pos + Rest - 1
    BY <1>1, SliceAssumption DEF Rest, ScanTypeOK
  <2> QED BY <2>1, <2>2, <2>3
<1>6. \/ Rest = Buffer /\ UNCHANGED <<line, slicing, put>>
      \/ /\ q = size /\ line' = line + 1
         /\ slicing' = (IF Last > 0 /\ line >= Last THEN "done" ELSE "forward")
         /\ put' \in {put, put \cup {size}}
  BY <1>2 DEF ReadPart, NextLine
<1> HIDE DEF q
<1>7. /\ copied' \in SUBSET (0..(size - 1))
      /\ Gathered'
      /\ line < First => copied' = {}
      /\ size = stat => line = LineOf(pos) /\ copied' = Chosen(q)
  <2>1. \A e \in lineEnds : ~(pos <= e /\ e < q - 1)
    <3>1. \A e \in lineEnds : e \in Int
      BY SliceAssumption, <1>1 DEF Placed
    <3> QED BY <1>1, <1>2, <1>3, <3>1
  <2> HIDE DEF Chosen
  <2> QED BY <1>2, <1>4, <1>5, <2>1, ReadOn
<1>8. /\ (IsHistory' <=> IsHistory) /\ (ByLine' <=> ByLine)
      /\ First' = First /\ Last' = Last
      /\ \A b : LineOf(b)' = LineOf(b)
  BY <1>4, SameRequest
<1>9. /\ First \in Nat /\ Last \in Nat /\ ~IsHistory /\ ByLine
      /\ Last = 0 \/ First <= Last
      /\ Last = 0 \/ line <= Last
      /\ LineOf(pos) <= line
      /\ size = stat => put \subseteq {stat}
  BY <1>1, <1>4, RequestFits DEF SliceInv, ForwardFits
<1>10. line' \in {line, line + 1} /\ slicing' \in {"forward", "done"}
      /\ put' \subseteq put \cup {size}
  BY <1>4, <1>6
<1>11. ScanTypeOK' /\ Fresh' /\ BackwardFits' /\ CopyFits'
  <2>1. pos' \in 0..size /\ line' \in Nat \ {0}
    BY <1>1, <1>2, <1>4, <1>10
  <2>2. put' \in SUBSET (0..size)
    BY <1>1, <1>10 DEF ScanTypeOK
  <2> QED BY <1>1, <1>4, <1>7, <1>10, <2>1, <2>2
          DEF ScanTypeOK, Fresh, BackwardFits, CopyFits
<1>12. LineOf(q) = LineOf(pos) /\ LineOf(pos) \in Nat
  BY <1>1, <1>2, <1>3, SameLine, LineOfEnds
<1>13. Chosen(stat)' = Chosen(stat)
  BY <1>4, <1>8 DEF Chosen
<1>14. ForwardFits'
  <2> SUFFICES ASSUME slicing' = "forward" PROVE ForwardFits'
    BY DEF ForwardFits
  <2>1. Last = 0 \/ line' <= Last
    BY <1>1, <1>4, <1>6, <1>9
  <2>2. LineOf(q) <= line'
    BY <1>1, <1>9, <1>10, <1>12
  <2>3. line' < First => copied' = {}
    BY <1>1, <1>7, <1>9, <1>10
  <2>4. size = stat => put' \subseteq {stat} /\ (line' = LineOf(q) \/ q = size)
    BY <1>6, <1>7, <1>9, <1>10, <1>12
  <2>5. Chosen(pos)' = Chosen(q)
    BY <1>4, <1>8 DEF Chosen
  <2> QED BY <1>4, <1>7, <1>8, <1>9, <2>1, <2>2, <2>3, <2>4, <2>5 DEF ForwardFits
<1>15. Selects'
  <2> SUFFICES ASSUME slicing' = "done" PROVE Selects'
    BY DEF Selects, LinesAreExact
  <2>1. q = size
    BY <1>4, <1>6
  <2>2. size = stat => copied' = Chosen(stat)' /\ put' \subseteq {stat}
    BY <1>7, <1>9, <1>10, <1>13, <2>1
  <2> QED BY <1>4, <1>7, <1>8, <1>9, <1>11, <2>2, DoneByLine
<1>16. Remembers'
  BY <1>8, <1>9 DEF Remembers
<1> QED BY <1>11, <1>14, <1>15, <1>16 DEF SliceInv

LEMMA ReadEndKeeps ==
  ASSUME SliceInv, ReadEnd PROVE SliceInv'
<1>1. ScanTypeOK /\ size \in Nat /\ pos \in Nat
  BY SliceAssumption DEF SliceInv, ScanTypeOK
<1>2. slicing = "forward" /\ slicing' = "done" /\ seen' = size /\ pos = size
      /\ UNCHANGED <<lineEnds, size, request, stat, pos, line, offset, found, target,
                     copied, put>>
  BY <1>1, SliceAssumption DEF ReadEnd, Rest, ScanTypeOK
<1>3. ScanTypeOK' /\ Fresh' /\ ForwardFits' /\ BackwardFits' /\ CopyFits'
  BY <1>1, <1>2 DEF ScanTypeOK, Fresh, ForwardFits, BackwardFits, CopyFits
<1>4. ~IsHistory /\ ByLine /\ Gathered
      /\ (size = stat => copied = Chosen(stat) /\ put \subseteq {stat})
  BY <1>2 DEF SliceInv, ForwardFits
<1>5. /\ (IsHistory' <=> IsHistory) /\ (ByLine' <=> ByLine)
      /\ First' = First /\ Last' = Last
      /\ \A b : LineOf(b)' = LineOf(b)
  BY <1>2, SameRequest
<1>6. Chosen(stat)' = Chosen(stat)
  BY <1>2, <1>5 DEF Chosen
<1>7. Gathered'
  BY <1>2, <1>4, <1>5 DEF Gathered
<1>8. Selects'
  BY <1>2, <1>3, <1>4, <1>5, <1>6, <1>7, DoneByLine
<1>9. Remembers'
  BY <1>4, <1>5 DEF Remembers
<1> QED BY <1>3, <1>8, <1>9 DEF SliceInv

-----------------------------------------------------------------------------
(* The backward scans *)

LEMMA SameTail ==
  ASSUME UNCHANGED <<request, stat>>
  PROVE  (ForTail' <=> ForTail) /\ (BigTail' <=> BigTail)
BY DEF ForTail, TailOf, BigTail, IsHistory, ForRange, ForHead

LEMMA LineCountType ==
  ASSUME Placed, NEW s \in Nat PROVE LineCount(s) \in Nat
<1>1. CASE s = 0
  <2>1. {e \in lineEnds : e < 0} \in SUBSET lineEnds
    OBVIOUS
  <2>2. Cardinality({e \in lineEnds : e < 0}) \in Nat
    BY <2>1, EndsFinite
  <2> QED BY <1>1, <2>2 DEF LineCount
<1>2. CASE s # 0
  BY <1>2, LineCountIsLast, LineOfEnds
<1> QED BY <1>1, <1>2

\* The last lines are those from a line on, and go to the end of the file.
LEMMA LastLinesAreLines ==
  ASSUME Placed, NEW s \in Nat, NEW n \in Nat
  PROVE  /\ LastLines(n, s) = LinesFrom(LineCount(s) - n + 1, s)
         /\ \A b \in LastLines(n, s) : b..(s - 1) \subseteq LastLines(n, s)
<1>1. LineCount(s) \in Nat
  BY LineCountType
<1>2. \A b \in 0..(s - 1) : LineOf(b) \in Nat
  BY LineOfEnds
<1>3. \A b \in 0..(s - 1) :
        LineOf(b) > LineCount(s) - n <=> LineCount(s) - n + 1 <= LineOf(b)
  BY <1>1, <1>2
<1>4. LastLines(n, s) = LinesFrom(LineCount(s) - n + 1, s)
  BY <1>3 DEF LastLines, LinesFrom, Bytes
<1>5. ASSUME NEW b \in LastLines(n, s), NEW c \in b..(s - 1)
      PROVE  c \in LastLines(n, s)
  <2>1. b \in Nat /\ c \in Nat /\ b <= c /\ c \in 0..(s - 1)
        /\ LineOf(b) > LineCount(s) - n
    BY <1>5 DEF LastLines
  <2>2. LineOf(b) <= LineOf(c) /\ LineOf(b) \in Nat /\ LineOf(c) \in Nat
    BY <2>1, LineOfBetween
  <2>3. LineOf(c) > LineCount(s) - n
    BY <1>1, <2>1, <2>2
  <2> QED BY <2>1, <2>3 DEF LastLines
<1> QED BY <1>4, <1>5

LEMMA ScanChunkKeeps ==
  ASSUME SliceInv, ScanChunk PROVE SliceInv'
<1>1. /\ ScanTypeOK /\ Placed /\ size \in Nat /\ stat \in Nat /\ offset \in Nat
      /\ found \in Nat /\ target \in Nat /\ offset <= stat /\ Wanted \in Nat \ {0}
  BY SliceAssumption, RequestFits DEF SliceInv, ScanTypeOK, Placed
<1>2. /\ slicing = "backward" /\ ~IsHistory /\ 0 < offset /\ BigTail /\ target = 0
      /\ found < Wanted /\ found = Cardinality(Ends(offset, stat - 1))
      /\ pos = 0 /\ copied = {} /\ put = {}
  BY DEF ScanChunk, SliceInv, BackwardFits
<1>3. Low \in Nat /\ Low < offset
  BY <1>1, <1>2, SliceAssumption DEF Low
<1>4. UNCHANGED <<lineEnds, size, request, stat, seen, pos, line, copied, put>>
      /\ offset' = Low
  BY DEF ScanChunk
<1>5. /\ (IsHistory' <=> IsHistory) /\ (ByLine' <=> ByLine) /\ (BigTail' <=> BigTail)
      /\ (ForTail' <=> ForTail)
      /\ Wanted' = Wanted
      /\ \A b : LineOf(b)' = LineOf(b) /\ LineCount(b)' = LineCount(b)
      /\ \A a, b : Ends(a, b)' = Ends(a, b)
  BY <1>4, SameRequest, SameTail
<1>6. ForTail /\ ~ByLine
  BY <1>2 DEF BigTail, ForTail, TailOf, ByLine
<1>7. \A e \in lineEnds : e \in Nat
  BY SliceAssumption, <1>1 DEF Placed
\* Counted from any byte of the chunk on, these are all there are to the end.
<1>8. ASSUME NEW a \in Nat, Low <= a, a <= stat - 1, a < offset
      PROVE  Cardinality(Ends(a, stat - 1)) = found + Cardinality({f \in Counted : f >= a})
  <2>1. CASE offset = stat
    <3>1. \A e \in lineEnds : (Low <= e /\ e < offset /\ e # stat - 1) /\ e >= a
                               <=> a <= e /\ e < stat - 1
      BY <1>1, <1>3, <1>7, <1>8, <2>1
    <3>2. {f \in Counted : f >= a} = Ends(a, stat - 1)
      BY <3>1 DEF Counted, Ends
    <3>3. \A e \in lineEnds : ~(stat <= e /\ e < stat - 1)
      BY <1>1, <1>7
    <3>4. Ends(stat, stat - 1) = {}
      BY <3>3 DEF Ends
    <3>5. found = 0
      BY <1>2, <2>1, <3>4, FS_EmptySet
    <3>6. Ends(a, stat - 1) \in SUBSET lineEnds
      BY DEF Ends
    <3>7. Cardinality(Ends(a, stat - 1)) \in Nat
      BY <1>1, <3>6, EndsFinite
    <3>8. Cardinality({f \in Counted : f >= a}) = Cardinality(Ends(a, stat - 1))
      BY <3>2
    <3> QED BY <3>5, <3>7, <3>8
  <2>2. CASE offset < stat
    <3>1. \A e \in lineEnds : (Low <= e /\ e < offset /\ e # stat - 1) /\ e >= a
                               <=> a <= e /\ e < offset
      BY <1>1, <1>3, <1>7, <1>8, <2>2
    <3>2. {f \in Counted : f >= a} = Ends(a, offset)
      BY <3>1 DEF Counted, Ends
    <3>3. stat - 1 \in Int /\ a <= offset /\ offset <= stat - 1
      BY <1>1, <1>8, <2>2
    <3>4. /\ Cardinality(Ends(a, stat - 1))
               = Cardinality(Ends(a, offset)) + Cardinality(Ends(offset, stat - 1))
          /\ Cardinality(Ends(a, offset)) \in Nat
      BY <1>1, <3>3, EndsAdd
    <3>5. Cardinality({f \in Counted : f >= a}) = Cardinality(Ends(a, offset))
      BY <3>2
    <3> QED BY <1>1, <1>2, <3>4, <3>5
  <2> QED BY <1>1, <2>1, <2>2
<1>9. Counted \in SUBSET lineEnds /\ Cardinality(Counted) \in Nat
  <2>1. Counted \in SUBSET lineEnds
    BY DEF Counted
  <2> QED BY <1>1, <2>1, EndsFinite
<1>10. Cardinality(Ends(Low, stat - 1)) = found + Cardinality(Counted)
  <2>1. {f \in Counted : f >= Low} = Counted
    <3>1. \A f \in Counted : f >= Low
      BY <1>3, <1>7 DEF Counted
    <3> QED BY <3>1
  <2>2. Low <= Low /\ Low <= stat - 1
    BY <1>1, <1>3
  <2> QED BY <1>3, <1>8, <2>1, <2>2
<1>11. stat \in Nat \ {0} /\ stat - 1 \in Nat
  BY <1>1, <1>2
<1>12. LineCount(stat) = LineOf(stat - 1)
  BY <1>1, <1>11, LineCountIsLast
<1>13. CASE found + Cardinality(Counted) >= Wanted
  <2>1. PICK e \in Counted :
          /\ found + Cardinality({f \in Counted : f >= e}) = Wanted
          /\ target' = e + 1
    BY <1>13 DEF ScanChunk
  <2>2. slicing' = "copy" /\ found' = Wanted
    BY <1>13 DEF ScanChunk
  <2>3. e \in lineEnds /\ e \in Nat /\ Low <= e /\ e < offset /\ e <= stat - 1
    BY <1>1, <1>7, <2>1 DEF Counted
  <2>4. Cardinality(Ends(e, stat - 1)) = Wanted
    BY <1>8, <2>1, <2>3
  <2>5. LineOf(stat - 1) = LineOf(e) + Wanted /\ LineOf(e) \in Nat
    BY <1>1, <1>11, <2>3, <2>4, LineOfBetween
  <2>6. LineOf(e + 1) = LineOf(e) + 1
    BY <1>1, <2>3, LineOfNext
  <2>7. LineCount(stat) - Wanted + 1 = LineOf(e + 1)
    BY <1>1, <1>12, <2>5, <2>6
  <2>8. ASSUME NEW b \in Nat PROVE e + 1 <= b <=> LineOf(e + 1) <= LineOf(b)
    <3>1. CASE e + 1 <= b
      <4>1. e + 1 \in Nat
        BY <2>3
      <4> QED BY <1>1, <3>1, <4>1, LineOfBetween
    <3>2. CASE b <= e
      <4>1. LineOf(b) <= LineOf(e) /\ LineOf(b) \in Nat
        BY <1>1, <2>3, <3>2, LineOfBetween
      <4> QED BY <2>3, <2>5, <2>6, <3>2, <4>1
    <3> QED BY <2>3, <3>1, <3>2
  <2>9. CopyFits'
    <3>1. \A b \in Nat : target' <= b <=> LineCount(stat) - Wanted + 1 <= LineOf(b)
      BY <2>1, <2>7, <2>8
    <3>2. 0 < stat
      BY <1>11
    <3>3. (~Small => From <= size /\ copied = target..(From - 1) /\ put = {})'
      <4>1. target' \in Nat /\ target' <= size /\ stat <= size
        BY <1>1, <2>1, <2>3 DEF ScanTypeOK
      <4> QED BY <1>1, <1>2, <1>4, <4>1, NothingCopied
    <3> QED BY <1>4, <1>5, <1>6, <3>1, <3>2, <3>3 DEF CopyFits
  <2>10. ScanTypeOK'
    <3>1. target' \in Nat /\ found' \in Nat /\ offset' \in 0..stat
      BY <1>1, <1>3, <1>4, <2>1, <2>2, <2>3
    <3> QED BY <1>1, <1>4, <2>2, <3>1 DEF ScanTypeOK
  <2> QED BY <2>2, <2>9, <2>10
          DEF SliceInv, Fresh, ForwardFits, BackwardFits, Selects, Remembers
<1>14. CASE ~(found + Cardinality(Counted) >= Wanted)
  <2>1. /\ found' = found + Cardinality(Counted) /\ target' = target
        /\ slicing' = IF Low = 0 THEN "copy" ELSE "backward"
    BY <1>14 DEF ScanChunk
  <2>2. found' = Cardinality(Ends(Low, stat - 1)) /\ found' < Wanted /\ found' \in Nat
    BY <1>1, <1>9, <1>10, <1>14, <2>1
  <2>3. BackwardFits'
    <3>1. slicing' = "backward" => 0 < Low
      BY <1>3, <2>1
    <3> QED BY <1>2, <1>4, <1>5, <2>1, <2>2, <3>1 DEF BackwardFits
  <2>4. CopyFits'
    <3> SUFFICES ASSUME Low = 0 PROVE CopyFits'
      BY <2>1 DEF CopyFits
    <3>1. LineOf(stat - 1) = 1 + found'
      BY <1>1, <1>11, <2>2, LineOfEnds
    <3>2. LineCount(stat) - Wanted + 1 <= 1
      BY <1>1, <1>12, <2>2, <3>1
    <3>3. \A b \in Nat : LineOf(b) \in Nat \ {0}
      BY <1>1, LineOfEnds
    <3>4. LineCount(stat) - Wanted + 1 \in Int
      BY <1>1, <1>12, <2>2, <3>1
    <3>5. \A b \in Nat : target' <= b <=> LineCount(stat) - Wanted + 1 <= LineOf(b)
      BY <1>2, <2>1, <3>2, <3>3, <3>4
    <3>6. 0 < stat
      BY <1>11
    <3>7. (~Small => From <= size /\ copied = target..(From - 1) /\ put = {})'
      BY <1>1, <1>2, <1>4, <2>1, NothingCopied
    <3> QED BY <1>4, <1>5, <1>6, <3>5, <3>6, <3>7 DEF CopyFits
  <2>5. ScanTypeOK'
    <3>1. offset' \in 0..stat /\ slicing' \in {"copy", "backward"}
      BY <1>1, <1>3, <1>4, <2>1
    <3> QED BY <1>1, <1>4, <2>1, <2>2, <3>1 DEF ScanTypeOK
  <2>6. slicing' \in {"copy", "backward"}
    BY <2>1
  <2> QED BY <2>3, <2>4, <2>5, <2>6
          DEF SliceInv, Fresh, ForwardFits, Selects, LinesAreExact, Remembers
<1> QED BY <1>13, <1>14

LEMMA CollectKeeps ==
  ASSUME SliceInv, Collect PROVE SliceInv'
<1>1. /\ ScanTypeOK /\ Placed /\ size \in Nat /\ stat \in Nat /\ offset \in Nat
      /\ found \in Nat /\ offset <= stat /\ stat <= size /\ Wanted \in Nat \ {0}
  BY SliceAssumption, RequestFits DEF SliceInv, ScanTypeOK, Placed
<1>2. /\ slicing = "backward" /\ IsHistory /\ 0 < offset
      /\ found = Cardinality(Ends(offset, stat))
  BY DEF Collect, SliceInv, BackwardFits
<1>3. Low \in Nat /\ Low < offset
  BY <1>1, <1>2, SliceAssumption DEF Low
<1>4. UNCHANGED <<lineEnds, size, request, stat, pos, line, target, put>>
      /\ offset' = Low /\ seen' = stat
  BY DEF Collect
<1>5. /\ (IsHistory' <=> IsHistory) /\ Wanted' = Wanted
      /\ \A b : LineOf(b)' = LineOf(b) /\ LineCount(b)' = LineCount(b)
      /\ \A a, b : Ends(a, b)' = Ends(a, b)
  BY <1>4, SameRequest
<1>6. found' = Cardinality(Ends(Low, stat)) /\ found' \in Nat
  <2>1. {e \in lineEnds : Low <= e /\ e < offset} = Ends(Low, offset)
    BY DEF Ends
  <2>2. found' = found + Cardinality(Ends(Low, offset))
    BY <2>1 DEF Collect
  <2>3. /\ Cardinality(Ends(Low, stat))
               = Cardinality(Ends(Low, offset)) + Cardinality(Ends(offset, stat))
        /\ Cardinality(Ends(Low, offset)) \in Nat
    BY <1>1, <1>3, EndsAdd
  <2> QED BY <1>1, <1>2, <2>2, <2>3
<1> DEFINE Asked == LastLines(Wanted, stat)
           Enoughs == Low = 0 \/ Enough(found', stat - Low)
<1>7. CASE ~Enoughs
  <2>1. UNCHANGED <<slicing, copied>> /\ Low # 0
    BY <1>7 DEF Collect
  <2>2. ScanTypeOK'
    BY <1>1, <1>3, <1>4, <1>6, <2>1 DEF ScanTypeOK
  <2>3. BackwardFits'
    BY <1>2, <1>3, <1>4, <1>5, <1>6, <2>1 DEF BackwardFits
  <2> QED BY <1>2, <2>1, <2>2, <2>3
          DEF SliceInv, Fresh, ForwardFits, CopyFits, Selects, Remembers
<1>8. CASE Enoughs
  <2>1. slicing' = "done" /\ copied' = Asked \cap Low..(stat - 1)
    BY <1>8 DEF Collect
  <2>2. /\ Asked = LinesFrom(LineCount(stat) - Wanted + 1, stat)
        /\ \A b \in Asked : b..(stat - 1) \subseteq Asked
    BY <1>1, LastLinesAreLines
  <2>3. Asked \subseteq 0..(stat - 1)
    BY DEF LastLines
  <2> HIDE DEF Asked
  <2>4. ScanTypeOK'
    <3>1. copied' \in SUBSET (0..(size - 1)) /\ seen' \in 0..size /\ offset' \in 0..stat
      BY <1>1, <1>3, <1>4, <2>1, <2>3
    <3> QED BY <1>1, <1>4, <1>6, <2>1, <3>1 DEF ScanTypeOK
  <2>5. LinesFrom(LineCount(seen) - Wanted + 1, seen)' = Asked
    BY <1>4, <1>5, <2>2 DEF LinesFrom, Bytes
  <2>6. ASSUME \A b \in Asked : Low <= b PROVE Remembers'
    <3>1. copied' = Asked
      <4>1. \A b \in Asked : b \in Low..(stat - 1)
        BY <1>1, <1>3, <2>3, <2>6
      <4> QED BY <2>1, <4>1
    <3> QED BY <2>5, <3>1 DEF Remembers
  <2>7. ASSUME \E b \in Asked : b < Low PROVE Remembers'
    <3>1. PICK b \in Asked : b < Low
      BY <2>7
    <3>2. b \in Nat /\ b <= stat - 1
      BY <1>1, <2>3, <3>1
    <3>3. Low # 0
      BY <3>1, <3>2
    <3>4. ~(found' >= Wanted + 1)
      <4>1. LineOf(b) > LineCount(stat) - Wanted
        BY <3>1 DEF Asked, LastLines
      <4>2. LineOf(b) <= LineOf(Low) /\ LineOf(b) \in Nat
        BY <1>1, <1>3, <3>1, <3>2, LineOfBetween
      <4>3. LineOf(stat) = LineOf(Low) + found' /\ LineOf(stat) \in Nat
            /\ LineOf(Low) \in Nat
        BY <1>1, <1>3, <1>6, LineOfBetween
      <4>4. LineOf(stat) <= LineCount(stat) + 1 /\ LineCount(stat) \in Nat
        <5>1. {e \in lineEnds : e < stat} \in SUBSET lineEnds
          OBVIOUS
        <5>2. Cardinality({e \in lineEnds : e < stat}) \in Nat
          BY <1>1, <5>1, EndsFinite
        <5> QED BY <5>2 DEF LineOf, LineCount
      <4> QED BY <1>1, <1>6, <4>1, <4>2, <4>3, <4>4
    <3>5. stat - Low >= Limit
      BY <1>8, <3>3, <3>4 DEF Enough
    <3>6. copied' = Low..(stat - 1)
      <4>1. Low..(stat - 1) \subseteq b..(stat - 1)
        BY <1>1, <1>3, <3>1, <3>2
      <4>2. b..(stat - 1) \subseteq Asked
        BY <2>2, <3>1
      <4> QED BY <2>1, <4>1, <4>2
    <3>7. Low \in 0..(stat - 1)
      BY <1>1, <1>3
    <3> QED BY <1>4, <3>5, <3>6, <3>7 DEF Remembers, Bytes
  <2>8. Remembers'
    <3>1. \A b \in Asked : b \in Int
      BY <2>3
    <3>2. (\A b \in Asked : Low <= b) \/ (\E b \in Asked : b < Low)
      BY <1>3, <3>1
    <3> QED BY <2>6, <2>7, <3>2
  <2>9. Selects'
    BY <1>2, <1>5 DEF Selects, LinesAreExact
  <2> QED BY <2>1, <2>4, <2>8, <2>9 DEF SliceInv, Fresh, ForwardFits, BackwardFits, CopyFits
<1> QED BY <1>7, <1>8

LEMMA CopyDone ==
  ASSUME SliceInv, slicing = "copy", slicing' = "done", seen' = size,
         UNCHANGED <<lineEnds, size, request, stat, pos, line, offset, found, target>>,
         copied' = IF Small THEN LastLines(Wanted, size) ELSE target..(size - 1),
         put' = IF Small /\ ~IsHistory /\ size - 1 \notin lineEnds THEN {size} ELSE {}
  PROVE  SliceInv'
<1> DEFINE small == IsHistory \/ (ForTail /\ stat <= SmallFile)
<1>1. /\ ScanTypeOK /\ Placed /\ size \in Nat /\ stat \in Nat /\ stat <= size
      /\ target \in Nat /\ Wanted \in Nat \ {0} /\ SmallFile \in Nat
  BY SliceAssumption, RequestFits DEF SliceInv, ScanTypeOK, Placed
<1>2. slicing = "copy" /\ slicing' = "done" /\ seen' = size
      /\ UNCHANGED <<lineEnds, size, request, stat, pos, line, offset, found, target>>
  OBVIOUS
<1>3. /\ copied' = (IF small THEN LastLines(Wanted, size) ELSE target..(size - 1))
      /\ put' = (IF small /\ ~IsHistory /\ size - 1 \notin lineEnds THEN {size} ELSE {})
  BY DEF Small
<1>4. /\ (IsHistory' <=> IsHistory) /\ (ByLine' <=> ByLine) /\ Wanted' = Wanted
      /\ (ForTail' <=> ForTail)
      /\ \A b : LineOf(b)' = LineOf(b) /\ LineCount(b)' = LineCount(b)
  BY <1>2, SameRequest, SameTail
<1>5. \A l, s : LinesFrom(l, s)' = LinesFrom(l, s)
  BY <1>4 DEF LinesFrom, Bytes
<1>6. /\ LastLines(Wanted, size) = LinesFrom(LineCount(size) - Wanted + 1, size)
      /\ \A b \in LastLines(Wanted, size) : b..(size - 1) \subseteq LastLines(Wanted, size)
  BY <1>1, LastLinesAreLines
<1>7. \/ small /\ copied' = LastLines(Wanted, size)
      \/ ~small /\ copied' = target..(size - 1)
  BY <1>3
<1>8. /\ 0 < stat
      /\ ~IsHistory => ~ByLine /\ (~ForTail => target = 0)
      /\ ~IsHistory /\ BigTail =>
           \A b \in Nat : target <= b <=> LineCount(stat) - Wanted + 1 <= LineOf(b)
  BY <1>2 DEF SliceInv, CopyFits
<1>9. copied' \in SUBSET (0..(size - 1)) /\ put' \in SUBSET {size}
  <2>1. LastLines(Wanted, size) \in SUBSET (0..(size - 1))
    BY DEF LastLines
  <2>2. target..(size - 1) \in SUBSET (0..(size - 1))
    BY <1>1
  <2> QED BY <1>3, <1>7, <2>1, <2>2
<1>10. ScanTypeOK'
  <2>1. size \in 0..size
    BY <1>1
  <2> QED BY <1>1, <1>2, <1>9, <2>1 DEF ScanTypeOK
<1>11. \A b, c \in copied' : b..c \subseteq copied'
  <2> SUFFICES ASSUME NEW b \in copied', NEW c \in copied' PROVE b..c \subseteq copied'
    OBVIOUS
  <2>1. b..(size - 1) \subseteq copied'
    <3>1. CASE small
      BY <1>6, <1>7, <3>1
    <3>2. CASE ~small
      BY <1>1, <1>7, <3>2
    <3> QED BY <3>1, <3>2
  <2>2. b \in Int /\ c \in Int /\ c <= size - 1
    BY <1>1, <1>9
  <2>3. b..c \subseteq b..(size - 1)
    BY <1>1, <2>2
  <2> QED BY <2>1, <2>3
<1>12. ASSUME ~IsHistory, ForTail
       PROVE  copied' = LinesFrom(LineCount(IF stat <= SmallFile THEN size ELSE stat)
                                    - Wanted + 1, size)
  <2>1. CASE stat <= SmallFile
    BY <1>6, <1>7, <1>12, <2>1
  <2>2. CASE ~(stat <= SmallFile)
    <3>1. BigTail
      BY <1>1, <1>12, <2>2 DEF BigTail
    <3>2. copied' = target..(size - 1)
      BY <1>7, <1>12, <2>2
    <3>3. \A b \in 0..(size - 1) : target <= b <=> LineCount(stat) - Wanted + 1 <= LineOf(b)
      BY <1>8, <1>12, <3>1
    <3>4. target..(size - 1) = LinesFrom(LineCount(stat) - Wanted + 1, size)
      <4>1. \A b \in Int : b \in target..(size - 1) <=> b \in 0..(size - 1) /\ target <= b
        BY <1>1
      <4>2. target..(size - 1) = {b \in 0..(size - 1) : target <= b}
        BY <1>1, <4>1
      <4> QED BY <3>3, <4>2 DEF LinesFrom, Bytes
    <3> QED BY <2>2, <3>2, <3>4
  <2> QED BY <2>1, <2>2
<1>13. Selects'
  <2> SUFFICES ASSUME ~IsHistory PROVE Selects'
    BY <1>4 DEF Selects, LinesAreExact
  <2>1. ~ByLine
    BY <1>8
  <2>2. CASE ForTail
    <3>1. copied' = LinesFrom(LineCount(IF stat <= SmallFile THEN size ELSE stat)
                                - Wanted + 1, size)
      BY <1>12, <2>2
    <3>2. size = stat => copied' = Exactly(stat)'
      <4>1. Exactly(stat)' = LinesFrom(LineCount(stat) - Wanted + 1, stat)
        BY <1>2, <1>4, <1>5, <2>1, <2>2 DEF Exactly, ByLine
      <4>2. size = stat => LineCount(IF stat <= SmallFile THEN size ELSE stat) = LineCount(stat)
        OBVIOUS
      <4> QED BY <3>1, <4>1, <4>2
    <3>3. LinesFrom(LineCount(IF stat <= SmallFile THEN seen ELSE stat) - Wanted + 1, seen)'
            = LinesFrom(LineCount(IF stat <= SmallFile THEN size ELSE stat) - Wanted + 1, size)
      BY <1>2, <1>4, <1>5
    <3> QED BY <1>2, <1>4, <1>9, <1>11, <2>1, <3>1, <3>2, <3>3 DEF Selects, LinesAreExact, ByLine
  <2>3. CASE ~ForTail
    <3>1. copied' = 0..(size - 1)
      BY <1>7, <1>8, <2>3
    <3>2. Exactly(stat)' = 0..(stat - 1)
      BY <1>2, <1>4, <2>1, <2>3 DEF Exactly, ByLine, Bytes
    <3> QED BY <1>2, <1>4, <1>9, <1>11, <2>1, <2>3, <3>1, <3>2 DEF Selects, LinesAreExact, ByLine
  <2> QED BY <2>2, <2>3
<1>14. Remembers'
  <2> SUFFICES ASSUME IsHistory PROVE Remembers'
    BY <1>4 DEF Remembers
  <2>1. copied' = LinesFrom(LineCount(size) - Wanted + 1, size)
    BY <1>6, <1>7
  <2>2. LinesFrom(LineCount(seen) - Wanted + 1, seen)'
          = LinesFrom(LineCount(size) - Wanted + 1, size)
    BY <1>2, <1>4, <1>5
  <2> QED BY <2>1, <2>2 DEF Remembers
<1> QED BY <1>2, <1>10, <1>13, <1>14 DEF SliceInv, Fresh, ForwardFits, BackwardFits, CopyFits

LEMMA CopySmallKeeps == ASSUME SliceInv, CopySmall PROVE SliceInv'
BY CopyDone DEF CopySmall

LEMMA CopyEndKeeps == ASSUME SliceInv, CopyEnd PROVE SliceInv'
<1>1. size \in Nat /\ From \in Nat
  BY SliceAssumption DEF SliceInv, ScanTypeOK, From
<1>2. From = size /\ copied = target..(From - 1) /\ put = {}
  BY <1>1 DEF CopyEnd, SliceInv, CopyFits
<1> QED BY <1>2, CopyDone DEF CopyEnd

LEMMA CopyPieceKeeps == ASSUME SliceInv, CopyPiece PROVE SliceInv'
<1>1. /\ ScanTypeOK /\ Placed /\ size \in Nat /\ stat \in Nat /\ target \in Nat
      /\ pos \in Nat /\ Buffer \in Nat \ {0}
  BY SliceAssumption DEF SliceInv, ScanTypeOK, Placed
<1>2. /\ slicing = "copy" /\ ~Small /\ From < size /\ pos' = To - target
      /\ copied' = copied \cup From..(To - 1)
      /\ UNCHANGED <<lineEnds, size, request, slicing, stat, seen, line, offset, found,
                     target, put>>
  BY DEF CopyPiece
<1>3. From \in Nat /\ target <= From /\ To \in Nat /\ From < To /\ To <= size
  BY <1>1, <1>2 DEF From, To
<1>4. (IsHistory' <=> IsHistory) /\ (ByLine' <=> ByLine) /\ (BigTail' <=> BigTail)
      /\ (ForTail' <=> ForTail) /\ Wanted' = Wanted
      /\ \A b : LineOf(b)' = LineOf(b) /\ LineCount(b)' = LineCount(b)
  BY <1>2, SameRequest, SameTail
<1>5. Small' <=> Small
  BY <1>2, <1>4 DEF Small
<1>6. From' = To
  BY <1>1, <1>2, <1>3 DEF From
<1>7. copied = target..(From - 1) /\ put = {}
  BY <1>2 DEF SliceInv, CopyFits
<1>8. copied' = target..(To - 1)
  BY <1>1, <1>2, <1>3, <1>7
<1>9. CopyFits'
  BY <1>2, <1>3, <1>4, <1>5, <1>6, <1>7, <1>8 DEF SliceInv, CopyFits
<1>10. ScanTypeOK'
  <2>1. target..(To - 1) \in SUBSET (0..(size - 1)) /\ pos' \in 0..size
    BY <1>1, <1>2, <1>3
  <2> QED BY <1>1, <1>2, <1>8, <2>1 DEF ScanTypeOK
<1> QED BY <1>2, <1>9, <1>10
        DEF SliceInv, Fresh, ForwardFits, BackwardFits, Selects, Remembers

LEMMA FileGrowsKeeps ==
  ASSUME SliceInv, FileGrows PROVE SliceInv'
<1>1. ScanTypeOK /\ size \in Nat /\ stat \in Nat /\ stat <= size /\ MaxSize \in Nat
      /\ size < MaxSize
  BY SliceAssumption DEF SliceInv, ScanTypeOK, FileGrows
<1>2. size' = size + 1 /\ slicing # "done"
      /\ UNCHANGED <<lineEnds, request, slicing, stat, seen, pos, line, offset, found,
                     target, copied, put>>
  BY DEF FileGrows
<1>3. /\ (IsHistory' <=> IsHistory) /\ (ByLine' <=> ByLine) /\ (BigTail' <=> BigTail)
      /\ (ForTail' <=> ForTail)
      /\ First' = First /\ Last' = Last /\ Wanted' = Wanted
      /\ \A b : LineOf(b)' = LineOf(b) /\ LineCount(b)' = LineCount(b)
      /\ \A a, b : Ends(a, b)' = Ends(a, b)
  BY <1>2, SameRequest, SameTail
<1>4. ScanTypeOK'
  <2>1. /\ size' \in 0..MaxSize /\ 0..size \subseteq 0..size'
        /\ 0..(size - 1) \subseteq 0..(size' - 1)
    BY <1>1, <1>2
  <2> QED BY <1>1, <1>2, <2>1 DEF ScanTypeOK
<1>5. size' # stat'
  BY <1>1, <1>2
<1>6. ForwardFits'
  <2>1. Gathered' <=> Gathered
    BY <1>2, <1>3 DEF Gathered
  <2> QED BY <1>2, <1>3, <1>5, <2>1 DEF SliceInv, ForwardFits
<1>7. (Small' <=> Small) /\ From' = From /\ From \in Nat
  BY <1>1, <1>2, <1>3 DEF Small, From, ScanTypeOK
<1>8. CopyFits'
  <2>1. From <= size => From <= size'
    BY <1>1, <1>2, <1>7
  <2> QED BY <1>2, <1>3, <1>7, <2>1 DEF SliceInv, CopyFits
<1>9. Fresh' /\ BackwardFits'
  BY <1>2, <1>3 DEF SliceInv, Fresh, BackwardFits
<1> QED BY <1>2, <1>4, <1>6, <1>8, <1>9 DEF SliceInv, Selects, LinesAreExact, Remembers

LEMMA SliceInvariant == SliceSpec => []SliceInv
<1>1. SliceInit => SliceInv
  <2> SUFFICES ASSUME SliceInit PROVE SliceInv
    OBVIOUS
  <2>1. ScanTypeOK
    BY SliceAssumption DEF SliceInit, ScanTypeOK
  <2> QED BY <2>1 DEF SliceInit, SliceInv, Fresh, ForwardFits, BackwardFits, CopyFits,
                      Selects, Remembers
<1>2. SliceInv /\ [SliceNext]_sliceVars => SliceInv'
  <2> SUFFICES ASSUME SliceInv, [SliceNext]_sliceVars PROVE SliceInv'
    OBVIOUS
  <2>1. CASE UNCHANGED sliceVars
    <3>1. UNCHANGED <<lineEnds, size, request, slicing, stat, seen, pos, line, offset,
                      found, target, copied, put>>
      BY <2>1 DEF sliceVars
    <3>2. /\ (IsHistory' <=> IsHistory) /\ (ByLine' <=> ByLine) /\ (BigTail' <=> BigTail)
          /\ (ForTail' <=> ForTail)
          /\ First' = First /\ Last' = Last /\ Wanted' = Wanted
          /\ \A b : LineOf(b)' = LineOf(b) /\ LineCount(b)' = LineCount(b)
          /\ \A a, b : Ends(a, b)' = Ends(a, b)
      BY <3>1, SameRequest, SameTail
    <3>3. ScanTypeOK' /\ Fresh' /\ ForwardFits' /\ BackwardFits' /\ CopyFits'
      BY <3>1, <3>2 DEF SliceInv, ScanTypeOK, Fresh, ForwardFits, Gathered, Chosen,
                        BackwardFits, CopyFits, Small, From
    <3>4. Selects' /\ Remembers'
      BY <3>1, <3>2 DEF SliceInv, Selects, LinesAreExact, Remembers, Exactly, LinesFrom, Bytes,
                        ByLine
    <3> QED BY <3>3, <3>4 DEF SliceInv
  <2> QED BY <2>1, StatFileKeeps, ReadWholeLineKeeps, ReadPartKeeps, ReadEndKeeps,
             ScanChunkKeeps, CollectKeeps, CopySmallKeeps, CopyPieceKeeps, CopyEndKeeps,
             FileGrowsKeeps
             DEF SliceNext, SliceStep
<1> QED BY <1>1, <1>2, PTL DEF SliceSpec

-----------------------------------------------------------------------------
(* The text: what utf8Writer may alter.                                     *)

\* Nothing has been added, and the file does not end within a character.
Calm == size = stat /\ stat \notin inside

\* A reader that stands within a character has just read a full buffer.
Stands ==
  /\ slicing = "forward" /\ pos \in inside =>
       Buffer <= pos /\ \A d \in (pos - Buffer)..(pos - 1) : d \notin lineEnds
  /\ slicing = "copy" /\ ~Small /\ From \in inside => target + Buffer <= From

TextInv ==
  /\ inside \in SUBSET Continued /\ served \in BOOLEAN /\ spoilt \in SUBSET copied
  /\ ~served /\ ~IsHistory => spoilt = {}
  /\ slicing = "forward" => target = 0
  /\ slicing \in {"stat", "backward", "refused"} => spoilt = {}
  /\ slicing = "copy" /\ Small => spoilt = {}
  /\ slicing \in {"forward", "copy"} /\ Calm => Stands /\ \A b \in spoilt : Overfull(b)
  /\ SliceIsExact /\ HistoryIsExact

LEMMA InsideIsText ==
  ASSUME TextInv, Placed, NEW b \in inside
  PROVE  b \in Nat /\ 0 < b /\ b \notin lineEnds /\ b - 1 \notin lineEnds
BY SliceAssumption DEF TextInv, Continued

LEMMA AlteredPiece ==
  ASSUME NEW a, NEW b
  PROVE  /\ Altered(a, b) \subseteq a..(b - 1)
         /\ Altered(a, b) # {} => served /\ (a \in inside \/ b \in inside)
BY DEF Altered

\* What a text is does not change, and so what is overfull does not either.
LEMMA SameText ==
  ASSUME UNCHANGED <<textVars, stat>>
  PROVE  /\ (Small' <=> Small) /\ (IsHistory' <=> IsHistory) /\ Continued' = Continued
         /\ UNCHANGED target => \A b : Overfull(b) => Overfull(b)'
<1>1. /\ (IsHistory' <=> IsHistory) /\ (ForRange' <=> ForRange) /\ (ForHead' <=> ForHead)
      /\ (ForTail' <=> ForTail)
      /\ \A b : LineOf(b)' = LineOf(b)
  BY SameRequest, SameTail DEF IsHistory, ForRange, ForHead
<1>2. Bytes(stat)' = Bytes(stat)
  BY DEF Bytes
<1> QED BY <1>1, <1>2 DEF Small, Continued, Overfull

\* A slice that has not come to its end yet, or that wrote nothing.
LEMMA TextOfScan ==
  ASSUME SliceInv, TextInv, UNCHANGED textVars, spoilt' = {}, copied' = {},
         slicing' = "forward" => target' = 0 /\ pos' = 0,
         slicing' = "copy" => pos' = 0 /\ target' \in Nat /\ target' \notin inside,
         slicing' = "done" => size' = 0 /\ seen' = 0,
         SliceInv'
  PROVE  TextInv'
<1>1. 0 \notin inside
  BY SliceAssumption DEF TextInv, Continued
<1>2. slicing' = "copy" => From' = target'
  BY DEF From
<1>3. Stands'
  BY <1>1, <1>2 DEF Stands
<1>4. Continued' = Continued
  BY DEF Continued
<1>5. SliceIsExact'
  BY DEF SliceIsExact, SliceInv, Selects, TextIsKept
<1>6. HistoryIsExact'
  BY DEF HistoryIsExact, SliceInv, Remembers
<1> QED BY <1>3, <1>4, <1>5, <1>6 DEF TextInv

LEMMA StatFileKeepsText == ASSUME SliceInv, TextInv, StatFile, SliceInv' PROVE TextInv'
<1>1. slicing = "stat" /\ spoilt = {} /\ copied = {} /\ pos = 0 /\ target = 0 /\ seen \in 0..size
  BY DEF StatFile, TextInv, SliceInv, Fresh, ScanTypeOK
<1>2. 0 \notin inside
  BY SliceAssumption DEF TextInv, Continued
<1>3. slicing' = "done" => size' = 0 /\ seen' = 0
  <2>1. slicing' = "done" => size = 0
    BY DEF StatFile
  <2>2. size \in Nat /\ seen' = seen /\ size' = size /\ seen <= size /\ seen \in Nat
    BY SliceAssumption DEF StatFile, SliceInv, ScanTypeOK
  <2> QED BY <2>1, <2>2
<1> QED BY <1>1, <1>2, <1>3, TextOfScan DEF StatFile

\* A step that adds one piece, of a line or of a text.
LEMMA TextOfPiece ==
  ASSUME SliceInv, TextInv, SliceInv', UNCHANGED <<textVars, stat, target>>,
         slicing \in {"forward", "copy"}, ~Small,
         slicing' \in {slicing, "done"}, slicing' = "done" => seen' = size',
         size' = size,
         NEW a \in Nat, NEW b \in Nat, spoilt' \in {spoilt, spoilt \cup Altered(a, b)},
         copied \subseteq copied', spoilt' # spoilt => a..(b - 1) \subseteq copied',
         Calm => Stands',
         Calm /\ (a \in inside \/ b \in inside) => \A x \in a..(b - 1) : Overfull(x)
  PROVE  TextInv'
<1>1. /\ (Small' <=> Small) /\ (IsHistory' <=> IsHistory) /\ Continued' = Continued
      /\ \A x : Overfull(x) => Overfull(x)'
  BY SameText
<1>2. inside' = inside /\ served' = served
  BY DEF textVars
<1>3. Altered(a, b) \subseteq a..(b - 1)
      /\ (Altered(a, b) # {} => served /\ (a \in inside \/ b \in inside))
  BY AlteredPiece
<1>4. (Calm' <=> Calm) /\ (slicing' = "done" /\ (seen = stat)' => size = stat)
  BY <1>2 DEF Calm
<1>7. ~IsHistory
  BY DEF Small
<1>5. spoilt' \in SUBSET copied' /\ (~served => spoilt' = {})
  BY <1>3, <1>7 DEF TextInv
<1>6. Calm => \A x \in spoilt' : Overfull(x)'
  BY <1>1, <1>3 DEF TextInv
<1>8. SliceIsExact'
  <2> SUFFICES ASSUME slicing' = "done" PROVE SliceIsExact'
    BY DEF SliceIsExact
  <2>1. LinesAreExact'
    BY <1>1, <1>7 DEF SliceInv, Selects
  <2>2. TextIsKept'
    <3>1. (seen = stat /\ stat \notin inside)' => Calm
      BY <1>2, <1>4 DEF Calm
    <3> QED BY <1>1, <1>2, <1>5, <1>6, <3>1 DEF TextIsKept
  <2> QED BY <2>1, <2>2 DEF SliceIsExact
<1>9. HistoryIsExact'
  BY <1>1, <1>7 DEF HistoryIsExact
<1>10. /\ slicing' = "forward" => target' = 0
       /\ slicing' \notin {"stat", "backward", "refused"}
       /\ ~Small'
  BY <1>1 DEF TextInv
<1> QED BY <1>1, <1>2, <1>4, <1>5, <1>6, <1>8, <1>9, <1>10 DEF TextInv

\* The lines of a piece that no line end divides.
LEMMA OverfullLine ==
  ASSUME SliceInv, TextInv, slicing = "forward", NEW c \in Nat, NEW q \in Nat,
         c + Buffer <= q, c + Buffer < stat,
         c + Buffer \notin lineEnds, \A e \in lineEnds : ~(c <= e /\ e < q),
         NEW x \in c..(q - 1)
  PROVE  Overfull(x)
<1>1. Placed /\ Buffer \in Nat /\ stat \in Nat /\ target = 0
  BY SliceAssumption DEF SliceInv, ScanTypeOK, Placed, TextInv
<1>2. ASSUME NEW d \in c..(c + Buffer) PROVE d \notin lineEnds /\ LineOf(d) = LineOf(c)
  <2>1. d \in Nat /\ c <= d /\ d <= q
    BY <1>1
  <2>2. \A e \in lineEnds : ~(c <= e /\ e < d)
    <3>1. \A e \in lineEnds : e \in Int
      BY <1>1, SliceAssumption DEF Placed
    <3> QED BY <2>1, <3>1
  <2>3. d \notin lineEnds
    BY <1>1, <2>1
  <2> QED BY <1>1, <2>1, <2>2, <2>3, SameLine
<1>3. LineOf(x) = LineOf(c)
  <2>1. x \in Nat /\ c <= x /\ x < q
    OBVIOUS
  <2>2. \A e \in lineEnds : ~(c <= e /\ e < x)
    <3>1. \A e \in lineEnds : e \in Int
      BY <1>1, SliceAssumption DEF Placed
    <3> QED BY <2>1, <3>1
  <2> QED BY <1>1, <2>1, <2>2, SameLine
<1>4. c \in Bytes(stat) /\ target <= c
  BY <1>1 DEF Bytes
<1> QED BY <1>2, <1>3, <1>4 DEF Overfull

LEMMA ForwardIsNotSmall ==
  ASSUME SliceInv, TextInv, slicing = "forward"
  PROVE  /\ ~Small /\ target = 0 /\ Placed /\ pos \in Nat /\ size \in Nat /\ stat \in Nat
         /\ pos <= size /\ Buffer \in Nat \ {0} /\ \A e \in lineEnds : e \in Nat
BY SliceAssumption DEF SliceInv, TextInv, ForwardFits, Small, ByLine, ForTail, TailOf,
                       ScanTypeOK, Placed

LEMMA ReadWholeLineKeepsText ==
  ASSUME SliceInv, TextInv, ReadWholeLine, SliceInv' PROVE TextInv'
<1>1. PICK p \in lineEnds :
        /\ WholeLine(p)
        /\ copied' = IF Selected THEN copied \cup pos..p ELSE copied
        /\ spoilt' = IF Selected THEN spoilt \cup Altered(pos, p) ELSE spoilt
        /\ pos' = p + 1
  BY DEF ReadWholeLine
<1>2. /\ ~Small /\ target = 0 /\ Placed /\ pos \in Nat /\ size \in Nat /\ stat \in Nat
      /\ pos <= size /\ Buffer \in Nat \ {0} /\ \A e \in lineEnds : e \in Nat
  BY ForwardIsNotSmall DEF ReadWholeLine
<1>3. slicing = "forward" /\ slicing' \in {"forward", "done"} /\ seen' = size
      /\ UNCHANGED <<textVars, size, stat, target>>
  BY DEF ReadWholeLine, NextLine
<1>4. p \in Nat /\ pos <= p /\ p < size /\ \A e \in lineEnds : e < pos \/ p <= e
  BY <1>1, <1>2 DEF WholeLine, LineEndsAt
<1>5. p \notin inside /\ p + 1 \notin inside
  BY <1>1, <1>2, <1>4, InsideIsText
<1>6. Stands'
  BY <1>1, <1>3, <1>5 DEF Stands
<1>7. ASSUME Calm, pos \in inside, NEW x \in pos..(p - 1) PROVE Overfull(x)
  <2>1. Buffer <= pos /\ \A d \in (pos - Buffer)..(pos - 1) : d \notin lineEnds
    BY <1>3, <1>7 DEF TextInv, Stands
  <2>2. pos \notin lineEnds
    BY <1>2, <1>7, InsideIsText
  <2> DEFINE c == pos - Buffer
  <2>3. /\ c \in Nat /\ c + Buffer = pos /\ pos <= p /\ pos < stat /\ x \in c..(p - 1)
    BY <1>2, <1>4, <1>7, <2>1 DEF Calm
  <2>4. \A e \in lineEnds : ~(c <= e /\ e < p)
    BY <1>2, <1>4, <2>1
  <2> HIDE DEF c
  <2>5. c + Buffer <= p /\ c + Buffer < stat /\ c + Buffer \notin lineEnds
    BY <2>2, <2>3
  <2> QED BY <1>3, <1>4, <2>3, <2>4, <2>5, OverfullLine
<1>8. Calm /\ (pos \in inside \/ p \in inside) => \A x \in pos..(p - 1) : Overfull(x)
  BY <1>5, <1>7
<1>9. /\ copied \subseteq copied' /\ (spoilt' # spoilt => pos..(p - 1) \subseteq copied')
      /\ spoilt' \in {spoilt, spoilt \cup Altered(pos, p)}
  BY <1>1, <1>2, <1>4
<1> QED BY <1>2, <1>3, <1>4, <1>6, <1>8, <1>9, TextOfPiece

LEMMA ReadPartKeepsText ==
  ASSUME SliceInv, TextInv, ReadPart, SliceInv' PROVE TextInv'
<1> DEFINE q == pos + Rest
<1>1. /\ ~Small /\ target = 0 /\ Placed /\ pos \in Nat /\ size \in Nat /\ stat \in Nat
      /\ pos <= size /\ Buffer \in Nat \ {0} /\ \A e \in lineEnds : e \in Nat
  BY ForwardIsNotSmall DEF ReadPart
<1>2. q \in Nat /\ pos < q /\ q <= size /\ (q = size \/ q = pos + Buffer)
  BY <1>1 DEF ReadPart, Rest
<1>3. slicing = "forward" /\ slicing' \in {"forward", "done"} /\ seen' = size /\ pos' = q
      /\ UNCHANGED <<textVars, size, stat, target>>
  BY DEF ReadPart, NextLine
<1>4. \A e \in lineEnds : ~(pos <= e /\ e < q)
  BY PartHasNoLineEnd DEF ReadPart, SliceInv
<1>5. /\ copied' = IF Selected THEN copied \cup pos..(pos + Rest - 1) ELSE copied
      /\ spoilt' = IF Selected THEN spoilt \cup Altered(pos, q) ELSE spoilt
  BY DEF ReadPart
<1>6. pos + Rest - 1 = q - 1
  BY <1>1 DEF Rest
<1> HIDE DEF q
<1>7. Calm /\ q \in inside => q = pos + Buffer
  BY <1>2 DEF Calm
<1>8. ASSUME Calm PROVE Stands'
  <2> SUFFICES ASSUME q \in inside
               PROVE  Buffer <= q /\ \A d \in (q - Buffer)..(q - 1) : d \notin lineEnds
    BY <1>3 DEF Stands, textVars
  <2>1. q = pos + Buffer /\ q - Buffer = pos /\ Buffer <= q
    BY <1>1, <1>7, <1>8
  <2>2. \A d \in pos..(q - 1) : pos <= d /\ d < q
    BY <1>1, <1>2
  <2> QED BY <1>4, <2>1, <2>2
<1>9. ASSUME Calm, pos \in inside, NEW x \in pos..(q - 1) PROVE Overfull(x)
  <2>1. Buffer <= pos /\ \A d \in (pos - Buffer)..(pos - 1) : d \notin lineEnds
    BY <1>3, <1>9 DEF TextInv, Stands
  <2>2. pos \notin lineEnds
    BY <1>1, <1>9, InsideIsText
  <2> DEFINE c == pos - Buffer
  <2>3. /\ c \in Nat /\ c + Buffer = pos /\ pos <= q /\ pos < stat /\ x \in c..(q - 1)
    BY <1>1, <1>2, <1>9, <2>1 DEF Calm
  <2>4. \A e \in lineEnds : ~(c <= e /\ e < q)
    <3> SUFFICES ASSUME NEW e \in lineEnds, c <= e, e < q PROVE FALSE
      OBVIOUS
    <3>1. e \in Nat
      BY <1>1
    <3>2. CASE e < pos
      BY <1>1, <2>1, <3>1, <3>2
    <3>3. CASE pos <= e
      BY <1>4, <3>3
    <3> QED BY <1>1, <3>1, <3>2, <3>3
  <2> HIDE DEF c
  <2>5. c + Buffer <= q /\ c + Buffer < stat /\ c + Buffer \notin lineEnds
    BY <2>2, <2>3
  <2> QED BY <1>2, <1>3, <2>3, <2>4, <2>5, OverfullLine
<1>10. ASSUME Calm, q \in inside, NEW x \in pos..(q - 1) PROVE Overfull(x)
  <2>1. q = pos + Buffer /\ q # size /\ q \notin lineEnds
    BY <1>1, <1>7, <1>10, InsideIsText DEF Calm
  <2>2. pos + Buffer <= q /\ pos + Buffer < stat /\ pos + Buffer \notin lineEnds
    BY <1>1, <1>2, <1>10, <2>1 DEF Calm
  <2> QED BY <1>1, <1>2, <1>3, <1>4, <2>2, OverfullLine
<1>11. Calm /\ (pos \in inside \/ q \in inside) => \A x \in pos..(q - 1) : Overfull(x)
  BY <1>9, <1>10
<1>12. /\ copied \subseteq copied' /\ (spoilt' # spoilt => pos..(q - 1) \subseteq copied')
       /\ spoilt' \in {spoilt, spoilt \cup Altered(pos, q)}
  BY <1>5, <1>6
<1> QED BY <1>1, <1>2, <1>3, <1>8, <1>11, <1>12, TextOfPiece

LEMMA ReadEndKeepsText ==
  ASSUME SliceInv, TextInv, ReadEnd, SliceInv' PROVE TextInv'
<1>1. ~Small
  BY ForwardIsNotSmall DEF ReadEnd
<1>2. slicing = "forward" /\ slicing' = "done" /\ seen' = size
      /\ UNCHANGED <<textVars, size, stat, target, copied, spoilt>>
  BY DEF ReadEnd
<1>3. Stands'
  BY <1>2 DEF Stands
<1>4. Calm => \A x \in 0..(0 - 1) : Overfull(x)
  OBVIOUS
<1> QED BY <1>1, <1>2, <1>3, <1>4, TextOfPiece

LEMMA ScanChunkKeepsText ==
  ASSUME SliceInv, TextInv, ScanChunk, SliceInv' PROVE TextInv'
<1>1. /\ slicing = "backward" /\ ~IsHistory /\ pos = 0 /\ copied = {} /\ target = 0
      /\ spoilt = {} /\ Placed
  BY SliceAssumption DEF ScanChunk, SliceInv, BackwardFits, TextInv, Placed, ScanTypeOK
<1>2. UNCHANGED <<textVars, pos, copied, spoilt>> /\ slicing' \in {"copy", "backward"}
  BY DEF ScanChunk
<1>3. target' \in Nat /\ target' \notin inside
  <2>1. 0 \notin inside
    BY <1>1, InsideIsText
  <2>2. CASE target' = target
    BY <1>1, <2>1, <2>2
  <2>3. ASSUME NEW e \in Counted, target' = e + 1 PROVE target' \in Nat /\ target' \notin inside
    <3>1. e \in lineEnds /\ e \in Nat /\ (e + 1) - 1 = e
      BY <1>1, SliceAssumption DEF Counted, Placed
    <3> QED BY <1>1, <2>3, <3>1, InsideIsText
  <2> QED BY <2>2, <2>3 DEF ScanChunk
<1> QED BY <1>1, <1>2, <1>3, TextOfScan

\* A history that is whole begins with a line, and so with a character.
LEMMA WholeHistory ==
  ASSUME SliceInv, TextInv, NEW n \in Nat, NEW s \in Nat, NEW low \in inside,
         low \in LastLines(n, s), LastLines(n, s) \subseteq low..(s - 1)
  PROVE  FALSE
<1>1. Placed
  BY DEF SliceInv, ScanTypeOK, Placed
<1>2. low \in Nat /\ 0 < low /\ low - 1 \in Nat /\ low - 1 \notin lineEnds
  BY <1>1, InsideIsText
<1>3. \A e \in lineEnds : ~(low - 1 <= e /\ e < low)
  BY <1>1, <1>2, SliceAssumption DEF Placed
<1>4. LineOf(low) = LineOf(low - 1)
  BY <1>1, <1>2, <1>3, SameLine
<1>5. low - 1 \in LastLines(n, s)
  BY <1>2, <1>4 DEF LastLines
<1> QED BY <1>2, <1>5

LEMMA CollectKeepsText ==
  ASSUME SliceInv, TextInv, Collect, SliceInv' PROVE TextInv'
<1>1. /\ slicing = "backward" /\ IsHistory /\ spoilt = {} /\ stat \in Nat
      /\ UNCHANGED <<textVars, stat>> /\ seen' = stat /\ Wanted \in Nat
  BY SliceAssumption, RequestFits DEF Collect, TextInv, SliceInv, ScanTypeOK
<1>2. (IsHistory' <=> IsHistory) /\ Continued' = Continued
  BY <1>1, SameText
<1>3. SliceIsExact'
  BY <1>1, <1>2 DEF SliceIsExact
<1> DEFINE Asked == LastLines(Wanted, stat)
<1>4. CASE UNCHANGED <<slicing, copied, spoilt>>
  BY <1>1, <1>2, <1>3, <1>4 DEF TextInv, HistoryIsExact
<1>5. CASE /\ slicing' = "done" /\ copied' = Asked \cap Low..(stat - 1)
           /\ spoilt' = IF stat \in inside \/ Low \in inside \cap copied' THEN copied' ELSE {}
  <2>1. Asked \subseteq Low..(stat - 1) /\ stat \notin inside => spoilt' = {}
    <3> SUFFICES ASSUME Asked \subseteq Low..(stat - 1), Low \in inside, Low \in Asked
                 PROVE  FALSE
      BY <1>5
    <3> QED BY <1>1, WholeHistory
  <2>2. \A l, t : LinesFrom(l, t)' = LinesFrom(l, t)
    BY <1>1 DEF LinesFrom, Bytes, LineOf, textVars
  <2>3. LineCount(seen)' = LineCount(stat) /\ Wanted' = Wanted
    BY <1>1 DEF LineCount, Wanted, IsHistory, textVars
  <2>4. Asked = LinesFrom(LineCount(stat) - Wanted + 1, stat)
    <3>1. Placed
      BY DEF SliceInv, ScanTypeOK, Placed
    <3> QED BY <1>1, <3>1, LastLinesAreLines
  <2>5. LinesFrom(LineCount(seen) - Wanted + 1, seen)' = Asked
    BY <1>1, <2>2, <2>3, <2>4
  <2> HIDE DEF Asked
  <2>6. CASE copied' = Asked
    <3>1. Asked \subseteq Low..(stat - 1)
      BY <1>5, <2>6
    <3>2. (seen \notin inside => spoilt = {})'
      BY <1>1, <2>1, <3>1 DEF textVars
    <3>3. HistoryIsExact'
      BY <2>5, <2>6, <3>2 DEF HistoryIsExact
    <3> QED BY <1>1, <1>2, <1>3, <1>5, <3>3 DEF TextInv
  <2>7. CASE copied' # Asked
    <3>1. HistoryIsExact'
      BY <1>1, <1>2, <1>5, <2>5, <2>7 DEF HistoryIsExact, SliceInv, Remembers
    <3> QED BY <1>1, <1>2, <1>3, <1>5, <3>1 DEF TextInv
  <2> QED BY <2>6, <2>7
<1> QED BY <1>4, <1>5 DEF Collect

LEMMA CopySmallKeepsText ==
  ASSUME SliceInv, TextInv, CopySmall, SliceInv' PROVE TextInv'
<1>1. /\ slicing' = "done" /\ Small /\ seen' = size /\ UNCHANGED <<textVars, size, stat>>
      /\ spoilt' = IF served /\ size \in inside
                   THEN {b \in copied' : IsHistory \/ LineOf(b) = LineOf(size - 1)}
                   ELSE {}
  BY DEF CopySmall
<1>2. (Small' <=> Small) /\ (IsHistory' <=> IsHistory) /\ Continued' = Continued
  BY <1>1, SameText
<1>3. (seen \notin inside => spoilt = {})' /\ (~served => spoilt = {})'
      /\ spoilt' \in SUBSET copied'
  BY <1>1 DEF textVars
<1>4. TextIsKept'
  <2>1. (seen = stat /\ stat \notin inside)' => spoilt' = {}
    BY <1>1, <1>3
  <2> QED BY <1>1, <1>2, <1>3, <2>1 DEF TextIsKept
<1>5. SliceIsExact'
  BY <1>4 DEF SliceIsExact, SliceInv, Selects
<1>6. HistoryIsExact'
  BY <1>3 DEF HistoryIsExact, SliceInv, Remembers
<1> QED BY <1>1, <1>2, <1>3, <1>5, <1>6 DEF TextInv

LEMMA CopyingText ==
  ASSUME SliceInv, TextInv, slicing = "copy", ~Small
  PROVE  /\ target \in Nat /\ pos \in Nat /\ size \in Nat /\ stat \in Nat
         /\ Buffer \in Nat \ {0} /\ From \in Nat /\ target <= From
         /\ ~(ForRange \/ ForHead)
<1>1. ~IsHistory /\ ~ByLine
  BY DEF Small, SliceInv, CopyFits
<1> QED BY <1>1, SliceAssumption DEF SliceInv, ScanTypeOK, From, ByLine

LEMMA CopyPieceKeepsText ==
  ASSUME SliceInv, TextInv, CopyPiece, SliceInv' PROVE TextInv'
<1>1. /\ target \in Nat /\ pos \in Nat /\ size \in Nat /\ stat \in Nat
      /\ Buffer \in Nat \ {0} /\ From \in Nat /\ target <= From
      /\ ~(ForRange \/ ForHead)
  BY CopyingText DEF CopyPiece
<1>2. /\ slicing = "copy" /\ ~Small /\ From < size /\ pos' = To - target
      /\ copied' = copied \cup From..(To - 1)
      /\ spoilt' = spoilt \cup Altered(From, To)
      /\ UNCHANGED <<textVars, size, slicing, stat, target>>
  BY DEF CopyPiece
<1>3. To \in Nat /\ From < To /\ To <= size /\ (To = size \/ To = From + Buffer)
  BY <1>1, <1>2 DEF To
<1>4. From' = To
  BY <1>1, <1>2, <1>3 DEF From
<1>5. ASSUME Calm, To \in inside PROVE To = From + Buffer /\ To < stat
  BY <1>1, <1>3, <1>5 DEF Calm
<1>6. ASSUME Calm PROVE Stands'
  <2>1. To \in inside => target + Buffer <= To
    BY <1>1, <1>3, <1>5, <1>6
  <2> QED BY <1>2, <1>4, <2>1 DEF Stands, textVars
<1>7. ASSUME Calm, From \in inside \/ To \in inside, NEW x \in From..(To - 1)
      PROVE  Overfull(x)
  <2>1. CASE To \in inside
    <3>1. From \in Bytes(stat) /\ From + Buffer < stat
      BY <1>1, <1>2, <1>5, <1>7, <2>1 DEF Bytes, Calm
    <3> QED BY <1>1, <3>1 DEF Overfull
  <2>2. CASE From \in inside
    <3>1. target + Buffer <= From
      BY <1>2, <1>7, <2>2 DEF TextInv, Stands
    <3> DEFINE c == From - Buffer
    <3>2. c \in Bytes(stat) /\ target <= c /\ c + Buffer < stat
      BY <1>1, <1>2, <1>7, <3>1 DEF Bytes, Calm
    <3> HIDE DEF c
    <3> QED BY <1>1, <3>2 DEF Overfull
  <2> QED BY <1>7, <2>1, <2>2
<1>8. Calm /\ (From \in inside \/ To \in inside) => \A x \in From..(To - 1) : Overfull(x)
  BY <1>7
<1>9. copied \subseteq copied' /\ From..(To - 1) \subseteq copied'
  BY <1>2
<1> QED BY <1>1, <1>2, <1>3, <1>6, <1>8, <1>9, TextOfPiece

LEMMA CopyEndKeepsText ==
  ASSUME SliceInv, TextInv, CopyEnd, SliceInv' PROVE TextInv'
<1>1. slicing = "copy" /\ ~Small /\ slicing' = "done" /\ seen' = size
      /\ UNCHANGED <<textVars, size, stat, target, copied, spoilt>>
  BY DEF CopyEnd
<1>2. Stands'
  BY <1>1 DEF Stands
<1>3. Calm => \A x \in 0..(0 - 1) : Overfull(x)
  OBVIOUS
<1> QED BY <1>1, <1>2, <1>3, TextOfPiece

LEMMA FileGrowsKeepsText ==
  ASSUME SliceInv, TextInv, FileGrows, SliceInv' PROVE TextInv'
<1>1. /\ slicing # "done" /\ UNCHANGED <<textVars, slicing, stat, target, copied, spoilt>>
      /\ size' = size + 1
  BY DEF FileGrows
<1>2. (Small' <=> Small) /\ (IsHistory' <=> IsHistory) /\ Continued' = Continued
  BY <1>1, SameText
<1>3. size' # stat'
  <2>1. size \in Nat /\ stat \in Nat /\ stat <= size
    BY SliceAssumption DEF SliceInv, ScanTypeOK
  <2> QED BY <1>1, <2>1
<1>4. SliceIsExact' /\ HistoryIsExact'
  BY <1>1 DEF SliceIsExact, HistoryIsExact
<1> QED BY <1>1, <1>2, <1>3, <1>4 DEF TextInv, Calm, textVars

LEMMA TextInvariant == SliceSpec => []TextInv
<1>1. SliceInit => TextInv
  <2> SUFFICES ASSUME SliceInit PROVE TextInv
    OBVIOUS
  <2> QED BY DEF SliceInit, TextInv, SliceIsExact, HistoryIsExact
<1>2. SliceInv /\ SliceInv' /\ TextInv /\ [SliceNext]_sliceVars => TextInv'
  <2> SUFFICES ASSUME SliceInv, SliceInv', TextInv, [SliceNext]_sliceVars PROVE TextInv'
    OBVIOUS
  <2>1. CASE UNCHANGED sliceVars
    <3>1. UNCHANGED <<textVars, size, slicing, stat, seen, pos, target, copied, spoilt>>
      BY <2>1 DEF sliceVars
    <3>2. /\ (Small' <=> Small) /\ (IsHistory' <=> IsHistory) /\ Continued' = Continued
          /\ \A b : Overfull(b) => Overfull(b)'
      BY <3>1, SameText
    <3>3. (Calm' <=> Calm) /\ (Stands' <=> Stands) /\ Wanted' = Wanted
      BY <3>1, <3>2 DEF Calm, Stands, From, Wanted, IsHistory, textVars
    <3>4. SliceIsExact'
      BY <3>1, <3>2 DEF TextInv, SliceIsExact, TextIsKept, SliceInv, Selects
    <3>5. HistoryIsExact'
      BY <3>1, <3>2, <3>3
         DEF TextInv, HistoryIsExact, LinesFrom, Bytes, LineOf, LineCount
    <3> QED BY <3>1, <3>2, <3>3, <3>4, <3>5 DEF TextInv
  <2> QED BY <2>1, StatFileKeepsText, ReadWholeLineKeepsText, ReadPartKeepsText,
             ReadEndKeepsText, ScanChunkKeepsText, CollectKeepsText, CopySmallKeepsText,
             CopyPieceKeepsText, CopyEndKeepsText, FileGrowsKeepsText
          DEF SliceNext, SliceStep
<1> QED BY <1>1, <1>2, SliceInvariant, PTL DEF SliceSpec

-----------------------------------------------------------------------------
(* The theorems *)

\* Every variable of a slice keeps its type: nothing is read past the end, and
\* only what is written is altered.
THEOREM SliceTypeCorrect == SliceSpec => []SliceTypeOK
<1>1. SliceInv /\ TextInv => SliceTypeOK
  BY DEF SliceInv, TextInv, SliceTypeOK
<1> QED BY <1>1, SliceInvariant, TextInvariant, PTL

\* cw logs and cw cat write the lines that were asked for, whole, wherever
\* buffers and chunks end and whatever the job adds meanwhile; and a worker's
\* utf8Writer alters their text only where a line, or a text that is copied, is
\* longer than a buffer, the file grew or it ends within a character.
THEOREM SlicesAreExact == SliceSpec => []SliceIsExact
<1>1. TextInv => SliceIsExact
  BY DEF TextInv
<1> QED BY <1>1, TextInvariant, PTL

\* The history of a log stream is the last lines of the log, their text kept
\* unless the log ends within a character, or its end from where the limit was
\* reached.
THEOREM HistoriesAreExact == SliceSpec => []HistoryIsExact
<1>1. TextInv => HistoryIsExact
  BY DEF TextInv
<1> QED BY <1>1, TextInvariant, PTL

=============================================================================
