---------------------------- MODULE CommandProofs ----------------------------
(***************************************************************************)
(* The client's commands keep their promises for any number of nodes,      *)
(* machines, writers and directory entries: what nodes.json holds, what a  *)
(* search answers, what cw rm says, what cw diff finds.                    *)
(***************************************************************************)
EXTENDS NodeLedger, JobSearch, FsRemove, FsDiff, FiniteSetTheorems, TLAPS

-----------------------------------------------------------------------------
(* nodes.json.  As long as no write is disturbed there is one writer at a   *)
(* time, what it has loaded is what the ledger should hold, and the file is *)
(* whole but between its opening and its writing.                           *)

OneWriter == \A v, w \in Writers : Writing(v) /\ Writing(w) => v = w
LoadedAll == \A w \in Writers : Writing(w) => view[w] = expected
Opened == \E w \in Writers : writer[w] = "write"
FileFits ==
  /\ Opened => text = "empty" /\ ledger = {}
  /\ ~Opened => text = "whole" /\ ledger = expected

LedgerInv == LedgerTypeOK /\ (~overlapped => OneWriter /\ LoadedAll /\ FileFits)

\* A load, whether it succeeds or not, in an undisturbed ledger.
LEMMA LoadKeeps ==
  ASSUME LedgerInv, NEW w \in Writers, LoadLedger(w) \/ LoadFails(w)
  PROVE  LedgerInv'
<1> USE DEF LedgerInv, LedgerTypeOK
<1>1. LedgerTypeOK'
  BY DEF LoadLedger, LoadFails
<1> SUFFICES ASSUME ~overlapped' PROVE (OneWriter /\ LoadedAll /\ FileFits)'
  BY <1>1
<1>2. ~overlapped /\ OneWriter /\ LoadedAll /\ FileFits
  BY DEF LoadLedger, LoadFails
<1>3. Opened' <=> Opened
  BY DEF LoadLedger, LoadFails, Opened
<1>4. UNCHANGED <<text, ledger, expected, op, name>> /\ writer[w] = "load"
  BY DEF LoadLedger, LoadFails
<1>5. FileFits'
  BY <1>2, <1>3, <1>4 DEF FileFits
<1>6. \A v \in Writers \ {w} : (Writing(v)' <=> Writing(v)) /\ view'[v] = view[v]
  BY DEF LoadLedger, LoadFails, Writing
<1>7. CASE writer'[w] = "failed"
  <2>1. ~Writing(w)'
    BY <1>7 DEF Writing
  <2> QED BY <1>2, <1>4, <1>5, <1>6, <2>1 DEF OneWriter, LoadedAll
<1>8. CASE writer'[w] # "failed"
  <2>1. LoadLedger(w)
    BY <1>8 DEF LoadLedger, LoadFails
  <2>2. \A v \in Writers \ {w} : ~Writing(v)
    BY <2>1 DEF LoadLedger, Disturbed
  <2>3. ~Opened
    BY <2>2, <1>4 DEF Opened, Writing
  <2>4. view'[w] = expected
    BY <2>1, <2>3, <1>2 DEF LoadLedger, FileFits
  <2> QED BY <1>4, <1>5, <1>6, <2>2, <2>4 DEF OneWriter, LoadedAll
<1> QED BY <1>7, <1>8

\* The file is opened: the one writer finds it whole.
LEMMA OpenKeeps ==
  ASSUME LedgerInv, NEW w \in Writers, OpenLedger(w)
  PROVE  LedgerInv'
<1> USE DEF LedgerInv, LedgerTypeOK
<1>1. LedgerTypeOK'
  BY DEF OpenLedger
<1>2. \A v \in Writers : (Writing(v)' <=> Writing(v)) /\ view'[v] = view[v]
  BY DEF OpenLedger, Writing
<1>3. Opened' /\ text' = "empty" /\ ledger' = {}
  BY DEF OpenLedger, Opened
<1> QED BY <1>1, <1>2, <1>3 DEF OpenLedger, OneWriter, LoadedAll, FileFits

\* The new text is what was loaded, with the change.
LEMMA WriteKeeps ==
  ASSUME LedgerInv, NEW w \in Writers, WriteLedger(w)
  PROVE  LedgerInv'
<1> USE DEF LedgerInv, LedgerTypeOK
<1>1. Edited(w) \in SUBSET Names
  BY DEF Edited
<1>2. LedgerTypeOK'
  <2>1. text' \in {"whole", "empty", "corrupt"} /\ ledger' \in SUBSET Names
    BY <1>1 DEF WriteLedger
  <2>2. expected' \in SUBSET Names
    BY DEF WriteLedger
  <2> QED BY <2>1, <2>2 DEF WriteLedger
<1> SUFFICES ASSUME ~overlapped PROVE (OneWriter /\ LoadedAll /\ FileFits)'
  BY <1>2 DEF WriteLedger
<1>3. writer[w] = "write" /\ text = "empty" /\ view[w] = expected
  BY DEF WriteLedger, FileFits, Opened, LoadedAll, Writing
<1>4. \A v \in Writers \ {w} : ~Writing(v)
  BY <1>3 DEF OneWriter, Writing
<1>5. \A v \in Writers : ~Writing(v)'
  BY <1>4 DEF WriteLedger, Writing
<1>6. text' = "whole" /\ ledger' = Edited(w)
  BY <1>3 DEF WriteLedger
<1>7. expected' = Edited(w)
  BY <1>3 DEF WriteLedger, Edited
<1> QED BY <1>5, <1>6, <1>7 DEF OneWriter, LoadedAll, FileFits, Opened, Writing

\* A writer that dies before it has opened the file disturbs no one.
LEMMA DeathKeeps ==
  ASSUME LedgerInv, NEW w \in Writers, WriterDies(w)
  PROVE  LedgerInv'
<1> USE DEF LedgerInv, LedgerTypeOK
<1>1. LedgerTypeOK'
  BY DEF WriterDies
<1> SUFFICES ASSUME ~overlapped' PROVE (OneWriter /\ LoadedAll /\ FileFits)'
  BY <1>1
<1>2. \A v \in Writers : Writing(v)' => Writing(v)
  BY DEF WriterDies, Writing
<1>3. Opened' <=> Opened
  BY DEF WriterDies, Opened
<1> QED BY <1>2, <1>3 DEF WriterDies, OneWriter, LoadedAll, FileFits

LEMMA LedgerInvariant == LedgerSpec => []LedgerInv
<1>1. LedgerInit => LedgerInv
  BY DEF LedgerInit, LedgerInv, LedgerTypeOK, OneWriter, LoadedAll, FileFits,
         Opened, Writing
<1>2. LedgerInv /\ [LedgerNext]_ledgerVars => LedgerInv'
  <2> SUFFICES ASSUME LedgerInv, [LedgerNext]_ledgerVars PROVE LedgerInv'
    OBVIOUS
  <2>1. CASE UNCHANGED ledgerVars
    BY <2>1 DEF ledgerVars, LedgerInv, LedgerTypeOK, OneWriter, LoadedAll,
                FileFits, Opened, Writing
  <2>2. CASE LedgerNext
    BY <2>2, LoadKeeps, OpenKeeps, WriteKeeps, DeathKeeps DEF LedgerNext
  <2> QED BY <2>1, <2>2
<1> QED BY <1>1, <1>2, PTL DEF LedgerSpec

\* Every variable of nodes.json and its writers keeps its type.
THEOREM LedgerTypeCorrect == LedgerSpec => []LedgerTypeOK
<1>1. LedgerInv => LedgerTypeOK
  BY DEF LedgerInv
<1> QED BY <1>1, LedgerInvariant, PTL

\* An undisturbed ledger holds what was added and not removed, for any number
\* of nodes and of commands that write it.
THEOREM LedgerIsExact == LedgerSpec => []LedgerKeepsEntries
<1>1. LedgerInv => LedgerKeepsEntries
  BY DEF LedgerInv, FileFits, Opened, Writing, LedgerKeepsEntries
<1> QED BY <1>1, LedgerInvariant, PTL

-----------------------------------------------------------------------------
(* The search.  A hit comes from the job's node, and while nothing has been *)
(* found every question to that node is open or was not heard.              *)

SearchShape ==
  /\ phase \in {"ps", "logs"} => searching = "find"
  /\ phase = "kill" => searching = "kill"
  /\ phase = "load" =>
       /\ hit = NoNode /\ known = {}
       /\ \A n \in Nodes : answer[n] = "none" /\ silent[n] = 0
  /\ outcome # "none" <=> phase = "end"

\* The job is on that node, and there, unless it has moved; a kill has ended it.
Located(n) ==
  /\ address[n] = jobAt
  /\ moved \/ jobIn # "gone"
  /\ searching = "kill" => ~jobRuns

HitsAreTrue ==
  /\ hit # NoNode => Located(hit)
  /\ \A n \in known : answer[n] = "hit" => Located(n)

\* How often a node has not been heard in the phases that are over.
Earlier == IF phase = "logs" THEN 1 ELSE 0
NotMissed(n) ==
  /\ jobIn = "table" =>
       /\ answer[n] # "miss"
       /\ silent[n] = Earlier + (IF answer[n] = "over" THEN 1 ELSE 0)
  /\ jobIn = "log" /\ phase = "logs" =>
       answer[n] # "miss" /\ (answer[n] = "over" => silent[n] > 0)

StillOpen ==
  Asking /\ ~moved /\ hit = NoNode /\ ~cancelled =>
    \A n \in known : address[n] = jobAt => NotMissed(n)

FoundIsHit == outcome = "found" => hit # NoNode
NotFoundIsUnheard ==
  outcome = "notfound" /\ ~moved =>
    \A n \in known : address[n] = jobAt =>
      /\ jobIn = "table" => silent[n] = IF searching = "kill" THEN 1 ELSE 2
      /\ jobIn = "log" /\ searching = "find" => silent[n] > 0

SearchInv ==
  /\ SearchTypeOK /\ SearchShape
  /\ HitsAreTrue /\ StillOpen /\ FoundIsHit /\ NotFoundIsUnheard

LEMMA SearchBeginsKeeps == SearchInv /\ SearchBegins => SearchInv'
<1> SUFFICES ASSUME SearchInv, SearchBegins PROVE SearchInv'
  OBVIOUS
<1> USE DEF SearchInv, SearchBegins, SearchTypeOK, SearchShape, jobVars
<1>1. SearchTypeOK' /\ SearchShape'
  BY DEF Known, Search
<1>2. HitsAreTrue' /\ StillOpen'
  BY <1>1 DEF HitsAreTrue, StillOpen, NotMissed, Earlier, Known, Search
<1>3. FoundIsHit' /\ NotFoundIsUnheard'
  BY DEF FoundIsHit, NotFoundIsUnheard, Known, Search
<1> QED BY <1>1, <1>2, <1>3

LEMMA JobMovesKeeps == SearchInv /\ JobMoves => SearchInv'
<1> SUFFICES ASSUME SearchInv, JobMoves PROVE SearchInv'
  OBVIOUS
<1> USE DEF SearchInv, JobMoves, SearchTypeOK, SearchShape
<1>1. SearchTypeOK' /\ SearchShape'
  OBVIOUS
<1>2. HitsAreTrue'
  <2>1. \A n \in Nodes : Located(n) => Located(n)'
    <3>1. (moved => moved') /\ (jobIn' = "gone" => moved')
      OBVIOUS
    <3>2. jobRuns' => jobRuns
      OBVIOUS
    <3> QED BY <3>1, <3>2 DEF Located
  <2> QED BY <2>1 DEF HitsAreTrue
<1>3. StillOpen'
  BY DEF StillOpen, NotMissed, Earlier, Asking
<1>4. FoundIsHit' /\ NotFoundIsUnheard'
  BY DEF FoundIsHit, NotFoundIsUnheard
<1> QED BY <1>1, <1>2, <1>3, <1>4

LEMMA NodeAnswersKeeps ==
  ASSUME SearchInv, NEW n \in Nodes, NodeAnswers(n) PROVE SearchInv'
<1> USE DEF SearchInv, NodeAnswers, SearchTypeOK, SearchShape, Pending, Asking
<1>1. SearchTypeOK' /\ SearchShape'
  OBVIOUS
<1>2. HitsAreTrue'
  BY DEF HitsAreTrue, Located, HasJob
<1>3. StillOpen'
  BY DEF StillOpen, NotMissed, Earlier, HasJob
<1>4. FoundIsHit' /\ NotFoundIsUnheard'
  BY DEF FoundIsHit, NotFoundIsUnheard
<1> QED BY <1>1, <1>2, <1>3, <1>4

LEMMA ReceiveKeeps ==
  ASSUME SearchInv, NEW n \in Nodes, Receive(n) PROVE SearchInv'
<1> USE NoNodeAssumption
    DEF SearchInv, Receive, SearchTypeOK, SearchShape, Pending, Asking, jobVars
<1>1. SearchTypeOK' /\ SearchShape'
  OBVIOUS
<1>2. HitsAreTrue'
  BY DEF HitsAreTrue, Located
<1>3. StillOpen'
  BY DEF StillOpen, NotMissed, Earlier
<1>4. FoundIsHit' /\ NotFoundIsUnheard'
  BY DEF FoundIsHit, NotFoundIsUnheard
<1> QED BY <1>1, <1>2, <1>3, <1>4

LEMMA NotHeardKeeps ==
  ASSUME SearchInv, NEW n \in Nodes, NotHeard(n) PROVE SearchInv'
<1> USE DEF SearchInv, NotHeard, SearchTypeOK, SearchShape, Pending, Asking, jobVars
<1>1. SearchTypeOK' /\ SearchShape'
  OBVIOUS
<1>2. HitsAreTrue'
  BY DEF HitsAreTrue, Located
<1>3. StillOpen'
  BY DEF StillOpen, NotMissed, Earlier
<1>4. FoundIsHit' /\ NotFoundIsUnheard'
  BY DEF FoundIsHit, NotFoundIsUnheard
<1> QED BY <1>1, <1>2, <1>3, <1>4

LEMMA ProbeCancelledKeeps ==
  ASSUME SearchInv, NEW n \in Nodes, ProbeCancelled(n) PROVE SearchInv'
<1> USE DEF SearchInv, ProbeCancelled, SearchTypeOK, SearchShape, Pending, Asking,
            jobVars
<1>1. SearchTypeOK' /\ SearchShape'
  OBVIOUS
<1>2. HitsAreTrue'
  BY DEF HitsAreTrue, Located
<1>3. StillOpen'
  BY DEF StillOpen
<1>4. FoundIsHit' /\ NotFoundIsUnheard'
  BY DEF FoundIsHit, NotFoundIsUnheard
<1> QED BY <1>1, <1>2, <1>3, <1>4

LEMMA AllHeardKeeps == SearchInv /\ AllHeard => SearchInv'
<1> SUFFICES ASSUME SearchInv, AllHeard PROVE SearchInv'
  OBVIOUS
<1> USE DEF SearchInv, AllHeard, SearchTypeOK, SearchShape, Asking, jobVars, Search
<1>1. SearchTypeOK' /\ SearchShape'
  OBVIOUS
<1>2. HitsAreTrue'
  BY DEF HitsAreTrue, Located
<1>3. StillOpen'
  BY DEF StillOpen, NotMissed, Earlier
<1>4. FoundIsHit'
  BY DEF FoundIsHit
<1>5. NotFoundIsUnheard'
  <2> SUFFICES ASSUME outcome' = "notfound", ~moved, NEW n \in known,
                      address[n] = jobAt
               PROVE  /\ jobIn = "table" => silent[n] = IF searching = "kill" THEN 1 ELSE 2
                      /\ jobIn = "log" /\ searching = "find" => silent[n] > 0
    BY DEF NotFoundIsUnheard
  <2>1. hit = NoNode /\ ~cancelled /\ phase \in {"logs", "kill"} /\ answer[n] = "over"
    OBVIOUS
  <2>2. NotMissed(n)
    BY <2>1 DEF StillOpen
  <2> QED BY <2>1, <2>2 DEF NotMissed, Earlier
<1> QED BY <1>1, <1>2, <1>3, <1>4, <1>5

LEMMA SearchInvariant == SearchSpec => []SearchInv
<1>1. SearchInit => SearchInv
  <2> SUFFICES ASSUME SearchInit PROVE SearchInv
    OBVIOUS
  <2>1. SearchTypeOK /\ SearchShape
    BY DEF SearchInit, SearchTypeOK, SearchShape
  <2> QED BY <2>1 DEF SearchInit, SearchInv, HitsAreTrue, StillOpen, FoundIsHit,
                    NotFoundIsUnheard, Asking
<1>2. SearchInv /\ [SearchNext]_searchVars => SearchInv'
  <2> SUFFICES ASSUME SearchInv, [SearchNext]_searchVars PROVE SearchInv'
    OBVIOUS
  <2>1. CASE UNCHANGED searchVars
    BY <2>1 DEF searchVars, jobVars, SearchInv, SearchTypeOK, SearchShape,
                HitsAreTrue, Located, StillOpen, NotMissed, Earlier, FoundIsHit,
                NotFoundIsUnheard, Asking
  <2>2. CASE SearchInterrupted
    BY <2>2 DEF SearchInterrupted, jobVars, SearchInv, SearchTypeOK, SearchShape,
                HitsAreTrue, Located, StillOpen, FoundIsHit, NotFoundIsUnheard
  <2> QED BY <2>1, <2>2, SearchBeginsKeeps, JobMovesKeeps, NodeAnswersKeeps,
             ReceiveKeeps, NotHeardKeeps, ProbeCancelledKeeps, AllHeardKeeps
             DEF SearchNext
<1> QED BY <1>1, <1>2, PTL DEF SearchSpec

\* Every variable of a search keeps its type.
THEOREM SearchTypeCorrect == SearchSpec => []SearchTypeOK
<1>1. SearchInv => SearchTypeOK
  BY DEF SearchInv
<1> QED BY <1>1, SearchInvariant, PTL

\* A search that says where a job is, that it is nowhere, or that it has been
\* killed tells the truth, for any nodes, aliases and losses.
THEOREM SearchIsTruthful == SearchSpec => []SearchTellsTruth
<1>1. SearchInv => SearchTellsTruth
  BY DEF SearchInv, SearchTellsTruth, HitsAreTrue, Located, FoundIsHit,
         NotFoundIsUnheard
<1> QED BY <1>1, SearchInvariant, PTL

-----------------------------------------------------------------------------
(* cw rm.  The counter is exact but between a removal and its counting, no  *)
(* number that is shown is ahead of it, and the walk ends with an error or  *)
(* with nothing left.                                                       *)

Whole ==
  /\ Root \in there
  /\ there # {Root} => \E e \in there \ {Root} : parent[e] = Root
Fresh ==
  left = there /\ err = FALSE /\ raced = FALSE /\ rmResult = "none"

CountFits ==
  /\ remover # "add" => count = Removed
  /\ remover = "add" => count + 1 = Removed
  /\ reported <= count /\ shown <= count

WalkEnds ==
  /\ remover = "check" => Fresh
  /\ remover \in {"progress", "return", "last"} => err \/ left = {}
  /\ remover = "end" /\ rmResult = "none" => raced /\ (err \/ left = {})

AnswerFits ==
  /\ answered => remover = "end" /\ rmResult # "none"
  /\ rmResult = "ok" => remover = "end" /\ RmOkMeansGone
  /\ rmResult = "ok" /\ answered => shown = Cardinality(there)

RmInv == RmTypeOK /\ Whole /\ CountFits /\ WalkEnds /\ AnswerFits

LEMMA RemovedCounts ==
  ASSUME RmTypeOK
  PROVE  /\ IsFiniteSet(there) /\ IsFiniteSet(left)
         /\ Cardinality(there) \in Nat /\ Cardinality(left) \in Nat
         /\ left = {} => Removed = Cardinality(there)
         /\ \A e \in left : Cardinality(left \ {e}) = Cardinality(left) - 1
<1>1. IsFiniteSet(there)
  <2>1. IsFiniteSet(Entries \cup {Root})
    BY EntriesAssumption, FS_AddElement
  <2> QED BY <2>1, FS_Subset DEF RmTypeOK
<1>2. IsFiniteSet(left)
  BY <1>1, FS_Subset DEF RmTypeOK
<1>3. Cardinality(there) \in Nat /\ Cardinality(left) \in Nat
  BY <1>1, <1>2, FS_CardinalityType
<1>4. left = {} => Removed = Cardinality(there)
  BY <1>3, FS_EmptySet DEF Removed
<1>5. \A e \in left : Cardinality(left \ {e}) = Cardinality(left) - 1
  BY <1>2, FS_RemoveElement
<1> QED BY <1>1, <1>2, <1>3, <1>4, <1>5

\* A step that removes nothing and leaves the counter alone.
LEMMA CountStays ==
  ASSUME RmInv, UNCHANGED <<there, left, count, reported>>,
         remover # "add", remover' # "add", shown' \in {shown, count, reported}
  PROVE  CountFits'
BY DEF RmInv, RmTypeOK, CountFits, Removed

LEMMA RemoverKeeps == RmInv /\ RemoverStep => RmInv'
<1> SUFFICES ASSUME RmInv, RemoverStep PROVE RmInv'
  OBVIOUS
<1> USE DEF RmInv, rmCommand
<1>1. CASE RmRefused
  <2>1. RmTypeOK' /\ Whole'
    BY <1>1 DEF RmRefused, RmReturns, RmTypeOK, Whole
  <2>2. CountFits'
    BY <1>1, CountStays DEF RmRefused
  <2>3. WalkEnds' /\ AnswerFits'
    BY <1>1 DEF RmRefused, RmReturns, WalkEnds, AnswerFits, Fresh, RmOkMeansGone
  <2> QED BY <2>1, <2>2, <2>3
<1>2. CASE RemoveOne
  <2>1. RmTypeOK' /\ Whole'
    <3>1. left' \in SUBSET there /\ count' \in Nat /\ remover' \in {"progress", "last"}
      BY <1>2 DEF RemoveOne, RmTypeOK
    <3>2. err' \in BOOLEAN
      BY <1>2, Zenon DEF RemoveOne, RmTypeOK
    <3> QED BY <1>2, <3>1, <3>2 DEF RemoveOne, RmTypeOK, Whole
  <2>2. CountFits'
    <3>1. Fresh /\ count = Removed
      BY <1>2 DEF RemoveOne, WalkEnds, CountFits
    <3>2. there = {Root}
      BY <1>2, <3>1 DEF RemoveOne, Whole, Fresh, Children
    <3>3. Cardinality(there) = 1 /\ Cardinality({}) = 0
      BY <3>2, FS_Singleton, FS_EmptySet
    <3>4. CASE left' = {} /\ count' = 1
      BY <1>2, <3>1, <3>3, <3>4 DEF RemoveOne, CountFits, Removed, Fresh, RmTypeOK
    <3>5. CASE UNCHANGED <<left, count>> /\ remover' = "last"
      BY <1>2, <3>5, CountStays DEF RemoveOne
    <3> QED BY <1>2, <3>4, <3>5 DEF RemoveOne
  <2>3. WalkEnds' /\ AnswerFits'
    BY <1>2 DEF RemoveOne, WalkEnds, AnswerFits, Fresh
  <2> QED BY <2>1, <2>2, <2>3
<1>3. CASE RemoveTree
  <2>1. RmTypeOK' /\ Whole'
    BY <1>3 DEF RemoveTree, RmTypeOK, Whole
  <2>2. CountFits'
    BY <1>3, CountStays DEF RemoveTree
  <2>3. WalkEnds' /\ AnswerFits'
    BY <1>3 DEF RemoveTree, WalkEnds, AnswerFits, Fresh
  <2> QED BY <2>1, <2>2, <2>3
<1>4. ASSUME NEW e \in there, RemoveItem(e) PROVE RmInv'
  <2>1. RmTypeOK' /\ Whole'
    BY <1>4 DEF RemoveItem, RmTypeOK, Whole
  <2>2. CountFits'
    <3>1. Removed' = Removed + 1
      BY <1>4, RemovedCounts DEF RemoveItem, Removed
    <3> QED BY <1>4, <3>1 DEF RemoveItem, CountFits
  <2>3. WalkEnds' /\ AnswerFits'
    BY <1>4 DEF RemoveItem, WalkEnds, AnswerFits
  <2> QED BY <2>1, <2>2, <2>3
<1>5. CASE AddCount
  <2>1. RmTypeOK' /\ Whole'
    BY <1>5 DEF AddCount, RmTypeOK, Whole
  <2>2. CountFits'
    BY <1>5 DEF AddCount, CountFits, Removed, RmTypeOK
  <2>3. WalkEnds' /\ AnswerFits'
    BY <1>5 DEF AddCount, WalkEnds, AnswerFits
  <2> QED BY <2>1, <2>2, <2>3
<1>6. CASE RemoveFails \/ CloseTicker
  <2>1. RmTypeOK' /\ Whole'
    BY <1>6 DEF RemoveFails, CloseTicker, RmTypeOK, Whole
  <2>2. CountFits'
    BY <1>6, CountStays DEF RemoveFails, CloseTicker
  <2>3. WalkEnds' /\ AnswerFits'
    BY <1>6 DEF RemoveFails, CloseTicker, WalkEnds, AnswerFits
  <2> QED BY <2>1, <2>2, <2>3
<1>7. CASE LastProgress
  <2>1. RmTypeOK' /\ Whole'
    BY <1>7 DEF LastProgress, ShowProgress, LineLost, RmTypeOK, Whole
  <2>2. CountFits'
    BY <1>7, CountStays DEF LastProgress, ShowProgress, LineLost
  <2>3. WalkEnds' /\ AnswerFits'
    BY <1>7 DEF LastProgress, ShowProgress, LineLost, WalkEnds, AnswerFits
  <2> QED BY <2>1, <2>2, <2>3
<1>8. CASE LastLine
  <2>1. RmTypeOK' /\ Whole'
    BY <1>8 DEF LastLine, LineLost, RmReturns, RmTypeOK, Whole
  <2>2. CountFits'
    BY <1>8, CountStays DEF LastLine, LineLost
  <2>3. WalkEnds'
    BY <1>8 DEF LastLine, LineLost, RmReturns, RmRunning, WalkEnds
  <2>4. AnswerFits'
    <3>1. left = {} => count = Cardinality(there)
      BY <1>8, RemovedCounts DEF LastLine, CountFits
    <3>2. rmResult # "ok" /\ (err \/ left = {}) /\ ~answered
      BY <1>8 DEF LastLine, AnswerFits, WalkEnds
    <3> QED BY <1>8, <3>1, <3>2
            DEF LastLine, LineLost, RmReturns, RmRunning, AnswerFits, RmOkMeansGone
  <2> QED BY <2>1, <2>2, <2>3, <2>4
<1> QED BY <1>1, <1>2, <1>3, <1>4, <1>5, <1>6, <1>7, <1>8 DEF RemoverStep

LEMMA TickerKeeps ==
  RmInv /\ (Tick \/ TickerWrites \/ TickerStops) => RmInv'
<1> SUFFICES ASSUME RmInv, Tick \/ TickerWrites \/ TickerStops PROVE RmInv'
  OBVIOUS
<1> USE DEF RmInv, rmCommand, Tick, TickerWrites, TickerStops, ShowProgress, LineLost
<1>1. RmTypeOK' /\ Whole'
  BY DEF RmTypeOK, Whole
<1>2. CountFits'
  BY DEF RmTypeOK, CountFits, Removed
<1>3. WalkEnds'
  BY DEF WalkEnds, Fresh, CountFits
<1>4. AnswerFits'
  BY DEF AnswerFits, RmOkMeansGone, RmRunning
<1> QED BY <1>1, <1>2, <1>3, <1>4

LEMMA ClientKeeps == RmInv /\ (EndOfBody \/ ClientLeaves) => RmInv'
<1> SUFFICES ASSUME RmInv, EndOfBody \/ ClientLeaves PROVE RmInv'
  OBVIOUS
<1> USE DEF RmInv, rmCommand, EndOfBody, ClientLeaves, RmReturns, RmRunning
<1>1. RmTypeOK' /\ Whole'
  BY DEF RmTypeOK, Whole
<1>2. CountFits'
  BY DEF CountFits, Removed
<1>3. WalkEnds'
  BY DEF WalkEnds
<1>4. AnswerFits'
  BY DEF AnswerFits, WalkEnds, RmOkMeansGone
<1> QED BY <1>1, <1>2, <1>3, <1>4

\* RmInv holds in every state of cw rm.
LEMMA RmInvariant == RmSpec => []RmInv
<1>1. RmInit => RmInv
  <2> SUFFICES ASSUME RmInit PROVE RmInv
    OBVIOUS
  <2>1. RmTypeOK
    BY EntriesAssumption DEF RmInit, RmTypeOK
  <2>2. Removed = 0
    BY <2>1, RemovedCounts DEF RmInit, Removed
  <2> QED BY <2>1, <2>2 DEF RmInit, RmInv, Whole, CountFits, WalkEnds, Fresh, AnswerFits
<1>2. RmInv /\ [RmNext]_rmVars => RmInv'
  <2> SUFFICES ASSUME RmInv, [RmNext]_rmVars PROVE RmInv'
    OBVIOUS
  <2>1. CASE UNCHANGED rmVars
    BY <2>1 DEF rmVars, rmCommand, RmInv, RmTypeOK, Whole, CountFits, Removed,
                WalkEnds, Fresh, AnswerFits, RmOkMeansGone
  <2> QED BY <2>1, RemoverKeeps, TickerKeeps, ClientKeeps DEF RmNext
<1> QED BY <1>1, <1>2, PTL DEF RmSpec

\* Every variable of a cw rm keeps its type.
THEOREM RmTypeCorrect == RmSpec => []RmTypeOK
<1>1. RmInv => RmTypeOK
  BY DEF RmInv
<1> QED BY <1>1, RmInvariant, PTL

\* A cw rm that reports success has left nothing, whatever the tree and however
\* the ticker and the handler meet.
THEOREM RmIsTruthful == RmSpec => []RmOkMeansGone
<1>1. RmInv => RmOkMeansGone
  BY DEF RmInv, AnswerFits, RmOkMeansGone
<1> QED BY <1>1, RmInvariant, PTL

\* No count that cw rm shows is ahead of what is gone, and its last is exact.
THEOREM RmCountIsHonest == RmSpec => []CountIsHonest
<1>1. RmInv => CountIsHonest
  BY RemovedCounts DEF RmInv, RmTypeOK, CountFits, AnswerFits, CountIsHonest, Removed
<1> QED BY <1>1, RmInvariant, PTL

-----------------------------------------------------------------------------
(* cw diff.  A list that is complete names every file of its side, so the   *)
(* comparison is one of the sides and not of what was heard of them.        *)

FileMaps == UNION {[ps -> Blobs] : ps \in SUBSET Paths}

Scanned ==
  /\ files \in [Sides -> FileMaps]
  /\ grown["dst"] = {} /\ grown["src"] \subseteq PathsOf("src")
Listed ==
  /\ stage \in [Sides -> {"init", "hash", "ok", "own", "cancel"}]
  /\ list \in [Sides -> SUBSET Paths]
  /\ \A s \in Sides : path[s] # NoPath => path[s] \in PathsOf(s)
  /\ \A s \in Sides : list[s] \subseteq PathsOf(s)
  /\ \A s \in Sides : stage[s] = "ok" => list[s] = PathsOf(s)

DiffInv ==
  /\ path \in [Sides -> Paths \cup {NoPath}]
  /\ Scanned /\ Listed /\ DiffTellsTruth

\* What two complete lists say is what the two sides are.
LEMMA VerdictIsTrue ==
  ASSUME Scanned, \A s \in Sides : list[s] = PathsOf(s)
  PROVE  /\ CompareFileInfos \in {0, 1}
         /\ CompareFileInfos = 0 <=> files["src"] = files["dst"] /\ Unchanged
<1> DEFINE F == files["src"] G == files["dst"]
<1>1. F \in FileMaps /\ G \in FileMaps
  BY DEF Scanned, Sides
<1>2. PICK ps \in SUBSET Paths : F \in [ps -> Blobs]
  BY <1>1 DEF FileMaps
<1>3. PICK qs \in SUBSET Paths : G \in [qs -> Blobs]
  BY <1>1 DEF FileMaps
<1>4. list["src"] = ps /\ list["dst"] = qs
  BY <1>2, <1>3 DEF PathsOf, Sides
<1>5. CompareFileInfos = 0 <=> ps = qs /\ Matched = Both
  BY <1>4 DEF CompareFileInfos, Modified, Added, Deleted, Matched, Both
<1>6. ASSUME NEW p \in ps \cap qs
      PROVE  Entry("src", p) = Entry("dst", p) <=> F[p] = G[p] /\ p \notin grown["src"]
  <2>1. F[p] \in [size : Nat, hash : STRING \ {"grown"}]
        /\ G[p] \in [size : Nat, hash : STRING \ {"grown"}]
    BY <1>2, <1>3, <1>6, BlobsAssumption
  <2>2. Entry("dst", p) = G[p]
    BY <2>1 DEF Entry, Scanned
  <2>3. CASE p \in grown["src"]
    <3>1. Entry("src", p).hash = "grown"
      BY <2>3 DEF Entry
    <3>2. G[p].hash # "grown"
      BY <2>1
    <3> QED BY <2>2, <2>3, <3>1, <3>2
  <2>4. CASE p \notin grown["src"]
    <3>1. Entry("src", p) = F[p]
      BY <2>1, <2>4 DEF Entry
    <3> QED BY <2>2, <2>4, <3>1
  <2> QED BY <2>3, <2>4
<1>7. Matched = Both <=> \A p \in ps \cap qs : F[p] = G[p] /\ p \notin grown["src"]
  BY <1>4, <1>6 DEF Matched, Both
<1>8. grown["src"] \subseteq ps
  BY <1>2 DEF Scanned, PathsOf
<1>9. ps = qs /\ Matched = Both <=> F = G /\ grown["src"] = {}
  BY <1>2, <1>3, <1>7, <1>8
<1>10. Unchanged <=> grown["src"] = {}
  BY DEF Unchanged, Sides, Scanned
<1> QED BY <1>5, <1>9, <1>10 DEF CompareFileInfos

LEMMA HashKeeps ==
  ASSUME DiffInv, NEW s \in Sides, HashStep(s) PROVE DiffInv'
<1> USE DEF DiffInv, diffCommand, position, tracker
<1>1. UNCHANGED <<far, files, grown, exit>>
  BY DEF HashStep, InitEvent, OpenFile, ReadBlock, EntryEvent, StreamEnd,
         StreamFails, StreamCancelled
<1>2. Scanned' /\ DiffTellsTruth' /\ \A t \in Sides : PathsOf(t)' = PathsOf(t)
  BY <1>1 DEF Scanned, DiffTellsTruth, Unchanged, PathsOf
<1>3. CASE InitEvent(s) \/ ReadBlock(s) \/ StreamFails(s) \/ StreamCancelled(s)
  <2>1. path' = path /\ list' = list
        /\ \E t \in {"init", "hash", "own", "cancel"} :
             stage' = stage \/ stage' = [stage EXCEPT ![s] = t]
    BY <1>3 DEF InitEvent, ReadBlock, StreamFails, StreamCancelled
  <2> QED BY <1>2, <2>1 DEF Listed
<1>4. ASSUME NEW p \in Paths, OpenFile(s, p) PROVE Listed' /\ path' \in [Sides -> Paths \cup {NoPath}]
  BY <1>2, <1>4 DEF OpenFile, Listed
<1>5. CASE EntryEvent(s)
  <2>1. path[s] \in PathsOf(s) /\ path[s] \in Paths /\ stage[s] = "hash"
    BY <1>5 DEF EntryEvent, Listed
  <2>2. path' = [path EXCEPT ![s] = NoPath] /\ stage' = stage
        /\ list' = [list EXCEPT ![s] = @ \cup {path[s]}]
    BY <1>5 DEF EntryEvent
  <2>3. list' \in [Sides -> SUBSET Paths]
    BY <2>1, <2>2 DEF Listed
  <2>4. \A t \in Sides : list'[t] \subseteq PathsOf(t)
    BY <2>1, <2>2 DEF Listed
  <2>5. \A t \in Sides : stage'[t] = "ok" => list'[t] = PathsOf(t)
    BY <2>1, <2>2 DEF Listed
  <2> QED BY <1>2, <2>2, <2>3, <2>4, <2>5 DEF Listed
<1>6. CASE StreamEnd(s)
  BY <1>2, <1>6 DEF StreamEnd, Listed
<1> QED BY <1>2, <1>3, <1>4, <1>5, <1>6 DEF HashStep

LEMMA DiffKeeps ==
  ASSUME DiffInv, [DiffNext]_diffVars PROVE DiffInv'
<1>1. CASE UNCHANGED diffVars
  BY <1>1 DEF diffVars, diffCommand, DiffInv, Scanned, Listed, DiffTellsTruth,
              Unchanged, PathsOf
<1>2. CASE Compare
  <2>1. UNCHANGED <<files, grown, stage, list, path>>
    BY <1>2 DEF Compare, diffCommand
  <2>2. Scanned' /\ Listed' /\ path' \in [Sides -> Paths \cup {NoPath}]
    BY <2>1 DEF DiffInv, Scanned, Listed, PathsOf
  <2>3. CASE exit' \in {0, 1}
    <3>1. exit' = CompareFileInfos /\ \A s \in Sides : stage[s] = "ok"
      BY <1>2, <2>3 DEF Compare
    <3>2. \A s \in Sides : list[s] = PathsOf(s)
      BY <3>1 DEF DiffInv, Listed
    <3>3. CompareFileInfos = 0 <=> files["src"] = files["dst"] /\ Unchanged
      BY <3>2, VerdictIsTrue DEF DiffInv
    <3> QED BY <2>1, <2>2, <2>3, <3>1, <3>3 DEF DiffInv, DiffTellsTruth, Unchanged
  <2>4. CASE exit' \notin {0, 1}
    BY <2>2, <2>4 DEF DiffInv, DiffTellsTruth
  <2> QED BY <2>3, <2>4
<1>3. CASE DiffInterrupt
  BY <1>3 DEF DiffInterrupt, diffCommand, DiffInv, Scanned, Listed,
              DiffTellsTruth, Unchanged, PathsOf
<1> QED BY <1>1, <1>2, <1>3, HashKeeps DEF DiffNext

\* An exit code 0 or 1 of cw diff says what the two sides are, whatever files
\* they hold and however their streams end.
THEOREM DiffIsTruthful == DiffSpec => []DiffTellsTruth
<1>1. DiffInit => DiffInv
  BY DEF DiffInit, DiffInv, FileMaps, Scanned, Listed, DiffTellsTruth, Sides
<1>2. DiffInv /\ [DiffNext]_diffVars => DiffInv'
  BY DiffKeeps
<1>3. DiffInv => DiffTellsTruth
  BY DEF DiffInv
<1> QED BY <1>1, <1>2, <1>3, PTL DEF DiffSpec

-----------------------------------------------------------------------------
(* The tally of cw diff.  The total is what has been announced of each side, *)
(* and the bytes are the blocks of the listed files and those that progress *)
(* events have counted of the file at hand.                                 *)

\* A side's files are finitely many blocks.
LEMMA BlocksFinite ==
  ASSUME DiffTypeOK, NEW s \in Sides, NEW ps \in SUBSET PathsOf(s)
  PROVE  /\ IsFiniteSet(ps) /\ Cardinality(ps) \in Nat
         /\ IsFiniteSet(Blocks(s, ps)) /\ Cardinality(Blocks(s, ps)) \in Nat
         /\ \A p \in PathsOf(s) : p \in Paths /\ files[s][p].size \in Nat
<1> DEFINE Of(p) == {p} \X (1..files[s][p].size)
           T == {Of(p) : p \in ps}
<1>1. PICK qs \in SUBSET Paths : files[s] \in [qs -> Blobs]
  BY DEF DiffTypeOK
<1>2. PathsOf(s) = qs
  BY <1>1 DEF PathsOf
<1>3. \A p \in PathsOf(s) : p \in Paths /\ files[s][p].size \in Nat
  BY <1>1, <1>2, BlobsAssumption
<1>4. IsFiniteSet(ps)
  BY <1>2, PathsAssumption, FS_Subset
<1>5. \A p \in ps : IsFiniteSet(Of(p))
  <2> SUFFICES ASSUME NEW p \in ps PROVE IsFiniteSet(Of(p))
    OBVIOUS
  <2>1. IsFiniteSet({p})
    BY FS_Singleton
  <2>2. files[s][p].size \in Int
    BY <1>3
  <2>3. IsFiniteSet(1..files[s][p].size)
    BY <2>2, FS_Interval
  <2> QED BY <2>1, <2>3, FS_Product
<1>6. IsFiniteSet(T)
  <2> DEFINE f == [p \in ps |-> Of(p)]
  <2>1. f \in Surjection(ps, T)
    BY DEF Surjection
  <2> HIDE DEF f, T
  <2> QED BY <1>4, <2>1, FS_Surjection
<1>7. \A t \in T : IsFiniteSet(t)
  BY <1>5
<1>8. IsFiniteSet(UNION T)
  <2> HIDE DEF T
  <2> QED BY <1>6, <1>7, FS_UNION
<1>9. Blocks(s, ps) = UNION T
  BY DEF Blocks
<1> HIDE DEF T
<1> QED BY <1>3, <1>4, <1>8, <1>9, FS_CardinalityType

\* One more file is its blocks more.
LEMMA BlocksAdd ==
  ASSUME DiffTypeOK, NEW s \in Sides, NEW ps \in SUBSET PathsOf(s),
         NEW p \in PathsOf(s) \ ps
  PROVE  /\ Cardinality(Blocks(s, ps \cup {p}))
              = Cardinality(Blocks(s, ps)) + files[s][p].size
         /\ Cardinality(ps \cup {p}) = Cardinality(ps) + 1
<1> DEFINE Own == {p} \X (1..files[s][p].size)
<1>1. IsFiniteSet(ps) /\ IsFiniteSet(Blocks(s, ps)) /\ Cardinality(Blocks(s, ps)) \in Nat
      /\ files[s][p].size \in Nat
  BY BlocksFinite
<1>2. IsFiniteSet({p}) /\ Cardinality({p}) = 1
  BY FS_Singleton
<1>3. /\ IsFiniteSet(1..files[s][p].size)
      /\ Cardinality(1..files[s][p].size) = files[s][p].size
  <2>1. files[s][p].size \in Int /\ 1 \in Int
    BY <1>1
  <2>2. /\ IsFiniteSet(1..files[s][p].size)
        /\ Cardinality(1..files[s][p].size)
             = IF 1 > files[s][p].size THEN 0 ELSE files[s][p].size - 1 + 1
    BY <2>1, FS_Interval
  <2> QED BY <1>1, <2>2
<1>4. IsFiniteSet(Own) /\ Cardinality(Own) = Cardinality({p}) * Cardinality(1..files[s][p].size)
  BY <1>2, <1>3, FS_Product
<1>5. Cardinality(Own) = files[s][p].size
  BY <1>1, <1>2, <1>3, <1>4
<1>6. Blocks(s, ps \cup {p}) = Blocks(s, ps) \cup Own
  BY DEF Blocks
<1>7. Blocks(s, ps) \cap Own = {}
  BY DEF Blocks
<1> HIDE DEF Own
<1>8. Cardinality(Blocks(s, ps) \cup Own)
        = Cardinality(Blocks(s, ps)) + Cardinality(Own) - Cardinality(Blocks(s, ps) \cap Own)
  BY <1>1, <1>4, FS_Union
<1>9. Cardinality(Blocks(s, ps) \cap Own) = 0
  BY <1>7, FS_EmptySet
<1>10. Cardinality(ps \cup {p}) = Cardinality(ps) + 1
  BY <1>1, FS_AddElement
<1>11. Cardinality(Blocks(s, ps \cup {p}))
         = Cardinality(Blocks(s, ps)) + Cardinality(Own) - 0
  BY <1>6, <1>8, <1>9
<1> QED BY <1>1, <1>5, <1>10, <1>11

\* Fewer files are no more blocks.
LEMMA BlocksSubset ==
  ASSUME DiffTypeOK, NEW s \in Sides, NEW qs \in SUBSET PathsOf(s), NEW ps \in SUBSET qs
  PROVE  Cardinality(Blocks(s, ps)) <= Cardinality(Blocks(s, qs))
<1>1. Blocks(s, ps) \in SUBSET Blocks(s, qs)
  BY DEF Blocks
<1>2. IsFiniteSet(Blocks(s, qs))
  BY BlocksFinite
<1> QED BY <1>1, <1>2, FS_Subset

\* Where a side is, and what the client has made of its events.
Placed(s) ==
  /\ currentFile[s] \in {NoPath, path[s]}
  /\ currentFile[s] = NoPath => currentFileDoneBytes[s] = 0
  /\ currentFileDoneBytes[s] <= done[s]
  /\ path[s] # NoPath =>
       path[s] \in PathsOf(s) \ list[s] /\ done[s] <= Length(s, path[s])
  /\ stage[s] = "init" => list[s] = {} /\ path[s] = NoPath
  /\ stage[s] = "ok" => path[s] = NoPath

\* The sides in begun have announced their files.
Announced(begun) ==
  /\ \A s \in Sides : stage[s] = "init" => s \notin begun
  /\ \A s \in Sides : stage[s] \in {"hash", "ok"} => s \in begun
  /\ \A s \in Sides \ begun : list[s] = {} /\ path[s] = NoPath
  /\ totalFiles = (IF "src" \in begun THEN Cardinality(PathsOf("src")) ELSE 0)
                  + (IF "dst" \in begun THEN Cardinality(PathsOf("dst")) ELSE 0)
  /\ totalBytes = (IF "src" \in begun THEN SizeSum("src") ELSE 0)
                  + (IF "dst" \in begun THEN SizeSum("dst") ELSE 0)

Tallied(s) == Cardinality(Blocks(s, list[s])) + currentFileDoneBytes[s]

TallyInv ==
  /\ DiffTypeOK /\ Listed
  /\ \A s \in Sides : Placed(s)
  /\ \E begun \in SUBSET Sides : Announced(begun)
  /\ completedFiles = Cardinality(list["src"]) + Cardinality(list["dst"])
  /\ Unchanged => bytes = Tallied("src") + Tallied("dst")
  /\ \A p \in active : p # NoPath /\ \E s \in Sides : path[s] = p
  /\ exit \in {0, 1} => \A s \in Sides : stage[s] = "ok"

\* What the tally is made of stays where its side's state stays.
LEMMA TallyStays ==
  ASSUME NEW s, UNCHANGED <<files, grown>>, stage'[s] = stage[s], path'[s] = path[s],
         done'[s] = done[s], list'[s] = list[s], currentFile'[s] = currentFile[s],
         currentFileDoneBytes'[s] = currentFileDoneBytes[s]
  PROVE  Tallied(s)' = Tallied(s) /\ (Placed(s)' <=> Placed(s))
BY DEF Tallied, Placed, Blocks, PathsOf, Length

LEMMA SeenIsCounted ==
  ASSUME TallyInv, NEW s \in Sides, path[s] # NoPath
  PROVE  /\ Seen(s) = currentFileDoneBytes[s] /\ Seen(s) \in Nat /\ Seen(s) <= done[s]
         /\ done[s] \in Nat /\ files[s][path[s]].size \in Nat
         /\ path[s] \in PathsOf(s) \ list[s] /\ path[s] \in Paths
         /\ done[s] <= Length(s, path[s])
         /\ Unchanged => Length(s, path[s]) = files[s][path[s]].size
<1>1. Placed(s) /\ DiffTypeOK
  BY DEF TallyInv
<1>2. path[s] \in PathsOf(s) \ list[s] /\ done[s] <= Length(s, path[s])
  BY <1>1 DEF Placed
<1>3. files[s][path[s]].size \in Nat /\ path[s] \in Paths
  <2>1. {} \in SUBSET PathsOf(s)
    OBVIOUS
  <2> QED BY <1>1, <1>2, <2>1, BlocksFinite
<1>4. done[s] \in Nat /\ currentFileDoneBytes[s] \in Nat
  BY <1>1 DEF DiffTypeOK
<1>5. Seen(s) = currentFileDoneBytes[s] /\ Seen(s) <= done[s]
  BY <1>1, <1>4 DEF Placed, Seen
<1>6. Unchanged => Length(s, path[s]) = files[s][path[s]].size
  BY <1>3 DEF Unchanged, Length
<1> QED BY <1>2, <1>3, <1>4, <1>5, <1>6

\* The sum over the two sides changes by what one of them changes.
LEMMA TallyChanges ==
  ASSUME NEW s \in Sides, NEW d \in Nat,
         \A t \in Sides : Tallied(t) \in Nat,
         Tallied(s)' = Tallied(s) + d,
         \A t \in Sides \ {s} : Tallied(t)' = Tallied(t)
  PROVE  Tallied("src")' + Tallied("dst")' = Tallied("src") + Tallied("dst") + d
<1>1. CASE s = "src"
  <2>1. Tallied("dst")' = Tallied("dst") /\ Tallied("src") \in Nat /\ Tallied("dst") \in Nat
    BY <1>1 DEF Sides
  <2> QED BY <1>1, <2>1
<1>2. CASE s = "dst"
  <2>1. Tallied("src")' = Tallied("src") /\ Tallied("src") \in Nat /\ Tallied("dst") \in Nat
    BY <1>2 DEF Sides
  <2> QED BY <1>2, <2>1
<1> QED BY <1>1, <1>2 DEF Sides

LEMMA TalliedType ==
  ASSUME TallyInv PROVE \A t \in Sides : Tallied(t) \in Nat
<1> SUFFICES ASSUME NEW t \in Sides PROVE Tallied(t) \in Nat
  OBVIOUS
<1>1. list[t] \in SUBSET PathsOf(t)
  BY DEF TallyInv, Listed
<1>2. Cardinality(Blocks(t, list[t])) \in Nat
  BY <1>1, BlocksFinite DEF TallyInv
<1> QED BY <1>2 DEF TallyInv, DiffTypeOK, Tallied

LEMMA InitEventTallies ==
  ASSUME TallyInv, NEW s \in Sides, InitEvent(s), Listed' PROVE TallyInv'
<1>1. DiffTypeOK /\ Listed /\ \A t \in Sides : Placed(t)
  BY DEF TallyInv
<1>2. /\ UNCHANGED <<far, files, grown, path, done, list, currentFile,
                     currentFileDoneBytes, completedFiles, bytes, active, ctxDone,
                     interrupted, exit>>
      /\ stage[s] = "init" /\ stage' = [stage EXCEPT ![s] = "hash"]
      /\ totalFiles' = totalFiles + Cardinality(PathsOf(s))
      /\ totalBytes' = totalBytes + SizeSum(s)
  BY DEF InitEvent, diffCommand, position
<1>3. \A t \in Sides : Cardinality(PathsOf(t)) \in Nat /\ SizeSum(t) \in Nat
  <2> SUFFICES ASSUME NEW t \in Sides
               PROVE  Cardinality(PathsOf(t)) \in Nat /\ SizeSum(t) \in Nat
    OBVIOUS
  <2>1. PathsOf(t) \in SUBSET PathsOf(t)
    OBVIOUS
  <2> QED BY <1>1, <2>1, BlocksFinite DEF SizeSum
<1>4. DiffTypeOK'
  BY <1>1, <1>2, <1>3 DEF DiffTypeOK
<1>5. \A t \in Sides : stage'[t] = IF t = s THEN "hash" ELSE stage[t]
  BY <1>1, <1>2 DEF DiffTypeOK
<1>6. \A t \in Sides : Placed(t)'
  BY <1>1, <1>2, <1>5 DEF Placed, PathsOf, Length
<1>7. /\ \A t \in Sides : PathsOf(t)' = PathsOf(t) /\ SizeSum(t)' = SizeSum(t)
      /\ \A t \in Sides : Tallied(t)' = Tallied(t)
      /\ (Unchanged' <=> Unchanged)
  BY <1>2 DEF PathsOf, SizeSum, Blocks, Tallied, Unchanged
<1>8. PICK begun \in SUBSET Sides : Announced(begun)
  BY DEF TallyInv
<1>9. s \notin begun
  BY <1>2, <1>8 DEF Announced
<1> DEFINE B == begun \cup {s}
<1>10. /\ \A t \in Sides : stage'[t] = "init" => t \notin B
       /\ \A t \in Sides : stage'[t] \in {"hash", "ok"} => t \in B
       /\ \A t \in Sides \ B : list'[t] = {} /\ path'[t] = NoPath
  BY <1>2, <1>5, <1>8 DEF Announced
<1>11. totalFiles' = (IF "src" \in B THEN Cardinality(PathsOf("src")) ELSE 0)
                     + (IF "dst" \in B THEN Cardinality(PathsOf("dst")) ELSE 0)
       /\ totalBytes' = (IF "src" \in B THEN SizeSum("src") ELSE 0)
                        + (IF "dst" \in B THEN SizeSum("dst") ELSE 0)
  <2>1. /\ Cardinality(PathsOf("src")) \in Nat /\ Cardinality(PathsOf("dst")) \in Nat
        /\ SizeSum("src") \in Nat /\ SizeSum("dst") \in Nat
    BY <1>3 DEF Sides
  <2>2. CASE s = "src"
    BY <1>2, <1>8, <1>9, <2>1, <2>2 DEF Announced
  <2>3. CASE s = "dst"
    BY <1>2, <1>8, <1>9, <2>1, <2>3 DEF Announced
  <2> QED BY <2>2, <2>3 DEF Sides
<1>12. /\ PathsOf("src")' = PathsOf("src") /\ PathsOf("dst")' = PathsOf("dst")
       /\ SizeSum("src")' = SizeSum("src") /\ SizeSum("dst")' = SizeSum("dst")
       /\ Tallied("src")' = Tallied("src") /\ Tallied("dst")' = Tallied("dst")
  BY <1>7 DEF Sides
<1>13. B \in SUBSET Sides
  OBVIOUS
<1> HIDE DEF B
<1>14. Announced(B)'
  BY <1>10, <1>11, <1>12 DEF Announced
<1>15. \E b \in SUBSET Sides : Announced(b)'
  BY <1>13, <1>14
<1>16. exit' \in {0, 1} => \A t \in Sides : stage'[t] = "ok"
  BY <1>2, <1>5 DEF TallyInv
<1>17. /\ completedFiles' = Cardinality(list'["src"]) + Cardinality(list'["dst"])
       /\ Unchanged' => bytes' = Tallied("src")' + Tallied("dst")'
       /\ \A p \in active' : p # NoPath /\ \E t \in Sides : path'[t] = p
  BY <1>2, <1>7, <1>12 DEF TallyInv
<1> QED BY <1>4, <1>6, <1>15, <1>16, <1>17 DEF TallyInv

\* What is announced stays when no side announces anything.
LEMMA AnnouncedStays ==
  ASSUME TallyInv, UNCHANGED <<files, totalFiles, totalBytes>>, NEW s \in Sides,
         \A t \in Sides : stage'[t] = "init" => stage[t] = "init",
         \A t \in Sides : stage'[t] \in {"hash", "ok"} => stage[t] \in {"hash", "ok"},
         \A t \in Sides \ {s} : list'[t] = list[t] /\ path'[t] = path[t],
         stage[s] \in {"hash", "ok"} \/ (list'[s] = list[s] /\ path'[s] = path[s])
  PROVE  \E begun \in SUBSET Sides : Announced(begun)'
<1>1. PICK begun \in SUBSET Sides : Announced(begun)
  BY DEF TallyInv
<1>2. \A t \in Sides : stage'[t] = "init" => t \notin begun
  BY <1>1 DEF Announced
<1>3. \A t \in Sides : stage'[t] \in {"hash", "ok"} => t \in begun
  BY <1>1 DEF Announced
<1>4. \A t \in Sides \ begun : list'[t] = {} /\ path'[t] = NoPath
  BY <1>1 DEF Announced
<1>5. /\ PathsOf("src")' = PathsOf("src") /\ PathsOf("dst")' = PathsOf("dst")
      /\ SizeSum("src")' = SizeSum("src") /\ SizeSum("dst")' = SizeSum("dst")
  BY DEF PathsOf, SizeSum, Blocks
<1>6. Announced(begun)'
  BY <1>1, <1>2, <1>3, <1>4, <1>5 DEF Announced
<1> QED BY <1>6

\* A step that moves no file and counts nothing keeps the tally.
LEMMA QuietStepTallies ==
  ASSUME TallyInv, Listed',
         UNCHANGED <<far, files, grown, path, done, list, currentFile,
                     currentFileDoneBytes, totalFiles, totalBytes, completedFiles,
                     bytes, active>>,
         stage' \in [Sides -> {"init", "hash", "ok", "own", "cancel"}],
         ctxDone' \in BOOLEAN, interrupted' \in BOOLEAN,
         exit' \in {-1, 0, 1, 2, 130},
         \A t \in Sides : stage'[t] = "init" => stage[t] = "init",
         \A t \in Sides : stage'[t] \in {"hash", "ok"} => stage[t] \in {"hash", "ok"},
         \A t \in Sides : stage'[t] = "ok" => path[t] = NoPath,
         exit' \in {0, 1} => \A t \in Sides : stage'[t] = "ok"
  PROVE  TallyInv'
<1>1. DiffTypeOK'
  BY DEF TallyInv, DiffTypeOK
<1>2. \A t \in Sides : Placed(t)'
  BY DEF TallyInv, Placed, PathsOf, Length
<1>3. \E begun \in SUBSET Sides : Announced(begun)'
  <2>1. PICK s \in Sides : TRUE
    BY DEF Sides
  <2> QED BY <2>1, AnnouncedStays
<1>4. Tallied("src")' = Tallied("src") /\ Tallied("dst")' = Tallied("dst")
      /\ (Unchanged' <=> Unchanged)
  BY DEF Tallied, Blocks, Unchanged
<1>5. /\ completedFiles' = Cardinality(list'["src"]) + Cardinality(list'["dst"])
      /\ Unchanged' => bytes' = Tallied("src")' + Tallied("dst")'
      /\ \A p \in active' : p # NoPath /\ \E t \in Sides : path'[t] = p
  BY <1>4 DEF TallyInv
<1> QED BY <1>1, <1>2, <1>3, <1>5 DEF TallyInv

LEMMA StageMoves ==
  ASSUME TallyInv, Listed', NEW s \in Sides,
         StreamEnd(s) \/ StreamFails(s) \/ StreamCancelled(s)
  PROVE  TallyInv'
<1>1. /\ UNCHANGED <<far, files, grown, path, done, list, currentFile,
                     currentFileDoneBytes, totalFiles, totalBytes, completedFiles,
                     bytes, active, interrupted, exit>>
      /\ stage[s] \in {"init", "hash"}
  BY DEF StreamEnd, StreamFails, StreamCancelled, diffCommand, position, tracker
<1>2. PICK to \in {"ok", "own", "cancel"} :
        /\ stage' = [stage EXCEPT ![s] = to]
        /\ to = "ok" => path[s] = NoPath /\ stage[s] = "hash"
  BY DEF StreamEnd, StreamFails, StreamCancelled
<1>3. DiffTypeOK /\ \A t \in Sides : Placed(t)
  BY DEF TallyInv
<1>4. \A t \in Sides : stage'[t] = IF t = s THEN to ELSE stage[t]
  BY <1>2, <1>3 DEF DiffTypeOK
<1>5. stage' \in [Sides -> {"init", "hash", "ok", "own", "cancel"}]
  BY <1>2, <1>3 DEF DiffTypeOK
<1>6. \A t \in Sides : stage'[t] = "ok" => path[t] = NoPath
  BY <1>2, <1>3, <1>4 DEF Placed
<1>7. exit' \notin {0, 1}
  BY <1>1 DEF TallyInv
<1>8. ctxDone' \in BOOLEAN /\ interrupted' \in BOOLEAN
  <2>1. ctxDone' = ctxDone \/ ctxDone' = TRUE
    BY DEF StreamEnd, StreamFails, StreamCancelled
  <2> QED BY <1>1, <1>3, <2>1 DEF DiffTypeOK
<1>9. exit' \in {-1, 0, 1, 2, 130}
  BY <1>1, <1>3 DEF DiffTypeOK
<1>10. \A t \in Sides : stage'[t] = "init" => stage[t] = "init"
  BY <1>2, <1>4
<1>11. \A t \in Sides : stage'[t] \in {"hash", "ok"} => stage[t] \in {"hash", "ok"}
  BY <1>2, <1>4
<1> QED BY <1>1, <1>5, <1>6, <1>7, <1>8, <1>9, <1>10, <1>11, QuietStepTallies

LEMMA OpenFileTallies ==
  ASSUME TallyInv, Listed', NEW s \in Sides, NEW p \in Paths, OpenFile(s, p)
  PROVE  TallyInv'
<1>1. /\ UNCHANGED <<far, files, grown, stage, list, currentFile,
                     currentFileDoneBytes, totalFiles, totalBytes, completedFiles,
                     bytes, active, ctxDone, interrupted, exit>>
      /\ stage[s] = "hash" /\ path[s] = NoPath /\ p \in PathsOf(s) \ list[s]
      /\ path' = [path EXCEPT ![s] = p] /\ done' = [done EXCEPT ![s] = 0]
  BY DEF OpenFile, diffCommand, position, tracker
<1>2. DiffTypeOK /\ \A t \in Sides : Placed(t)
  BY DEF TallyInv
<1>3. \A t \in Sides : /\ path'[t] = IF t = s THEN p ELSE path[t]
                       /\ done'[t] = IF t = s THEN 0 ELSE done[t]
  BY <1>1, <1>2 DEF DiffTypeOK
<1>4. DiffTypeOK'
  BY <1>1, <1>2 DEF DiffTypeOK
<1>5. Length(s, p) \in Nat
  <2>1. {} \in SUBSET PathsOf(s)
    OBVIOUS
  <2>2. files[s][p].size \in Nat
    BY <1>1, <1>2, <2>1, BlocksFinite
  <2> QED BY <2>2 DEF Length
<1>6. Placed(s)'
  <2>1. currentFile[s] = NoPath /\ currentFileDoneBytes[s] = 0
    BY <1>1, <1>2 DEF Placed
  <2>2. PathsOf(s)' = PathsOf(s) /\ Length(s, p)' = Length(s, p)
    BY <1>1 DEF PathsOf, Length
  <2> QED BY <1>1, <1>3, <1>5, <2>1, <2>2 DEF Placed
<1>7. \A t \in Sides \ {s} : Placed(t)'
  BY <1>1, <1>2, <1>3, TallyStays
<1>8. \E begun \in SUBSET Sides : Announced(begun)'
  <2>1. \A t \in Sides \ {s} : list'[t] = list[t] /\ path'[t] = path[t]
    BY <1>1, <1>3
  <2>2. stage[s] \in {"hash", "ok"}
    BY <1>1
  <2>3. \A t \in Sides : stage'[t] = "init" => stage[t] = "init"
    BY <1>1
  <2>4. \A t \in Sides : stage'[t] \in {"hash", "ok"} => stage[t] \in {"hash", "ok"}
    BY <1>1
  <2>5. UNCHANGED <<files, totalFiles, totalBytes>>
    BY <1>1
  <2> QED BY <2>1, <2>2, <2>3, <2>4, <2>5, AnnouncedStays
<1>9. Tallied("src")' = Tallied("src") /\ Tallied("dst")' = Tallied("dst")
      /\ (Unchanged' <=> Unchanged)
  BY <1>1 DEF Tallied, Blocks, Unchanged
<1>10. \A q \in active' : q # NoPath /\ \E t \in Sides : path'[t] = q
  <2> SUFFICES ASSUME NEW q \in active PROVE q # NoPath /\ \E t \in Sides : path'[t] = q
    BY <1>1
  <2>1. q # NoPath /\ \E t \in Sides : path[t] = q
    BY DEF TallyInv
  <2> QED BY <1>1, <1>3, <2>1
<1>11. /\ completedFiles' = Cardinality(list'["src"]) + Cardinality(list'["dst"])
       /\ Unchanged' => bytes' = Tallied("src")' + Tallied("dst")'
       /\ exit' \in {0, 1} => \A t \in Sides : stage'[t] = "ok"
  BY <1>1, <1>9 DEF TallyInv
<1> QED BY <1>4, <1>6, <1>7, <1>8, <1>10, <1>11 DEF TallyInv

\* A block that is read counts when an event tells of it.
LEMMA ReadBlockTallies ==
  ASSUME TallyInv, Listed', NEW s \in Sides, ReadBlock(s) PROVE TallyInv'
<1> DEFINE n == done[s] + 1
<1>1. /\ UNCHANGED <<far, files, grown, stage, path, list, totalFiles, totalBytes,
                     completedFiles, ctxDone, interrupted, exit>>
      /\ stage[s] = "hash" /\ path[s] # NoPath /\ done[s] < Length(s, path[s])
      /\ done' = [done EXCEPT ![s] = n]
  BY DEF ReadBlock, diffCommand
<1>2. DiffTypeOK /\ \A t \in Sides : Placed(t)
  BY DEF TallyInv
<1>3. /\ Seen(s) = currentFileDoneBytes[s] /\ Seen(s) \in Nat /\ Seen(s) <= done[s]
      /\ done[s] \in Nat /\ files[s][path[s]].size \in Nat /\ path[s] \in Paths
      /\ path[s] \in PathsOf(s) \ list[s]
  BY <1>1, SeenIsCounted
<1>4. \A t \in Sides : done'[t] = IF t = s THEN n ELSE done[t]
  BY <1>1, <1>2 DEF DiffTypeOK
<1>5. \/ ProgressEvent(s, n)
      \/ UNCHANGED <<currentFile, currentFileDoneBytes, bytes, active>>
  BY DEF ReadBlock, position
<1>6. PICK d \in Nat :
        /\ currentFileDoneBytes' \in [Sides -> Nat] /\ bytes' = bytes + d
        /\ currentFileDoneBytes'[s] = currentFileDoneBytes[s] + d
        /\ currentFileDoneBytes'[s] <= n
        /\ currentFile' \in [Sides -> Paths \cup {NoPath}]
        /\ currentFile'[s] \in {NoPath, path[s]}
        /\ currentFile'[s] = NoPath => currentFileDoneBytes'[s] = 0
        /\ \A t \in Sides \ {s} : currentFile'[t] = currentFile[t]
                         /\ currentFileDoneBytes'[t] = currentFileDoneBytes[t]
        /\ active' \in SUBSET (active \cup {path[s]})
  <2>1. CASE ProgressEvent(s, n)
    <3> DEFINE d == n - Seen(s)
    <3>1. d \in Nat /\ Positive(d) = d /\ n > Seen(s) /\ n \in Nat
      BY <1>3 DEF Positive
    <3>2. /\ bytes' = bytes + d
          /\ currentFile' = [currentFile EXCEPT ![s] = path[s]]
          /\ currentFileDoneBytes' = [currentFileDoneBytes EXCEPT ![s] = n]
          /\ active' = active \cup {path[s]}
      BY <2>1, <3>1 DEF ProgressEvent
    <3>3. n = currentFileDoneBytes[s] + d
      BY <1>3
    <3> HIDE DEF d, n
    <3>4. /\ currentFileDoneBytes' \in [Sides -> Nat]
          /\ currentFileDoneBytes'[s] = n
          /\ currentFile' \in [Sides -> Paths \cup {NoPath}]
          /\ currentFile'[s] = path[s]
          /\ \A t \in Sides \ {s} : currentFile'[t] = currentFile[t]
                         /\ currentFileDoneBytes'[t] = currentFileDoneBytes[t]
      BY <1>2, <1>3, <3>1, <3>2 DEF DiffTypeOK
    <3>5. n <= n
      BY <3>1
    <3> QED BY <1>1, <3>1, <3>2, <3>3, <3>4, <3>5
  <2>2. CASE UNCHANGED <<currentFile, currentFileDoneBytes, bytes, active>>
    <3>1. /\ currentFileDoneBytes[s] \in Nat /\ bytes \in Nat
          /\ currentFileDoneBytes \in [Sides -> Nat]
          /\ currentFile \in [Sides -> Paths \cup {NoPath}]
      BY <1>2 DEF DiffTypeOK
    <3>2. /\ currentFileDoneBytes[s] + 0 = currentFileDoneBytes[s] /\ bytes + 0 = bytes
          /\ currentFileDoneBytes[s] <= n /\ 0 \in Nat
      BY <1>3, <3>1
    <3>3. /\ currentFile[s] \in {NoPath, path[s]}
          /\ currentFile[s] = NoPath => currentFileDoneBytes[s] = 0
      BY <1>2 DEF Placed
    <3> HIDE DEF n
    <3> QED BY <2>2, <3>1, <3>2, <3>3
  <2> HIDE DEF n
  <2> QED BY <1>5, <2>1, <2>2
<1>7. n \in Nat /\ n <= Length(s, path[s])
  <2>1. Length(s, path[s]) \in Nat
    BY <1>3 DEF Length
  <2> QED BY <1>1, <1>3, <2>1
<1> HIDE DEF n
<1>8. DiffTypeOK'
  <2>1. bytes' \in Nat /\ active' \in SUBSET Paths
    BY <1>2, <1>3, <1>6 DEF DiffTypeOK
  <2>2. done' \in [Sides -> Nat]
    BY <1>1, <1>2, <1>7 DEF DiffTypeOK
  <2> QED BY <1>1, <1>2, <1>6, <2>1, <2>2 DEF DiffTypeOK
<1>9. Placed(s)'
  <2>1. PathsOf(s)' = PathsOf(s) /\ Length(s, path[s])' = Length(s, path[s])
    BY <1>1 DEF PathsOf, Length
  <2> QED BY <1>1, <1>3, <1>4, <1>6, <1>7, <2>1 DEF Placed
<1>10. \A t \in Sides \ {s} : Placed(t)' /\ Tallied(t)' = Tallied(t)
  BY <1>1, <1>2, <1>4, <1>6, TallyStays
<1>11. \E begun \in SUBSET Sides : Announced(begun)'
  BY <1>1, AnnouncedStays
<1>12. Tallied(s)' = Tallied(s) + d
  <2>1. Cardinality(Blocks(s, list[s])) \in Nat
    BY <1>2, BlocksFinite DEF TallyInv, Listed
  <2>2. Blocks(s, list[s])' = Blocks(s, list[s])
    BY <1>1 DEF Blocks
  <2>3. currentFileDoneBytes[s] \in Nat
    BY <1>2 DEF DiffTypeOK
  <2> QED BY <1>6, <2>1, <2>2, <2>3 DEF Tallied
<1>13. Unchanged' => bytes' = Tallied("src")' + Tallied("dst")'
  <2> SUFFICES ASSUME Unchanged' PROVE bytes' = Tallied("src")' + Tallied("dst")'
    OBVIOUS
  <2>1. Unchanged
    BY <1>1 DEF Unchanged
  <2>2. bytes = Tallied("src") + Tallied("dst")
    BY <2>1 DEF TallyInv
  <2>3. Tallied("src")' + Tallied("dst")' = Tallied("src") + Tallied("dst") + d
    BY <1>10, <1>12, TalliedType, TallyChanges
  <2> QED BY <1>6, <2>2, <2>3
<1>14. \A q \in active' : q # NoPath /\ \E t \in Sides : path'[t] = q
  BY <1>1, <1>6 DEF TallyInv
<1>15. /\ completedFiles' = Cardinality(list'["src"]) + Cardinality(list'["dst"])
       /\ exit' \in {0, 1} => \A t \in Sides : stage'[t] = "ok"
  BY <1>1 DEF TallyInv
<1> QED BY <1>8, <1>9, <1>10, <1>11, <1>13, <1>14, <1>15 DEF TallyInv

\* The entry brings what progress has not counted of its file.
LEMMA EntryEventTallies ==
  ASSUME TallyInv, Listed', NEW s \in Sides, EntryEvent(s) PROVE TallyInv'
<1> DEFINE p == path[s]
           size == files[s][p].size
<1>1. /\ UNCHANGED <<far, files, grown, stage, done, totalFiles, totalBytes,
                     ctxDone, interrupted, exit>>
      /\ stage[s] = "hash" /\ p # NoPath /\ done[s] = Length(s, p)
      /\ list' = [list EXCEPT ![s] = @ \cup {p}]
      /\ active' = active \ {p}
      /\ bytes' = bytes + Positive(size - Seen(s))
      /\ currentFile' = [currentFile EXCEPT ![s] = NoPath]
      /\ currentFileDoneBytes' = [currentFileDoneBytes EXCEPT ![s] = 0]
      /\ completedFiles' = completedFiles + 1
      /\ path' = [path EXCEPT ![s] = NoPath]
  BY DEF EntryEvent, diffCommand
<1>2. DiffTypeOK /\ Listed /\ \A t \in Sides : Placed(t)
  BY DEF TallyInv
<1>3. /\ Seen(s) = currentFileDoneBytes[s] /\ Seen(s) \in Nat /\ Seen(s) <= done[s]
      /\ size \in Nat /\ p \in PathsOf(s) \ list[s] /\ p \in Paths
      /\ (Unchanged => Length(s, p) = size)
  BY <1>1, SeenIsCounted
<1>4. \A t \in Sides : /\ list'[t] = IF t = s THEN list[t] \cup {p} ELSE list[t]
                       /\ path'[t] = IF t = s THEN NoPath ELSE path[t]
                       /\ currentFile'[t] = IF t = s THEN NoPath ELSE currentFile[t]
                       /\ currentFileDoneBytes'[t]
                            = IF t = s THEN 0 ELSE currentFileDoneBytes[t]
  <2> HIDE DEF p, size
  <2>1. /\ DOMAIN list = Sides /\ DOMAIN path = Sides /\ DOMAIN currentFile = Sides
        /\ DOMAIN currentFileDoneBytes = Sides
    BY <1>2 DEF DiffTypeOK
  <2>2. \A t \in Sides : list'[t] = IF t = s THEN list[t] \cup {p} ELSE list[t]
    BY <1>1, <2>1
  <2>3. \A t \in Sides : path'[t] = IF t = s THEN NoPath ELSE path[t]
    BY <1>1, <2>1
  <2>4. \A t \in Sides : /\ currentFile'[t] = IF t = s THEN NoPath ELSE currentFile[t]
                         /\ currentFileDoneBytes'[t]
                              = IF t = s THEN 0 ELSE currentFileDoneBytes[t]
    BY <1>1, <2>1
  <2> QED BY <2>2, <2>3, <2>4
<1>5. list[s] \in SUBSET PathsOf(s)
  BY <1>2 DEF Listed
<1>6. /\ Cardinality(Blocks(s, list[s] \cup {p})) = Cardinality(Blocks(s, list[s])) + size
      /\ Cardinality(list[s] \cup {p}) = Cardinality(list[s]) + 1
  BY <1>2, <1>3, <1>5, BlocksAdd
<1>7. Positive(size - Seen(s)) \in Nat
  BY <1>3 DEF Positive
<1> HIDE DEF p, size
<1>8. DiffTypeOK'
  <2>1. bytes' \in Nat /\ completedFiles' \in Nat /\ active' \in SUBSET Paths
    BY <1>1, <1>2, <1>7 DEF DiffTypeOK
  <2>2. list' \in [Sides -> SUBSET Paths] /\ path' \in [Sides -> Paths \cup {NoPath}]
    BY <1>1, <1>2, <1>3 DEF DiffTypeOK
  <2>3. /\ currentFile' \in [Sides -> Paths \cup {NoPath}]
        /\ currentFileDoneBytes' \in [Sides -> Nat]
    BY <1>1, <1>2 DEF DiffTypeOK
  <2> QED BY <1>1, <1>2, <2>1, <2>2, <2>3 DEF DiffTypeOK
<1>9. Placed(s)'
  <2>1. currentFileDoneBytes'[s] <= done'[s]
    BY <1>1, <1>2, <1>4 DEF DiffTypeOK
  <2> QED BY <1>1, <1>4, <2>1 DEF Placed
<1>10. \A t \in Sides \ {s} : Placed(t)' /\ Tallied(t)' = Tallied(t)
  BY <1>1, <1>2, <1>4, TallyStays
<1>11. \E begun \in SUBSET Sides : Announced(begun)'
  <2>1. \A t \in Sides \ {s} : list'[t] = list[t] /\ path'[t] = path[t]
    BY <1>4
  <2>2. stage[s] \in {"hash", "ok"}
    BY <1>1
  <2>3. \A t \in Sides : stage'[t] = "init" => stage[t] = "init"
    BY <1>1
  <2>4. \A t \in Sides : stage'[t] \in {"hash", "ok"} => stage[t] \in {"hash", "ok"}
    BY <1>1
  <2>5. UNCHANGED <<files, totalFiles, totalBytes>>
    BY <1>1
  <2> QED BY <2>1, <2>2, <2>3, <2>4, <2>5, AnnouncedStays
<1>12. Unchanged' => bytes' = Tallied("src")' + Tallied("dst")'
  <2> SUFFICES ASSUME Unchanged' PROVE bytes' = Tallied("src")' + Tallied("dst")'
    OBVIOUS
  <2>1. Unchanged
    BY <1>1 DEF Unchanged
  <2>2. Seen(s) <= size
    BY <1>1, <1>2, <1>3, <2>1 DEF DiffTypeOK
  <2> DEFINE d == size - Seen(s)
  <2>3. d \in Nat /\ Positive(d) = d
    BY <1>3, <2>2 DEF Positive
  <2>4. Tallied(s)' = Tallied(s) + d
    <3>1. Cardinality(Blocks(s, list[s])) \in Nat
      BY <1>2, <1>5, BlocksFinite
    <3>2. Blocks(s, list[s])' = Blocks(s, list[s] \cup {p})
      BY <1>1, <1>4 DEF Blocks
    <3>3. Cardinality(Blocks(s, list[s]))' = Cardinality(Blocks(s, list[s])) + size
      BY <1>6, <3>2
    <3>4. currentFileDoneBytes'[s] = 0
      BY <1>4
    <3> QED BY <1>3, <3>1, <3>3, <3>4 DEF Tallied
  <2>5. bytes' = bytes + d
    BY <1>1, <2>3
  <2>6. bytes = Tallied("src") + Tallied("dst")
    BY <2>1 DEF TallyInv
  <2> HIDE DEF d
  <2>7. Tallied("src")' + Tallied("dst")' = Tallied("src") + Tallied("dst") + d
    BY <1>10, <2>3, <2>4, TalliedType, TallyChanges
  <2> QED BY <2>5, <2>6, <2>7
<1>13. completedFiles' = Cardinality(list'["src"]) + Cardinality(list'["dst"])
  <2>1. \A t \in Sides : Cardinality(list[t]) \in Nat
    BY <1>2, BlocksFinite DEF Listed
  <2>2. Cardinality(list[s])' = Cardinality(list[s]) + 1
    BY <1>4, <1>6
  <2>3. \A t \in Sides \ {s} : Cardinality(list[t])' = Cardinality(list[t])
    BY <1>4
  <2>4. completedFiles = Cardinality(list["src"]) + Cardinality(list["dst"])
    BY DEF TallyInv
  <2>5. CASE s = "src"
    <3>1. Cardinality(list["dst"])' = Cardinality(list["dst"])
          /\ Cardinality(list["src"]) \in Nat /\ Cardinality(list["dst"]) \in Nat
      BY <2>1, <2>3, <2>5 DEF Sides
    <3> QED BY <1>1, <2>2, <2>4, <2>5, <3>1
  <2>6. CASE s = "dst"
    <3>1. Cardinality(list["src"])' = Cardinality(list["src"])
          /\ Cardinality(list["src"]) \in Nat /\ Cardinality(list["dst"]) \in Nat
      BY <2>1, <2>3, <2>6 DEF Sides
    <3> QED BY <1>1, <2>2, <2>4, <2>6, <3>1
  <2> QED BY <2>5, <2>6 DEF Sides
<1>14. \A q \in active' : q # NoPath /\ \E t \in Sides : path'[t] = q
  <2> SUFFICES ASSUME NEW q \in active, q # p
               PROVE  q # NoPath /\ \E t \in Sides : path'[t] = q
    BY <1>1
  <2>1. q # NoPath /\ \E t \in Sides : path[t] = q
    BY DEF TallyInv
  <2>2. PICK t \in Sides : path[t] = q
    BY <2>1
  <2>3. t # s
    BY <2>2 DEF p
  <2> QED BY <1>4, <2>1, <2>2, <2>3
<1>15. exit' \in {0, 1} => \A t \in Sides : stage'[t] = "ok"
  BY <1>1 DEF TallyInv
<1> QED BY <1>8, <1>9, <1>10, <1>11, <1>12, <1>13, <1>14, <1>15 DEF TallyInv

LEMMA TallyInvariant == DiffSpec => [](DiffInv /\ TallyInv)
<1>1. DiffInit => DiffInv
  BY DEF DiffInit, DiffInv, FileMaps, Scanned, Listed, DiffTellsTruth, Sides
<1>2. DiffInit => TallyInv
  <2> SUFFICES ASSUME DiffInit PROVE TallyInv
    OBVIOUS
  <2>1. DiffTypeOK /\ Listed
    BY <1>1 DEF DiffInit, DiffTypeOK, DiffInv, Sides
  <2>2. \A s \in Sides : Placed(s)
    BY DEF DiffInit, Placed
  <2>3. Announced({})
    BY DEF DiffInit, Announced
  <2>4. \A s \in Sides : Blocks(s, list[s]) = {}
    BY DEF DiffInit, Blocks
  <2>5. Cardinality({}) = 0
    BY FS_EmptySet
  <2>6. list["src"] = {} /\ list["dst"] = {} /\ Tallied("src") = 0 /\ Tallied("dst") = 0
    BY <2>4, <2>5 DEF DiffInit, Tallied, Sides
  <2>7. Cardinality(list["src"]) = 0 /\ Cardinality(list["dst"]) = 0
    BY <2>5, <2>6
  <2>8. completedFiles = 0 /\ bytes = 0 /\ active = {} /\ exit = -1
    BY DEF DiffInit
  <2>9. \E begun \in SUBSET Sides : Announced(begun)
    BY <2>3
  <2> HIDE DEF DiffInit
  <2> QED BY <2>1, <2>2, <2>6, <2>7, <2>8, <2>9 DEF TallyInv
<1>3. DiffInv /\ TallyInv /\ [DiffNext]_diffVars => DiffInv'
  <2> SUFFICES ASSUME DiffInv, TallyInv, [DiffNext]_diffVars PROVE DiffInv'
    OBVIOUS
  <2> QED BY DiffKeeps
<1>4. DiffInv /\ TallyInv /\ [DiffNext]_diffVars => TallyInv'
  <2> SUFFICES ASSUME DiffInv, TallyInv, [DiffNext]_diffVars PROVE TallyInv'
    OBVIOUS
  <2>1. Listed'
    BY DiffKeeps DEF DiffInv
  <2>2. DiffTypeOK /\ \A s \in Sides : Placed(s)
    BY DEF TallyInv
  <2>3. CASE UNCHANGED diffVars
    BY <2>1, <2>2, <2>3, QuietStepTallies
       DEF diffVars, diffCommand, position, tracker, TallyInv, DiffTypeOK, Placed
  <2>4. CASE Compare \/ DiffInterrupt
    <3>1. UNCHANGED <<far, files, grown, stage, path, done, list, currentFile,
                      currentFileDoneBytes, totalFiles, totalBytes, completedFiles,
                      bytes, active>>
      BY <2>4 DEF Compare, DiffInterrupt, diffCommand, position, tracker
    <3>2. ctxDone' \in BOOLEAN /\ interrupted' \in BOOLEAN
      BY <2>2, <2>4 DEF Compare, DiffInterrupt, DiffTypeOK
    <3>3. exit' \in {-1, 0, 1, 2, 130}
      BY <2>2, <2>4 DEF Compare, DiffInterrupt, DiffTypeOK, CompareFileInfos
    <3>4. exit' \in {0, 1} => \A s \in Sides : stage'[s] = "ok"
      BY <2>4, <3>1 DEF Compare, DiffInterrupt
    <3>5. stage' \in [Sides -> {"init", "hash", "ok", "own", "cancel"}]
      BY <2>2, <3>1 DEF DiffTypeOK
    <3>6. \A s \in Sides : stage'[s] = "ok" => path[s] = NoPath
      BY <2>2, <3>1 DEF Placed
    <3>7. /\ \A s \in Sides : stage'[s] = "init" => stage[s] = "init"
          /\ \A s \in Sides : stage'[s] \in {"hash", "ok"} => stage[s] \in {"hash", "ok"}
      BY <3>1
    <3> QED BY <2>1, <3>1, <3>2, <3>3, <3>4, <3>5, <3>6, <3>7, QuietStepTallies
  <2>5. ASSUME NEW s \in Sides, HashStep(s) PROVE TallyInv'
    BY <2>1, <2>5, InitEventTallies, OpenFileTallies, ReadBlockTallies,
       EntryEventTallies, StageMoves DEF HashStep
  <2> QED BY <2>3, <2>4, <2>5 DEF DiffNext
<1> QED BY <1>1, <1>2, <1>3, <1>4, PTL DEF DiffSpec

\* Every variable of cw diff keeps its type.
THEOREM DiffTypeCorrect == DiffSpec => []DiffTypeOK
BY TallyInvariant, PTL DEF TallyInv

\* What is counted of a side is no more than its files' blocks, and all of
\* them when the side is at its end.
LEMMA TalliedBounds ==
  ASSUME TallyInv, Unchanged, NEW s \in Sides
  PROVE  /\ Tallied(s) \in Nat /\ SizeSum(s) \in Nat /\ Tallied(s) <= SizeSum(s)
         /\ list[s] = {} /\ path[s] = NoPath => Tallied(s) = 0
         /\ stage[s] = "ok" => Tallied(s) = SizeSum(s) /\ list[s] = PathsOf(s)
<1>1. DiffTypeOK /\ Listed /\ Placed(s) /\ currentFileDoneBytes[s] \in Nat
  BY DEF TallyInv, DiffTypeOK
<1>2. list[s] \in SUBSET PathsOf(s) /\ PathsOf(s) \in SUBSET PathsOf(s)
  BY <1>1 DEF Listed
<1>3. Tallied(s) \in Nat /\ SizeSum(s) \in Nat /\ Cardinality(Blocks(s, list[s])) \in Nat
  BY <1>1, <1>2, TalliedType, BlocksFinite DEF SizeSum
<1>4. ASSUME path[s] = NoPath
      PROVE  Tallied(s) = Cardinality(Blocks(s, list[s])) /\ Tallied(s) <= SizeSum(s)
  <2>1. currentFileDoneBytes[s] = 0
    BY <1>1, <1>4 DEF Placed
  <2>2. Cardinality(Blocks(s, list[s])) <= SizeSum(s)
    BY <1>1, <1>2, BlocksSubset DEF SizeSum
  <2> QED BY <1>3, <2>1, <2>2 DEF Tallied
<1>5. ASSUME path[s] # NoPath PROVE Tallied(s) <= SizeSum(s)
  <2> DEFINE p == path[s]
             size == files[s][p].size
  <2>1. p \in PathsOf(s) \ list[s] /\ size \in Nat /\ done[s] \in Nat /\ done[s] <= size
    BY <1>5, SeenIsCounted
  <2>2. currentFileDoneBytes[s] <= size
    BY <1>1, <2>1 DEF Placed
  <2>3. Cardinality(Blocks(s, list[s] \cup {p})) = Cardinality(Blocks(s, list[s])) + size
    BY <1>1, <1>2, <2>1, BlocksAdd
  <2>4. list[s] \cup {p} \in SUBSET PathsOf(s)
    BY <1>2, <2>1
  <2> HIDE DEF size, p
  <2>5. Cardinality(Blocks(s, list[s] \cup {p})) <= SizeSum(s)
    BY <1>1, <1>2, <2>4, BlocksSubset DEF SizeSum
  <2> QED BY <1>1, <1>3, <2>1, <2>2, <2>3, <2>5 DEF Tallied
<1>6. ASSUME list[s] = {}, path[s] = NoPath PROVE Tallied(s) = 0
  <2>1. Blocks(s, list[s]) = {}
    BY <1>6 DEF Blocks
  <2>2. Cardinality(Blocks(s, list[s])) = 0
    BY <2>1, FS_EmptySet
  <2> QED BY <1>4, <1>6, <2>2
<1>7. ASSUME stage[s] = "ok" PROVE Tallied(s) = SizeSum(s) /\ list[s] = PathsOf(s)
  BY <1>1, <1>4, <1>7 DEF Listed, Placed, SizeSum
<1> QED BY <1>3, <1>4, <1>5, <1>6, <1>7

\* The bytes of cw diff never pass the total and meet it in the end, whatever
\* the files, wherever the progress events of both sides fall.
THEOREM HashedBytesAreExact == DiffSpec => []HashedBytesAddUp
<1>1. TallyInv => HashedBytesAddUp
  <2> SUFFICES ASSUME TallyInv, Unchanged
               PROVE  /\ bytes <= totalBytes
                      /\ exit \in {0, 1} =>
                           bytes = totalBytes /\ completedFiles = totalFiles /\ active = {}
    BY DEF HashedBytesAddUp
  <2>1. PICK begun \in SUBSET Sides : Announced(begun)
    BY DEF TallyInv
  <2>2. bytes = Tallied("src") + Tallied("dst")
    BY DEF TallyInv
  <2>3. /\ Tallied("src") \in Nat /\ SizeSum("src") \in Nat
        /\ Tallied("src") <= SizeSum("src")
        /\ Tallied("dst") \in Nat /\ SizeSum("dst") \in Nat
        /\ Tallied("dst") <= SizeSum("dst")
    BY TalliedBounds DEF Sides
  <2>4. \A s \in Sides \ begun : Tallied(s) = 0
    BY <2>1, TalliedBounds DEF Announced
  <2>5. /\ "src" \notin begun => Tallied("src") = 0
        /\ "dst" \notin begun => Tallied("dst") = 0
    BY <2>4 DEF Sides
  <2>6. totalBytes = (IF "src" \in begun THEN SizeSum("src") ELSE 0)
                     + (IF "dst" \in begun THEN SizeSum("dst") ELSE 0)
    BY <2>1 DEF Announced
  <2>7. bytes <= totalBytes
    BY <2>2, <2>3, <2>5, <2>6
  <2>8. ASSUME exit \in {0, 1}
        PROVE  bytes = totalBytes /\ completedFiles = totalFiles /\ active = {}
    <3>1. \A s \in Sides : stage[s] = "ok"
      BY <2>8 DEF TallyInv
    <3>2. "src" \in begun /\ "dst" \in begun
      BY <2>1, <3>1 DEF Announced, Sides
    <3>3. /\ Tallied("src") = SizeSum("src") /\ list["src"] = PathsOf("src")
          /\ Tallied("dst") = SizeSum("dst") /\ list["dst"] = PathsOf("dst")
      BY <3>1, TalliedBounds DEF Sides
    <3>4. totalFiles = Cardinality(PathsOf("src")) + Cardinality(PathsOf("dst"))
      BY <2>1, <3>2 DEF Announced
    <3>5. completedFiles = Cardinality(list["src"]) + Cardinality(list["dst"])
      BY DEF TallyInv
    <3>6. \A s \in Sides : path[s] = NoPath
      BY <3>1 DEF TallyInv, Placed
    <3>7. active = {}
      BY <3>6 DEF TallyInv
    <3> QED BY <2>2, <2>6, <3>2, <3>3, <3>4, <3>5, <3>7
  <2> QED BY <2>7, <2>8
<1> QED BY <1>1, TallyInvariant, PTL

=============================================================================
