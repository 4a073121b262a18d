------------------------------ MODULE JobSearch ------------------------------
(***************************************************************************)
(* The search of pkg/client for a job whose node the user has not named:   *)
(* findJobWorker asks every known node, first for the jobs in memory, then *)
(* for a log on disk, and the first hit cancels the rest; cw kill sends    *)
(* its request to all of them.                                             *)
(*                                                                         *)
(* A node's answer and its receipt are two steps, and either can be lost:  *)
(* a node that is down, slow, or resolved wrongly is one that is not heard.*)
(* The names come from nodes.json, see NodeLedger: any set, or an error.   *)
(***************************************************************************)
EXTENDS Integers

CONSTANTS
  Nodes,     \* names of nodes that the ledger may hold
  Machines   \* workers; two names may lead to one

NoNode == "no node"
ASSUME NoNodeAssumption == NoNode \notin Nodes

VARIABLES
  address,       \* per name: its machine
  jobAt, jobIn, jobRuns,  \* the job: machine; "table", "log" or "gone"; RUNNING?
  moved,         \* history: has that changed during the search?
  searching,     \* "find" or "kill"
  phase, known,  \* progress of the search, the names it asks
  answer,        \* per name: the answer on its way
  hit, silent,   \* the name that was found; how often each was not heard
  cancelled,     \* has the user interrupted?
  outcome        \* "none", "found", "notfound", "failed" or "interrupted"

jobVars == <<address, jobAt, jobIn, jobRuns>>
searchVars ==
  <<jobVars, moved, searching, phase, known, answer, hit, silent, cancelled,
    outcome>>

SearchInit ==
  /\ address \in [Nodes -> Machines]
  /\ jobAt \in Machines /\ jobIn \in {"table", "log", "gone"}
  /\ jobRuns \in BOOLEAN /\ (jobRuns => jobIn = "table")
  /\ moved = FALSE
  /\ searching \in {"find", "kill"} /\ phase = "load" /\ known = {}
  /\ answer = [n \in Nodes |-> "none"] /\ hit = NoNode
  /\ silent = [n \in Nodes |-> 0] /\ cancelled = FALSE /\ outcome = "none"

----------------------------------------------------------------------------
(* The job's machine: the job ends, is dropped or cleaned, its worker is    *)
(* restarted and takes it from its record.                                  *)

JobMoves ==
  /\ jobIn # "gone"
  /\ jobIn' \in {"table", "log", "gone"}
  /\ jobRuns' \in {jobRuns, FALSE} /\ (jobRuns' => jobIn' = "table")
  /\ <<jobIn, jobRuns>>' # <<jobIn, jobRuns>>
  /\ moved' = (moved \/ jobIn' # jobIn)
  /\ UNCHANGED <<address, jobAt, searching, phase, known, answer, hit, silent,
                 cancelled, outcome>>

----------------------------------------------------------------------------
(* findJobWorker, and the broadcast of KillJob *)

Asking == phase \in {"ps", "logs", "kill"}
Search(p, o) == phase' = p /\ outcome' = o

Known(names) ==
  /\ known' = names
  /\ IF searching = "kill" THEN Search("kill", "none")
     ELSE IF names = {} THEN Search("end", "failed")
     ELSE Search("ps", "none")

SearchBegins ==
  /\ phase = "load"
  /\ \/ \E names \in SUBSET Nodes : Known(names)
     \/ UNCHANGED known /\ Search("end", "failed")
  /\ moved' = FALSE
  /\ UNCHANGED <<jobVars, searching, answer, hit, silent, cancelled>>

Pending(n) == Asking /\ n \in known

\* Seeded fault (SearchTellsTruth): the second question is for memory, too.
HasJobInTable(n) == address[n] = jobAt /\ jobIn = "table"

\* /jobs/ps and /jobs/kill know the table, /jobs/logs opens output.log.
HasJob(n) ==
  /\ address[n] = jobAt
  /\ jobIn = "table" \/ (jobIn = "log" /\ phase = "logs")

NodeAnswers(n) ==
  /\ Pending(n) /\ answer[n] = "none"
  /\ answer' = [answer EXCEPT ![n] = IF HasJob(n) THEN "hit" ELSE "miss"]
  /\ jobRuns' = (jobRuns /\ ~(phase = "kill" /\ HasJob(n)))
  /\ UNCHANGED <<address, jobAt, jobIn, moved, searching, phase, known,
                 hit, silent, cancelled, outcome>>

\* once.Do and cancelProbe; a broadcast takes the last answer.
Receive(n) ==
  /\ Pending(n) /\ answer[n] \in {"hit", "miss"}
  /\ hit' = IF answer[n] = "hit" /\ (hit = NoNode \/ phase = "kill") THEN n ELSE hit
  /\ answer' = [answer EXCEPT ![n] = "over"]
  /\ UNCHANGED <<jobVars, moved, searching, phase, known, silent,
                 cancelled, outcome>>

\* No answer, not in time, or a refusal.
NotHeard(n) ==
  /\ Pending(n) /\ answer[n] \in {"none", "hit", "miss"}
  /\ answer' = [answer EXCEPT ![n] = "over"]
  /\ silent' = [silent EXCEPT ![n] = @ + 1]
  /\ UNCHANGED <<jobVars, moved, searching, phase, known, hit,
                 cancelled, outcome>>

\* The context of the others is cancelled, by a hit or by the user.
ProbeCancelled(n) ==
  /\ Pending(n) /\ answer[n] # "over"
  /\ (hit # NoNode /\ phase # "kill") \/ cancelled
  /\ answer' = [answer EXCEPT ![n] = "over"]
  /\ UNCHANGED <<jobVars, moved, searching, phase, known, hit, silent,
                 cancelled, outcome>>

\* wg.Wait
AllHeard ==
  /\ Asking /\ \A n \in known : answer[n] = "over"
  /\ IF hit # NoNode THEN Search("end", "found") /\ UNCHANGED answer
     ELSE IF cancelled THEN Search("end", "interrupted") /\ UNCHANGED answer
     ELSE IF phase = "ps"
     THEN Search("logs", "none") /\ answer' = [n \in Nodes |-> "none"]
     ELSE Search("end", "notfound") /\ UNCHANGED answer
  /\ UNCHANGED <<jobVars, moved, searching, known, hit, silent,
                 cancelled>>

SearchInterrupted ==
  /\ Asking /\ ~cancelled
  /\ cancelled' = TRUE
  /\ UNCHANGED <<jobVars, moved, searching, phase, known, answer, hit,
                 silent, outcome>>

SearchNext ==
  \/ SearchBegins \/ AllHeard \/ SearchInterrupted \/ JobMoves
  \/ \E n \in Nodes : NodeAnswers(n) \/ Receive(n) \/ NotHeard(n) \/ ProbeCancelled(n)

SearchSpec == SearchInit /\ [][SearchNext]_searchVars

----------------------------------------------------------------------------
(* Properties *)

SearchTypeOK ==
  /\ address \in [Nodes -> Machines] /\ jobAt \in Machines
  /\ jobIn \in {"table", "log", "gone"} /\ jobRuns \in BOOLEAN
  /\ moved \in BOOLEAN /\ searching \in {"find", "kill"}
  /\ phase \in {"load", "ps", "logs", "kill", "end"} /\ known \in SUBSET Nodes
  /\ answer \in [Nodes -> {"none", "hit", "miss", "over"}]
  /\ hit \in Nodes \cup {NoNode} /\ silent \in [Nodes -> Nat]
  /\ cancelled \in BOOLEAN
  /\ outcome \in {"none", "found", "notfound", "failed", "interrupted"}

\* A search that finds a node has found the job's; one that finds nothing
\* has not heard the job's node, not once if the job is in its memory, or the
\* job has moved meanwhile.  A kill that succeeds has ended the job.
SearchTellsTruth ==
  /\ outcome = "found" =>
       /\ address[hit] = jobAt
       /\ searching = "kill" => ~jobRuns
       /\ ~moved => jobIn # "gone"
  /\ outcome = "notfound" /\ ~moved =>
       \A n \in known : address[n] = jobAt =>
         /\ jobIn = "table" => silent[n] = IF searching = "kill" THEN 1 ELSE 2
         /\ jobIn = "log" /\ searching = "find" => silent[n] > 0
==============================================================================
