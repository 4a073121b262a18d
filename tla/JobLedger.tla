------------------------------ MODULE JobLedger ------------------------------
(***************************************************************************)
(* What a worker promises about the jobs it keeps, across kills, cleans,   *)
(* failed saves, crashes and restarts, without saying how:                 *)
(* pkg/process/runner.go and pkg/worker/worker.go.                         *)
(*                                                                         *)
(* A job that has begun leaves RUNNING only by ending; an end that is on   *)
(* record is never rewritten, and one that could not be put on record is   *)
(* forgotten with the worker and healed to STOPPED; a job whose directory  *)
(* is gone never comes back.                                               *)
(***************************************************************************)
CONSTANT Jobs
VARIABLE ledger   \* what there is to know of each job, and what is on record

Ends == {"COMPLETED", "FAILED", "STOPPED"}

\* "remnant" is a directory without a record: a start that was cut short, or a
\* job that was cleaned while its log was still open.
Entries ==
  [says   : {"new", "remnant", "RUNNING", "absent"} \cup Ends,
   record : {"none", "RUNNING"} \cup Ends]

Entry(says, record) == [says |-> says, record |-> record]

\* How a job may go on: its directory is made; it begins, or is taken for
\* interrupted; it ends; its end is saved again; it is cleaned; or the worker is
\* gone and its record, or the lack of one, is all there is.
Follows(a, b) ==
  \/ a.says = "new" /\ b = Entry("remnant", "none")
  \/ /\ a.says = "remnant"
     /\ b.says \in {"RUNNING", "STOPPED"} /\ b.record \in {b.says, "none"}
  \/ /\ a.says = "RUNNING"
     /\ b.says \in Ends /\ b.record \in {b.says, a.record, "none"}
  \/ /\ a.says \in Ends
     /\ b.says = a.says /\ b.record \in {a.says, "none"}
  \/ /\ a.says \in Ends \cup {"remnant"}
     /\ b.says \in {"remnant", "absent"} /\ b.record = "none"
  \/ /\ a.says \in Ends /\ a.record = "RUNNING"
     /\ b = Entry("RUNNING", "RUNNING")
  \/ /\ a.says = "RUNNING" /\ a.record = "none"
     /\ b = Entry("remnant", "none")

Init == ledger = [j \in Jobs |-> Entry("new", "none")]

\* A clean or a restart may move several jobs at once.
Next ==
  /\ ledger' \in [Jobs -> Entries]
  /\ \A j \in Jobs : ledger'[j] = ledger[j] \/ Follows(ledger[j], ledger'[j])

Spec == Init /\ [][Next]_ledger
=============================================================================
