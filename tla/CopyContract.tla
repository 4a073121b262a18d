---------------------------- MODULE CopyContract ----------------------------
(***************************************************************************)
(* What cw cp promises, without how it works: it may replace and even lose *)
(* target files while it runs or when it does not succeed, but once it has *)
(* said "ok" no directory is missing, and every source file is at its      *)
(* target and stays there untouched.  The one exception is a bare tree,    *)
(* which has neither files nor subdirectories and crosses the network:     *)
(* nothing shows that its root could not be made.                          *)
(***************************************************************************)
CONSTANTS Files, Dirs
VARIABLES source, bare, missing, target, answer

Contents == {"absent", "old", "bad", "new"}
Answers == {"none", "ok", "failed", "interrupted", "killed"}

Init ==
  /\ source \in SUBSET Files
  /\ bare \in BOOLEAN
  /\ missing \in SUBSET Dirs
  /\ target \in [Files -> {"absent", "old"}]
  /\ answer = "none"

MakeDir ==
  /\ missing' \subseteq missing
  /\ UNCHANGED <<source, bare, target, answer>>

\* A file of the target changes, or is lost.
Write(f) ==
  /\ answer # "ok"
  /\ f \in source
  /\ \E c \in Contents : target' = [target EXCEPT ![f] = c]
  /\ UNCHANGED <<source, bare, missing, answer>>

\* The command returns.
Return ==
  /\ answer = "none"
  /\ answer' \in Answers \ {"none"}
  /\ answer' = "ok" => /\ bare \/ missing = {}
                       /\ \A f \in source : target[f] = "new"
  /\ UNCHANGED <<source, bare, missing, target>>

Next == MakeDir \/ Return \/ \E f \in Files : Write(f)

Spec == Init /\ [][Next]_<<source, bare, missing, target, answer>>
=============================================================================
