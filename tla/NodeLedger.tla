----------------------------- MODULE NodeLedger -----------------------------
(***************************************************************************)
(* The client's ledger of known nodes, nodes.json: SaveKnownNode (cw node  *)
(* add, cw run --token) and RemoveKnownNode (cw node rm) of pkg/client, by *)
(* several cw commands at once.  Each reads the file, changes an entry and *)
(* writes all of it back, without a lock.                                  *)
(***************************************************************************)
EXTENDS Integers, FiniteSets

CONSTANTS
  Names,     \* names of nodes
  Writers    \* commands that write the ledger

ASSUME LedgerAssumption == IsFiniteSet(Names)

VARIABLES
  text, ledger,  \* nodes.json: "whole", "empty" or "corrupt"; its names
  op, name,      \* per writer: "add" or "rm", and what
  writer, view,  \* per writer: its progress, the entries it has loaded
  expected,      \* history: the names that were added and not removed
  overlapped     \* history: was a write disturbed?

ledgerVars == <<text, ledger, op, name, writer, view, expected, overlapped>>

LedgerInit ==
  /\ text = "whole" /\ ledger \in SUBSET Names
  /\ op \in [Writers -> {"add", "rm"}] /\ name \in [Writers -> Names]
  /\ writer = [w \in Writers |-> "load"] /\ view = [w \in Writers |-> {}]
  /\ expected = ledger /\ overlapped = FALSE

Writing(w) == writer[w] \in {"open", "write"}
Disturbed(w) == \E v \in Writers \ {w} : Writing(v)

\* LoadKnownNodes: an empty file is an empty ledger, a corrupt one an error,
\* which only SaveKnownNode ignores.
LoadLedger(w) ==
  /\ writer[w] = "load"
  /\ view' = [view EXCEPT ![w] = IF text = "whole" THEN ledger ELSE {}]
  /\ writer' = [writer EXCEPT ![w] =
                  IF text = "corrupt" /\ op[w] = "rm" THEN "failed" ELSE "open"]
  /\ overlapped' = (overlapped \/ Disturbed(w))
  /\ UNCHANGED <<text, ledger, op, name, expected>>

\* The file cannot be read: another error that SaveKnownNode ignores.
LoadFails(w) ==
  /\ writer[w] = "load"
  /\ view' = [view EXCEPT ![w] = {}]
  /\ writer' = [writer EXCEPT ![w] = IF op[w] = "rm" THEN "failed" ELSE "open"]
  /\ overlapped' = (overlapped \/ op[w] = "add")
  /\ UNCHANGED <<text, ledger, op, name, expected>>

\* os.WriteFile empties the file when it opens it.
OpenLedger(w) ==
  /\ writer[w] = "open"
  /\ text' = "empty" /\ ledger' = {}
  /\ writer' = [writer EXCEPT ![w] = "write"]
  /\ UNCHANGED <<op, name, view, expected, overlapped>>

\* Seeded fault (LedgerKeepsEntries): a node is saved without the others.
EditedAlone(w) == IF op[w] = "add" THEN {name[w]} ELSE view[w] \ {name[w]}

Edited(w) ==
  IF op[w] = "add" THEN view[w] \cup {name[w]} ELSE view[w] \ {name[w]}

\* A longer text of another writer shows behind a shorter one.
WriteLedger(w) ==
  /\ writer[w] = "write"
  /\ LET over == \/ text = "corrupt"
                 \/ text = "whole" /\ Cardinality(ledger) > Cardinality(Edited(w))
     IN /\ text' = IF over THEN "corrupt" ELSE "whole"
        /\ ledger' = IF over THEN {} ELSE Edited(w)
  /\ expected' = IF op[w] = "add" THEN expected \cup {name[w]}
                                  ELSE expected \ {name[w]}
  /\ writer' = [writer EXCEPT ![w] = "ok"]
  /\ UNCHANGED <<op, name, view, overlapped>>

\* The process ends, or the disk is full.
WriterDies(w) ==
  /\ Writing(w)
  /\ writer' = [writer EXCEPT ![w] = "died"]
  /\ overlapped' = (overlapped \/ writer[w] = "write")
  /\ UNCHANGED <<text, ledger, op, name, view, expected>>

LedgerNext ==
  \E w \in Writers :
    LoadLedger(w) \/ LoadFails(w) \/ OpenLedger(w) \/ WriteLedger(w) \/ WriterDies(w)

LedgerSpec == LedgerInit /\ [][LedgerNext]_ledgerVars

----------------------------------------------------------------------------
(* Properties *)

LedgerTypeOK ==
  /\ text \in {"whole", "empty", "corrupt"} /\ ledger \in SUBSET Names
  /\ op \in [Writers -> {"add", "rm"}] /\ name \in [Writers -> Names]
  /\ writer \in [Writers -> {"load", "open", "write", "ok", "failed", "died"}]
  /\ view \in [Writers -> SUBSET Names]
  /\ expected \in SUBSET Names /\ overlapped \in BOOLEAN

\* A ledger whose writers have not met, died or failed to read it has exactly
\* the entries that were added and not removed, when no one is writing it.
LedgerKeepsEntries ==
  ~overlapped /\ (\A w \in Writers : ~Writing(w)) =>
    text = "whole" /\ ledger = expected
=============================================================================
