----------------------------- MODULE MCCommands -----------------------------
(***************************************************************************)
(* The client's other commands: cw rm, cw diff, cw logs or cw cat, several *)
(* writers of nodes.json, and the search for a job's node.  Each behaviour *)
(* is one of them.  They share nothing, so the variables of the others     *)
(* keep one value.                                                         *)
(***************************************************************************)
EXTENDS FsRemove, FsDiff, TextSlice, NodeLedger, JobSearch

VARIABLE using
commandVars ==
  <<using, rmVars, diffVars, sliceVars, ledgerVars, searchVars>>

SmallBlobs ==
  {[size |-> 1, hash |-> "x"], [size |-> 2, hash |-> "x"],
   [size |-> 2, hash |-> "y"]}

RmIdle ==
  /\ remote = FALSE /\ recursive = FALSE /\ isDir = FALSE /\ there = {Root}
  /\ RmInit
DiffIdle ==
  /\ far = [s \in Sides |-> FALSE] /\ files = [s \in Sides |-> <<>>]
  /\ DiffInit
SliceIdle ==
  /\ lineEnds = {} /\ inside = {} /\ size = 0 /\ served = TRUE /\ request = [history |-> 1]
  /\ SliceInit
LedgerIdle ==
  /\ ledger = {} /\ op = [w \in Writers |-> "add"]
  /\ name = [w \in Writers |-> CHOOSE n \in Names : TRUE]
  /\ LedgerInit
SearchIdle ==
  /\ address = [n \in Nodes |-> CHOOSE m \in Machines : TRUE]
  /\ jobAt = address[CHOOSE n \in Nodes : TRUE]
  /\ jobIn = "gone" /\ jobRuns = FALSE /\ searching = "kill"
  /\ SearchInit

CommandInit ==
  \/ using = "rm" /\ RmInit /\ DiffIdle /\ SliceIdle /\ LedgerIdle /\ SearchIdle
  \/ using = "diff" /\ RmIdle /\ DiffInit /\ SliceIdle /\ LedgerIdle /\ SearchIdle
  \/ using = "slice" /\ RmIdle /\ DiffIdle /\ SliceInit /\ LedgerIdle /\ SearchIdle
  \/ using = "node" /\ RmIdle /\ DiffIdle /\ SliceIdle /\ LedgerInit /\ SearchIdle
  \/ using = "find" /\ RmIdle /\ DiffIdle /\ SliceIdle /\ LedgerIdle /\ SearchInit

OnlyRm ==
  using = "rm" /\ UNCHANGED <<using, diffVars, sliceVars, ledgerVars, searchVars>>
OnlyDiff ==
  using = "diff" /\ UNCHANGED <<using, rmVars, sliceVars, ledgerVars, searchVars>>
OnlySlice ==
  using = "slice" /\ UNCHANGED <<using, rmVars, diffVars, ledgerVars, searchVars>>
OnlyLedger ==
  using = "node" /\ UNCHANGED <<using, rmVars, diffVars, sliceVars, searchVars>>
OnlySearch ==
  using = "find" /\ UNCHANGED <<using, rmVars, diffVars, sliceVars, ledgerVars>>

CommandNext ==
  \/ RmNext /\ OnlyRm
  \/ DiffNext /\ OnlyDiff
  \/ SliceNext /\ OnlySlice
  \/ LedgerNext /\ OnlyLedger
  \/ SearchNext /\ OnlySearch

CommandSpec == CommandInit /\ [][CommandNext]_commandVars
=============================================================================
