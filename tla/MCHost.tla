------------------------------- MODULE MCHost -------------------------------
(***************************************************************************)
(* Two kinds of behaviours: two updates in a row, failing and dying, on a  *)
(* machine where no worker runs, and one update of the deployed copy among *)
(* instances that start jobs, stop and crash.                              *)
(***************************************************************************)
EXTENDS SelfUpdate

VARIABLE trial
trialVars == <<trial, hostVars, updateVars>>

Number(n) == [number |-> n, plain |-> TRUE]
SomeVersions ==
  {<<Number(1), Number(2)>>, <<Number(1), Number(10)>>,
   <<Number(1)>>, <<Number(1), [number |-> 9, plain |-> FALSE]>>}

MCInit ==
  /\ UpdateInit
  /\ \/ trial = "files"
     \/ trial = "jobs" /\ had = {"deployed"} /\ listed = TRUE

MCNext ==
  /\ UNCHANGED trial
  /\ \/ UpdateStep /\ (trial = "jobs" => rounds' = 1)
     \/ trial = "jobs" /\ HostMoves

MCSpec == MCInit /\ [][MCNext]_trialVars
=============================================================================
