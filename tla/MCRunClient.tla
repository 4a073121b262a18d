---------------------------- MODULE MCRunClient ----------------------------
(* The model-checking instance of RunClient: one job, one command. *)
EXTENDS RunClient
=============================================================================
