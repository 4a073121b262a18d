--------------------------- MODULE MCJobLifecycle ---------------------------
(* The model-checking instance of JobLifecycle: jobs are interchangeable. *)
EXTENDS JobLifecycle, TLC

JobSymmetry == Permutations(Jobs)
=============================================================================
