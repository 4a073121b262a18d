---------------------------- MODULE MCTransfer ----------------------------
(* The model-checking instance of Transfer: files are interchangeable. *)
EXTENDS Transfer, TLC

FileSymmetry == Permutations(Files)
=============================================================================
