---------------------------- MODULE MCLogStream ----------------------------
(* The model-checking instance of LogStream. *)
EXTENDS LogStream
=============================================================================
