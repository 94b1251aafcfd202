------------------------------ MODULE MCJobQueue ------------------------------
(* JobQueue on small instances. *)
EXTENDS JobQueue
=============================================================================
