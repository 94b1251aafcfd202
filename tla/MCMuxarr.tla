------------------------------- MODULE MCMuxarr -------------------------------
(* Muxarr on small instances. *)
EXTENDS Muxarr
=============================================================================
