------------------------------ MODULE MCJournal ------------------------------
(* Two imports beside the operation of an earlier one. *)
EXTENDS Journal

MCEarlier == {[id |-> 4, import |-> 9, log |-> <<>>]}

=============================================================================
