------------------------------ MODULE MCAccounts ------------------------------
(* Accounts on small instances.  Requests are alike, and so are browsers. *)
EXTENDS Accounts, TLC

MCSymmetry == Permutations(Requests) \cup Permutations(Browsers)

=============================================================================
