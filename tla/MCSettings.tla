------------------------------ MODULE MCSettings ------------------------------
(* Settings for TLC: a PATCH sets one field, or switches AI on with its model. *)
EXTENDS Settings

MCChanges ==
    {[f \in {name} |-> value] : name \in Fields, value \in BOOLEAN}
        \cup {[f \in Fields |-> TRUE]}
=============================================================================
