------------------------------ MODULE MCSettings ------------------------------
(* Small instances of Settings for TLC. *)
EXTENDS Settings, TLC

Symmetry == Permutations(Update) \cup Permutations(Request)
=============================================================================
