------------------------------ MODULE MCControl ------------------------------
(* Calls are used once and are interchangeable.                            *)
EXTENDS ControlRecovery, TLC

Symmetry == Permutations(Calls)
=============================================================================
