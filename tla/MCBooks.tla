------------------------------ MODULE MCBooks ------------------------------
(* A small instance of Books for TLC. *)
EXTENDS Books, TLC

MCStart == [t \in Tx |-> 2]

MCSymmetry == Permutations(Call) \cup Permutations(Tx)
=============================================================================
