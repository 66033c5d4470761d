------------------------------ MODULE MCDvmHid ------------------------------
(* DvmHid for TLC: the epochs are interchangeable model values. *)
EXTENDS DvmHid, TLC

Symmetry == Permutations(Epochs)
=============================================================================
