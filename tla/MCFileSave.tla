----------------------------- MODULE MCFileSave -----------------------------
(* Buffers are told apart by what they hold only.                          *)
EXTENDS FileSave, TLC

MCSymmetry == Permutations(Ids)

=============================================================================
