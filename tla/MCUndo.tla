------------------------------- MODULE MCUndo -------------------------------
(* Instances of Undo: short texts of two letters, lists of a few           *)
(* entries, sequences nested once.                                         *)
EXTENDS Undo

CONSTANTS a, b

MCInserts == {<<>>, <<a>>}
MCTexts   == {<<b>>}

=============================================================================
