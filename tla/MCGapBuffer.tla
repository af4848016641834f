---------------------------- MODULE MCGapBuffer -----------------------------
(* GapBuffer with two-character line ends: short texts over one letter and *)
(* the characters of the end of line, gaps of at most two characters.      *)
EXTENDS GapBuffer, SequencesExt

CONSTANTS a, LF, CR

MCCrLf == <<CR, LF>>

MCCrLfChar == {a, CR, LF}

MCCrLfInserts == BoundedSeq({a}, 1) \cup {MCCrLf, <<CR>>}

MCCrLfTexts == {<<a, CR, LF, a>>}

=============================================================================
