\* A sequence within a sequence and its undo; edits before and after an undo.
CONSTANTS
  a = a
  b = b
  Char = {a, b}
  Inserts <- MCInserts
  InitTexts <- MCTexts
  MaxSize = 1
  MaxEdits = 4
  MaxUndo = 8
  MaxDepth = 2
SPECIFICATION Spec
INVARIANTS
  DeltasInvert
PROPERTIES
  RevertStaysInStep
  OnlyStaleRevertsLie
\* The bound on the list may stop an undo half way.
CHECK_DEADLOCK FALSE
