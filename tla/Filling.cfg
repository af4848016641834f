\* Texts of up to five characters, lines of up to two columns.
CONSTANTS
  TabWidth = 4
  Char <- MCChar
  FillColumn = 1
  AutoFill = TRUE
  MaxSize = 5
SPECIFICATION Spec
INVARIANTS
  VerticalMotionReturns
  FillMovesOnlySpace
  FilledLinesFit
\* delete-blank-lines may abort.
CHECK_DEADLOCK FALSE
