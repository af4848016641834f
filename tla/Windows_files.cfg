\* Up to three windows on two files and the scratch buffer.
CONSTANTS
  Files = {"f"}
  Temps = {}
  Rows = {3, 5, 7}
  MinRows = 7
  Prompts = {}
  SIZE_MOD = 6
  MaxSize = 2
SPECIFICATION Spec
INVARIANTS
  WindowsAreSound
PROPERTIES
  SelectingKeepsPlaces
  ResizeEnds
\* resize_windows may follow a null pointer.
CHECK_DEADLOCK FALSE
