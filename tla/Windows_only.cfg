\* delete-other-windows with three windows on one file and the scratch buffer.
CONSTANTS
  Files = {"f"}
  Temps = {}
  Rows = {7}
  MinRows = 7
  Prompts = {}
  SIZE_MOD = 3
  MaxSize = 1
SPECIFICATION Spec
PROPERTIES
  SelectedWindowFillsScreen
CHECK_DEADLOCK FALSE
