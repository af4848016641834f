\* Shell output and completions over the scratch buffer, up to two windows.
CONSTANTS
  Files = {}
  Temps = {"*Shell Command Output*"}
  Rows = {3, 6}
  MinRows = 6
  Prompts = {TRUE, FALSE}
  SIZE_MOD = 3
  MaxSize = 1
SPECIFICATION Spec
INVARIANTS
  BuffersAreListed
PROPERTIES
  BorrowedWindowIsReturned
  PromptRestoresLayout
\* resize_windows may follow a null pointer.
CHECK_DEADLOCK FALSE
