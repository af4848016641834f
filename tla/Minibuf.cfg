\* Three kinds of prompt, names that are prefixes of each other, two elements of history.
CONSTANTS
  Chars = {1, 2}
  Prompts <- MCPrompts
  MaxLen = 3
  MaxHistory = 2
SPECIFICATION Spec
INVARIANTS
  HistoryInStep
  AssertionsAreMet
PROPERTIES
  CompletionIsSound
\* An assertion may end the editor.
CHECK_DEADLOCK FALSE
