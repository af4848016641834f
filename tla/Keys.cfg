\* Up to six keys, among them every kind of command that reads keys itself.
CONSTANTS
  Keys = {"2", "(", ")", "X", "E", "C-u", "M-x", "C-s", "S", "DEL", "C-g"}
  Bound <- MCBound
  Named <- MCNamed
  Digit <- MCDigit
  DigitValue = 2
  CtrlU = "C-u"
  CtrlG = "C-g"
  Backspace = "DEL"
  NULL = NULL
  Program <- MCProgram
  MaxTyped = 6
  MaxDepth = 4
SPECIFICATION Spec
INVARIANTS
  RecordingHoldsTypedKeys
  OnlyNestedCommandsAbort
PROPERTIES
  ReplayIsExact
\* The bounds on keys and depth stop the editor, and so does an assertion.
CHECK_DEADLOCK FALSE
