\* One or two windows of one to four lines on texts of up to three.
CONSTANTS
  Files = {"f"}
  Rows = {5, 6}
  SIZE_MOD = 5
  MaxSize = 2
  MaxCount = 2
SPECIFICATION Spec
PROPERTIES
  RightStaysRight
  MotionScrollsOnlyOut
