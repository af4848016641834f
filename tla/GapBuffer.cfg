\* DOS line ends: the end of line is two characters, the point may split it.
CONSTANTS
  a = a
  LF = LF
  CR = CR
  NUL = NUL
  Char <- MCCrLfChar
  Eol <- MCCrLf
  Inserts <- MCCrLfInserts
  InitTexts <- MCCrLfTexts
  Markers = {mark}
  MIN_GAP = 1
  MAX_GAP = 2
  SIZE_MOD = 16
  MaxSize = 4
SPECIFICATION Spec
INVARIANTS
  TypeOK
  LineScanIgnoresGap
PROPERTIES
  GapStaysZeroed
  MarkersTrackText
  MarkersLeaveOnlyByWrap
  MotionKeepsEolWhole
  ImplementsTextBuffer
