\* The texts `a b' and `a\n', and up to three characters.
CONSTANTS
  TabWidth = 2
  InitTexts <- MCTexts
  Args <- MCArgs
  MaxSize = 3
  MaxRing = 3
SPECIFICATION Spec
PROPERTIES
  KillsYankBack
  MarkSurvivesKills
  TransposeSwaps
  OnlyVainKillsForget
\* Where an offset is not in the text the program aborts.
CHECK_DEADLOCK FALSE
