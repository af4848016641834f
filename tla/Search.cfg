\* Up to three characters of `a', `b' in either case and line ends.
CONSTANTS
  TabWidth = 2
  InitTexts <- MCTexts
  Typed = {"a"}
  Strings <- MCStrings
  Repls <- MCRepls
  CaseFold = TRUE
  CaseReplace = TRUE
  MaxPattern = 2
  MaxSize = 3
SPECIFICATION Spec
INVARIANTS
  TypeOK
  IsearchShowsNearest
PROPERTIES
  QueryReplacesChosen
  CasingKeepsPlaces
  ReplacingEnds
\* Where an offset is not in the text the program aborts.
CHECK_DEADLOCK FALSE
