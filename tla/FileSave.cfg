\* Two files, one of them new, and up to two buffers.
CONSTANTS
  Files = {"f", "g"}
  Existing = {"f"}
  Denied = {}
  Texts = {"x"}
  Original = "o"
  MakeBackups = TRUE
  Ids = {b1, b2}
  MaxWrites = 2
SYMMETRY MCSymmetry
SPECIFICATION Spec
INVARIANTS
  UnmodifiedIsOnDisk
  LeavingLosesNothing
  SignalSavesWork
PROPERTIES
  TruncationIsSafe
\* The editor ends.
CHECK_DEADLOCK FALSE
