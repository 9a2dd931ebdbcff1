CONSTANTS
  Writer = {w1}
  Inode = {i1, i2, i3}
  None = None
  BadData = TRUE
  WriteErrors = TRUE
  MaxCrashes = 2
SPECIFICATION Spec
PROPERTY KeepsPromise
CHECK_DEADLOCK FALSE
