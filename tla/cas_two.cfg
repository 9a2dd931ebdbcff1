CONSTANTS
  Writer = {w1, w2, w3}
  Inode = {i1, i2, i3, i4}
  None = None
  BadData = FALSE
  WriteErrors = FALSE
  MaxCrashes = 0
SPECIFICATION Spec
INVARIANT IntegrityAtRest
INVARIANT StoredAfterPut
CHECK_DEADLOCK FALSE
