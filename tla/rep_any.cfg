CONSTANTS
  Node = {1, 2}
  f1 = f1
  File = {f1}
  Root = {a, b}
  NoRoot = NoRoot
  Editors <- EditedBy1And2
  Goroutine = {g1}
  MaxTS = 2
  Restarting = {1}
  MaxRestarts = 1
  Overlap = {2}
  ManualSync = {2}
  IndexErrors = TRUE
  GossipLost = TRUE
SPECIFICATION Spec
SYMMETRY RootSymmetry
INVARIANT NoInventedVersion
INVARIANT OneOfTwoFetches
