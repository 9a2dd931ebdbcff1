CONSTANTS
  Node = {1, 2, 3}
  f1 = f1
  File = {f1}
  Root = {a, b}
  NoRoot = NoRoot
  Editors <- EditedBy1
  Goroutine = {g1}
  MaxTS = 2
  Restarting = {}
  MaxRestarts = 0
  Overlap = {}
  ManualSync = {}
  IndexErrors = FALSE
  GossipLost = FALSE
SPECIFICATION Spec
PROPERTY HigherTimestampWins
