CONSTANTS
  Node = {1, 2, 3}
  f1 = f1
  File = {f1}
  Root = {a, b}
  NoRoot = NoRoot
  Editors <- EditedBy2
  Goroutine = {g1}
  MaxTS = 2
  Restarting = {}
  MaxRestarts = 0
  Overlap = {}
  ManualSync = {}
  IndexErrors = FALSE
  GossipLost = FALSE
SPECIFICATION FairSpec
INVARIANT TypeOK
INVARIANT SameTimestampSameRoot
INVARIANT NextWriteIsNewest
INVARIANT LaggardsWant
PROPERTY SoleEditorKeepsCopy
PROPERTY SettledCopySticks
PROPERTY SharesFiles
PROPERTY SoleEditorConverges
