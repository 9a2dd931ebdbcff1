CONSTANTS
  x = x
  y = y
  z = z
  Chunk = {x, y, z}
  Hole = Hole
  NoFile = NoFile
  Content <- TwoContents
  Handler = {h1}
  MaxUses = 2
  MaxChanges = 2
  MaxRestarts = 0
  Zero = Zero
  SlowAssembly = FALSE
  PeerReverts = TRUE
SPECIFICATION FairSpec
INVARIANT IndexBacked
INVARIANT SaveIsUnderWay
PROPERTY DiskGetsIndexed
CHECK_DEADLOCK FALSE
