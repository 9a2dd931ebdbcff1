CONSTANTS
  x = x
  y = y
  z = z
  Chunk = {x, y, z}
  Hole = Hole
  NoFile = NoFile
  Content <- TwoContents
  Handler = {h1}
  MaxUses = 1
  MaxChanges = 1
  MaxRestarts = 0
  Zero = Zero
  SlowAssembly = FALSE
  PeerReverts = FALSE
SPECIFICATION Spec
PROPERTY IgnoresOnlyOwnEvents
CHECK_DEADLOCK FALSE
