CONSTANTS
  x = x
  y = y
  z = z
  Chunk = {x, y, z}
  Hole = Hole
  NoFile = NoFile
  Content <- ThreeContents
  Handler = {h1}
  MaxUses = 0
  MaxChanges = 3
  MaxRestarts = 1
  Zero = Zero
  SlowAssembly = FALSE
  PeerReverts = FALSE
SPECIFICATION FairSpec
INVARIANT TypeOK
INVARIANT WholeVersions
INVARIANT DamageIsSeen
PROPERTY SharesFile
PROPERTY FollowsPeer
CHECK_DEADLOCK FALSE
