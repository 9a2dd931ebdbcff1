CONSTANTS
  root = root
  sub = sub
  dot = dot
  a = a
  b = b
  Path = {root, sub, dot, a, b}
  Dirs = {root, sub, dot}
  Root = root
  Parent <- Tree
  Hidden = {dot}
  MaxSaves = 4
  Faults = TRUE
SPECIFICATION FairSpec
INVARIANT TypeOK
INVARIANT VisibleTreeIsWalked
INVARIANT RecentIsTimed
INVARIANT OwedIsUnderWay
PROPERTY SavesGetReported
CHECK_DEADLOCK FALSE
