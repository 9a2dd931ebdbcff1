CONSTANTS
  p = p
  q = q
  r = r
  s = s
  other = other
  Secret = s
  SecretOf <- Secrets
  Skew <- Clocks
  Moment = {0, 400, 900}
  MaxDelay = 5
  x = x
  y = y
  Peer = {p, q, r}
  Chunk = {x, y}
  Missing <- Pair
  Holds <- Scattered
  MaxStreams = 1
  Unreliable = TRUE
  PutErrors = FALSE
SPECIFICATION FairSpec
INVARIANT TypeOK
INVARIANT NothingLeftRunning
INVARIANT SecuredMeansStored
INVARIANT GivesUpOnErrorsOnly
INVARIANT ClockWindow
PROPERTY TransfersChunks
PROPERTY AttemptsRunOut
PROPERTY TransferEnds
CHECK_DEADLOCK FALSE
