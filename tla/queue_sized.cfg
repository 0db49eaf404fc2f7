SPECIFICATION FairSpec
CONSTANTS
  P = P
  Q = Q
  C = C
  X = X
  Y = Y
  NoThread = NoThread
  Unbounded = Unbounded
  Threads <- MCThreads
  Values = {X}
  Cap = 1
  Pushers = {P, Q}
  Poppers = {Q, C}
  Closers = {C}
  Clearers = {}
  MaxTurns = 4
CHECK_DEADLOCK FALSE
INVARIANTS NoLostPushWakeup Overshoot
PROPERTIES ClosedOnlyDrains CloseFreesAll
