SPECIFICATION Spec
CONSTANTS
  P = P
  Q = Q
  C = C
  X = X
  Y = Y
  NoThread = NoThread
  Unbounded = Unbounded
  Threads <- MCThreads
  Values = {X, Y}
  Cap = Unbounded
  Pushers = {P, Q}
  Poppers = {Q, C}
  Closers = {C}
  Clearers = {P}
  MaxTurns = 4
CHECK_DEADLOCK FALSE
INVARIANT NoLostPopWakeup
PROPERTY ImplementsFifo
