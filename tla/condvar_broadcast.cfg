SPECIFICATION FairSpec
CONSTANTS
  A = A
  B = B
  S = S
  NoThread = NoThread
  Threads <- MCThreads
  Waiters = {A, B}
  Signallers = {}
  Broadcasters = {B, S}
  MayBlock = {A}
  MaxDepth = 2
  MaxTurns = 4
CHECK_DEADLOCK FALSE
INVARIANT NoMissedWakeup
PROPERTY StaleWaiterReturns
