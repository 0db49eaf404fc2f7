SPECIFICATION Spec
CONSTANTS
  A = A
  B = B
  S = S
  NoThread = NoThread
  Threads <- MCThreads
  Waiters = {A, B}
  Signallers = {A, S}
  Broadcasters = {S}
  MayBlock = {}
  MaxDepth = 1
  MaxTurns = 4
CHECK_DEADLOCK FALSE
INVARIANTS SectionsExclude FlagAroundBlock
