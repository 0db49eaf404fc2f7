SPECIFICATION Spec
CONSTANTS
  Main = Main
  A = A
  B = B
  NoThread = NoThread
  Threads <- MCThreads
  MayJoin <- MainJoins
  MayBlock = {A}
  MaySleep = {}
CHECK_DEADLOCK FALSE
INVARIANT OwnContext
