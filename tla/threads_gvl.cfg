SPECIFICATION Spec
CONSTANTS
  Main = Main
  A = A
  B = B
  NoThread = NoThread
  Threads <- MCThreads
  MayJoin <- NestedJoins
  MayBlock = {Main, A, B}
  MaySleep = {A}
CHECK_DEADLOCK FALSE
INVARIANTS OnlyHolderTouchesHost DeadMeansPublished
PROPERTY ImplementsGvl
