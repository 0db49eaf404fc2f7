SPECIFICATION Spec
CONSTANTS
  Main = Main
  A = A
  E = E
  FiberError = FiberError
  None = None
  Threads <- MCThreads
  MaxFibers = 2
  Exceptions = {E}
CHECK_DEADLOCK FALSE
INVARIANTS OwnContext ExceptionTravels YieldsItself
PROPERTY ImplementsCoroutines
