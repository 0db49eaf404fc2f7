SPECIFICATION Spec
CONSTANTS
  Main = Main
  Fiber = Fiber
  Nested = Nested
  Thread = Thread
  main = main
  other = other
  A = A
  B = B
  U = U
  NoFile = NoFile
  NoId = NoId
  Contexts = {Main, Fiber, Nested, Thread}
  On <- MCOn
  Files = {A, B}
  Libs = {U}
  Script = A
  Invalid = {B}
  PoolMax = 2
  MaxPrograms = 3
  MaxCalls = 4
  MaxDepth = 3
SYMMETRY FiberSymmetry
CHECK_DEADLOCK FALSE
INVARIANTS TypeOK RunsItsCode OwnFile LoadsOnce AnswersLoaded
