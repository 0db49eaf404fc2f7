SPECIFICATION FairSpec
CONSTANTS
  P = P
  Q = Q
  A = A
  L = L
  X = X
  Y = Y
  NoProc = NoProc
  None = None
  Absent = Absent
  Unstamped = Unstamped
  Procs = {P, Q}
  Files = {A, L}
  Scripts = {A}
  Bundle <- MCBundle
  Contents = {X, Y}
  Sources <- MCSources
  MaxBuilds = 2
  MaxEdits = 1
  MaxLaunches = 3
  EditsWhileBuilding = FALSE
CHECK_DEADLOCK FALSE
INVARIANTS ShardIsWhole RunsWhatItFound StampIsTrue
PROPERTIES ImplementsStore BuildsFinish
