SPECIFICATION FairSpec
CONSTANTS
  Main = Main
  A = A
  B = B
  NoThread = NoThread
  Threads <- MCThreads
  MayJoin <- MainJoins
  MayBlock = {}
  MaySleep = {}
CHECK_DEADLOCK FALSE
INVARIANTS OwnContext JoinWaits
PROPERTY JoinReturns
