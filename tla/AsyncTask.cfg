SPECIFICATION FairSpec
CONSTANTS
  c1 = c1
  c2 = c2
  c3 = c3
  NoCoro = NoCoro
  Coro = {c1, c2}
  Awaits <- ParentAwaitsChild
  Code <- LayeredCode
  MaxAwaits = 2
  MayStop = TRUE
INVARIANTS
  NoWakeUpIsLost
  SingleRunner
  ExecutorBoundary
PROPERTIES
  CancelSettles
  EveryCoroutineEnds
