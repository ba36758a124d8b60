SPECIFICATION FairSpec
CONSTANTS
  w1 = w1
  w2 = w2
  host = host
  guest = guest
  sleep = sleep
  a = a
  b = b
  NoItem = NoItem
  Worker = {w1, w2}
  Outside = {host, guest}
  Item = {sleep, a, b}
  Delay <- OneTimer
  Awaits <- NeverBlocks
  Stoppers = {}
  Capacity = 2
  Horizon = 1
INVARIANTS
  QueuedIsWatched
  InTurn
  DrainedWhenReturned
PROPERTIES
  AcceptedRuns
  ShutdownReturns
  ImplementsExecutor
