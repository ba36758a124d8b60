SPECIFICATION FairSpec
CONSTANTS
  w1 = w1
  w2 = w2
  host = host
  guest = guest
  sleep = sleep
  a = a
  b = b
  NoItem = NoItem
  Worker = {w1, w2}
  Outside = {host}
  Item = {a, b}
  Delay <- NoTimer
  Awaits <- NeverBlocks
  Stoppers = {a}
  Capacity = 3
  Horizon = 2
PROPERTIES
  ShutdownReturns
CHECK_DEADLOCK FALSE
