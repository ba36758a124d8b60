SPECIFICATION FairSpec
CONSTANTS
  w1 = w1
  w2 = w2
  host = host
  guest = guest
  sleep = sleep
  a = a
  b = b
  NoItem = NoItem
  Worker = {w1, w2}
  Outside = {}
  Item = {sleep, a, b}
  Delay <- OneTimer
  Awaits <- BlocksOnSleep
  Stoppers = {}
  Capacity = 3
  Horizon = 2
PROPERTIES
  DueTimersStart
