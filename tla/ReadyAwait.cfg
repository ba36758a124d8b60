SPECIFICATION Spec
CONSTANTS
  c1 = c1
  c2 = c2
  c3 = c3
  NoCoro = NoCoro
  Coro = {c1, c2}
  Awaits <- ParentAwaitsChild
  Code <- AwaitsTwice
  MaxAwaits = 2
  MayStop = FALSE
PROPERTY LaterAwaitFails
