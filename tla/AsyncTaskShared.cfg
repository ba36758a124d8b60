SPECIFICATION Spec
CONSTANTS
  c1 = c1
  c2 = c2
  c3 = c3
  NoCoro = NoCoro
  Coro = {c1, c2, c3}
  Awaits <- TwoParents
  Code <- SharedChildCode
  MaxAwaits = 1
  MayStop = TRUE
INVARIANTS
  IInv
PROPERTIES
  ImplementsContract
