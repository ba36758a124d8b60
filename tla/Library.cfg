SPECIFICATION LibrarySpec
CONSTANTS
  Source = {s1, s2}
  Sink = {r1, r2, r3}
  Timed = {r3}
  Producer = {p1, p2}
  Consumer = {c1, c2}
  Capacity = 1
  Handle = {h1, h2, h3}
  First = h1
  Tasks = 3
  Deadline = 2
  MaxClock = 3
  Entry = {e1, e2, e3}
  Drainer = {t1, t2}
  MaxDepth = 2
  Job = {j1, j2}
  Host = {x1, x2}
  Workers = 2
  Request = {q1, q2}
  MaxData = 2
  Poller = {a1, a2}
  Path = {f1, f2}
  MaxWrites = 1
  MaxLoads = 2
  Tree = {w}
  Native <- NativeSources
  n1 = n1
  n2 = n2
  Builder = {b1, b2}
  MaxEdits = 2
  MaxTime = 2
INVARIANTS
  LibraryTypeOK
  ObjectLifetime
  NoForgottenValue
  EachValueOnce
  NoOrphans
  VerdictJustified
  NoEntryVanishes
  HostShutdownDrains
  StorageOutlivesCalls
  AcceptFindsConnection
  NothingHoldsUpClose
  IdUsedSafely
  NothingLeftBehind
  HooksPaired
  ChangeNoticed
  UpToDateIsCurrent
PROPERTIES
  ChannelsImplementMailbox
  CombinatorSettles
  ClosesComplete
  WrappersStaySafe
  StartedInOrder
CHECK_DEADLOCK FALSE
