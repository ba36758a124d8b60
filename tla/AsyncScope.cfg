SPECIFICATION FairSpec
CONSTANTS
  root = root
  mid = mid
  leaf = leaf
  NoTask = NoTask
  Task = {root, mid, leaf}
  Parent <- Siblings
  Rank <- InOrder
  Deadlines = {root}
  Workers = 4
INVARIANTS
  NobodyWaitsInVain
  ChildrenSettleFirst
  JoinReportsFailures
  DeadlineReachesAll
PROPERTIES
  CancelledTasksSettle
  DeadlineEndsJoin
