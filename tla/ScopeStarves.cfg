SPECIFICATION FairSpec
CONSTANTS
  root = root
  mid = mid
  leaf = leaf
  NoTask = NoTask
  Task = {root, mid, leaf}
  Parent <- Nested
  Rank <- InOrder
  Deadlines = {}
  Workers = 2
PROPERTIES
  CancelledTasksSettle
CHECK_DEADLOCK FALSE
