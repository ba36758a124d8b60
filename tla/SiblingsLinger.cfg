SPECIFICATION FairSpec
CONSTANTS
  root = root
  mid = mid
  leaf = leaf
  NoTask = NoTask
  Task = {root, mid, leaf}
  Parent <- Siblings
  Rank <- InOrder
  Deadlines = {}
  Workers = 4
PROPERTIES
  FailureCancelsSiblings
