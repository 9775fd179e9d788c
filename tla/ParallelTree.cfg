\* Two workers, batches of two, a finished and a stuck leaf, workers that panic.
CONSTANTS
  root = root
  left = left
  right = right
  below = below
  t1 = t1
  t2 = t2
  Node = {root, left, right, below}
  Root = root
  Kids <- ForkKids
  Over = {right}
  Value <- ForkValue
  Worker = {t1, t2}
  Batch = 2
  Count = 5
  MaxRuns = 1
  MaxRounds = 1
  NoNode = NoNode
SPECIFICATION Spec
INVARIANTS
  ClaimsAreExclusive
  BackupsAddUp
PROPERTIES
  EveryRunEnds
\* The caller stops at MaxRuns.
CHECK_DEADLOCK FALSE
