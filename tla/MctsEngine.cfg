CONSTANTS
  s = s
  a = a
  b = b
  c = c
  ab = ab
  won = won
  stuck = stuck
  t = t
  out = out
  off = off
  Position = {s, a, b, c, ab, won, stuck, t, out, off}
  Moves <- MCMoves
  Mover <- MCMover
  Over = {won, t}
  Winner <- MCWinner
  Value <- MCValue
  Key <- MCKey
  Depth <- MCDepth
  Configs <- MCConfigs
  MaxSims = 1
  Domain = {s, a, b, c, ab, won, stuck, t, out}
  Frozen = {out}
  Budgets <- MCBudgets
  Slice = 1
  Overshoot = 0
  Cap = 4
  MaxPlies = 2
  MaxApplies = 6
  Snapshots = {s, a, ab, won, stuck, out, off}
  MaxSteps = 2
  NoPosition = NoPosition
  NoAction = NoAction
SPECIFICATION Spec
INVARIANTS
  ValueIsConserved
  DagIsDuplicateFree
  ScheduleIsKept
  AnswerIsSearchedThere
  EarlyStopIsLate
PROPERTIES
  EveryQuestionIsAnswered
CHECK_DEADLOCK FALSE
