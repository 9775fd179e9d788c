\* Two games, two threads at once, sessions that may panic.
CONSTANTS
  Game = {g1, g2}
  Session = {s1, s2}
  MaxVersion = 4
  NoGame = NoGame
  NoSlot = NoSlot
  NoStep = NoStep
SPECIFICATION Spec
INVARIANTS
  LiveStepIsCurrent
  LiveAnswerIsLast
  OneStepPerSnapshot
PROPERTIES
  HandedIsResolved
  DroppedSessionEnds
\* The read loop stops at MaxVersion.
CHECK_DEADLOCK FALSE
