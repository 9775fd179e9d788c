\* A session panics while another turn or game is played.
CONSTANTS
  Game = {g1, g2}
  Session = {s1, s2}
  MaxVersion = 4
  NoGame = NoGame
  NoSlot = NoSlot
  NoStep = NoStep
SPECIFICATION Spec
INVARIANTS NeverPastASnapshot
\* The read loop stops at MaxVersion.
CHECK_DEADLOCK FALSE
