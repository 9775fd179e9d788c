\* Any frame in any order, two searches alive, one queued item: safety.
CONSTANTS
  Game = {g1, g2}
  Seat = {1, 2}
  TaskId = {t1, t2}
  t1 = t1
  t2 = t2
  b1 = b1
  b2 = b2
  x = x
  y = y
  Position <- MCPosition
  Action = {x, y}
  Legal <- MCLegal
  Orderly = FALSE
  Challenger = FALSE
  Sends = {"game_start", "refresh", "driver", "game_end", "error", "users_update"}
  MaxVersion = 4
  MaxOutbox = 2
  NoGame = NoGame
  NoPosition = NoPosition
  NoTask = NoTask
  NoAction = NoAction
  Missing = Missing
  Malformed = Malformed
SPECIFICATION Spec
INVARIANTS
  VersionIdentifiesPosition
  SupersededSearchIsCancelled
PROPERTIES
  ImplementsTurnLicence
  WrittenActionIsSound
SYMMETRY Symmetry
