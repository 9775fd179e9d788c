\* Lobbies, challenges and the optimistic busy flag beside a game.
CONSTANTS
  Game = {g1}
  Seat = {1, 2}
  TaskId = {t1}
  t1 = t1
  t2 = t2
  b1 = b1
  b2 = b2
  x = x
  y = y
  Position <- MCLobbyPosition
  Action = {x, y}
  Legal <- MCLegal
  Orderly = TRUE
  Challenger = TRUE
  Sends = {"welcome", "bot_wanted", "lobby_joined", "lobby_closed", "challenge_received", "game_start", "driver", "game_end", "ping"}
  MaxVersion = 4
  MaxOutbox = 2
  NoGame = NoGame
  NoPosition = NoPosition
  NoTask = NoTask
  NoAction = NoAction
  Missing = Missing
  Malformed = Malformed
SPECIFICATION TimerSpec
INVARIANTS
  BusyFlagHasADeadline
PROPERTIES
  AcceptedGameComesOrHeals
