CONSTANTS
  Position <- MCPosition
  Act <- MCAct
  Moves <- MCMoves
  Mover <- MCMover
  Winner <- MCWinner
  Over <- MCOver
  Live <- MCLive
  Neutral = {3}
  Capture <- MCCapture
  Slot <- MCSlot
  Eval <- MCEval
  MateScore = 1000
  MateBand = 900
  InfScore = 10000
  Delta = 2
  MaxDepth = 3
  AspirationMinDepth = 2
  LmrLateAfter = 1
  LmrMinDepth = 2
  Generations = 4
  NoAct = NoAct
  Setups <- SalvageSetups
  Books <- MCBooks
  MovesLeft <- MCMovesLeft
  TurnOf <- MCTurnOf
  Coin <- MCCoin
  Deepened <- Iteration
  Window = 0
  MaxGames = 0
  MaxPanics = 0
  NoSearcher = NoSearcher
  NoPosition = NoPosition
SPECIFICATION EngineSpec
INVARIANT SalvageIsNoWorse
CHECK_DEADLOCK FALSE
