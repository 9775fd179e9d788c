CONSTANTS
  Position <- MCPosition
  Act <- MCAct
  Moves <- MCMoves
  Mover <- MCMover
  Winner <- MCWinner
  Over <- MCOver
  Live <- MCLive
  Neutral = {3}
  Capture <- MCCapture
  Slot <- MCSlot
  Eval <- MCEval
  MateScore = 1000
  MateBand = 900
  InfScore = 10000
  Delta = 2
  MaxDepth = 3
  AspirationMinDepth = 2
  LmrLateAfter = 1
  LmrMinDepth = 2
  Generations = 4
  NoAct = NoAct
  Setups <- MCSetups
  Books <- MCBooks
  MovesLeft <- MCMovesLeft
  TurnOf <- MCTurnOf
  Coin <- MCCoin
  Deepened <- Iteration
  Window = 1
  MaxGames = 1
  MaxPanics = 1
  NoSearcher = NoSearcher
  NoPosition = NoPosition
SPECIFICATION EngineSpec
INVARIANTS
  SearcherFits
  GameCountsItsOwn
  MateIsReal
  ScoreIsTrue
  SalvageIsProven
CHECK_DEADLOCK FALSE
