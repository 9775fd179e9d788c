CONSTANTS
  Script <- MCScript
  Draw <- MCDraw
  GameCount = 2
  PlyCeiling = 5
  PolicyUnit = 7
  NoPly = NoPly
  Opening = 1
  LegalAt <- MCLegalAt
  AfterMove <- MCAfterMove
  SeatAt <- MCSeatAt
  OverAt = {8, 9}
  WinnerAt <- MCWinnerAt
  CapturesAt <- MCCapturesAt
  AlphaMove <- MCAlphaMove
  NetMove <- MCNetMove
  Clocks <- MCClocks
  TimedMove <- MCTimedMove
  NoClock = NoClock
  Stream <- MCStream
  DerivedSeed <- MCDerivedSeed
  VerdictMin = 4
  GateMin = 6
  NoFlag = NoFlag
  NoMove = NoMove
  GenCount = 2
  Window = 2
  Invocations <- MCInvocations
  ShardLimit = 2
  FullInstances = 2
  GatePercent = 55
  Champions = {"c1", "c2"}
  Candidates = {"n1", "n2"}
  Loadable <- MCLoadable
  Knobs <- MCKnobs
  ArenaFlags <- MCArenaFlags
  Budgets <- MCBudgets
  NoFile = NoFile
  Torn = Torn
  Rejected = Rejected
  Absent = Absent
  NotMined = NotMined
  Preferred <- MCPreferred
  Rows = 3
  Cols = 4
  Players = 2
  ExactBranchLimit = 32
  MaxDefensive = 12
  FillerLimit = 2
  MaxStrategicPairs = 48
SPECIFICATION OfflineSpec
INVARIANTS
  ControlIsTheCounterfactual
  PairsCancel
  RowsAreTheGeneration
  ReportIsOfTheCandidate
  LockIsReleased
  ProbesAreTheirGames
  ProbesAreTheExtremes
PROPERTIES
  OthersKeepTheirLock
CHECK_DEADLOCK FALSE
