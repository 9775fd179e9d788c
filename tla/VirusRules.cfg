\* Every game of two, three and four seats on two by five.
CONSTANTS
  Rows = 2
  Cols = 5
  Players = 4
  Rejected = Rejected
  Absent = Absent
  ExactBranchLimit = 5
  MaxDefensive = 3
  FillerLimit = 2
  MaxStrategicPairs = 4
SPECIFICATION Spec
INVARIANTS
  ActiveIsMobility
  DecodeAgrees
  SearchTriesAFairSample
  CutsSeverTheirCost
  ScoresAreFair
CHECK_DEADLOCK FALSE
