\* Snapshots may be rejected and searches replaced while they run.
CONSTANTS
  TurnBudget = 8
  MinAction = 1
  Overhead = 1
  Search = {s1, s2}
  NoSearch = NoSearch
  MaxSearches = 4
SPECIFICATION Spec
INVARIANTS TurnBound
PROPERTIES TurnOpensAFullBank
