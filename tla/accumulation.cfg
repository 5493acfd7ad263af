SPECIFICATION Spec
CONSTANTS
  Policies <- Arms
  Models <- CapitalModels
  Prices <- MCPrices
  NBars = 6
  Contribution = 100
  Interval = 2
  Budget = 300
  Cost = 5
  CycleLength = 5
  Shortest = 4
  Window <- MCWindow
  Weighted <- MCWeighted
  Hunter <- MCHunter
  Rotation <- MCRotation
  Grid <- MCGrid
INVARIANTS TypeOK BooksBalance CoreKept
PROPERTIES NoBuyingAtTheTop
CHECK_DEADLOCK FALSE
