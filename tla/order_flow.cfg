\* A signal to the broker's book, on every kind of market.
SPECIFICATION Spec
CONSTANTS
  Markets <- MCMarkets
  Bars <- MCBars
  Opens <- MCOpens
  Intents <- MCIntents
  PollMarks = {15}
  MaxBars = 3
  MaxPending = 2
  LotsByHand <- MCLots
  Tick = 2
  LotStep = 2
  MinQty = 2
  MinNotional = 60
  SizePct = 50
  Capital = 200
  SlipPct = 5
  CommPct = 5
  PositionPct = 50
  StopPct = 20
  TargetPct = 15
INVARIANTS TypeOK SameSide LedgerBalances BacktestBalances NoUninvitedShort StopsAreNeverBlocked
CHECK_DEADLOCK FALSE
