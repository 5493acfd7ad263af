SPECIFICATION Spec
CONSTANTS
  Strategies = {s1}
  Slots = {k1, k2}
  None = None
  Equities <- MCEquities
  Pnls <- MCPnls
  Intents = {"long", "short", "close"}
  RiskCfg <- MCRiskCfg
  AllowShort = TRUE
  MaxErrors = 2
  Requests <- MCStart
  Enabled = {"generate", "read", "crash"}
  PnlBound = 2
  CountBound = 2
  MaxNotices = 1
INVARIANTS OpenCountExact DailyPnlIsTodays HaltReachesRow
PROPERTIES PeakNeverDecreases
