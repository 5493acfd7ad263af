SPECIFICATION Spec
CONSTANTS
  Strategies = {s1}
  Slots = {k1, k2}
  None = None
  Equities <- MCEquities
  Pnls <- MCSettled
  Intents = {"long", "short", "close"}
  RiskCfg <- MCNoDrawdown
  AllowShort = TRUE
  MaxErrors = 2
  Requests <- MCPaperClient
  Enabled = {"crash"}
  PnlBound = 0
  CountBound = 2
  MaxNotices = 1
PROPERTY PeakNeverDecreases
