SPECIFICATION Spec
CONSTANTS
  Strategies = {s1}
  Slots = {k1, k2}
  None = None
  Equities = {10}
  Pnls <- MCSettled
  Intents = {"long", "short", "close"}
  RiskCfg <- MCNoDrawdown
  AllowShort = TRUE
  MaxErrors = 2
  Requests <- MCPaperClient
  Enabled = {"place"}
  PnlBound = 0
  CountBound = 2
  MaxNotices = 1
PROPERTY ErrorsAdvance
