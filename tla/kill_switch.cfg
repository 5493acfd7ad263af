SPECIFICATION Spec
CONSTANTS
  Strategies = {s1}
  Slots = {k1, k2}
  None = None
  Equities <- MCEquities
  Pnls <- MCPnls
  Intents = {"long", "short", "close"}
  RiskCfg <- MCRiskCfg
  AllowShort = TRUE
  MaxErrors = 2
  Requests <- MCAnyClient
  Enabled = {"config", "delete", "commit", "place", "crash", "midnight"}
  PnlBound = 1
  CountBound = 2
  MaxNotices = 1
PROPERTIES HaltReleasedByUser HaltedNeverOpens
