SPECIFICATION Spec
CONSTANTS
  Strategies = {s1}
  Slots = {k1, k2}
  None = None
  Equities = {10}
  Pnls <- MCSettled
  Intents = {"long", "short", "close"}
  RiskCfg <- MCNoDrawdown
  AllowShort = TRUE
  MaxErrors = 2
  Requests <- MCWebClient
  Enabled = {}
  PnlBound = 0
  CountBound = 2
  MaxNotices = 1
INVARIANT LoopMatchesRow
