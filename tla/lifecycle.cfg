SPECIFICATION FairSpec
CONSTANTS
  Strategies = {s1}
  Slots = {k1, k2}
  None = None
  Equities = {10}
  Pnls <- MCSettled
  Intents = {"long", "short", "close"}
  RiskCfg <- MCNoDrawdown
  AllowShort = TRUE
  MaxErrors = 2
  Requests <- MCAnyClient
  Enabled = {"config", "delete", "commit", "place", "crash", "rehydrate"}
  PnlBound = 0
  CountBound = 2
  MaxNotices = 2
INVARIANTS TypeOK TaskTableExact StoppedStaysStopped FillsRecorded NeverPyramids GoneIsInert
PROPERTIES PauseEndsLoop CycleEnds LogSpec
