\* The same strategy in a backtest, live and in the sandbox.
SPECIFICATION FairSpec
CONSTANTS
  FastPeriod = 2
  SlowPeriod = 3
  SignalPeriod = 2
  RsiPeriod = 2
  Oversold = 30
  Overbought = 70
  BandPeriod = 3
  BandPct = 50
  Unit = 3779136
  Rules = {"sma", "rsi", "macd", "bands"}
  Prices = {2, 3}
  Awkward = 3
  FirstBars = 5
  MaxBars = 7
  Warmup = 4
  MinBars = 7
  Limits = {4, 8}
  Delays = {0, 1}
  Codes <- MCCodes
INVARIANTS TypeOK HostsAgree ReplayIsCausal
PROPERTIES RunawaysEnd
