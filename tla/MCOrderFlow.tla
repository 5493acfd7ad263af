---------------------------- MODULE MCOrderFlow ----------------------------
(***************************************************************************)
(* Instances of OrderFlow for TLC.                                         *)
(***************************************************************************)
EXTENDS OrderFlow

\* A ledger, and one market of each kind: visible or not, known or not.
MCMarkets ==
  {<<"sim", "BTCUSDT">>, <<"bybit", "BTCUSDT.P">>, <<"bybit", "btcusdt">>,
   <<"binance", "BTCUSDT">>, <<"alpaca", "AAPL">>, <<"alpaca", "FOO">>}

Bar(low, high, close) == [low |-> low, high |-> high, close |-> close]

\* Quiet, rising to a target, falling through a stop, both.
MCBars == {Bar(20, 21, 20), Bar(20, 26, 25), Bar(14, 21, 15), Bar(14, 26, 20)}

MCOpens == {20}

\* An odd lot sold.
MCLots == {-3}

MCIntents == {"long", "short", "close", "none"}

=============================================================================
