---------------------------- MODULE SignalRules ----------------------------
(***************************************************************************)
(* The four strategies of domain/strategy/examples/sma_crossover.py as     *)
(* functions from the closes up to a bar to the signal of that bar.        *)
(*                                                                         *)
(* Abstractions.  Prices are whole numbers; averages, deviations and the   *)
(* relative strength are compared without dividing, moving averages of the *)
(* exponential kind in units of 1/Unit, exact if Unit has the divisors.    *)
(* The crossovers of simple and of exponential averages share their two    *)
(* periods.  Of a signal only the direction is kept.                       *)
(***************************************************************************)
EXTENDS Integers, Sequences, SequencesExt

CONSTANTS
  FastPeriod, SlowPeriod, SignalPeriod,
  RsiPeriod, Oversold, Overbought,
  BandPeriod, BandPct,  \* std_mult, in percent
  Unit

\* What the validate_parameters of the four accept.
SmaParameters  == FastPeriod >= 2 /\ SlowPeriod > FastPeriod
RsiParameters  == RsiPeriod >= 2 /\ 0 < Oversold /\ Oversold < Overbought /\ Overbought < 100
MacdParameters == FastPeriod >= 2 /\ SlowPeriod > FastPeriod /\ SignalPeriod >= 2
BandParameters == BandPeriod >= 2 /\ BandPct > 0

ASSUME SignalRulesAssumption ==
  /\ {FastPeriod, SlowPeriod, SignalPeriod, RsiPeriod, BandPeriod} \subseteq Nat
  /\ SmaParameters /\ RsiParameters /\ MacdParameters /\ BandParameters
  /\ Unit \in Nat \ {0}

RuleNames == {"sma", "rsi", "macd", "bands"}
Signals == {"long", "short", "close", "neutral"}

-----------------------------------------------------------------------------

Total(values) == FoldSeq(+, 0, values)

\* values[-n:], and values[:-1].
Tails(values, n) == SubSeq(values, Len(values) - n + 1, Len(values))
Before(closes) == Front(closes)

\* The first condition that holds gives the signal.
FirstOf(buys, sells) == IF buys THEN <<"long">> ELSE IF sells THEN <<"close">> ELSE <<>>

\* The fast average is above the slow one; equal counts as below.
Above(closes) ==
  Total(Tails(closes, FastPeriod)) * SlowPeriod > Total(Tails(closes, SlowPeriod)) * FastPeriod

SmaSignal(closes) ==
  IF Len(closes) < SlowPeriod + 1 THEN <<>>
  ELSE FirstOf(~Above(Before(closes)) /\ Above(closes),
               Above(Before(closes)) /\ ~Above(closes))

\* _rsi as a fraction of gains; without a loss it is 100.
Rsi(closes) ==
  LET recent == Tails([i \in 1..Len(closes) - 1 |-> closes[i + 1] - closes[i]], RsiPeriod)
      gains  == Total(SelectSeq(recent, LAMBDA d : d > 0))
      losses == -Total(SelectSeq(recent, LAMBDA d : d < 0))
  IN  IF losses = 0 THEN [num |-> 1, den |-> 1] ELSE [num |-> gains, den |-> gains + losses]
RsiUnder(closes, level) == 100 * Rsi(closes).num < level * Rsi(closes).den
RsiOver(closes, level) == 100 * Rsi(closes).num > level * Rsi(closes).den

RsiSignal(closes) ==
  IF Len(closes) < RsiPeriod + 2 THEN <<>>
  ELSE FirstOf(~RsiUnder(Before(closes), Oversold) /\ RsiUnder(closes, Oversold),
               ~RsiOver(Before(closes), Overbought) /\ RsiOver(closes, Overbought))

\* _ema_series: seeded with the mean of the first values, one element per later one.
EmaSeries(values, period) ==
  IF Len(values) < period THEN <<>>
  ELSE LET ema[i \in 1..Len(values) - period + 1] ==
             IF i = 1 THEN Total(SubSeq(values, 1, period)) \div period
             ELSE (2 * values[period + i - 1] + (period - 1) * ema[i - 1]) \div (period + 1)
       IN  ema

Scaled(closes) == [i \in 1..Len(closes) |-> Unit * closes[i]]

\* _macd_line: the two series start at different bars.
MacdLine(closes) ==
  LET fast == EmaSeries(Scaled(closes), FastPeriod)
      slow == EmaSeries(Scaled(closes), SlowPeriod)
  IN  [i \in 1..Len(slow) |-> fast[i + SlowPeriod - FastPeriod] - slow[i]]

MacdSignal(closes) ==
  LET macd == MacdLine(closes)
      line == EmaSeries(macd, SignalPeriod)
      was  == macd[Len(macd) - 1] - line[Len(line) - 1]
      is   == Last(macd) - Last(line)
  IN  IF Len(closes) < SlowPeriod + SignalPeriod + 2 THEN <<>>
      ELSE FirstOf(was <= 0 /\ is > 0, was >= 0 /\ is < 0)

\* price < mid - mult * std over the window of the last BandPeriod closes.
BelowBand(closes, price) ==
  LET window == Tails(closes, BandPeriod)
      sum    == Total(window)
      under  == sum - BandPeriod * price
      spread == BandPeriod * Total([i \in 1..BandPeriod |-> window[i] * window[i]]) - sum * sum
  IN  under > 0 /\ (100 * under) * (100 * under) > BandPct * BandPct * spread
OverMiddle(closes, price) == BandPeriod * price > Total(Tails(closes, BandPeriod))

BandSignal(closes) ==
  LET was == closes[Len(closes) - 1]
      is  == Last(closes)
  IN  IF Len(closes) < BandPeriod + 1 THEN <<>>
      ELSE FirstOf(~BelowBand(closes, was) /\ BelowBand(closes, is),
                   OverMiddle(closes, is) /\ ~OverMiddle(closes, was))

\* generate_signals of the strategy of that name, on the bars it is given.
Generated(rule, closes) ==
  CASE rule = "sma"   -> SmaSignal(closes)
    [] rule = "rsi"   -> RsiSignal(closes)
    [] rule = "macd"  -> MacdSignal(closes)
    [] rule = "bands" -> BandSignal(closes)

=============================================================================
