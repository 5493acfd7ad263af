------------------------------ MODULE Backtest ------------------------------
(***************************************************************************)
(* The bar-by-bar engine of domain/backtest/engine.py as a function from   *)
(* the state of a run to its state one bar later, and the cost model it    *)
(* shares with the paper broker.                                           *)
(*                                                                         *)
(* Abstractions.  Amounts are whole numbers: percentages of a price, sizes *)
(* and stop levels are rounded down where the code keeps floats; every     *)
(* formula that uses such an amount uses the same one, so that sums stay   *)
(* exact.  The equity curve and the metrics are left out, and so are the   *)
(* rounding of a trade's result to cents and the trade that closes what    *)
(* the end of the data leaves open, which only the metrics see.            *)
(***************************************************************************)
EXTENDS Integers, Reconcile

CONSTANTS
  Capital,               \* the initial capital, and the paper account's
  SlipPct, CommPct,      \* costs of a fill
  PositionPct,           \* position_size_pct
  StopPct, TargetPct     \* stop_loss_pct, take_profit_pct; 0 for None

ASSUME BacktestAssumption ==
  /\ Capital \in Nat
  /\ {SlipPct, CommPct, StopPct, TargetPct} \subseteq 0..99
  /\ PositionPct \in 1..100

-----------------------------------------------------------------------------

\* _apply_slippage.
Slipped(price, isBuy) ==
  LET slip == (price * SlipPct) \div 100 IN IF isBuy THEN price + slip ELSE price - slip

Commission(price) == (price * CommPct) \div 100

\* The levels of a position; the stop is checked first.
StopLevel(entry, side) == entry - side * ((entry * StopPct) \div 100)
TargetLevel(entry, side) == entry + side * ((entry * TargetPct) \div 100)

FreshRun == [capital |-> Capital, side |-> Flat, size |-> 0, entry |-> 0, pnl |-> 0]

\* _exit_trigger: whether the range of the bar reached a level, and which.
HitsStop(run, bar) ==
  /\ run.side # Flat /\ StopPct > 0
  /\ IF run.side = Long THEN bar.low <= StopLevel(run.entry, Long)
                        ELSE bar.high >= StopLevel(run.entry, Short)
HitsTarget(run, bar) ==
  /\ run.side # Flat /\ TargetPct > 0
  /\ IF run.side = Long THEN bar.high >= TargetLevel(run.entry, Long)
                        ELSE bar.low <= TargetLevel(run.entry, Short)
Exits(run, bar) == HitsStop(run, bar) \/ HitsTarget(run, bar)
ExitLevel(run, bar) ==
  IF HitsStop(run, bar) THEN StopLevel(run.entry, run.side)
                        ELSE TargetLevel(run.entry, run.side)

\* _open_position.
Opened(run, side, price) ==
  LET entry == Slipped(price, side = Long)
      size  == (run.capital * PositionPct) \div (100 * (entry + Commission(entry)))
  IN  [run EXCEPT
         !.side = side, !.size = size, !.entry = entry,
         !.capital = IF side = Long THEN @ - size * (entry + Commission(entry))
                                    ELSE @ + size * (entry - Commission(entry))]

\* _close_position: the result of the trade.
TradePnl(run, fill) ==
  IF run.side = Long
  THEN run.size * (fill - Commission(fill)) - run.size * (run.entry + Commission(run.entry))
  ELSE run.size * (run.entry - Commission(run.entry)) - run.size * (fill + Commission(fill))

\* MShortEarns: the buyback of a short is credited.
MShortEarns(run, fill) ==
  IF run.side = Long THEN run.capital + run.size * (fill - Commission(fill))
                     ELSE run.capital + run.size * (fill + Commission(fill))

\* _capital_after_close.
CapitalAfterClose(run, fill) ==
  IF run.side = Long THEN run.capital + run.size * (fill - Commission(fill))
                     ELSE run.capital - run.size * (fill + Commission(fill))

Closed(run, price) ==
  LET fill == Slipped(price, run.side = Short)
  IN  [run EXCEPT !.capital = CapitalAfterClose(run, fill), !.pnl = @ + TradePnl(run, fill),
                  !.side = Flat, !.size = 0, !.entry = 0]

\* One bar: the exits of its range, then the plan of its last signal, filled at the
\* open of the next bar.
BarStep(run, bar, next, intent, allowShort) ==
  LET rest  == IF Exits(run, bar) THEN Closed(run, ExitLevel(run, bar)) ELSE run
      plan  == PlanActions(intent, rest.side, allowShort)
      flat  == IF plan.close THEN Closed(rest, next) ELSE rest
  IN  IF plan.open # Flat THEN Opened(flat, plan.open, next) ELSE flat

=============================================================================
