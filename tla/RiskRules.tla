----------------------------- MODULE RiskRules -----------------------------
(***************************************************************************)
(* The decisions of domain/risk/risk_manager.py as operators over one      *)
(* strategy's RiskState.  Money is an integer amount, a limit is a whole   *)
(* percentage, and each float comparison of the code is multiplied out so  *)
(* that it stays exact.                                                    *)
(*                                                                         *)
(* Abstraction.  Whether the order's size conforms and whether the         *)
(* per-minute rate is exceeded are inputs of Veto: they depend on data     *)
(* (quantities, wall-clock minutes) these operators do not carry.          *)
(* total_pnl and last_updated are write-only in the code and left out.     *)
(***************************************************************************)
EXTENDS Integers

\* peak 0 stands for the NULL peak_equity of a strategy that never traded.
NoPeak == 0

RiskConfigs ==
  [maxOpen : Nat, dailyPct : Nat, totalPct : Nat, killSwitch : BOOLEAN]

FreshState(equity) ==
  [peak |-> equity, open |-> 0, daily |-> 0, halted |-> FALSE]

Higher(a, b) == IF a >= b THEN a ELSE b

\* MNewHigh: a new high starts a new state.
MNewHigh(known, st, equity) ==
  IF known /\ equity <= st.peak THEN st ELSE FreshState(equity)

\* observe_equity, and the else-branch of _get_or_create_state: the peak only
\* ever rises, and the first reading creates the state.
ObserveEquity(known, st, equity) ==
  IF known THEN [st EXCEPT !.peak = Higher(@, equity)] ELSE FreshState(equity)

\* MCountless, MDayless and MBaseless: a rehydration that leaves out the open
\* positions, the day's result, the persisted peak.
MCountless(equity, openCount, peak, dailyPnl) ==
  [peak |-> Higher(equity, peak), open |-> 0, daily |-> dailyPnl, halted |-> FALSE]
MDayless(equity, openCount, peak, dailyPnl) ==
  [peak |-> Higher(equity, peak), open |-> openCount, daily |-> 0, halted |-> FALSE]
MBaseless(equity, openCount, peak, dailyPnl) ==
  [peak |-> equity, open |-> openCount, daily |-> dailyPnl, halted |-> FALSE]

\* seed_state on a RiskManager that has no state yet (the process just booted).
SeedState(equity, openCount, peak, dailyPnl) ==
  [peak   |-> Higher(equity, peak), open |-> openCount,
   daily  |-> dailyPnl,             halted |-> FALSE]

DailyDrawdown(st, equity, cfg) ==
  equity > 0 /\ st.daily * 100 < -(cfg.dailyPct * equity)

TotalDrawdown(st, equity, cfg) ==
  st.peak > 0 /\ (st.peak - equity) * 100 > cfg.totalPct * st.peak

AtLimit(st, cfg) == st.open >= cfg.maxOpen

\* MUnswitched: the kill switch is not consulted.
MUnswitched(st, equity, cfg, oversized, throttled) ==
  IF oversized                           THEN "max_position_size_pct"
  ELSE IF AtLimit(st, cfg)               THEN "max_open_positions"
  ELSE IF DailyDrawdown(st, equity, cfg) THEN "max_daily_drawdown"
  ELSE IF TotalDrawdown(st, equity, cfg) THEN "max_total_drawdown"
  ELSE IF throttled                      THEN "max_orders_per_minute"
  ELSE "none"

\* The rule approve_order reports, or "none" when it approves.  The checks run
\* in this order and the first that fails decides.
Veto(st, equity, cfg, oversized, throttled) ==
  IF st.halted                           THEN "kill_switch"
  ELSE IF oversized                      THEN "max_position_size_pct"
  ELSE IF AtLimit(st, cfg)               THEN "max_open_positions"
  ELSE IF DailyDrawdown(st, equity, cfg) THEN "max_daily_drawdown"
  ELSE IF TotalDrawdown(st, equity, cfg) THEN "max_total_drawdown"
  ELSE IF throttled                      THEN "max_orders_per_minute"
  ELSE "none"

\* A veto that trips the kill switch: a drawdown rule, with the switch enabled.
Halts(rule, cfg) ==
  rule \in {"max_daily_drawdown", "max_total_drawdown"} /\ cfg.killSwitch

\* MHaltsOnAny: every veto trips the switch.
MHaltsOnAny(st, rule, cfg) == [st EXCEPT !.halted = TRUE]
AfterVeto(st, rule, cfg) ==
  IF Halts(rule, cfg) THEN [st EXCEPT !.halted = TRUE] ELSE st

\* The counters that follow a filled order, and a release of the halt.
AfterOpen(st)       == [st EXCEPT !.open = @ + 1]
AfterClose(st, pnl) == [st EXCEPT !.open = @ - 1, !.daily = @ + pnl]
Released(st)        == [st EXCEPT !.halted = FALSE]

=============================================================================
