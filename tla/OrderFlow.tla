----------------------------- MODULE OrderFlow -----------------------------
(***************************************************************************)
(* From a signal to the broker's book: ExecutionEngine                     *)
(* (domain/execution/execution_engine.py) over a broker adapter            *)
(* (domain/broker/adapters), next to the backtest of the same strategy     *)
(* on the same signals.                                                    *)
(*                                                                         *)
(* A bar is a step of both.  The executor trades at its close, the         *)
(* backtest at the open of the next; between bars the executor polls, only *)
(* for exits.  The simulated broker fills at once.  A real one may raise,  *)
(* take an order and lose the reply, or fill it later; the user may trade  *)
(* on the same account.  What a venue holds, and what its adapter reports, *)
(* are two things.                                                         *)
(*                                                                         *)
(* Abstractions.  Costs are the same everywhere.  Vetoes of the risk       *)
(* manager but the one on size are left to chance (Executor has them).     *)
(* A cycle, its reads of the broker included, is one step.                 *)
(***************************************************************************)
EXTENDS Integers, Sequences, FiniteSets, Instruments, Backtest

CONSTANTS
  Markets,    \* <<venue, symbol>> a strategy may trade
  Bars,       \* what a bar can be: low, high and close
  Opens,      \* prices a bar can open at
  Intents,    \* directions the strategy emits, "none" for no signal
  PollMarks,  \* latest closes between two bars
  MaxBars,    \* bound on the bars
  MaxPending, \* bound on the orders under way at the venue
  LotsByHand  \* what the user trades by hand

ASSUME OrderFlowAssumption ==
  /\ Markets \subseteq {"sim", "bybit", "binance", "alpaca"} \X STRING
  /\ Intents \subseteq Directions \cup {"none"}
  /\ Bars \subseteq [low : Nat \ {0}, high : Nat \ {0}, close : Nat \ {0}]
  /\ Opens \subseteq Nat \ {0} /\ PollMarks \subseteq Nat \ {0}
  /\ MaxBars \in Nat /\ MaxPending \in Nat /\ LotsByHand \subseteq Int

VARIABLES
  market,     \* where the strategy trades, and under what name
  allowShort, \* its allow_short
  bars,       \* bars so far
  opens,      \* the open of the next bar
  mark,       \* the latest close
  run,        \* the backtest
  book,       \* what the venue holds for it: cash, quantity, entry, result
  pending,    \* orders the venue has and has not filled
  last,       \* of the last cycle: whether an exit was due, what its close left
  aligned,    \* history: no exit, refusal, error or overlap set the two apart
  overlapped, \* history: a cycle acted while an order was under way
  touched     \* history: the user traded on the account

vars == <<market, allowShort, bars, opens, mark, run, book, pending, last,
          aligned, overlapped, touched>>

venue == market[1]
symbol == market[2]

Init ==
  /\ market \in Markets /\ allowShort \in BOOLEAN
  /\ bars = 0 /\ opens \in Opens /\ mark = 0
  /\ run = FreshRun
  /\ book = [cash |-> Capital, qty |-> 0, avg |-> 0, realized |-> 0]
  /\ pending = <<>>
  /\ last = [due |-> FALSE, left |-> 0]
  /\ aligned = TRUE /\ overlapped = FALSE /\ touched = FALSE

-----------------------------------------------------------------------------
(***************************************************************************)
(* The venue's book.  An order is a signed quantity, positive to buy.      *)
(***************************************************************************)

\* _effective_fill: the slipped price, and the commission folded into it.
FillPrice(base, qty) ==
  LET slipped == Slipped(base, qty > 0)
  IN  IF qty > 0 THEN slipped + Commission(slipped) ELSE slipped - Commission(slipped)

\* MForgetsSide: the result of a close has the sign of the order.
MForgetsSide(b, qty, fill) == b.realized + (fill - b.avg) * qty

\* What a close realizes, of the whole position or of a part.
RealizedAfter(b, qty, fill) == b.realized + (fill - b.avg) * (-qty)

\* place_order of the simulated broker, and what a real venue does to its account.
Executed(b, qty, base) ==
  LET fill == FillPrice(base, qty)
      new  == b.qty + qty
      adds == b.qty # 0 /\ new # 0 /\ (b.qty > 0) = (qty > 0)
      side == SideOf(new)
  IN  [cash     |-> b.cash - qty * fill,
       qty      |-> new,
       avg      |-> IF new = 0 THEN 0
                    ELSE IF b.qty = 0 THEN fill
                    ELSE IF adds THEN ((b.avg * b.qty + fill * qty) * side) \div (new * side)
                    ELSE b.avg,
       realized |-> IF b.qty = 0 \/ adds THEN b.realized ELSE RealizedAfter(b, qty, fill)]

\* The product an order of this name goes to.
Product == IF venue = "bybit" THEN BybitCategory(symbol) ELSE "spot"

\* Under what name each adapter reports the position: Bybit's asks for linear positions
\* only, Binance's makes the name of the asset; neither these two nor Alpaca's translate a
\* name back.
BybitName   == IF Product = "linear" THEN VenueSymbol(symbol, venue) ELSE Unknown
BinanceName == "BTCUSDT"
AlpacaName  == VenueSymbol(symbol, venue)

ReportedAs ==
  CASE venue = "sim"     -> symbol
    [] venue = "bybit"   -> BybitName
    [] venue = "binance" -> BinanceName
    [] OTHER             -> AlpacaName

\* The executor looks for its own spelling.
Visible == ReportedAs = symbol

NoPosition == [qty |-> 0, avg |-> 0]

\* Binance's price of the moment stands for the entry, 0 if it cannot be fetched; there
\* is no debt.
BinanceEntries(price) == {price, 0}
BinanceSeen(price) ==
  IF book.qty > 0 THEN {[qty |-> book.qty, avg |-> e] : e \in BinanceEntries(price)}
  ELSE {NoPosition}

\* The position a cycle sees.
Seen(price) ==
  IF ~Visible THEN {NoPosition}
  ELSE IF venue = "binance" THEN BinanceSeen(price)
  ELSE {[qty |-> book.qty, avg |-> book.avg]}

\* get_account: what is held counts at the price, at Binance only the stablecoins.
MarkedEquity(price) == book.cash + book.qty * price
BybitEquity(price)  == MarkedEquity(price)
AlpacaEquity(price) == MarkedEquity(price)
BinanceEquity       == book.cash

Equity(price) ==
  CASE venue = "sim"     -> MarkedEquity(price)
    [] venue = "bybit"   -> BybitEquity(price)
    [] venue = "binance" -> BinanceEquity
    [] OTHER             -> AlpacaEquity(price)

-----------------------------------------------------------------------------
(***************************************************************************)
(* One cycle of the engine, from the state s its orders have led to.       *)
(***************************************************************************)

Now == [book |-> book, pending |-> pending, fine |-> TRUE]

Failed(s) == [s EXCEPT !.fine = FALSE]

\* Binance is a spot account: it sells what it holds and buys what it can pay.
Covered(b, qty, base) ==
  IF qty < 0 THEN b.qty + qty >= 0 ELSE b.cash >= qty * FillPrice(base, qty)

\* place_order of the adapters, every way it can go, from the state s there: any but the
\* simulated one may raise, before the venue took the order or after.
SimSent(s, qty, base) == {[s EXCEPT !.book = Executed(@, qty, base)]}

\* Binance reports a fill, or a refusal as a rejected order.
BinanceSent(s, qty, base) ==
  LET filled == [s EXCEPT !.book = Executed(@, qty, base)]
  IN  {Failed(s)} \cup
      (IF qty # 0 /\ Covered(s.book, qty, base) THEN {filled, Failed(filled)} ELSE {})

\* The other two report that the order is under way; a refusal raises.
BybitSent(s, qty) ==
  LET queued == [s EXCEPT !.pending = Append(@, qty)]
  IN  {Failed(s)} \cup (IF qty # 0 THEN {queued, Failed(queued)} ELSE {})
AlpacaSent(s, qty) ==
  LET queued == [s EXCEPT !.pending = Append(@, qty)]
  IN  {Failed(s)} \cup (IF qty # 0 THEN {queued, Failed(queued)} ELSE {})

\* _resolve_adapter: the ledger for paper, the broker connected for live.
Sent(s, qty, base) ==
  CASE venue = "sim"     -> SimSent(s, qty, base)
    [] venue = "binance" -> BinanceSent(s, qty, base)
    [] venue = "bybit"   -> BybitSent(s, qty)
    [] OTHER             -> AlpacaSent(s, qty)

\* _check_exits, with the stop and target of the position sizer.
ExitDue(pos, price) ==
  LET side == SideOf(pos.qty)
  IN  /\ pos.qty # 0
      /\ \/ side * (price - StopLevel(pos.avg, side)) <= 0
         \/ TargetPct > 0 /\ side * (price - TargetLevel(pos.avg, side)) >= 0

\* MConforms: a close must meet the minima too.
MConforms(pos, price) ==
  IF Known(symbol) /\ Violates(symbol, venue, pos.qty * SideOf(pos.qty), price) THEN 0
  ELSE -SideOf(pos.qty) * FloorToStep(pos.qty * SideOf(pos.qty), LotStep)

\* _close: all that is seen, floored to the lot, whatever the minima and the risk
\* manager say; as it is where the catalog does not know the symbol.
CloseQty(pos, price) ==
  LET qty == pos.qty * SideOf(pos.qty)
  IN  -SideOf(pos.qty) * (IF Known(symbol) THEN FloorToStep(qty, LotStep) ELSE qty)

\* Rejected before any order: no size, an unknown symbol, a violation, too large.
OpenRefused(qty, price, equity) ==
  \/ qty <= 0
  \/ ~Known(symbol)
  \/ Violates(symbol, venue, qty, price)
  \/ Oversized(FloorToStep(qty, LotStep), price, equity)

\* _open, sized by the equity read before the cycle traded; another veto is possible.
Opening(s, side, price, equity) ==
  LET qty == SizeEntry(equity, price)
  IN  {Failed(s)} \cup (IF OpenRefused(qty, price, equity) THEN {}
                        ELSE Sent(s, side * FloorToStep(qty, LotStep), price))

\* MPlansAnew: a reversal closes now and opens at the next signal.
MPlansAnew(intent, side) ==
  IF side = Flat THEN PlanActions(intent, side, allowShort)
  ELSE [PlanActions(intent, side, allowShort) EXCEPT !.open = Flat]

\* MShortsAnyway: allow_short is not passed on.
MShortsAnyway(intent, side) == PlanActions(intent, side, TRUE)

\* plan_actions, as reconcile_and_execute calls it.
Plan(intent, side) == PlanActions(intent, side, allowShort)

\* reconcile_and_execute: exits before signals, a close before an open.  apart tells
\* whether the backtest exits in this bar.
Cycle(intent, price, apart) ==
  \E pos \in Seen(price) :
    LET due   == ExitDue(pos, price)
        plan  == IF due THEN ExitPlan ELSE Plan(intent, SideOf(pos.qty))
        close == CloseQty(pos, price)
    IN  \E s \in IF plan.close THEN Sent(Now, close, price) ELSE {Now} :
        \E t \in IF plan.open # Flat THEN Opening(s, plan.open, price, Equity(price)) ELSE {s} :
          /\ book' = t.book /\ pending' = t.pending
          /\ last' = [due |-> due, left |-> (pos.qty + close) * SideOf(pos.qty)]
          /\ overlapped' = (overlapped \/ pending # <<>>)
          /\ aligned' = (aligned /\ t.fine /\ ~due /\ ~apart /\ pending = <<>>)

-----------------------------------------------------------------------------

\* allow_short of the backtest: no caller passes the strategy's, the default holds.
BacktestShorts == TRUE

\* A bar: one step of the backtest, one cycle with the same signal.
NewBar ==
  /\ bars < MaxBars /\ Len(pending) < MaxPending
  /\ \E bar \in Bars, intent \in Intents, next \in Opens :
       /\ opens \in bar.low..bar.high
       /\ Cycle(intent, bar.close, Exits(run, bar))
       /\ mark' = bar.close /\ opens' = next
       /\ run' = BarStep(run, bar, next, intent, BacktestShorts)
  /\ bars' = bars + 1
  /\ UNCHANGED <<market, allowShort, touched>>

\* A poll between two bars: exits only.
Poll ==
  /\ bars > 0 /\ bars < MaxBars /\ Len(pending) < MaxPending
  /\ \E price \in PollMarks : Cycle("none", price, FALSE) /\ mark' = price
  /\ UNCHANGED <<market, allowShort, bars, opens, run, touched>>

\* The venue fills the oldest order at the price of the moment.
VenueFills ==
  /\ pending # <<>>
  /\ book' = Executed(book, Head(pending), mark)
  /\ pending' = Tail(pending)
  /\ UNCHANGED <<market, allowShort, bars, opens, mark, run, last, aligned,
                 overlapped, touched>>

\* The user trades the same instrument through BrokerService.place_order, which
\* neither conforms nor risk-checks; never on the simulated ledger.
ByHand ==
  /\ venue # "sim" /\ ~touched /\ bars > 0
  /\ \E qty \in LotsByHand :
       /\ venue = "binance" => Covered(book, qty, mark)
       /\ book' = Executed(book, qty, mark)
  /\ touched' = TRUE /\ aligned' = FALSE
  /\ UNCHANGED <<market, allowShort, bars, opens, mark, run, pending, last, overlapped>>

Next == NewBar \/ Poll \/ VenueFills \/ ByHand

Spec == Init /\ [][Next]_vars

-----------------------------------------------------------------------------

\* The type invariant: every variable has a value the code could have given it, and the
\* engine never leaves more than MaxPending + 1 orders under way.
TypeOK ==
  /\ market \in Markets /\ allowShort \in BOOLEAN
  /\ bars \in 0..MaxBars /\ opens \in Opens /\ mark \in Nat
  /\ run \in [capital : Int, side : Positions, size : Int, entry : Nat, pnl : Int]
  /\ book \in [cash : Int, qty : Int, avg : Nat, realized : Int]
  /\ pending \in Seq(Int \ {0}) /\ Len(pending) <= MaxPending + 1
  /\ last \in [due : BOOLEAN, left : Nat]
  /\ {aligned, overlapped, touched} \subseteq BOOLEAN

\* What the account of the strategy is to hold where the backtest holds this side:
\* a short only if the strategy may.
Allowed(side) == IF side = Short /\ ~allowShort THEN Flat ELSE side

\* The same signals lead to the same side held: while no exit, refusal, broker error or
\* order still under way separated them, the account is on the side of the backtest -
\* flat while the backtest, which always shorts, holds a short that the strategy may not -
\* where the adapter can see the position at all (execution_engine.py:103-105, "so a
\* strategy trades identically live and in backtest"; engine.py:59).
SameSide ==
  aligned /\ pending = <<>> /\ Visible => SideOf(book.qty) = Allowed(run.side)

\* The paper ledger neither makes nor loses money: what is held at its entry price, and
\* the cash, are the starting equity and the realized results, through opens, closes and
\* reversals at any price (simulated_adapter.py:86).
LedgerBalances ==
  venue = "sim" => book.cash + book.qty * book.avg = Capital + book.realized

\* The backtest's capital and the results of its trades tell the same story: flat, the
\* capital is the initial one and the sum of the trades; in a position, it lacks the cost
\* of a long or has the proceeds of a short (engine.py:193-251).
BacktestBalances ==
  LET fee == Commission(run.entry)
  IN  run.capital = Capital + run.pnl -
        (CASE run.side = Long  -> run.size * (run.entry + fee)
           [] run.side = Short -> -run.size * (run.entry - fee)
           [] OTHER            -> 0)

\* A strategy that may not short never ends up short, whatever the broker refuses, as long
\* as no cycle acted while an earlier order was under way - a close whose reply was lost
\* is one, and is sent again - and the user did not trade on the account
\* (strategy_executor.py: _trade_on_signals, reconcile.py).
NoUninvitedShort ==
  ~allowShort /\ ~overlapped /\ ~touched => book.qty >= 0

\* An exit that is due is never blocked: the close sent leaves less than one lot of what
\* the adapter reports, however small or cheap the position has become
\* (execution_engine.py:256).
StopsAreNeverBlocked == last.due => last.left < LotStep

=============================================================================
