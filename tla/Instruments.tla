---------------------------- MODULE Instruments ----------------------------
(***************************************************************************)
(* What a symbol is: the registry of domain/instruments, the conformance   *)
(* of an order to the grid of its instrument, and the size of an entry     *)
(* (domain/execution/position_sizer.py).                                   *)
(*                                                                         *)
(* Abstractions.  The seed is reduced to one instrument of each kind: a    *)
(* coin's spot pair, its perpetual, an equity.  Amounts are whole numbers, *)
(* prices finer than a tick.  The multiplier of every seeded instrument is *)
(* 1.  Names are spelled as they are in the seed and in users' requests;   *)
(* Key says which of them normalize_symbol takes for the same.             *)
(***************************************************************************)
EXTENDS Integers

CONSTANTS
  Tick, LotStep, MinQty, MinNotional,  \* the grid, the same for every instrument
  SizePct                              \* max_position_size_pct

ASSUME InstrumentAssumption ==
  /\ {Tick, LotStep, MinQty} \subseteq Nat \ {0}
  /\ MinNotional \in Nat /\ SizePct \in 1..100

Unknown == "unknown"

-----------------------------------------------------------------------------
(***************************************************************************)
(* The registry.                                                           *)
(***************************************************************************)

\* normalize_symbol.
Key(name) ==
  CASE name \in {"BTC/USDT", "btcusdt"} -> "BTCUSDT"
    [] name = "BTC/USD"                 -> "BTCUSD"
    [] OTHER                            -> name

\* default_instruments: the venues that list an instrument, the name it has there and
\* the product it is filed under.
Catalog ==
  {[symbol |-> "BTCUSDT",   pair |-> "BTCUSDT", product |-> "spot",
    venues |-> [bybit |-> "BTCUSDT", binance |-> "BTCUSDT", alpaca |-> "BTC/USD"]],
   [symbol |-> "BTCUSDT.P", pair |-> "BTCUSDT", product |-> "linear",
    venues |-> [bybit |-> "BTCUSDT"]],
   [symbol |-> "AAPL",      pair |-> "AAPLUSD", product |-> "spot",
    venues |-> [alpaca |-> "AAPL"]]}

\* The keys an instrument claims besides its own: its names at the venues, its pair.
Aliases(i) == {Key(i.venues[v]) : v \in DOMAIN i.venues} \cup {i.pair}

\* get: the canonical symbol, never shadowed; an alias only if one instrument claims it.
Lookup(name) ==
  LET canonical == {i \in Catalog : Key(i.symbol) = Key(name)}
      claimants == {i \in Catalog : Key(name) \in Aliases(i)}
  IN  IF canonical # {} THEN canonical
      ELSE IF \A i, j \in claimants : i = j THEN claimants ELSE {}

Known(name) == Lookup(name) # {}
Instrument(name) == CHOOSE i \in Lookup(name) : TRUE

ListedOn(name, venue) == venue \in DOMAIN Instrument(name).venues

\* _resolve_category of the Bybit adapter: "linear" for what the catalog cannot tell.
BybitCategory(name) ==
  IF Known(name) /\ ListedOn(name, "bybit") THEN Instrument(name).product ELSE "linear"

\* symbol_for, or the name itself where the catalog has none.
VenueSymbol(name, venue) ==
  IF Known(name) /\ ListedOn(name, venue) THEN Instrument(name).venues[venue] ELSE name

-----------------------------------------------------------------------------
(***************************************************************************)
(* Sizes and the grid.                                                     *)
(***************************************************************************)

\* MRoundsUp: to the next lot.
MRoundsUp(value, step) == ((value + step - 1) \div step) * step

FloorToStep(value, step) == (value \div step) * step

\* Half up.
RoundToTick(value, tick) == ((2 * value + tick) \div (2 * tick)) * tick

\* size_entry, 0 for no order.
SizeEntry(equity, price) ==
  IF equity <= 0 \/ price <= 0 THEN 0 ELSE (equity * SizePct) \div (100 * price)

\* conform_order raises: not listed at a venue the registry knows, too small a
\* quantity, too small a value.
Violates(name, venue, qty, price) ==
  \/ venue # "sim" /\ ~ListedOn(name, venue)
  \/ FloorToStep(qty, LotStep) < MinQty
  \/ FloorToStep(qty, LotStep) * RoundToTick(price, Tick) < MinNotional

\* _check_position_size, of the conformed order.
Oversized(qty, price, equity) ==
  qty <= 0 \/ qty * RoundToTick(price, Tick) * 100 > equity * SizePct

=============================================================================
