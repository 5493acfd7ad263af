-------------------------- MODULE OrderFlowProofs --------------------------
(***************************************************************************)
(* Theorems of OrderFlow, for any markets, bars, costs, percentages and    *)
(* lots: the backtest and the paper ledger balance, the two are on the     *)
(* same side, a stop is never blocked, and nobody is short who did not ask *)
(* to be.                                                                  *)
(***************************************************************************)
EXTENDS OrderFlow, TLAPS

(***************************************************************************)
(* Amounts.                                                                *)
(***************************************************************************)

Price == Nat \ {0}

\* A percentage below 100 of an amount is less than the amount.
LEMMA PartOf ==
  ASSUME NEW amount \in Nat, NEW pct \in 0..99
  PROVE  /\ (amount * pct) \div 100 \in Nat /\ (amount * pct) \div 100 <= amount
         /\ amount > 0 => (amount * pct) \div 100 < amount
  OBVIOUS

LEMMA CostTypes ==
  /\ Capital \in Nat /\ SlipPct \in 0..99 /\ CommPct \in 0..99
  /\ StopPct \in 0..99 /\ TargetPct \in 0..99 /\ PositionPct \in 1..100
  BY BacktestAssumption

LEMMA CommissionType ==
  ASSUME NEW price \in Nat
  PROVE  Commission(price) \in Nat /\ Commission(price) <= price
  BY CostTypes, PartOf DEF Commission

LEMMA SlippedType ==
  ASSUME NEW price \in Nat, NEW isBuy
  PROVE  Slipped(price, isBuy) \in Nat /\ (price > 0 => Slipped(price, isBuy) > 0)
<1> DEFINE slip == (price * SlipPct) \div 100
<1>1. slip \in Nat /\ slip <= price /\ (price > 0 => slip < price)
  BY CostTypes, PartOf
<1>2. Slipped(price, isBuy) = IF isBuy THEN price + slip ELSE price - slip
  BY DEF Slipped
<1> HIDE DEF slip
<1> QED
  BY <1>1, <1>2

LEMMA FillPriceType ==
  ASSUME NEW base \in Nat, NEW qty \in Int
  PROVE  FillPrice(base, qty) \in Nat
<1> DEFINE slipped == Slipped(base, qty > 0)
<1>1. slipped \in Nat
  BY SlippedType
<1>2. Commission(slipped) \in Nat /\ Commission(slipped) <= slipped
  BY <1>1, CommissionType
<1>3. FillPrice(base, qty) = IF qty > 0 THEN slipped + Commission(slipped)
                                        ELSE slipped - Commission(slipped)
  BY DEF FillPrice
<1> HIDE DEF slipped
<1> QED
  BY <1>1, <1>2, <1>3

\* The levels of a position are prices.
LEMMA LevelType ==
  ASSUME NEW entry \in Price, NEW side \in {Long, Short}
  PROVE  StopLevel(entry, side) \in Price /\ TargetLevel(entry, side) \in Price
<1>1. ASSUME NEW part \in Nat, part < entry
      PROVE  entry - side * part \in Price /\ entry + side * part \in Price
  BY <1>1 DEF Price, Long, Short
<1>2. /\ (entry * StopPct) \div 100 \in Nat /\ (entry * StopPct) \div 100 < entry
      /\ (entry * TargetPct) \div 100 \in Nat /\ (entry * TargetPct) \div 100 < entry
  BY CostTypes, PartOf DEF Price
<1> QED
  BY <1>1, <1>2 DEF StopLevel, TargetLevel

LEMMA FloorType ==
  ASSUME NEW qty \in Nat
  PROVE  /\ FloorToStep(qty, LotStep) \in Nat
         /\ FloorToStep(qty, LotStep) <= qty /\ qty - FloorToStep(qty, LotStep) < LotStep
         /\ FloorToStep(FloorToStep(qty, LotStep), LotStep) = FloorToStep(qty, LotStep)
<1>1. LotStep \in Nat \ {0}
  BY InstrumentAssumption
<1>2. ASSUME NEW L \in Nat \ {0}
      PROVE  /\ (qty \div L) * L \in Nat /\ (qty \div L) * L <= qty
             /\ qty - (qty \div L) * L < L
             /\ (((qty \div L) * L) \div L) * L = (qty \div L) * L
  OBVIOUS
<1> QED
  BY <1>1, <1>2 DEF FloorToStep

(***************************************************************************)
(* The backtest.                                                           *)
(***************************************************************************)

RunTyped(r) ==
  /\ r \in [capital : Int, side : Positions, size : Int, entry : Nat, pnl : Int]
  /\ r.side # Flat => r.entry > 0

\* What a position has cost, or brought if it is short.
Cost(r) ==
  LET fee == Commission(r.entry)
  IN  CASE r.side = Long  -> r.size * (r.entry + fee)
        [] r.side = Short -> -r.size * (r.entry - fee)
        [] OTHER          -> 0

RunBalances(r) == r.capital = Capital + r.pnl - Cost(r)

RunOf(capital, side, size, entry, pnl) ==
  [capital |-> capital, side |-> side, size |-> size, entry |-> entry, pnl |-> pnl]

LEMMA RunIs == ASSUME NEW r, RunTyped(r) PROVE r = RunOf(r.capital, r.side, r.size, r.entry, r.pnl)
  BY DEF RunTyped, RunOf

LEMMA OpenedBalances ==
  ASSUME NEW r, RunTyped(r), RunBalances(r), r.side = Flat,
         NEW side \in {Long, Short}, NEW price \in Price
  PROVE  RunTyped(Opened(r, side, price)) /\ RunBalances(Opened(r, side, price))
<1> DEFINE entry == Slipped(price, side = Long)
           fee   == Commission(entry)
           size  == (r.capital * PositionPct) \div (100 * (entry + fee))
           o     == Opened(r, side, price)
<1>1. entry \in Nat /\ entry > 0
  BY SlippedType DEF Price
<1>2. fee \in Nat
  BY <1>1, CommissionType
<1>3. size \in Int
  <2> HIDE DEF entry, fee
  <2>1. r.capital * PositionPct \in Int /\ 100 * (entry + fee) \in Nat \ {0}
    BY <1>1, <1>2, CostTypes DEF RunTyped
  <2> QED
    BY <2>1
<1> DEFINE cash == IF side = Long THEN r.capital - size * (entry + fee)
                                ELSE r.capital + size * (entry - fee)
<1>4. RunOf(cash, side, size, entry, r.pnl) = o
  <2> DEFINE r1 == RunOf(r.capital, side, r.size, r.entry, r.pnl)
             r2 == RunOf(r.capital, side, size, r.entry, r.pnl)
             r3 == RunOf(r.capital, side, size, entry, r.pnl)
  <2>1. [r EXCEPT !.side = side] = r1
    BY RunIs DEF RunOf
  <2>2. [r1 EXCEPT !.size = size] = r2
    BY DEF RunOf
  <2>3. [r2 EXCEPT !.entry = entry] = r3
    BY DEF RunOf
  <2>4. [r3 EXCEPT !.capital = cash] = RunOf(cash, side, size, entry, r.pnl)
    BY DEF RunOf
  <2>5. o = [r EXCEPT !.side = side, !.size = size, !.entry = entry, !.capital = cash]
    BY DEF Opened
  <2> HIDE DEF o, r1, r2, r3, cash, size, entry
  <2> QED
    BY <2>1, <2>2, <2>3, <2>4, <2>5, Zenon
<1>5. o = [capital |-> IF side = Long THEN r.capital - size * (entry + fee)
                                      ELSE r.capital + size * (entry - fee),
           side |-> side, size |-> size, entry |-> entry, pnl |-> r.pnl]
  BY <1>4 DEF RunOf
<1> HIDE DEF entry, size, o
<1>6. r.capital = Capital + r.pnl /\ r.capital \in Int /\ r.pnl \in Int
  BY CostTypes DEF RunBalances, Cost, RunTyped, Flat, Long, Short
<1>7. RunTyped(o)
  <2>1. size * (entry + fee) \in Int /\ size * (entry - fee) \in Int
    BY <1>1, <1>2, <1>3
  <2> HIDE DEF fee
  <2>2. o.capital \in Int
    BY <1>5, <1>6, <2>1
  <2> QED
    BY <1>1, <1>3, <1>5, <1>6, <2>2 DEF RunTyped, Positions
<1>8. RunBalances(o)
  <2>1. Cost(o) = IF side = Long THEN size * (entry + fee) ELSE -size * (entry - fee)
    BY <1>5 DEF Cost, Long, Short
  <2> HIDE DEF fee
  <2>2. -size * (entry - fee) = -(size * (entry - fee))
    BY <1>1, <1>2, <1>3
  <2>3. size * (entry + fee) \in Int /\ size * (entry - fee) \in Int
    BY <1>1, <1>2, <1>3
  <2> QED
    BY <1>5, <1>6, <2>1, <2>2, <2>3, CostTypes DEF RunBalances
<1> QED
  BY <1>7, <1>8 DEF o

LEMMA ClosedBalances ==
  ASSUME NEW r, RunTyped(r), RunBalances(r), r.side # Flat, NEW price \in Price
  PROVE  /\ RunTyped(Closed(r, price)) /\ RunBalances(Closed(r, price))
         /\ Closed(r, price).side = Flat
<1> DEFINE fill == Slipped(price, r.side = Short)
           fee  == Commission(fill)
           paid == Commission(r.entry)
           o    == Closed(r, price)
<1>1. fill \in Nat /\ fee \in Nat
  BY SlippedType, CommissionType DEF Price
<1>2. /\ paid \in Nat /\ r.size \in Int /\ r.entry \in Nat /\ r.capital \in Int /\ r.pnl \in Int
      /\ r.side \in {Long, Short}
  BY CommissionType DEF RunTyped, Positions
<1>3. RunOf(CapitalAfterClose(r, fill), Flat, 0, 0, r.pnl + TradePnl(r, fill)) = o
  <2> DEFINE cash == CapitalAfterClose(r, fill)
             sum  == r.pnl + TradePnl(r, fill)
             r1   == RunOf(cash, r.side, r.size, r.entry, r.pnl)
             r2   == RunOf(cash, r.side, r.size, r.entry, sum)
             r3   == RunOf(cash, Flat, r.size, r.entry, sum)
             r4   == RunOf(cash, Flat, 0, r.entry, sum)
  <2>1. [r EXCEPT !.capital = cash] = r1
    BY RunIs DEF RunOf
  <2>2. [r1 EXCEPT !.pnl = sum] = r2
    BY DEF RunOf
  <2>3. [r2 EXCEPT !.side = Flat] = r3
    BY DEF RunOf
  <2>4. [r3 EXCEPT !.size = 0] = r4
    BY DEF RunOf
  <2>5. [r4 EXCEPT !.entry = 0] = RunOf(cash, Flat, 0, 0, sum)
    BY DEF RunOf
  <2>6. o = [r EXCEPT !.capital = cash, !.pnl = sum, !.side = Flat, !.size = 0, !.entry = 0]
    BY DEF Closed
  <2> HIDE DEF o, r1, r2, r3, r4, cash, sum
  <2>7. RunOf(cash, Flat, 0, 0, sum) = o
    BY <2>1, <2>2, <2>3, <2>4, <2>5, <2>6, Zenon
  <2> QED
    BY <2>7 DEF cash, sum
<1>4. o = [capital |-> CapitalAfterClose(r, fill), side |-> Flat, size |-> 0, entry |-> 0,
           pnl |-> r.pnl + TradePnl(r, fill)]
  BY <1>3 DEF RunOf
<1> HIDE DEF o, fill
<1>5. Cost(o) = 0
  BY <1>4 DEF Cost, Flat, Long, Short
<1>6. CASE r.side = Long
  <2>1. /\ CapitalAfterClose(r, fill) = r.capital + r.size * (fill - fee)
        /\ TradePnl(r, fill) = r.size * (fill - fee) - r.size * (r.entry + paid)
        /\ r.capital = Capital + r.pnl - r.size * (r.entry + paid)
    <3>1. Cost(r) = r.size * (r.entry + paid)
      BY <1>6 DEF Cost, Long, Short
    <3> QED
      BY <1>6, <3>1 DEF CapitalAfterClose, TradePnl, RunBalances
  <2> HIDE DEF fee, paid
  <2>2. r.size * (fill - fee) \in Int /\ r.size * (r.entry + paid) \in Int
    BY <1>1, <1>2
  <2>3. /\ o.capital \in Int /\ o.pnl \in Int /\ o.capital = Capital + o.pnl
        /\ o = [capital |-> o.capital, side |-> Flat, size |-> 0, entry |-> 0, pnl |-> o.pnl]
    BY <1>2, <1>4, <2>1, <2>2, CostTypes
  <2> QED
    BY <1>4, <1>5, <2>3, CostTypes DEF RunTyped, RunBalances, Positions, o
<1>7. CASE r.side = Short
  <2>1. /\ CapitalAfterClose(r, fill) = r.capital - r.size * (fill + fee)
        /\ TradePnl(r, fill) = r.size * (r.entry - paid) - r.size * (fill + fee)
        /\ r.capital = Capital + r.pnl - (-r.size * (r.entry - paid))
    BY <1>7 DEF CapitalAfterClose, TradePnl, RunBalances, Cost, Long, Short
  <2> HIDE DEF fee, paid
  <2>2. /\ r.size * (fill + fee) \in Int /\ r.size * (r.entry - paid) \in Int
        /\ -r.size * (r.entry - paid) = -(r.size * (r.entry - paid))
    BY <1>1, <1>2
  <2>3. /\ o.capital \in Int /\ o.pnl \in Int /\ o.capital = Capital + o.pnl
        /\ o = [capital |-> o.capital, side |-> Flat, size |-> 0, entry |-> 0, pnl |-> o.pnl]
    BY <1>2, <1>4, <2>1, <2>2, CostTypes
  <2> QED
    BY <1>4, <1>5, <2>3, CostTypes DEF RunTyped, RunBalances, Positions, o
<1> QED
  BY <1>2, <1>6, <1>7

Bar == [low : Price, high : Price, close : Price]

\* One bar keeps the books of the backtest.
LEMMA BarStepBalances ==
  ASSUME NEW r, RunTyped(r), RunBalances(r), NEW bar \in Bar, NEW next \in Price,
         NEW intent, NEW shorts \in BOOLEAN
  PROVE  RunTyped(BarStep(r, bar, next, intent, shorts))
         /\ RunBalances(BarStep(r, bar, next, intent, shorts))
<1> DEFINE rest == IF Exits(r, bar) THEN Closed(r, ExitLevel(r, bar)) ELSE r
           plan == PlanActions(intent, rest.side, shorts)
           flat == IF plan.close THEN Closed(rest, next) ELSE rest
<1>1. RunTyped(rest) /\ RunBalances(rest)
  <2>1. CASE Exits(r, bar)
    <3>1. r.side # Flat
      BY <2>1 DEF Exits, HitsStop, HitsTarget
    <3>2. r.side \in {Long, Short} /\ r.entry \in Price
      BY <3>1 DEF RunTyped, Positions, Price
    <3>3. ExitLevel(r, bar) \in Price
      BY <3>2, LevelType DEF ExitLevel
    <3> QED
      BY <2>1, <3>1, <3>3, ClosedBalances
  <2> QED
    BY <2>1
<1> HIDE DEF rest
<1>2. /\ plan.close => rest.side # Flat
      /\ plan.open # Flat => plan.close \/ rest.side = Flat
      /\ plan.open \in Positions
  BY DEF PlanActions, Wanted, Positions
<1> HIDE DEF plan
<1>3. RunTyped(flat) /\ RunBalances(flat) /\ (plan.open # Flat => flat.side = Flat)
  BY <1>1, <1>2, ClosedBalances
<1> HIDE DEF flat
<1>4. plan.open # Flat => plan.open \in {Long, Short}
  BY <1>2 DEF Positions
<1>5. BarStep(r, bar, next, intent, shorts)
      = IF plan.open # Flat THEN Opened(flat, plan.open, next) ELSE flat
  BY DEF BarStep, rest, plan, flat
<1> QED
  BY <1>3, <1>4, <1>5, OpenedBalances

(***************************************************************************)
(* The venue's book.                                                       *)
(***************************************************************************)

BookType == [cash : Int, qty : Int, avg : Nat, realized : Int]

LEMMA SideType ==
  ASSUME NEW qty \in Int
  PROVE  /\ SideOf(qty) \in Positions /\ qty * SideOf(qty) \in Nat
         /\ SideOf(qty) = Flat <=> qty = 0
         /\ (qty * SideOf(qty)) * SideOf(qty) = qty
         /\ SideOf(qty) \in Int
  BY DEF SideOf, Positions, Long, Flat, Short

\* The average of the entries of what is held and of what is added is a price.
LEMMA AverageType ==
  ASSUME NEW held \in Int, NEW qty \in Int, NEW avg \in Nat, NEW fill \in Nat,
         held # 0, held + qty # 0, (held > 0) = (qty > 0)
  PROVE  ((avg * held + fill * qty) * SideOf(held + qty))
           \div ((held + qty) * SideOf(held + qty)) \in Nat
<1> DEFINE new == held + qty
<1>1. new * SideOf(new) \in Nat \ {0}
  <2>1. new \in Int /\ new # 0
    OBVIOUS
  <2> HIDE DEF new
  <2>2. CASE new > 0
    BY <2>1, <2>2 DEF SideOf, Long
  <2>3. CASE new < 0
    BY <2>1, <2>3 DEF SideOf, Short
  <2> QED
    BY <2>1, <2>2, <2>3
<1>2. (avg * held + fill * qty) * SideOf(new) \in Nat
  <2>1. CASE held > 0
    <3>1. qty \in Nat /\ held \in Nat /\ SideOf(new) = 1
      BY <2>1 DEF SideOf, Long
    <3>2. avg * held \in Nat /\ fill * qty \in Nat
      BY <3>1
    <3> HIDE DEF new
    <3> QED
      BY <3>1, <3>2
  <2>2. CASE held < 0
    <3>1. -qty \in Nat /\ -held \in Nat /\ SideOf(new) = -1
      BY <2>2 DEF SideOf, Short
    <3>2. avg * (-held) \in Nat /\ fill * (-qty) \in Nat
      BY <3>1
    <3>3. avg * (-held) = -(avg * held) /\ fill * (-qty) = -(fill * qty)
          /\ avg * held \in Int /\ fill * qty \in Int
      OBVIOUS
    <3> HIDE DEF new
    <3> QED
      BY <3>1, <3>2, <3>3
  <2> QED
    BY <2>1, <2>2
<1>3. \A a \in Nat, b \in Nat \ {0} : a \div b \in Nat
  OBVIOUS
<1> HIDE DEF new
<1>4. ((avg * held + fill * qty) * SideOf(new)) \div (new * SideOf(new)) \in Nat
  BY <1>1, <1>2, <1>3
<1> QED
  BY <1>4 DEF new

LEMMA ExecutedType ==
  ASSUME NEW b \in BookType, NEW qty \in Int, NEW base \in Nat
  PROVE  Executed(b, qty, base) \in BookType /\ Executed(b, qty, base).qty = b.qty + qty
<1> DEFINE fill == FillPrice(base, qty)
           new  == b.qty + qty
           adds == b.qty # 0 /\ new # 0 /\ (b.qty > 0) = (qty > 0)
           o    == Executed(b, qty, base)
<1>1. fill \in Nat
  BY FillPriceType
<1>2. b.cash \in Int /\ b.qty \in Int /\ b.avg \in Nat /\ b.realized \in Int
  BY DEF BookType
<1> HIDE DEF fill
<1>3. o = [cash |-> b.cash - qty * fill, qty |-> new,
           avg |-> IF new = 0 THEN 0
                   ELSE IF b.qty = 0 THEN fill
                   ELSE IF adds
                   THEN ((b.avg * b.qty + fill * qty) * SideOf(new)) \div (new * SideOf(new))
                   ELSE b.avg,
           realized |-> IF b.qty = 0 \/ adds THEN b.realized ELSE RealizedAfter(b, qty, fill)]
  BY DEF Executed, fill
<1>4. adds => ((b.avg * b.qty + fill * qty) * SideOf(new)) \div (new * SideOf(new)) \in Nat
  BY <1>1, <1>2, AverageType
<1>5. RealizedAfter(b, qty, fill) \in Int /\ b.cash - qty * fill \in Int /\ new \in Int
  BY <1>1, <1>2 DEF RealizedAfter
<1> DEFINE average ==
             IF new = 0 THEN 0
             ELSE IF b.qty = 0 THEN fill
             ELSE IF adds THEN ((b.avg * b.qty + fill * qty) * SideOf(new)) \div (new * SideOf(new))
             ELSE b.avg
<1>6. average \in Nat
  <2>1. CASE new = 0
    BY <2>1
  <2>2. CASE new # 0 /\ b.qty = 0
    BY <1>1, <2>2
  <2>3. CASE new # 0 /\ b.qty # 0 /\ adds
    BY <1>4, <2>3
  <2>4. CASE new # 0 /\ b.qty # 0 /\ ~adds
    BY <1>2, <2>4
  <2> QED
    BY <2>1, <2>2, <2>3, <2>4
<1> HIDE DEF o, average
<1>7. o \in BookType /\ o.qty = new
  <2>1. o = [cash |-> b.cash - qty * fill, qty |-> new, avg |-> average,
             realized |-> IF b.qty = 0 \/ adds THEN b.realized ELSE RealizedAfter(b, qty, fill)]
    BY <1>3 DEF average
  <2> HIDE DEF new, adds
  <2> QED
    BY <1>2, <1>5, <1>6, <2>1 DEF BookType
<1> QED
  BY <1>7 DEF o, new

\* The paper ledger balances.
Balances(b) == b.cash + b.qty * b.avg = Capital + b.realized

\* An order that opens from flat, or closes all there is, keeps the balance.
LEMMA ExecutedBalances ==
  ASSUME NEW b \in BookType, NEW qty \in Int, NEW base \in Nat, Balances(b),
         b.qty = 0 \/ b.qty + qty = 0
  PROVE  Balances(Executed(b, qty, base))
<1> DEFINE fill == FillPrice(base, qty)
           o    == Executed(b, qty, base)
<1>1. fill \in Nat
  BY FillPriceType
<1>2. /\ b.cash \in Int /\ b.qty \in Int /\ b.avg \in Nat /\ b.realized \in Int
      /\ Capital \in Nat
  BY CostTypes DEF BookType
<1> HIDE DEF fill
<1>3. CASE b.qty + qty = 0 /\ b.qty # 0
  <2>1. /\ o.cash = b.cash - qty * fill /\ o.qty = 0 /\ o.avg = 0
        /\ o.realized = b.realized + (fill - b.avg) * (-qty)
    BY <1>2, <1>3 DEF Executed, RealizedAfter, fill
  <2> HIDE DEF o
  <2>2. qty = -b.qty
    BY <1>2, <1>3
  <2>3. /\ qty * fill = -(b.qty * fill)
        /\ (fill - b.avg) * (-qty) = b.qty * fill - b.qty * b.avg
        /\ b.qty * fill \in Int /\ b.qty * b.avg \in Int
    <3>1. ASSUME NEW q \in Int, NEW a \in Int, NEW f \in Int
          PROVE  /\ (-q) * f = -(q * f) /\ (f - a) * (-(-q)) = q * f - q * a
                 /\ q * f \in Int /\ q * a \in Int
      OBVIOUS
    <3> QED
      BY <1>1, <1>2, <2>2, <3>1
  <2> DEFINE atFill == b.qty * fill
             atCost == b.qty * b.avg
  <2>4. b.cash + atCost = Capital + b.realized
    BY DEF Balances
  <2>5. o.cash = b.cash + atFill /\ o.realized = b.realized + (atFill - atCost)
    <3>1. atFill \in Int /\ b.cash - (-atFill) = b.cash + atFill
      BY <1>2, <2>3
    <3> QED
      BY <2>1, <2>3, <3>1
  <2>6. o.qty * o.avg = 0
    BY <2>1
  <2>7. atFill \in Int /\ atCost \in Int
    BY <2>3
  <2> HIDE DEF atFill, atCost
  <2>8. o.cash + 0 = Capital + o.realized
    BY <1>2, <2>4, <2>5, <2>7
  <2>9. Balances(o)
    BY <2>1, <2>6, <2>8 DEF Balances
  <2> QED
    BY <2>9 DEF o
<1>4. CASE b.qty = 0
  <2>1. /\ o.cash = b.cash - qty * fill /\ o.qty = qty
        /\ o.avg = IF qty = 0 THEN 0 ELSE fill
        /\ o.realized = b.realized
    BY <1>2, <1>4 DEF Executed, fill
  <2> HIDE DEF o
  <2>2. b.cash = Capital + b.realized
    BY <1>2, <1>4 DEF Balances
  <2>3. o.qty * o.avg = qty * fill
    BY <1>1, <2>1
  <2> DEFINE paid == qty * fill
  <2>4. paid \in Int
    BY <1>1
  <2>5. o.cash = b.cash - paid /\ o.qty * o.avg = paid
    BY <2>1, <2>3
  <2> HIDE DEF paid
  <2>6. b.cash - paid + paid = Capital + o.realized
    BY <1>2, <2>1, <2>2, <2>4
  <2>7. Balances(o)
    BY <2>5, <2>6 DEF Balances
  <2> QED
    BY <2>7 DEF o
<1> QED
  BY <1>3, <1>4

(***************************************************************************)
(* What an order does.                                                     *)
(***************************************************************************)

Orders == Int \ {0}

StateType == [book : BookType, pending : Seq(Orders), fine : BOOLEAN]

\* Refused, filled at once or under way.
Outcome(s, qty, base, t) ==
  \/ t.book = s.book /\ t.pending = s.pending
  \/ t.book = Executed(s.book, qty, base) /\ t.pending = s.pending
  \/ t.book = s.book /\ qty # 0 /\ t.pending = Append(s.pending, qty)

LEMMA FailedIs ==
  ASSUME NEW s \in StateType
  PROVE  Failed(s) \in StateType /\ Failed(s).book = s.book /\ Failed(s).pending = s.pending
  BY DEF StateType, Failed

LEMMA FilledIs ==
  ASSUME NEW s \in StateType, NEW b \in BookType
  PROVE  /\ [s EXCEPT !.book = b] \in StateType
         /\ [s EXCEPT !.book = b].book = b /\ [s EXCEPT !.book = b].pending = s.pending
  BY DEF StateType

LEMMA QueuedIs ==
  ASSUME NEW s \in StateType, NEW p \in Seq(Orders)
  PROVE  /\ [s EXCEPT !.pending = p] \in StateType
         /\ [s EXCEPT !.pending = p].book = s.book /\ [s EXCEPT !.pending = p].pending = p
  BY DEF StateType

LEMMA SentOutcome ==
  ASSUME NEW s \in StateType, NEW qty \in Int, NEW base \in Nat, NEW t \in Sent(s, qty, base)
  PROVE  /\ t \in StateType /\ Outcome(s, qty, base, t)
         /\ venue = "sim" => t.book = Executed(s.book, qty, base) /\ t.pending = s.pending
<1> DEFINE filled == [s EXCEPT !.book = Executed(s.book, qty, base)]
           queued == [s EXCEPT !.pending = Append(s.pending, qty)]
<1>1. s.book \in BookType /\ s.pending \in Seq(Orders)
  BY DEF StateType
<1>2. Executed(s.book, qty, base) \in BookType
  BY <1>1, ExecutedType
<1>3. filled \in StateType /\ filled.book = Executed(s.book, qty, base) /\ filled.pending = s.pending
  BY <1>2, FilledIs
<1>4. qty # 0 => /\ queued \in StateType /\ queued.book = s.book
                 /\ queued.pending = Append(s.pending, qty)
  <2>1. qty # 0 => Append(s.pending, qty) \in Seq(Orders)
    BY <1>1 DEF Orders
  <2> QED
    BY <2>1, QueuedIs
<1>5. \A x \in StateType :
        Failed(x) \in StateType /\ Failed(x).book = x.book /\ Failed(x).pending = x.pending
  BY FailedIs
<1>6. CASE venue = "sim"
  <2>1. t = filled
    BY <1>6 DEF Sent, SimSent
  <2> QED
    BY <1>3, <2>1 DEF Outcome
<1>7. CASE venue = "binance"
  <2>1. t \in {Failed(s), filled, Failed(filled)}
    BY <1>7 DEF Sent, BinanceSent
  <2> HIDE DEF filled
  <2> QED
    BY <1>3, <1>5, <1>7, <2>1 DEF Outcome
<1>8. CASE venue \notin {"sim", "binance"}
  <2>1. t = Failed(s) \/ (qty # 0 /\ t \in {queued, Failed(queued)})
    BY <1>8 DEF Sent, BybitSent, AlpacaSent
  <2> HIDE DEF queued
  <2> QED
    BY <1>4, <1>5, <1>8, <2>1 DEF Outcome
<1> QED
  BY <1>6, <1>7, <1>8

\* A close sells what is seen, but for less than a lot; all of it when it is whole lots.
Whole(qty) == FloorToStep(qty * SideOf(qty), LotStep) = qty * SideOf(qty)

LEMMA CloseIs ==
  ASSUME NEW pos, pos.qty \in Int, NEW price
  PROVE  LET close == CloseQty(pos, price)
             left  == (pos.qty + close) * SideOf(pos.qty)
         IN  /\ close \in Int /\ left \in Nat /\ left < LotStep
             /\ pos.qty >= 0 => pos.qty + close >= 0
             /\ ~Known(symbol) \/ Whole(pos.qty) => pos.qty + close = 0
<1> DEFINE side == SideOf(pos.qty)
           held == pos.qty * side
           sold == IF Known(symbol) THEN FloorToStep(held, LotStep) ELSE held
<1>1. LotStep \in Nat \ {0}
  BY InstrumentAssumption
<1>2. held \in Nat /\ side \in Int /\ held * side = pos.qty
      /\ (pos.qty > 0 => side = 1) /\ (pos.qty = 0 => side = 0) /\ (pos.qty < 0 => side = -1)
  BY SideType DEF SideOf, Long, Short, Flat
<1>3. held = IF pos.qty >= 0 THEN pos.qty ELSE -pos.qty
  BY <1>2
<1> HIDE DEF side, held
<1>4. /\ sold \in Nat /\ sold <= held /\ held - sold < LotStep
      /\ ~Known(symbol) \/ FloorToStep(held, LotStep) = held => sold = held
  BY <1>1, <1>2, FloorType
<1>5. CloseQty(pos, price) = -side * sold
  BY DEF CloseQty, side, held, sold
<1> HIDE DEF sold
<1> DEFINE close == -side * sold
<1>6. CASE pos.qty > 0
  <2>1. side = 1 /\ held = pos.qty /\ close = -sold
    BY <1>2, <1>3, <1>4, <1>6
  <2> HIDE DEF close
  <2>2. (pos.qty + close) * side = held - sold /\ close \in Int
    BY <1>4, <2>1
  <2> QED
    BY <1>2, <1>4, <1>5, <2>1, <2>2 DEF Whole, side, held, close
<1>7. CASE pos.qty = 0
  <2>1. side = 0 /\ held = 0 /\ close = 0
    BY <1>2, <1>3, <1>4, <1>7
  <2> HIDE DEF close
  <2> QED
    BY <1>1, <1>5, <1>7, <2>1 DEF side, close
<1>8. CASE pos.qty < 0
  <2>1. side = -1 /\ held = -pos.qty /\ close = sold
    BY <1>2, <1>3, <1>4, <1>8
  <2> HIDE DEF close
  <2>2. (pos.qty + close) * side = held - sold /\ close \in Int
    BY <1>4, <2>1
  <2> QED
    BY <1>2, <1>4, <1>5, <1>8, <2>1, <2>2 DEF Whole, side, held, close
<1> QED
  BY <1>6, <1>7, <1>8

\* The size of an entry is a quantity, 0 where there is no equity.
LEMMA SizeType ==
  ASSUME NEW equity \in Int, NEW price \in Price
  PROVE  SizeEntry(equity, price) \in Nat
<1>1. CASE equity <= 0
  BY <1>1 DEF SizeEntry
<1>2. CASE equity > 0
  <2>1. /\ equity * SizePct \in Nat /\ 100 * price \in Nat \ {0}
        /\ SizeEntry(equity, price) = (equity * SizePct) \div (100 * price)
    BY <1>2, InstrumentAssumption DEF SizeEntry, Price
  <2>2. \A a \in Nat, b \in Nat \ {0} : a \div b \in Nat
    OBVIOUS
  <2> QED
    BY <2>1, <2>2
<1> QED
  BY <1>1, <1>2

\* An open is refused, or sends whole lots of an instrument the catalog knows.
LEMMA OpeningIs ==
  ASSUME NEW s \in StateType, NEW side \in {Long, Short}, NEW price \in Price,
         NEW equity \in Int, NEW t \in Opening(s, side, price, equity)
  PROVE  \/ t = Failed(s)
         \/ /\ Known(symbol)
            /\ \E lots \in Nat : /\ FloorToStep(lots, LotStep) = lots
                                 /\ t \in Sent(s, side * lots, price)
<1> DEFINE qty == SizeEntry(equity, price)
<1>1. qty \in Nat
  BY SizeType
<1>2. /\ FloorToStep(qty, LotStep) \in Nat
      /\ FloorToStep(FloorToStep(qty, LotStep), LotStep) = FloorToStep(qty, LotStep)
  BY <1>1, FloorType
<1>3. \/ t = Failed(s)
      \/ ~OpenRefused(qty, price, equity) /\ t \in Sent(s, side * FloorToStep(qty, LotStep), price)
  BY DEF Opening
<1> QED
  BY <1>2, <1>3 DEF OpenRefused

(***************************************************************************)
(* The invariant.                                                          *)
(***************************************************************************)

\* Of the paper account: nothing is under way, what is held is whole lots of an
\* instrument the catalog knows, and the ledger balances.
Ledger ==
  venue = "sim" =>
    /\ pending = <<>> /\ Balances(book) /\ Whole(book.qty)
    /\ book.qty # 0 => Known(symbol)

\* Nothing held and nothing under way goes below flat: of at most two orders the first
\* sells no more than is held, the second buys.
NeverBelow(b, queue) ==
  /\ b.qty >= 0 /\ Len(queue) <= 2
  /\ Len(queue) >= 1 => b.qty + queue[1] >= 0
  /\ Len(queue) = 2 => queue[2] >= 0

Undisturbed == ~allowShort /\ ~overlapped /\ ~touched

Inv ==
  /\ TypeOK /\ RunTyped(run) /\ RunBalances(run)
  /\ StopsAreNeverBlocked /\ Ledger
  /\ Undisturbed => NeverBelow(book, pending)

LEMMA WholeZero == Whole(0)
<1>1. LotStep \in Nat \ {0}
  BY InstrumentAssumption
<1>2. 0 * SideOf(0) = 0
  BY DEF SideOf, Flat
<1>3. FloorToStep(0, LotStep) = 0
  BY <1>1 DEF FloorToStep
<1> QED
  BY <1>2, <1>3 DEF Whole

LEMMA WholeLots ==
  ASSUME NEW lots \in Nat, FloorToStep(lots, LotStep) = lots, NEW side \in {Long, Short}
  PROVE  side * lots \in Int /\ Whole(side * lots)
<1>1. side * lots \in Int /\ (side * lots) * SideOf(side * lots) = lots
  <2>1. CASE side = 1
    <3>1. side * lots = lots
      BY <2>1
    <3>2. CASE lots = 0
      BY <3>1, <3>2 DEF SideOf, Flat
    <3>3. CASE lots > 0
      <4>1. SideOf(lots) = 1 /\ lots * 1 = lots
        BY <3>3 DEF SideOf, Long
      <4> QED
        BY <3>1, <4>1
    <3> QED
      BY <3>2, <3>3
  <2>2. CASE side = -1
    <3>1. side * lots = -lots
      BY <2>2
    <3>2. CASE lots = 0
      BY <3>1, <3>2 DEF SideOf, Flat
    <3>3. CASE lots > 0
      BY <3>1, <3>3 DEF SideOf, Short
    <3> QED
      BY <3>2, <3>3
  <2> QED
    BY <2>1, <2>2 DEF Long, Short
<1> QED
  BY <1>1 DEF Whole

\* The orders of a cycle that nothing disturbs do not go below flat.
LEMMA OutcomeNeverBelow ==
  ASSUME NEW s \in StateType, NEW t \in StateType, NEW qty \in Int, NEW base \in Nat,
         Outcome(s, qty, base, t), NeverBelow(s.book, s.pending), Len(s.pending) <= 1,
         qty >= 0 \/ (s.pending = <<>> /\ s.book.qty + qty >= 0)
  PROVE  NeverBelow(t.book, t.pending) /\ Len(t.pending) <= Len(s.pending) + 1
<1>1. s.book \in BookType /\ s.book.qty \in Int /\ s.pending \in Seq(Orders)
  BY DEF StateType, BookType
<1>2. Executed(s.book, qty, base).qty = s.book.qty + qty
  BY <1>1, ExecutedType
<1>3. Len(s.pending) \in Nat /\ (Len(s.pending) = 1 => s.pending[1] \in Int)
      /\ (s.pending = <<>> => Len(s.pending) = 0)
  BY <1>1 DEF Orders
<1> DEFINE n == Len(s.pending)
<1>n. n = 0 \/ n = 1
  <2>1. n \in Nat /\ n <= 1
    BY <1>3
  <2> HIDE DEF n
  <2> QED
    BY <2>1
<1>4. CASE t.book = s.book /\ t.pending = s.pending
  BY <1>3, <1>4
<1>5. CASE t.book = Executed(s.book, qty, base) /\ t.pending = s.pending
  <2> DEFINE queue == s.pending
  <2>1. t.book.qty = s.book.qty + qty /\ t.pending = queue
    BY <1>2, <1>5
  <2>2. /\ s.book.qty >= 0 /\ Len(queue) \in 0..1
        /\ Len(queue) = 1 => s.book.qty + queue[1] >= 0 /\ queue[1] \in Int
        /\ queue = <<>> => Len(queue) = 0
    BY <1>1, <1>3, <1>n DEF NeverBelow
  <2>3. CASE queue = <<>>
    <3>1. s.book.qty + qty >= 0
      BY <1>1, <2>2
    <3> QED
      BY <2>1, <2>2, <2>3, <3>1 DEF NeverBelow
  <2>4. CASE queue # <<>>
    <3>1. qty >= 0
      BY <2>4
    <3> HIDE DEF queue
    <3> QED
      BY <1>1, <2>1, <2>2, <3>1 DEF NeverBelow, queue
  <2> QED
    BY <2>3, <2>4
<1>6. CASE t.book = s.book /\ qty # 0 /\ t.pending = Append(s.pending, qty)
  <2>1. /\ Len(t.pending) = Len(s.pending) + 1 /\ t.pending[Len(s.pending) + 1] = qty
        /\ \A i \in 1..Len(s.pending) : t.pending[i] = s.pending[i]
    <3>1. qty \in Orders
      BY <1>6 DEF Orders
    <3> QED
      BY <1>1, <1>6, <3>1
  <2>2. CASE Len(s.pending) = 0
    BY <1>1, <1>6, <2>1, <2>2 DEF NeverBelow
  <2>3. CASE Len(s.pending) = 1
    <3>1. t.pending[1] = s.pending[1] /\ t.pending[2] = qty /\ Len(t.pending) = 2
      BY <2>1, <2>3
    <3>2. qty >= 0
      BY <1>3, <2>3
    <3> QED
      BY <1>1, <1>3, <1>6, <2>3, <3>1, <3>2 DEF NeverBelow
  <2> QED
    BY <1>n, <2>2, <2>3
<1> QED
  BY <1>4, <1>5, <1>6 DEF Outcome

LEMMA SeenIs ==
  ASSUME TypeOK, NEW price \in Price, NEW pos \in Seen(price)
  PROVE  /\ pos.qty \in Int /\ pos.avg \in Nat
         /\ pos.qty = book.qty \/ pos.qty = 0
         /\ venue = "sim" => pos.qty = book.qty
<1>1. book.qty \in Int /\ book.avg \in Nat
  BY DEF TypeOK
<1>2. CASE ~Visible
  BY <1>2 DEF Seen, NoPosition, Visible, ReportedAs
<1>3. CASE Visible /\ venue = "binance"
  BY <1>1, <1>3 DEF Seen, NoPosition, BinanceSeen, BinanceEntries, Price
<1>4. CASE Visible /\ venue # "binance"
  BY <1>1, <1>4 DEF Seen
<1> QED
  BY <1>2, <1>3, <1>4

\* A plan opens only from flat or past a close, and shorts only if it may.
LEMMA PlanIs ==
  ASSUME NEW intent, NEW side \in Positions
  PROVE  /\ Plan(intent, side).open \in Positions
         /\ Plan(intent, side).open # Flat => Plan(intent, side).close \/ side = Flat
         /\ ~allowShort => Plan(intent, side).open # Short
<1> DEFINE want == Wanted(intent)
           move == intent # "none" /\ want # side
<1>1. want \in Positions
  BY DEF Wanted, Positions
<1>2. Plan(intent, side) = [close |-> move /\ side # Flat,
                            open  |-> IF move /\ (want = Short => allowShort) THEN want ELSE Flat]
  BY DEF Plan, PlanActions
<1> HIDE DEF want
<1>3. Plan(intent, side).open = (IF move /\ (want = Short => allowShort) THEN want ELSE Flat)
  BY <1>2
<1>5. Plan(intent, side).close = (move /\ side # Flat)
  BY <1>2
<1> HIDE DEF move
<1>4. Flat # Short /\ Flat \in Positions
  BY DEF Flat, Short, Positions
<1> QED
  BY <1>1, <1>3, <1>4, <1>5 DEF move

\* One cycle keeps the invariant's parts about the account.
LEMMA CycleKeeps ==
  ASSUME Inv, NEW price \in Price, NEW intent, NEW apart \in BOOLEAN,
         Cycle(intent, price, apart), UNCHANGED <<market, allowShort, touched>>
  PROVE  /\ book' \in BookType /\ pending' \in Seq(Orders)
         /\ Len(pending') <= Len(pending) + 2
         /\ last' \in [due : BOOLEAN, left : Nat]
         /\ aligned' \in BOOLEAN /\ overlapped' \in BOOLEAN
         /\ StopsAreNeverBlocked' /\ Ledger'
         /\ (Undisturbed => NeverBelow(book, pending))'
<1>0. TypeOK
  BY DEF Inv
<1>1. PICK pos \in Seen(price) :
        LET due   == ExitDue(pos, price)
            plan  == IF due THEN ExitPlan ELSE Plan(intent, SideOf(pos.qty))
            close == CloseQty(pos, price)
        IN  \E s \in IF plan.close THEN Sent(Now, close, price) ELSE {Now} :
            \E t \in IF plan.open # Flat THEN Opening(s, plan.open, price, Equity(price)) ELSE {s} :
              /\ book' = t.book /\ pending' = t.pending
              /\ last' = [due |-> due, left |-> (pos.qty + close) * SideOf(pos.qty)]
              /\ overlapped' = (overlapped \/ pending # <<>>)
              /\ aligned' = (aligned /\ t.fine /\ ~due /\ ~apart /\ pending = <<>>)
  BY DEF Cycle
<1> DEFINE due   == ExitDue(pos, price)
           plan  == IF due THEN ExitPlan ELSE Plan(intent, SideOf(pos.qty))
           close == CloseQty(pos, price)
           left  == (pos.qty + close) * SideOf(pos.qty)
<1> DEFINE Ends(t) ==
             /\ book' = t.book /\ pending' = t.pending
             /\ last' = [due |-> due, left |-> left]
             /\ overlapped' = (overlapped \/ pending # <<>>)
             /\ aligned' = (aligned /\ t.fine /\ ~due /\ ~apart /\ pending = <<>>)
<1>a. PICK s \in IF plan.close THEN Sent(Now, close, price) ELSE {Now} :
        \E t \in IF plan.open # Flat THEN Opening(s, plan.open, price, Equity(price)) ELSE {s} :
          Ends(t)
  BY <1>1
<1>2. PICK t \in IF plan.open # Flat THEN Opening(s, plan.open, price, Equity(price)) ELSE {s} :
        /\ book' = t.book /\ pending' = t.pending
        /\ last' = [due |-> due, left |-> left]
        /\ overlapped' = (overlapped \/ pending # <<>>)
        /\ aligned' = (aligned /\ t.fine /\ ~due /\ ~apart /\ pending = <<>>)
  BY <1>a
<1>3. /\ pos.qty \in Int
      /\ pos.qty = book.qty \/ pos.qty = 0
      /\ venue = "sim" => pos.qty = book.qty
  BY <1>0, SeenIs
<1>4. /\ plan.open \in Positions
      /\ plan.open # Flat => plan.close \/ pos.qty = 0
      /\ ~allowShort => plan.open # Short
  <2>1. SideOf(pos.qty) \in Positions /\ (SideOf(pos.qty) = Flat => pos.qty = 0)
    BY <1>3, SideType
  <2> QED
    BY <2>1, PlanIs DEF ExitPlan, Positions, Flat, Short
<1>5. /\ close \in Int /\ left \in Nat /\ left < LotStep
      /\ pos.qty >= 0 => pos.qty + close >= 0
      /\ ~Known(symbol) \/ Whole(pos.qty) => pos.qty + close = 0
  BY <1>3, CloseIs
<1>6. due \in BOOLEAN
  BY DEF ExitDue
<1> HIDE DEF due, plan, close, left
<1>7. Now \in StateType /\ Now.book = book /\ Now.pending = pending
  BY <1>0 DEF TypeOK, Now, StateType, BookType, Orders
<1>8. /\ s \in StateType
      /\ s = Now \/ (plan.close /\ Outcome(Now, close, price, s))
      /\ plan.close /\ venue = "sim" => s.book = Executed(book, close, price) /\ s.pending = pending
  BY <1>2, <1>5, <1>7, SentOutcome DEF Price
<1>9. Equity(price) \in Int
  BY <1>0 DEF TypeOK, Equity, BinanceEquity, BybitEquity, AlpacaEquity, MarkedEquity, Price
<1>10. \/ t = s \/ t = Failed(s)
       \/ /\ Known(symbol) /\ plan.open \in {Long, Short}
          /\ \E lots \in Nat : /\ FloorToStep(lots, LotStep) = lots
                               /\ t \in Sent(s, plan.open * lots, price)
  <2>1. plan.open # Flat => plan.open \in {Long, Short}
    BY <1>4 DEF Positions
  <2> QED
    BY <1>2, <1>8, <1>9, <2>1, OpeningIs
<1>11. PICK lots \in Nat :
         /\ t \in StateType
         /\ \/ t.book = s.book /\ t.pending = s.pending
            \/ /\ Known(symbol) /\ plan.open \in {Long, Short}
               /\ FloorToStep(lots, LotStep) = lots /\ plan.open * lots \in Int
               /\ Outcome(s, plan.open * lots, price, t)
               /\ venue = "sim" => /\ t.book = Executed(s.book, plan.open * lots, price)
                                   /\ t.pending = s.pending
  <2>1. CASE t = s \/ t = Failed(s)
    BY <1>8, <2>1, FailedIs
  <2>2. ASSUME Known(symbol), plan.open \in {Long, Short}, NEW lots \in Nat,
               FloorToStep(lots, LotStep) = lots, t \in Sent(s, plan.open * lots, price)
        PROVE  /\ t \in StateType /\ plan.open * lots \in Int
               /\ Outcome(s, plan.open * lots, price, t)
               /\ venue = "sim" => /\ t.book = Executed(s.book, plan.open * lots, price)
                                   /\ t.pending = s.pending
    <3>1. plan.open * lots \in Int
      BY <2>2, WholeLots
    <3> QED
      BY <1>8, <2>2, <3>1, SentOutcome DEF Price
  <2> QED
    BY <1>10, <2>1, <2>2
<1>12. book' \in BookType /\ pending' \in Seq(Orders)
  BY <1>2, <1>11 DEF StateType
<1>13. Len(pending') <= Len(pending) + 2
  <2>1. ASSUME NEW a \in StateType, NEW b \in StateType, NEW q \in Int, Outcome(a, q, price, b)
        PROVE  Len(b.pending) <= Len(a.pending) + 1
    <3>1. a.pending \in Seq(Orders)
      BY DEF StateType
    <3>2. q # 0 => Len(Append(a.pending, q)) = Len(a.pending) + 1
      BY <3>1 DEF Orders
    <3>3. Len(a.pending) \in Nat
      BY <3>1
    <3> QED
      BY <2>1, <3>2, <3>3 DEF Outcome
  <2>2. Len(pending) \in Nat /\ Len(s.pending) \in Nat /\ Len(t.pending) \in Nat
    BY <1>0, <1>8, <1>11 DEF TypeOK, StateType
  <2>3. Len(s.pending) <= Len(pending) + 1
    BY <1>5, <1>7, <1>8, <2>1, <2>2
  <2>4. Len(t.pending) <= Len(s.pending) + 1
    BY <1>8, <1>11, <2>1, <2>2
  <2> QED
    BY <1>2, <2>2, <2>3, <2>4
<1>14. last' \in [due : BOOLEAN, left : Nat] /\ StopsAreNeverBlocked'
  BY <1>2, <1>5, <1>6 DEF StopsAreNeverBlocked
<1>15. aligned' \in BOOLEAN /\ overlapped' \in BOOLEAN
  BY <1>0, <1>2, <1>6, <1>11 DEF TypeOK, StateType
<1>16. Ledger'
  <2> SUFFICES ASSUME venue = "sim"
               PROVE  /\ pending' = <<>> /\ Balances(book') /\ Whole(book'.qty)
                      /\ book'.qty # 0 => Known(symbol)
    BY DEF Ledger, venue, symbol, Balances, Whole, Known, Lookup, Key, Aliases, Catalog
  <2>1. /\ pending = <<>> /\ Balances(book) /\ Whole(book.qty)
        /\ book.qty # 0 => Known(symbol)
    BY DEF Inv, Ledger
  <2>2. book \in BookType /\ book.qty \in Int
    BY <1>7 DEF StateType, BookType
  <2>3. /\ s.pending = <<>> /\ s.book \in BookType /\ Balances(s.book)
        /\ s.book = book \/ s.book.qty = 0
        /\ plan.open # Flat => s.book.qty = 0
    <3>1. CASE plan.close
      <4>1. book.qty + close = 0
        BY <1>3, <1>5, <2>1
      <4>2. s.book = Executed(book, close, price) /\ s.pending = <<>>
        BY <1>8, <2>1, <3>1
      <4>3. s.book \in BookType /\ s.book.qty = 0
        BY <1>5, <2>2, <4>1, <4>2, ExecutedType DEF Price
      <4>4. Balances(s.book)
        BY <1>5, <2>1, <2>2, <4>1, <4>2, ExecutedBalances DEF Price
      <4> QED
        BY <4>2, <4>3, <4>4
    <3>2. CASE ~plan.close
      BY <1>3, <1>4, <1>7, <1>8, <2>1, <2>2, <3>2
    <3> QED
      BY <3>1, <3>2
  <2>4. CASE t.book = s.book /\ t.pending = s.pending
    BY <1>2, <2>1, <2>3, <2>4, WholeZero
  <2>5. CASE /\ Known(symbol) /\ plan.open \in {Long, Short}
             /\ FloorToStep(lots, LotStep) = lots /\ plan.open * lots \in Int
             /\ t.book = Executed(s.book, plan.open * lots, price)
             /\ t.pending = s.pending
    <3>1. s.book.qty = 0
      BY <2>3, <2>5 DEF Long, Short, Flat
    <3>2. t.book.qty = plan.open * lots
      BY <2>3, <2>5, <3>1, ExecutedType DEF Price
    <3>3. Balances(t.book)
      BY <2>3, <2>5, <3>1, ExecutedBalances DEF Price
    <3>4. Whole(t.book.qty)
      BY <2>5, <3>2, WholeLots
    <3> QED
      BY <1>2, <2>3, <2>5, <3>3, <3>4
  <2> QED
    BY <1>11, <2>4, <2>5
<1>17. (Undisturbed => NeverBelow(book, pending))'
  <2> SUFFICES ASSUME ~allowShort, ~overlapped', ~touched PROVE NeverBelow(t.book, t.pending)
    BY <1>2 DEF Undisturbed, NeverBelow
  <2>1. pending = <<>> /\ NeverBelow(book, pending)
    BY <1>2 DEF Inv, Undisturbed
  <2>2. book.qty \in Int /\ book.qty >= 0 /\ book.qty + close >= 0 /\ Len(pending) = 0
    BY <1>0, <1>3, <1>5, <2>1 DEF TypeOK, NeverBelow
  <2>3. NeverBelow(s.book, s.pending) /\ Len(s.pending) <= 1
    <3>1. CASE s = Now
      BY <1>7, <2>1, <2>2, <3>1
    <3>2. CASE Outcome(Now, close, price, s)
      <4>1. Len(Now.pending) + 1 = 1 /\ Len(Now.pending) <= 1
        BY <1>7, <2>2
      <4> QED
        BY <1>5, <1>7, <1>8, <2>1, <2>2, <3>2, <4>1, OutcomeNeverBelow DEF Price
    <3> QED
      BY <1>8, <3>1, <3>2
  <2>4. CASE t.book = s.book /\ t.pending = s.pending
    BY <2>3, <2>4
  <2>5. CASE /\ plan.open \in {Long, Short} /\ plan.open * lots \in Int
             /\ Outcome(s, plan.open * lots, price, t)
    <3>1. plan.open = 1
      BY <1>4, <2>5 DEF Long
    <3>2. plan.open * lots >= 0
      BY <3>1
    <3> QED
      BY <1>8, <1>11, <2>3, <2>5, <3>2, OutcomeNeverBelow DEF Price
  <2> QED
    BY <1>11, <2>4, <2>5
<1> QED
  BY <1>12, <1>13, <1>14, <1>15, <1>16, <1>17

(***************************************************************************)
(* The steps.                                                              *)
(***************************************************************************)

LEMMA InitInv == Init => Inv
<1> SUFFICES ASSUME Init PROVE Inv
  OBVIOUS
<1> USE DEF Init
<1>1. Capital \in Nat /\ MaxBars \in Nat /\ MaxPending \in Nat
  BY CostTypes, OrderFlowAssumption
<1>2. LotStep \in Nat \ {0}
  BY InstrumentAssumption
<1>3. run = [capital |-> Capital, side |-> 0, size |-> 0, entry |-> 0, pnl |-> 0]
  BY DEF FreshRun, Flat
<1>4. pending \in Seq(Orders) /\ Len(pending) = 0
  OBVIOUS
<1>5. TypeOK
  <2>1. run \in [capital : Int, side : Positions, size : Int, entry : Nat, pnl : Int]
    BY <1>1, <1>3 DEF Positions, Flat
  <2>2. /\ book \in [cash : Int, qty : Int, avg : Nat, realized : Int]
        /\ last \in [due : BOOLEAN, left : Nat]
    BY <1>1
  <2>3. bars \in 0..MaxBars /\ mark \in Nat /\ Len(pending) <= MaxPending + 1
    BY <1>1, <1>4
  <2> QED
    BY <1>4, <2>1, <2>2, <2>3 DEF TypeOK, Orders
<1>6. RunTyped(run) /\ RunBalances(run)
  <2>1. Cost(run) = 0
    BY <1>3 DEF Cost, Long, Short
  <2> QED
    BY <1>1, <1>3, <2>1 DEF RunTyped, RunBalances, Positions, Flat
<1>7. StopsAreNeverBlocked
  BY DEF StopsAreNeverBlocked
<1>8. Ledger
  BY <1>1, WholeZero DEF Ledger, Balances
<1>9. NeverBelow(book, pending)
  BY <1>4 DEF NeverBelow
<1> QED
  BY <1>5, <1>6, <1>7, <1>8, <1>9 DEF Inv

LEMMA NewBarInv == ASSUME Inv, NewBar PROVE Inv'
<1>1. PICK bar \in Bars, intent \in Intents, next \in Opens :
        /\ Cycle(intent, bar.close, Exits(run, bar))
        /\ mark' = bar.close /\ opens' = next
        /\ run' = BarStep(run, bar, next, intent, BacktestShorts)
  BY DEF NewBar
<1>2. bar \in Bar /\ bar.close \in Price /\ next \in Price
  BY OrderFlowAssumption DEF Bar, Price
<1>3. /\ bars < MaxBars /\ Len(pending) < MaxPending /\ bars' = bars + 1
      /\ UNCHANGED <<market, allowShort, touched>>
  BY DEF NewBar
<1>4. Exits(run, bar) \in BOOLEAN /\ TypeOK /\ RunTyped(run) /\ RunBalances(run)
  BY DEF Exits, HitsStop, HitsTarget, Inv
<1>5. /\ book' \in BookType /\ pending' \in Seq(Orders) /\ Len(pending') <= Len(pending) + 2
      /\ last' \in [due : BOOLEAN, left : Nat]
      /\ aligned' \in BOOLEAN /\ overlapped' \in BOOLEAN
      /\ StopsAreNeverBlocked' /\ Ledger' /\ (Undisturbed => NeverBelow(book, pending))'
  BY <1>1, <1>2, <1>3, <1>4, CycleKeeps
<1>6. RunTyped(run)' /\ RunBalances(run)'
  <2>1. BacktestShorts \in BOOLEAN
    BY DEF BacktestShorts
  <2> QED
    BY <1>1, <1>2, <1>4, <2>1, BarStepBalances DEF RunBalances
<1>7. TypeOK'
  <2>1. bars' \in 0..MaxBars /\ Len(pending') <= MaxPending + 1
    <3>1. MaxBars \in Nat /\ MaxPending \in Nat /\ bars \in 0..MaxBars
      BY <1>4, OrderFlowAssumption DEF TypeOK
    <3>2. Len(pending) \in Nat /\ Len(pending') \in Nat
      BY <1>4, <1>5 DEF TypeOK
    <3> QED
      BY <1>3, <1>5, <3>1, <3>2
  <2>2. run' \in [capital : Int, side : Positions, size : Int, entry : Nat, pnl : Int]
    BY <1>6 DEF RunTyped
  <2>3. mark' \in Nat /\ opens' \in Opens
    BY <1>1, <1>2 DEF Price
  <2> QED
    BY <1>3, <1>4, <1>5, <2>1, <2>2, <2>3 DEF TypeOK, BookType, Orders
<1> QED
  BY <1>5, <1>6, <1>7 DEF Inv

LEMMA PollInv == ASSUME Inv, Poll PROVE Inv'
<1>1. PICK price \in PollMarks : Cycle("none", price, FALSE) /\ mark' = price
  BY DEF Poll
<1>2. price \in Price
  BY OrderFlowAssumption DEF Price
<1>3. /\ Len(pending) < MaxPending
      /\ UNCHANGED <<market, allowShort, bars, opens, run, touched>>
  BY DEF Poll
<1>4. TypeOK /\ RunTyped(run) /\ RunBalances(run)
  BY DEF Inv
<1>5. /\ book' \in BookType /\ pending' \in Seq(Orders) /\ Len(pending') <= Len(pending) + 2
      /\ last' \in [due : BOOLEAN, left : Nat]
      /\ aligned' \in BOOLEAN /\ overlapped' \in BOOLEAN
      /\ StopsAreNeverBlocked' /\ Ledger' /\ (Undisturbed => NeverBelow(book, pending))'
  BY <1>1, <1>2, <1>3, CycleKeeps
<1>6. RunTyped(run)' /\ RunBalances(run)'
  BY <1>3, <1>4 DEF RunBalances
<1>7. TypeOK'
  <2>1. Len(pending') <= MaxPending + 1
    <3>1. MaxPending \in Nat /\ Len(pending) \in Nat /\ Len(pending') \in Nat
      BY <1>4, <1>5, OrderFlowAssumption DEF TypeOK
    <3> QED
      BY <1>3, <1>5, <3>1
  <2>2. mark' \in Nat
    BY <1>1, <1>2 DEF Price
  <2> QED
    BY <1>3, <1>4, <1>5, <2>1, <2>2 DEF TypeOK, BookType, Orders
<1> QED
  BY <1>5, <1>6, <1>7 DEF Inv

LEMMA VenueFillsInv == ASSUME Inv, VenueFills PROVE Inv'
<1>1. /\ pending # <<>> /\ book' = Executed(book, Head(pending), mark)
      /\ pending' = Tail(pending)
      /\ UNCHANGED <<market, allowShort, bars, opens, mark, run, last, aligned,
                     overlapped, touched>>
  BY DEF VenueFills
<1>2. TypeOK /\ book \in BookType /\ pending \in Seq(Orders) /\ mark \in Nat
  BY DEF Inv, TypeOK, BookType, Orders
<1>3. /\ Head(pending) \in Int /\ Head(pending) = pending[1] /\ pending' \in Seq(Orders)
      /\ Len(pending') = Len(pending) - 1 /\ Len(pending) \in Nat /\ Len(pending) >= 1
      /\ \A i \in 1..Len(pending') : pending'[i] = pending[i + 1]
  BY <1>1, <1>2 DEF Orders
<1>4. book' \in BookType /\ book'.qty = book.qty + Head(pending)
  BY <1>1, <1>2, <1>3, ExecutedType
<1>5. TypeOK'
  <2>1. Len(pending') <= MaxPending + 1
    BY <1>2, <1>3, OrderFlowAssumption DEF TypeOK
  <2> QED
    BY <1>1, <1>2, <1>3, <1>4, <2>1 DEF TypeOK, BookType, Orders
<1>6. venue # "sim"
  BY <1>1 DEF Inv, Ledger
<1>7. Ledger'
  BY <1>1, <1>6 DEF Ledger, venue
<1>8. (Undisturbed => NeverBelow(book, pending))'
  <2> SUFFICES ASSUME Undisturbed' PROVE NeverBelow(book, pending)'
    OBVIOUS
  <2>1. NeverBelow(book, pending)
    BY <1>1 DEF Inv, Undisturbed
  <2>2. book'.qty >= 0 /\ Len(pending') <= 1
    <3>1. Len(pending) <= 2 /\ book.qty + pending[1] >= 0
      BY <1>3, <2>1 DEF NeverBelow
    <3> QED
      BY <1>3, <1>4, <3>1
  <2>3. CASE Len(pending') = 0
    BY <2>2, <2>3 DEF NeverBelow
  <2>4. CASE Len(pending') = 1
    <3>1. Len(pending) = 2 /\ pending'[1] = pending[2] /\ pending[2] >= 0 /\ pending[2] \in Int
      BY <1>2, <1>3, <2>1, <2>4 DEF NeverBelow, Orders
    <3>2. book'.qty \in Int
      BY <1>4 DEF BookType
    <3>3. book'.qty + pending'[1] >= 0
      BY <2>2, <3>1, <3>2
    <3> QED
      BY <2>2, <2>4, <3>3 DEF NeverBelow
  <2> QED
    BY <1>3, <2>2, <2>3, <2>4
<1>9. StopsAreNeverBlocked' /\ RunTyped(run)' /\ RunBalances(run)'
  BY <1>1 DEF Inv, StopsAreNeverBlocked, RunBalances
<1> QED
  BY <1>5, <1>7, <1>8, <1>9 DEF Inv

LEMMA ByHandInv == ASSUME Inv, ByHand PROVE Inv'
<1>1. PICK qty \in LotsByHand : book' = Executed(book, qty, mark)
  BY DEF ByHand
<1>2. /\ venue # "sim" /\ touched' = TRUE /\ aligned' = FALSE
      /\ UNCHANGED <<market, allowShort, bars, opens, mark, run, pending, last, overlapped>>
  BY DEF ByHand
<1>3. TypeOK /\ book \in BookType /\ mark \in Nat /\ qty \in Int
  BY OrderFlowAssumption DEF Inv, TypeOK, BookType
<1>4. book' \in BookType
  BY <1>1, <1>3, ExecutedType
<1>5. TypeOK'
  BY <1>2, <1>3, <1>4 DEF TypeOK, BookType
<1>6. Ledger' /\ ~Undisturbed'
  BY <1>2 DEF Ledger, venue, Undisturbed
<1>7. StopsAreNeverBlocked' /\ RunTyped(run)' /\ RunBalances(run)'
  BY <1>2 DEF Inv, StopsAreNeverBlocked, RunBalances
<1> QED
  BY <1>5, <1>6, <1>7 DEF Inv

LEMMA NextInv == Inv /\ [Next]_vars => Inv'
<1> SUFFICES ASSUME Inv, [Next]_vars PROVE Inv'
  OBVIOUS
<1>1. CASE UNCHANGED vars
  <2>1. UNCHANGED <<market, allowShort, bars, opens, mark, run, book, pending, last,
                    aligned, overlapped, touched>>
    BY <1>1 DEF vars
  <2>2. TypeOK' /\ Ledger'
    BY <2>1 DEF Inv, TypeOK, Ledger, venue, symbol
  <2> QED
    BY <2>1, <2>2 DEF Inv, RunBalances, StopsAreNeverBlocked, Undisturbed
<1> QED
  BY <1>1, NewBarInv, PollInv, VenueFillsInv, ByHandInv DEF Next

LEMMA Invariance == Spec => []Inv
  BY InitInv, NextInv, PTL DEF Spec

(***************************************************************************)
(* The strategy and its backtest.  They agree on the side of what the      *)
(* venue will hold once the orders under way are filled; a cycle that      *)
(* nothing set apart begins with none under way, sees all that is held,    *)
(* and makes the plan of the backtest.                                     *)
(***************************************************************************)

Heading(b, queue) ==
  b.qty + (IF Len(queue) >= 1 THEN queue[1] ELSE 0) + (IF Len(queue) >= 2 THEN queue[2] ELSE 0)

Settled(b, queue, side) ==
  /\ Len(queue) <= 2 /\ Whole(Heading(b, queue))
  /\ Heading(b, queue) # 0 => Known(symbol)
  /\ SideOf(Heading(b, queue)) = side

\* A spot account owes nothing, and its orders are filled or refused at once.
Spot == venue = "binance" => pending = <<>> /\ book.qty >= 0

Together == (aligned /\ Visible) => Settled(book, pending, Allowed(run.side))

\* Where a bar leaves the backtest, if no level is hit.
LEMMA BarStepSide ==
  ASSUME NEW r, RunTyped(r), NEW bar, ~Exits(r, bar), NEW next, NEW intent, NEW shorts
  PROVE  LET plan == PlanActions(intent, r.side, shorts)
         IN  BarStep(r, bar, next, intent, shorts).side
             = IF plan.open # Flat THEN plan.open ELSE IF plan.close THEN Flat ELSE r.side
<1> DEFINE plan == PlanActions(intent, r.side, shorts)
           flat == IF plan.close THEN Closed(r, next) ELSE r
<1>1. BarStep(r, bar, next, intent, shorts)
      = IF plan.open # Flat THEN Opened(flat, plan.open, next) ELSE flat
  BY DEF BarStep
<1>2. \A q : RunTyped(q) => Closed(q, next).side = Flat
  BY DEF Closed, RunTyped
<1>3. flat.side = IF plan.close THEN Flat ELSE r.side
  BY <1>2
<1>4. /\ DOMAIN flat = {"capital", "side", "size", "entry", "pnl"}
      /\ \A side : Opened(flat, side, next).side = side
  <2>1. DOMAIN r = {"capital", "side", "size", "entry", "pnl"}
    BY DEF RunTyped
  <2>2. DOMAIN Closed(r, next) = {"capital", "side", "size", "entry", "pnl"}
    BY <2>1 DEF Closed
  <2>3. DOMAIN flat = {"capital", "side", "size", "entry", "pnl"}
    BY <2>1, <2>2
  <2> HIDE DEF flat
  <2>4. \A side : Opened(flat, side, next).side = side
    BY <2>3 DEF Opened
  <2> QED
    BY <2>3, <2>4
<1> HIDE DEF flat, plan
<1> QED
  BY <1>1, <1>3, <1>4 DEF plan

\* An order that goes through is filled or under way.
LEMMA SentFine ==
  ASSUME NEW s \in StateType, NEW qty \in Int, NEW base \in Nat, NEW t \in Sent(s, qty, base),
         t.fine
  PROVE  /\ s.fine
         /\ \/ t.book = Executed(s.book, qty, base) /\ t.pending = s.pending
               /\ (venue = "binance" => s.book.qty + qty >= 0 \/ qty >= 0)
            \/ /\ venue # "binance" /\ qty # 0
               /\ t.book = s.book /\ t.pending = Append(s.pending, qty)
<1> DEFINE filled == [s EXCEPT !.book = Executed(s.book, qty, base)]
           queued == [s EXCEPT !.pending = Append(s.pending, qty)]
<1>1. s.book \in BookType /\ s.pending \in Seq(Orders)
  BY DEF StateType
<1>2. Executed(s.book, qty, base) \in BookType
  BY <1>1, ExecutedType
<1>3. /\ filled.book = Executed(s.book, qty, base) /\ filled.pending = s.pending
      /\ filled.fine = s.fine /\ Failed(filled).fine = FALSE
  BY <1>2 DEF StateType, Failed
<1>4. /\ queued.book = s.book /\ queued.pending = Append(s.pending, qty)
      /\ queued.fine = s.fine /\ Failed(queued).fine = FALSE
  BY DEF StateType, Failed
<1>5. Failed(s).fine = FALSE
  BY DEF StateType, Failed
<1>6. CASE venue = "sim"
  <2>1. t = filled
    BY <1>6 DEF Sent, SimSent
  <2> QED
    BY <1>3, <1>6, <2>1
<1>7. CASE venue = "binance"
  <2>1. /\ t \in {Failed(s), filled, Failed(filled)}
        /\ t \in {filled, Failed(filled)} \/ t = Failed(s)
        /\ t # Failed(s) => Covered(s.book, qty, base)
    BY <1>7 DEF Sent, BinanceSent
  <2>2. Covered(s.book, qty, base) => s.book.qty + qty >= 0 \/ qty >= 0
    BY DEF Covered
  <2> HIDE DEF filled
  <2> QED
    BY <1>3, <1>5, <2>1, <2>2
<1>8. CASE venue \notin {"sim", "binance"}
  <2>1. t = Failed(s) \/ (qty # 0 /\ t \in {queued, Failed(queued)})
    BY <1>8 DEF Sent, BybitSent, AlpacaSent
  <2> HIDE DEF queued
  <2> QED
    BY <1>4, <1>5, <1>8, <2>1
<1> QED
  BY <1>6, <1>7, <1>8

LEMMA SentHeading ==
  ASSUME NEW s \in StateType, NEW qty \in Int, NEW base \in Nat, NEW t \in Sent(s, qty, base),
         t.fine, Len(s.pending) <= 1
  PROVE  /\ Heading(t.book, t.pending) = Heading(s.book, s.pending) + qty
         /\ Len(t.pending) <= Len(s.pending) + 1
<1>1. s.book \in BookType /\ s.book.qty \in Int /\ s.pending \in Seq(Orders)
  BY DEF StateType, BookType
<1>2. Len(s.pending) \in Nat /\ (Len(s.pending) = 1 => s.pending[1] \in Int)
  BY <1>1 DEF Orders
<1>3. CASE t.book = Executed(s.book, qty, base) /\ t.pending = s.pending
  <2> DEFINE n     == Len(s.pending)
             first == s.pending[1]
  <2>1. t.book.qty = s.book.qty + qty
    BY <1>1, <1>3, ExecutedType
  <2>2. /\ n \in Nat /\ n <= 1 /\ n = Len(t.pending) /\ first = t.pending[1]
        /\ (n = 1 => first \in Int)
    BY <1>2, <1>3
  <2>3. /\ Heading(t.book, t.pending) = t.book.qty + (IF n >= 1 THEN first ELSE 0) + 0
        /\ Heading(s.book, s.pending) = s.book.qty + (IF n >= 1 THEN first ELSE 0) + 0
    BY <2>2 DEF Heading
  <2> HIDE DEF n, first
  <2>4. n = 0 \/ n = 1
    <3>1. \A m \in Nat : m <= 1 => m = 0 \/ m = 1
      OBVIOUS
    <3> QED
      BY <2>2, <3>1, Zenon
  <2>5. n <= n + 1 /\ (IF n >= 1 THEN first ELSE 0) \in Int
    BY <2>2, <2>4
  <2> QED
    BY <1>1, <2>1, <2>2, <2>3, <2>5 DEF n
<1>4. CASE qty # 0 /\ t.book = s.book /\ t.pending = Append(s.pending, qty)
  <2>1. /\ Len(t.pending) = Len(s.pending) + 1 /\ t.pending[Len(s.pending) + 1] = qty
        /\ \A i \in 1..Len(s.pending) : t.pending[i] = s.pending[i]
    <3>1. qty \in Orders
      BY <1>4 DEF Orders
    <3> QED
      BY <1>1, <1>4, <3>1
  <2>2. CASE Len(s.pending) = 0
    BY <1>1, <1>4, <2>1, <2>2 DEF Heading
  <2>3. CASE Len(s.pending) = 1
    <3>1. t.pending[1] = s.pending[1] /\ t.pending[2] = qty /\ Len(t.pending) = 2
      BY <2>1, <2>3
    <3> QED
      BY <1>1, <1>2, <1>4, <2>3, <3>1 DEF Heading
  <2>4. Len(s.pending) = 0 \/ Len(s.pending) = 1
    <3> DEFINE n == Len(s.pending)
    <3>1. n \in Nat /\ n <= 1
      BY <1>2
    <3> HIDE DEF n
    <3>2. n = 0 \/ n = 1
      BY <3>1
    <3> QED
      BY <3>2 DEF n
  <2> QED
    BY <2>1, <2>2, <2>3, <2>4
<1> QED
  BY <1>3, <1>4, SentFine

\* On a spot account.
LEMMA SentSpot ==
  ASSUME NEW s \in StateType, NEW qty \in Int, NEW base \in Nat, NEW t \in Sent(s, qty, base),
         venue = "binance", s.book.qty >= 0
  PROVE  t.pending = s.pending /\ t.book.qty >= 0
<1> DEFINE filled == [s EXCEPT !.book = Executed(s.book, qty, base)]
<1>1. s.book \in BookType /\ s.book.qty \in Int
  BY DEF StateType, BookType
<1>2. Executed(s.book, qty, base) \in BookType /\ Executed(s.book, qty, base).qty = s.book.qty + qty
  BY <1>1, ExecutedType
<1>3. filled \in StateType /\ filled.book.qty = s.book.qty + qty /\ filled.pending = s.pending
  BY <1>2, FilledIs
<1>4. \/ t = Failed(s)
      \/ t \in {filled, Failed(filled)} /\ Covered(s.book, qty, base)
  BY DEF Sent, BinanceSent
<1>5. Covered(s.book, qty, base) => s.book.qty + qty >= 0
  BY <1>1 DEF Covered
<1> HIDE DEF filled
<1>6. CASE t = Failed(s)
  BY <1>6, FailedIs
<1>7. CASE t \in {filled, Failed(filled)} /\ Covered(s.book, qty, base)
  BY <1>3, <1>5, <1>7, FailedIs
<1> QED
  BY <1>4, <1>6, <1>7

\* An open that goes through sends at least the smallest lot.
LEMMA OpeningFine ==
  ASSUME NEW s \in StateType, NEW side \in {Long, Short}, NEW price \in Price,
         NEW equity \in Int, NEW t \in Opening(s, side, price, equity), t.fine
  PROVE  /\ Known(symbol)
         /\ \E lots \in Nat \ {0} : /\ FloorToStep(lots, LotStep) = lots
                                    /\ t \in Sent(s, side * lots, price)
<1> DEFINE qty  == SizeEntry(equity, price)
           lots == FloorToStep(qty, LotStep)
<1>1. Failed(s).fine = FALSE
  BY DEF StateType, Failed
<1>2. ~OpenRefused(qty, price, equity) /\ t \in Sent(s, side * lots, price)
  BY <1>1 DEF Opening
<1>3. qty \in Nat
  BY SizeType
<1> HIDE DEF qty
<1>4. lots \in Nat /\ FloorToStep(lots, LotStep) = lots
  BY <1>3, FloorType
<1>5. Known(symbol) /\ ~(lots < MinQty)
  BY <1>2 DEF OpenRefused, Violates
<1> HIDE DEF lots
<1>6. lots # 0
  BY <1>4, <1>5, InstrumentAssumption
<1> QED
  BY <1>2, <1>4, <1>5, <1>6

\* What an adapter that shows the position shows of it.
LEMMA SeenWhole ==
  ASSUME TypeOK, Spot, Visible, NEW price, NEW pos \in Seen(price)
  PROVE  pos.qty = book.qty
<1>1. book.qty \in Int
  BY DEF TypeOK
<1> QED
  BY <1>1 DEF Seen, BinanceSeen, NoPosition, Spot

Reached(intent, side) ==
  LET plan == Plan(intent, side)
  IN  IF plan.open # Flat THEN plan.open ELSE IF plan.close THEN Flat ELSE side

\* The plan of the backtest, from its own side, leads where the plan of the strategy does
\* from what it may hold of it.
LEMMA PlansAgree ==
  ASSUME NEW intent \in Intents, NEW side \in Positions
  PROVE  LET plan == PlanActions(intent, side, BacktestShorts)
             ends == IF plan.open # Flat THEN plan.open ELSE IF plan.close THEN Flat ELSE side
         IN  Allowed(ends) = Reached(intent, Allowed(side))
  BY DEF PlanActions, Plan, Reached, Allowed, BacktestShorts, Wanted, Positions,
         Long, Short, Flat

\* A cycle that sets nothing apart leads where the plan of the backtest does.
LEMMA CycleSettles ==
  ASSUME Inv, Spot, Together, Visible, NEW price \in Price, NEW intent, NEW apart \in BOOLEAN,
         Cycle(intent, price, apart), aligned'
  PROVE  aligned /\ ~apart /\ Settled(book', pending', Reached(intent, Allowed(run.side)))
<1>0. TypeOK
  BY DEF Inv
<1> DEFINE Due(pos)   == ExitDue(pos, price)
           Way(pos)   == IF Due(pos) THEN ExitPlan ELSE Plan(intent, SideOf(pos.qty))
           Ends(pos, s, t) ==
             /\ book' = t.book /\ pending' = t.pending
             /\ aligned' = (aligned /\ t.fine /\ ~Due(pos) /\ ~apart /\ pending = <<>>)
<1>1. PICK pos \in Seen(price) :
        \E s \in IF Way(pos).close THEN Sent(Now, CloseQty(pos, price), price) ELSE {Now} :
        \E t \in IF Way(pos).open # Flat THEN Opening(s, Way(pos).open, price, Equity(price))
                                         ELSE {s} :
          Ends(pos, s, t)
  BY DEF Cycle
<1> DEFINE plan  == Plan(intent, Allowed(run.side))
           close == CloseQty(pos, price)
<1>2. PICK s \in IF Way(pos).close THEN Sent(Now, close, price) ELSE {Now} :
        \E t \in IF Way(pos).open # Flat THEN Opening(s, Way(pos).open, price, Equity(price))
                                         ELSE {s} :
          Ends(pos, s, t)
  BY <1>1
<1>3. PICK t \in IF Way(pos).open # Flat THEN Opening(s, Way(pos).open, price, Equity(price))
                                         ELSE {s} :
          Ends(pos, s, t)
  BY <1>2
<1>4. aligned /\ t.fine /\ ~Due(pos) /\ ~apart /\ pending = <<>>
  BY <1>3
<1>5. pos.qty = book.qty /\ book.qty \in Int
  BY <1>0, SeenWhole DEF TypeOK
<1>6. /\ Whole(book.qty) /\ (book.qty # 0 => Known(symbol))
      /\ SideOf(book.qty) = Allowed(run.side) /\ Heading(book, pending) = book.qty
  <2>1. Len(pending) = 0
    BY <1>4
  <2>2. Heading(book, pending) = book.qty
    BY <1>5, <2>1 DEF Heading
  <2> QED
    BY <1>4, <2>2 DEF Together, Settled
<1>7. Way(pos) = plan
  BY <1>4, <1>5, <1>6
<1>8. close \in Int /\ book.qty + close = 0
  BY <1>5, <1>6, CloseIs
<1>9. /\ plan.open \in Positions
      /\ plan.open # Flat => plan.close \/ Allowed(run.side) = Flat
  BY <1>5, <1>6, SideType, PlanIs
<1>10. /\ s \in IF plan.close THEN Sent(Now, close, price) ELSE {Now}
       /\ t \in IF plan.open # Flat THEN Opening(s, plan.open, price, Equity(price)) ELSE {s}
       /\ book' = t.book /\ pending' = t.pending
  BY <1>2, <1>3, <1>7
<1> HIDE DEF Due, Way, Ends, plan, close
<1>11. Now \in StateType /\ Now.book = book /\ Now.pending = pending /\ Len(Now.pending) = 0
  BY <1>0, <1>4 DEF TypeOK, Now, StateType, BookType, Orders
<1>12. Equity(price) \in Int
  BY <1>0 DEF TypeOK, Equity, BinanceEquity, BybitEquity, AlpacaEquity, MarkedEquity, Price
<1>13. s \in StateType
  BY <1>8, <1>10, <1>11, SentOutcome DEF Price
\* The close.
<1>14. s.fine => /\ Heading(s.book, s.pending) = IF plan.close THEN 0 ELSE book.qty
                 /\ Len(s.pending) <= 1
  <2>1. CASE plan.close
    <3>1. s \in Sent(Now, close, price)
      BY <1>10, <2>1
    <3>2. s.fine => /\ Heading(s.book, s.pending) = Heading(Now.book, Now.pending) + close
                    /\ Len(s.pending) <= Len(Now.pending) + 1
      BY <1>8, <1>11, <3>1, SentHeading DEF Price
    <3> QED
      BY <1>6, <1>8, <1>11, <2>1, <3>2
  <2>2. CASE ~plan.close
    BY <1>6, <1>10, <1>11, <2>2
  <2> QED
    BY <2>1, <2>2
\* The open.
<1>15. CASE plan.open = Flat
  <2>1. t = s
    BY <1>10, <1>15
  <2>2. Heading(t.book, t.pending) = IF plan.close THEN 0 ELSE book.qty
    BY <1>4, <1>14, <2>1
  <2>3. Len(t.pending) <= 2
    <3>1. Len(s.pending) \in Nat
      BY <1>13 DEF StateType
    <3> QED
      BY <1>4, <1>14, <2>1, <3>1
  <2>4. SideOf(0) = Flat
    BY DEF SideOf
  <2>5. Settled(t.book, t.pending, IF plan.close THEN Flat ELSE Allowed(run.side))
    BY <1>6, <2>2, <2>3, <2>4, WholeZero DEF Settled
  <2> QED
    BY <1>4, <1>10, <1>15, <2>5 DEF Reached, plan
<1>16. CASE plan.open # Flat
  <2>1. plan.open \in {Long, Short}
    BY <1>9, <1>16 DEF Positions
  <2>2. t \in Opening(s, plan.open, price, Equity(price))
    BY <1>10, <1>16
  <2>3. /\ Known(symbol)
        /\ \E lots \in Nat \ {0} : /\ FloorToStep(lots, LotStep) = lots
                                   /\ t \in Sent(s, plan.open * lots, price)
    BY <1>4, <1>12, <1>13, <2>1, <2>2, OpeningFine
  <2>4. PICK lots \in Nat \ {0} : /\ FloorToStep(lots, LotStep) = lots
                                  /\ t \in Sent(s, plan.open * lots, price)
    BY <2>3
  <2>5. plan.open * lots \in Int /\ Whole(plan.open * lots)
    BY <2>1, <2>4, WholeLots
  <2>6. s.fine
    BY <1>4, <1>13, <2>4, <2>5, SentFine DEF Price
  <2>7. Heading(s.book, s.pending) = 0 /\ Len(s.pending) <= 1
    <3>1. ~plan.close => book.qty = 0
      BY <1>5, <1>6, <1>9, <1>16, SideType
    <3> QED
      BY <1>14, <2>6, <3>1
  <2>8. /\ Heading(t.book, t.pending) = Heading(s.book, s.pending) + plan.open * lots
        /\ Len(t.pending) <= Len(s.pending) + 1
    BY <1>4, <1>13, <2>4, <2>5, <2>7, SentHeading DEF Price
  <2>9. Heading(t.book, t.pending) = plan.open * lots
    BY <2>5, <2>7, <2>8
  <2>10. Len(t.pending) <= 2
    <3>1. t \in StateType
      BY <1>13, <2>4, <2>5, SentOutcome DEF Price
    <3>2. Len(s.pending) \in Nat /\ Len(t.pending) \in Nat
      BY <1>13, <3>1 DEF StateType
    <3> QED
      BY <2>7, <2>8, <3>2
  <2>11. SideOf(plan.open * lots) = plan.open
    <3>1. CASE plan.open = 1
      <4>1. plan.open * lots = lots /\ lots > 0
        BY <3>1
      <4> QED
        BY <3>1, <4>1 DEF SideOf, Long
    <3>2. CASE plan.open = -1
      <4>1. plan.open * lots = -lots /\ lots > 0
        BY <3>2
      <4>2. -lots < 0 /\ ~(-lots > 0)
        OBVIOUS
      <4> QED
        BY <3>2, <4>1, <4>2 DEF SideOf, Short
    <3> QED
      BY <2>1, <3>1, <3>2 DEF Long, Short
  <2>12. Settled(t.book, t.pending, plan.open)
    BY <2>3, <2>5, <2>9, <2>10, <2>11 DEF Settled
  <2> QED
    BY <1>4, <1>10, <1>16, <2>12 DEF Reached, plan
<1> QED
  BY <1>15, <1>16

LEMMA CycleSpot ==
  ASSUME Inv, Spot, NEW price \in Price, NEW intent, NEW apart \in BOOLEAN,
         Cycle(intent, price, apart), venue = "binance"
  PROVE  pending' = <<>> /\ book'.qty >= 0
<1>0. TypeOK
  BY DEF Inv
<1> DEFINE Way(pos) == IF ExitDue(pos, price) THEN ExitPlan ELSE Plan(intent, SideOf(pos.qty))
<1>1. PICK pos \in Seen(price) :
        \E s \in IF Way(pos).close THEN Sent(Now, CloseQty(pos, price), price) ELSE {Now} :
        \E t \in IF Way(pos).open # Flat THEN Opening(s, Way(pos).open, price, Equity(price))
                                         ELSE {s} :
          book' = t.book /\ pending' = t.pending
  BY DEF Cycle
<1> DEFINE plan  == Way(pos)
           close == CloseQty(pos, price)
<1>2. PICK s \in IF plan.close THEN Sent(Now, close, price) ELSE {Now} :
        \E t \in IF plan.open # Flat THEN Opening(s, plan.open, price, Equity(price)) ELSE {s} :
          book' = t.book /\ pending' = t.pending
  BY <1>1
<1>3. PICK t \in IF plan.open # Flat THEN Opening(s, plan.open, price, Equity(price)) ELSE {s} :
          book' = t.book /\ pending' = t.pending
  BY <1>2
<1>4. pos.qty \in Int
  BY <1>0, SeenIs
<1>5. close \in Int
  BY <1>4, CloseIs
<1>6. plan.open \in Positions
  BY <1>4, SideType, PlanIs DEF ExitPlan, Positions
<1> HIDE DEF Way, plan, close
<1>7. Now \in StateType /\ Now.book = book /\ Now.pending = pending
  BY <1>0 DEF TypeOK, Now, StateType, BookType, Orders
<1>8. s \in StateType /\ s.pending = <<>> /\ s.book.qty >= 0
  BY <1>2, <1>5, <1>7, SentOutcome, SentSpot DEF Price, Spot
<1>9. Equity(price) \in Int
  BY <1>0 DEF TypeOK, Equity, BinanceEquity, BybitEquity, AlpacaEquity, MarkedEquity, Price
<1>10. CASE plan.open = Flat
  BY <1>3, <1>8, <1>10
<1>11. CASE plan.open # Flat
  <2>1. plan.open \in {Long, Short} /\ t \in Opening(s, plan.open, price, Equity(price))
    BY <1>3, <1>6, <1>11 DEF Positions
  <2>2. \/ t = Failed(s)
        \/ \E lots \in Nat : /\ FloorToStep(lots, LotStep) = lots
                             /\ t \in Sent(s, plan.open * lots, price)
    BY <1>8, <1>9, <2>1, OpeningIs
  <2>3. CASE t = Failed(s)
    BY <1>3, <1>8, <2>3, FailedIs
  <2>4. ASSUME NEW lots \in Nat, FloorToStep(lots, LotStep) = lots,
               t \in Sent(s, plan.open * lots, price)
        PROVE  t.pending = <<>> /\ t.book.qty >= 0
    <3>1. plan.open * lots \in Int
      BY <2>1, <2>4, WholeLots
    <3> QED
      BY <1>8, <2>4, <3>1, SentSpot DEF Price
  <2> QED
    BY <1>3, <2>2, <2>3, <2>4
<1> QED
  BY <1>10, <1>11

LEMMA KeepsKnown == ASSUME market' = market PROVE symbol' = symbol /\ venue' = venue /\ Visible' = Visible
  BY DEF symbol, venue, Visible, ReportedAs, BybitName, BinanceName, AlpacaName, Product

LEMMA InitSides == Init => Spot /\ Together
<1> SUFFICES ASSUME Init PROVE Spot /\ Together
  OBVIOUS
<1>1. book.qty = 0 /\ pending = <<>> /\ Len(pending) = 0 /\ run.side = Flat
  BY DEF Init, FreshRun
<1>2. Heading(book, pending) = 0 /\ SideOf(0) = Flat
  BY <1>1 DEF Heading, SideOf
<1> QED
  BY <1>1, <1>2, WholeZero DEF Spot, Together, Settled, Allowed, Flat, Short

LEMMA NewBarSides == ASSUME Inv, Spot, Together, NewBar PROVE Spot' /\ Together'
<1>1. PICK bar \in Bars, intent \in Intents, next \in Opens :
        /\ Cycle(intent, bar.close, Exits(run, bar))
        /\ run' = BarStep(run, bar, next, intent, BacktestShorts)
  BY DEF NewBar
<1>2. bar.close \in Price /\ market' = market /\ Exits(run, bar) \in BOOLEAN
      /\ allowShort' = allowShort
  BY OrderFlowAssumption DEF Price, NewBar, Exits, HitsStop, HitsTarget
<1>3. symbol' = symbol /\ venue' = venue /\ Visible' = Visible
  BY <1>2, KeepsKnown
<1>4. Spot'
  <2>1. venue = "binance" => pending' = <<>> /\ book'.qty >= 0
    BY <1>1, <1>2, CycleSpot
  <2> QED
    BY <1>3, <2>1 DEF Spot
<1>5. Together'
  <2> SUFFICES ASSUME aligned', Visible PROVE Settled(book, pending, Allowed(run.side))'
    BY <1>3 DEF Together
  <2>1. ~Exits(run, bar) /\ Settled(book', pending', Reached(intent, Allowed(run.side)))
    BY <1>1, <1>2, CycleSettles
  <2>2. Allowed(run'.side) = Reached(intent, Allowed(run.side))
    <3> DEFINE plan == PlanActions(intent, run.side, BacktestShorts)
    <3>1. run'.side = IF plan.open # Flat THEN plan.open
                      ELSE IF plan.close THEN Flat ELSE run.side
      BY <1>1, <2>1, BarStepSide DEF Inv
    <3>2. run.side \in Positions
      BY DEF Inv, RunTyped
    <3> QED
      BY <3>1, <3>2, PlansAgree
  <2>3. Allowed(run.side)' = Allowed(run'.side)
    BY <1>2 DEF Allowed
  <2> QED
    BY <1>3, <2>1, <2>2, <2>3 DEF Settled
<1> QED
  BY <1>4, <1>5

LEMMA PollSides == ASSUME Inv, Spot, Together, Poll PROVE Spot' /\ Together'
<1>1. PICK price \in PollMarks : Cycle("none", price, FALSE)
  BY DEF Poll
<1>2. price \in Price /\ market' = market /\ run' = run /\ allowShort' = allowShort
  BY OrderFlowAssumption DEF Price, Poll
<1>3. symbol' = symbol /\ venue' = venue /\ Visible' = Visible
  BY <1>2, KeepsKnown
<1>4. Spot'
  <2>1. venue = "binance" => pending' = <<>> /\ book'.qty >= 0
    BY <1>1, <1>2, CycleSpot
  <2> QED
    BY <1>3, <2>1 DEF Spot
<1>5. Together'
  <2> SUFFICES ASSUME aligned', Visible PROVE Settled(book, pending, Allowed(run.side))'
    BY <1>3 DEF Together
  <2>1. Settled(book', pending', Reached("none", Allowed(run.side)))
    BY <1>1, <1>2, CycleSettles
  <2>2. Allowed(run.side)' = Reached("none", Allowed(run.side))
    BY <1>2 DEF Reached, Plan, PlanActions, Allowed
  <2> QED
    BY <1>3, <2>1, <2>2 DEF Settled
<1> QED
  BY <1>4, <1>5

LEMMA VenueFillsSides == ASSUME Inv, Spot, Together, VenueFills PROVE Spot' /\ Together'
<1>1. /\ pending # <<>> /\ book' = Executed(book, Head(pending), mark)
      /\ pending' = Tail(pending)
      /\ market' = market /\ run' = run /\ aligned' = aligned /\ allowShort' = allowShort
  BY DEF VenueFills
<1>2. book \in BookType /\ book.qty \in Int /\ pending \in Seq(Orders) /\ mark \in Nat
  BY DEF Inv, TypeOK, BookType, Orders
<1>3. /\ Head(pending) \in Int /\ Head(pending) = pending[1]
      /\ Len(pending') = Len(pending) - 1 /\ Len(pending) \in Nat /\ Len(pending) >= 1
      /\ \A i \in 1..Len(pending') : pending'[i] = pending[i + 1]
      /\ \A i \in 1..Len(pending) : pending[i] \in Int
  BY <1>1, <1>2 DEF Orders
<1>4. book'.qty = book.qty + pending[1]
  BY <1>1, <1>2, <1>3, ExecutedType
<1>5. symbol' = symbol /\ venue' = venue /\ Visible' = Visible
  BY <1>1, KeepsKnown
<1>6. Spot'
  BY <1>1, <1>5 DEF Spot
<1>7. Together'
  <2> SUFFICES ASSUME aligned, Visible PROVE Settled(book', pending', Allowed(run.side))
    BY <1>1, <1>5 DEF Together, Settled, Allowed
  <2>1. Settled(book, pending, Allowed(run.side))
    BY DEF Together
  <2>2. Len(pending') <= 2 /\ Heading(book', pending') = Heading(book, pending)
    <3>1. CASE Len(pending) = 1
      <4>1. Len(pending') = 0
        BY <1>3, <3>1
      <4>2. Heading(book, pending) = book.qty + pending[1] /\ Heading(book', pending') = book'.qty
        BY <1>2, <1>3, <1>4, <3>1, <4>1 DEF Heading
      <4> QED
        BY <1>4, <4>1, <4>2
    <3>2. CASE Len(pending) = 2
      <4>1. Len(pending') = 1 /\ pending'[1] = pending[2] /\ pending[2] \in Int
        BY <1>3, <3>2
      <4>2. /\ Heading(book, pending) = book.qty + pending[1] + pending[2]
            /\ Heading(book', pending') = book'.qty + pending[2]
        BY <1>2, <1>3, <1>4, <3>2, <4>1 DEF Heading
      <4> QED
        BY <1>4, <4>1, <4>2
    <3>3. Len(pending) = 1 \/ Len(pending) = 2
      <4>1. \A n \in Nat : n >= 1 /\ n <= 2 => n = 1 \/ n = 2
        OBVIOUS
      <4> QED
        BY <1>3, <2>1, <4>1 DEF Settled
    <3> QED
      BY <3>1, <3>2, <3>3
  <2> QED
    BY <2>1, <2>2 DEF Settled
<1> QED
  BY <1>6, <1>7

LEMMA ByHandSides == ASSUME Inv, Spot, ByHand PROVE Spot' /\ Together'
<1>1. PICK qty \in LotsByHand :
        /\ venue = "binance" => Covered(book, qty, mark)
        /\ book' = Executed(book, qty, mark)
  BY DEF ByHand
<1>2. aligned' = FALSE /\ market' = market /\ pending' = pending
  BY DEF ByHand
<1>3. book \in BookType /\ book.qty \in Int /\ mark \in Nat /\ qty \in Int
  BY OrderFlowAssumption DEF Inv, TypeOK, BookType
<1>4. book'.qty = book.qty + qty
  BY <1>1, <1>3, ExecutedType
<1>5. Spot'
  <2> SUFFICES ASSUME venue = "binance" PROVE pending' = <<>> /\ book'.qty >= 0
    BY <1>2, KeepsKnown DEF Spot
  <2>1. pending = <<>> /\ book.qty >= 0
    BY DEF Spot
  <2>2. qty < 0 => book.qty + qty >= 0
    BY <1>1 DEF Covered
  <2> QED
    BY <1>2, <1>3, <1>4, <2>1, <2>2
<1> QED
  BY <1>2, <1>5 DEF Together

LEMMA NextSides == ASSUME Inv, Spot, Together, [Next]_vars PROVE Spot' /\ Together'
<1>1. CASE UNCHANGED vars
  <2>1. UNCHANGED <<market, allowShort, run, book, pending, aligned>>
    BY <1>1 DEF vars
  <2>2. symbol' = symbol /\ venue' = venue /\ Visible' = Visible
    BY <2>1, KeepsKnown
  <2> QED
    BY <2>1, <2>2 DEF Spot, Together, Settled, Allowed
<1> QED
  BY <1>1, NewBarSides, PollSides, VenueFillsSides, ByHandSides DEF Next

(***************************************************************************)
(* The theorems.                                                           *)
(***************************************************************************)

\* Every variable keeps its type: no rounding, average or level is out of its range, and
\* at most MaxPending + 1 orders are under way.
THEOREM Typed == Spec => []TypeOK
  BY Invariance, PTL DEF Inv

\* The paper ledger neither makes nor loses money (simulated_adapter.py:86).
THEOREM LedgerBalancesAlways == Spec => []LedgerBalances
<1>1. Inv => LedgerBalances
  BY DEF Inv, Ledger, Balances, LedgerBalances
<1> QED
  BY <1>1, Invariance, PTL

\* The backtest's capital and the results of its trades tell the same story
\* (engine.py:193-251).
THEOREM BacktestBalancesAlways == Spec => []BacktestBalances
<1>1. Inv => BacktestBalances
  BY DEF Inv, RunBalances, Cost, BacktestBalances
<1> QED
  BY <1>1, Invariance, PTL

\* A strategy that may not short is never short, whatever is refused and whatever reply is
\* lost, until a cycle of its acts while an order is still under way or the user trades on
\* its account.  A close whose reply was lost is under way: sent again, it can make the
\* account short, and the theorem says nothing from there on (strategy_executor.py:
\* _trade_on_signals, reconcile.py).
THEOREM NoUninvitedShortAlways == Spec => []NoUninvitedShort
<1>1. Inv => NoUninvitedShort
  BY DEF Inv, Undisturbed, NeverBelow, NoUninvitedShort
<1> QED
  BY <1>1, Invariance, PTL

\* An exit that is due leaves less than a lot of what the adapter reports
\* (execution_engine.py:256).
THEOREM StopsNeverBlockedAlways == Spec => []StopsAreNeverBlocked
  BY Invariance, PTL DEF Inv

\* From the start, and until the first exit, refusal, lost reply, trade by hand or cycle
\* while an order is under way, the account is on the side of the backtest of the same
\* signals whenever its orders are filled, or flat where the backtest is short and the
\* strategy may not be (execution_engine.py:103-105, engine.py:59, reconcile.py).
THEOREM SameSideAlways == Spec => []SameSide
<1>1. Spec => [](Spot /\ Together)
  <2>1. Inv /\ (Spot /\ Together) /\ [Next]_vars => (Spot /\ Together)'
    BY NextSides
  <2> QED
    BY InitSides, Invariance, <2>1, PTL DEF Spec
<1>2. Inv /\ Spot /\ Together => SameSide
  <2> SUFFICES ASSUME Inv, Together, aligned, pending = <<>>, Visible
               PROVE  SideOf(book.qty) = Allowed(run.side)
    BY DEF SameSide
  <2>1. Len(pending) = 0 /\ book.qty \in Int
    BY DEF Inv, TypeOK
  <2>2. Heading(book, pending) = book.qty
    BY <2>1 DEF Heading
  <2> QED
    BY <2>2 DEF Together, Settled
<1> QED
  BY <1>1, <1>2, Invariance, PTL

=============================================================================
