------------------------ MODULE AccumulationProofs ------------------------
(***************************************************************************)
(* Theorems of Accumulation, for every arm, every parameter the classes    *)
(* accept and every path of prices: the state keeps its types, so that     *)
(* neither cash nor units can be overdrawn, and the books balance.         *)
(***************************************************************************)
EXTENDS Accumulation, TLAPS

(***************************************************************************)
(* Arithmetic.                                                             *)
(***************************************************************************)

\* The quotient of natural numbers is one.
LEMMA QuotientNat == ASSUME NEW a \in Nat, NEW b \in Nat \ {0} PROVE a \div b \in Nat
  OBVIOUS

\* Products of natural numbers are natural numbers and grow with either factor.
LEMMA ProductNat == ASSUME NEW a \in Nat, NEW b \in Nat PROVE a * b \in Nat
  OBVIOUS
LEMMA ProductGrows ==
  ASSUME NEW a \in Nat, NEW b \in Nat, NEW c \in Nat, a <= b PROVE a * c <= b * c
  OBVIOUS

\* A share of an amount is at most the amount.
LEMMA ShareAtMost ==
  ASSUME NEW a \in Nat, NEW n \in Nat, NEW u \in Nat \ {0}, n <= u
  PROVE  (a * n) \div u \in Nat /\ (a * n) \div u <= a
<1>1. a * n \in Nat /\ a * n <= a * u
  BY ProductNat, ProductGrows
<1> QED
  BY <1>1, QuotientNat

\* A percentage of an integer is an integer, of a natural number a natural number.
LEMMA PercentTyped ==
  ASSUME NEW x \in Int, NEW of \in Int
  PROVE  /\ Percent(x, of) \in Int
         /\ x \in Nat /\ of \in Nat => Percent(x, of) \in Nat
<1>1. x * of \in Int /\ (x \in Nat /\ of \in Nat => x * of \in Nat)
  BY ProductNat
<1> QED
  BY <1>1, QuotientNat DEF Percent

LEMMA PercentNat ==
  ASSUME NEW x \in Nat, NEW of \in Nat PROVE Percent(x, of) \in Nat
  BY PercentTyped

\* A percentage is at most the whole, and what it leaves at least the rest.
LEMMA PercentAtMost ==
  ASSUME NEW x \in Nat, x <= 100, NEW of \in Nat
  PROVE  /\ Percent(x, of) \in Nat /\ Percent(x, of) <= of
         /\ 100 * (of - Percent(x, of)) >= (100 - x) * of
<1>1. x * of \in Nat /\ x * of <= 100 * of
  BY ProductNat, ProductGrows
<1>2. (100 - x) * of = 100 * of - x * of
  OBVIOUS
<1> DEFINE part == x * of
           rest == (100 - x) * of
<1> HIDE DEF part, rest
<1>3. part \in Nat /\ part <= 100 * of /\ rest = 100 * of - part
  BY <1>1, <1>2 DEF part, rest
<1>4. part \div 100 \in Nat /\ part \div 100 <= of /\ 100 * (of - part \div 100) >= rest
  BY <1>3
<1> QED
  BY <1>4 DEF Percent, part, rest

LEMMA ClampTyped == ASSUME NEW x \in Int PROVE Clamp(x) \in Nat /\ Clamp(x) <= 100
  BY DEF Clamp, AtMost, AtLeast

\* Products of up to three integers, and their quotients, are integers.
LEMMA ProductInt ==
  ASSUME NEW a \in Int, NEW b \in Int, NEW c \in Int
  PROVE  a * b \in Int /\ a * b * c \in Int
  OBVIOUS
LEMMA QuotientInt == ASSUME NEW a \in Int, NEW b \in Nat \ {0} PROVE a \div b \in Int
  OBVIOUS

-----------------------------------------------------------------------------
(***************************************************************************)
(* The parameters.                                                         *)
(***************************************************************************)

\* What the assumption says of the numbers the trades are made of.
LEMMA Numbers ==
  /\ \A p \in Prices : p \in Nat \ {0}
  /\ NBars \in Nat \ {0} /\ Interval \in Nat \ {0} /\ CycleLength \in Nat \ {0}
  /\ Contribution \in Nat /\ Budget \in Nat /\ Cost \in 0..99
  BY AccumulationAssumption

LEMMA WindowNumbers ==
  /\ Window.sellStart \in Nat /\ Window.sellEnd \in Nat
  /\ Window.buyStart \in Nat /\ Window.buyEnd \in Nat
  /\ Window.ramp \in Nat /\ Window.baseBuy \in Nat /\ 100 - Window.baseBuy \in Nat
  BY AccumulationAssumption DEF WindowParams, Percents

LEMMA WeightedNumbers ==
  /\ Weighted.kBuy \in Nat /\ Weighted.kSell \in Nat
  /\ Weighted.floor \in Nat /\ 100 - Weighted.floor \in Nat /\ Weighted.ddRef \in Nat \ {0}
  BY AccumulationAssumption DEF WeightedParams, Percents

LEMMA HunterNumbers ==
  /\ Hunter.kSell \in Nat /\ Hunter.cap \in Nat /\ Hunter.cap <= 100
  /\ Hunter.cooldown \in Nat /\ Hunter.within \in Nat /\ Hunter.ddRef \in Nat \ {0}
  /\ Hunter.kBear \in Nat /\ Hunter.floor \in Nat
  BY AccumulationAssumption DEF HunterParams, Percents

LEMMA RotationNumbers ==
  /\ Rotation.fraction \in Nat /\ Rotation.fraction <= 100
  /\ Rotation.kSell \in Nat /\ Rotation.drop \in Nat /\ Rotation.margin \in Nat
  /\ Rotation.zone \in Nat /\ Rotation.kDeploy \in Nat /\ Rotation.floor \in Nat
  BY AccumulationAssumption DEF RotationParams, Percents

LEMMA GridNumbers ==
  /\ Grid.base \in Nat /\ Grid.dipGain \in Nat /\ Grid.ddRef \in Nat \ {0}
  /\ Grid.trim \in Nat /\ Grid.core \in Nat /\ 100 - Grid.core \in Nat
  BY AccumulationAssumption DEF GridParams, Percents

-----------------------------------------------------------------------------
(***************************************************************************)
(* The ledger.                                                             *)
(***************************************************************************)

\* A ledger whose books balance.
Balanced(l) == l \in Ledgers /\ l.cash + l.basis = l.contributed + l.realized

\* A purchase of any amount leaves a ledger that balances; it never takes units.
LEMMA BuyBalances ==
  ASSUME NEW l \in Ledgers, Balanced(l), NEW want \in Int, NEW p \in Nat \ {0}
  PROVE  Balanced(Bought(l, want, p))
<1> DEFINE spent == AtMost(want, l.cash)
           got   == (spent * 100) \div (p * (100 + Cost))
<1>1. CASE spent <= 0
  BY <1>1 DEF Bought
<1>2. CASE ~(spent <= 0)
  <2>1. spent \in Nat /\ spent <= l.cash
    BY <1>2 DEF AtMost, Ledgers
  <2>2. p * (100 + Cost) \in Nat \ {0}
    <3>1. 100 + Cost \in Nat \ {0}
      BY Numbers
    <3> QED
      BY <3>1
  <2>3. got \in Nat
    BY <2>1, <2>2, QuotientNat
  <2>4. Bought(l, want, p) = [l EXCEPT !.units = @ + got, !.cash = @ - spent, !.basis = @ + spent]
    BY <1>2 DEF Bought
  <2> HIDE DEF spent, got
  <2>5. Bought(l, want, p) = [units |-> l.units + got, cash |-> l.cash - spent,
                              contributed |-> l.contributed, basis |-> l.basis + spent,
                              realized |-> l.realized]
    BY <2>4 DEF Ledgers
  <2> QED
    BY <2>1, <2>3, <2>5 DEF Balanced, Ledgers
<1> QED
  BY <1>1, <1>2

\* So does a sale of any number of units; at most those held are sold.
LEMMA SaleBalances ==
  ASSUME NEW l \in Ledgers, Balanced(l), NEW want \in Int, NEW p \in Nat \ {0}
  PROVE  Balanced(Sold(l, want, p))
<1> DEFINE n        == AtMost(want, l.units)
           proceeds == Percent(100 - Cost, n * p)
           removed  == (l.basis * n) \div l.units
<1>1. CASE n <= 0
  BY <1>1 DEF Sold
<1>2. CASE ~(n <= 0)
  <2>1. n \in Nat \ {0} /\ n <= l.units /\ l.units \in Nat \ {0} /\ l.basis \in Nat
    BY <1>2 DEF AtMost, Ledgers
  <2>2. removed \in Nat /\ removed <= l.basis
    BY <2>1, ShareAtMost
  <2>3. proceeds \in Nat
    <3>1. 100 - Cost \in Nat /\ n * p \in Nat
      BY <2>1, Numbers, ProductNat
    <3> QED
      BY <3>1, PercentTyped
  <2>4. Sold(l, want, p) = [l EXCEPT !.units = @ - n, !.cash = @ + proceeds,
                                     !.basis = @ - removed, !.realized = @ + proceeds - removed]
    BY <1>2 DEF Sold
  <2> HIDE DEF n, proceeds, removed
  <2>5. Sold(l, want, p) = [units |-> l.units - n, cash |-> l.cash + proceeds,
                            contributed |-> l.contributed, basis |-> l.basis - removed,
                            realized |-> l.realized + proceeds - removed]
    BY <2>4 DEF Ledgers
  <2> QED
    BY <2>1, <2>2, <2>3, <2>5 DEF Balanced, Ledgers
<1> QED
  BY <1>1, <1>2

\* The contribution of a bar goes to the cash and is counted as paid in.
LEMMA FundedBalances == ASSUME Balanced(ledger) PROVE Balanced(Funded)
<1>1. \/ Funded = ledger
      \/ Funded = [units |-> ledger.units, cash |-> ledger.cash + Contribution,
                   contributed |-> ledger.contributed + Contribution,
                   basis |-> ledger.basis, realized |-> ledger.realized]
  BY DEF Funded, Balanced, Ledgers
<1> QED
  BY <1>1, Numbers DEF Balanced, Ledgers

-----------------------------------------------------------------------------
(***************************************************************************)
(* What a policy decides on.                                               *)
(***************************************************************************)

\* The low of a drawdown is not above its peak.
EpisodeOrdered == episode.trough <= episode.peak

\* The inductive invariant.
Inv == TypeOK /\ BooksBalance /\ EpisodeOrdered

LEMMA InvBalanced == ASSUME Inv PROVE Balanced(ledger) /\ Balanced(Funded)
  BY FundedBalances DEF Inv, TypeOK, BooksBalance, Balanced

LEMMA InvFunded ==
  ASSUME Inv
  PROVE  Funded \in Ledgers /\ Funded.cash \in Nat /\ Funded.units \in Nat /\ Funded.basis \in Nat
  BY InvBalanced DEF Balanced, Ledgers

LEMMA BaseDeployTyped == ASSUME Inv PROVE BaseDeploy \in Nat
  BY InvFunded, Numbers, QuotientNat DEF BaseDeploy

LEMMA StrengthTyped ==
  ASSUME NEW d \in Nat, NEW first \in Nat, NEW last \in Nat
  PROVE  Strength(d, first, last) \in Nat
<1> DEFINE elapsed   == DaysInto(d, first, last)
           remaining == Length(first, last) - elapsed
           least     == AtMost(elapsed, remaining)
<1>1. elapsed \in Int /\ remaining \in Int
  BY Numbers DEF DaysInto, Length
<1>2. 100 * least \in Int
  BY <1>1 DEF AtMost
<1>3. CASE Window.ramp = 0 \/ elapsed = -1
  BY <1>3 DEF Strength
<1>4. CASE ~(Window.ramp = 0 \/ elapsed = -1)
  <2>1. (100 * least) \div Window.ramp \in Int
    BY <1>2, <1>4, WindowNumbers
  <2>2. Strength(d, first, last) = Clamp((100 * least) \div Window.ramp)
    BY <1>4 DEF Strength
  <2> HIDE DEF least, elapsed
  <2> QED
    BY <2>1, <2>2, ClampTyped
<1> QED
  BY <1>3, <1>4

LEMMA IntensitiesTyped ==
  ASSUME Inv
  PROVE  SellIntensity \in Nat /\ BuyIntensity \in Nat
<1> DEFINE x        == 100 - Window.baseBuy
           strength == Strength(day, Window.buyStart, Window.buyEnd)
<1>1. day \in Nat
  BY Numbers DEF Inv, TypeOK
<1>2. x \in Nat /\ strength \in Nat /\ SellIntensity \in Nat
  BY <1>1, WindowNumbers, StrengthTyped DEF SellIntensity
<1>3. Window.baseBuy + Percent(x, strength) \in Nat
  <2> HIDE DEF x, strength
  <2>1. Percent(x, strength) \in Nat
    BY <1>2, PercentTyped
  <2> QED
    BY <2>1, WindowNumbers
<1> QED
  BY <1>2, <1>3 DEF BuyIntensity

LEMMA HighTyped ==
  ASSUME Inv, NEW h \in Prices
  PROVE  High(h) \in Nat \ {0} /\ h <= High(h)
  BY Numbers DEF Inv, TypeOK, High, AtLeast

LEMMA DrawdownTyped ==
  ASSUME NEW p \in Nat, NEW high \in Nat \ {0}
  PROVE  Drawdown(p, high) \in Int
  BY DEF Drawdown

-----------------------------------------------------------------------------
(***************************************************************************)
(* A bar.                                                                  *)
(***************************************************************************)

LEMMA EpisodeTyped ==
  ASSUME Inv, NEW p \in Prices
  PROVE  Episode(p) \in Episodes /\ Episode(p).trough <= Episode(p).peak
<1>1. /\ episode.peak \in Nat /\ episode.trough \in Nat /\ episode.drop \in Int
      /\ episode.trough <= episode.peak
      /\ episode = [peak |-> episode.peak, trough |-> episode.trough, drop |-> episode.drop]
  BY DEF Inv, TypeOK, Episodes, EpisodeOrdered
<1>2. p \in Nat \ {0}
  BY Numbers
<1>3. CASE p < episode.peak
  <2>1. Episode(p) = [peak |-> episode.peak, trough |-> AtMost(p, episode.trough),
                      drop |-> episode.drop]
    BY <1>1, <1>3 DEF Episode
  <2> QED
    BY <1>1, <1>2, <2>1 DEF AtMost, Episodes
<1>4. CASE ~(p < episode.peak)
  <2> DEFINE drop == IF episode.trough = episode.peak THEN episode.drop
                     ELSE LET fell == Drawdown(episode.trough, episode.peak)
                          IN  IF episode.drop = NoDrop THEN fell ELSE AtMost(fell, episode.drop)
  <2>1. drop \in Int
    BY <1>1, DrawdownTyped DEF AtMost
  <2>2. Episode(p) = [peak |-> p, trough |-> p, drop |-> drop]
    BY <1>4 DEF Episode
  <2> HIDE DEF drop
  <2> QED
    BY <1>2, <2>1, <2>2 DEF Episodes
<1> QED
  BY <1>3, <1>4

\* Whatever is decided, a bar keeps the invariant.
LEMMA TradeKeeps ==
  ASSUME Inv, NEW p \in Prices, NEW h \in Prices, NEW buy \in Int, NEW sell \in Int,
         NEW r \in Registers, Trade(p, h, buy, sell, r)
  PROVE  Inv'
<1>1. p \in Nat \ {0}
  BY Numbers
<1>2. Balanced(ledger')
  <2>1. Balanced(Sold(Funded, sell, p))
    BY <1>1, InvBalanced, InvFunded, SaleBalances
  <2>2. Sold(Funded, sell, p) \in Ledgers
    BY <2>1 DEF Balanced
  <2> QED
    BY <1>1, <2>1, <2>2, BuyBalances DEF Trade
<1>3. bar' \in 0..NBars /\ price' \in Nat /\ reg' \in Registers
  BY <1>1, Numbers DEF Inv, TypeOK, Trade
<1>4. ath' \in Nat
  BY HighTyped DEF Trade
<1>5. day' \in 0..(CycleLength - 1)
  <2>1. (day + 1) % CycleLength \in 0..(CycleLength - 1) /\ 0 \in 0..(CycleLength - 1)
    BY Numbers DEF Inv, TypeOK
  <2> QED
    BY <2>1 DEF Trade, NextDays
<1>6. episode' \in Episodes /\ EpisodeOrdered'
  BY EpisodeTyped DEF Trade, EpisodeOrdered
<1>7. policy' \in Policies /\ model' \in Models
  BY DEF Inv, TypeOK, Trade
<1> QED
  BY <1>2, <1>3, <1>4, <1>5, <1>6, <1>7 DEF Inv, TypeOK, BooksBalance, Balanced

\* The registers a bar starts with, and those that have seen its high.
LEMMA RegisterTyped ==
  ASSUME Inv, NEW h \in Prices
  PROVE  reg \in Registers /\ Seen(h) \in Registers
<1>1. reg \in Registers
  BY DEF Inv, TypeOK
<1>2. AtLeast(High(h), reg.top) \in Nat
  BY <1>1, HighTyped DEF AtLeast, Registers
<1> QED
  BY <1>1, <1>2 DEF Seen, Registers

-----------------------------------------------------------------------------
(***************************************************************************)
(* The arms.                                                               *)
(***************************************************************************)

LEMMA FlatKeeps ==
  ASSUME Inv, NEW p \in Prices, NEW h \in Prices, FlatBar(p, h) PROVE Inv'
<1>1. BaseDeploy \in Int /\ 0 \in Int /\ reg \in Registers
  BY BaseDeployTyped, RegisterTyped
<1> QED
  BY <1>1, TradeKeeps DEF FlatBar

\* A slice of the units held is a number of units.
LEMMA SliceTyped == ASSUME Inv PROVE \A x \in Nat : Percent(x, Funded.units) \in Nat
<1>1. Funded.units \in Nat
  BY InvFunded
<1>2. \A x, held \in Nat : Percent(x, held) \in Nat
  BY PercentNat
<1> QED
  BY <1>1, <1>2

LEMMA WeightedKeeps ==
  ASSUME Inv, NEW p \in Prices, NEW h \in Prices, WeightedBar(p, h) PROVE Inv'
<1> DEFINE draw   == Drawdown(p, High(h))
           gain   == (100 - Weighted.floor) * draw
           conf   == AtMost(Weighted.floor + gain \div Weighted.ddRef, 100)
           drive  == Weighted.kBuy * BuyIntensity * conf
           deploy == Clamp(drive \div 10000)
           buy    == Percent(deploy, Funded.cash)
           press(place) == Weighted.kSell * SellIntensity * place
           share(place) == Clamp(press(place) \div 10000)
           sell(place)  == Percent(share(place), Funded.units)
<1>1. draw \in Int
  BY Numbers, HighTyped, DrawdownTyped
<1>2. gain \in Int
  <2> HIDE DEF draw
  <2> QED
    BY <1>1, WeightedNumbers
<1>3. conf \in Int
  <2> HIDE DEF gain
  <2>1. gain \div Weighted.ddRef \in Int
    BY <1>2, WeightedNumbers, QuotientInt
  <2> QED
    BY <2>1, WeightedNumbers DEF AtMost
<1>4. drive \in Int
  <2> HIDE DEF conf
  <2> QED
    BY <1>3, WeightedNumbers, IntensitiesTyped
<1>5. deploy \in Nat
  <2> HIDE DEF drive
  <2>1. drive \div 10000 \in Int
    BY <1>4
  <2> QED
    BY <2>1, ClampTyped
<1>6. buy \in Nat
  <2> HIDE DEF deploy
  <2> QED
    BY <1>5, InvFunded, PercentNat
<1>7. ASSUME NEW place \in {0, 50, 100} PROVE sell(place) \in Nat
  <2>1. place \in Nat
    OBVIOUS
  <2>2. press(place) \in Int
    BY <2>1, WeightedNumbers, IntensitiesTyped
  <2> HIDE DEF press
  <2>3. press(place) \div 10000 \in Int
    BY <2>2
  <2>4. share(place) \in Nat
    BY <2>3, ClampTyped
  <2> HIDE DEF share
  <2> QED
    BY <2>4, SliceTyped
<1>8. \/ Trade(p, h, buy, 0, reg)
      \/ \E place \in {0, 50, 100} : Trade(p, h, buy, sell(place), reg)
  BY DEF WeightedBar
<1> HIDE DEF buy, sell
<1> QED
  BY <1>6, <1>7, <1>8, RegisterTyped, TradeKeeps

\* What the hunter sells.
LEMMA HunterSaleTyped ==
  ASSUME Inv, NEW r \in Registers
  PROVE  HunterSale(r) \in Nat
<1> DEFINE slice == Percent(Hunter.kSell, r.start)
           all   == Percent(Hunter.cap, r.start)
<1>1. r.start \in Nat /\ r.sold \in Nat
  BY DEF Registers
<1>2. slice \in Nat
  BY <1>1, HunterNumbers, PercentNat
<1>3. all \in Nat
  BY <1>1, HunterNumbers, PercentNat
<1>4. AtMost(AtMost(slice, AtLeast(all - r.sold, 0)), Funded.units) \in Nat
  <2> HIDE DEF slice, all
  <2> QED
    BY <1>1, <1>2, <1>3, InvFunded DEF AtMost, AtLeast
<1> QED
  BY <1>4 DEF HunterSale

LEMMA HunterSellsKeeps ==
  ASSUME Inv, NEW p \in Prices, NEW h \in Prices, NEW r \in Registers, HunterSells(p, h, r)
  PROVE  Inv'
<1>1. HunterSale(r) \in Nat
  BY HunterSaleTyped
<1>2. [r EXCEPT !.sold = @ + HunterSale(r)] \in Registers
  BY <1>1 DEF Registers
<1> QED
  BY <1>1, <1>2, TradeKeeps DEF HunterSells

LEMMA HunterAccumulatesKeeps ==
  ASSUME Inv, NEW p \in Prices, NEW h \in Prices, HunterAccumulates(p, h) PROVE Inv'
<1> DEFINE r == [Seen(h) EXCEPT !.phase = "DISTRIBUTE", !.start = Funded.units, !.sold = 0]
<1>1. r \in Registers
  BY RegisterTyped, InvFunded DEF Registers, Phases
<1>2. HunterSells(p, h, r) \/ Trade(p, h, BaseDeploy, 0, Seen(h))
  BY DEF HunterAccumulates
<1> HIDE DEF r
<1> QED
  BY <1>1, <1>2, HunterSellsKeeps, RegisterTyped, BaseDeployTyped, TradeKeeps

LEMMA HunterDistributesKeeps ==
  ASSUME Inv, NEW p \in Prices, NEW h \in Prices, HunterDistributes(p, h) PROVE Inv'
<1> DEFINE r == [Seen(h) EXCEPT !.phase = "COOLDOWN", !.until = CooldownEnd(reg)]
<1>1. CooldownEnd(reg) \in Nat
  BY HunterNumbers, Numbers DEF CooldownEnd, Inv, TypeOK
<1>2. r \in Registers
  BY <1>1, RegisterTyped DEF Registers, Phases
<1>3. HunterSells(p, h, Seen(h)) \/ Trade(p, h, 0, 0, r)
  BY DEF HunterDistributes
<1> HIDE DEF r
<1> QED
  BY <1>2, <1>3, HunterSellsKeeps, RegisterTyped, TradeKeeps

LEMMA BearDeployTyped ==
  ASSUME Inv, NEW p \in Prices, NEW r \in Registers, r.top \in Nat \ {0}, NEW bull \in BOOLEAN
  PROVE  BearDeploy(p, r, bull) \in Nat
<1> DEFINE draw  == Drawdown(p, r.top)
           depth == Clamp((draw * 100) \div Hunter.ddRef)
           drive == Hunter.kBear * depth * BuyIntensity
           rate  == Hunter.floor + drive \div 10000
           share == Clamp(IF bull THEN (rate * 125) \div 100 ELSE rate)
<1>1. draw \in Int
  BY Numbers, DrawdownTyped
<1>2. depth \in Int
  <2> HIDE DEF draw
  <2>1. draw * 100 \in Int
    BY <1>1
  <2>2. (draw * 100) \div Hunter.ddRef \in Int
    BY <2>1, HunterNumbers, QuotientInt
  <2> QED
    BY <2>2, ClampTyped
<1>3. drive \in Int
  <2> HIDE DEF depth
  <2> QED
    BY <1>2, HunterNumbers, IntensitiesTyped
<1>4. rate \in Int
  <2> HIDE DEF drive
  <2> QED
    BY <1>3, HunterNumbers
<1>5. share \in Nat
  <2> HIDE DEF rate
  <2>1. (IF bull THEN (rate * 125) \div 100 ELSE rate) \in Int
    BY <1>4
  <2> QED
    BY <2>1, ClampTyped
<1>6. Percent(share, Funded.cash) \in Nat
  <2> HIDE DEF share
  <2> QED
    BY <1>5, InvFunded, PercentNat
<1> QED
  BY <1>6 DEF BearDeploy

LEMMA HunterWaitsKeeps ==
  ASSUME Inv, NEW p \in Prices, NEW h \in Prices, HunterWaitsOrBuys(p, h) PROVE Inv'
<1> DEFINE r    == Seen(h)
           bear == [r EXCEPT !.phase = "BEAR_ACCUMULATE"]
           base == [r EXCEPT !.phase = "ACCUMULATE_BASE"]
<1>1. r \in Registers /\ bear \in Registers /\ base \in Registers
  BY RegisterTyped DEF Registers, Phases
<1>2. r.top \in Nat \ {0}
  <2>1. reg.top \in Nat
    BY RegisterTyped DEF Registers
  <2>2. r.top = AtLeast(High(h), reg.top)
    BY RegisterTyped DEF Seen, Registers
  <2> QED
    BY <2>1, <2>2, HighTyped DEF AtLeast
<1>3. \/ \E bull \in BOOLEAN : Trade(p, h, BearDeploy(p, r, bull), 0, bear)
      \/ Trade(p, h, BaseDeploy, 0, base)
  BY DEF HunterWaitsOrBuys
<1> HIDE DEF r, bear, base
<1>4. \A bull \in BOOLEAN : BearDeploy(p, r, bull) \in Int
  BY <1>1, <1>2, BearDeployTyped
<1> QED
  BY <1>1, <1>3, <1>4, BaseDeployTyped, TradeKeeps

LEMMA HunterCoolsKeeps ==
  ASSUME Inv, NEW p \in Prices, NEW h \in Prices, HunterCools(p, h) PROVE Inv'
  BY HunterWaitsKeeps, RegisterTyped, TradeKeeps DEF HunterCools

\* A part of what is left of the stack above the core.
LEMMA RotationSellsShape ==
  ASSUME Inv, NEW p \in Prices, NEW h \in Prices, NEW r \in Registers, RotationSells(p, h, r)
  PROVE  \E sell \in Nat : /\ sell <= AtLeast(Funded.units - CoreOf(r), 0)
                           /\ Trade(p, h, 0, sell, r)
<1> DEFINE rate  == Clamp(Percent(Rotation.kSell, (SellIntensity * SellIntensity) \div 100))
           spare == AtLeast(Funded.units - CoreOf(r), 0)
<1>1. rate \in Nat /\ rate <= 100
  <2> DEFINE square == (SellIntensity * SellIntensity) \div 100
  <2>1. square \in Nat
    BY IntensitiesTyped, ProductNat, QuotientNat
  <2> HIDE DEF square
  <2>2. Percent(Rotation.kSell, square) \in Nat
    BY <2>1, RotationNumbers, PercentNat
  <2> QED
    BY <2>2, ClampTyped DEF square
<1>2. spare \in Nat
  <2>1. r.start \in Nat
    BY DEF Registers
  <2>2. Percent(Rotation.fraction, r.start) \in Nat
    BY <2>1, RotationNumbers, PercentNat
  <2> QED
    BY <2>1, <2>2, InvFunded DEF CoreOf, AtLeast
<1>3. Trade(p, h, 0, Percent(rate, spare), r)
  BY DEF RotationSells
<1>4. Percent(rate, spare) \in Nat /\ Percent(rate, spare) <= spare
  <2> HIDE DEF rate, spare
  <2> QED
    BY <1>1, <1>2, PercentAtMost
<1> QED
  BY <1>3, <1>4

LEMMA RotationSellsKeeps ==
  ASSUME Inv, NEW p \in Prices, NEW h \in Prices, NEW r \in Registers, RotationSells(p, h, r)
  PROVE  Inv'
  BY RotationSellsShape, TradeKeeps

LEMMA RotationBuysShape ==
  ASSUME Inv, NEW p \in Prices, NEW h \in Prices, NEW r \in Registers, RotationBuys(p, h, r)
  PROVE  \E buy \in Int : Trade(p, h, buy, 0, r)
<1> DEFINE span  == r.zone - r.target
           gap   == (r.zone - p) * 100
           depth == IF span > 0 THEN Clamp(gap \div span) ELSE 100
           rate  == Clamp(Percent(Rotation.kDeploy, Rotation.floor + depth))
           buy   == IF p > r.zone THEN 0 ELSE Percent(rate, Funded.cash)
<1>1. span \in Int /\ gap \in Int
  BY Numbers DEF Registers
<1>2. depth \in Nat
  <2> HIDE DEF span, gap
  <2>1. CASE span > 0
    <3>1. gap \div span \in Int
      BY <1>1, <2>1, QuotientInt
    <3> QED
      BY <2>1, <3>1, ClampTyped
  <2> QED
    BY <2>1
<1>3. rate \in Nat
  <2> HIDE DEF depth
  <2>1. Rotation.floor + depth \in Nat
    BY <1>2, RotationNumbers
  <2>2. Percent(Rotation.kDeploy, Rotation.floor + depth) \in Nat
    BY <2>1, RotationNumbers, PercentNat
  <2> QED
    BY <2>2, ClampTyped
<1>4. Percent(rate, Funded.cash) \in Nat
  <2> HIDE DEF rate
  <2> QED
    BY <1>3, InvFunded, PercentNat
<1>5. buy \in Int
  <2> HIDE DEF rate
  <2> QED
    BY <1>4
<1>6. Trade(p, h, buy, 0, r)
  BY DEF RotationBuys
<1> HIDE DEF buy
<1> QED
  BY <1>5, <1>6

LEMMA RotationBuysKeeps ==
  ASSUME Inv, NEW p \in Prices, NEW h \in Prices, NEW r \in Registers, RotationBuys(p, h, r)
  PROVE  Inv'
  BY RotationBuysShape, TradeKeeps

LEMMA RotationResumesKeeps ==
  ASSUME Inv, NEW p \in Prices, NEW h \in Prices, NEW r \in Registers, RotationResumes(p, h, r)
  PROVE  Inv'
<1> DEFINE held == [r EXCEPT !.phase = "HOLD_CORE"]
<1>1. held \in Registers
  BY DEF Registers, Phases
<1>2. Trade(p, h, BaseDeploy, 0, held)
  BY DEF RotationResumes
<1> HIDE DEF held
<1> QED
  BY <1>1, <1>2, BaseDeployTyped, TradeKeeps

LEMMA RotationHoldsKeeps ==
  ASSUME Inv, NEW p \in Prices, NEW h \in Prices, RotationHolds(p, h) PROVE Inv'
<1> DEFINE r == [reg EXCEPT !.phase = "DISTRIBUTE", !.start = Funded.units]
<1>1. r \in Registers
  BY RegisterTyped, InvFunded DEF Registers, Phases
<1>2. RotationSells(p, h, r) \/ RotationResumes(p, h, reg)
  BY DEF RotationHolds
<1> HIDE DEF r
<1> QED
  BY <1>1, <1>2, RotationSellsKeeps, RotationResumesKeeps, RegisterTyped

LEMMA ExpectedDropTyped == ASSUME Inv PROVE ExpectedDrop \in Int
  BY RotationNumbers DEF Inv, TypeOK, Episodes, ExpectedDrop, NoDrop, AtLeast

\* The registers of a plan to buy back.
LEMMA PlannedTyped ==
  ASSUME NEW r \in Registers, NEW top \in Nat, NEW p \in Nat, NEW target \in Int, NEW zone \in Int
  PROVE  [r EXCEPT !.phase = "DEPLOY", !.top = top, !.trough = p, !.target = target,
                   !.zone = zone] \in Registers
<1> DEFINE a == [r EXCEPT !.phase = "DEPLOY", !.top = top, !.trough = p]
           b == [a EXCEPT !.target = target, !.zone = zone]
<1>1. a \in Registers
  BY DEF Registers, Phases
<1>2. b \in Registers
  <2> HIDE DEF a
  <2> QED
    BY <1>1 DEF Registers
<1>3. b = [r EXCEPT !.phase = "DEPLOY", !.top = top, !.trough = p, !.target = target,
                    !.zone = zone]
  OBVIOUS
<1> HIDE DEF b
<1> QED
  BY <1>2, <1>3

\* The registers with the plan made when the top is confirmed.
DeployPlan(p, h) ==
  [reg EXCEPT !.phase = "DEPLOY", !.top = High(h), !.trough = p,
              !.target = Percent(100 - ExpectedDrop, High(h)),
              !.zone = ((10000 - ExpectedDrop * Rotation.zone) * High(h)) \div 10000]

LEMMA DeployPlanTyped ==
  ASSUME Inv, NEW p \in Prices, NEW h \in Prices
  PROVE  DeployPlan(p, h) \in Registers
<1> DEFINE drop   == ExpectedDrop
           top    == High(h)
           target == Percent(100 - drop, top)
           share  == (10000 - drop * Rotation.zone) * top
           zone   == share \div 10000
<1>1. drop \in Int /\ top \in Nat
  BY ExpectedDropTyped, HighTyped
<1>2. target \in Int
  <2> HIDE DEF drop, top
  <2>1. (100 - drop) * top \in Int
    BY <1>1
  <2> QED
    BY <2>1, QuotientInt DEF Percent
<1>3. share \in Int
  <2> HIDE DEF drop, top
  <2>1. drop * Rotation.zone \in Int
    BY <1>1, RotationNumbers
  <2> QED
    BY <1>1, <2>1
<1>4. zone \in Int /\ p \in Nat
  <2> HIDE DEF share
  <2> QED
    BY <1>3, Numbers
<1>5. [reg EXCEPT !.phase = "DEPLOY", !.top = top, !.trough = p, !.target = target,
                  !.zone = zone] \in Registers
  <2> HIDE DEF top, target, zone
  <2> QED
    BY <1>1, <1>2, <1>4, RegisterTyped, PlannedTyped
<1> QED
  BY <1>5 DEF DeployPlan

LEMMA RotationDistributesShape ==
  ASSUME NEW p, NEW h, RotationDistributes(p, h)
  PROVE  \/ RotationSells(p, h, reg)
         \/ RotationResumes(p, h, reg)
         \/ RotationBuys(p, h, DeployPlan(p, h))
  BY DEF RotationDistributes, DeployPlan

LEMMA RotationDistributesKeeps ==
  ASSUME Inv, NEW p \in Prices, NEW h \in Prices, RotationDistributes(p, h) PROVE Inv'
  BY RotationDistributesShape, DeployPlanTyped, RegisterTyped,
     RotationSellsKeeps, RotationResumesKeeps, RotationBuysKeeps

LEMMA RotationDeploysKeeps ==
  ASSUME Inv, NEW p \in Prices, NEW h \in Prices, RotationDeploys(p, h) PROVE Inv'
<1> DEFINE r == [reg EXCEPT !.trough = AtMost(p, reg.trough)]
<1>1. AtMost(p, reg.trough) \in Nat
  BY Numbers, RegisterTyped DEF AtMost, Registers
<1>2. r \in Registers
  BY <1>1, RegisterTyped DEF Registers
<1>3. RotationResumes(p, h, r) \/ RotationBuys(p, h, r)
  BY DEF RotationDeploys
<1> HIDE DEF r
<1> QED
  BY <1>2, <1>3, RotationResumesKeeps, RotationBuysKeeps

\* The largest position, and a sale of what is above the core of it.
GridMost == AtLeast(Funded.units, reg.most)

LEMMA GridShape ==
  ASSUME Inv, NEW p \in Prices, NEW h \in Prices, GridBar(p, h)
  PROVE  /\ GridMost \in Nat
         /\ [reg EXCEPT !.most = GridMost] \in Registers
         /\ \E buy, sell \in Nat : /\ sell <= AtLeast(Funded.units - GridCore(GridMost), 0)
                                  /\ Trade(p, h, buy, sell, [reg EXCEPT !.most = GridMost])
<1> DEFINE l        == Funded
           most     == AtLeast(l.units, reg.most)
           sellable == AtLeast(l.units - GridCore(most), 0)
           draw     == Drawdown(p, High(h))
           deploy   == Grid.base + (Grid.dipGain * draw) \div Grid.ddRef
           r        == [reg EXCEPT !.most = most]
           trim(euphoric) == IF euphoric THEN 2 * Grid.trim ELSE Grid.trim
           part(euphoric) == Percent(trim(euphoric), sellable)
           above == l.basis > 0 /\ 100 * p * l.units >= l.basis * (100 + Grid.step)
           sell(up, place, euphoric) ==
             IF above /\ up /\ place >= Grid.posHi THEN AtMost(part(euphoric), sellable) ELSE 0
           rate(bull)   == Clamp(IF bull THEN (deploy * 125) \div 100 ELSE deploy)
           freed(sold)  == Percent(100 - Cost, sold * p)
           buy(bull, sold) == Percent(rate(bull), l.cash + freed(sold))
<1>1. PICK up, bull, euphoric \in BOOLEAN, place \in {0, 100} :
        Trade(p, h, buy(bull, sell(up, place, euphoric)), sell(up, place, euphoric), r)
  BY DEF GridBar
<1>2. most \in Nat
  BY InvFunded, RegisterTyped DEF AtLeast, Registers
<1>3. sellable \in Nat
  <2> HIDE DEF most
  <2>0. 100 - Grid.core \in Nat
    BY GridNumbers
  <2>1. Percent(100 - Grid.core, most) \in Nat
    BY <2>0, <1>2, PercentNat
  <2> QED
    BY <1>2, <2>1, InvFunded DEF GridCore, AtLeast
<1>4. deploy \in Int
  <2>1. draw \in Int
    BY Numbers, HighTyped, DrawdownTyped
  <2> HIDE DEF draw
  <2>2. Grid.dipGain * draw \in Int
    BY <2>1, GridNumbers
  <2>3. (Grid.dipGain * draw) \div Grid.ddRef \in Int
    BY <2>2, GridNumbers, QuotientInt
  <2> QED
    BY <2>3, GridNumbers
<1>5. sell(up, place, euphoric) \in Nat /\ sell(up, place, euphoric) <= sellable
  <2>1. trim(euphoric) \in Nat
    BY GridNumbers
  <2> HIDE DEF trim, sellable
  <2>2. part(euphoric) \in Nat
    BY <1>3, <2>1, PercentNat
  <2> HIDE DEF part, above
  <2> QED
    BY <1>3, <2>2 DEF AtMost
<1>6. rate(bull) \in Nat
  <2> HIDE DEF deploy
  <2>1. (IF bull THEN (deploy * 125) \div 100 ELSE deploy) \in Int
    BY <1>4
  <2> QED
    BY <2>1, ClampTyped
<1>7. buy(bull, sell(up, place, euphoric)) \in Nat
  <2> DEFINE sold == sell(up, place, euphoric)
             cash == l.cash + freed(sold)
  <2>1. sold \in Nat
    BY <1>5
  <2> HIDE DEF sold
  <2>2. 100 - Cost \in Nat /\ sold * p \in Nat
    BY <2>1, Numbers, ProductNat
  <2>3. freed(sold) \in Nat
    BY <2>2, PercentNat
  <2> HIDE DEF freed
  <2>4. cash \in Nat
    BY <2>3, InvFunded
  <2> HIDE DEF cash, rate
  <2>5. Percent(rate(bull), cash) \in Nat
    BY <1>6, <2>4, PercentNat
  <2> QED
    BY <2>5 DEF cash, sold
<1>8. r \in Registers
  <2> HIDE DEF most
  <2> QED
    BY <1>2, RegisterTyped DEF Registers
<1>9. sellable = AtLeast(Funded.units - GridCore(GridMost), 0)
      /\ most = GridMost /\ r = [reg EXCEPT !.most = GridMost]
  BY DEF GridMost
<1> HIDE DEF sell, buy, r, most, sellable
<1> QED
  BY <1>1, <1>2, <1>5, <1>7, <1>8, <1>9

LEMMA GridKeeps ==
  ASSUME Inv, NEW p \in Prices, NEW h \in Prices, GridBar(p, h) PROVE Inv'
<1> DEFINE r == [reg EXCEPT !.most = GridMost]
<1>1. r \in Registers /\ \E buy, sell \in Nat : Trade(p, h, buy, sell, r)
  BY GridShape
<1> HIDE DEF r
<1> QED
  BY <1>1, TradeKeeps

-----------------------------------------------------------------------------
(***************************************************************************)
(* The theorems.                                                           *)
(***************************************************************************)

LEMMA InitInv == Init => Inv
<1> SUFFICES ASSUME Init PROVE Inv
  OBVIOUS
<1>1. ledger \in Ledgers /\ BooksBalance
  BY Numbers DEF Init, Ledgers, BooksBalance
<1>2. reg \in Registers
  BY DEF Init, Registers, Phases, FirstPhase
<1>3. episode \in Episodes /\ EpisodeOrdered
  BY DEF Init, Episodes, EpisodeOrdered, NoDrop
<1> QED
  BY <1>1, <1>2, <1>3, Numbers DEF Init, Inv, TypeOK

LEMMA NextInv == Inv /\ [Next]_vars => Inv'
<1> SUFFICES ASSUME Inv, [Next]_vars PROVE Inv'
  OBVIOUS
<1>1. CASE UNCHANGED vars
  BY <1>1 DEF vars, Inv, TypeOK, BooksBalance, EpisodeOrdered
<1>2. ASSUME NEW p \in Prices, NEW h \in Prices, Bar(p, h) PROVE Inv'
  <2>1. CASE FlatBar(p, h)             BY <2>1, FlatKeeps
  <2>2. CASE WeightedBar(p, h)         BY <2>2, WeightedKeeps
  <2>3. CASE HunterAccumulates(p, h)   BY <2>3, HunterAccumulatesKeeps
  <2>4. CASE HunterDistributes(p, h)   BY <2>4, HunterDistributesKeeps
  <2>5. CASE HunterCools(p, h)         BY <2>5, HunterCoolsKeeps
  <2>6. CASE HunterBear(p, h)          BY <2>6, HunterWaitsKeeps DEF HunterBear
  <2>7. CASE RotationHolds(p, h)       BY <2>7, RotationHoldsKeeps
  <2>8. CASE RotationDistributes(p, h) BY <2>8, RotationDistributesKeeps
  <2>9. CASE RotationDeploys(p, h)     BY <2>9, RotationDeploysKeeps
  <2>10. CASE GridBar(p, h)            BY <2>10, GridKeeps
  <2> QED
    BY <1>2, <2>1, <2>2, <2>3, <2>4, <2>5, <2>6, <2>7, <2>8, <2>9, <2>10 DEF Bar
<1> QED
  BY <1>1, <1>2 DEF Next

LEMMA Invariance == Spec => []Inv
<1> QED
  BY InitInv, NextInv, PTL DEF Spec

\* Whatever an arm asks for, the ledger never spends cash or sells units it does not
\* have, and the registers stay what the policies take them for
\* (AccumulationLedger.buy, sell).
THEOREM Typed == Spec => []TypeOK
<1>1. Inv => TypeOK
  BY DEF Inv
<1> QED
  BY <1>1, Invariance, PTL

\* Cash and the cost of the units held are what was paid in and realized, for every
\* arm and every path of prices (accumulation.py:35-43).
THEOREM Books == Spec => []BooksBalance
<1>1. Inv => BooksBalance
  BY DEF Inv
<1> QED
  BY <1>1, Invariance, PTL

-----------------------------------------------------------------------------
(***************************************************************************)
(* The core, and the top.                                                  *)
(***************************************************************************)

\* A bar that buys nothing takes out the units it sells and no cash.
LEMMA TradeUnits ==
  ASSUME Inv, NEW p \in Prices, NEW h \in Prices, NEW buy \in Int, NEW sell \in Nat,
         NEW r, Trade(p, h, buy, sell, r), sell <= ledger.units
  PROVE  /\ ledger'.units \in Nat /\ ledger'.units >= ledger.units - sell
         /\ buy = 0 => ledger'.units = ledger.units - sell /\ ledger'.cash >= ledger.cash
<1> DEFINE after == Sold(Funded, sell, p)
<1>1. /\ Funded.units = ledger.units /\ Funded.cash >= ledger.cash
      /\ ledger.units \in Nat /\ ledger.cash \in Nat
  BY Numbers DEF Funded, Inv, TypeOK, Ledgers
<1>2. p \in Nat \ {0}
  BY Numbers
<1>3. after \in Ledgers /\ Balanced(after)
  <2>1. Balanced(Sold(Funded, sell, p))
    BY <1>2, InvBalanced, InvFunded, SaleBalances
  <2> QED
    BY <2>1 DEF Balanced
<1>4. after.units = ledger.units - sell /\ after.cash >= ledger.cash
  <2>1. AtMost(sell, Funded.units) = sell
    BY <1>1 DEF AtMost
  <2>2. CASE sell = 0
    BY <1>1, <2>1, <2>2 DEF Sold
  <2>3. CASE sell # 0
    <3> DEFINE proceeds == Percent(100 - Cost, sell * p)
               removed  == (Funded.basis * sell) \div Funded.units
    <3>1. 100 - Cost \in Nat /\ sell * p \in Nat
      BY <1>2, Numbers, ProductNat
    <3>2. proceeds \in Nat
      BY <3>1, PercentNat
    <3>3. after = [Funded EXCEPT !.units = @ - sell, !.cash = @ + proceeds,
                                 !.basis = @ - removed, !.realized = @ + proceeds - removed]
      BY <2>1, <2>3 DEF Sold
    <3> HIDE DEF proceeds, removed, after
    <3>4. after.units = Funded.units - sell /\ after.cash = Funded.cash + proceeds
      BY <3>3, InvFunded DEF Ledgers
    <3> QED
      BY <1>1, <3>2, <3>4, InvFunded
  <2> QED
    BY <2>2, <2>3
<1> HIDE DEF after
<1>5. ledger' = Bought(after, buy, p)
  BY DEF Trade, after
<1>6. CASE buy = 0
  <2>1. ledger' = after
    BY <1>3, <1>5, <1>6 DEF Bought, AtMost, Ledgers
  <2> QED
    BY <1>1, <1>3, <1>4, <2>1 DEF Ledgers
<1>7. CASE buy # 0
  <2> DEFINE spent == AtMost(buy, after.cash)
             got   == (spent * 100) \div (p * (100 + Cost))
  <2>1. CASE spent <= 0
    <3>1. ledger' = after
      BY <1>5, <2>1 DEF Bought
    <3> QED
      BY <1>1, <1>3, <1>4, <1>7, <3>1 DEF Ledgers
  <2>2. CASE ~(spent <= 0)
    <3>1. spent * 100 \in Nat
      BY <1>3, <2>2 DEF AtMost, Ledgers
    <3>2. p * (100 + Cost) \in Nat \ {0}
      <4>1. 100 + Cost \in Nat \ {0}
        BY Numbers
      <4> QED
        BY <1>2, <4>1
    <3>3. got \in Nat
      BY <3>1, <3>2, QuotientNat
    <3>4. ledger' = [after EXCEPT !.units = @ + got, !.cash = @ - spent, !.basis = @ + spent]
      BY <1>5, <2>2 DEF Bought
    <3> HIDE DEF got, spent
    <3>5. ledger'.units = after.units + got
      BY <1>3, <3>4 DEF Ledgers
    <3> QED
      BY <1>1, <1>3, <1>4, <1>7, <3>3, <3>5 DEF Ledgers
  <2> QED
    BY <2>1, <2>2
<1> QED
  BY <1>6, <1>7

\* What each arm keeps, without the rounding of percentages.
HunterCore ==
  policy = "hunter" /\ reg.phase \in {"DISTRIBUTE", "COOLDOWN"} =>
    /\ reg.sold <= Percent(Hunter.cap, reg.start)
    /\ ledger.units + reg.sold = reg.start
RotationCore ==
  policy \in Rotations /\ reg.phase \in {"DISTRIBUTE", "DEPLOY"} => ledger.units >= CoreOf(reg)
GridCoreHeld == policy = "grid" => ledger.units >= GridCore(reg.most)

LEMMA UnitsNat == ASSUME Inv PROVE ledger.units \in Nat /\ Funded.units = ledger.units
  BY DEF Inv, TypeOK, Ledgers, Funded

\* A sale of the hunter stays within the cap, and is counted against it.
LEMMA HunterSellsCore ==
  ASSUME Inv, NEW p \in Prices, NEW h \in Prices, NEW r \in Registers, HunterSells(p, h, r),
         r.sold <= Percent(Hunter.cap, r.start), ledger.units + r.sold = r.start
  PROVE  HunterCore' /\ ledger'.units <= ledger.units /\ ledger'.cash >= ledger.cash
         /\ reg'.phase = r.phase
<1> DEFINE slice == Percent(Hunter.kSell, r.start)
           all   == Percent(Hunter.cap, r.start)
           n     == HunterSale(r)
<1>1. r.start \in Nat /\ r.sold \in Nat
  BY DEF Registers
<1>2. slice \in Nat
  BY <1>1, HunterNumbers, PercentNat
<1>3. all \in Nat
  BY <1>1, HunterNumbers, PercentNat
<1>4. n \in Nat /\ n <= all - r.sold /\ n <= ledger.units
  <2> HIDE DEF slice, all
  <2>1. n = AtMost(AtMost(slice, AtLeast(all - r.sold, 0)), Funded.units)
    BY DEF HunterSale, slice, all
  <2>2. r.sold <= all
    BY DEF all
  <2> HIDE DEF n
  <2> QED
    BY <1>1, <1>2, <1>3, <2>1, <2>2, UnitsNat DEF AtMost, AtLeast
<1> HIDE DEF slice, n
<1>5. Trade(p, h, 0, n, [r EXCEPT !.sold = @ + n])
  BY DEF HunterSells, n
<1>6. ledger'.units = ledger.units - n /\ ledger'.cash >= ledger.cash
  BY <1>4, <1>5, TradeUnits
<1>7. reg' = [r EXCEPT !.sold = @ + n]
  BY <1>5 DEF Trade
<1>8. reg'.start = r.start /\ reg'.sold = r.sold + n /\ reg'.phase = r.phase
  BY <1>7 DEF Registers
<1>9. reg'.sold <= all /\ ledger'.units + reg'.sold = reg'.start /\ ledger'.units <= ledger.units
  <2> HIDE DEF all
  <2> QED
    BY <1>1, <1>3, <1>4, <1>6, <1>8, UnitsNat
<1> QED
  BY <1>6, <1>8, <1>9 DEF HunterCore

\* What a bar of the hunter at a top does to the stack and the cash.
Withheld == ledger'.units <= ledger.units /\ ledger'.cash >= ledger.cash

LEMMA HunterBars ==
  ASSUME Inv, HunterCore, policy = "hunter", NEW p \in Prices, NEW h \in Prices, Bar(p, h)
  PROVE  /\ HunterCore'
         /\ reg'.phase \in {"DISTRIBUTE", "COOLDOWN"} => Withheld
         /\ reg'.phase = "COOLDOWN" /\ reg.phase = "COOLDOWN" => bar < reg.until
         /\ reg'.phase = "COOLDOWN" => bar <= reg'.until
<1> DEFINE Goal == /\ HunterCore'
                   /\ reg'.phase \in {"DISTRIBUTE", "COOLDOWN"} => Withheld
                   /\ reg'.phase = "COOLDOWN" /\ reg.phase = "COOLDOWN" => bar < reg.until
                   /\ reg'.phase = "COOLDOWN" => bar <= reg'.until
<1>1. /\ reg \in Registers /\ Seen(h) \in Registers
      /\ Seen(h).phase = reg.phase /\ Seen(h).start = reg.start /\ Seen(h).sold = reg.sold
      /\ Seen(h).until = reg.until
  BY RegisterTyped DEF Seen, Registers
<1>2. reg.start \in Nat /\ reg.sold \in Nat /\ reg.until \in Nat /\ bar \in Nat
  BY <1>1 DEF Registers, Inv, TypeOK
<1>3. CASE HunterAccumulates(p, h)
  <2> DEFINE r == [Seen(h) EXCEPT !.phase = "DISTRIBUTE", !.start = Funded.units, !.sold = 0]
  <2>1. CASE HunterSells(p, h, r)
    <3>1. /\ r \in Registers /\ r.sold = 0 /\ r.start = ledger.units /\ r.phase = "DISTRIBUTE"
      BY <1>1, UnitsNat DEF Registers, Phases
    <3> HIDE DEF r
    <3>2. Percent(Hunter.cap, r.start) \in Nat
      BY <3>1, UnitsNat, HunterNumbers, PercentNat
    <3>3. r.sold <= Percent(Hunter.cap, r.start) /\ ledger.units + r.sold = r.start
      BY <3>1, <3>2, UnitsNat
    <3> QED
      BY <2>1, <3>1, <3>3, HunterSellsCore DEF Withheld
  <2>2. CASE Trade(p, h, BaseDeploy, 0, Seen(h)) /\ reg.phase = "ACCUMULATE_BASE"
    <3>1. reg'.phase = "ACCUMULATE_BASE"
      BY <1>1, <2>2 DEF Trade
    <3> QED
      BY <3>1 DEF HunterCore
  <2> QED
    BY <1>3, <2>1, <2>2 DEF HunterAccumulates, InPhase
<1>4. CASE HunterDistributes(p, h)
  <2> DEFINE r == [Seen(h) EXCEPT !.phase = "COOLDOWN", !.until = CooldownEnd(reg)]
  <2>0. /\ reg.phase = "DISTRIBUTE"
        /\ reg.sold <= Percent(Hunter.cap, reg.start) /\ ledger.units + reg.sold = reg.start
    BY <1>4 DEF HunterDistributes, InPhase, HunterCore
  <2>1. CASE HunterSells(p, h, Seen(h))
    <3>1. Seen(h).sold <= Percent(Hunter.cap, Seen(h).start)
          /\ ledger.units + Seen(h).sold = Seen(h).start
      BY <1>1, <2>0
    <3> QED
      BY <1>1, <2>0, <2>1, <3>1, HunterSellsCore DEF Withheld
  <2>2. CASE Trade(p, h, 0, 0, r)
    <3>1. reg' = r /\ Withheld /\ ledger'.units = ledger.units
      BY <2>2, TradeUnits, UnitsNat DEF Trade, Withheld
    <3>2. reg'.start = reg.start /\ reg'.sold = reg.sold /\ reg'.until = bar + Hunter.cooldown
      BY <1>1, <3>1 DEF Registers, CooldownEnd
    <3> HIDE DEF r
    <3> QED
      BY <1>2, <2>0, <3>1, <3>2, HunterNumbers DEF HunterCore
  <2> QED
    BY <1>4, <2>1, <2>2 DEF HunterDistributes
<1>5. ASSUME HunterWaitsOrBuys(p, h) PROVE Goal
  <2>1. reg'.phase \in {"BEAR_ACCUMULATE", "ACCUMULATE_BASE"}
    BY <1>1, <1>5 DEF HunterWaitsOrBuys, Trade, Registers
  <2> QED
    BY <2>1 DEF HunterCore
<1>6. CASE HunterCools(p, h)
  <2>1. CASE Trade(p, h, 0, 0, Seen(h)) /\ reg.phase = "COOLDOWN" /\ ~(bar >= reg.until)
    <3>1. reg' = Seen(h) /\ Withheld /\ ledger'.units = ledger.units
      BY <2>1, TradeUnits, UnitsNat DEF Trade, Withheld
    <3> QED
      BY <1>1, <1>2, <2>1, <3>1 DEF HunterCore
  <2> QED
    BY <1>5, <1>6, <2>1 DEF HunterCools, InPhase
<1>7. CASE HunterBear(p, h)
  BY <1>5, <1>7 DEF HunterBear
<1> QED
  BY <1>3, <1>4, <1>6, <1>7
     DEF Bar, FlatBar, WeightedBar, RotationHolds, RotationDistributes, RotationDeploys,
         GridBar, InPhase, Rotations

LEMMA CoreAtMost ==
  ASSUME NEW r \in Registers
  PROVE  CoreOf(r) \in Nat /\ CoreOf(r) <= r.start
         /\ 100 * CoreOf(r) >= (100 - Rotation.fraction) * r.start
<1>1. r.start \in Nat
  BY DEF Registers
<1> DEFINE start == r.start
<1>2. start \in Nat
  BY <1>1
<1> HIDE DEF start
<1>3. /\ Percent(Rotation.fraction, start) \in Nat
      /\ Percent(Rotation.fraction, start) <= start
      /\ 100 * (start - Percent(Rotation.fraction, start)) >= (100 - Rotation.fraction) * start
  BY <1>2, RotationNumbers, PercentAtMost
<1>4. CoreOf(r) = start - Percent(Rotation.fraction, start)
  BY DEF CoreOf, start
<1>5. /\ CoreOf(r) \in Nat /\ CoreOf(r) <= start
      /\ 100 * CoreOf(r) >= (100 - Rotation.fraction) * start
  BY <1>2, <1>3, <1>4
<1> QED
  BY <1>5 DEF start

LEMMA RotationSellsCore ==
  ASSUME Inv, NEW p \in Prices, NEW h \in Prices, NEW r \in Registers, RotationSells(p, h, r),
         ledger.units >= CoreOf(r)
  PROVE  RotationCore'
<1>1. PICK sell \in Nat : sell <= AtLeast(Funded.units - CoreOf(r), 0) /\ Trade(p, h, 0, sell, r)
  BY RotationSellsShape
<1>2. sell <= ledger.units - CoreOf(r) /\ sell <= ledger.units
  BY <1>1, UnitsNat, CoreAtMost DEF AtLeast
<1>3. ledger'.units = ledger.units - sell
  BY <1>1, <1>2, TradeUnits
<1>4. ledger'.units >= CoreOf(r)
  BY <1>2, <1>3, UnitsNat, CoreAtMost
<1>5. reg' = r
  BY <1>1 DEF Trade
<1> QED
  BY <1>4, <1>5 DEF RotationCore, CoreOf

LEMMA RotationBuysCore ==
  ASSUME Inv, NEW p \in Prices, NEW h \in Prices, NEW r \in Registers, RotationBuys(p, h, r),
         ledger.units >= CoreOf(r)
  PROVE  RotationCore'
<1>1. PICK buy \in Int : Trade(p, h, buy, 0, r)
  BY RotationBuysShape
<1>2. ledger'.units \in Nat /\ ledger'.units >= ledger.units
  BY <1>1, UnitsNat, TradeUnits
<1>3. ledger'.units >= CoreOf(r)
  BY <1>2, UnitsNat, CoreAtMost
<1>4. reg' = r
  BY <1>1 DEF Trade
<1> QED
  BY <1>3, <1>4 DEF RotationCore, CoreOf

LEMMA RotationResumesCore ==
  ASSUME NEW p, NEW h, NEW r \in Registers, RotationResumes(p, h, r)
  PROVE  RotationCore'
<1>1. reg'.phase = "HOLD_CORE"
  BY DEF RotationResumes, Trade, Registers
<1> QED
  BY <1>1 DEF RotationCore

LEMMA RotationBars ==
  ASSUME Inv, RotationCore, policy \in Rotations, NEW p \in Prices, NEW h \in Prices, Bar(p, h)
  PROVE  RotationCore'
<1>1. reg \in Registers
  BY RegisterTyped
<1>2. CASE RotationHolds(p, h)
  <2> DEFINE r == [reg EXCEPT !.phase = "DISTRIBUTE", !.start = Funded.units]
  <2>1. r \in Registers /\ r.start = ledger.units
    BY <1>1, UnitsNat DEF Registers, Phases
  <2>2. RotationSells(p, h, r) \/ RotationResumes(p, h, reg)
    BY <1>2 DEF RotationHolds
  <2> HIDE DEF r
  <2>3. ledger.units >= CoreOf(r)
    BY <2>1, CoreAtMost
  <2> QED
    BY <1>1, <2>1, <2>2, <2>3, RotationSellsCore, RotationResumesCore
<1>3. CASE RotationDistributes(p, h)
  <2> DEFINE r == DeployPlan(p, h)
  <2>1. ledger.units >= CoreOf(reg)
    BY <1>3 DEF RotationDistributes, InPhase, RotationCore
  <2>2. RotationSells(p, h, reg) \/ RotationResumes(p, h, reg) \/ RotationBuys(p, h, r)
    BY <1>3, RotationDistributesShape
  <2>3. r \in Registers
    BY DeployPlanTyped
  <2>4. CoreOf(r) = CoreOf(reg)
    BY <1>1 DEF CoreOf, Registers, DeployPlan
  <2> HIDE DEF r
  <2> QED
    BY <1>1, <2>1, <2>2, <2>3, <2>4, RotationSellsCore, RotationResumesCore, RotationBuysCore
<1>4. CASE RotationDeploys(p, h)
  <2> DEFINE r == [reg EXCEPT !.trough = AtMost(p, reg.trough)]
  <2>1. ledger.units >= CoreOf(reg)
    BY <1>4 DEF RotationDeploys, InPhase, RotationCore
  <2>2. RotationResumes(p, h, r) \/ RotationBuys(p, h, r)
    BY <1>4 DEF RotationDeploys
  <2>3. AtMost(p, reg.trough) \in Nat
    BY <1>1, Numbers DEF AtMost, Registers
  <2>4. r \in Registers /\ CoreOf(r) = CoreOf(reg)
    BY <1>1, <2>3 DEF Registers, CoreOf
  <2> HIDE DEF r
  <2> QED
    BY <2>1, <2>2, <2>4, RotationResumesCore, RotationBuysCore
<1> QED
  BY <1>2, <1>3, <1>4
     DEF Bar, FlatBar, WeightedBar, HunterAccumulates, HunterDistributes, HunterCools, HunterBear,
         GridBar, InPhase, Rotations

LEMMA GridCoreAtMost ==
  ASSUME NEW most \in Nat
  PROVE  GridCore(most) \in Nat /\ GridCore(most) <= most
         /\ 100 * GridCore(most) >= Grid.core * most
<1> DEFINE x == 100 - Grid.core
<1>1. x \in Nat /\ x <= 100 /\ 100 - x = Grid.core
  BY GridNumbers
<1> HIDE DEF x
<1>2. /\ Percent(x, most) \in Nat /\ Percent(x, most) <= most
      /\ 100 * (most - Percent(x, most)) >= (100 - x) * most
  BY <1>1, PercentAtMost
<1>3. GridCore(most) = most - Percent(x, most)
  BY DEF GridCore, x
<1> QED
  BY <1>1, <1>2, <1>3

LEMMA GridBars ==
  ASSUME Inv, GridCoreHeld, policy = "grid", NEW p \in Prices, NEW h \in Prices, Bar(p, h)
  PROVE  GridCoreHeld'
<1>1. GridBar(p, h)
  BY DEF Bar, FlatBar, WeightedBar, HunterAccumulates, HunterDistributes, HunterCools, HunterBear,
         RotationHolds, RotationDistributes, RotationDeploys, InPhase, Rotations
<1> DEFINE r == [reg EXCEPT !.most = GridMost]
<1>2. PICK buy, sell \in Nat :
        sell <= AtLeast(Funded.units - GridCore(GridMost), 0) /\ Trade(p, h, buy, sell, r)
  BY <1>1, GridShape
<1>3. GridMost \in Nat /\ r.most = GridMost
  BY <1>1, GridShape, RegisterTyped DEF Registers
<1> HIDE DEF r
<1>4. ledger.units >= GridCore(GridMost)
  <2>1. GridMost = ledger.units \/ GridMost = reg.most
    BY UnitsNat DEF GridMost, AtLeast
  <2> QED
    BY <1>3, <2>1, UnitsNat, GridCoreAtMost DEF GridCoreHeld
<1>5. sell <= ledger.units - GridCore(GridMost) /\ sell <= ledger.units
  BY <1>2, <1>3, <1>4, UnitsNat, GridCoreAtMost DEF AtLeast
<1>6. ledger'.units \in Nat /\ ledger'.units >= ledger.units - sell
  BY <1>2, <1>5, TradeUnits
<1>7. ledger'.units >= GridCore(GridMost)
  BY <1>3, <1>5, <1>6, UnitsNat, GridCoreAtMost
<1>8. reg'.most = GridMost
  BY <1>2, <1>3 DEF Trade
<1> QED
  BY <1>7, <1>8 DEF GridCoreHeld

\* The invariant with the cores.
CoreInv == Inv /\ HunterCore /\ RotationCore /\ GridCoreHeld

LEMMA InitCore == Init => CoreInv
<1> SUFFICES ASSUME Init PROVE CoreInv
  OBVIOUS
<1>1. Inv
  BY InitInv
<1>2. HunterCore /\ RotationCore
  BY DEF Init, FirstPhase, HunterCore, RotationCore, Rotations
<1>3. GridCoreHeld
  <2>1. ledger.units = 0 /\ reg.most = 0
    BY DEF Init
  <2> QED
    BY <2>1, GridCoreAtMost DEF GridCoreHeld
<1> QED
  BY <1>1, <1>2, <1>3 DEF CoreInv

LEMMA NextCore == CoreInv /\ [Next]_vars => CoreInv'
<1> SUFFICES ASSUME CoreInv, [Next]_vars PROVE CoreInv'
  OBVIOUS
<1>1. Inv /\ Inv'
  BY NextInv DEF CoreInv
<1>2. CASE UNCHANGED vars
  BY <1>1, <1>2 DEF vars, CoreInv, HunterCore, RotationCore, GridCoreHeld, CoreOf
<1>3. ASSUME NEW p \in Prices, NEW h \in Prices, Bar(p, h)
      PROVE  HunterCore' /\ RotationCore' /\ GridCoreHeld'
  <2>1. policy' = policy
    BY <1>3 DEF Bar, FlatBar, WeightedBar, HunterAccumulates, HunterDistributes, HunterCools,
                HunterBear, HunterSells, HunterWaitsOrBuys, RotationHolds, RotationDistributes,
                RotationDeploys, RotationSells, RotationBuys, RotationResumes, GridBar, Trade
  <2> QED
    BY <1>1, <1>3, <2>1, HunterBars, RotationBars, GridBars
       DEF CoreInv, HunterCore, RotationCore, GridCoreHeld
<1> QED
  BY <1>1, <1>2, <1>3 DEF Next, CoreInv

LEMMA CoreInvariance == Spec => []CoreInv
  BY InitCore, NextCore, PTL DEF Spec

LEMMA CoreImplies == CoreInv => CoreKept
<1> SUFFICES ASSUME CoreInv PROVE CoreKept
  OBVIOUS
<1>1. reg \in Registers /\ reg.start \in Nat /\ reg.most \in Nat /\ ledger.units \in Nat
  BY DEF CoreInv, Inv, TypeOK, Registers, Ledgers
<1>2. ASSUME policy = "hunter", reg.phase \in {"DISTRIBUTE", "COOLDOWN"}
      PROVE  100 * ledger.units >= (100 - Hunter.cap) * reg.start
  <2> DEFINE start == reg.start
             all   == Percent(Hunter.cap, start)
  <2>1. reg.sold <= all /\ ledger.units + reg.sold = start /\ start \in Nat /\ reg.sold \in Nat
    BY <1>1, <1>2 DEF CoreInv, HunterCore, Registers
  <2> HIDE DEF start
  <2>2. 100 * (start - all) >= (100 - Hunter.cap) * start /\ all \in Nat
    BY <2>1, HunterNumbers, PercentAtMost
  <2> DEFINE rest == (100 - Hunter.cap) * start
  <2>3. rest \in Int
    BY <2>1, HunterNumbers
  <2> HIDE DEF all, rest
  <2>4. 100 * ledger.units >= rest
    <3>1. 100 * (start - all) >= rest
      BY <2>2 DEF rest
    <3> QED
      BY <1>1, <2>1, <2>2, <2>3, <3>1
  <2> QED
    BY <2>4 DEF rest, start
<1>3. ASSUME policy \in Rotations, reg.phase \in {"DISTRIBUTE", "DEPLOY"}
      PROVE  100 * ledger.units >= (100 - Rotation.fraction) * reg.start
  <2> DEFINE rest == (100 - Rotation.fraction) * reg.start
  <2>1. ledger.units >= CoreOf(reg)
    BY <1>3 DEF CoreInv, RotationCore
  <2>2. 100 * CoreOf(reg) >= rest /\ CoreOf(reg) \in Nat
    BY <1>1, CoreAtMost
  <2>3. rest \in Int
    BY <1>1, RotationNumbers
  <2> HIDE DEF rest
  <2>4. 100 * ledger.units >= rest
    BY <1>1, <2>1, <2>2, <2>3
  <2> QED
    BY <2>4 DEF rest
<1>4. ASSUME policy = "grid" PROVE 100 * ledger.units >= Grid.core * reg.most
  <2> DEFINE rest == Grid.core * reg.most
  <2>1. ledger.units >= GridCore(reg.most)
    BY <1>4 DEF CoreInv, GridCoreHeld
  <2>2. 100 * GridCore(reg.most) >= rest /\ GridCore(reg.most) \in Nat
    BY <1>1, GridCoreAtMost
  <2>3. rest \in Int
    BY <1>1, GridNumbers
  <2> HIDE DEF rest
  <2>4. 100 * ledger.units >= rest
    BY <1>1, <2>1, <2>2, <2>3
  <2> QED
    BY <2>4 DEF rest
<1> QED
  BY <1>2, <1>3, <1>4 DEF CoreKept

\* "never sell more than this fraction of the stack (keep a core)": for every cap,
\* fraction and core, every calendar and every path of prices
\* (accumulation.py:194, 334-369, 475).
THEOREM Core == Spec => []CoreKept
  BY CoreInvariance, CoreImplies, PTL

\* From the confirmed top to the end of its own cool-down the hunter buys nothing
\* (accumulation.py:210).
THEOREM NothingAtTheTop == Spec => NoBuyingAtTheTop
<1> DEFINE A == policy = "hunter" /\ reg'.phase \in {"DISTRIBUTE", "COOLDOWN"}
                  => /\ ledger'.units <= ledger.units
                     /\ ledger'.cash >= ledger.cash
                     /\ reg'.phase = "COOLDOWN" /\ reg.phase = "COOLDOWN" => bar < reg.until
                     /\ reg'.phase = "COOLDOWN" => bar <= reg'.until
<1>1. CoreInv /\ [Next]_vars => [A]_vars
  <2> SUFFICES ASSUME CoreInv, NEW p \in Prices, NEW h \in Prices, Bar(p, h) PROVE A
    BY DEF Next
  <2> QED
    BY HunterBars DEF CoreInv, Withheld
<1> QED
  BY <1>1, CoreInvariance, PTL DEF Spec, NoBuyingAtTheTop

=============================================================================
