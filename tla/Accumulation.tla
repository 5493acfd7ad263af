---------------------------- MODULE Accumulation ----------------------------
(***************************************************************************)
(* The accumulation comparison (domain/backtest/accumulation.py): one run  *)
(* of one arm.  A policy decides at every bar how much cash to deploy and  *)
(* how many units to sell, from the bar, the halving calendar and its own  *)
(* registers; a moving-average ledger executes the sale, then the purchase.*)
(*                                                                         *)
(* Abstractions.  Amounts are integers and fractions are percentages; a    *)
(* division rounds down.  Bars are daily, so that the days of the code are *)
(* counted in bars and the per-day rates are not rescaled; slippage and    *)
(* commission are one percentage, Cost.  The timing is the discrete one    *)
(* (WindowTiming), from a halving on, and sell_sharpness is 2.  Indicators *)
(* (Supertrend, the moving averages, the volatility rank, the place in the *)
(* recent range) are inputs of the bar: their order is whatever the market *)
(* makes it.                                                               *)
(***************************************************************************)
EXTENDS Integers

CONSTANTS
  Policies,     \* the arms: see Arms
  Models,       \* capital models explored: see CapitalModels
  Prices,       \* prices a bar can have
  NBars,        \* bars of the run
  Contribution, \* paid in every Interval days
  Interval,
  Budget,       \* lump_sum_budget
  Cost,         \* of either side of a trade, percent
  CycleLength,  \* CYCLE_LENGTH_DAYS
  Shortest,     \* the fewest days between two known halvings
  Window,       \* the halving windows: CycleParams
  Weighted,     \* CycleWeightedPolicy
  Hunter,       \* CycleHunterParams
  Rotation,     \* CycleRotationParams
  Grid          \* AccumulatorGridParams

Arms == {"flat", "weighted", "weighted_sell", "hunter", "rotation", "rotation_auto", "grid"}
CapitalModels == {"contributions", "lump_sum"}

Percents == 0..100

WindowParams   == [sellStart : Nat, sellEnd : Nat, buyStart : Nat, buyEnd : Nat,
                   ramp : Nat, baseBuy : Percents]
WeightedParams == [kBuy : Percents, kSell : Percents, floor : Percents, ddRef : Nat \ {0}]
HunterParams   == [trigger : Percents, sellHi : Percents, cap : Percents, kSell : Percents,
                   cooldown : Nat, within : Percents, ddRef : Nat \ {0}, kBear : Percents,
                   floor : Percents]
RotationParams == [fraction : Percents, band : Percents, sellHi : Percents, kSell : Percents,
                   drop : Percents, margin : Percents, zone : Percents, kDeploy : Percents,
                   floor : Percents, reentry : Nat]
GridParams     == [base : Percents, dipGain : Nat, ddRef : Nat \ {0}, step : Nat,
                   trim : Percents, posHi : Percents, core : Percents]

ASSUME AccumulationAssumption ==
  /\ Policies \subseteq Arms /\ Models \subseteq CapitalModels
  /\ Prices \subseteq Nat \ {0}
  /\ NBars \in Nat \ {0} /\ Interval \in Nat \ {0} /\ CycleLength \in Nat \ {0}
  /\ Shortest \in 1..CycleLength
  /\ Contribution \in Nat /\ Budget \in Nat /\ Cost \in 0..99
  /\ Window \in WindowParams /\ Weighted \in WeightedParams
  /\ Hunter \in HunterParams /\ Rotation \in RotationParams /\ Grid \in GridParams

VARIABLES
  policy,   \* the arm
  model,    \* its capital model
  bar,      \* bars processed
  day,      \* days since the most recent halving
  price,    \* close of the last bar
  ath,      \* running all-time high
  ledger,   \* AccumulationLedger
  reg,      \* the policy's registers
  episode   \* drawdown_episodes up to the last bar

vars == <<policy, model, bar, day, price, ath, ledger, reg, episode>>

Phases == {"ACCUMULATE_BASE", "DISTRIBUTE", "COOLDOWN", "BEAR_ACCUMULATE",
           "HOLD_CORE", "DEPLOY", "none"}

FirstPhase(p) ==
  CASE p = "hunter" -> "ACCUMULATE_BASE"
    [] p \in {"rotation", "rotation_auto"} -> "HOLD_CORE"
    [] OTHER -> "none"

\* No completed drawdown yet.
NoDrop == -1

Ledgers   == [units : Nat, cash : Nat, contributed : Nat, basis : Nat, realized : Int]
Registers == [phase : Phases, start : Nat, sold : Nat, top : Nat, target : Int, zone : Int,
              trough : Nat, until : Nat, most : Nat]
Episodes  == [peak : Nat, trough : Nat, drop : Int]

Init ==
  /\ policy \in Policies
  /\ model \in Models
  /\ bar = 0 /\ price = 0 /\ ath = 0
  /\ day \in 0..(CycleLength - 1)
  /\ LET paid == IF model = "lump_sum" THEN Budget ELSE 0
     IN  ledger = [units |-> 0, cash |-> paid, contributed |-> paid, basis |-> 0, realized |-> 0]
  /\ reg = [phase |-> FirstPhase(policy), start |-> 0, sold |-> 0, top |-> 0, target |-> 0,
            zone |-> 0, trough |-> 0, until |-> 0, most |-> 0]
  /\ episode = [peak |-> 0, trough |-> 0, drop |-> NoDrop]

-----------------------------------------------------------------------------
(***************************************************************************)
(* The ledger.                                                             *)
(***************************************************************************)

AtMost(x, cap)    == IF x <= cap THEN x ELSE cap
AtLeast(x, floor) == IF x >= floor THEN x ELSE floor
Clamp(x)          == AtMost(AtLeast(x, 0), 100)
Percent(x, of)    == (x * of) \div 100

\* MUnclamped: a purchase larger than the cash.
MUnclamped(l, want, p) ==
  IF want <= 0 THEN l
  ELSE [l EXCEPT !.units = @ + (want * 100) \div (p * (100 + Cost)),
                 !.cash = @ - want, !.basis = @ + want]

\* A purchase spends at most the cash, at the price and its cost.
Bought(l, want, p) ==
  LET spent == AtMost(want, l.cash)
  IN  IF spent <= 0 THEN l
      ELSE [l EXCEPT !.units = @ + (spent * 100) \div (p * (100 + Cost)),
                     !.cash = @ - spent, !.basis = @ + spent]

\* MLifetimeBasis: the cost pool never shrinks.
MLifetimeBasis(l, want, p) ==
  LET n == AtMost(want, l.units)
      proceeds == Percent(100 - Cost, n * p)
  IN  IF n <= 0 THEN l
      ELSE [l EXCEPT !.units = @ - n, !.cash = @ + proceeds,
                     !.realized = @ + proceeds - (l.basis * n) \div l.units]

\* A sale takes at most the units held; it realizes the proceeds over the average
\* cost of the units it takes out of the pool.
Sold(l, want, p) ==
  LET n == AtMost(want, l.units)
      proceeds == Percent(100 - Cost, n * p)
      removed == (l.basis * n) \div l.units
  IN  IF n <= 0 THEN l
      ELSE [l EXCEPT !.units = @ - n, !.cash = @ + proceeds, !.basis = @ - removed,
                     !.realized = @ + proceeds - removed]

\* The ledger once the bar's contribution is paid in.
Funded ==
  IF model = "contributions" /\ bar % Interval = 0
  THEN [ledger EXCEPT !.cash = @ + Contribution, !.contributed = @ + Contribution]
  ELSE ledger

\* What plain DCA deploys at a bar.
BaseDeploy == IF model = "lump_sum" THEN Budget \div NBars ELSE Funded.cash

-----------------------------------------------------------------------------
(***************************************************************************)
(* The halving windows; a window may wrap past the halving.                *)
(***************************************************************************)

\* Days since the window opened; NoDrop outside of it.
DaysInto(d, first, last) ==
  IF first <= last
  THEN IF d \in first..last THEN d - first ELSE -1
  ELSE IF d >= first THEN d - first
       ELSE IF d <= last THEN CycleLength - first + d ELSE -1

Length(first, last) == IF first <= last THEN last - first ELSE CycleLength - first + last

Strength(d, first, last) ==
  LET elapsed == DaysInto(d, first, last)
      remaining == Length(first, last) - elapsed
  IN  IF elapsed = -1 THEN 0
      ELSE IF Window.ramp = 0 THEN 100
      ELSE Clamp((100 * AtMost(elapsed, remaining)) \div Window.ramp)

\* most_recent_halving: the known halvings are closer than those it extrapolates.
NextDays == {(day + 1) % CycleLength} \cup (IF day + 1 >= Shortest THEN {0} ELSE {})

SellIntensity == Strength(day, Window.sellStart, Window.sellEnd)

BuyIntensity ==
  Window.baseBuy + Percent(100 - Window.baseBuy, Strength(day, Window.buyStart, Window.buyEnd))

-----------------------------------------------------------------------------
(***************************************************************************)
(* The bars.                                                               *)
(***************************************************************************)

High(h) == AtLeast(h, ath)

\* How far the close is below the running high, percent.
Drawdown(p, high) == ((high - p) * 100) \div high

\* drawdown_episodes: a drawdown is completed by the close that recovers its peak,
\* and counts from the next bar on.
Episode(p) ==
  IF p < episode.peak THEN [episode EXCEPT !.trough = AtMost(p, @)]
  ELSE [peak |-> p, trough |-> p,
        drop |-> IF episode.trough = episode.peak THEN episode.drop
                 ELSE LET fell == Drawdown(episode.trough, episode.peak)
                      IN  IF episode.drop = NoDrop THEN fell ELSE AtMost(fell, episode.drop)]

\* A bar: what the policy decided is executed, the sale before the purchase.
Trade(p, h, buy, sell, registers) ==
  /\ bar < NBars
  /\ ledger' = Bought(Sold(Funded, sell, p), buy, p)
  /\ reg' = registers
  /\ price' = p
  /\ ath' = High(h)
  /\ bar' = bar + 1
  /\ day' \in NextDays
  /\ episode' = Episode(p)
  /\ UNCHANGED <<policy, model>>

FlatBar(p, h) ==
  /\ policy = "flat"
  /\ Trade(p, h, BaseDeploy, 0, reg)

\* Deeper below the high, larger purchases; sales near the top of the range.
WeightedBar(p, h) ==
  LET conf == AtMost(Weighted.floor
                     + ((100 - Weighted.floor) * Drawdown(p, High(h))) \div Weighted.ddRef, 100)
      deploy == Clamp((Weighted.kBuy * BuyIntensity * conf) \div 10000)
      buy == Percent(deploy, Funded.cash)
  IN  \/ policy = "weighted" /\ Trade(p, h, buy, 0, reg)
      \/ /\ policy = "weighted_sell"
         /\ \E place \in {0, 50, 100} :
              LET share == Clamp((Weighted.kSell * SellIntensity * place) \div 10000)
              IN  Trade(p, h, buy, Percent(share, Funded.units), reg)

(***************************************************************************)
(* CycleHunterPolicy.                                                      *)
(***************************************************************************)

InPhase(arms, phase) == policy \in arms /\ reg.phase = phase

\* The registers with the running high of all bars so far.
Seen(h) == [reg EXCEPT !.top = AtLeast(High(h), @)]

\* MNoCap: the daily rate alone limits the sale.
MNoCap(r) == AtMost(Percent(Hunter.kSell, r.start), Funded.units)

\* A slice of the stack, up to what the cap of this distribution leaves.
HunterSale(r) ==
  AtMost(AtMost(Percent(Hunter.kSell, r.start),
                AtLeast(Percent(Hunter.cap, r.start) - r.sold, 0)), Funded.units)

HunterSells(p, h, r) ==
  Trade(p, h, 0, HunterSale(r), [r EXCEPT !.sold = @ + HunterSale(r)])

HunterAccumulates(p, h) ==
  /\ InPhase({"hunter"}, "ACCUMULATE_BASE")
  /\ \E confirmed \in BOOLEAN :
       IF /\ confirmed
          /\ 100 * p >= Hunter.trigger * High(h)
          /\ SellIntensity >= Hunter.sellHi
       THEN HunterSells(p, h, [Seen(h) EXCEPT !.phase = "DISTRIBUTE", !.start = Funded.units,
                                              !.sold = 0])
       ELSE Trade(p, h, BaseDeploy, 0, Seen(h))

\* MKeepsCooldown: the end of an earlier cool-down stands.
MKeepsCooldown(r) == IF r.until = 0 THEN bar + Hunter.cooldown ELSE r.until

\* The end of a cool-down that starts with this bar.
CooldownEnd(r) == bar + Hunter.cooldown

\* Supertrend turns bearish: the top is confirmed.
HunterDistributes(p, h) ==
  /\ InPhase({"hunter"}, "DISTRIBUTE")
  /\ \/ HunterSells(p, h, Seen(h))
     \/ Trade(p, h, 0, 0, [Seen(h) EXCEPT !.phase = "COOLDOWN", !.until = CooldownEnd(reg)])

\* Well below the prior high.
Deep(p, r) == 100 * p < (100 - Hunter.within) * r.top

\* Deeper, more of the dry powder; more once the trend turns up again.
BearDeploy(p, r, bull) ==
  LET depth == Clamp((Drawdown(p, r.top) * 100) \div Hunter.ddRef)
      rate == Hunter.floor + (Hunter.kBear * depth * BuyIntensity) \div 10000
  IN  Percent(Clamp(IF bull THEN (rate * 125) \div 100 ELSE rate), Funded.cash)

HunterWaitsOrBuys(p, h) ==
  LET r == Seen(h)
  IN  IF Deep(p, r)
      THEN \E bull \in BOOLEAN :
             Trade(p, h, BearDeploy(p, r, bull), 0, [r EXCEPT !.phase = "BEAR_ACCUMULATE"])
      ELSE Trade(p, h, BaseDeploy, 0, [r EXCEPT !.phase = "ACCUMULATE_BASE"])

HunterCools(p, h) ==
  /\ InPhase({"hunter"}, "COOLDOWN")
  /\ IF bar >= reg.until THEN HunterWaitsOrBuys(p, h) ELSE Trade(p, h, 0, 0, Seen(h))

HunterBear(p, h) ==
  /\ InPhase({"hunter"}, "BEAR_ACCUMULATE")
  /\ HunterWaitsOrBuys(p, h)

(***************************************************************************)
(* CycleRotationPolicy.                                                    *)
(***************************************************************************)

Rotations == {"rotation", "rotation_auto"}

\* MCoreOfNow: the core is taken of the units still held.
MCoreOfNow(r) == Funded.units - Percent(Rotation.fraction, Funded.units)

\* What a distribution keeps of the stack it started with.
CoreOf(r) == r.start - Percent(Rotation.fraction, r.start)

RotationSells(p, h, r) ==
  LET rate == Clamp(Percent(Rotation.kSell, (SellIntensity * SellIntensity) \div 100))
  IN  Trade(p, h, 0, Percent(rate, AtLeast(Funded.units - CoreOf(r), 0)), r)

\* Waits above the buy zone; in it, the deeper the more.
RotationBuys(p, h, r) ==
  LET span == r.zone - r.target
      depth == IF span > 0 THEN Clamp(((r.zone - p) * 100) \div span) ELSE 100
      rate == Clamp(Percent(Rotation.kDeploy, Rotation.floor + depth))
  IN  Trade(p, h, IF p > r.zone THEN 0 ELSE Percent(rate, Funded.cash), 0, r)

RotationResumes(p, h, r) == Trade(p, h, BaseDeploy, 0, [r EXCEPT !.phase = "HOLD_CORE"])

RotationHolds(p, h) ==
  /\ InPhase(Rotations, "HOLD_CORE")
  /\ \E bull \in BOOLEAN :
       IF /\ bull
          /\ 100 * p >= (100 - Rotation.band) * High(h)
          /\ SellIntensity >= Rotation.sellHi
       THEN RotationSells(p, h, [reg EXCEPT !.phase = "DISTRIBUTE", !.start = Funded.units])
       ELSE RotationResumes(p, h, reg)

\* The expected fall: given, or derived from the completed drawdowns.
ExpectedDrop ==
  IF policy = "rotation" THEN Rotation.drop
  ELSE IF episode.drop = NoDrop THEN NoDrop ELSE AtLeast(5, episode.drop - Rotation.margin)

RotationDistributes(p, h) ==
  LET drop == ExpectedDrop
      top == High(h)
  IN  /\ InPhase(Rotations, "DISTRIBUTE")
      /\ \/ RotationSells(p, h, reg)
         \/ /\ drop <= 0
            /\ RotationResumes(p, h, reg)
         \/ /\ drop > 0
            /\ RotationBuys(p, h,
                 [reg EXCEPT !.phase = "DEPLOY", !.top = top, !.trough = p,
                             !.target = Percent(100 - drop, top),
                             !.zone = ((10000 - drop * Rotation.zone) * top) \div 10000])

RotationDeploys(p, h) ==
  LET low == AtMost(p, reg.trough)
      r == [reg EXCEPT !.trough = low]
  IN  /\ InPhase(Rotations, "DEPLOY")
      /\ IF \/ 100 * p >= low * (100 + Rotation.reentry)
            \/ p >= reg.top
            \/ Funded.cash = 0
         THEN RotationResumes(p, h, r)
         ELSE RotationBuys(p, h, r)

(***************************************************************************)
(* AccumulatorGridPolicy.                                                  *)
(***************************************************************************)

\* MNoRatchet: the core is a fraction of what is held now.
MNoRatchet(most) == Funded.units - Percent(100 - Grid.core, Funded.units)

\* The core ratchets up with the largest position ever held.
GridCore(most) == most - Percent(100 - Grid.core, most)

GridBar(p, h) ==
  LET l == Funded
      most == AtLeast(l.units, reg.most)
      sellable == AtLeast(l.units - GridCore(most), 0)
      above == l.basis > 0 /\ 100 * p * l.units >= l.basis * (100 + Grid.step)
      deploy == Grid.base + (Grid.dipGain * Drawdown(p, High(h))) \div Grid.ddRef
  IN  /\ policy = "grid"
      /\ \E uptrend, bull, euphoric \in BOOLEAN, place \in {0, 100} :
           LET trim == IF euphoric THEN 2 * Grid.trim ELSE Grid.trim
               sell == IF above /\ uptrend /\ place >= Grid.posHi
                       THEN AtMost(Percent(trim, sellable), sellable) ELSE 0
               rate == Clamp(IF bull THEN (deploy * 125) \div 100 ELSE deploy)
               freed == Percent(100 - Cost, sell * p)
           IN  Trade(p, h, Percent(rate, l.cash + freed), sell, [reg EXCEPT !.most = most])

-----------------------------------------------------------------------------

Bar(p, h) ==
  \/ FlatBar(p, h)
  \/ WeightedBar(p, h)
  \/ HunterAccumulates(p, h)
  \/ HunterDistributes(p, h)
  \/ HunterCools(p, h)
  \/ HunterBear(p, h)
  \/ RotationHolds(p, h)
  \/ RotationDistributes(p, h)
  \/ RotationDeploys(p, h)
  \/ GridBar(p, h)

Next == \E p, h \in Prices : p <= h /\ Bar(p, h)

Spec == Init /\ [][Next]_vars

-----------------------------------------------------------------------------

\* Every variable keeps its type; above all, no arm spends cash or sells units it
\* does not have, though policies ask for an even slice of a budget that dips and
\* redeployments may have used up (AccumulationLedger.buy, sell).
TypeOK ==
  /\ policy \in Policies /\ model \in Models
  /\ bar \in 0..NBars /\ day \in 0..(CycleLength - 1)
  /\ price \in Nat /\ ath \in Nat
  /\ ledger \in Ledgers
  /\ reg \in Registers
  /\ episode \in Episodes

\* "Moving-average cost-basis ledger" (accumulation.py:35-43): after any series of
\* purchases and sales the cash and the cost of the units held are exactly what was
\* paid in and realized, so that the equity is the contributions plus realized and
\* unrealized gains.
BooksBalance == ledger.cash + ledger.basis = ledger.contributed + ledger.realized

\* "never sell more than this fraction of the stack (keep a core)"
\* (accumulation.py:194, 334-369, 475): however long a distribution, with its
\* contributions, lasts, the hunter and the rotation keep the promised part of the
\* stack it started with, until they buy again; the grid keeps its part of the
\* largest position it ever held.
CoreKept ==
  /\ policy = "hunter" /\ reg.phase \in {"DISTRIBUTE", "COOLDOWN"}
       => 100 * ledger.units >= (100 - Hunter.cap) * reg.start
  /\ policy \in Rotations /\ reg.phase \in {"DISTRIBUTE", "DEPLOY"}
       => 100 * ledger.units >= (100 - Rotation.fraction) * reg.start
  /\ policy = "grid" => 100 * ledger.units >= Grid.core * reg.most

\* "~3 months of no buying after a confirmed top" (accumulation.py:210): from the
\* start of a distribution the hunter buys nothing; it cools down to the end of this
\* cool-down, never of an earlier one.
NoBuyingAtTheTop ==
  [][policy = "hunter" /\ reg'.phase \in {"DISTRIBUTE", "COOLDOWN"}
       => /\ ledger'.units <= ledger.units
          /\ ledger'.cash >= ledger.cash
          /\ reg'.phase = "COOLDOWN" /\ reg.phase = "COOLDOWN" => bar < reg.until
          /\ reg'.phase = "COOLDOWN" => bar <= reg'.until]_vars

=============================================================================
