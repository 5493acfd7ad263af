--------------------------- MODULE MCAccumulation ---------------------------
(***************************************************************************)
(* Small instances of Accumulation for TLC: a halving every four or five   *)
(* days, a buy window that wraps past it, and rates high enough for a      *)
(* distribution to meet its cap within the run.                            *)
(***************************************************************************)
EXTENDS Accumulation

MCWindow == [sellStart |-> 0, sellEnd |-> 4, buyStart |-> 3, buyEnd |-> 1,
             ramp |-> 1, baseBuy |-> 25]
MCWeighted == [kBuy |-> 50, kSell |-> 35, floor |-> 20, ddRef |-> 50]
MCHunter == [trigger |-> 95, sellHi |-> 30, cap |-> 30, kSell |-> 20, cooldown |-> 2,
             within |-> 15, ddRef |-> 70, kBear |-> 50, floor |-> 10]
MCRotation == [fraction |-> 70, band |-> 8, sellHi |-> 85, kSell |-> 50, drop |-> 50,
               margin |-> 5, zone |-> 50, kDeploy |-> 50, floor |-> 30, reentry |-> 30]
MCGrid == [base |-> 35, dipGain |-> 130, ddRef |-> 60, step |-> 50, trim |-> 40,
           posHi |-> 85, core |-> 75]
MCPrices == {2, 4}

=============================================================================
