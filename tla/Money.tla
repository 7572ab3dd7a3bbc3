------------------------------- MODULE Money -------------------------------
(***************************************************************************)
(* The integer arithmetic of the bot: profit estimation                    *)
(* (src/jupiter/mod.rs), the Jito tip and the transaction cost             *)
(* (src/config/mod.rs), and the u64 addition of the two age checks.        *)
(*                                                                         *)
(* The word size is a parameter: U64 stands for 2^64.  A run that wants    *)
(* the arithmetic without wrap-around gives U64 a value no sum reaches; a  *)
(* run that wants the edges gives it a small one.  Release builds have     *)
(* overflow-checks = false (Cargo.toml:75), so + and - wrap, and `as i64`  *)
(* reinterprets the bits.                                                  *)
(***************************************************************************)
EXTENDS Integers

CONSTANTS
  U64,          \* modulus of a u64: 2^64 in the code
  TxCost,       \* estimated_tx_cost(): 15_000 lamports in the code
  MinTip,       \* lower bound of a tip: 1_000 lamports in the code
  TipFraction,  \* jito_tip_profit_fraction in units of 1 / TipScale
  TipScale      \* 1000 in the code

ASSUME WordAssumption ==
  /\ U64 \in Nat /\ U64 > 2 /\ U64 % 2 = 0
  /\ TxCost \in Nat /\ TxCost < U64 \div 2

ASSUME TipAssumption ==
  /\ MinTip \in Nat \ {0}
  /\ TipScale \in Nat \ {0}
  /\ TipFraction \in 0..TipScale

(* x + y on u64, wrapping.                                                 *)
AddU64(x, y) == (x + y) % U64

(* `x as i64` for a u64 x: the upper half of the range is negative.        *)
AsI64(x) == IF x < U64 \div 2 THEN x ELSE x - U64

(* An i64 result that wraps instead of overflowing.                        *)
WrapI64(x) == ((x + U64 \div 2) % U64) - U64 \div 2

(* Mutant of EstimateProfit: the transaction cost is left out.             *)
EstimateProfit_NoCost(loan, minOut) == WrapI64(AsI64(minOut) - AsI64(loan))

(* estimate_profit: guaranteed output of the sell quote, minus the loan    *)
(* principal and the transaction cost, all as i64.                         *)
EstimateProfit(loan, minOut) == WrapI64(AsI64(minOut) - AsI64(loan) - TxCost)

(* profit.saturating_mul(fraction_bps) / 1000                              *)
RawTip(profit) ==
  LET product == profit * TipFraction
  IN  (IF product < U64 THEN product ELSE U64 - 1) \div TipScale

(* Ord::clamp(min, max) asserts min <= max: it panics on a profit whose    *)
(* half is below the minimum tip.                                          *)
TipPanics(profit) == MinTip > profit \div 2

(* Mutant of DynamicJitoTip: max(1_000) for clamp.                         *)
DynamicJitoTip_NoCap(profit) ==
  IF RawTip(profit) < MinTip THEN MinTip ELSE RawTip(profit)

(* tip.clamp(1_000, profit_lamports / 2), where it does not panic.         *)
DynamicJitoTip(profit) ==
  LET raw == RawTip(profit)
  IN  IF raw < MinTip THEN MinTip
      ELSE IF raw > profit \div 2 THEN profit \div 2
      ELSE raw

-----------------------------------------------------------------------------
(* What the arithmetic must give back.                                     *)

(* With amounts that fit an i64 with the cost to spare, the estimate is    *)
(* the integer difference: no wrap turns a loss into a profit              *)
(* (src/jupiter/mod.rs:171-172).                                           *)
ProfitExact(loan, minOut) ==
  minOut < U64 \div 2 /\ loan < U64 \div 2 /\ loan + TxCost <= U64 \div 2
    => EstimateProfit(loan, minOut) = minOut - loan - TxCost

(* A tip that is paid is at least MinTip and leaves at least half of the   *)
(* profit, whatever fraction is configured (src/config/mod.rs:175-184).    *)
TipLeavesHalf(profit) ==
  profit > 0 /\ ~TipPanics(profit)
    => /\ DynamicJitoTip(profit) >= MinTip
       /\ 2 * DynamicJitoTip(profit) <= profit

(* The tip has no value exactly for the profits below twice MinTip.        *)
TipPanicRange(profit) == TipPanics(profit) <=> profit < 2 * MinTip

=============================================================================
