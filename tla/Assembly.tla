------------------------------ MODULE Assembly -----------------------------
(***************************************************************************)
(* One execution task from Jupiter's first answer to the transaction it    *)
(* signs (src/executor/mod.rs:101-157): TxLayout and Money together.  In   *)
(* Executor this is the step Tipped; here is what it builds.               *)
(***************************************************************************)
EXTENDS Money, TxLayout

CONSTANTS
  Answers,   \* what Jupiter may answer for a swap
  NoAnswer   \* what buy holds before the answer

ASSUME AnswerAssumption == Answers \subseteq Responses

VARIABLES
  pc,      \* the answer it waits for, "buyIx" or "sellIx", or "built",
           \* "returned" or "crashed"
  loan,    \* opp.loan_lamports
  minOut,  \* other_amount_threshold of opp.sell_quote
  buy,     \* buy_ixs
  tx       \* instructions, complete

vars == <<pc, loan, minOut, buy, tx>>

Words == 0..(U64 - 1)

Init ==
  /\ pc = "buyIx"
  /\ loan \in Words /\ minOut \in Words
  /\ buy = NoAnswer
  /\ tx = << >>

Profit == EstimateProfit(loan, minOut)

BuyArrives ==
  /\ pc = "buyIx" /\ pc' = "sellIx"
  /\ buy' \in Answers
  /\ UNCHANGED <<loan, minOut, tx>>

(* A request fails, or an instruction does not parse.                      *)
GivesUp ==
  /\ pc \in {"buyIx", "sellIx"} /\ pc' = "returned"
  /\ UNCHANGED <<loan, minOut, buy, tx>>

(* The sell instructions arrive.                                           *)
NotProfitable ==
  /\ pc = "sellIx" /\ Profit <= 0
  /\ pc' = "returned"
  /\ UNCHANGED <<loan, minOut, buy, tx>>

TipPanic ==
  /\ pc = "sellIx" /\ Profit > 0 /\ TipPanics(Profit)
  /\ pc' = "crashed"
  /\ UNCHANGED <<loan, minOut, buy, tx>>

Build(sell) ==
  /\ pc = "sellIx" /\ Profit > 0 /\ ~TipPanics(Profit)
  /\ pc' = "built"
  /\ tx' = Transaction(buy, sell, DynamicJitoTip(Profit))
  /\ UNCHANGED <<loan, minOut, buy>>

Over == pc \in {"built", "returned", "crashed"} /\ UNCHANGED vars

Next ==
  \/ BuyArrives \/ GivesUp \/ NotProfitable \/ TipPanic
  \/ \E sell \in Answers : Build(sell)
  \/ Over

Spec == Init /\ [][Next]_vars

-----------------------------------------------------------------------------
(* Properties.                                                             *)

(* The estimate is the integer difference wherever amounts fit an i64 with *)
(* the cost to spare: no wrap turns a loss into a profit                   *)
(* (src/jupiter/mod.rs:171-172).                                           *)
EstimateIsExact == ProfitExact(loan, minOut)

Fits ==
  minOut < U64 \div 2 /\ loan < U64 \div 2 /\ loan + TxCost <= U64 \div 2

(* A transaction that is signed pays for itself, where amounts fit: its tip*)
(* instruction pays Jito the minimum at least, and what the sell quote     *)
(* guarantees covers the loan, the fees and that tip, and leaves the wallet*)
(* at least as much as Jito gets (src/executor/mod.rs:131-139).            *)
TradePays ==
  pc = "built" /\ Fits =>
    /\ Does(tx, "tip") # {}
    /\ \A i \in Does(tx, "tip") :
         /\ tx[i].data >= MinTip
         /\ loan + TxCost + 2 * tx[i].data <= minOut

(* MarginFi's check on start finds end (src/executor/mod.rs:154-157).      *)
PatchedIndexIsEnd == pc = "built" => EndIsFound(tx)

(* Whatever moves money moves it within the loan                           *)
(* (src/executor/mod.rs:111-152).                                          *)
TradeInsideLoan == pc = "built" => LoanEnclosesTrade(tx)

=============================================================================
