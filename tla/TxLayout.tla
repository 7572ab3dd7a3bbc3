------------------------------ MODULE TxLayout ------------------------------
(***************************************************************************)
(* The transaction an execution task builds (src/executor/mod.rs:105-157): *)
(* the instructions of a MarginFi flash loan (src/flash_loan/mod.rs), of   *)
(* the two Jupiter swaps and of the Jito tip, in one list, and the index   *)
(* that is patched into the first of the loan's.                           *)
(*                                                                         *)
(* An instruction is a record: who asked for it, what it does, and its     *)
(* argument where that matters: for "start" the index in data[8..16], for  *)
(* "tip" the lamports it transfers.  Jupiter's answer for a swap is the    *)
(* number of its setup instructions and whether it has a cleanup           *)
(* instruction; any of its instructions may fail to parse, and then there  *)
(* is no transaction (GiveUp in Executor).                                 *)
(***************************************************************************)
EXTENDS Integers, Sequences

Responses == [setups : Nat, cleanup : BOOLEAN]

Ix(from, does) == [from |-> from, does |-> does, data |-> 0]

(* build_flash_loan_instructions: data[8..16] of start is a placeholder.   *)
SetupIxs == <<Ix("loan", "createAta")>>
StartIx == Ix("loan", "start")
EndIx == Ix("loan", "end")

(* build_tip_instruction: a transfer to one of Jito's tip accounts.        *)
TipIx(tip) == [from |-> "jito", does |-> "tip", data |-> tip]

(* The setup instructions of a swap, then the swap.                        *)
Swap(leg, r) == Append([i \in 1..r.setups |-> Ix(leg, "setup")], Ix(leg, "swap"))

Cleanup(leg, r) == IF r.cleanup THEN <<Ix(leg, "cleanup")>> ELSE << >>

(* The list as it is when start has just been pushed, when end has, and in *)
(* the end.                                                                *)
ToStart == Append(SetupIxs, StartIx)

(* Mutant of ToEnd: the tip is pushed after end.                           *)
ToEnd_TipLast(buy, sell, tip) ==
  ToStart \o Swap("buy", buy) \o Swap("sell", sell) \o <<EndIx, TipIx(tip)>>

ToEnd(buy, sell, tip) ==
  Append(ToStart \o Swap("buy", buy) \o Swap("sell", sell) \o <<TipIx(tip)>>,
         EndIx)

Assembled(buy, sell, tip) ==
  ToEnd(buy, sell, tip) \o Cleanup("buy", buy) \o Cleanup("sell", sell)

(* 0-based, like every index in a transaction.                             *)
StartIxPos == Len(ToStart) - 1

(* Mutant of EndIxPos: the list's length is taken at the end.              *)
EndIxPos_AfterCleanup(buy, sell, tip) == Len(Assembled(buy, sell, tip)) - 1

EndIxPos(buy, sell, tip) == Len(ToEnd(buy, sell, tip)) - 1

Transaction(buy, sell, tip) ==
  [Assembled(buy, sell, tip) EXCEPT ![StartIxPos + 1].data = EndIxPos(buy, sell, tip)]

-----------------------------------------------------------------------------
(* What the transaction must be.                                           *)

Does(tx, what) == {i \in DOMAIN tx : tx[i].does = what}

(* MarginFi's check on start finds end where start says it is              *)
(* (src/flash_loan/mod.rs:40-42, src/executor/mod.rs:154-157): there is    *)
(* one start and one end, and start's argument is the index of end.        *)
EndIsFound(tx) ==
  \E s, e \in DOMAIN tx :
    /\ Does(tx, "start") = {s} /\ Does(tx, "end") = {e}
    /\ tx[s].data + 1 = e

(* Whatever moves money moves it within the loan: the ATA exists before,   *)
(* both swaps, buy first, their setup and the one tip are between start    *)
(* and end, cleanup is after (src/executor/mod.rs:111-152).                *)
LoanEnclosesTrade(tx) ==
  \A s \in Does(tx, "start"), e \in Does(tx, "end") :
    /\ s < e
    /\ \A i \in Does(tx, "createAta") : i < s
    /\ \A i \in Does(tx, "setup") \cup Does(tx, "swap") \cup Does(tx, "tip") : s < i /\ i < e
    /\ \A i \in Does(tx, "cleanup") : e < i
    /\ \A i, j \in Does(tx, "swap") :
         tx[i].from = "buy" /\ tx[j].from = "sell" => i < j
    /\ \A i, j \in Does(tx, "tip") : i = j

=============================================================================
