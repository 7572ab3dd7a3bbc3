----------------------------- MODULE MCExecutor ----------------------------
(***************************************************************************)
(* Executor on small instances.  With TxCost = 1 and MinTip = 2 the        *)
(* opportunities below have a profit of 0 (nothing to gain), 3 (too small  *)
(* for the minimum tip) and 8.                                             *)
(***************************************************************************)
EXTENDS Executor

CONSTANTS e1, e2

MCExecIds == {e1, e2}

Gain(slot, profit) == [slot |-> slot, loan |-> 4, minOut |-> 5 + profit]

MCOpportunities == {Gain(0, 0), Gain(1, 3), Gain(0, 8)}

(* The chain moves on while the buy instructions or Jito's answer are      *)
(* awaited; the other requests are answered within the slot.               *)
MCTimeout == [pc \in AwaitPoints |-> IF pc \in {"buyIx", "send"} THEN 1 ELSE 0]

(* For the tip: a profit too small for the minimum.                        *)
MCTiny == {Gain(0, 3)}

=============================================================================
