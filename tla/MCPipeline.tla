---------------------------- MODULE MCPipeline -----------------------------
(***************************************************************************)
(* Pipeline on a small instance: one token, seen by both routes, in a      *)
(* transaction at slot 0 and as an account update at slot 2.  The only     *)
(* loan that is not 0 is MaxLoan = 1, and the two sell outputs give a      *)
(* profit of 4, exactly two minimum tips, and of 3, which is refused.      *)
(***************************************************************************)
EXTENDS Pipeline

CONSTANTS dex, token, v1, v2, x1

MCKeys == {dex, token, Wsol, SystemProgram}
MCDexPrograms == {dex}
MCTransactions ==
  {[slot |-> 0, instructions |-> <<[program |-> dex, accounts |-> <<Wsol, token>>]>>]}
MCAccountUpdates == {[slot |-> 2, key |-> token, owner |-> dex]}
MCSlots == {0, 2}
MCSellOutputs == {5, 6}
MCTaskIds == {v1, v2}
MCExecIds == {x1}

(* The requests of an execution: none is answered later than the chain runs*)
(* in this instance.                                                       *)
MCTimeout ==
  [pc \in {"slot", "buyIx", "sellIx", "accounts", "simulate", "send"} |-> 2]

=============================================================================
