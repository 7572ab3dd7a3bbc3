----------------------------- MODULE MCListener ----------------------------
(***************************************************************************)
(* Listener on small instances: one DEX program, one token, one pool.      *)
(***************************************************************************)
EXTENDS Listener

CONSTANTS dex, other, pool, token

MCKeys == {dex, other, pool, token, Wsol, SystemProgram}
MCDexPrograms == {dex}

Call(p, accounts) == [program |-> p, accounts |-> accounts]
Tx(slot, instructions) == [slot |-> slot, instructions |-> instructions]

(* A transfer; a swap by way of another program; a DEX instruction with no *)
(* usable account before one that has some; keys that cannot be read.      *)
MCTransactions ==
  { Tx(1, <<Call(other, <<token>>)>>),
    Tx(1, <<Call(other, <<pool>>), Call(dex, <<Wsol, token, pool>>)>>),
    Tx(2, <<Call(dex, <<dex, Wsol, SystemProgram>>), Call(dex, <<pool>>)>>),
    Tx(2, <<Call(Unreadable, <<token>>), Call(dex, <<Unreadable, token>>)>>) }

MCAccountUpdates ==
  {[slot |-> 1, key |-> pool, owner |-> dex],
   [slot |-> 1, key |-> token, owner |-> other],
   [slot |-> 2, key |-> Unreadable, owner |-> dex]}

=============================================================================
