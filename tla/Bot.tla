-------------------------------- MODULE Bot --------------------------------
(***************************************************************************)
(* What the bot promises its owner, whatever it is built of: it reports    *)
(* sightings of tokens in DEX activity, and for a sighting it may submit   *)
(* one bundle, which borrows one of three amounts, earns the configured    *)
(* minimum, and keeps at least half of it after the tip.  It owes no       *)
(* bundle: every stage may drop what it holds.                             *)
(***************************************************************************)
EXTENDS Integers, Sequences, FiniteSets, Money

CONSTANTS
  Tokens,       \* accounts a sighting can name
  Slots,        \* slots it can carry
  MaxLoan,      \* config.max_loan_lamports
  MinProfit,    \* config.min_profit_lamports
  SellOutputs   \* guaranteed outputs of a round trip

VARIABLES
  sightings,    \* [token, slot] in the order seen
  bundles       \* [token, slot, loan, minOut, tip] in the order submitted

vars == <<sightings, bundles>>

Sightings == [token : Tokens, slot : Slots]

Loans == {MaxLoan, MaxLoan \div 2, MaxLoan \div 4} \ {0}

Init == sightings = << >> /\ bundles = << >>

Sight(e) ==
  /\ sightings' = Append(sightings, e)
  /\ UNCHANGED bundles

(* The sightings of a token at a slot, and the bundles submitted for them. *)
Of(seq, e) ==
  Cardinality({i \in DOMAIN seq : seq[i].token = e.token /\ seq[i].slot = e.slot})

Submit(e) ==
  /\ Of(bundles, e) < Of(sightings, e)
  /\ \E loan \in Loans, minOut \in SellOutputs :
       LET profit == minOut - loan - TxCost
       IN  /\ profit >= MinProfit
           /\ \E tip \in MinTip..(profit \div 2) :
                bundles' = Append(bundles, [token |-> e.token, slot |-> e.slot,
                                            loan |-> loan, minOut |-> minOut, tip |-> tip])
  /\ UNCHANGED sightings

Next ==
  \/ \E e \in Sightings : Sight(e)
  \/ \E e \in Sightings : Submit(e)

Spec == Init /\ [][Next]_vars

=============================================================================
