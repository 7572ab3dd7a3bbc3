--------------------------- MODULE ListenerProofs ---------------------------
(***************************************************************************)
(* Proofs about Listener, for any accounts, programs and updates: its types*)
(* and that no DEX activity is overlooked.                                 *)
(***************************************************************************)
EXTENDS Listener, WellFoundedInduction, TLAPS

(* The first hit of a scan exists, and there is none before it.            *)
LEMMA LeastIn ==
  ASSUME NEW S, S \subseteq Nat, S # {}
  PROVE  Least(S) \in S /\ \A j \in S : Least(S) <= j
  <1> DEFINE R == OpToRel(<, Nat)
  <1>1. IsWellFoundedOn(R, Nat)
    BY NatLessThanWellFounded, Zenon
  <1>2. \A x, y \in Nat : x < y => <<x, y>> \in R
    BY DEF OpToRel
  <1> HIDE DEF R
  <1>3. PICK x \in S : \A y \in S : ~(<<y, x>> \in R)
    BY <1>1, WFMin, S \subseteq Nat, S # {}
  <1>4. \A y \in S : x \in Nat /\ y \in Nat /\ ~(y < x)
    BY <1>2, <1>3, S \subseteq Nat
  <1>5. x \in S /\ \A y \in S : x <= y
    BY <1>3, <1>4
  <1> QED
    BY <1>5 DEF Least

Event == [token : Keys, slot : Nat]

-----------------------------------------------------------------------------
(* What an update emits.                                                   *)

LEMMA InstructionTypes ==
  ASSUME NEW tx \in Transactions, NEW i \in DOMAIN tx.instructions
  PROVE  /\ tx.slot \in Nat
         /\ i \in Nat
         /\ tx.instructions[i].program \in Account
         /\ tx.instructions[i].accounts \in Seq(Account)
  <1>1. tx \in Transaction
    BY UpdateAssumption
  <1>2. tx.slot \in Nat /\ tx.instructions \in Seq(Instruction)
    BY <1>1 DEF Transaction
  <1>3. i \in 1..Len(tx.instructions)
    BY <1>2
  <1>4. i \in Nat /\ tx.instructions[i] \in Instruction
    BY <1>2, <1>3
  <1> QED
    BY <1>2, <1>4 DEF Instruction

(* A transaction with a hit emits one event, for an account of a DEX       *)
(* instruction that can be a token; one without emits none.                *)
LEMMA EventOf ==
  ASSUME NEW tx \in Transactions, Hits(tx) # {}
  PROVE  \E i \in Hits(tx) : \E j \in Names(tx.instructions[i]) :
           FromTransaction(tx) =
             <<[token |-> tx.instructions[i].accounts[j], slot |-> tx.slot]>>
  <1> DEFINE i == Least(Hits(tx))
             ix == tx.instructions[i]
             j == Least(Names(ix))
  <1>1. Hits(tx) \subseteq DOMAIN tx.instructions
    BY DEF Hits
  <1>2. Hits(tx) \subseteq Nat
    BY <1>1, InstructionTypes
  <1>3. i \in Hits(tx)
    BY <1>2, LeastIn
  <1>4. Names(ix) # {}
    BY <1>3 DEF Hits
  <1>5. ix.accounts \in Seq(Account)
    BY <1>1, <1>3, InstructionTypes
  <1>6. Names(ix) \subseteq DOMAIN ix.accounts
    BY DEF Names
  <1>7. Names(ix) \subseteq Nat
    BY <1>5, <1>6
  <1>8. j \in Names(ix)
    BY <1>4, <1>7, LeastIn
  <1>9. FromTransaction(tx) = <<[token |-> ix.accounts[j], slot |-> tx.slot]>>
    BY DEF FromTransaction
  <1> QED
    BY <1>3, <1>8, <1>9

(* A name is an account that can be a token.                               *)
LEMMA NameIsKey ==
  ASSUME NEW tx \in Transactions, NEW i \in Hits(tx),
         NEW j \in Names(tx.instructions[i])
  PROVE  /\ tx.slot \in Nat
         /\ i \in DOMAIN tx.instructions
         /\ tx.instructions[i].program \in DexPrograms
         /\ j \in DOMAIN tx.instructions[i].accounts
         /\ tx.instructions[i].accounts[j] \in Keys
         /\ tx.instructions[i].accounts[j]
              \notin {Unreadable, tx.instructions[i].program, Wsol, SystemProgram}
  <1>1. i \in DOMAIN tx.instructions /\ tx.instructions[i].program \in DexPrograms
    BY DEF Hits
  <1>2. /\ j \in DOMAIN tx.instructions[i].accounts
        /\ tx.instructions[i].accounts[j]
             \notin {Unreadable, tx.instructions[i].program, Wsol, SystemProgram}
    BY DEF Names
  <1>3. tx.slot \in Nat /\ tx.instructions[i].accounts \in Seq(Account)
    BY <1>1, InstructionTypes
  <1>4. tx.instructions[i].accounts[j] \in Account
    BY <1>2, <1>3
  <1> QED
    BY <1>1, <1>2, <1>3, <1>4 DEF Account

LEMMA TransactionEvents ==
  ASSUME NEW tx \in Transactions
  PROVE  \/ FromTransaction(tx) = << >>
         \/ \E e \in Event : FromTransaction(tx) = <<e>>
  <1>1. CASE Hits(tx) = {}
    BY <1>1 DEF FromTransaction
  <1>2. CASE Hits(tx) # {}
    <2>1. PICK i \in Hits(tx) :
            \E j \in Names(tx.instructions[i]) :
              FromTransaction(tx) =
                <<[token |-> tx.instructions[i].accounts[j], slot |-> tx.slot]>>
      BY <1>2, EventOf
    <2>2. PICK j \in Names(tx.instructions[i]) :
            FromTransaction(tx) =
              <<[token |-> tx.instructions[i].accounts[j], slot |-> tx.slot]>>
      BY <2>1
    <2>3. [token |-> tx.instructions[i].accounts[j], slot |-> tx.slot] \in Event
      BY NameIsKey DEF Event
    <2> QED
      BY <2>2, <2>3
  <1> QED
    BY <1>1, <1>2

LEMMA AccountEvents ==
  ASSUME NEW u \in AccountUpdates
  PROVE  \/ FromAccountUpdate(u) = << >>
         \/ \E e \in Event : FromAccountUpdate(u) = <<e>>
  <1>1. u.slot \in Nat /\ u.key \in Account
    BY UpdateAssumption DEF AccountUpdate
  <1>2. u.key # Unreadable => [token |-> u.key, slot |-> u.slot] \in Event
    BY <1>1 DEF Account, Event
  <1> QED
    BY <1>2 DEF FromAccountUpdate

-----------------------------------------------------------------------------
(* The type invariant, made inductive: what is in the channel are events.  *)
Inv == TypeOK /\ arbQ \in Seq(Event)

(* A send of at most one event keeps the channel within its capacity.      *)
LEMMA Sending ==
  ASSUME NEW events, events = << >> \/ \E e \in Event : events = <<e>>,
         Inv, TrySend(events)
  PROVE  /\ arbQ' \in Seq(Event)
         /\ Len(arbQ') <= MigrationCap
         /\ \A i \in DOMAIN arbQ' : arbQ'[i].token \in Keys
  <1>1. arbQ \in Seq(Event) /\ Len(arbQ) <= MigrationCap /\ MigrationCap \in Nat
    BY ListenerAssumption DEF Inv, TypeOK
  <1>2. /\ arbQ' \in Seq(Event)
        /\ Len(arbQ') <= MigrationCap
    <2>1. CASE receiverGone \/ Len(arbQ) >= MigrationCap
      BY <1>1, <2>1 DEF TrySend
    <2>2. CASE ~(receiverGone \/ Len(arbQ) >= MigrationCap)
      <3>1. arbQ' = arbQ \o events
        BY <2>2 DEF TrySend
      <3>2. Len(arbQ) < MigrationCap
        BY <1>1, <2>2
      <3>3. events \in Seq(Event) /\ Len(events) <= 1
        <4>1. CASE events = << >>
          BY <4>1
        <4>2. ASSUME NEW e \in Event, events = <<e>>
              PROVE  events \in Seq(Event) /\ Len(events) <= 1
          BY <4>2
        <4> QED
          BY <4>1, <4>2
      <3>4. arbQ \o events \in Seq(Event)
        BY <1>1, <3>3
      <3>5. Len(arbQ \o events) = Len(arbQ) + Len(events)
        BY <1>1, <3>3
      <3> QED
        BY <1>1, <3>1, <3>2, <3>3, <3>4, <3>5
    <2> QED
      BY <2>1, <2>2
  <1>3. \A i \in DOMAIN arbQ' : arbQ'[i] \in Event
    BY <1>2
  <1> QED
    BY <1>2, <1>3 DEF Event

LEMMA InitInv == ASSUME Init PROVE Inv
  BY ListenerAssumption DEF Init, Inv, TypeOK

LEMMA DeliverInv ==
  ASSUME NEW events, events = << >> \/ \E e \in Event : events = <<e>>,
         Inv, Deliver(events)
  PROVE  Inv'
  <1>1. /\ arbQ' \in Seq(Event)
        /\ Len(arbQ') <= MigrationCap
        /\ \A i \in DOMAIN arbQ' : arbQ'[i].token \in Keys
    BY Sending DEF Deliver
  <1> QED
    BY <1>1 DEF Inv, TypeOK, Deliver

LEMMA ReceiveInv == ASSUME Inv, Receive PROVE Inv'
  <1>1. ASSUME NEW tx \in Transactions, ProcessTransaction(tx) PROVE Inv'
    BY <1>1, TransactionEvents, DeliverInv DEF ProcessTransaction
  <1>2. ASSUME NEW u \in AccountUpdates, ProcessAccountUpdate(u) PROVE Inv'
    BY <1>2, AccountEvents, DeliverInv DEF ProcessAccountUpdate
  <1>3. CASE IgnoreUpdate
    BY <1>3, DeliverInv DEF IgnoreUpdate
  <1> QED
    BY <1>1, <1>2, <1>3 DEF Receive

LEMMA ControlInv == ASSUME Inv, Control PROVE Inv'
  <1>1. CASE StopIfCancelled
    BY <1>1 DEF Inv, TypeOK, StopIfCancelled
  <1>2. CASE Connect
    BY <1>2 DEF Inv, TypeOK, Connect
  <1>3. CASE Subscribed
    BY <1>3 DEF Inv, TypeOK, Subscribed
  <1>4. CASE ConnectFails
    BY <1>4 DEF Inv, TypeOK, ConnectFails, Fails
  <1>5. CASE StreamEnds
    BY <1>5 DEF Inv, TypeOK, StreamEnds, Fails
  <1>6. CASE StreamCancelled
    BY <1>6 DEF Inv, TypeOK, StreamCancelled
  <1>7. CASE BackoffOver
    BY <1>7, ListenerAssumption DEF Inv, TypeOK, BackoffOver
  <1>8. CASE BackoffCancelled
    BY <1>8 DEF Inv, TypeOK, BackoffCancelled
  <1> QED
    BY <1>1, <1>2, <1>3, <1>4, <1>5, <1>6, <1>7, <1>8 DEF Control

LEMMA EnvironmentInv == ASSUME Inv, Environment PROVE Inv'
  <1>1. CASE NetworkDown
    BY <1>1 DEF Inv, TypeOK, NetworkDown, listenerVars
  <1>2. CASE NetworkUp
    BY <1>2 DEF Inv, TypeOK, NetworkUp, listenerVars
  <1>3. CASE TakeEvent
    <2>1. arbQ \in Seq(Event) /\ arbQ # << >> /\ arbQ' = Tail(arbQ)
      BY <1>3 DEF Inv, TakeEvent
    <2>2. arbQ' \in Seq(Event) /\ Len(arbQ') = Len(arbQ) - 1
      BY <2>1
    <2>3. \A i \in DOMAIN arbQ' : arbQ'[i] \in Event
      BY <2>2
    <2>4. Len(arbQ') <= MigrationCap
      BY <2>1, <2>2, ListenerAssumption DEF Inv, TypeOK
    <2> QED
      BY <1>3, <2>2, <2>3, <2>4 DEF Inv, TypeOK, TakeEvent, Event
  <1>4. CASE DropReceiver
    BY <1>4, ListenerAssumption DEF Inv, TypeOK, DropReceiver
  <1>5. CASE Cancel
    BY <1>5 DEF Inv, TypeOK, Cancel, listenerVars
  <1> QED
    BY <1>1, <1>2, <1>3, <1>4, <1>5 DEF Environment

THEOREM Inductive == Spec => []Inv
  <1>1. Inv /\ [Next]_vars => Inv'
    <2> SUFFICES ASSUME Inv, [Next]_vars PROVE Inv'
      OBVIOUS
    <2>1. CASE UNCHANGED vars
      BY <2>1 DEF Inv, TypeOK, vars, listenerVars
    <2>2. CASE Receive
      BY <2>2, ReceiveInv
    <2>3. CASE Control
      BY <2>3, ControlInv
    <2>4. CASE Environment
      BY <2>4, EnvironmentInv
    <2> QED
      BY <2>1, <2>2, <2>3, <2>4 DEF Next, Own, ListenerStep
  <1> QED
    BY InitInv, <1>1, PTL DEF Spec

(* The backoff stays between the initial and the maximal one, the channel  *)
(* within its capacity, and a stream is open exactly while it is read, for *)
(* all of these limits (src/listener/mod.rs:39-75, 155-184).               *)
THEOREM TypeCorrect == Spec => []TypeOK
  <1>1. Inv => TypeOK
    BY DEF Inv
  <1> QED
    BY Inductive, <1>1, PTL

(* However long a connection lasts and however much it delivers, the next  *)
(* wait is no shorter than the one before (src/listener/mod.rs:69-71): this*)
(* is what holds in place of BackoffResets.                                *)
THEOREM BackoffOnlyGrows == Spec => [][backoff' >= backoff]_vars
  <1>1. Inv /\ [Next]_vars => [backoff' >= backoff]_vars
    <2> SUFFICES ASSUME Inv, Next PROVE backoff' >= backoff
      OBVIOUS
    <2>1. backoff \in Nat /\ backoff <= MaxBackoff /\ MaxBackoff \in Nat
      BY ListenerAssumption DEF Inv, TypeOK
    <2>2. CASE Control
      <3>1. CASE BackoffOver
        BY <2>1, <3>1 DEF BackoffOver
      <3>2. CASE ~BackoffOver
        <4>1. backoff' = backoff
          BY <2>2, <3>2 DEF Control, StopIfCancelled, Connect, Subscribed, ConnectFails,
             StreamEnds, StreamCancelled, Fails, BackoffCancelled
        <4> QED
          BY <2>1, <4>1
      <3> QED
        BY <3>1, <3>2
    <2>3. CASE Receive \/ Environment
      <3>1. backoff' = backoff
        BY <2>3 DEF Receive, ProcessTransaction, ProcessAccountUpdate, IgnoreUpdate, Deliver,
           Environment, NetworkDown, NetworkUp, TakeEvent, DropReceiver, Cancel, listenerVars
      <3> QED
        BY <2>1, <3>1
    <2> QED
      BY <2>2, <2>3 DEF Next, Own, ListenerStep
  <1> QED
    BY Inductive, <1>1, PTL DEF Spec

-----------------------------------------------------------------------------
(* Nothing is overlooked.                                                  *)

(* A DEX instruction that names a usable account is a hit, and what a hit  *)
(* emits is such an account.                                               *)
LEMMA UsableIsHit ==
  ASSUME NEW tx \in Transactions, DexKeys(tx) # {}
  PROVE  Hits(tx) # {}
  <1>1. PICK k \in DexKeys(tx) : TRUE
    OBVIOUS
  <1>2. PICK i \in DOMAIN tx.instructions :
          /\ tx.instructions[i].program \in DexPrograms \ {k}
          /\ \E j \in DOMAIN tx.instructions[i].accounts :
               tx.instructions[i].accounts[j] = k
    BY <1>1 DEF DexKeys
  <1>3. PICK j \in DOMAIN tx.instructions[i].accounts :
          tx.instructions[i].accounts[j] = k
    BY <1>2
  <1>4. k \in Keys \ {tx.instructions[i].program, Wsol, SystemProgram}
    BY <1>1, <1>2 DEF DexKeys
  <1>5. j \in Names(tx.instructions[i])
    BY <1>3, <1>4, ListenerAssumption DEF Names
  <1>6. i \in Hits(tx)
    BY <1>2, <1>5 DEF Hits
  <1> QED
    BY <1>6

LEMMA HitIsUsable ==
  ASSUME NEW tx \in Transactions, NEW i \in Hits(tx),
         NEW j \in Names(tx.instructions[i])
  PROVE  tx.instructions[i].accounts[j] \in DexKeys(tx)
  <1> DEFINE k == tx.instructions[i].accounts[j]
  <1>1. /\ i \in DOMAIN tx.instructions /\ tx.instructions[i].program \in DexPrograms
        /\ j \in DOMAIN tx.instructions[i].accounts
        /\ k \in Keys /\ k \notin {tx.instructions[i].program, Wsol, SystemProgram}
    BY NameIsKey
  <1>2. /\ tx.instructions[i].program \in DexPrograms \ {k}
        /\ k \in Keys \ {Wsol, SystemProgram}
        /\ tx.instructions[i].accounts[j] = k
    BY <1>1
  <1> HIDE DEF k
  <1>3. k \in DexKeys(tx)
    BY <1>1, <1>2 DEF DexKeys
  <1> QED
    BY <1>3 DEF k

(* An event that finds room is the last in the channel.                    *)
LEMMA OneMore ==
  ASSUME Inv, NEW e \in Event, Deliver(<<e>>), ~receiverGone, Len(arbQ) < MigrationCap,
         NEW keys, e.token \in keys
  PROVE  Emits(e.slot, keys)
  <1>1. arbQ \in Seq(Event) /\ MigrationCap \in Nat
    BY ListenerAssumption DEF Inv
  <1>2. arbQ' = arbQ \o <<e>>
    BY <1>1 DEF Deliver, TrySend
  <1>3. Len(arbQ') = Len(arbQ) + 1 /\ arbQ'[Len(arbQ')] = e
    BY <1>1, <1>2
  <1> QED
    BY <1>3 DEF Emits

(* Every transaction with DEX activity yields exactly one event, for a     *)
(* usable account of one of its DEX instructions and at its slot, and every*)
(* account a DEX program owns one for itself, unless the channel is full or*)
(* closed; for any updates, programs and accounts                          *)
(* (src/listener/mod.rs:207-238, 247-266).                                 *)
THEOREM NothingOverlooked == Spec => DexActivityReported
  <1>1. ASSUME Inv, ~receiverGone, Len(arbQ) < MigrationCap,
               NEW tx \in Transactions, ProcessTransaction(tx), DexKeys(tx) # {}
        PROVE  Emits(tx.slot, DexKeys(tx))
    <2>1. PICK i \in Hits(tx) :
            \E j \in Names(tx.instructions[i]) :
              FromTransaction(tx) =
                <<[token |-> tx.instructions[i].accounts[j], slot |-> tx.slot]>>
      BY <1>1, UsableIsHit, EventOf
    <2>2. PICK j \in Names(tx.instructions[i]) :
            FromTransaction(tx) =
              <<[token |-> tx.instructions[i].accounts[j], slot |-> tx.slot]>>
      BY <2>1
    <2> DEFINE e == [token |-> tx.instructions[i].accounts[j], slot |-> tx.slot]
    <2>3. e \in Event
      BY NameIsKey DEF Event
    <2>4. Deliver(<<e>>)
      BY <1>1, <2>2 DEF ProcessTransaction
    <2>5. e.token \in DexKeys(tx) /\ e.slot = tx.slot
      BY HitIsUsable
    <2> HIDE DEF e
    <2>6. Emits(e.slot, DexKeys(tx))
      BY <1>1, <2>3, <2>4, <2>5, OneMore
    <2> QED
      BY <2>5, <2>6
  <1>2. ASSUME Inv, ~receiverGone, Len(arbQ) < MigrationCap,
               NEW u \in AccountUpdates, ProcessAccountUpdate(u),
               u.key \in Keys, u.owner \in DexPrograms
        PROVE  Emits(u.slot, {u.key})
    <2> DEFINE e == [token |-> u.key, slot |-> u.slot]
    <2>1. u.slot \in Nat
      BY UpdateAssumption DEF AccountUpdate
    <2>2. e \in Event /\ e.token \in {u.key} /\ e.slot = u.slot
      BY <1>2, <2>1 DEF Event
    <2>3. Deliver(<<e>>)
      BY <1>2, ListenerAssumption DEF ProcessAccountUpdate, FromAccountUpdate
    <2> HIDE DEF e
    <2>4. Emits(e.slot, {u.key})
      BY <1>2, <2>2, <2>3, OneMore
    <2> QED
      BY <2>2, <2>4
  <1>3. Inv /\ [Next]_vars => [ReportsActivity]_vars
    BY <1>1, <1>2 DEF ReportsActivity
  <1> QED
    BY Inductive, <1>3, PTL DEF Spec, DexActivityReported

=============================================================================
