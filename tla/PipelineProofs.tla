--------------------------- MODULE PipelineProofs ---------------------------
(***************************************************************************)
(* Proofs about Pipeline, for every value of its constants: each component *)
(* keeps to what the others expect of their environment, so what is proved *)
(* of a component alone holds of the bot; and what only the composition    *)
(* has: no component stops alone, no tip aborts the process, no event is   *)
(* spent twice, bundles of one token are spaced, and the bot implements    *)
(* what Bot promises.                                                      *)
(***************************************************************************)
EXTENDS Pipeline, FiniteSetTheorems, SequenceTheorems, TLAPS

LP == INSTANCE ListenerProofs WITH receiverGone <- scannerPc = "done"

SP == INSTANCE ScannerProofs WITH
        Tokens       <- Keys,
        MaxEvents    <- MaxUpdates,
        senderGone   <- listenerPc = "done",
        receiverGone <- executorPc = "done",
        delivered    <- Len(emitted)

EP == INSTANCE ExecutorProofs WITH
        Opportunities <- FoundOpportunities,
        MaxSent       <- MaxUpdates,
        sent          <- found

Seen == [token : Keys, slot : Slots]

-----------------------------------------------------------------------------
(* What the migration and the opportunity channel carry, and why the       *)
(* components' bounds fit: an event put on the migration channel is queued *)
(* there, evaluated, found to be an opportunity, or dropped, and each of   *)
(* these happens once.                                                     *)
Kinds ==
  /\ listenerPc \in {"check", "connecting", "streaming", "backoff", "done"}
  /\ scannerPc \in {"loop", "done"} /\ executorPc \in {"loop", "done"}
  /\ arbQ \in Seq(Seen) /\ emitted \in Seq(Seen)
  /\ oppQ \in Seq(FoundOpportunities)
  /\ evals \in [TaskIds -> S!Evaluations \cup {NoTask}]
  /\ now \in Nat /\ found \in Nat

EventsCounted ==
  /\ updates \in 0..MaxUpdates /\ Len(emitted) <= updates
  /\ found + Cardinality(Live) + Len(arbQ) <= Len(emitted)

SlotsPast ==
  /\ \A i \in DOMAIN arbQ : arbQ[i].slot <= now
  /\ \A t \in Live : evals[t].slot <= now

(* A loan amount of 0 is skipped before its quotes are asked for.          *)
LoansOffered ==
  \A t \in Live : evals[t].pc = "sell" => S!LoanAmounts[evals[t].loan] # 0

SendersCounted == oppSenderGone => scannerPc = "done" /\ Live = {}

Inv ==
  /\ Kinds /\ EventsCounted /\ SlotsPast /\ LoansOffered
  /\ SendersCounted /\ NobodyQuitsAlone

-----------------------------------------------------------------------------
(* Constants and data.                                                     *)

LEMMA ConstantKinds ==
  /\ Slots \subseteq Nat
  /\ MigrationCap \in Nat \ {0} /\ OpportunityCap \in Nat \ {0}
  /\ MaxUpdates \in Nat
  /\ IsFiniteSet(TaskIds)
  /\ MaxLoan \in Nat /\ MinProfit \in 0..(U64 - 1)
  /\ SellOutputs \subseteq 0..(U64 - 1)
  /\ NoTask \notin S!Evaluations
  <1>1. U64 \in Nat
    BY WordAssumption
  <1>2. S!ScannerAssumption /\ S!NoTaskAssumption
    BY PipelineAssumption
  <1>3. /\ Slots \subseteq Nat
        /\ MigrationCap \in Nat \ {0} /\ OpportunityCap \in Nat \ {0}
        /\ MaxUpdates \in Nat
        /\ S!IsFiniteSet(TaskIds)
    BY <1>2 DEF S!ScannerAssumption
  <1>4. IsFiniteSet(TaskIds)
    BY <1>3 DEF S!IsFiniteSet, IsFiniteSet
  <1>5. /\ MaxLoan \in 0..(U64 - 1) /\ MinProfit \in 0..(U64 - 1)
        /\ SellOutputs \subseteq 0..(U64 - 1)
    BY <1>2 DEF S!ScannerAssumption
  <1>6. MaxLoan \in Nat
    BY <1>1, <1>5
  <1>7. NoTask \notin S!Evaluations
    BY <1>2 DEF S!NoTaskAssumption
  <1> QED
    BY <1>3, <1>5, <1>6, <1>7, <1>4

LEMMA EvaluationFields ==
  ASSUME NEW r \in S!Evaluations
  PROVE  r.token \in Keys /\ r.slot \in Slots /\ r.loan \in 1..3
  BY DEF S!Evaluations

LEMMA AppendOne ==
  ASSUME NEW T, NEW s \in Seq(T), NEW e \in T
  PROVE  /\ Append(s, e) \in Seq(T)
         /\ Len(Append(s, e)) = Len(s) + 1
         /\ Append(s, e)[Len(s) + 1] = e
         /\ \A i \in 1..Len(s) : Append(s, e)[i] = s[i]
         /\ DOMAIN Append(s, e) = 1..(Len(s) + 1)
  OBVIOUS

(* What a step has put on the channel: nothing, or one event.              *)
LEMMA NothingAdded ==
  ASSUME NEW T, NEW U, NEW s \in Seq(T), NEW u \in Seq(U)
  PROVE  u \o SubSeq(s, Len(s) + 1, Len(s)) = u
  <1>1. SubSeq(s, Len(s) + 1, Len(s)) = << >>
    OBVIOUS
  <1>2. u \o << >> = u
    OBVIOUS
  <1> QED
    BY <1>1, <1>2

LEMMA OneAdded ==
  ASSUME NEW T, NEW U, NEW s \in Seq(T), NEW u \in Seq(U), NEW e \in T \cap U
  PROVE  u \o SubSeq(Append(s, e), Len(s) + 1, Len(Append(s, e))) = Append(u, e)
  <1>1. /\ Append(s, e) \in Seq(T) /\ Len(Append(s, e)) = Len(s) + 1
        /\ Append(s, e)[Len(s) + 1] = e
    BY AppendOne
  <1> DEFINE a == Append(s, e)
  <1> HIDE DEF a
  <1>2. a \in Seq(T) /\ Len(a) = Len(s) + 1 /\ a[Len(s) + 1] = e
    BY <1>1 DEF a
  <1>3. /\ Len(a) \in 1..Len(a) /\ a[Len(a)] = e
        /\ Len(a) + 1 \in Int /\ Len(a) \in Int /\ Len(a) < Len(a) + 1
    BY <1>2
  <1>4. SubSeq(a, Len(s) + 1, Len(a)) = <<e>>
    <2>1. SubSeq(a, Len(a), Len(a)) = <<a[Len(a)]>> \o SubSeq(a, Len(a) + 1, Len(a))
      BY <1>2, <1>3, SubSeqRecursiveFirst
    <2>2. SubSeq(a, Len(a) + 1, Len(a)) = << >>
      BY <1>3, SubSeqEmpty
    <2>3. <<e>> \o << >> = <<e>>
      OBVIOUS
    <2> QED
      BY <1>2, <1>3, <2>1, <2>2, <2>3
  <1>5. u \o <<e>> = Append(u, e)
    OBVIOUS
  <1> QED
    BY <1>4, <1>5 DEF a

LEMMA TailOne ==
  ASSUME NEW T, NEW s \in Seq(T), s # << >>
  PROVE  /\ Head(s) \in T /\ Tail(s) \in Seq(T) /\ Len(Tail(s)) = Len(s) - 1
         /\ Head(s) = s[1] /\ 1 \in DOMAIN s
         /\ \A i \in DOMAIN Tail(s) : i + 1 \in DOMAIN s /\ Tail(s)[i] = s[i + 1]
  OBVIOUS

(* The number of live tasks, when one is spawned and when one ends.        *)
LEMMA LiveFinite == ASSUME Kinds PROVE IsFiniteSet(Live) /\ Cardinality(Live) \in Nat
  <1>1. IsFiniteSet(Live)
    BY ConstantKinds, FS_Subset DEF Live
  <1> QED
    BY <1>1, FS_CardinalityType

LEMMA LiveSpawned ==
  ASSUME Kinds, NEW t \in TaskIds, evals[t] = NoTask, NEW r, r # NoTask,
         evals' = [evals EXCEPT ![t] = r]
  PROVE  Cardinality(Live') = Cardinality(Live) + 1
  <1>1. Live' = Live \cup {t} /\ t \notin Live
    BY DEF Live, Kinds
  <1> QED
    BY <1>1, LiveFinite, FS_AddElement

LEMMA LiveEnded ==
  ASSUME Kinds, NEW t \in TaskIds, evals[t] # NoTask,
         evals' = [evals EXCEPT ![t] = NoTask]
  PROVE  Cardinality(Live') = Cardinality(Live) - 1
  <1>1. Live' = Live \ {t} /\ t \in Live
    BY DEF Live, Kinds
  <1> QED
    BY <1>1, LiveFinite, FS_RemoveElement

LEMMA LiveKept ==
  ASSUME Kinds, NEW t \in TaskIds, evals[t] # NoTask, NEW r, r # NoTask,
         evals' = [evals EXCEPT ![t] = r]
  PROVE  Live' = Live
  BY DEF Live, Kinds

-----------------------------------------------------------------------------
(* What each component does to what the others see.                        *)

(* The listener puts at most one event on the channel for an update.       *)
LEMMA TransactionSeen ==
  ASSUME NEW tx \in Transactions
  PROVE  \/ L!FromTransaction(tx) = << >>
         \/ \E e \in Seen : L!FromTransaction(tx) = <<e>>
  <1>1. LP!ListenerAssumption /\ LP!UpdateAssumption
    BY PipelineAssumption
    DEF L!ListenerAssumption, LP!ListenerAssumption, L!UpdateAssumption, LP!UpdateAssumption,
        L!Transaction, LP!Transaction, L!AccountUpdate, LP!AccountUpdate,
        L!Instruction, LP!Instruction, L!Account, LP!Account
  <1>2. \/ LP!FromTransaction(tx) = << >>
        \/ \E e \in LP!Event : LP!FromTransaction(tx) = <<e>>
    BY <1>1, LP!TransactionEvents
  <1>3. LP!FromTransaction(tx) = L!FromTransaction(tx)
    BY DEF L!FromTransaction, LP!FromTransaction, L!Hits, LP!Hits, L!Names, LP!Names,
           L!Least, LP!Least
  <1>4. \/ L!FromTransaction(tx) = << >>
        \/ L!FromTransaction(tx)[1].slot = tx.slot
    BY DEF L!FromTransaction
  <1>5. tx.slot \in Slots
    BY PipelineAssumption
  <1> QED
    BY <1>2, <1>3, <1>4, <1>5 DEF LP!Event, Seen

LEMMA AccountSeen ==
  ASSUME NEW u \in AccountUpdates
  PROVE  \/ L!FromAccountUpdate(u) = << >>
         \/ \E e \in Seen : L!FromAccountUpdate(u) = <<e>>
  <1>1. u.slot \in Slots /\ u \in L!AccountUpdate
    BY PipelineAssumption DEF L!UpdateAssumption
  <1>2. u.key # Unreadable => u.key \in Keys
    BY <1>1 DEF L!AccountUpdate, L!Account
  <1> QED
    BY <1>1, <1>2 DEF L!FromAccountUpdate, Seen

(* The step in which an event reaches the scanner, as everyone sees it.    *)
Arrives(e) ==
  /\ listenerPc # "done" /\ scannerPc # "done"
  /\ listenerPc' = listenerPc
  /\ Len(arbQ) < MigrationCap
  /\ arbQ' = Append(arbQ, e) /\ emitted' = Append(emitted, e)
  /\ e.slot <= now
  /\ updates < MaxUpdates /\ updates' = updates + 1

LEMMA Delivers ==
  ASSUME Inv, NEW events, events = << >> \/ \E e \in Seen : events = <<e>>,
         ListenerMoves(L!Deliver(events))
  PROVE  \/ \E e \in Seen : Arrives(e)
         \/ /\ listenerPc' = listenerPc /\ arbQ' = arbQ /\ emitted' = emitted
            /\ updates' \in 0..MaxUpdates /\ updates' >= updates
  <1>1. /\ arbQ \in Seq(Seen) /\ emitted \in Seq(Seen) /\ MigrationCap \in Nat
        /\ updates \in 0..MaxUpdates /\ MaxUpdates \in Nat
        /\ now \in Nat
    BY ConstantKinds DEF Inv, Kinds, EventsCounted
  <1>2. /\ listenerPc = "streaming" /\ listenerPc' = listenerPc
        /\ updates < MaxUpdates /\ updates' = updates + 1
        /\ arbQ' = IF scannerPc = "done" \/ Len(arbQ) >= MigrationCap
                   THEN arbQ ELSE arbQ \o events
        /\ emitted' = emitted \o SubSeq(arbQ', Len(arbQ) + 1, Len(arbQ'))
        /\ \A i \in DOMAIN emitted' : emitted'[i].slot <= now
        /\ now' = now
    BY DEF ListenerMoves, L!Deliver, L!TrySend
  <1>3. CASE arbQ' = arbQ
    <2>1. emitted \o SubSeq(arbQ, Len(arbQ) + 1, Len(arbQ)) = emitted
      BY <1>1, NothingAdded
    <2>2. emitted' = emitted
      BY <1>2, <1>3, <2>1
    <2> QED
      BY <1>1, <1>2, <1>3, <2>2
  <1>4. ASSUME NEW e \in Seen, arbQ' = arbQ \o <<e>>,
               scannerPc # "done", ~(Len(arbQ) >= MigrationCap)
        PROVE  Arrives(e)
    <2>1. arbQ' = Append(arbQ, e)
      BY <1>1, <1>4
    <2>2. emitted \o SubSeq(Append(arbQ, e), Len(arbQ) + 1, Len(Append(arbQ, e)))
            = Append(emitted, e)
      BY <1>1, OneAdded
    <2>3. emitted' = Append(emitted, e)
      BY <1>2, <2>1, <2>2
    <2>4. Len(emitted) + 1 \in DOMAIN emitted' /\ emitted'[Len(emitted) + 1] = e
      BY <1>1, <2>3, AppendOne
    <2>5. e.slot <= now
      BY <1>2, <2>4
    <2> QED
      BY <1>1, <1>2, <1>4, <2>1, <2>3, <2>5 DEF Arrives
  <1>5. arbQ \o << >> = arbQ
    BY <1>1
  <1> QED
    BY <1>2, <1>3, <1>4, <1>5

LEMMA ListenerEffect ==
  ASSUME Inv, ListenerMoves(L!ListenerStep)
  PROVE  \/ \E e \in Seen : Arrives(e)
         \/ /\ arbQ' = arbQ /\ emitted' = emitted
            /\ listenerPc' \in {"check", "connecting", "streaming", "backoff", "done"}
            /\ updates' \in 0..MaxUpdates /\ updates' >= updates
            /\ listenerPc = "done" => listenerPc' = "done"
            /\ listenerPc' = "done" => cancelled
  <1>1. ASSUME NEW tx \in Transactions, L!ProcessTransaction(tx)
        PROVE  ListenerMoves(L!Deliver(L!FromTransaction(tx)))
    BY <1>1 DEF ListenerMoves, L!ProcessTransaction
  <1>2. ASSUME NEW u \in AccountUpdates, L!ProcessAccountUpdate(u)
        PROVE  ListenerMoves(L!Deliver(L!FromAccountUpdate(u)))
    BY <1>2 DEF ListenerMoves, L!ProcessAccountUpdate
  <1>3. L!IgnoreUpdate => ListenerMoves(L!Deliver(<< >>))
    BY DEF ListenerMoves, L!IgnoreUpdate
  <1>4. CASE L!Receive
    <2>1. listenerPc # "done"
      BY <1>4 DEF L!Receive, L!ProcessTransaction, L!ProcessAccountUpdate, L!IgnoreUpdate,
                  L!Deliver
    <2>2. PICK events : /\ events = << >> \/ \E e \in Seen : events = <<e>>
                        /\ ListenerMoves(L!Deliver(events))
      BY <1>1, <1>2, <1>3, <1>4, TransactionSeen, AccountSeen DEF L!Receive
    <2> QED
      BY <2>1, <2>2, Delivers DEF Inv, Kinds
  <1>5. CASE L!Control /\ updates' = updates
    <2>1. /\ arbQ \in Seq(Seen) /\ emitted \in Seq(Seen) /\ updates \in 0..MaxUpdates
          /\ listenerPc = "done" => cancelled
      BY DEF Inv, Kinds, EventsCounted, NobodyQuitsAlone
    <2>2. arbQ' = arbQ
      BY <1>5 DEF L!Control, L!StopIfCancelled, L!Connect, L!Subscribed, L!ConnectFails,
                  L!StreamEnds, L!StreamCancelled, L!BackoffOver, L!BackoffCancelled, L!Fails
    <2>3. /\ listenerPc' \in {"check", "connecting", "streaming", "backoff", "done"}
          /\ listenerPc # "done"
          /\ listenerPc' = "done" => cancelled
      BY <1>5 DEF L!Control, L!StopIfCancelled, L!Connect, L!Subscribed, L!ConnectFails,
                  L!StreamEnds, L!StreamCancelled, L!BackoffOver, L!BackoffCancelled, L!Fails
    <2>4. emitted \o SubSeq(arbQ, Len(arbQ) + 1, Len(arbQ)) = emitted
      BY <2>1, NothingAdded
    <2>5. emitted' = emitted
      BY <2>2, <2>4 DEF ListenerMoves
    <2> QED
      BY <1>5, <2>1, <2>2, <2>3, <2>5
  <1>6. L!Receive \/ (L!Control /\ updates' = updates)
    BY DEF ListenerMoves, L!ListenerStep
  <1> QED
    BY <1>4, <1>5, <1>6

(* An opportunity the scanner lets through earns the configured minimum on *)
(* a loan.                                                                 *)
Worth(o) == o.loan # 0 /\ EstimateProfit(o.loan, o.minOut) >= AsI64(MinProfit)

(* Two records, events or whatever is made of them, of one sighting.       *)
Same(e, r) == r.token = e.token /\ r.slot = e.slot

(* The steps of the scanner's loop and of its tasks, as everyone sees them.*)
TakesEvent ==
  /\ scannerPc = "loop" /\ scannerPc' = "loop"
  /\ arbQ # << >> /\ arbQ' = Tail(arbQ)
  /\ oppQ' = oppQ /\ found' = found
  /\ \/ evals' = evals /\ history' \in {history, Append(history, Head(arbQ))}
     \/ /\ history' = Append(history, Head(arbQ))
        /\ \E t \in TaskIds : \E r \in S!Evaluations :
             /\ evals[t] = NoTask /\ Same(Head(arbQ), r) /\ r.pc = "buy"
             /\ evals' = [evals EXCEPT ![t] = r]

ScannerReturns ==
  /\ scannerPc = "loop" /\ scannerPc' = "done"
  /\ arbQ' = << >>
  /\ oppQ' = oppQ /\ found' = found /\ evals' = evals /\ history' = history
  /\ cancelled \/ listenerPc = "done"

Continues(t) ==
  /\ evals[t] # NoTask
  /\ \E r \in S!Evaluations :
       /\ Same(evals[t], r)
       /\ r.pc = "sell" => S!LoanAmounts[r.loan] # 0
       /\ evals' = [evals EXCEPT ![t] = r]
  /\ scannerPc' = scannerPc /\ arbQ' = arbQ /\ history' = history
  /\ oppQ' = oppQ /\ found' = found

Ends(t) ==
  /\ evals[t] # NoTask
  /\ evals' = [evals EXCEPT ![t] = NoTask]
  /\ scannerPc' = scannerPc /\ arbQ' = arbQ /\ history' = history
  /\ oppQ' = oppQ /\ found' = found

Finds(t) ==
  /\ evals[t] # NoTask
  /\ evals' = [evals EXCEPT ![t] = NoTask]
  /\ scannerPc' = scannerPc /\ arbQ' = arbQ /\ history' = history
  /\ executorPc # "done" /\ Len(oppQ) < OpportunityCap
  /\ found' = found + 1
  /\ \E o \in FoundOpportunities :
       Worth(o) /\ Same(evals[t], o) /\ oppQ' = Append(oppQ, o)

LEMMA LoopEffect ==
  ASSUME Inv, ScannerMoves(S!HandleEvent)
  PROVE  TakesEvent
  <1>1. /\ arbQ \in Seq(Seen) /\ oppQ \in Seq(FoundOpportunities) /\ found \in Nat
    BY DEF Inv, Kinds
  <1>2. /\ scannerPc = "loop" /\ scannerPc' = "loop"
        /\ arbQ # << >> /\ arbQ' = Tail(arbQ)
        /\ oppQ' = oppQ
    BY DEF ScannerMoves, S!HandleEvent, S!SkipStale, S!SkipDuplicate, S!DropAtCapacity,
           S!SpawnEvaluation, S!Receive
  <1>3. found' = found
    BY <1>1, <1>2 DEF ScannerMoves
  <1>4. Head(arbQ) \in Seen
    BY <1>1, <1>2, TailOne
  <1>5. ASSUME NEW t \in TaskIds, S!SpawnEvaluation(t)
        PROVE  /\ history' = Append(history, Head(arbQ))
               /\ \E r \in S!Evaluations :
                    /\ evals[t] = NoTask /\ Same(Head(arbQ), r) /\ r.pc = "buy"
                    /\ evals' = [evals EXCEPT ![t] = r]
    <2> DEFINE r == [token |-> Head(arbQ).token, slot |-> Head(arbQ).slot,
                     loan |-> 1, pc |-> "buy"]
    <2>1. r \in S!Evaluations
      BY <1>4 DEF Seen, S!Evaluations
    <2>2. /\ evals[t] = NoTask /\ evals' = [evals EXCEPT ![t] = r]
          /\ history' = Append(history, Head(arbQ))
      BY <1>5 DEF S!SpawnEvaluation, S!Remember
    <2>3. Same(Head(arbQ), r) /\ r.pc = "buy"
      BY DEF Same
    <2> HIDE DEF r
    <2> QED
      BY <2>1, <2>2, <2>3
  <1>6. \/ evals' = evals /\ history' \in {history, Append(history, Head(arbQ))}
        \/ \E t \in TaskIds : S!SpawnEvaluation(t)
    BY DEF ScannerMoves, S!HandleEvent, S!SkipStale, S!SkipDuplicate, S!DropAtCapacity,
           S!Remember
  <1> QED
    BY <1>2, <1>3, <1>5, <1>6 DEF TakesEvent

(* An opportunity is one of those the executor expects.                    *)
LEMMA OpportunityFound ==
  ASSUME NEW t \in TaskIds, evals[t] \in S!Evaluations, NEW minOut \in SellOutputs,
         S!Profitable(t, minOut), S!Amount(t) # 0
  PROVE  /\ S!Opportunity(t, minOut) \in FoundOpportunities
         /\ Worth(S!Opportunity(t, minOut))
         /\ Same(evals[t], S!Opportunity(t, minOut))
  <1>1. evals[t].token \in Keys /\ evals[t].slot \in Slots /\ evals[t].loan \in 1..3
    BY EvaluationFields
  <1>2. S!Amount(t) \in {MaxLoan, MaxLoan \div 2, MaxLoan \div 4}
    BY <1>1 DEF S!Amount, S!LoanAmounts
  <1> DEFINE o == S!Opportunity(t, minOut)
  <1>3. o = [token |-> evals[t].token, slot |-> evals[t].slot,
             loan |-> S!Amount(t), minOut |-> minOut]
    BY DEF S!Opportunity
  <1> HIDE DEF o
  <1>4. o \in FoundOpportunities
    BY <1>1, <1>2, <1>3 DEF FoundOpportunities
  <1>5. o.loan = S!Amount(t) /\ o.minOut = minOut /\ Same(evals[t], o)
    BY <1>3 DEF Same
  <1>6. EstimateProfit(S!Amount(t), minOut) >= AsI64(MinProfit)
    BY DEF S!Profitable, S!EstimateProfit, EstimateProfit, S!WrapI64, WrapI64,
           S!AsI64, AsI64
  <1>7. Worth(o)
    BY <1>5, <1>6 DEF Worth
  <1> QED
    BY <1>4, <1>5, <1>7 DEF o

LEMMA TaskEffect ==
  ASSUME Inv, NEW t \in TaskIds, ScannerMoves(S!Evaluate(t))
  PROVE  Continues(t) \/ Ends(t) \/ Finds(t)
  <1>1. /\ oppQ \in Seq(FoundOpportunities) /\ found \in Nat
        /\ evals \in [TaskIds -> S!Evaluations \cup {NoTask}]
    BY DEF Inv, Kinds
  <1>2. evals[t] \in S!Evaluations /\ evals[t] # NoTask
    BY <1>1 DEF ScannerMoves, S!Evaluate, S!SkipZeroLoan, S!BuyQuoteFails, S!BuyQuoteUnusable,
           S!BuyQuoteArrives, S!SellQuoteFails, S!Unprofitable, S!OpportunitySent,
           S!OpportunityDropped, S!At
  <1>3. found' = found + (IF Len(oppQ') > Len(oppQ) THEN 1 ELSE 0)
    BY DEF ScannerMoves
  <1>4. oppQ' = oppQ => found' = found
    BY <1>1, <1>3
  <1>5. ASSUME NEW r, r = [evals[t] EXCEPT !.pc = "sell"]
                   \/ (evals[t].loan < 3 /\ r = [evals[t] EXCEPT !.loan = @ + 1])
        PROVE  r \in S!Evaluations /\ Same(evals[t], r)
    BY <1>2, <1>5 DEF S!Evaluations, Same
  <1>6. CASE /\ S!NextLoan(t) /\ evals[t].pc = "buy"
             /\ UNCHANGED <<arbQ, oppQ, scannerPc, history>>
    <2>1. CASE evals[t].loan < 3 /\ evals' = [evals EXCEPT ![t].loan = @ + 1]
      <3> DEFINE r == [evals[t] EXCEPT !.loan = @ + 1]
      <3>1. evals' = [evals EXCEPT ![t] = r]
        BY <2>1
      <3>2. r \in S!Evaluations /\ Same(evals[t], r)
        BY <2>1, <1>5
      <3>3. r.pc # "sell"
        BY <1>2, <1>6 DEF S!Evaluations
      <3> HIDE DEF r
      <3> QED
        BY <1>2, <1>4, <1>6, <3>1, <3>2, <3>3 DEF Continues
    <2>2. CASE S!Finish(t)
      BY <1>2, <1>4, <1>6, <2>2 DEF S!Finish, Ends
    <2> QED
      BY <1>6, <2>1, <2>2 DEF S!NextLoan
  <1>7. CASE S!BuyQuoteArrives(t)
    <2> DEFINE r == [evals[t] EXCEPT !.pc = "sell"]
    <2>1. evals' = [evals EXCEPT ![t] = r]
      BY <1>7 DEF S!BuyQuoteArrives
    <2>2. r \in S!Evaluations /\ Same(evals[t], r)
      BY <1>5
    <2>3. S!LoanAmounts[r.loan] # 0
      BY <1>2, <1>7 DEF S!BuyQuoteArrives, S!Amount, S!Evaluations
    <2> HIDE DEF r
    <2> QED
      BY <1>2, <1>4, <1>7, <2>1, <2>2, <2>3 DEF S!BuyQuoteArrives, Continues
  <1>8. CASE S!Finish(t) /\ UNCHANGED <<arbQ, oppQ, scannerPc, history>>
    BY <1>2, <1>4, <1>8 DEF S!Finish, Ends
  <1>9. CASE S!OpportunitySent(t)
    <2>1. PICK minOut \in SellOutputs :
            S!Profitable(t, minOut) /\ oppQ' = Append(oppQ, S!Opportunity(t, minOut))
      BY <1>9 DEF S!OpportunitySent
    <2>2. /\ S!Opportunity(t, minOut) \in FoundOpportunities
          /\ Worth(S!Opportunity(t, minOut))
          /\ Same(evals[t], S!Opportunity(t, minOut))
      <3>1. S!Amount(t) # 0
        BY <1>2, <1>9 DEF S!OpportunitySent, S!At, S!Amount, Inv, LoansOffered, Live
      <3> QED
        BY <1>2, <2>1, <3>1, OpportunityFound
    <2>3. Len(Append(oppQ, S!Opportunity(t, minOut))) = Len(oppQ) + 1
      BY <1>1, <2>2, AppendOne
    <2>4. found' = found + 1
      BY <1>1, <1>3, <2>1, <2>3
    <2>5. \E o \in FoundOpportunities :
            Worth(o) /\ Same(evals[t], o) /\ oppQ' = Append(oppQ, o)
      BY <2>1, <2>2
    <2> QED
      BY <1>2, <1>9, <2>4, <2>5 DEF S!OpportunitySent, S!Finish, Finds
  <1> QED
    BY <1>6, <1>7, <1>8, <1>9
    DEF ScannerMoves, S!Evaluate, S!SkipZeroLoan, S!BuyQuoteFails, S!BuyQuoteUnusable,
        S!SellQuoteFails, S!Unprofitable, S!OpportunityDropped, S!At

LEMMA ScannerEffect ==
  ASSUME Inv, ScannerMoves(S!ScannerStep)
  PROVE  TakesEvent \/ ScannerReturns \/ \E t \in TaskIds : (Continues(t) \/ Ends(t) \/ Finds(t))
  <1>1. CASE S!HandleEvent
    BY <1>1, LoopEffect DEF ScannerMoves
  <1>2. CASE S!ScannerCancel \/ S!ScannerSourceClosed
    <2>1. oppQ' = oppQ /\ oppQ \in Seq(FoundOpportunities) /\ found \in Nat
      BY <1>2 DEF S!ScannerCancel, S!ScannerSourceClosed, Inv, Kinds
    <2>2. found' = found
      BY <2>1 DEF ScannerMoves
    <2> QED
      BY <1>2, <2>1, <2>2 DEF S!ScannerCancel, S!ScannerSourceClosed, ScannerReturns
  <1>3. ASSUME NEW t \in TaskIds, S!Evaluate(t)
        PROVE  Continues(t) \/ Ends(t) \/ Finds(t)
    BY <1>3, TaskEffect DEF ScannerMoves
  <1> QED
    BY <1>1, <1>2, <1>3 DEF ScannerMoves, S!ScannerStep

(* The steps of the executor, as everyone sees them.                       *)
TakesOpportunity ==
  /\ executorPc = "loop" /\ executorPc' = "loop"
  /\ oppQ # << >> /\ oppQ' = Tail(oppQ)

ExecutorReturns ==
  /\ executorPc = "loop" /\ executorPc' = "done"
  /\ oppQ' = << >>
  /\ cancelled \/ oppSenderGone

LEMMA ExecutorEffect ==
  ASSUME E!ExecutorStep
  PROVE  TakesOpportunity \/ ExecutorReturns \/ UNCHANGED <<oppQ, executorPc>>
  <1>1. CASE E!HandleOpportunity
    BY <1>1 DEF E!HandleOpportunity, E!DropOpportunity, E!SpawnExecution,
                E!ReceiveOpportunity, TakesOpportunity
  <1>2. CASE E!ExecutorStops
    BY <1>2 DEF E!ExecutorStops, ExecutorReturns
  <1>3. ASSUME NEW t \in ExecIds, E!Execute(t) PROVE UNCHANGED <<oppQ, executorPc>>
    BY <1>3 DEF E!Execute, E!SlotStale, E!SlotFresh, E!BuyInstructions, E!NotProfitable,
                E!TipPanic, E!Tipped, E!Signed, E!SimulationPasses, E!GiveUp,
                E!JitoAccepts, E!Submitted, E!ReplyLost, E!Return, E!Goto
  <1> QED
    BY <1>1, <1>2, <1>3 DEF E!ExecutorStep

-----------------------------------------------------------------------------
(* The invariant is inductive.                                             *)

LEMMA InitInv == ASSUME Init PROVE Inv
  <1>1. /\ arbQ = << >> /\ emitted = << >> /\ oppQ = << >> /\ found = 0 /\ now = 0
        /\ updates = 0 /\ evals = [t \in TaskIds |-> NoTask] /\ oppSenderGone = FALSE
        /\ listenerPc = "check" /\ scannerPc = "loop" /\ executorPc = "loop"
    BY DEF Init, L!Init, S!Init, E!Init
  <1>2. Kinds
    BY <1>1 DEF Kinds
  <1>3. Live = {}
    BY <1>1 DEF Live
  <1>4. Cardinality(Live) = 0
    BY <1>3, FS_EmptySet
  <1>5. EventsCounted
    BY <1>1, <1>4, ConstantKinds DEF EventsCounted
  <1> QED
    BY <1>1, <1>2, <1>3, <1>5 DEF Inv, SlotsPast, LoansOffered, SendersCounted,
      NobodyQuitsAlone

LEMMA ListenerInv == ASSUME Inv, ListenerMoves(L!ListenerStep) PROVE Inv'
  <1>1. /\ UNCHANGED <<scannerPc, executorPc, evals, found, oppQ, now, cancelled, oppSenderGone>>
        /\ Live' = Live
    BY DEF ListenerMoves, scannerOnly, executorOnly, Live
  <1>2. /\ arbQ \in Seq(Seen) /\ emitted \in Seq(Seen) /\ updates \in 0..MaxUpdates
        /\ MaxUpdates \in Nat /\ found \in Nat /\ Cardinality(Live) \in Nat
    BY ConstantKinds, LiveFinite DEF Inv, Kinds, EventsCounted
  <1>3. ASSUME NEW e \in Seen, Arrives(e) PROVE Inv'
    <2>1. /\ arbQ' \in Seq(Seen) /\ Len(arbQ') = Len(arbQ) + 1
          /\ emitted' \in Seq(Seen) /\ Len(emitted') = Len(emitted) + 1
          /\ DOMAIN arbQ' = 1..(Len(arbQ) + 1)
          /\ arbQ'[Len(arbQ) + 1] = e
          /\ \A i \in 1..Len(arbQ) : arbQ'[i] = arbQ[i]
      BY <1>2, <1>3, AppendOne DEF Arrives
    <2>2. Kinds'
      BY <1>1, <1>3, <2>1 DEF Inv, Kinds, Arrives
    <2>3. EventsCounted'
      BY <1>1, <1>2, <1>3, <2>1 DEF Inv, EventsCounted, Arrives
    <2>4. SlotsPast'
      BY <1>1, <1>2, <1>3, <2>1 DEF Inv, SlotsPast, Arrives
    <2> QED
      BY <1>1, <1>3, <2>2, <2>3, <2>4
      DEF Inv, LoansOffered, SendersCounted, NobodyQuitsAlone, Arrives
  <1>4. ASSUME arbQ' = arbQ, emitted' = emitted,
               listenerPc' \in {"check", "connecting", "streaming", "backoff", "done"},
               updates' \in 0..MaxUpdates, updates' >= updates,
               listenerPc' = "done" => cancelled
        PROVE  Inv'
    <2>1. Kinds'
      BY <1>1, <1>4 DEF Inv, Kinds
    <2>2. EventsCounted'
      BY <1>1, <1>2, <1>4 DEF Inv, EventsCounted
    <2> QED
      BY <1>1, <1>4, <2>1, <2>2
      DEF Inv, SlotsPast, LoansOffered, SendersCounted, NobodyQuitsAlone
  <1> QED
    BY <1>3, <1>4, ListenerEffect

LEMMA TakenInv ==
  ASSUME Inv, TakesEvent, UNCHANGED <<listenerOnly, executorOnly, now, cancelled, oppSenderGone>>
  PROVE  Inv'
  <1>1. /\ arbQ \in Seq(Seen) /\ emitted \in Seq(Seen) /\ found \in Nat
        /\ evals \in [TaskIds -> S!Evaluations \cup {NoTask}]
        /\ Cardinality(Live) \in Nat /\ NoTask \notin S!Evaluations
    BY ConstantKinds, LiveFinite DEF Inv, Kinds
  <1>2. /\ Head(arbQ) \in Seen /\ arbQ' \in Seq(Seen) /\ Len(arbQ') = Len(arbQ) - 1
        /\ Head(arbQ).slot <= now
        /\ \A i \in DOMAIN arbQ' : arbQ'[i].slot <= now
    BY <1>1, TailOne DEF TakesEvent, Inv, SlotsPast
  <1>3. UNCHANGED <<listenerPc, updates, emitted, executorPc, now, cancelled, oppSenderGone>>
    BY DEF listenerOnly, executorOnly
  <1>4. /\ evals' \in [TaskIds -> S!Evaluations \cup {NoTask}]
        /\ Cardinality(Live') \in {Cardinality(Live), Cardinality(Live) + 1}
        /\ \A t \in Live' : evals'[t].slot <= now
        /\ LoansOffered'
    <2>1. CASE evals' = evals
      BY <1>1, <2>1 DEF Live, Inv, SlotsPast, LoansOffered
    <2>2. ASSUME NEW t \in TaskIds, NEW r \in S!Evaluations, evals[t] = NoTask,
                 Same(Head(arbQ), r), r.pc = "buy", evals' = [evals EXCEPT ![t] = r]
          PROVE  /\ evals' \in [TaskIds -> S!Evaluations \cup {NoTask}]
                 /\ Cardinality(Live') = Cardinality(Live) + 1
                 /\ \A u \in Live' : evals'[u].slot <= now
                 /\ LoansOffered'
      <3>1. Cardinality(Live') = Cardinality(Live) + 1
        BY <1>1, <2>2, LiveSpawned DEF Inv
      <3>2. evals' \in [TaskIds -> S!Evaluations \cup {NoTask}]
        BY <1>1, <2>2
      <3>3. \A u \in Live' : evals'[u].slot <= now
        BY <1>1, <1>2, <2>2 DEF Same, Live, Inv, SlotsPast
      <3>4. LoansOffered'
        BY <1>1, <2>2 DEF Live, Inv, LoansOffered
      <3> QED
        BY <3>1, <3>2, <3>3, <3>4
    <2> QED
      BY <2>1, <2>2 DEF TakesEvent
  <1>5. Kinds'
    BY <1>2, <1>3, <1>4 DEF TakesEvent, Inv, Kinds
  <1>6. EventsCounted'
    BY <1>1, <1>2, <1>3, <1>4 DEF TakesEvent, Inv, EventsCounted
  <1>7. SlotsPast'
    BY <1>2, <1>3, <1>4 DEF SlotsPast
  <1> QED
    BY <1>3, <1>4, <1>5, <1>6, <1>7 DEF TakesEvent, Inv, SendersCounted, NobodyQuitsAlone

LEMMA ReturnedInv ==
  ASSUME Inv, ScannerReturns,
         UNCHANGED <<listenerOnly, executorOnly, now, cancelled, oppSenderGone>>
  PROVE  Inv'
  <1>1. UNCHANGED <<listenerPc, updates, emitted, executorPc, now, cancelled, oppSenderGone>>
    BY DEF listenerOnly, executorOnly
  <1>2. /\ arbQ \in Seq(Seen) /\ emitted \in Seq(Seen) /\ found \in Nat
        /\ Cardinality(Live) \in Nat /\ Live' = Live
    BY LiveFinite DEF Inv, Kinds, Live, ScannerReturns
  <1>3. Kinds'
    BY <1>1 DEF ScannerReturns, Inv, Kinds
  <1>4. EventsCounted'
    BY <1>1, <1>2 DEF ScannerReturns, Inv, EventsCounted
  <1> QED
    BY <1>1, <1>2, <1>3, <1>4
    DEF ScannerReturns, Inv, SlotsPast, LoansOffered, SendersCounted, NobodyQuitsAlone

LEMMA EvaluatedInv ==
  ASSUME Inv, NEW t \in TaskIds, Continues(t) \/ Ends(t) \/ Finds(t),
         UNCHANGED <<listenerOnly, executorOnly, now, cancelled, oppSenderGone>>
  PROVE  Inv'
  <1>1. UNCHANGED <<listenerPc, updates, emitted, executorPc, now, cancelled, oppSenderGone>>
    BY DEF listenerOnly, executorOnly
  <1>2. /\ arbQ \in Seq(Seen) /\ emitted \in Seq(Seen) /\ found \in Nat
        /\ oppQ \in Seq(FoundOpportunities)
        /\ evals \in [TaskIds -> S!Evaluations \cup {NoTask}]
        /\ Cardinality(Live) \in Nat /\ NoTask \notin S!Evaluations
        /\ evals[t] # NoTask /\ t \in Live /\ ~oppSenderGone
        /\ arbQ' = arbQ /\ scannerPc' = scannerPc
    BY ConstantKinds, LiveFinite
    DEF Inv, Kinds, Live, SendersCounted, Continues, Ends, Finds
  <1>3. CASE Continues(t)
    <2>1. PICK r \in S!Evaluations :
            /\ Same(evals[t], r) /\ evals' = [evals EXCEPT ![t] = r]
            /\ r.pc = "sell" => S!LoanAmounts[r.loan] # 0
      BY <1>3 DEF Continues
    <2>2. Live' = Live
      BY <1>2, <2>1, LiveKept DEF Inv
    <2>3. evals' \in [TaskIds -> S!Evaluations \cup {NoTask}]
      BY <1>2, <2>1
    <2>4. Kinds'
      BY <1>1, <1>2, <1>3, <2>3 DEF Continues, Inv, Kinds
    <2>5. EventsCounted'
      BY <1>1, <1>2, <1>3, <2>2 DEF Continues, Inv, EventsCounted
    <2>6. \A u \in Live' : evals'[u].slot <= now
      BY <1>2, <2>1, <2>2 DEF Same, Live, Inv, SlotsPast
    <2>7. SlotsPast'
      BY <1>1, <1>2, <2>6 DEF Inv, SlotsPast
    <2>8. LoansOffered'
      BY <1>2, <2>1, <2>2 DEF Live, Inv, LoansOffered
    <2> QED
      BY <1>1, <1>2, <1>3, <2>4, <2>5, <2>7, <2>8
      DEF Inv, SendersCounted, NobodyQuitsAlone
  <1>4. CASE Ends(t) \/ Finds(t)
    <2>1. evals' = [evals EXCEPT ![t] = NoTask]
      BY <1>4 DEF Ends, Finds
    <2>2. Cardinality(Live') = Cardinality(Live) - 1
      BY <1>2, <2>1, LiveEnded DEF Inv
    <2>3. evals' \in [TaskIds -> S!Evaluations \cup {NoTask}]
      BY <1>2, <2>1
    <2>4. oppQ' \in Seq(FoundOpportunities) /\ found' \in Nat /\ found' <= found + 1
      <3>1. CASE Ends(t)
        BY <1>2, <3>1 DEF Ends
      <3>2. CASE Finds(t)
        <4>1. PICK o \in FoundOpportunities : oppQ' = Append(oppQ, o)
          BY <3>2 DEF Finds
        <4>2. oppQ' \in Seq(FoundOpportunities)
          BY <1>2, <4>1, AppendOne
        <4>3. found' = found + 1
          BY <3>2 DEF Finds
        <4> QED
          BY <1>2, <4>2, <4>3
      <3> QED
        BY <1>4, <3>1, <3>2
    <2>5. Kinds'
      BY <1>1, <1>2, <2>3, <2>4 DEF Inv, Kinds
    <2>6. EventsCounted'
      BY <1>1, <1>2, <2>2, <2>4 DEF Inv, EventsCounted
    <2>7. \A u \in Live' : evals'[u].slot <= now
      BY <1>2, <2>1 DEF Live, Inv, SlotsPast
    <2>8. SlotsPast'
      BY <1>1, <1>2, <2>7 DEF Inv, SlotsPast
    <2>9. LoansOffered'
      BY <1>2, <2>1 DEF Live, Inv, LoansOffered
    <2> QED
      BY <1>1, <1>2, <2>5, <2>6, <2>8, <2>9 DEF Inv, SendersCounted, NobodyQuitsAlone
  <1> QED
    BY <1>3, <1>4

LEMMA ScannerInv == ASSUME Inv, ScannerMoves(S!ScannerStep) PROVE Inv'
  BY ScannerEffect, TakenInv, ReturnedInv, EvaluatedInv DEF ScannerMoves

LEMMA ExecutorInv == ASSUME Inv, ExecutorMoves(E!ExecutorStep) PROVE Inv'
  <1>1. /\ UNCHANGED <<listenerPc, updates, emitted, scannerPc, evals, found, arbQ, now,
                       cancelled, oppSenderGone>>
        /\ Live' = Live
    BY DEF ExecutorMoves, listenerOnly, scannerOnly, Live
  <1>2. TakesOpportunity \/ ExecutorReturns \/ UNCHANGED <<oppQ, executorPc>>
    BY ExecutorEffect DEF ExecutorMoves
  <1>3. /\ oppQ' \in Seq(FoundOpportunities)
        /\ executorPc' \in {"loop", "done"}
        /\ executorPc' = "done" => cancelled
    <2>1. /\ oppQ \in Seq(FoundOpportunities) /\ executorPc \in {"loop", "done"}
          /\ oppSenderGone => cancelled
          /\ executorPc = "done" => cancelled
      BY DEF Inv, Kinds, SendersCounted, NobodyQuitsAlone
    <2>2. CASE TakesOpportunity
      BY <2>1, <2>2, TailOne DEF TakesOpportunity
    <2>3. CASE ExecutorReturns
      BY <2>1, <2>3 DEF ExecutorReturns
    <2>4. CASE UNCHANGED <<oppQ, executorPc>>
      BY <2>1, <2>4
    <2> QED
      BY <1>2, <2>2, <2>3, <2>4
  <1>4. Kinds'
    BY <1>1, <1>3 DEF Inv, Kinds
  <1> QED
    BY <1>1, <1>3, <1>4
    DEF Inv, EventsCounted, SlotsPast, LoansOffered, SendersCounted, NobodyQuitsAlone

LEMMA OthersInv ==
  ASSUME Inv, DropOppSender \/ Cancel \/ Network \/ Tick \/ Terminated
  PROVE  Inv'
  <1>1. /\ UNCHANGED <<listenerPc, updates, emitted, scannerPc, executorPc, evals, found,
                       arbQ, oppQ>>
        /\ Live' = Live
        /\ now \in Nat /\ now' \in Nat /\ now <= now'
        /\ cancelled => cancelled'
        /\ oppSenderGone' => oppSenderGone \/ (scannerPc = "done" /\ Live = {})
    BY DEF DropOppSender, Cancel, Network, L!NetworkDown, L!NetworkUp, L!listenerVars,
           Tick, E!Tick, E!executorVars, Terminated, vars, listenerOnly, scannerOnly,
           executorOnly, Live, Inv, Kinds
  <1>2. Kinds'
    BY <1>1 DEF Inv, Kinds
  <1>3. SlotsPast'
    <2>1. \A i \in DOMAIN arbQ : arbQ[i].slot \in Nat
      <3>1. \A i \in DOMAIN arbQ : arbQ[i] \in Seen
        BY DEF Inv, Kinds
      <3> QED
        BY <3>1, ConstantKinds DEF Seen
    <2>2. \A t \in Live : evals[t].slot \in Nat
      BY ConstantKinds, EvaluationFields DEF Live, Inv, Kinds
    <2> QED
      BY <1>1, <2>1, <2>2 DEF Inv, SlotsPast
  <1> QED
    BY <1>1, <1>2, <1>3
    DEF Inv, EventsCounted, LoansOffered, SendersCounted, NobodyQuitsAlone

LEMMA NextInv == ASSUME Inv, [Next]_vars PROVE Inv'
  <1>1. CASE UNCHANGED vars
    BY <1>1
    DEF vars, listenerOnly, scannerOnly, executorOnly, Live, Inv, Kinds, EventsCounted,
        SlotsPast, LoansOffered, SendersCounted, NobodyQuitsAlone
  <1>2. CASE Next
    BY <1>2, ListenerInv, ScannerInv, ExecutorInv, OthersInv DEF Next
  <1> QED
    BY <1>1, <1>2

THEOREM Invariance == Spec => []Inv
  BY InitInv, NextInv, PTL DEF Spec

(* No component returns while the others go on: run() returns only because *)
(* the token is cancelled, for any capacities, loads and programs          *)
(* (src/listener/mod.rs:44-74, src/scanner/mod.rs:46-54,                   *)
(* src/executor/mod.rs:45-53).                                             *)
THEOREM QuitTogether == Spec => []NobodyQuitsAlone
  <1>1. Inv => NobodyQuitsAlone
    BY DEF Inv
  <1> QED
    BY Invariance, <1>1, PTL

-----------------------------------------------------------------------------
(* Each component in the environment its module gives it.                  *)

LEMMA ListenerFits == ASSUME Inv, [Next]_vars PROVE [L!Next]_L!vars
  <1>1. CASE ListenerMoves(L!ListenerStep)
    BY <1>1 DEF ListenerMoves, scannerOnly, L!Next, L!Own
  <1>2. CASE ScannerMoves(S!ScannerStep)
    <2>1. UNCHANGED <<listenerPc, backoff, sustained, cancelled, network, stream, updates>>
      BY <1>2 DEF ScannerMoves, listenerOnly
    <2>2. CASE TakesEvent
      BY <2>1, <2>2 DEF TakesEvent, L!Next, L!Environment, L!TakeEvent
    <2>3. CASE ScannerReturns
      BY <2>1, <2>3 DEF ScannerReturns, L!Next, L!Environment, L!DropReceiver
    <2>4. ASSUME NEW t \in TaskIds, Continues(t) \/ Ends(t) \/ Finds(t)
          PROVE  UNCHANGED <<arbQ, scannerPc>>
      BY <2>4 DEF Continues, Ends, Finds
    <2>5. UNCHANGED <<arbQ, scannerPc>> => UNCHANGED L!vars
      BY <2>1 DEF L!vars, L!listenerVars
    <2> QED
      BY <1>2, <2>2, <2>3, <2>4, <2>5, ScannerEffect
  <1>3. CASE Cancel
    BY <1>3 DEF Cancel, listenerOnly, scannerOnly, L!Next, L!Environment, L!Cancel,
                L!listenerVars
  <1>4. CASE Network
    BY <1>4 DEF Network, L!Next, L!Environment
  <1>5. CASE \/ ExecutorMoves(E!ExecutorStep) \/ DropOppSender \/ Tick \/ Terminated
             \/ UNCHANGED vars
    <2>1. UNCHANGED <<listenerOnly, scannerOnly, arbQ, network, cancelled>>
      BY <1>5 DEF ExecutorMoves, DropOppSender, Tick, E!Tick, Terminated, vars
    <2> QED
      BY <2>1 DEF listenerOnly, scannerOnly, L!vars, L!listenerVars
  <1> QED
    BY <1>1, <1>2, <1>3, <1>4, <1>5 DEF Next

LEMMA ScannerFits == ASSUME Inv, [Next]_vars PROVE [S!Next]_S!vars
  <1>1. CASE ListenerMoves(L!ListenerStep)
    <2>1. UNCHANGED <<recentKeys, permits, evals, oppQ, scannerPc, history, cancelled, executorPc>>
      BY <1>1 DEF ListenerMoves, scannerOnly, executorOnly
    <2>2. ASSUME NEW e \in Seen, Arrives(e) PROVE S!Next
      <3>1. scannerPc = "loop" /\ Len(emitted) < MaxUpdates /\ emitted \in Seq(Seen)
            /\ updates \in 0..MaxUpdates /\ MaxUpdates \in Nat
        BY <2>2, ConstantKinds DEF Arrives, Inv, Kinds, EventsCounted
      <3>2. Len(emitted') = Len(emitted) + 1
        BY <2>2, <3>1, AppendOne DEF Arrives
      <3>3. S!Deliver(e)
        BY <2>1, <2>2, <3>1, <3>2 DEF Arrives, S!Deliver
      <3>4. e \in S!Events
        BY DEF Seen, S!Events
      <3> QED
        BY <3>3, <3>4 DEF S!Next, S!Environment
    <2>3. ASSUME arbQ' = arbQ, emitted' = emitted, listenerPc = "done" => listenerPc' = "done"
          PROVE  [S!Next]_S!vars
      <3>1. CASE listenerPc' = "done" /\ listenerPc # "done"
        BY <2>1, <2>3, <3>1 DEF S!Next, S!Environment, S!DropSender
      <3>2. CASE ~(listenerPc' = "done" /\ listenerPc # "done")
        <4>1. (listenerPc' = "done") = (listenerPc = "done")
          BY <2>3, <3>2
        <4> QED
          BY <2>1, <2>3, <4>1 DEF S!vars, S!envVars
      <3> QED
        BY <3>1, <3>2
    <2> QED
      BY <1>1, <2>2, <2>3, ListenerEffect
  <1>2. CASE ScannerMoves(S!ScannerStep)
    BY <1>2 DEF ScannerMoves, listenerOnly, executorOnly, S!Next, S!envVars
  <1>3. CASE ExecutorMoves(E!ExecutorStep)
    <2>1. UNCHANGED <<arbQ, recentKeys, permits, evals, scannerPc, history, cancelled,
                      listenerPc, emitted>>
      BY <1>3 DEF ExecutorMoves, listenerOnly, scannerOnly
    <2>2. CASE TakesOpportunity
      BY <2>1, <2>2 DEF TakesOpportunity, S!Next, S!Environment, S!TakeOpportunity, S!envVars
    <2>3. CASE ExecutorReturns
      BY <2>1, <2>3 DEF ExecutorReturns, S!Next, S!Environment, S!DropReceiver
    <2>4. UNCHANGED <<oppQ, executorPc>> => UNCHANGED S!vars
      BY <2>1 DEF S!vars, S!envVars
    <2> QED
      BY <1>3, <2>2, <2>3, <2>4, ExecutorEffect DEF ExecutorMoves
  <1>4. CASE Cancel
    BY <1>4 DEF Cancel, listenerOnly, scannerOnly, executorOnly, S!Next, S!Environment, S!Cancel
  <1>5. CASE DropOppSender \/ Network \/ Tick \/ Terminated \/ UNCHANGED vars
    <2>1. /\ UNCHANGED <<arbQ, scannerOnly, oppQ, cancelled, listenerPc, emitted>>
          /\ executorPc' = executorPc
      BY <1>5 DEF DropOppSender, Network, L!NetworkDown, L!NetworkUp, L!listenerVars, Tick,
                  E!Tick, E!executorVars, Terminated, vars, listenerOnly, executorOnly
    <2> QED
      BY <2>1 DEF scannerOnly, S!vars, S!envVars
  <1> QED
    BY <1>1, <1>2, <1>3, <1>4, <1>5 DEF Next

LEMMA ExecutorFits == ASSUME Inv, [Next]_vars PROVE [E!Next]_E!vars
  <1>1. CASE ScannerMoves(S!ScannerStep)
    <2>1. /\ ~crashed
          /\ UNCHANGED <<execPermits, execs, executorPc, crashed, taken, accepted, reported,
                         now, cancelled, oppSenderGone>>
      BY <1>1 DEF ScannerMoves, executorOnly
    <2>2. UNCHANGED <<oppQ, found>> => UNCHANGED E!vars
      BY <2>1 DEF E!vars, E!executorVars, E!execEnvVars
    <2>3. ASSUME NEW t \in TaskIds, Finds(t) PROVE E!Next
      <3>1. PICK o \in FoundOpportunities :
              Worth(o) /\ Same(evals[t], o) /\ oppQ' = Append(oppQ, o)
        BY <2>3 DEF Finds
      <3>2. t \in Live
        BY <2>3 DEF Finds, Live
      <3>3. ~oppSenderGone /\ o.slot <= now /\ executorPc = "loop"
        BY <2>3, <3>1, <3>2 DEF Same, Finds, Inv, Kinds, SlotsPast, SendersCounted
      <3>4. found < MaxUpdates
        <4>1. IsFiniteSet(Live) /\ Cardinality(Live) \in Nat
          BY LiveFinite DEF Inv
        <4>2. Cardinality(Live) # 0
          BY <3>2, <4>1, FS_EmptySet
        <4>3. /\ updates \in 0..MaxUpdates /\ Len(emitted) <= updates
              /\ found + Cardinality(Live) + Len(arbQ) <= Len(emitted)
              /\ found \in Nat /\ arbQ \in Seq(Seen) /\ emitted \in Seq(Seen)
              /\ MaxUpdates \in Nat
          BY ConstantKinds DEF Inv, Kinds, EventsCounted
        <4> QED
          BY <4>1, <4>2, <4>3
      <3>5. E!SendOpportunity(o)
        BY <2>1, <2>3, <3>1, <3>3, <3>4 DEF Finds, E!SendOpportunity
      <3> QED
        BY <2>1, <3>5 DEF E!Next, E!Environment
    <2>4. ASSUME NEW t \in TaskIds, Continues(t) \/ Ends(t) PROVE UNCHANGED <<oppQ, found>>
      BY <2>4 DEF Continues, Ends
    <2>5. TakesEvent \/ ScannerReturns => UNCHANGED <<oppQ, found>>
      BY DEF TakesEvent, ScannerReturns
    <2> QED
      BY <1>1, <2>2, <2>3, <2>4, <2>5, ScannerEffect
  <1>2. CASE ExecutorMoves(E!ExecutorStep)
    BY <1>2 DEF ExecutorMoves, scannerOnly, E!Next, E!execEnvVars
  <1>3. CASE DropOppSender
    BY <1>3 DEF DropOppSender, scannerOnly, executorOnly, E!Next, E!Environment,
                E!DropOppSender, E!executorVars
  <1>4. CASE Cancel
    BY <1>4 DEF Cancel, scannerOnly, executorOnly, E!Next, E!Environment, E!Cancel,
                E!executorVars
  <1>5. CASE Tick
    BY <1>5 DEF Tick, E!Next, E!Environment
  <1>6. CASE ListenerMoves(L!ListenerStep) \/ Network \/ Terminated \/ UNCHANGED vars
    <2>1. UNCHANGED <<scannerOnly, executorOnly, oppQ, now, cancelled, oppSenderGone>>
      BY <1>6 DEF ListenerMoves, Network, L!NetworkDown, L!NetworkUp, Terminated, vars
    <2> QED
      BY <2>1 DEF scannerOnly, executorOnly, E!vars, E!executorVars, E!execEnvVars
  <1> QED
    BY <1>1, <1>2, <1>3, <1>4, <1>5, <1>6 DEF Next

(* Composed with the others, each component behaves as it does in the      *)
(* environment of its own module, for any capacities, loads and schedules: *)
(* no channel is sent more than it was found able to hold, a Sender is not *)
(* gone while a task may still use it, and the token is only cancelled     *)
(* (src/main.rs:68-72, 123-160).                                           *)
THEOREM Composition == Spec => ComponentsFit
  <1>1. Init => L!Init /\ S!Init /\ E!Init
    BY DEF Init
  <1>2. Inv /\ [Next]_vars => [L!Next]_L!vars /\ [S!Next]_S!vars /\ [E!Next]_E!vars
    BY ListenerFits, ScannerFits, ExecutorFits
  <1> QED
    BY <1>1, <1>2, Invariance, PTL DEF Spec, ComponentsFit, L!Spec, S!Spec, E!Spec

-----------------------------------------------------------------------------
(* What is proved of a component holds in the bot.  EP, the instance that  *)
(* has the theorems, has the behaviours of E.                              *)
LEMMA ExecutorAssumptions ==
  EP!ExecutorAssumption /\ EP!NoTaskAssumption /\ EP!WordAssumption /\ EP!TipAssumption
  BY PipelineAssumption, WordAssumption, TipAssumption
  DEF E!ExecutorAssumption, EP!ExecutorAssumption, E!NoTaskAssumption, EP!NoTaskAssumption,
      EP!WordAssumption, EP!TipAssumption, E!MaxExec, EP!MaxExec,
      E!Executions, EP!Executions, E!AwaitPoints, EP!AwaitPoints, E!IsFiniteSet, EP!IsFiniteSet,
      E!Cardinality, EP!Cardinality

LEMMA SameExecutor == E!Spec => EP!Spec
  <1>1. E!Init => EP!Init
    BY DEF E!Init, EP!Init, E!MaxExec, EP!MaxExec
  <1>2. /\ (UNCHANGED E!vars) <=> (UNCHANGED EP!vars)
        /\ (UNCHANGED E!execEnvVars) <=> (UNCHANGED EP!execEnvVars)
    BY DEF E!vars, EP!vars, E!executorVars, EP!executorVars, E!execEnvVars, EP!execEnvVars
  <1>3. E!HandleOpportunity => EP!HandleOpportunity
    BY DEF E!HandleOpportunity, EP!HandleOpportunity, E!DropOpportunity, EP!DropOpportunity,
           E!SpawnExecution, EP!SpawnExecution, E!ReceiveOpportunity, EP!ReceiveOpportunity
  <1>4. E!ExecutorStops => EP!ExecutorStops
    BY DEF E!ExecutorStops, EP!ExecutorStops
  <1>5. ASSUME NEW t \in ExecIds, E!Execute(t) PROVE EP!Execute(t)
    <2>1. \A pc : E!At(t, pc) <=> EP!At(t, pc)
      BY DEF E!At, EP!At
    <2>2. /\ E!Return(t) <=> EP!Return(t)
          /\ \A pc : E!Goto(t, pc) <=> EP!Goto(t, pc)
      BY DEF E!Goto, EP!Goto, E!Return, EP!Return
    <2>3. E!Bundle(t) = EP!Bundle(t)
      BY DEF E!Bundle, EP!Bundle
    <2>4. /\ E!RpcSlots = EP!RpcSlots
          /\ \A o, s : E!IsFresh(o, s) <=> EP!IsFresh(o, s)
      BY DEF E!RpcSlots, EP!RpcSlots, E!IsFresh, EP!IsFresh, E!AddU64, EP!AddU64
    <2>5. \A o : E!Profit(o) = EP!Profit(o)
      BY DEF E!Profit, EP!Profit, E!EstimateProfit, EP!EstimateProfit,
             E!WrapI64, EP!WrapI64, E!AsI64, EP!AsI64
    <2>6. \A p : /\ E!TipPanics(p) <=> EP!TipPanics(p)
                 /\ E!DynamicJitoTip(p) = EP!DynamicJitoTip(p)
      BY DEF E!TipPanics, EP!TipPanics, E!DynamicJitoTip, EP!DynamicJitoTip,
             E!RawTip, EP!RawTip
    <2>7. /\ E!SlotStale(t) => EP!SlotStale(t)
          /\ E!SlotFresh(t) => EP!SlotFresh(t)
      BY <2>1, <2>2, <2>4 DEF E!SlotStale, EP!SlotStale, E!SlotFresh, EP!SlotFresh
    <2>8. E!BuyInstructions(t) => EP!BuyInstructions(t)
      BY <2>1, <2>2 DEF E!BuyInstructions, EP!BuyInstructions
    <2>9. E!NotProfitable(t) => EP!NotProfitable(t)
      BY <2>1, <2>2, <2>5 DEF E!NotProfitable, EP!NotProfitable
    <2>10. E!TipPanic(t) => EP!TipPanic(t)
      BY <2>1, <2>5, <2>6 DEF E!TipPanic, EP!TipPanic
    <2>11. E!Tipped(t) => EP!Tipped(t)
      BY <2>1, <2>5, <2>6 DEF E!Tipped, EP!Tipped
    <2>12. /\ E!Signed(t) => EP!Signed(t)
           /\ E!SimulationPasses(t) => EP!SimulationPasses(t)
      BY <2>1, <2>2 DEF E!Signed, EP!Signed, E!SimulationPasses, EP!SimulationPasses
    <2>13. E!GiveUp(t) => EP!GiveUp(t)
      BY <2>1, <2>2 DEF E!GiveUp, EP!GiveUp, E!AwaitPoints, EP!AwaitPoints
    <2>14. /\ E!JitoAccepts(t) => EP!JitoAccepts(t)
           /\ E!Submitted(t) => EP!Submitted(t)
           /\ E!ReplyLost(t) => EP!ReplyLost(t)
      BY <2>1, <2>2, <2>3
      DEF E!JitoAccepts, EP!JitoAccepts, E!Submitted, EP!Submitted, E!ReplyLost, EP!ReplyLost
    <2> QED
      BY <1>5, <2>7, <2>8, <2>9, <2>10, <2>11, <2>12, <2>13, <2>14
      DEF E!Execute, EP!Execute
  <1>6. E!ExecutorStep => EP!ExecutorStep
    BY <1>3, <1>4, <1>5 DEF E!ExecutorStep, EP!ExecutorStep
  <1>7. E!Environment => EP!Environment
    BY DEF E!Environment, EP!Environment, E!Tick, EP!Tick, E!At, EP!At,
           E!AwaitPoints, EP!AwaitPoints, E!DropOppSender, EP!DropOppSender,
           E!Cancel, EP!Cancel, E!SendOpportunity, EP!SendOpportunity,
           E!executorVars, EP!executorVars
  <1>8. E!Terminated => EP!Terminated
    BY <1>2 DEF E!Terminated, EP!Terminated
  <1>9. [E!Next]_E!vars => [EP!Next]_EP!vars
    BY <1>2, <1>6, <1>7, <1>8 DEF E!Next, EP!Next
  <1> QED
    BY <1>1, <1>9, PTL DEF E!Spec, EP!Spec

(* Every bundle the bot submits is worth it (src/executor/mod.rs:131-139,  *)
(* 236), with the scanner and the listener that it has.                    *)
THEOREM BotBundlesPayOff == Spec => []E!BundlesWorthIt
  <1>1. EP!Spec => []EP!BundlesWorthIt
    BY ExecutorAssumptions, EP!BundlesPayOff
  <1>2. EP!BundlesWorthIt => E!BundlesWorthIt
    BY DEF EP!BundlesWorthIt, E!BundlesWorthIt, EP!Profit, E!Profit,
           EP!EstimateProfit, E!EstimateProfit, EP!WrapI64, E!WrapI64, EP!AsI64, E!AsI64
  <1> QED
    BY <1>1, <1>2, Composition, SameExecutor, PTL DEF ComponentsFit

(* Of every opportunity the bot takes up it submits one bundle at most     *)
(* (src/executor/mod.rs:62-81, 236-242).                                   *)
THEOREM BotSpendsOnce == Spec => []E!OpportunitiesSpentOnce
  <1>1. EP!Spec => []EP!OpportunitiesSpentOnce
    BY ExecutorAssumptions, EP!SpentOnceHolds
  <1>2. EP!OpportunitiesSpentOnce => E!OpportunitiesSpentOnce
    BY DEF EP!OpportunitiesSpentOnce, E!OpportunitiesSpentOnce, EP!Live, E!Live,
           EP!Cardinality, E!Cardinality, EP!IsFiniteSet, E!IsFiniteSet
  <1> QED
    BY <1>1, <1>2, Composition, SameExecutor, PTL DEF ComponentsFit

-----------------------------------------------------------------------------
(* The same for the scanner.                                               *)
LEMMA ScannerAssumptions ==
  SP!ScannerAssumption /\ SP!NoTaskAssumption /\ SP!WordAssumption /\ SP!TipAssumption
  BY PipelineAssumption, WordAssumption, TipAssumption
  DEF S!ScannerAssumption, SP!ScannerAssumption, S!NoTaskAssumption, SP!NoTaskAssumption,
      SP!WordAssumption, SP!TipAssumption, S!MaxConcurrency, SP!MaxConcurrency,
      S!Evaluations, SP!Evaluations, S!IsFiniteSet, SP!IsFiniteSet,
      S!Cardinality, SP!Cardinality

LEMMA SameScanner == S!Spec => SP!Spec
  <1>1. S!Init => SP!Init
    BY DEF S!Init, SP!Init, S!MaxConcurrency, SP!MaxConcurrency
  <1>2. /\ (UNCHANGED S!vars) <=> (UNCHANGED SP!vars)
        /\ (UNCHANGED S!envVars) <=> (UNCHANGED SP!envVars)
    BY DEF S!vars, SP!vars, S!envVars, SP!envVars
  <1>3. S!HandleEvent => SP!HandleEvent
    <2>1. \A e : /\ S!IsStale(e) <=> SP!IsStale(e)
                 /\ S!IsDuplicate(e) <=> SP!IsDuplicate(e)
                 /\ S!Remember(e) <=> SP!Remember(e)
      BY DEF S!IsStale, SP!IsStale, S!IsDuplicate, SP!IsDuplicate, S!Remember, SP!Remember,
             S!AddU64, SP!AddU64
    <2>2. /\ S!SkipStale => SP!SkipStale
          /\ S!SkipDuplicate => SP!SkipDuplicate
          /\ S!DropAtCapacity => SP!DropAtCapacity
      BY <2>1 DEF S!SkipStale, SP!SkipStale, S!SkipDuplicate, SP!SkipDuplicate,
                  S!DropAtCapacity, SP!DropAtCapacity, S!Receive, SP!Receive
    <2>3. ASSUME NEW t \in TaskIds, S!SpawnEvaluation(t) PROVE SP!SpawnEvaluation(t)
      BY <2>1, <2>3 DEF S!SpawnEvaluation, SP!SpawnEvaluation, S!Receive, SP!Receive
    <2> QED
      BY <2>2, <2>3 DEF S!HandleEvent, SP!HandleEvent
  <1>4. /\ S!ScannerCancel => SP!ScannerCancel
        /\ S!ScannerSourceClosed => SP!ScannerSourceClosed
    BY DEF S!ScannerCancel, SP!ScannerCancel, S!ScannerSourceClosed, SP!ScannerSourceClosed
  <1>5. ASSUME NEW t \in TaskIds, S!Evaluate(t) PROVE SP!Evaluate(t)
    <2>1. /\ \A pc : S!At(t, pc) <=> SP!At(t, pc)
          /\ S!Amount(t) = SP!Amount(t)
      BY DEF S!At, SP!At, S!Amount, SP!Amount, S!LoanAmounts, SP!LoanAmounts
    <2>2. S!Finish(t) <=> SP!Finish(t)
      BY DEF S!Finish, SP!Finish
    <2>3. S!NextLoan(t) <=> SP!NextLoan(t)
      BY <2>2 DEF S!NextLoan, SP!NextLoan
    <2>4. \A minOut : /\ S!Profitable(t, minOut) <=> SP!Profitable(t, minOut)
                      /\ S!Opportunity(t, minOut) = SP!Opportunity(t, minOut)
      BY <2>1 DEF S!Profitable, SP!Profitable, S!Opportunity, SP!Opportunity,
                  S!EstimateProfit, SP!EstimateProfit, S!WrapI64, SP!WrapI64,
                  S!AsI64, SP!AsI64
    <2>5. S!SkipZeroLoan(t) => SP!SkipZeroLoan(t)
      BY <2>1, <2>3 DEF S!SkipZeroLoan, SP!SkipZeroLoan
    <2>6. /\ S!BuyQuoteFails(t) => SP!BuyQuoteFails(t)
          /\ S!BuyQuoteUnusable(t) => SP!BuyQuoteUnusable(t)
          /\ S!BuyQuoteArrives(t) => SP!BuyQuoteArrives(t)
      BY <2>1, <2>2, <2>3 DEF S!BuyQuoteFails, SP!BuyQuoteFails, S!BuyQuoteUnusable,
         SP!BuyQuoteUnusable, S!BuyQuoteArrives, SP!BuyQuoteArrives
    <2>7. /\ S!SellQuoteFails(t) => SP!SellQuoteFails(t)
          /\ S!Unprofitable(t) => SP!Unprofitable(t)
      BY <2>1, <2>2, <2>4 DEF S!SellQuoteFails, SP!SellQuoteFails, S!Unprofitable,
         SP!Unprofitable
    <2>8. /\ S!OpportunitySent(t) => SP!OpportunitySent(t)
          /\ S!OpportunityDropped(t) => SP!OpportunityDropped(t)
      BY <2>1, <2>2, <2>4 DEF S!OpportunitySent, SP!OpportunitySent, S!OpportunityDropped,
         SP!OpportunityDropped
    <2> QED
      BY <1>5, <2>5, <2>6, <2>7, <2>8 DEF S!Evaluate, SP!Evaluate
  <1>6. S!ScannerStep => SP!ScannerStep
    BY <1>3, <1>4, <1>5 DEF S!ScannerStep, SP!ScannerStep
  <1>7. S!Environment => SP!Environment
    <2>1. ASSUME NEW e, S!Deliver(e) PROVE SP!Deliver(e)
      BY <2>1 DEF S!Deliver, SP!Deliver
    <2> QED
      BY <1>2, <2>1 DEF S!Environment, SP!Environment, S!Events, SP!Events,
         S!TakeOpportunity, SP!TakeOpportunity, S!DropReceiver, SP!DropReceiver,
         S!DropSender, SP!DropSender, S!Cancel, SP!Cancel
  <1>8. S!Terminated => SP!Terminated
    BY <1>2 DEF S!Terminated, SP!Terminated
  <1>9. [S!Next]_S!vars => [SP!Next]_SP!vars
    BY <1>2, <1>6, <1>7, <1>8 DEF S!Next, SP!Next
  <1> QED
    BY <1>1, <1>9, PTL DEF S!Spec, SP!Spec

(* No event of the bot's listener becomes two opportunities, whatever its  *)
(* executor does meanwhile (src/scanner/mod.rs:98-103, 166-171).           *)
THEOREM BotAdmissionsSpentOnce == Spec => []S!AdmissionsSpentOnce
  <1>1. SP!Spec => []SP!AdmissionsSpentOnce
    BY ScannerAssumptions, SP!SpentOnce
  <1>2. SP!AdmissionsSpentOnce => S!AdmissionsSpentOnce
    BY DEF SP!AdmissionsSpentOnce, S!AdmissionsSpentOnce, SP!Events, S!Events,
           SP!Live, S!Live, SP!Cardinality, S!Cardinality, SP!IsFiniteSet, S!IsFiniteSet
  <1> QED
    BY <1>1, <1>2, Composition, SameScanner, PTL DEF ComponentsFit

LEMMA ExecutorTyped == Spec => []E!TypeOK
  <1>1. EP!Spec => []EP!TypeOK
    BY ExecutorAssumptions, EP!TypeCorrect
  <1>2. EP!TypeOK => E!TypeOK
    BY DEF EP!TypeOK, E!TypeOK, EP!MaxExec, E!MaxExec, EP!Executions, E!Executions,
           EP!AwaitPoints, E!AwaitPoints, EP!Bundles, E!Bundles
  <1> QED
    BY <1>1, <1>2, Composition, SameExecutor, PTL DEF ComponentsFit

-----------------------------------------------------------------------------
(* No tip aborts the process.  What the scanner let through is worth it    *)
(* wherever it is: in the channel, or in a task of the executor, which     *)
(* estimates the profit again and computes the tip from it.                *)
AllWorth ==
  /\ \A i \in DOMAIN oppQ : Worth(oppQ[i])
  /\ \A t \in ExecIds : execs[t] # NoTask => Worth(execs[t].opp)

LEMMA FoundWord ==
  ASSUME NEW o \in FoundOpportunities
  PROVE  o.loan \in 0..(U64 - 1) /\ o.minOut \in 0..(U64 - 1)
  BY PipelineAssumption DEF E!ExecutorAssumption

(* A worthy profit can be tipped: see PanicRange of AssemblyProofs.        *)
LEMMA WorthTips ==
  ASSUME NEW o \in FoundOpportunities, Worth(o),
         2 * MinTip <= MinProfit, MinProfit < U64 \div 2
  PROVE  ~E!TipPanics(E!Profit(o))
  <1>1. U64 \in Nat /\ TxCost \in Nat /\ MinTip \in Nat /\ MinProfit \in Int
    BY WordAssumption, TipAssumption, ConstantKinds
  <1>2. AsI64(o.minOut) \in Int /\ AsI64(o.loan) \in Int
    BY <1>1, FoundWord DEF AsI64
  <1> DEFINE profit == EstimateProfit(o.loan, o.minOut)
  <1>3. profit \in Int
    <2> DEFINE x == AsI64(o.minOut) - AsI64(o.loan) - TxCost
    <2>1. x \in Int
      BY <1>1, <1>2
    <2> HIDE DEF x
    <2>2. WrapI64(x) \in Int
      BY <1>1, <2>1, WordAssumption DEF WrapI64
    <2> QED
      BY <2>2 DEF EstimateProfit, x
  <1>4. E!Profit(o) = profit
    BY DEF E!Profit, E!EstimateProfit, EstimateProfit, E!WrapI64, WrapI64, E!AsI64, AsI64
  <1>5. profit >= MinProfit
    BY DEF Worth, AsI64
  <1> HIDE DEF profit
  <1>6. ~(profit < 2 * MinTip)
    BY <1>1, <1>3, <1>5
  <1>7. ~TipPanics(profit)
    BY <1>3, <1>6, TipAssumption DEF TipPanics
  <1> QED
    BY <1>4, <1>7 DEF E!TipPanics, TipPanics

LEMMA WorthTaken ==
  ASSUME Inv, E!TypeOK, AllWorth, ExecutorMoves(E!ExecutorStep)
  PROVE  AllWorth'
  <1>1. /\ oppQ \in Seq(FoundOpportunities)
        /\ execs \in [ExecIds -> E!Executions \cup {NoTask}]
    BY DEF E!TypeOK, Inv, Kinds
  <1>2. \A o : Worth(o)' <=> Worth(o)
    BY DEF Worth
  <1>3. \A i \in DOMAIN oppQ' : Worth(oppQ'[i])
    <2>1. CASE TakesOpportunity
      BY <1>1, <2>1, TailOne DEF TakesOpportunity, AllWorth
    <2>2. CASE ExecutorReturns
      BY <2>2 DEF ExecutorReturns
    <2>3. CASE UNCHANGED <<oppQ, executorPc>>
      BY <2>3 DEF AllWorth
    <2> QED
      BY <2>1, <2>2, <2>3, ExecutorEffect DEF ExecutorMoves
  <1>4. \A t \in ExecIds : execs'[t] # NoTask => Worth(execs'[t].opp)
    <2>1. CASE E!DropOpportunity \/ E!ExecutorStops
      BY <2>1 DEF E!DropOpportunity, E!ExecutorStops, AllWorth
    <2>2. ASSUME NEW u \in ExecIds, E!SpawnExecution(u)
          PROVE  \A t \in ExecIds : execs'[t] # NoTask => Worth(execs'[t].opp)
      <3>1. /\ oppQ # << >>
            /\ execs' = [execs EXCEPT ![u] =
                            [opp |-> Head(oppQ), pc |-> "slot", tip |-> 0, since |-> now]]
        BY <2>2 DEF E!SpawnExecution, E!ReceiveOpportunity
      <3>2. Worth(Head(oppQ))
        BY <1>1, <3>1, TailOne DEF AllWorth
      <3> QED
        BY <1>1, <3>1, <3>2 DEF AllWorth
    <2>3. ASSUME NEW u \in ExecIds, E!Execute(u)
          PROVE  \A t \in ExecIds : execs'[t] # NoTask => Worth(execs'[t].opp)
      <3>1. /\ execs[u] \in E!Executions
            /\ \/ execs' = execs
               \/ execs' = [execs EXCEPT ![u] = NoTask]
               \/ \E pc : execs' = [execs EXCEPT ![u].pc = pc]
               \/ \E pc : execs' = [execs EXCEPT ![u].pc = pc, ![u].since = now]
               \/ \E pc, tip : execs' = [execs EXCEPT ![u].pc = pc, ![u].tip = tip,
                                                     ![u].since = now]
        <4>1. CASE \/ E!SlotFresh(u) \/ E!BuyInstructions(u)
                   \/ E!Signed(u) \/ E!SimulationPasses(u)
          <5>1. \E pc : execs' = [execs EXCEPT ![u].pc = pc, ![u].since = now]
            BY <4>1 DEF E!SlotFresh, E!BuyInstructions, E!Signed, E!SimulationPasses, E!Goto
          <5> QED
            BY <1>1, <4>1, <5>1
            DEF E!SlotFresh, E!BuyInstructions, E!Signed, E!SimulationPasses, E!At
        <4>2. CASE E!Tipped(u)
          <5>1. \E pc, tip : execs' = [execs EXCEPT ![u].pc = pc, ![u].tip = tip,
                                                   ![u].since = now]
            BY <4>2 DEF E!Tipped
          <5> QED
            BY <1>1, <4>2, <5>1 DEF E!Tipped, E!At
        <4>3. CASE \/ E!SlotStale(u) \/ E!NotProfitable(u) \/ E!TipPanic(u) \/ E!GiveUp(u)
                   \/ E!JitoAccepts(u) \/ E!Submitted(u) \/ E!ReplyLost(u)
          BY <1>1, <4>3
          DEF E!SlotStale, E!NotProfitable, E!TipPanic, E!GiveUp, E!JitoAccepts,
              E!Submitted, E!ReplyLost, E!Return, E!At
        <4> QED
          BY <2>3, <4>1, <4>2, <4>3 DEF E!Execute
      <3>2. NoTask \notin E!Executions
        BY PipelineAssumption DEF E!NoTaskAssumption
      <3>3. execs[u] # NoTask
        BY <3>1, <3>2
      <3>4. \A t \in ExecIds \ {u} : execs'[t] = execs[t]
        BY <1>1, <3>1
      <3>5. execs'[u] # NoTask => execs'[u].opp = execs[u].opp
        <4>1. CASE execs' = execs
          BY <4>1
        <4>2. CASE execs' = [execs EXCEPT ![u] = NoTask]
          BY <1>1, <4>2
        <4>3. CASE \E pc : execs' = [execs EXCEPT ![u].pc = pc]
          <5>1. PICK pc : execs' = [execs EXCEPT ![u].pc = pc]
            BY <4>3
          <5>2. execs'[u] = [execs[u] EXCEPT !.pc = pc]
            BY <1>1, <5>1
          <5> QED
            BY <3>1, <5>2 DEF E!Executions
        <4>4. CASE \E pc : execs' = [execs EXCEPT ![u].pc = pc, ![u].since = now]
          <5>1. PICK pc : execs' = [execs EXCEPT ![u].pc = pc, ![u].since = now]
            BY <4>4
          <5>2. execs'[u] = [execs[u] EXCEPT !.pc = pc, !.since = now]
            BY <1>1, <5>1
          <5> QED
            BY <3>1, <5>2 DEF E!Executions
        <4>5. CASE \E pc, tip : execs' = [execs EXCEPT ![u].pc = pc, ![u].tip = tip,
                                                      ![u].since = now]
          <5>1. PICK pc, tip : execs' = [execs EXCEPT ![u].pc = pc, ![u].tip = tip,
                                                      ![u].since = now]
            BY <4>5
          <5>2. execs'[u] = [execs[u] EXCEPT !.pc = pc, !.tip = tip, !.since = now]
            BY <1>1, <5>1
          <5> QED
            BY <3>1, <5>2 DEF E!Executions
        <4> QED
          BY <3>1, <4>1, <4>2, <4>3, <4>4, <4>5
      <3> QED
        BY <3>3, <3>4, <3>5 DEF AllWorth
    <2> QED
      BY <2>1, <2>2, <2>3 DEF ExecutorMoves, E!ExecutorStep, E!HandleOpportunity
  <1> QED
    BY <1>2, <1>3, <1>4 DEF AllWorth

LEMMA WorthStep ==
  ASSUME Inv, E!TypeOK, AllWorth, [Next]_vars
  PROVE  AllWorth'
  <1>1. \A o : Worth(o)' <=> Worth(o)
    BY DEF Worth
  <1>2. UNCHANGED <<oppQ, execs>> => AllWorth'
    BY DEF AllWorth, Worth
  <1>3. CASE ScannerMoves(S!ScannerStep)
    <2>1. execs' = execs
      BY <1>3 DEF ScannerMoves, executorOnly
    <2>2. ASSUME NEW t \in TaskIds, Finds(t) PROVE AllWorth'
      <3>1. PICK o \in FoundOpportunities : Worth(o) /\ oppQ' = Append(oppQ, o)
        BY <2>2 DEF Finds
      <3>2. oppQ \in Seq(FoundOpportunities)
        BY DEF Inv, Kinds
      <3>3. \A i \in DOMAIN oppQ' : Worth(oppQ'[i])
        BY <3>1, <3>2, AppendOne DEF AllWorth
      <3> QED
        BY <2>1, <3>3 DEF AllWorth, Worth
    <2>3. oppQ' = oppQ \/ \E t \in TaskIds : Finds(t)
      BY <1>3, ScannerEffect DEF TakesEvent, ScannerReturns, Continues, Ends
    <2> QED
      BY <1>2, <2>1, <2>2, <2>3
  <1>4. CASE ExecutorMoves(E!ExecutorStep)
    BY <1>4, WorthTaken
  <1>5. CASE ListenerMoves(L!ListenerStep) \/ DropOppSender \/ Cancel \/ Network
    BY <1>2, <1>5 DEF ListenerMoves, DropOppSender, Cancel, Network, executorOnly
  <1>6. CASE Tick \/ Terminated \/ UNCHANGED vars
    BY <1>2, <1>6 DEF Tick, E!Tick, E!executorVars, Terminated, vars, executorOnly
  <1> QED
    BY <1>3, <1>4, <1>5, <1>6 DEF Next

LEMMA NoAbort ==
  ASSUME Inv, E!TypeOK, AllWorth, NeverAborts, [Next]_vars
  PROVE  NeverAborts'
  <1> SUFFICES ASSUME 2 * MinTip <= MinProfit, MinProfit < U64 \div 2, ~crashed
               PROVE  ~crashed'
    BY DEF NeverAborts
  <1>1. CASE ExecutorMoves(E!ExecutorStep)
    <2>1. ASSUME NEW t \in ExecIds, E!TipPanic(t) PROVE FALSE
      <3>1. execs[t] # NoTask /\ execs[t] \in E!Executions
        BY <2>1 DEF E!TipPanic, E!At, E!TypeOK
      <3>2. Worth(execs[t].opp) /\ execs[t].opp \in FoundOpportunities
        BY <3>1 DEF AllWorth, E!Executions
      <3> QED
        BY <2>1, <3>2, WorthTips DEF E!TipPanic
    <2>2. crashed' = crashed \/ \E t \in ExecIds : E!TipPanic(t)
      BY <1>1
      DEF ExecutorMoves, E!ExecutorStep, E!HandleOpportunity, E!DropOpportunity,
          E!SpawnExecution, E!ExecutorStops, E!Execute, E!SlotStale, E!SlotFresh,
          E!BuyInstructions, E!NotProfitable, E!Tipped, E!Signed, E!SimulationPasses,
          E!GiveUp, E!JitoAccepts, E!Submitted, E!ReplyLost, E!Return, E!Goto
    <2> QED
      BY <2>1, <2>2
  <1>2. CASE \/ ListenerMoves(L!ListenerStep) \/ ScannerMoves(S!ScannerStep)
             \/ DropOppSender \/ Cancel \/ Network \/ Tick \/ Terminated \/ UNCHANGED vars
    BY <1>2 DEF ListenerMoves, ScannerMoves, DropOppSender, Cancel, Network, Tick, E!Tick,
                E!executorVars, Terminated, vars, executorOnly
  <1> QED
    BY <1>1, <1>2 DEF Next

(* With a minimum profit of two minimum tips the bot never aborts on a tip *)
(* it cannot compute, whatever the fraction, the cost, the amounts and the *)
(* word (src/scanner/mod.rs:157-171, src/executor/mod.rs:131-139,          *)
(* src/config/mod.rs:175-184).                                             *)
THEOREM BotNeverAborts == Spec => []NeverAborts
  <1>1. Init => AllWorth /\ NeverAborts
    BY DEF Init, E!Init, AllWorth, NeverAborts
  <1>2. Inv /\ E!TypeOK /\ AllWorth /\ NeverAborts /\ [Next]_vars
          => AllWorth' /\ NeverAborts'
    BY WorthStep, NoAbort
  <1> QED
    BY <1>1, <1>2, Invariance, ExecutorTyped, PTL DEF Spec

-----------------------------------------------------------------------------
(* From the update to Jito.  Of each event, what is queued for the scanner *)
(* and what it admitted do not outnumber what the listener emitted; the    *)
(* evaluations, opportunities, executions and bundles made of it do not    *)
(* outnumber its admissions.  An execution whose bundle Jito has taken     *)
(* counts as the bundle.                                                   *)
Positions(s, e) == {i \in DOMAIN s : Same(e, s[i])}
In(s, e) == Cardinality(Positions(s, e))

Evaluated(e) == {t \in Live : Same(e, evals[t])}
Executed(e) == {t \in LiveExecs : execs[t].pc # "reply" /\ Same(e, execs[t].opp)}
Submitted == [i \in DOMAIN accepted |-> AsBundle(accepted[i])]

Admissions(e) == In(arbQ, e) + In(history, e) <= In(emitted, e)

Spending(e) ==
  Cardinality(Evaluated(e)) + In(oppQ, e) + Cardinality(Executed(e)) + In(Submitted, e)
    <= In(history, e)

EventsSpentOnce == \A e \in Seen : Admissions(e) /\ Spending(e)

Typed == Inv /\ E!TypeOK /\ history \in Seq(Seen)

LEMMA PositionsFinite ==
  ASSUME NEW T, NEW s \in Seq(T), NEW e
  PROVE  IsFiniteSet(Positions(s, e)) /\ In(s, e) \in Nat
  <1>1. DOMAIN s = 1..Len(s) /\ Len(s) \in Nat
    OBVIOUS
  <1>2. IsFiniteSet(1..Len(s))
    BY <1>1, FS_Interval
  <1>3. Positions(s, e) \subseteq 1..Len(s)
    BY <1>1 DEF Positions
  <1> QED
    BY <1>2, <1>3, FS_Subset, FS_CardinalityType DEF In

LEMMA InEmpty == ASSUME NEW e PROVE In(<< >>, e) = 0
  <1>1. Positions(<< >>, e) = {}
    BY DEF Positions
  <1> QED
    BY <1>1, FS_EmptySet DEF In

(* One more element counts once if it is of e, and not at all otherwise.   *)
LEMMA InAppend ==
  ASSUME NEW T, NEW s \in Seq(T), NEW x \in T, NEW e
  PROVE  In(Append(s, x), e) = In(s, e) + (IF Same(e, x) THEN 1 ELSE 0)
  <1>1. /\ DOMAIN s = 1..Len(s) /\ Len(s) \in Nat
        /\ DOMAIN Append(s, x) = 1..(Len(s) + 1)
        /\ Append(s, x)[Len(s) + 1] = x
        /\ \A i \in 1..Len(s) : Append(s, x)[i] = s[i]
    BY AppendOne
  <1>2. Len(s) + 1 \notin Positions(s, e)
    BY <1>1 DEF Positions
  <1>3. CASE Same(e, x)
    <2>1. Positions(Append(s, x), e) = Positions(s, e) \cup {Len(s) + 1}
      BY <1>1, <1>3 DEF Positions
    <2>2. In(Append(s, x), e) = In(s, e) + 1
      BY <1>2, <2>1, PositionsFinite, FS_AddElement DEF In
    <2> QED
      BY <1>3, <2>2
  <1>4. CASE ~Same(e, x)
    <2>1. Positions(Append(s, x), e) = Positions(s, e)
      BY <1>1, <1>4 DEF Positions
    <2>2. In(Append(s, x), e) = In(s, e) /\ In(s, e) \in Nat
      BY <2>1, PositionsFinite DEF In
    <2> QED
      BY <1>4, <2>2
  <1> QED
    BY <1>3, <1>4

(* Taking the oldest element off takes its count off.                      *)
LEMMA InTail ==
  ASSUME NEW T, NEW s \in Seq(T), s # << >>, NEW e
  PROVE  In(Tail(s), e) + (IF Same(e, Head(s)) THEN 1 ELSE 0) <= In(s, e)
  <1> DEFINE A == Positions(Tail(s), e)
             B == Positions(s, e)
             f == [i \in A |-> i + 1]
  <1>1. /\ DOMAIN Tail(s) = 1..(Len(s) - 1) /\ DOMAIN s = 1..Len(s) /\ Len(s) \in Nat
        /\ \A i \in 1..(Len(s) - 1) : Tail(s)[i] = s[i + 1]
        /\ Tail(s) \in Seq(T) /\ Head(s) = s[1] /\ 1 \in DOMAIN s
    OBVIOUS
  <1>2. \A i \in A : i \in Nat \ {0} /\ i + 1 \in B
    BY <1>1 DEF Positions
  <1>3. 1 \in B <=> Same(e, Head(s))
    BY <1>1 DEF Positions
  <1>4. /\ IsFiniteSet(B) /\ Cardinality(B) \in Nat
        /\ IsFiniteSet(A) /\ Cardinality(A) \in Nat
    BY <1>1, PositionsFinite DEF In
  <1> HIDE DEF A, B
  <1>5. f \in [A -> B \ {1}]
    BY <1>2
  <1>6. \A i, j \in A : f[i] = f[j] => i = j
    BY <1>2
  <1>7. f \in Injection(A, B \ {1})
    BY <1>5, <1>6 DEF Injection, IsInjective
  <1>8. IsFiniteSet(B \ {1})
    BY <1>4, FS_Subset
  <1>9. Cardinality(A) <= Cardinality(B \ {1})
    BY <1>7, <1>8, FS_Injection
  <1>10. CASE 1 \in B
    <2>1. Cardinality(B \ {1}) = Cardinality(B) - 1
      BY <1>4, <1>10, FS_RemoveElement
    <2> QED
      BY <1>3, <1>4, <1>9, <1>10, <2>1 DEF A, B, In
  <1>11. CASE 1 \notin B
    <2>1. Cardinality(A) <= Cardinality(B)
      <3>1. B \ {1} = B
        BY <1>11
      <3> QED
        BY <1>9, <3>1
    <2>2. In(Tail(s), e) = Cardinality(A) /\ In(s, e) = Cardinality(B)
      BY DEF A, B, In
    <2>3. ~Same(e, Head(s))
      BY <1>3, <1>11
    <2> QED
      BY <1>4, <2>1, <2>2, <2>3
  <1> QED
    BY <1>10, <1>11

SubmittedKinds == {AsBundle(b) : b \in E!Bundles}

LEMMA SubmittedTyped ==
  ASSUME E!TypeOK
  PROVE  /\ Submitted \in Seq(SubmittedKinds) /\ Len(Submitted) = Len(accepted)
         /\ DOMAIN Submitted = DOMAIN accepted
  <1>1. /\ accepted \in Seq(E!Bundles) /\ Len(accepted) \in Nat
        /\ DOMAIN accepted = 1..Len(accepted)
        /\ \A i \in 1..Len(accepted) : accepted[i] \in E!Bundles
    BY DEF E!TypeOK
  <1>2. \A i \in 1..Len(accepted) : AsBundle(accepted[i]) \in SubmittedKinds
    BY <1>1 DEF SubmittedKinds
  <1>3. Submitted = [i \in 1..Len(accepted) |-> AsBundle(accepted[i])]
    BY <1>1 DEF Submitted
  <1>4. Submitted \in [1..Len(accepted) -> SubmittedKinds]
    BY <1>2, <1>3
  <1> QED
    BY <1>1, <1>4

LEMMA SubmittedAppend ==
  ASSUME E!TypeOK, NEW b \in E!Bundles, accepted' = Append(accepted, b)
  PROVE  Submitted' = Append(Submitted, AsBundle(b))
  <1>1. /\ accepted \in Seq(E!Bundles) /\ Len(accepted) \in Nat
        /\ DOMAIN accepted' = 1..(Len(accepted) + 1)
        /\ accepted'[Len(accepted) + 1] = b
        /\ \A i \in 1..Len(accepted) : accepted'[i] = accepted[i]
    BY AppendOne DEF E!TypeOK
  <1>2. /\ Submitted \in Seq(SubmittedKinds) /\ Len(Submitted) = Len(accepted)
        /\ AsBundle(b) \in SubmittedKinds
    BY SubmittedTyped DEF SubmittedKinds
  <1>3. Submitted' = [i \in 1..(Len(accepted) + 1) |-> AsBundle(accepted'[i])]
    BY <1>1 DEF Submitted, AsBundle
  <1>4. \A i \in 1..Len(accepted) : Submitted[i] = AsBundle(accepted[i])
    BY <1>1 DEF Submitted, E!TypeOK
  <1> DEFINE s == Append(Submitted, AsBundle(b))
  <1>5. /\ DOMAIN s = 1..(Len(accepted) + 1)
        /\ s[Len(accepted) + 1] = AsBundle(b)
        /\ \A i \in 1..Len(accepted) : s[i] = Submitted[i]
        /\ s \in Seq(SubmittedKinds) /\ Len(s) = Len(accepted) + 1
    BY <1>2, AppendOne
  <1> HIDE DEF s
  <1>6. \A i \in 1..(Len(accepted) + 1) : s[i] = AsBundle(accepted'[i])
    <2>1. \A i \in 1..(Len(accepted) + 1) : i \in 1..Len(accepted) \/ i = Len(accepted) + 1
      BY <1>1
    <2>2. \A i \in 1..Len(accepted) : s[i] = AsBundle(accepted'[i])
      BY <1>1, <1>4, <1>5
    <2> QED
      BY <1>1, <1>5, <2>1, <2>2
  <1>7. Submitted' = s
    <2>1. s = [i \in 1..(Len(accepted) + 1) |-> s[i]]
      BY <1>5
    <2> QED
      BY <1>3, <1>6, <2>1
  <1> QED
    BY <1>7 DEF s

LEMMA TasksFinite ==
  ASSUME Typed, NEW e
  PROVE  /\ IsFiniteSet(Evaluated(e)) /\ Cardinality(Evaluated(e)) \in Nat
         /\ IsFiniteSet(Executed(e)) /\ Cardinality(Executed(e)) \in Nat
  <1>1. IsFiniteSet(ExecIds)
    BY PipelineAssumption DEF E!ExecutorAssumption, E!IsFiniteSet, IsFiniteSet
  <1>2. Executed(e) \subseteq ExecIds /\ Evaluated(e) \subseteq Live
    BY DEF Executed, Evaluated, LiveExecs
  <1> QED
    BY <1>1, <1>2, LiveFinite, FS_Subset, FS_CardinalityType DEF Typed, Inv

LEMMA CountsNat ==
  ASSUME Typed, NEW e
  PROVE  /\ In(arbQ, e) \in Nat /\ In(history, e) \in Nat /\ In(emitted, e) \in Nat
         /\ In(oppQ, e) \in Nat /\ In(Submitted, e) \in Nat
         /\ Cardinality(Evaluated(e)) \in Nat /\ Cardinality(Executed(e)) \in Nat
  <1>1. /\ arbQ \in Seq(Seen) /\ history \in Seq(Seen) /\ emitted \in Seq(Seen)
        /\ oppQ \in Seq(FoundOpportunities) /\ Submitted \in Seq(SubmittedKinds)
    BY SubmittedTyped DEF Typed, Inv, Kinds
  <1> QED
    BY <1>1, PositionsFinite, TasksFinite

(* The counts after a step, and those it leaves alone.                     *)
LEMMA CountsNext ==
  ASSUME NEW e
  PROVE  /\ In(arbQ, e)' = In(arbQ', e) /\ In(history, e)' = In(history', e)
         /\ In(emitted, e)' = In(emitted', e) /\ In(oppQ, e)' = In(oppQ', e)
         /\ In(Submitted, e)' = In(Submitted', e)
         /\ accepted' = accepted => Submitted' = Submitted
         /\ evals' = evals => Evaluated(e)' = Evaluated(e)
         /\ execs' = execs => Executed(e)' = Executed(e)
  BY DEF In, Positions, Same, Submitted, AsBundle, Evaluated, Live, Executed, LiveExecs

(* The listener: an event more is queued and emitted, or none.             *)
LEMMA ListenerSpends ==
  ASSUME Typed, NEW e \in Seen, Admissions(e), Spending(e), ListenerMoves(L!ListenerStep)
  PROVE  Admissions(e)' /\ Spending(e)'
  <1>1. UNCHANGED <<history, evals, oppQ, execs, accepted>>
    BY DEF ListenerMoves, scannerOnly, executorOnly
  <1>2. Spending(e)'
    BY <1>1, CountsNext DEF Spending
  <1>3. arbQ \in Seq(Seen) /\ emitted \in Seq(Seen)
    BY DEF Typed, Inv, Kinds
  <1>4. ASSUME NEW x \in Seen, Arrives(x) PROVE Admissions(e)'
    <2>1. /\ In(arbQ', e) = In(arbQ, e) + (IF Same(e, x) THEN 1 ELSE 0)
          /\ In(emitted', e) = In(emitted, e) + (IF Same(e, x) THEN 1 ELSE 0)
      BY <1>3, <1>4, InAppend DEF Arrives
    <2> QED
      BY <1>1, <2>1, CountsNext, CountsNat DEF Admissions
  <1>5. ASSUME arbQ' = arbQ, emitted' = emitted PROVE Admissions(e)'
    BY <1>1, <1>5, CountsNext DEF Admissions
  <1> QED
    BY <1>2, <1>4, <1>5, ListenerEffect DEF Typed

(* The scanner's loop: what it takes off its queue it admits at most once, *)
(* and evaluates only if it admits it.                                     *)
LEMMA TakenSpends ==
  ASSUME Typed, NEW e \in Seen, Admissions(e), Spending(e), TakesEvent,
         UNCHANGED <<emitted, execs, accepted>>
  PROVE  Admissions(e)' /\ Spending(e)'
  <1> DEFINE h == Head(arbQ)
             one == IF Same(e, h) THEN 1 ELSE 0
  <1>1. /\ arbQ \in Seq(Seen) /\ arbQ # << >> /\ arbQ' = Tail(arbQ) /\ arbQ' \in Seq(Seen)
        /\ h \in Seen /\ history \in Seq(Seen) /\ oppQ' = oppQ
        /\ evals \in [TaskIds -> S!Evaluations \cup {NoTask}]
        /\ NoTask \notin S!Evaluations
    BY TailOne, ConstantKinds DEF TakesEvent, Typed, Inv, Kinds
  <1>2. one \in {0, 1} /\ (Same(e, h) <=> one = 1)
    OBVIOUS
  <1>3. In(arbQ', e) + one <= In(arbQ, e) /\ In(arbQ', e) \in Nat
    BY <1>1, InTail, PositionsFinite
  <1>4. In(Append(history, h), e) = In(history, e) + one
    BY <1>1, InAppend
  <1> HIDE DEF h, one
  <1>5. Admissions(e)'
    <2>1. history' = history \/ history' = Append(history, h)
      BY DEF TakesEvent, h
    <2>2. In(history', e) \in {In(history, e), In(history, e) + one}
      BY <1>4, <2>1
    <2> QED
      BY <1>2, <1>3, <2>2, CountsNext, CountsNat DEF Admissions
  <1>6. CASE evals' = evals
    <2>1. In(history', e) \in {In(history, e), In(history, e) + one}
      BY <1>4 DEF TakesEvent, h
    <2> QED
      BY <1>1, <1>2, <1>5, <1>6, <2>1, CountsNext, CountsNat DEF Spending
  <1>7. ASSUME NEW t \in TaskIds, NEW r \in S!Evaluations, evals[t] = NoTask, Same(h, r),
               evals' = [evals EXCEPT ![t] = r], history' = Append(history, h)
        PROVE  Spending(e)'
    <2>1. Same(e, r) <=> one = 1
      BY <1>2, <1>7 DEF Same
    <2>2. t \notin Evaluated(e)
      BY <1>7 DEF Evaluated, Live
    <2>3. \A u \in TaskIds :
            u \in Evaluated(e)' <=> u \in Evaluated(e) \/ (u = t /\ Same(e, r))
      BY <1>1, <1>7 DEF Evaluated, Live, Same
    <2>4. Evaluated(e)' = IF one = 1 THEN Evaluated(e) \cup {t} ELSE Evaluated(e)
      BY <2>1, <2>3 DEF Evaluated, Live
    <2>5. Cardinality(Evaluated(e)') = Cardinality(Evaluated(e)) + one
      <3>1. CASE one = 1
        BY <2>2, <2>4, <3>1, TasksFinite, FS_AddElement
      <3>2. CASE one = 0
        BY <2>4, <3>2, TasksFinite
      <3> QED
        BY <1>2, <3>1, <3>2
    <2>6. /\ In(oppQ, e)' = In(oppQ, e) /\ In(Submitted, e)' = In(Submitted, e)
          /\ Executed(e)' = Executed(e)
          /\ In(history, e)' = In(history, e) + one
      BY <1>1, <1>4, <1>7, CountsNext
    <2> QED
      BY <1>2, <2>5, <2>6, CountsNat DEF Spending
  <1> QED
    BY <1>5, <1>6, <1>7 DEF TakesEvent, h

(* A task of the scanner: it goes on, ends, or becomes an opportunity.     *)
LEMMA EvaluatedSpends ==
  ASSUME Typed, NEW e \in Seen, Admissions(e), Spending(e),
         NEW t \in TaskIds, Continues(t) \/ Ends(t) \/ Finds(t),
         UNCHANGED <<emitted, execs, accepted>>
  PROVE  Admissions(e)' /\ Spending(e)'
  <1>1. /\ evals[t] # NoTask /\ arbQ' = arbQ /\ history' = history
        /\ evals \in [TaskIds -> S!Evaluations \cup {NoTask}]
        /\ NoTask \notin S!Evaluations /\ oppQ \in Seq(FoundOpportunities)
    BY ConstantKinds DEF Continues, Ends, Finds, Typed, Inv, Kinds
  <1>2. Admissions(e)'
    BY <1>1, CountsNext DEF Admissions
  <1>3. CASE Continues(t)
    <2>1. PICK r \in S!Evaluations : Same(evals[t], r) /\ evals' = [evals EXCEPT ![t] = r]
      BY <1>3 DEF Continues
    <2>2. \A u \in TaskIds : u \in Evaluated(e)' <=> u \in Evaluated(e)
      BY <1>1, <2>1 DEF Evaluated, Live, Same
    <2>3. Evaluated(e)' = Evaluated(e)
      BY <2>2 DEF Evaluated, Live
    <2>4. oppQ' = oppQ
      BY <1>3 DEF Continues
    <2> QED
      BY <1>1, <1>2, <2>3, <2>4, CountsNext DEF Spending
  <1> DEFINE one == IF Same(e, evals[t]) THEN 1 ELSE 0
  <1>4. one \in {0, 1} /\ (Same(e, evals[t]) <=> one = 1)
    OBVIOUS
  <1> HIDE DEF one
  <1>5. ASSUME evals' = [evals EXCEPT ![t] = NoTask]
        PROVE  /\ Cardinality(Evaluated(e)') = Cardinality(Evaluated(e)) - one
               /\ Cardinality(Evaluated(e)') \in Nat
    <2>1. Evaluated(e)' = Evaluated(e) \ {t}
      BY <1>1, <1>5 DEF Evaluated, Live, Same
    <2>2. t \in Evaluated(e) <=> one = 1
      BY <1>1, <1>4 DEF Evaluated, Live
    <2>3. CASE one = 1
      <3>1. Cardinality(Evaluated(e)') = Cardinality(Evaluated(e)) - 1
        BY <2>1, <2>2, <2>3, TasksFinite, FS_RemoveElement
      <3>2. Cardinality(Evaluated(e)') \in Nat
        BY <2>1, TasksFinite, FS_Subset, FS_CardinalityType
      <3> QED
        BY <2>3, <3>1, <3>2
    <2>4. CASE one = 0
      <3>1. Evaluated(e)' = Evaluated(e)
        BY <2>1, <2>2, <2>4
      <3> QED
        BY <2>4, <3>1, TasksFinite
    <2> QED
      BY <1>4, <2>3, <2>4
  <1>6. CASE Ends(t)
    <2>1. evals' = [evals EXCEPT ![t] = NoTask] /\ oppQ' = oppQ
      BY <1>6 DEF Ends
    <2>2. /\ In(oppQ, e)' = In(oppQ, e) /\ In(Submitted, e)' = In(Submitted, e)
          /\ Executed(e)' = Executed(e) /\ In(history, e)' = In(history, e)
      BY <1>1, <2>1, CountsNext
    <2>3. Spending(e)'
      BY <1>4, <1>5, <2>1, <2>2, CountsNat DEF Spending
    <2> QED
      BY <1>2, <2>3
  <1>7. CASE Finds(t)
    <2>1. PICK o \in FoundOpportunities : Same(evals[t], o) /\ oppQ' = Append(oppQ, o)
      BY <1>7 DEF Finds
    <2>2. Same(e, o) <=> one = 1
      BY <1>4, <2>1 DEF Same
    <2>3. In(oppQ', e) = In(oppQ, e) + one
      BY <1>1, <1>4, <2>1, <2>2, InAppend
    <2>4. evals' = [evals EXCEPT ![t] = NoTask]
      BY <1>7 DEF Finds
    <2> QED
      BY <1>1, <1>2, <1>4, <1>5, <2>3, <2>4, CountsNext, CountsNat DEF Spending
  <1> QED
    BY <1>3, <1>6, <1>7

LEMMA ScannerSpends ==
  ASSUME Typed, NEW e \in Seen, Admissions(e), Spending(e), ScannerMoves(S!ScannerStep)
  PROVE  Admissions(e)' /\ Spending(e)'
  <1>1. UNCHANGED <<emitted, execs, accepted>>
    BY DEF ScannerMoves, listenerOnly, executorOnly
  <1>2. CASE TakesEvent
    BY <1>1, <1>2, TakenSpends
  <1>3. CASE ScannerReturns
    <2>1. arbQ' = << >> /\ history' = history /\ oppQ' = oppQ /\ evals' = evals
      BY <1>3 DEF ScannerReturns
    <2>2. In(arbQ', e) = 0
      BY <2>1, InEmpty
    <2> QED
      BY <1>1, <2>1, <2>2, CountsNext, CountsNat DEF Admissions, Spending
  <1>4. ASSUME NEW t \in TaskIds, Continues(t) \/ Ends(t) \/ Finds(t)
        PROVE  Admissions(e)' /\ Spending(e)'
    BY <1>1, <1>4, EvaluatedSpends
  <1> QED
    BY <1>2, <1>3, <1>4, ScannerEffect DEF Typed

(* A task of the executor, as the count sees it: Jito takes its bundle, or *)
(* it goes on with the same opportunity, or it ends.                       *)
Submits(t) ==
  /\ execs[t] # NoTask /\ execs[t].pc = "send"
  /\ execs' = [execs EXCEPT ![t].pc = "reply"]
  /\ accepted' = Append(accepted, E!Bundle(t))
  /\ oppQ' = oppQ

GoesOn(t) ==
  /\ accepted' = accepted /\ oppQ' = oppQ
  /\ \/ execs' = execs
     \/ execs' = [execs EXCEPT ![t] = NoTask]
     \/ /\ execs[t].pc # "reply"
        /\ \E pc, tip :
             execs' = [execs EXCEPT ![t] = [@ EXCEPT !.pc = pc, !.tip = tip, !.since = now]]

LEMMA TaskSpends ==
  ASSUME Typed, NEW t \in ExecIds, E!Execute(t)
  PROVE  execs[t] \in E!Executions /\ execs[t] # NoTask /\ (Submits(t) \/ GoesOn(t))
  <1>1. execs[t] \in E!Executions /\ execs[t] # NoTask
    BY DEF Typed, E!TypeOK, E!Execute, E!SlotStale, E!SlotFresh, E!BuyInstructions,
           E!NotProfitable, E!TipPanic, E!Tipped, E!Signed, E!SimulationPasses, E!GiveUp,
           E!JitoAccepts, E!Submitted, E!ReplyLost, E!At
  <1> SUFFICES Submits(t) \/ GoesOn(t)
    BY <1>1
  <1>2. execs \in [ExecIds -> E!Executions \cup {NoTask}]
    BY DEF Typed, E!TypeOK
  <1>3. ASSUME NEW pc, E!Goto(t, pc), execs[t].pc # "reply", accepted' = accepted
        PROVE  GoesOn(t)
    <2>1. [execs[t] EXCEPT !.pc = pc, !.since = now]
            = [execs[t] EXCEPT !.pc = pc, !.tip = execs[t].tip, !.since = now]
      BY <1>1 DEF E!Executions
    <2>2. execs' = [execs EXCEPT ![t] =
                      [@ EXCEPT !.pc = pc, !.tip = execs[t].tip, !.since = now]]
      BY <1>2, <1>3, <2>1 DEF E!Goto
    <2> QED
      BY <1>3, <2>2 DEF E!Goto, GoesOn
  <1>4. CASE E!SlotFresh(t) \/ E!BuyInstructions(t) \/ E!Signed(t) \/ E!SimulationPasses(t)
    BY <1>3, <1>4 DEF E!SlotFresh, E!BuyInstructions, E!Signed, E!SimulationPasses, E!Goto, E!At
  <1>5. CASE \/ E!SlotStale(t) \/ E!NotProfitable(t) \/ E!GiveUp(t)
             \/ E!Submitted(t) \/ E!ReplyLost(t)
    BY <1>5 DEF E!SlotStale, E!NotProfitable, E!GiveUp, E!Submitted, E!ReplyLost, E!Return,
                GoesOn
  <1>6. CASE E!TipPanic(t)
    BY <1>6 DEF E!TipPanic, GoesOn
  <1>7. CASE E!Tipped(t)
    <2> DEFINE tip == E!DynamicJitoTip(E!Profit(execs[t].opp))
    <2>1. execs' = [execs EXCEPT ![t] =
                      [@ EXCEPT !.pc = "accounts", !.tip = tip, !.since = now]]
      BY <1>2, <1>7 DEF E!Tipped
    <2> HIDE DEF tip
    <2> QED
      BY <1>7, <2>1 DEF E!Tipped, E!At, GoesOn
  <1>8. CASE E!JitoAccepts(t)
    BY <1>1, <1>8 DEF E!JitoAccepts, E!At, Submits
  <1> QED
    BY <1>1, <1>4, <1>5, <1>6, <1>7, <1>8 DEF E!Execute

LEMMA ExecutedSpends ==
  ASSUME Typed, NEW e \in Seen, Spending(e), NEW t \in ExecIds, E!Execute(t),
         UNCHANGED <<evals, history>>
  PROVE  Spending(e)'
  <1>1. /\ execs[t] \in E!Executions /\ execs[t] # NoTask /\ (Submits(t) \/ GoesOn(t))
        /\ execs \in [ExecIds -> E!Executions \cup {NoTask}]
        /\ NoTask \notin E!Executions
    BY TaskSpends, PipelineAssumption DEF Typed, E!TypeOK, E!NoTaskAssumption
  <1>2. execs[t].opp \in FoundOpportunities /\ execs[t].tip \in Int
    BY <1>1 DEF E!Executions
  <1>3. CASE GoesOn(t)
    <2>1. \A u \in ExecIds : u \in Executed(e)' => u \in Executed(e)
      <3>1. CASE execs' = execs
        BY <3>1 DEF Executed, LiveExecs, Same
      <3>2. CASE execs' = [execs EXCEPT ![t] = NoTask]
        BY <1>1, <3>2 DEF Executed, LiveExecs, Same
      <3>3. ASSUME execs[t].pc # "reply", NEW pc, NEW tip,
                   execs' = [execs EXCEPT ![t] =
                               [@ EXCEPT !.pc = pc, !.tip = tip, !.since = now]]
            PROVE  \A u \in ExecIds : u \in Executed(e)' => u \in Executed(e)
        <4>1. execs'[t].opp = execs[t].opp
          BY <1>1, <3>3 DEF E!Executions
        <4>2. \A u \in ExecIds \ {t} : execs'[u] = execs[u]
          BY <1>1, <3>3
        <4> QED
          BY <1>1, <3>3, <4>1, <4>2 DEF Executed, LiveExecs, Same
      <3> QED
        BY <1>3, <3>1, <3>2, <3>3 DEF GoesOn
    <2>2. Executed(e)' \subseteq Executed(e)
      BY <2>1 DEF Executed, LiveExecs
    <2>3. /\ Cardinality(Executed(e)') <= Cardinality(Executed(e))
          /\ Cardinality(Executed(e)') \in Nat
      BY <2>2, TasksFinite, FS_Subset, FS_CardinalityType
    <2>4. accepted' = accepted /\ oppQ' = oppQ
      BY <1>3 DEF GoesOn
    <2> QED
      BY <2>3, <2>4, CountsNext, CountsNat DEF Spending
  <1>4. CASE Submits(t)
    <2> DEFINE one == IF Same(e, execs[t].opp) THEN 1 ELSE 0
               b == E!Bundle(t)
    <2>1. one \in {0, 1} /\ (Same(e, execs[t].opp) <=> one = 1)
      OBVIOUS
    <2>2. b \in E!Bundles /\ (Same(e, AsBundle(b)) <=> one = 1)
      BY <1>2 DEF E!Bundle, E!Bundles, AsBundle, Same
    <2>3. oppQ' = oppQ /\ accepted' = Append(accepted, b)
      BY <1>4 DEF Submits
    <2> HIDE DEF one, b
    <2>4. In(Submitted', e) = In(Submitted, e) + one
      <3>1. Submitted' = Append(Submitted, AsBundle(b))
        BY <2>2, <2>3, SubmittedAppend DEF Typed
      <3>2. Submitted \in Seq(SubmittedKinds) /\ AsBundle(b) \in SubmittedKinds
        BY <2>2, SubmittedTyped DEF Typed, SubmittedKinds
      <3>3. In(Append(Submitted, AsBundle(b)), e)
              = In(Submitted, e) + (IF Same(e, AsBundle(b)) THEN 1 ELSE 0)
        BY <3>2, InAppend
      <3> QED
        BY <2>1, <2>2, <3>1, <3>3
    <2>5. /\ execs'[t] # NoTask /\ execs'[t].pc = "reply"
          /\ \A u \in ExecIds \ {t} : execs'[u] = execs[u]
      BY <1>1, <1>4 DEF Submits, E!Executions
    <2>6. Executed(e)' = Executed(e) \ {t}
      <3>1. \A u \in ExecIds : u \in Executed(e)' <=> u \in Executed(e) /\ u # t
        BY <2>5 DEF Executed, LiveExecs, Same
      <3> QED
        BY <3>1 DEF Executed, LiveExecs
    <2>7. t \in Executed(e) <=> one = 1
      BY <1>1, <1>4, <2>1 DEF Submits, Executed, LiveExecs
    <2>8. Cardinality(Executed(e)') + one = Cardinality(Executed(e))
      <3>1. CASE one = 1
        <4>1. Cardinality(Executed(e)') = Cardinality(Executed(e)) - 1
          BY <2>6, <2>7, <3>1, TasksFinite, FS_RemoveElement
        <4> QED
          BY <3>1, <4>1, TasksFinite
      <3>2. CASE one = 0
        <4>1. Executed(e)' = Executed(e)
          BY <2>6, <2>7, <3>2
        <4> QED
          BY <3>2, <4>1, TasksFinite
      <3> QED
        BY <2>1, <3>1, <3>2
    <2>9. Cardinality(Executed(e)') \in Nat
      BY <2>6, TasksFinite, FS_Subset, FS_CardinalityType
    <2> QED
      BY <2>1, <2>3, <2>4, <2>8, <2>9, CountsNext, CountsNat DEF Spending
  <1> QED
    BY <1>1, <1>3, <1>4

(* The executor's loop: what it takes it executes at most once.            *)
LEMMA SpawnedSpends ==
  ASSUME Typed, NEW e \in Seen, Spending(e), NEW t \in ExecIds, E!SpawnExecution(t),
         UNCHANGED <<evals, history>>
  PROVE  Spending(e)'
  <1> DEFINE o == Head(oppQ)
             one == IF Same(e, o) THEN 1 ELSE 0
             start == [opp |-> o, pc |-> "slot", tip |-> 0, since |-> now]
  <1>1. /\ oppQ \in Seq(FoundOpportunities) /\ oppQ # << >> /\ oppQ' = Tail(oppQ)
        /\ Tail(oppQ) \in Seq(FoundOpportunities)
        /\ execs \in [ExecIds -> E!Executions \cup {NoTask}]
        /\ execs[t] = NoTask /\ accepted' = accepted
        /\ execs' = [execs EXCEPT ![t] = start]
        /\ o \in FoundOpportunities /\ now \in Nat
    BY TailOne DEF Typed, Inv, Kinds, E!TypeOK, E!SpawnExecution, E!ReceiveOpportunity
  <1>2. one \in {0, 1} /\ (Same(e, o) <=> one = 1)
    OBVIOUS
  <1>3. In(oppQ', e) + one <= In(oppQ, e) /\ In(oppQ', e) \in Nat
    BY <1>1, InTail, PositionsFinite
  <1> HIDE DEF o, one
  <1>4. t \notin Executed(e)
    BY <1>1 DEF Executed, LiveExecs
  <1>5. start # NoTask
    <2>1. start \in E!Executions
      BY <1>1 DEF E!Executions, E!AwaitPoints
    <2> QED
      BY <2>1, PipelineAssumption DEF E!NoTaskAssumption
  <1>6. \A u \in ExecIds :
          u \in Executed(e)' <=> u \in Executed(e) \/ (u = t /\ Same(e, o))
    BY <1>1, <1>5 DEF Executed, LiveExecs, Same
  <1>7. Executed(e)' = IF one = 1 THEN Executed(e) \cup {t} ELSE Executed(e)
    BY <1>2, <1>6 DEF Executed, LiveExecs
  <1>8. Cardinality(Executed(e)') = Cardinality(Executed(e)) + one
    <2>1. CASE one = 1
      BY <1>4, <1>7, <2>1, TasksFinite, FS_AddElement
    <2>2. CASE one = 0
      BY <1>7, <2>2, TasksFinite
    <2> QED
      BY <1>2, <2>1, <2>2
  <1>9. /\ Evaluated(e)' = Evaluated(e) /\ In(history, e)' = In(history, e)
        /\ In(oppQ, e)' = In(oppQ', e) /\ In(Submitted, e)' = In(Submitted, e)
    BY <1>1, CountsNext
  <1>10. Spending(e)' <=> Cardinality(Evaluated(e)) + In(oppQ', e)
                            + (Cardinality(Executed(e)) + one) + In(Submitted, e)
                          <= In(history, e)
    BY <1>8, <1>9 DEF Spending
  <1>11. /\ Cardinality(Evaluated(e)) \in Nat /\ Cardinality(Executed(e)) \in Nat
         /\ In(oppQ, e) \in Nat /\ In(Submitted, e) \in Nat /\ In(history, e) \in Nat
    BY CountsNat
  <1> QED
    BY <1>2, <1>3, <1>10, <1>11 DEF Spending

LEMMA ExecutorSpends ==
  ASSUME Typed, NEW e \in Seen, Admissions(e), Spending(e), ExecutorMoves(E!ExecutorStep)
  PROVE  Admissions(e)' /\ Spending(e)'
  <1>1. UNCHANGED <<arbQ, emitted, history, evals>>
    BY DEF ExecutorMoves, listenerOnly, scannerOnly
  <1>2. Admissions(e)'
    BY <1>1, CountsNext DEF Admissions
  <1>3. CASE E!DropOpportunity
    <2>1. /\ oppQ \in Seq(FoundOpportunities) /\ oppQ # << >> /\ oppQ' = Tail(oppQ)
          /\ Tail(oppQ) \in Seq(FoundOpportunities)
          /\ UNCHANGED <<execs, accepted>>
      BY <1>3, TailOne DEF Typed, Inv, Kinds, E!DropOpportunity, E!ReceiveOpportunity
    <2>2. In(oppQ', e) <= In(oppQ, e) /\ In(oppQ', e) \in Nat
      <3>1. In(Tail(oppQ), e) + (IF Same(e, Head(oppQ)) THEN 1 ELSE 0) <= In(oppQ, e)
        BY <2>1, InTail
      <3>2. In(Tail(oppQ), e) \in Nat /\ In(oppQ, e) \in Nat
        BY <2>1, PositionsFinite
      <3> QED
        BY <2>1, <3>1, <3>2
    <2> QED
      BY <1>1, <1>2, <2>1, <2>2, CountsNext, CountsNat DEF Spending
  <1>4. CASE E!ExecutorStops
    <2>1. oppQ' = << >> /\ UNCHANGED <<execs, accepted>>
      BY <1>4 DEF E!ExecutorStops
    <2>2. In(oppQ', e) = 0
      BY <2>1, InEmpty
    <2> QED
      BY <1>1, <1>2, <2>1, <2>2, CountsNext, CountsNat DEF Spending
  <1>5. ASSUME NEW t \in ExecIds, E!SpawnExecution(t) \/ E!Execute(t) PROVE Spending(e)'
    BY <1>1, <1>5, SpawnedSpends, ExecutedSpends
  <1> QED
    BY <1>2, <1>3, <1>4, <1>5 DEF ExecutorMoves, E!ExecutorStep, E!HandleOpportunity

LEMMA NextSpends ==
  ASSUME Typed, EventsSpentOnce, [Next]_vars
  PROVE  EventsSpentOnce'
  <1> SUFFICES ASSUME NEW e \in Seen PROVE Admissions(e)' /\ Spending(e)'
    BY DEF EventsSpentOnce
  <1>1. Admissions(e) /\ Spending(e)
    BY DEF EventsSpentOnce
  <1>2. CASE DropOppSender \/ Cancel \/ Network \/ Tick \/ Terminated \/ UNCHANGED vars
    <2>1. UNCHANGED <<arbQ, emitted, history, evals, oppQ, execs, accepted>>
      BY <1>2 DEF DropOppSender, Cancel, Network, L!NetworkDown, L!NetworkUp, L!listenerVars,
                  Tick, E!Tick, E!executorVars, Terminated, vars, listenerOnly, scannerOnly,
                  executorOnly
    <2> QED
      BY <1>1, <2>1, CountsNext DEF Admissions, Spending
  <1> QED
    BY <1>1, <1>2, ListenerSpends, ScannerSpends, ExecutorSpends DEF Next

LEMMA InitSpends == ASSUME Init PROVE EventsSpentOnce
  <1>1. /\ arbQ = << >> /\ emitted = << >> /\ history = << >> /\ oppQ = << >>
        /\ accepted = << >>
        /\ evals = [t \in TaskIds |-> NoTask] /\ execs = [t \in ExecIds |-> NoTask]
    BY DEF Init, L!Init, S!Init, E!Init
  <1> SUFFICES ASSUME NEW e \in Seen PROVE Admissions(e) /\ Spending(e)
    BY DEF EventsSpentOnce
  <1>2. Evaluated(e) = {} /\ Executed(e) = {}
    BY <1>1 DEF Evaluated, Live, Executed, LiveExecs
  <1>3. Positions(Submitted, e) = {}
    BY <1>1 DEF Positions, Submitted
  <1>4. In(Submitted, e) = 0
    BY <1>3, FS_EmptySet DEF In
  <1> QED
    BY <1>1, <1>2, <1>4, InEmpty, FS_EmptySet DEF Admissions, Spending

LEMMA HistoryTyped == Spec => [](history \in Seq(Seen))
  <1>1. SP!Spec => []SP!TypeOK
    BY ScannerAssumptions, SP!TypeCorrect
  <1>2. SP!TypeOK => history \in Seq(Seen)
    BY DEF SP!TypeOK, SP!Events, Seen
  <1> QED
    BY <1>1, <1>2, Composition, SameScanner, PTL DEF ComponentsFit

LEMMA AllTyped == Spec => []Typed
  <1>1. Inv /\ E!TypeOK /\ history \in Seq(Seen) => Typed
    BY DEF Typed
  <1> QED
    BY <1>1, Invariance, ExecutorTyped, HistoryTyped, PTL

(* No event is spent twice on its way through the three components: each   *)
(* event emitted is queued, dropped or admitted once, and each admission   *)
(* becomes one bundle at most, whatever is dropped, lost or retried        *)
(* (src/scanner/mod.rs:56-103, 166-171; src/executor/mod.rs:62-81,         *)
(* 236-242).                                                               *)
THEOREM SpentOnceAcross == Spec => []EventsSpentOnce
  BY InitSpends, NextSpends, AllTyped, PTL DEF Spec

-----------------------------------------------------------------------------
(* The promise.  The amounts fit an i64 with the cost to spare, so that no *)
(* estimate wraps.                                                         *)
AmountsFit ==
  /\ MaxLoan < U64 \div 2 /\ MaxLoan + TxCost <= U64 \div 2
  /\ MinProfit < U64 \div 2
  /\ \A minOut \in SellOutputs : minOut < U64 \div 2

(* What the scanner let through earns what the promise asks, exactly.      *)
LEMMA WorthExact ==
  ASSUME AmountsFit, NEW o \in FoundOpportunities, Worth(o)
  PROVE  /\ o.loan \in Promise!Loans /\ o.minOut \in SellOutputs
         /\ E!Profit(o) = o.minOut - o.loan - TxCost
         /\ E!Profit(o) \in Int /\ E!Profit(o) >= MinProfit
  <1>1. /\ o.loan \in {MaxLoan, MaxLoan \div 2, MaxLoan \div 4} /\ o.minOut \in SellOutputs
        /\ o.loan # 0
    BY DEF FoundOpportunities, Worth
  <1>2. MaxLoan \in Nat /\ TxCost \in Nat /\ U64 \in Nat /\ MinProfit \in Nat
    BY ConstantKinds, WordAssumption
  <1>3. o.loan \in Nat /\ o.loan <= MaxLoan
    BY <1>1, <1>2
  <1>4. o.minOut \in Nat /\ o.minOut < U64 \div 2
    <2>1. o.minOut \in 0..(U64 - 1)
      BY <1>1, ConstantKinds
    <2>2. o.minOut < U64 \div 2
      BY <1>1 DEF AmountsFit
    <2> QED
      BY <2>1, <2>2
  <1>5. o.loan < U64 \div 2 /\ o.loan + TxCost <= U64 \div 2
    BY <1>2, <1>3 DEF AmountsFit
  <1>6. EstimateProfit(o.loan, o.minOut) = o.minOut - o.loan - TxCost
    <2>1. U64 = 2 * (U64 \div 2) /\ U64 \div 2 \in Nat /\ U64 \div 2 > 0
      BY WordAssumption
    <2>2. AsI64(o.minOut) = o.minOut /\ AsI64(o.loan) = o.loan
      BY <1>3, <1>4, <1>5 DEF AsI64
    <2> DEFINE half == U64 \div 2
               diff == o.minOut - o.loan - TxCost
    <2>3. half \in Nat /\ U64 = 2 * half /\ diff + half \in 0..(U64 - 1) /\ diff \in Int
      BY <1>2, <1>3, <1>4, <1>5, <2>1
    <2>4. WrapI64(diff) = ((diff + half) % U64) - half
      BY DEF WrapI64
    <2> HIDE DEF diff, half
    <2>5. (diff + half) % U64 = diff + half
      BY <2>3
    <2>6. WrapI64(diff) = diff
      BY <2>3, <2>4, <2>5
    <2> QED
      BY <2>2, <2>6 DEF EstimateProfit, diff
  <1>7. E!Profit(o) = EstimateProfit(o.loan, o.minOut)
    BY DEF E!Profit, E!EstimateProfit, EstimateProfit, E!WrapI64, WrapI64, E!AsI64, AsI64
  <1>8. EstimateProfit(o.loan, o.minOut) >= MinProfit
    BY DEF Worth, AsI64, AmountsFit
  <1>9. o.loan \in Promise!Loans
    BY <1>1 DEF Promise!Loans
  <1> QED
    BY <1>1, <1>2, <1>3, <1>4, <1>6, <1>7, <1>8, <1>9

(* The step in which Jito takes a bundle is the promise's Submit.          *)
LEMMA SubmitsPromised ==
  ASSUME AmountsFit, Typed, AllWorth, EventsSpentOnce, E!BundlesWorthIt',
         NEW t \in ExecIds, Submits(t), execs[t] \in E!Executions, emitted' = emitted
  PROVE  Promise!Next
  <1> DEFINE o == execs[t].opp
             b == E!Bundle(t)
             e == [token |-> o.token, slot |-> o.slot]
  <1>1. o \in FoundOpportunities /\ execs[t].tip \in Int
    BY DEF E!Executions
  <1>2. b = [opp |-> o, tip |-> execs[t].tip] /\ b \in E!Bundles
    BY <1>1 DEF E!Bundle, E!Bundles
  <1>3. Worth(o)
    BY DEF AllWorth, Submits
  <1>4. e \in Seen /\ e \in Promise!Sightings /\ Same(e, o)
    BY <1>1 DEF Seen, Promise!Sightings, FoundOpportunities, Same
  <1>5. AsBundle(b) = [token |-> e.token, slot |-> e.slot, loan |-> o.loan,
                       minOut |-> o.minOut, tip |-> execs[t].tip]
    BY <1>2 DEF AsBundle
  <1>6. /\ accepted' = Append(accepted, b)
        /\ execs[t] # NoTask /\ execs[t].pc = "send"
    BY DEF Submits
  <1> HIDE DEF o, b, e
  <1>7. Submitted' = Append(Submitted, AsBundle(b))
    BY <1>2, <1>6, SubmittedAppend DEF Typed
  <1>8. In(Submitted, e) < In(emitted, e)
    <2>1. t \in Executed(e)
      BY <1>4, <1>6 DEF Executed, LiveExecs, o
    <2>2. Cardinality(Executed(e)) # 0
      BY <2>1, TasksFinite, FS_EmptySet
    <2>3. Admissions(e) /\ Spending(e)
      BY <1>4 DEF EventsSpentOnce
    <2> QED
      BY <2>2, <2>3, CountsNat DEF Admissions, Spending
  <1>9. \A s : Promise!Of(s, e) = In(s, e)
    BY DEF Promise!Of, In, Positions, Same, Promise!Cardinality, Cardinality,
           Promise!IsFiniteSet, IsFiniteSet
  <1> DEFINE profit == o.minOut - o.loan - TxCost
             tip == execs[t].tip
  <1>10. /\ o.loan \in Promise!Loans /\ o.minOut \in SellOutputs
         /\ E!Profit(o) = profit /\ profit \in Int /\ profit >= MinProfit
    BY <1>1, <1>3, WorthExact
  <1>11. tip >= MinTip /\ 2 * tip <= profit
    <2>1. accepted \in Seq(E!Bundles)
      BY DEF Typed, E!TypeOK
    <2>2. /\ Len(accepted) + 1 \in DOMAIN accepted'
          /\ accepted'[Len(accepted) + 1] = b
      BY <1>2, <1>6, <2>1, AppendOne
    <2>3. b.tip >= MinTip /\ 2 * b.tip <= E!Profit(b.opp)
      BY <2>2 DEF E!BundlesWorthIt, E!Profit, E!EstimateProfit, E!WrapI64, E!AsI64
    <2> QED
      BY <1>2, <1>10, <2>3
  <1>12. tip \in MinTip..(profit \div 2)
    <2>1. MinTip \in Nat /\ tip \in Int
      BY <1>1, TipAssumption
    <2> HIDE DEF profit, tip
    <2>2. tip <= profit \div 2
      BY <1>10, <1>11, <2>1
    <2> QED
      BY <1>10, <1>11, <2>1, <2>2
  <1>13. Promise!Submit(e)
    <2>1. Promise!Of(Submitted, e) < Promise!Of(emitted, e)
      BY <1>8, <1>9
    <2>2. Submitted' = Append(Submitted, [token |-> e.token, slot |-> e.slot,
                              loan |-> o.loan, minOut |-> o.minOut, tip |-> tip])
      BY <1>5, <1>7
    <2> QED
      BY <1>10, <1>12, <2>1, <2>2 DEF Promise!Submit, Submitted
  <1> QED
    BY <1>4, <1>13 DEF Promise!Next

LEMMA StepPromised ==
  ASSUME AmountsFit, Typed, AllWorth, EventsSpentOnce, E!BundlesWorthIt', [Next]_vars
  PROVE  [Promise!Next]_Promise!vars
  <1>1. emitted' = emitted /\ accepted' = accepted => UNCHANGED Promise!vars
    BY CountsNext DEF Promise!vars, Submitted
  <1>2. CASE ListenerMoves(L!ListenerStep)
    <2>1. accepted' = accepted
      BY <1>2 DEF ListenerMoves, executorOnly
    <2>2. ASSUME NEW x \in Seen, Arrives(x) PROVE Promise!Next
      <3>1. Promise!Sight(x)
        BY <2>1, <2>2, CountsNext DEF Arrives, Promise!Sight, Submitted
      <3> QED
        BY <3>1 DEF Promise!Next, Promise!Sightings, Seen
    <2> QED
      BY <1>1, <1>2, <2>1, <2>2, ListenerEffect DEF Typed
  <1>3. CASE ExecutorMoves(E!ExecutorStep)
    <2>1. emitted' = emitted
      BY <1>3 DEF ExecutorMoves, listenerOnly
    <2>2. CASE E!HandleOpportunity \/ E!ExecutorStops
      <3>1. accepted' = accepted
        BY <2>2 DEF E!HandleOpportunity, E!DropOpportunity, E!SpawnExecution, E!ExecutorStops
      <3> QED
        BY <1>1, <2>1, <3>1
    <2>3. ASSUME NEW t \in ExecIds, E!Execute(t) PROVE [Promise!Next]_Promise!vars
      <3>1. execs[t] \in E!Executions /\ (Submits(t) \/ accepted' = accepted)
        BY <2>3, TaskSpends DEF GoesOn
      <3> QED
        BY <1>1, <2>1, <3>1, SubmitsPromised
    <2> QED
      BY <1>3, <2>2, <2>3 DEF ExecutorMoves, E!ExecutorStep
  <1>4. CASE \/ ScannerMoves(S!ScannerStep) \/ DropOppSender \/ Cancel \/ Network \/ Tick
             \/ Terminated \/ UNCHANGED vars
    <2>1. emitted' = emitted /\ accepted' = accepted
      BY <1>4 DEF ScannerMoves, DropOppSender, Cancel, Network, Tick, E!Tick, E!executorVars,
                  Terminated, vars, listenerOnly, executorOnly
    <2> QED
      BY <1>1, <2>1
  <1> QED
    BY <1>2, <1>3, <1>4 DEF Next

LEMMA AllWorthy == Spec => []AllWorth
  <1>1. Init => AllWorth
    BY DEF Init, E!Init, AllWorth
  <1> QED
    BY <1>1, WorthStep, Invariance, ExecutorTyped, PTL DEF Spec

(* The bot implements what it promises its owner: at most one bundle for   *)
(* each event the listener emitted, on one of the three loans, that earns  *)
(* the configured minimum and keeps half of it (src/scanner/mod.rs:56-103, *)
(* 126-184; src/executor/mod.rs:62-81, 131-139).                           *)
THEOREM BotKeepsPromise ==
  ASSUME AmountsFit
  PROVE  Spec => KeepsPromise
  <1>1. Init => Promise!Init
    <2> SUFFICES ASSUME Init PROVE Promise!Init
      OBVIOUS
    <2>1. emitted = << >> /\ accepted = << >>
      BY DEF Init, E!Init
    <2>2. [i \in DOMAIN accepted |-> AsBundle(accepted[i])] = << >>
      BY <2>1
    <2> QED
      BY <2>1, <2>2 DEF Promise!Init
  <1>2. Typed /\ AllWorth /\ EventsSpentOnce /\ E!BundlesWorthIt' /\ [Next]_vars
          => [Promise!Next]_Promise!vars
    BY StepPromised
  <1> QED
    BY <1>1, <1>2, AllTyped, AllWorthy, SpentOnceAcross, BotBundlesPayOff, PTL
    DEF Spec, KeepsPromise, Promise!Spec

-----------------------------------------------------------------------------
(* The spacing of the bundles of a token is the spacing of the admissions  *)
(* they are made of.                                                       *)
LEMMA TwoElements ==
  ASSUME NEW A, IsFiniteSet(A)
  PROVE  /\ A # {} <=> Cardinality(A) >= 1
         /\ (\E i, j \in A : i # j) <=> Cardinality(A) >= 2
  <1>1. Cardinality(A) \in Nat /\ (Cardinality(A) = 0 <=> A = {})
    BY FS_CardinalityType, FS_EmptySet
  <1>2. ASSUME NEW i \in A
        PROVE  (\E j \in A : i # j) <=> Cardinality(A) >= 2
    <2>1. IsFiniteSet(A \ {i}) /\ Cardinality(A \ {i}) = Cardinality(A) - 1
      BY FS_RemoveElement
    <2>2. A \ {i} = {} <=> Cardinality(A \ {i}) = 0
      BY <2>1, FS_EmptySet
    <2>3. (\E j \in A : i # j) <=> A \ {i} # {}
      OBVIOUS
    <2> QED
      BY <1>1, <2>1, <2>2, <2>3
  <1> QED
    BY <1>1, <1>2

Spaced ==
  \A p, q \in DOMAIN history :
    p < q /\ history[p].token = history[q].token /\ Len(history) <= RecentCap
      => history[q].slot >= history[p].slot + DedupSlots

LEMMA HistorySpaced == Spec => []Spaced
  <1>1. SP!Spec => []SP!Filter!DedupSpacing
    BY ScannerAssumptions, SP!ScannerSpacing
  <1>2. SP!Filter!DedupSpacing /\ history \in Seq(Seen) => Spaced
    <2>1. RecentCap \in Nat
      BY PipelineAssumption DEF S!ScannerAssumption
    <2> QED
      BY <2>1 DEF SP!Filter!DedupSpacing, Spaced
  <1> QED
    BY <1>1, <1>2, Composition, SameScanner, HistoryTyped, PTL DEF ComponentsFit

LEMMA SpacedBundles ==
  ASSUME Typed, EventsSpentOnce, Spaced
  PROVE  BundlesSpaced
  <1> SUFFICES ASSUME Len(history) <= RecentCap,
                      NEW i \in DOMAIN accepted, NEW j \in DOMAIN accepted, i # j,
                      accepted[i].opp.token = accepted[j].opp.token
               PROVE  \/ accepted[i].opp.slot >= accepted[j].opp.slot + DedupSlots
                      \/ accepted[j].opp.slot >= accepted[i].opp.slot + DedupSlots
    BY DEF BundlesSpaced
  <1> DEFINE eventOf(k) == [token |-> accepted[k].opp.token, slot |-> accepted[k].opp.slot]
  <1>1. \A k \in DOMAIN accepted :
          /\ eventOf(k) \in Seen
          /\ k \in Positions(Submitted, eventOf(k))
    <2> SUFFICES ASSUME NEW k \in DOMAIN accepted
                 PROVE  eventOf(k) \in Seen /\ k \in Positions(Submitted, eventOf(k))
      OBVIOUS
    <2>1. accepted[k] \in E!Bundles
      BY DEF Typed, E!TypeOK
    <2>2. accepted[k].opp \in FoundOpportunities
      BY <2>1 DEF E!Bundles
    <2> QED
      BY <2>2 DEF FoundOpportunities, Seen, Positions, Submitted, AsBundle, Same
  <1>2. \A e \in Seen :
          /\ IsFiniteSet(Positions(Submitted, e)) /\ IsFiniteSet(Positions(history, e))
          /\ Cardinality(Positions(Submitted, e)) <= Cardinality(Positions(history, e))
          /\ Cardinality(Positions(Submitted, e)) \in Nat
          /\ Cardinality(Positions(history, e)) \in Nat
    <2> SUFFICES ASSUME NEW e \in Seen
                 PROVE  /\ IsFiniteSet(Positions(Submitted, e))
                        /\ IsFiniteSet(Positions(history, e))
                        /\ In(Submitted, e) <= In(history, e)
                        /\ In(Submitted, e) \in Nat /\ In(history, e) \in Nat
      BY DEF In
    <2>1. Spending(e)
      BY DEF EventsSpentOnce
    <2>2. In(Submitted, e) <= In(history, e)
      BY <2>1, CountsNat DEF Spending
    <2> QED
      BY <2>2, CountsNat, SubmittedTyped, PositionsFinite DEF Typed
  <1>3. \A k \in DOMAIN accepted : Positions(history, eventOf(k)) # {}
    BY <1>1, <1>2, TwoElements
  <1> DEFINE d == eventOf(i)
             e == eventOf(j)
  <1>4. /\ d.token = e.token /\ d.slot = accepted[i].opp.slot /\ e.slot = accepted[j].opp.slot
        /\ d \in Seen /\ e \in Seen
    BY <1>1
  <1>5. d.slot \in Nat /\ e.slot \in Nat /\ DedupSlots \in Nat \ {0}
    BY <1>4, ConstantKinds, PipelineAssumption DEF Seen, S!ScannerAssumption
  <1>6. CASE d = e
    <2>1. \E p, q \in Positions(history, d) : p # q
      <3>1. i \in Positions(Submitted, d) /\ j \in Positions(Submitted, d)
        BY <1>1, <1>6
      <3> HIDE DEF d
      <3>2. Cardinality(Positions(Submitted, d)) >= 2
        BY <1>2, <1>4, <3>1, TwoElements
      <3>3. Cardinality(Positions(history, d)) >= 2
        BY <1>2, <1>4, <3>2
      <3> QED
        BY <1>2, <1>4, <3>3, TwoElements
    <2>2. \E p, q \in Positions(history, d) : p < q
      BY <2>1 DEF Positions, Typed
    <2>3. PICK p \in Positions(history, d) : \E q \in Positions(history, d) : p < q
      BY <2>2
    <2>4. PICK q \in Positions(history, d) : p < q
      BY <2>3
    <2>5. d.slot >= d.slot + DedupSlots
      BY <2>4 DEF Spaced, Positions, Same
    <2> QED
      BY <1>5, <2>5
  <1>7. CASE d # e
    <2>1. PICK p \in Positions(history, d) : TRUE
      BY <1>3
    <2>2. PICK q \in Positions(history, e) : TRUE
      BY <1>3
    <2>3. d.slot # e.slot
      BY <1>4, <1>7
    <2>4. /\ history[p].slot = d.slot /\ history[q].slot = e.slot
          /\ history[p].token = history[q].token
          /\ p \in DOMAIN history /\ q \in DOMAIN history
      BY <1>4, <2>1, <2>2 DEF Positions, Same
    <2>5. p < q \/ q < p
      BY <2>3, <2>4 DEF Typed
    <2>6. p < q => e.slot >= d.slot + DedupSlots
      BY <2>4 DEF Spaced
    <2>7. q < p => d.slot >= e.slot + DedupSlots
      BY <2>4 DEF Spaced
    <2> QED
      BY <1>4, <2>5, <2>6, <2>7
  <1> QED
    BY <1>6, <1>7

(* The bundles of one token are DedupSlots apart while the recent keys     *)
(* hold every admission, whatever the order the tasks end in               *)
(* (src/scanner/mod.rs:56-81).                                             *)
THEOREM BotSpacesBundles == Spec => []BundlesSpaced
  BY SpacedBundles, AllTyped, SpentOnceAcross, HistorySpaced, PTL

-----------------------------------------------------------------------------
(* More of what is proved of a component, of the bot: what its steps may   *)
(* and must do.                                                            *)

(* No bundle of the bot that Jito takes is older than the age limit by more*)
(* than the lag of the RPC node and the timeouts of the requests in between*)
(* (src/executor/mod.rs:94-236).                                           *)
THEOREM BotSubmitsInTime == Spec => E!SubmittedInTime
  <1> DEFINE Timely == accepted' # accepted =>
                         now <= accepted'[Len(accepted')].opp.slot + MaxAge + RpcLag
                                  + E!SlotsToSubmit
             TimelyP == accepted' # accepted =>
                          now <= accepted'[Len(accepted')].opp.slot + MaxAge + RpcLag
                                   + EP!SlotsToSubmit
  <1>1. EP!Spec => EP!SubmittedInTime
    BY ExecutorAssumptions, EP!InTime
  <1>2. [TimelyP]_EP!vars => [Timely]_E!vars
    BY DEF E!SlotsToSubmit, EP!SlotsToSubmit, E!vars, EP!vars, E!executorVars,
           EP!executorVars, E!execEnvVars, EP!execEnvVars
  <1>3. EP!SubmittedInTime => [][TimelyP]_EP!vars
    BY DEF EP!SubmittedInTime
  <1>4. [][Timely]_E!vars => E!SubmittedInTime
    BY DEF E!SubmittedInTime
  <1> HIDE DEF Timely, TimelyP
  <1> QED
    BY <1>1, <1>2, <1>3, <1>4, Composition, SameExecutor, PTL DEF ComponentsFit

(* The bot evaluates what it sees first, unless every permit is out        *)
(* (src/scanner/mod.rs:63-105), if the sum of the age check does not wrap. *)
THEOREM BotFirstSightings ==
  ASSUME \A s \in Slots : s + MaxAge < U64
  PROVE  Spec => S!FirstSightingEvaluated
  <1> DEFINE Started(e) == \E t \in TaskIds :
                             /\ evals[t] = NoTask
                             /\ evals'[t] = [token |-> e.token, slot |-> e.slot,
                                            loan |-> 1, pc |-> "buy"]
             Sees == \A e \in S!Events :
                       S!Consumes(e) /\ S!FirstSighting(e)
                         => /\ history' = Append(history, e)
                            /\ \/ Started(e)
                               \/ S!Cardinality(S!Live) = S!MaxConcurrency
             SeesP == \A e \in SP!Events :
                        SP!Consumes(e) /\ SP!FirstSighting(e)
                          => /\ history' = Append(history, e)
                             /\ \/ Started(e)
                                \/ SP!Cardinality(SP!Live) = SP!MaxConcurrency
  <1>1. SP!Spec => SP!FirstSightingEvaluated
    BY ScannerAssumptions, SP!FirstSightings
  <1>2. [SeesP]_SP!vars => [Sees]_S!vars
    <2>1. /\ \A e : S!Consumes(e) <=> SP!Consumes(e)
          /\ \A e : S!FirstSighting(e) <=> SP!FirstSighting(e)
          /\ S!Events = SP!Events
      BY DEF S!Consumes, SP!Consumes, S!FirstSighting, SP!FirstSighting, S!Events, SP!Events
    <2>2. S!Cardinality(S!Live) = SP!Cardinality(SP!Live) /\ S!MaxConcurrency = SP!MaxConcurrency
      BY DEF S!Cardinality, SP!Cardinality, S!IsFiniteSet, SP!IsFiniteSet, S!Live, SP!Live,
             S!MaxConcurrency, SP!MaxConcurrency
    <2>3. (UNCHANGED SP!vars) => UNCHANGED S!vars
      BY DEF S!vars, SP!vars, S!envVars, SP!envVars
    <2> QED
      BY <2>1, <2>2, <2>3
  <1>3. SP!FirstSightingEvaluated => [][SeesP]_SP!vars
    BY DEF SP!FirstSightingEvaluated
  <1>4. [][Sees]_S!vars => S!FirstSightingEvaluated
    BY DEF S!FirstSightingEvaluated
  <1> HIDE DEF Sees, SeesP
  <1> QED
    BY <1>1, <1>2, <1>3, <1>4, Composition, SameScanner, PTL DEF ComponentsFit

(* The same for the listener.                                              *)
LEMMA ListenerAssumptions == LP!ListenerAssumption /\ LP!UpdateAssumption
  BY PipelineAssumption
  DEF L!ListenerAssumption, LP!ListenerAssumption, L!UpdateAssumption, LP!UpdateAssumption,
      L!Transaction, LP!Transaction, L!AccountUpdate, LP!AccountUpdate,
      L!Instruction, LP!Instruction, L!Account, LP!Account

LEMMA SameListenerSteps ==
  /\ \A events : L!Deliver(events) <=> LP!Deliver(events)
  /\ \A tx : LP!ProcessTransaction(tx) <=> L!ProcessTransaction(tx)
  /\ \A u : LP!ProcessAccountUpdate(u) <=> L!ProcessAccountUpdate(u)
  /\ (UNCHANGED L!vars) <=> (UNCHANGED LP!vars)
  /\ (UNCHANGED L!listenerVars) <=> (UNCHANGED LP!listenerVars)
  <1>1. /\ (UNCHANGED L!vars) <=> (UNCHANGED LP!vars)
        /\ (UNCHANGED L!listenerVars) <=> (UNCHANGED LP!listenerVars)
    BY DEF L!vars, LP!vars, L!listenerVars, LP!listenerVars
  <1>2. \A events : L!Deliver(events) <=> LP!Deliver(events)
    BY DEF L!Deliver, LP!Deliver, L!TrySend, LP!TrySend
  <1>3. \A tx : LP!ProcessTransaction(tx) <=> L!ProcessTransaction(tx)
    <2>1. \A ix : L!Names(ix) = LP!Names(ix)
      BY DEF L!Names, LP!Names
    <2>2. \A tx : L!Hits(tx) = LP!Hits(tx)
      BY <2>1 DEF L!Hits, LP!Hits
    <2>3. \A I : L!Least(I) = LP!Least(I)
      BY DEF L!Least, LP!Least
    <2>4. \A tx : L!FromTransaction(tx) = LP!FromTransaction(tx)
      BY <2>1, <2>2, <2>3, Zenon DEF L!FromTransaction, LP!FromTransaction
    <2>5. \A tx : L!Matches(tx) <=> LP!Matches(tx)
      BY DEF L!Matches, LP!Matches, L!TransactionFilter, LP!TransactionFilter
    <2> QED
      BY <1>2, <2>4, <2>5 DEF L!ProcessTransaction, LP!ProcessTransaction
  <1>4. \A u : LP!ProcessAccountUpdate(u) <=> L!ProcessAccountUpdate(u)
    <2>1. \A u : L!FromAccountUpdate(u) = LP!FromAccountUpdate(u)
      BY DEF L!FromAccountUpdate, LP!FromAccountUpdate
    <2> QED
      BY <1>2, <2>1 DEF L!ProcessAccountUpdate, LP!ProcessAccountUpdate
  <1> QED
    BY <1>1, <1>2, <1>3, <1>4

LEMMA SameListener == L!Spec => LP!Spec
  <1>1. L!Init => LP!Init
    BY DEF L!Init, LP!Init
  <1>2. L!Receive => LP!Receive
    BY SameListenerSteps DEF L!Receive, LP!Receive, L!IgnoreUpdate, LP!IgnoreUpdate
  <1>3. L!Control => LP!Control
    BY DEF L!Control, LP!Control, L!StopIfCancelled, LP!StopIfCancelled,
           L!Connect, LP!Connect, L!Subscribed, LP!Subscribed,
           L!ConnectFails, LP!ConnectFails, L!StreamEnds, LP!StreamEnds,
           L!StreamCancelled, LP!StreamCancelled, L!Fails, LP!Fails,
           L!BackoffOver, LP!BackoffOver, L!BackoffCancelled, LP!BackoffCancelled
  <1>4. L!Environment => LP!Environment
    BY SameListenerSteps DEF L!Environment, LP!Environment, L!NetworkDown, LP!NetworkDown,
       L!NetworkUp, LP!NetworkUp, L!TakeEvent, LP!TakeEvent,
       L!DropReceiver, LP!DropReceiver, L!Cancel, LP!Cancel
  <1>5. [L!Next]_L!vars => [LP!Next]_LP!vars
    BY <1>2, <1>3, <1>4, SameListenerSteps
    DEF L!Next, LP!Next, L!Own, LP!Own, L!ListenerStep, LP!ListenerStep
  <1> QED
    BY <1>1, <1>5, PTL DEF L!Spec, LP!Spec

(* The bot reports every transaction with DEX activity and every account of*)
(* a DEX program to its scanner, on a channel with room                    *)
(* (src/listener/mod.rs:207-238, 247-266).                                 *)
THEOREM BotOverlooksNothing == Spec => L!DexActivityReported
  <1>1. LP!Spec => LP!DexActivityReported
    BY ListenerAssumptions, LP!NothingOverlooked
  <1>2. LP!ReportsActivity => L!ReportsActivity
    <2>1. \A tx : LP!DexKeys(tx) = L!DexKeys(tx)
      BY DEF LP!DexKeys, L!DexKeys
    <2>2. \A slot, keys : LP!Emits(slot, keys) <=> L!Emits(slot, keys)
      BY DEF LP!Emits, L!Emits
    <2> QED
      BY <2>1, <2>2, SameListenerSteps DEF LP!ReportsActivity, L!ReportsActivity
  <1>3. [LP!ReportsActivity]_LP!vars => [L!ReportsActivity]_L!vars
    BY <1>2, SameListenerSteps
  <1> QED
    BY <1>1, <1>3, Composition, SameListener, PTL
    DEF ComponentsFit, LP!DexActivityReported, L!DexActivityReported

=============================================================================
