--------------------------- MODULE ScannerProofs ---------------------------
(***************************************************************************)
(* Proofs about Scanner, for every value of its constants.                 *)
(***************************************************************************)
EXTENDS Scanner, FiniteSetTheorems, TLAPS

-----------------------------------------------------------------------------
(* Sequences.                                                              *)

LEMMA AppendSeq ==
  ASSUME NEW S, NEW s \in Seq(S), NEW e \in S
  PROVE  /\ Append(s, e) \in Seq(S)
         /\ Len(Append(s, e)) = Len(s) + 1
         /\ Append(s, e)[Len(s) + 1] = e
         /\ \A i \in 1..Len(s) : Append(s, e)[i] = s[i]
  OBVIOUS

LEMMA TailSeq ==
  ASSUME NEW S, NEW s \in Seq(S), s # << >>
  PROVE  /\ Head(s) \in S
         /\ Tail(s) \in Seq(S)
         /\ Len(Tail(s)) = Len(s) - 1
         /\ \A i \in 1..Len(s) - 1 : Tail(s)[i] = s[i + 1]
  OBVIOUS

-----------------------------------------------------------------------------
LEMMA MaxConcurrencyNat == MaxConcurrency \in Nat
  BY ScannerAssumption DEF MaxConcurrency

LEMMA LoanNat ==
  /\ LoanAmounts[1] \in Nat
  /\ LoanAmounts[2] \in Nat
  /\ LoanAmounts[3] \in Nat
  <1>1. U64 \in Nat /\ MaxLoan \in Nat
    BY ScannerAssumption, WordAssumption
  <1>2. MaxLoan \div 2 \in Nat /\ MaxLoan \div 4 \in Nat
    BY <1>1
  <1> QED
    BY <1>1, <1>2 DEF LoanAmounts

LEMMA InitTypeOK == Init => TypeOK
  <1> SUFFICES ASSUME Init PROVE TypeOK
    OBVIOUS
  <1>1. /\ arbQ \in Seq(Events) /\ Len(arbQ) <= MigrationCap
        /\ recentKeys \in Seq(Events) /\ Len(recentKeys) <= RecentCap
        /\ oppQ \in Seq(Opportunities) /\ Len(oppQ) <= OpportunityCap
        /\ history \in Seq(Events)
    BY ScannerAssumption DEF Init
  <1>2. permits \in 0..MaxConcurrency /\ delivered \in 0..MaxEvents
    BY ScannerAssumption, MaxConcurrencyNat DEF Init
  <1>3. evals \in [TaskIds -> Evaluations \cup {NoTask}]
    BY DEF Init
  <1> QED
    BY <1>1, <1>2, <1>3 DEF Init, TypeOK

-----------------------------------------------------------------------------
(* What a step can do to each group of variables.                          *)

TaskStarts ==
  \E t \in TaskIds, r \in Evaluations :
    /\ evals[t] = NoTask /\ permits > 0
    /\ evals' = [evals EXCEPT ![t] = r]
    /\ permits' = permits - 1

TaskMoves ==
  \E t \in TaskIds, r \in Evaluations :
    /\ evals[t] # NoTask
    /\ evals' = [evals EXCEPT ![t] = r]
    /\ permits' = permits

TaskEnds == \E t \in TaskIds : evals[t] # NoTask /\ Finish(t)

EvalsChange == UNCHANGED <<evals, permits>> \/ TaskStarts \/ TaskMoves \/ TaskEnds

LEMMA EvalsStep ==
  ASSUME TypeOK, [Next]_vars
  PROVE  EvalsChange
  <1>1. CASE SkipStale \/ SkipDuplicate \/ DropAtCapacity
    BY <1>1 DEF EvalsChange, SkipStale, SkipDuplicate, DropAtCapacity
  <1>2. ASSUME NEW t \in TaskIds, SpawnEvaluation(t) PROVE EvalsChange
    <2>1. Head(arbQ) \in Events
      BY <1>2 DEF SpawnEvaluation, Receive, TypeOK
    <2> DEFINE r == [token |-> Head(arbQ).token, slot |-> Head(arbQ).slot,
                     loan |-> 1, pc |-> "buy"]
    <2>2. r \in Evaluations
      BY <2>1 DEF Events, Evaluations
    <2> QED
      BY <1>2, <2>2 DEF EvalsChange, TaskStarts, SpawnEvaluation
  <1>3. CASE ScannerCancel \/ ScannerSourceClosed \/ Environment \/ UNCHANGED vars
    BY <1>3 DEF EvalsChange, ScannerCancel, ScannerSourceClosed, Environment, Deliver,
         TakeOpportunity, DropReceiver, DropSender, Cancel, vars
  <1>4. ASSUME NEW t \in TaskIds, Evaluate(t) PROVE EvalsChange
    <2>1. evals[t] # NoTask /\ evals[t] \in Evaluations
      BY <1>4, NoTaskAssumption
      DEF Evaluate, SkipZeroLoan, BuyQuoteFails, BuyQuoteUnusable,
          BuyQuoteArrives, SellQuoteFails, Unprofitable, OpportunitySent,
          OpportunityDropped, At, TypeOK
    <2>2. CASE Finish(t)
      BY <2>1, <2>2 DEF EvalsChange, TaskEnds
    <2>3. CASE NextLoan(t)
      <3>1. CASE Finish(t)
        BY <2>2, <3>1
      <3>2. CASE evals[t].loan < 3 /\ evals' = [evals EXCEPT ![t].loan = @ + 1]
                 /\ UNCHANGED permits
        <4> DEFINE r == [evals[t] EXCEPT !.loan = @ + 1]
        <4>1. r \in Evaluations
          BY <2>1, <3>2 DEF Evaluations
        <4>2. evals' = [evals EXCEPT ![t] = r]
          BY <3>2
        <4> QED
          BY <2>1, <3>2, <4>1, <4>2 DEF EvalsChange, TaskMoves
      <3> QED
        BY <2>3, <3>1, <3>2 DEF NextLoan
    <2>4. CASE BuyQuoteArrives(t)
      <3> DEFINE r == [evals[t] EXCEPT !.pc = "sell"]
      <3>1. r \in Evaluations
        BY <2>1 DEF Evaluations
      <3>2. evals' = [evals EXCEPT ![t] = r] /\ permits' = permits
        BY <2>4 DEF BuyQuoteArrives
      <3> QED
        BY <2>1, <3>1, <3>2 DEF EvalsChange, TaskMoves
    <2> QED
      BY <1>4, <2>2, <2>3, <2>4
      DEF Evaluate, SkipZeroLoan, BuyQuoteFails, BuyQuoteUnusable,
          SellQuoteFails, Unprofitable, OpportunitySent, OpportunityDropped
  <1> QED
    BY <1>1, <1>2, <1>3, <1>4 DEF Next, ScannerStep, HandleEvent, Terminated

Admission(e) ==
  /\ ~IsStale(e) /\ ~IsDuplicate(e)
  /\ Remember(e)

LEMMA FilterStep ==
  ASSUME TypeOK, [Next]_vars
  PROVE  \/ UNCHANGED <<recentKeys, history>>
         \/ \E e \in Events : Admission(e)
  <1>1. CASE DropAtCapacity \/ \E t \in TaskIds : SpawnEvaluation(t)
    <2>1. Head(arbQ) \in Events
      BY <1>1 DEF DropAtCapacity, SpawnEvaluation, Receive, TypeOK
    <2> QED
      BY <1>1, <2>1 DEF DropAtCapacity, SpawnEvaluation, Admission
  <1>2. CASE SkipStale \/ SkipDuplicate \/ ScannerCancel \/ ScannerSourceClosed
    BY <1>2 DEF SkipStale, SkipDuplicate, ScannerCancel, ScannerSourceClosed
  <1>3. CASE Environment \/ UNCHANGED vars
    BY <1>3 DEF Environment, Deliver, TakeOpportunity, DropReceiver,
         DropSender, Cancel, vars
  <1>4. ASSUME NEW t \in TaskIds, Evaluate(t) PROVE UNCHANGED <<recentKeys, history>>
    BY <1>4
    DEF Evaluate, SkipZeroLoan, BuyQuoteFails, BuyQuoteUnusable, BuyQuoteArrives,
        SellQuoteFails, Unprofitable, OpportunitySent, OpportunityDropped
  <1> QED
    BY <1>1, <1>2, <1>3, <1>4 DEF Next, ScannerStep, HandleEvent, Terminated

LEMMA ArbQStep ==
  ASSUME TypeOK, [Next]_vars
  PROVE  \/ UNCHANGED arbQ
         \/ arbQ' = << >>
         \/ arbQ # << >> /\ arbQ' = Tail(arbQ)
         \/ Len(arbQ) < MigrationCap /\ \E e \in Events : arbQ' = Append(arbQ, e)
  <1>1. CASE HandleEvent
    BY <1>1 DEF HandleEvent, SkipStale, SkipDuplicate, DropAtCapacity,
         SpawnEvaluation, Receive
  <1>2. CASE ScannerCancel \/ ScannerSourceClosed \/ Environment \/ UNCHANGED vars
    BY <1>2 DEF ScannerCancel, ScannerSourceClosed, Environment, Deliver,
         TakeOpportunity, DropReceiver, DropSender, Cancel, vars
  <1>3. ASSUME NEW t \in TaskIds, Evaluate(t) PROVE UNCHANGED arbQ
    BY <1>3
    DEF Evaluate, SkipZeroLoan, BuyQuoteFails, BuyQuoteUnusable, BuyQuoteArrives,
        SellQuoteFails, Unprofitable, OpportunitySent, OpportunityDropped
  <1> QED
    BY <1>1, <1>2, <1>3 DEF Next, ScannerStep, Terminated

LEMMA OppQStep ==
  ASSUME TypeOK, [Next]_vars
  PROVE  \/ UNCHANGED oppQ
         \/ oppQ' = << >>
         \/ oppQ # << >> /\ oppQ' = Tail(oppQ)
         \/ /\ Len(oppQ) < OpportunityCap
            /\ \E o \in Opportunities : oppQ' = Append(oppQ, o)
  <1>1. CASE HandleEvent \/ ScannerCancel \/ ScannerSourceClosed
    BY <1>1 DEF HandleEvent, SkipStale, SkipDuplicate, DropAtCapacity,
         SpawnEvaluation, ScannerCancel, ScannerSourceClosed
  <1>2. CASE Environment \/ UNCHANGED vars
    BY <1>2 DEF Environment, Deliver, TakeOpportunity, DropReceiver,
         DropSender, Cancel, vars
  <1>3. ASSUME NEW t \in TaskIds, OpportunitySent(t)
        PROVE  /\ Len(oppQ) < OpportunityCap
               /\ \E o \in Opportunities : oppQ' = Append(oppQ, o)
    <2>1. evals[t] \in Evaluations
      BY <1>3, NoTaskAssumption DEF OpportunitySent, At, TypeOK
    <2>2. Amount(t) \in Nat
      BY <2>1, LoanNat DEF Amount, Evaluations
    <2>3. ASSUME NEW minOut \in SellOutputs PROVE Opportunity(t, minOut) \in Opportunities
      BY <2>1, <2>2 DEF Opportunity, Opportunities, Evaluations
    <2> QED
      BY <1>3, <2>3 DEF OpportunitySent
  <1>4. ASSUME NEW t \in TaskIds, Evaluate(t), ~OpportunitySent(t) PROVE UNCHANGED oppQ
    BY <1>4
    DEF Evaluate, SkipZeroLoan, BuyQuoteFails, BuyQuoteUnusable, BuyQuoteArrives,
        SellQuoteFails, Unprofitable, OpportunityDropped
  <1> QED
    BY <1>1, <1>2, <1>3, <1>4 DEF Next, ScannerStep, Terminated

-----------------------------------------------------------------------------
(* The inductive invariant.  permits <= MaxConcurrency is not inductive by *)
(* itself: that a task which ends may return a permit follows only from    *)
(* the count of permits held.                                              *)

Inv == TypeOK /\ PermitsConserved /\ RingIsSuffix

LEMMA InitInv == Init => Inv
  <1> SUFFICES ASSUME Init PROVE Inv
    OBVIOUS
  <1>1. Live = {}
    BY DEF Init, Live
  <1>2. PermitsConserved
    BY <1>1, FS_EmptySet, MaxConcurrencyNat DEF Init, PermitsConserved
  <1>3. RingIsSuffix
    BY ScannerAssumption DEF Init, RingIsSuffix
  <1> QED
    BY <1>2, <1>3, InitTypeOK DEF Inv

LEMMA LiveFinite ==
  /\ IsFiniteSet(Live)
  /\ Cardinality(Live) \in Nat
  BY FS_Subset, FS_CardinalityType, ScannerAssumption DEF Live

LEMMA PermitsStep ==
  ASSUME TypeOK, PermitsConserved, [Next]_vars
  PROVE  PermitsConserved' /\ permits' \in 0..MaxConcurrency
  <1>1. permits \in Nat /\ MaxConcurrency \in Nat
    BY MaxConcurrencyNat DEF TypeOK
  <1>2. CASE UNCHANGED <<evals, permits>>
    BY <1>2 DEF TypeOK, PermitsConserved, Live
  <1>3. CASE TaskStarts
    <2>1. PICK t \in TaskIds, r \in Evaluations :
            /\ evals[t] = NoTask /\ permits > 0
            /\ evals' = [evals EXCEPT ![t] = r]
            /\ permits' = permits - 1
      BY <1>3 DEF TaskStarts
    <2>2. Live' = Live \cup {t} /\ t \notin Live
      BY <2>1, NoTaskAssumption DEF TypeOK, Live
    <2>3. Cardinality(Live') = Cardinality(Live) + 1
      BY <2>2, LiveFinite, FS_AddElement
    <2> QED
      BY <1>1, <2>1, <2>3, LiveFinite DEF PermitsConserved
  <1>4. CASE TaskMoves
    <2>1. PICK t \in TaskIds, r \in Evaluations :
            /\ evals[t] # NoTask
            /\ evals' = [evals EXCEPT ![t] = r]
            /\ permits' = permits
      BY <1>4 DEF TaskMoves
    <2>2. Live' = Live
      BY <2>1, NoTaskAssumption DEF TypeOK, Live
    <2> QED
      BY <2>1, <2>2 DEF TypeOK, PermitsConserved
  <1>5. CASE TaskEnds
    <2>1. PICK t \in TaskIds : evals[t] # NoTask /\ Finish(t)
      BY <1>5 DEF TaskEnds
    <2>2. Live' = Live \ {t} /\ t \in Live
      BY <2>1 DEF TypeOK, Live, Finish
    <2>3. Cardinality(Live') = Cardinality(Live) - 1
      BY <2>2, LiveFinite, FS_RemoveElement
    <2>4. Cardinality(Live') \in Nat
      BY <2>2, LiveFinite, FS_Subset, FS_CardinalityType
    <2>5. permits' = permits + 1
      BY <2>1 DEF Finish
    <2> QED
      BY <1>1, <2>3, <2>4, <2>5, LiveFinite DEF PermitsConserved
  <1> QED
    BY <1>2, <1>3, <1>4, <1>5, EvalsStep DEF EvalsChange

LEMMA RememberStep ==
  ASSUME TypeOK, RingIsSuffix, NEW e \in Events, Remember(e)
  PROVE  /\ recentKeys' \in Seq(Events) /\ Len(recentKeys') <= RecentCap
         /\ history' \in Seq(Events)
         /\ RingIsSuffix'
  <1> DEFINE kept == IF Len(recentKeys) >= RecentCap THEN Tail(recentKeys) ELSE recentKeys
  <1>1. RecentCap \in Nat \ {0}
    BY ScannerAssumption
  <1>2. recentKeys' = Append(kept, e) /\ history' = Append(history, e)
    BY DEF Remember
  <1>3. recentKeys \in Seq(Events) /\ history \in Seq(Events)
    BY DEF TypeOK
  <1>4. /\ kept \in Seq(Events) /\ Len(kept) < RecentCap
        /\ Len(kept) = IF Len(history) < RecentCap THEN Len(history) ELSE RecentCap - 1
        /\ \A i \in 1..Len(kept) : kept[i] = history[Len(history) - Len(kept) + i]
    <2>1. CASE Len(recentKeys) >= RecentCap
      <3>1. recentKeys # << >> /\ kept = Tail(recentKeys)
        BY <1>1, <1>3, <2>1
      <3> HIDE DEF kept
      <3>2. Len(recentKeys) = RecentCap /\ Len(history) >= RecentCap
        BY <1>1, <1>3, <2>1 DEF RingIsSuffix
      <3>3. /\ kept \in Seq(Events) /\ Len(kept) = RecentCap - 1
            /\ \A i \in 1..RecentCap - 1 : kept[i] = recentKeys[i + 1]
        BY <1>3, <3>1, <3>2, TailSeq
      <3>4. ASSUME NEW i \in 1..Len(kept)
            PROVE  kept[i] = history[Len(history) - Len(kept) + i]
        <4>1. i \in 1..RecentCap - 1 /\ i + 1 \in 1..Len(recentKeys)
          BY <1>1, <3>2, <3>3
        <4>2. recentKeys[i + 1] = history[Len(history) - Len(recentKeys) + (i + 1)]
          BY <4>1 DEF RingIsSuffix
        <4>3. Len(history) - Len(recentKeys) + (i + 1) = Len(history) - Len(kept) + i
          BY <1>1, <1>3, <3>2, <3>3, <4>1
        <4> QED
          BY <3>3, <4>1, <4>2, <4>3
      <3>5. Len(history) \in Nat
        BY <1>3
      <3> QED
        BY <1>1, <3>2, <3>3, <3>4, <3>5
    <2>2. CASE ~(Len(recentKeys) >= RecentCap)
      <3>1. kept = recentKeys
        BY <2>2
      <3>2. Len(history) < RecentCap /\ Len(recentKeys) = Len(history)
        BY <1>1, <1>3, <2>2 DEF RingIsSuffix
      <3> HIDE DEF kept
      <3>3. \A i \in 1..Len(kept) : kept[i] = history[Len(history) - Len(kept) + i]
        BY <3>1 DEF RingIsSuffix
      <3>4. kept \in Seq(Events) /\ Len(kept) = Len(history) /\ Len(history) \in Nat
        BY <1>3, <3>1, <3>2
      <3> QED
        BY <1>1, <3>2, <3>3, <3>4
    <2> QED
      BY <2>1, <2>2
  <1> HIDE DEF kept
  <1>5. /\ recentKeys' \in Seq(Events) /\ Len(recentKeys') = Len(kept) + 1
        /\ recentKeys'[Len(kept) + 1] = e
        /\ \A i \in 1..Len(kept) : recentKeys'[i] = kept[i]
    BY SMTT(30), <1>2, <1>4, AppendSeq
  <1>6. /\ history' \in Seq(Events) /\ Len(history') = Len(history) + 1
        /\ history'[Len(history) + 1] = e
        /\ \A i \in 1..Len(history) : history'[i] = history[i]
    BY <1>2, <1>3, AppendSeq
  <1>7. Len(kept) \in Nat /\ Len(history) \in Nat
    BY <1>3, <1>4
  <1>8. Len(recentKeys') = IF Len(history') <= RecentCap THEN Len(history') ELSE RecentCap
    BY <1>1, <1>4, <1>5, <1>6, <1>7
  <1>9. ASSUME NEW i \in 1..Len(recentKeys')
        PROVE  recentKeys'[i] = history'[Len(history') - Len(recentKeys') + i]
    <2>1. CASE i = Len(kept) + 1
      BY <1>5, <1>6, <1>7, <2>1
    <2>2. CASE i \in 1..Len(kept)
      <3>1. Len(history) - Len(kept) + i \in 1..Len(history)
        BY <1>1, <1>4, <1>7, <2>2
      <3>2. Len(history') - Len(recentKeys') + i = Len(history) - Len(kept) + i
        BY <1>5, <1>6, <1>7, <2>2
      <3>3. recentKeys'[i] = kept[i] /\ kept[i] = history[Len(history) - Len(kept) + i]
        BY <1>4, <1>5, <2>2
      <3> QED
        BY <1>6, <3>1, <3>2, <3>3
    <2> QED
      BY <1>5, <1>7, <2>1, <2>2
  <1>10. Len(recentKeys') <= RecentCap
    BY <1>1, <1>4, <1>5, <1>7
  <1> QED
    BY <1>5, <1>6, <1>8, <1>9, <1>10 DEF RingIsSuffix

LEMMA RingStep ==
  ASSUME TypeOK, RingIsSuffix, [Next]_vars
  PROVE  /\ recentKeys' \in Seq(Events) /\ Len(recentKeys') <= RecentCap
         /\ history' \in Seq(Events)
         /\ RingIsSuffix'
  <1>1. CASE UNCHANGED <<recentKeys, history>>
    BY <1>1 DEF TypeOK, RingIsSuffix
  <1>2. CASE \E e \in Events : Admission(e)
    BY <1>2, RememberStep DEF Admission
  <1> QED
    BY <1>1, <1>2, FilterStep

LEMMA ControlStep ==
  ASSUME TypeOK, [Next]_vars
  PROVE  /\ scannerPc' \in {"loop", "done"}
         /\ cancelled' \in BOOLEAN /\ senderGone' \in BOOLEAN
         /\ receiverGone' \in BOOLEAN
         /\ delivered' \in 0..MaxEvents
  <1>1. CASE ScannerStep /\ UNCHANGED envVars
    <2>1. scannerPc' \in {"loop", "done"}
      BY <1>1
      DEF TypeOK, ScannerStep, HandleEvent, SkipStale, SkipDuplicate,
          DropAtCapacity, SpawnEvaluation, ScannerCancel, ScannerSourceClosed,
          Evaluate, SkipZeroLoan, BuyQuoteFails, BuyQuoteUnusable, BuyQuoteArrives,
          SellQuoteFails, Unprofitable, OpportunitySent, OpportunityDropped
    <2> QED
      BY <1>1, <2>1 DEF TypeOK, envVars
  <1>2. CASE Environment
    <2>1. \/ delivered' = delivered
          \/ delivered < MaxEvents /\ delivered' = delivered + 1
      BY <1>2 DEF Environment, Deliver, TakeOpportunity, DropReceiver, DropSender,
           Cancel, envVars
    <2>2. delivered' \in 0..MaxEvents
      BY <2>1, ScannerAssumption DEF TypeOK
    <2>3. /\ scannerPc' \in {"loop", "done"}
          /\ cancelled' \in BOOLEAN /\ senderGone' \in BOOLEAN
          /\ receiverGone' \in BOOLEAN
      BY <1>2 DEF TypeOK, Environment, Deliver, TakeOpportunity, DropReceiver,
           DropSender, Cancel, envVars
    <2> QED
      BY <2>2, <2>3
  <1>3. CASE UNCHANGED vars
    BY <1>3 DEF TypeOK, vars, envVars
  <1>4. \/ ScannerStep /\ UNCHANGED envVars
        \/ Environment
        \/ UNCHANGED vars
    BY DEF Next, Terminated
  <1> QED
    BY <1>1, <1>2, <1>3, <1>4

LEMMA TypeStep ==
  ASSUME Inv, [Next]_vars
  PROVE  TypeOK'
  <1> USE DEF Inv
  <1>1. arbQ' \in Seq(Events) /\ Len(arbQ') <= MigrationCap
    <2>1. MigrationCap \in Nat /\ arbQ \in Seq(Events) /\ Len(arbQ) <= MigrationCap
      BY ScannerAssumption DEF TypeOK
    <2>2. CASE arbQ # << >> /\ arbQ' = Tail(arbQ)
      BY <2>1, <2>2, TailSeq
    <2>3. CASE Len(arbQ) < MigrationCap /\ \E e \in Events : arbQ' = Append(arbQ, e)
      <3>1. PICK e \in Events : arbQ' = Append(arbQ, e)
        BY <2>3
      <3>2. arbQ' \in Seq(Events) /\ Len(arbQ') = Len(arbQ) + 1
        BY <2>1, <3>1, AppendSeq
      <3> QED
        BY <2>1, <2>3, <3>2
    <2>4. CASE arbQ' = << >>
      BY <2>1, <2>4
    <2>5. CASE UNCHANGED arbQ
      BY <2>1, <2>5
    <2> QED
      BY <2>2, <2>3, <2>4, <2>5, ArbQStep
  <1>2. oppQ' \in Seq(Opportunities) /\ Len(oppQ') <= OpportunityCap
    <2>1. OpportunityCap \in Nat /\ oppQ \in Seq(Opportunities) /\ Len(oppQ) <= OpportunityCap
      BY ScannerAssumption DEF TypeOK
    <2>2. CASE oppQ # << >> /\ oppQ' = Tail(oppQ)
      BY <2>1, <2>2, TailSeq
    <2>3. CASE /\ Len(oppQ) < OpportunityCap
               /\ \E o \in Opportunities : oppQ' = Append(oppQ, o)
      <3>1. PICK o \in Opportunities : oppQ' = Append(oppQ, o)
        BY <2>3
      <3>2. oppQ' \in Seq(Opportunities) /\ Len(oppQ') = Len(oppQ) + 1
        BY <2>1, <3>1, AppendSeq
      <3> QED
        BY <2>1, <2>3, <3>2
    <2>4. CASE oppQ' = << >>
      BY <2>1, <2>4
    <2>5. CASE UNCHANGED oppQ
      BY <2>1, <2>5
    <2> QED
      BY <2>2, <2>3, <2>4, <2>5, OppQStep
  <1>3. evals' \in [TaskIds -> Evaluations \cup {NoTask}]
    BY EvalsStep DEF TypeOK, EvalsChange, TaskStarts, TaskMoves, TaskEnds, Finish
  <1>4. permits' \in 0..MaxConcurrency
    BY PermitsStep
  <1> QED
    BY <1>1, <1>2, <1>3, <1>4, RingStep, ControlStep DEF TypeOK

(* Inv holds in every reachable state.                                     *)
THEOREM Invariance == Spec => []Inv
  <1>1. Inv /\ [Next]_vars => Inv'
    BY TypeStep, PermitsStep, RingStep DEF Inv
  <1> QED
    BY <1>1, InitInv, PTL DEF Spec

(* Every variable keeps to its type, and every queue and buffer to its     *)
(* capacity, for every configuration.                                      *)
THEOREM TypeCorrect == Spec => []TypeOK
  BY Invariance, PTL DEF Inv

(* The semaphore of src/scanner/mod.rs:29 never loses or forges a permit.  *)
THEOREM PermitConservation == Spec => []PermitsConserved
  BY Invariance, PTL DEF Inv

(* recent_keys always holds exactly the newest admissions                  *)
(* (src/scanner/mod.rs:78-81).                                             *)
THEOREM RingCorrect == Spec => []RingIsSuffix
  BY Invariance, PTL DEF Inv

-----------------------------------------------------------------------------
(* The refinement.                                                         *)

(* What the loop reads from the ring is what the filter reads from the     *)
(* history: the recorded keys are the recent admissions, and the key at    *)
(* the back is the last of them.                                           *)
LEMMA RingReadsHistory ==
  ASSUME TypeOK, RingIsSuffix
  PROVE  /\ \A i \in Filter!Recent : \E k \in DOMAIN recentKeys : recentKeys[k] = history[i]
         /\ history # << >> => /\ recentKeys # << >>
                              /\ recentKeys[Len(recentKeys)] = history[Len(history)]
  <1> DEFINE m == Len(recentKeys)
             n == Len(history)
  <1>1. /\ m \in Nat /\ n \in Nat /\ RecentCap \in Nat \ {0}
        /\ DOMAIN recentKeys = 1..m /\ DOMAIN history = 1..n
    BY ScannerAssumption DEF TypeOK
  <1>2. m = IF n <= RecentCap THEN n ELSE RecentCap
    BY DEF RingIsSuffix
  <1>3. \A k \in 1..m : recentKeys[k] = history[n - m + k]
    BY DEF RingIsSuffix
  <1>4. ASSUME NEW i \in Filter!Recent
        PROVE  \E k \in DOMAIN recentKeys : recentKeys[k] = history[i]
    <2>1. i \in 1..n /\ i > n - RecentCap
      BY <1>1 DEF Filter!Recent
    <2>2. i - (n - m) \in 1..m
      BY <1>1, <1>2, <2>1
    <2>3. n - m + (i - (n - m)) = i
      BY <1>1, <2>1
    <2> QED
      BY <1>1, <1>3, <2>2, <2>3
  <1>5. ASSUME history # << >>
        PROVE  recentKeys # << >> /\ recentKeys[m] = history[n]
    <2>1. n # 0
      BY <1>5 DEF TypeOK
    <2>2. m \in 1..m /\ n - m + m = n
      BY <1>1, <1>2, <2>1
    <2> QED
      BY <1>1, <1>3, <2>2
  <1> QED
    BY <1>4, <1>5

LEMMA AdmissionIsAdmit ==
  ASSUME TypeOK, RingIsSuffix, NEW e \in Events, Admission(e)
  PROVE  Filter!Admit(e)
  <1>1. Filter!Spaced(e)
    <2> SUFFICES ASSUME NEW i \in Filter!Recent, history[i].token = e.token
                 PROVE  e.slot >= history[i].slot + DedupSlots
      BY DEF Filter!Spaced
    <2>1. PICK k \in DOMAIN recentKeys : recentKeys[k] = history[i]
      BY RingReadsHistory
    <2>2. ~(e.slot < recentKeys[k].slot + DedupSlots)
      BY <2>1 DEF Admission, IsDuplicate
    <2>3. recentKeys[k] \in Events
      BY <2>1 DEF TypeOK
    <2>4. e.slot \in Nat /\ recentKeys[k].slot \in Nat /\ DedupSlots \in Nat
      BY <2>3, ScannerAssumption DEF Events
    <2> QED
      BY <2>1, <2>2, <2>4
  <1>2. Filter!NotStale(e)
    <2> SUFFICES ASSUME history # << >>
                 PROVE  history[Len(history)].slot <= AddU64(e.slot, MaxAge)
      BY DEF Filter!NotStale, Filter!AddU64, AddU64
    <2>1. recentKeys # << >> /\ recentKeys[Len(recentKeys)] = history[Len(history)]
      BY RingReadsHistory
    <2>2. ~(recentKeys[Len(recentKeys)].slot > AddU64(e.slot, MaxAge))
      BY <2>1 DEF Admission, IsStale
    <2>3. recentKeys[Len(recentKeys)] \in Events
      BY <2>1 DEF TypeOK
    <2>4. recentKeys[Len(recentKeys)].slot \in Nat
      BY <2>3, ScannerAssumption DEF Events
    <2>5. AddU64(e.slot, MaxAge) \in Nat
      <3>1. e.slot \in Nat /\ MaxAge \in Nat
        BY ScannerAssumption DEF Events
      <3>2. U64 \in Nat /\ U64 > 2
        BY WordAssumption
      <3> QED
        BY <3>1, <3>2 DEF AddU64
    <2> QED
      BY <2>1, <2>2, <2>4, <2>5
  <1> QED
    BY <1>1, <1>2 DEF Filter!Admit, Admission, Remember

(* The scanner's loop implements AdmissionFilter: with a ring of RecentCap *)
(* keys it decides as if it remembered every admission.                    *)
THEOREM Refinement == Spec => ImplementsFilter
  <1>1. Init => Filter!Init
    BY DEF Init, Filter!Init
  <1>2. Inv /\ [Next]_vars => [Filter!Next]_history
    <2> SUFFICES ASSUME Inv, [Next]_vars PROVE [Filter!Next]_history
      OBVIOUS
    <2>1. ASSUME NEW e \in Events, Admission(e) PROVE Filter!Next
      <3>1. Filter!Admit(e) /\ e \in Filter!Events
        BY <2>1, AdmissionIsAdmit DEF Inv, Events, Filter!Events
      <3> QED
        BY <3>1 DEF Filter!Next
    <2> QED
      BY <2>1, FilterStep DEF Inv
  <1> QED
    BY <1>1, <1>2, Invariance, PTL DEF Spec, ImplementsFilter, Filter!Spec

-----------------------------------------------------------------------------
(* What AdmissionFilter promises holds of the scanner.                     *)

FilterProofs == INSTANCE AdmissionFilterProofs WITH admitted <- history

LEMMA FilterAssumptions ==
  /\ FilterProofs!FilterAssumption /\ FilterProofs!WordAssumption
  /\ FilterProofs!TipAssumption
  BY ScannerAssumption, WordAssumption, TipAssumption
  DEF FilterProofs!FilterAssumption, FilterProofs!WordAssumption, FilterProofs!TipAssumption

LEMMA SameFilter == Filter!Spec => FilterProofs!Spec
  <1>1. Filter!Init => FilterProofs!Init
    BY DEF Filter!Init, FilterProofs!Init
  <1>2. ASSUME NEW e \in Filter!Events, Filter!Admit(e)
        PROVE  e \in FilterProofs!Events /\ FilterProofs!Admit(e)
    BY <1>2 DEF Filter!Events, FilterProofs!Events, Filter!Admit, FilterProofs!Admit,
                Filter!Spaced, FilterProofs!Spaced, Filter!Recent, FilterProofs!Recent,
                Filter!NotStale, FilterProofs!NotStale, Filter!AddU64, FilterProofs!AddU64
  <1>3. [Filter!Next]_history => [FilterProofs!Next]_history
    BY <1>2 DEF Filter!Next, FilterProofs!Next
  <1> QED
    BY <1>1, <1>3, PTL DEF Filter!Spec, FilterProofs!Spec

(* The scanner itself spaces its admissions: whatever the stream and the   *)
(* interleaving with its tasks, it admits one token twice within           *)
(* DedupSlots slots only after RecentCap other admissions.                 *)
THEOREM ScannerSpacing == Spec => []Filter!DedupSpacing
  <1>1. FilterProofs!Spec => []FilterProofs!DedupSpacing
    BY FilterAssumptions, FilterProofs!Spacing
  <1>2. FilterProofs!DedupSpacing <=> Filter!DedupSpacing
    BY DEF FilterProofs!DedupSpacing, Filter!DedupSpacing
  <1> QED
    BY <1>1, <1>2, Refinement, SameFilter, PTL DEF ImplementsFilter

(* The age check adds MaxAge to a slot on u64.                             *)
NoWrap == \A s \in Slots : s + MaxAge < U64

(* And its slots drift backwards by no more than MaxAge per admission.     *)
THEOREM ScannerDrift ==
  ASSUME NoWrap
  PROVE  Spec => []Filter!DriftBounded
  <1>1. FilterProofs!Spec => []FilterProofs!DriftBounded
    BY NoWrap, FilterAssumptions, FilterProofs!Drift DEF NoWrap, FilterProofs!NoWrap
  <1>2. FilterProofs!DriftBounded <=> Filter!DriftBounded
    BY DEF FilterProofs!DriftBounded, Filter!DriftBounded
  <1> QED
    BY <1>1, <1>2, Refinement, SameFilter, PTL DEF ImplementsFilter

-----------------------------------------------------------------------------
(* An admission is spent once: the count behind AdmissionsSpentOnce.       *)

Carries(r, e) == r.token = e.token /\ r.slot = e.slot
Carrying(e) == {t \in Live : Carries(evals[t], e)}
QueuedFor(q, e) == {i \in DOMAIN q : Carries(q[i], e)}
AdmittedAs(h, e) == {i \in DOMAIN h : h[i] = e}

Spent(e) ==
  Cardinality(Carrying(e)) + Cardinality(QueuedFor(oppQ, e))
    <= Cardinality(AdmittedAs(history, e))

LEMMA PositionsFinite ==
  ASSUME NEW S, NEW s \in Seq(S), NEW D, D \subseteq DOMAIN s
  PROVE  IsFiniteSet(D) /\ Cardinality(D) \in Nat
  <1>1. DOMAIN s = 1..Len(s) /\ Len(s) \in Nat
    OBVIOUS
  <1>2. IsFiniteSet(1..Len(s))
    BY <1>1, FS_Interval
  <1> QED
    BY <1>1, <1>2, FS_Subset, FS_CardinalityType

LEMMA QueuedFinite ==
  ASSUME NEW S, NEW s \in Seq(S), NEW e
  PROVE  IsFiniteSet(QueuedFor(s, e)) /\ Cardinality(QueuedFor(s, e)) \in Nat
  BY PositionsFinite DEF QueuedFor

LEMMA AdmittedFinite ==
  ASSUME NEW S, NEW s \in Seq(S), NEW e
  PROVE  IsFiniteSet(AdmittedAs(s, e)) /\ Cardinality(AdmittedAs(s, e)) \in Nat
  BY PositionsFinite DEF AdmittedAs

LEMMA AppendDomain ==
  ASSUME NEW S, NEW s \in Seq(S), NEW x \in S
  PROVE  /\ DOMAIN s = 1..Len(s) /\ Len(s) \in Nat
         /\ DOMAIN Append(s, x) = 1..(Len(s) + 1)
         /\ Append(s, x)[Len(s) + 1] = x
         /\ \A i \in 1..Len(s) : Append(s, x)[i] = s[i]
  OBVIOUS

(* One more element counts once if it carries e, and not at all otherwise. *)
LEMMA QueuedGrows ==
  ASSUME NEW S, NEW s \in Seq(S), NEW x \in S, NEW e
  PROVE  Cardinality(QueuedFor(Append(s, x), e))
           = Cardinality(QueuedFor(s, e)) + (IF Carries(x, e) THEN 1 ELSE 0)
  <1>1. Len(s) + 1 \notin QueuedFor(s, e)
    BY AppendDomain DEF QueuedFor
  <1>2. CASE Carries(x, e)
    <2>1. QueuedFor(Append(s, x), e) = QueuedFor(s, e) \cup {Len(s) + 1}
      BY <1>2, AppendDomain DEF QueuedFor
    <2>2. Cardinality(QueuedFor(Append(s, x), e)) = Cardinality(QueuedFor(s, e)) + 1
      BY <1>1, <2>1, QueuedFinite, FS_AddElement
    <2> QED
      BY <1>2, <2>2
  <1>3. CASE ~Carries(x, e)
    <2>1. QueuedFor(Append(s, x), e) = QueuedFor(s, e)
      BY <1>3, AppendDomain DEF QueuedFor
    <2> QED
      BY <1>3, <2>1, QueuedFinite
  <1> QED
    BY <1>2, <1>3

LEMMA AdmittedGrows ==
  ASSUME NEW S, NEW s \in Seq(S), NEW x \in S, NEW e
  PROVE  Cardinality(AdmittedAs(Append(s, x), e))
           = Cardinality(AdmittedAs(s, e)) + (IF x = e THEN 1 ELSE 0)
  <1>1. Len(s) + 1 \notin AdmittedAs(s, e)
    BY AppendDomain DEF AdmittedAs
  <1>2. CASE x = e
    <2>1. AdmittedAs(Append(s, x), e) = AdmittedAs(s, e) \cup {Len(s) + 1}
      BY <1>2, AppendDomain DEF AdmittedAs
    <2>2. Cardinality(AdmittedAs(Append(s, x), e)) = Cardinality(AdmittedAs(s, e)) + 1
      BY <1>1, <2>1, AdmittedFinite, FS_AddElement
    <2> QED
      BY <1>2, <2>2
  <1>3. CASE x # e
    <2>1. AdmittedAs(Append(s, x), e) = AdmittedAs(s, e)
      BY <1>3, AppendDomain DEF AdmittedAs
    <2> QED
      BY <1>3, <2>1, AdmittedFinite
  <1> QED
    BY <1>2, <1>3

(* Taking the oldest opportunity off the queue adds nothing.               *)
LEMMA TailQueued ==
  ASSUME NEW S, NEW s \in Seq(S), s # << >>, NEW e
  PROVE  Cardinality(QueuedFor(Tail(s), e)) <= Cardinality(QueuedFor(s, e))
  <1> DEFINE A == QueuedFor(Tail(s), e)
             B == QueuedFor(s, e)
             f == [i \in A |-> i + 1]
  <1>1. /\ DOMAIN Tail(s) = 1..(Len(s) - 1) /\ DOMAIN s = 1..Len(s) /\ Len(s) \in Nat
        /\ \A i \in 1..(Len(s) - 1) : Tail(s)[i] = s[i + 1]
    OBVIOUS
  <1>2. \A i \in A : i \in Int /\ i + 1 \in B
    BY <1>1 DEF QueuedFor
  <1>3. IsFiniteSet(B)
    BY QueuedFinite
  <1> HIDE DEF A, B
  <1>4. f \in [A -> B]
    BY <1>2
  <1>5. \A i, j \in A : f[i] = f[j] => i = j
    BY <1>2
  <1>6. f \in Injection(A, B)
    BY <1>4, <1>5 DEF Injection, IsInjective
  <1>7. Cardinality(A) <= Cardinality(B)
    BY <1>3, <1>6, FS_Injection
  <1> QED
    BY <1>7 DEF A, B

LEMMA SpentCounts ==
  ASSUME TypeOK, NEW e
  PROVE  /\ IsFiniteSet(Carrying(e)) /\ Cardinality(Carrying(e)) \in Nat
         /\ Cardinality(QueuedFor(oppQ, e)) \in Nat
         /\ Cardinality(AdmittedAs(history, e)) \in Nat
  <1>1. Carrying(e) \subseteq Live
    BY DEF Carrying
  <1>2. oppQ \in Seq(Opportunities) /\ history \in Seq(Events)
    BY DEF TypeOK
  <1> QED
    BY <1>1, <1>2, LiveFinite, FS_Subset, FS_CardinalityType, QueuedFinite, AdmittedFinite

(* The three ways the tasks change: none for e, one more, one less.        *)
LEMMA CarryingMoves ==
  ASSUME TypeOK, NEW e, NEW t \in TaskIds, NEW r \in Evaluations, evals[t] # NoTask,
         r.token = evals[t].token, r.slot = evals[t].slot,
         evals' = [evals EXCEPT ![t] = r]
  PROVE  Carrying(e)' = Carrying(e)
  <1>1. r # NoTask
    BY NoTaskAssumption
  <1>2. \A u \in TaskIds : evals'[u] = IF u = t THEN r ELSE evals[u]
    BY DEF TypeOK
  <1>3. \A u \in TaskIds : u \in Carrying(e)' <=> u \in Carrying(e)
    BY <1>1, <1>2 DEF Carrying, Carries, Live
  <1> QED
    BY <1>3 DEF Carrying, Live

LEMMA CarryingEnds ==
  ASSUME TypeOK, NEW e, NEW t \in TaskIds, evals[t] # NoTask,
         evals' = [evals EXCEPT ![t] = NoTask]
  PROVE  /\ Cardinality(Carrying(e)') \in Nat
         /\ Cardinality(Carrying(e)')
              = Cardinality(Carrying(e)) - (IF Carries(evals[t], e) THEN 1 ELSE 0)
  <1>1. Carrying(e)' = Carrying(e) \ {t}
    BY DEF TypeOK, Carrying, Live
  <1>2. t \in Carrying(e) <=> Carries(evals[t], e)
    BY DEF Carrying, Live
  <1>3. Cardinality(Carrying(e)') \in Nat
    BY <1>1, SpentCounts, FS_Subset, FS_CardinalityType
  <1>4. CASE Carries(evals[t], e)
    <2>1. Cardinality(Carrying(e)') = Cardinality(Carrying(e)) - 1
      BY <1>1, <1>2, <1>4, SpentCounts, FS_RemoveElement
    <2> QED
      BY <1>3, <1>4, <2>1
  <1>5. CASE ~Carries(evals[t], e)
    <2>1. Carrying(e)' = Carrying(e)
      BY <1>1, <1>2, <1>5
    <2> QED
      BY <1>3, <1>5, <2>1, SpentCounts
  <1> QED
    BY <1>4, <1>5

LEMMA SpawnSpent ==
  ASSUME TypeOK, NEW e \in Events, Spent(e), NEW t \in TaskIds, SpawnEvaluation(t)
  PROVE  Spent(e)'
  <1> DEFINE h == Head(arbQ)
             r == [token |-> h.token, slot |-> h.slot, loan |-> 1, pc |-> "buy"]
  <1>1. h \in Events /\ history \in Seq(Events) /\ history' = Append(history, h)
    BY TailSeq DEF SpawnEvaluation, Receive, Remember, TypeOK
  <1>2. r \in Evaluations /\ r # NoTask /\ (Carries(r, e) <=> h = e)
    BY <1>1, NoTaskAssumption DEF Evaluations, Events, Carries
  <1>3. evals[t] = NoTask /\ \A u \in TaskIds : evals'[u] = IF u = t THEN r ELSE evals[u]
    BY DEF SpawnEvaluation, TypeOK
  <1>4. UNCHANGED oppQ
    BY DEF SpawnEvaluation
  <1> HIDE DEF h, r
  <1>5. Cardinality(AdmittedAs(history, e)')
          = Cardinality(AdmittedAs(history, e)) + (IF h = e THEN 1 ELSE 0)
    <2>1. AdmittedAs(history, e)' = AdmittedAs(Append(history, h), e)
      BY <1>1 DEF AdmittedAs
    <2> QED
      BY <1>1, <2>1, AdmittedGrows
  <1>6. Cardinality(Carrying(e)')
          = Cardinality(Carrying(e)) + (IF h = e THEN 1 ELSE 0)
    <2>1. t \notin Carrying(e)
      BY <1>3 DEF Carrying, Live
    <2>2. CASE h = e
      <3>1. \A u \in TaskIds : u \in Carrying(e)' <=> u \in Carrying(e) \/ u = t
        BY <1>2, <1>3, <2>2 DEF Carrying, Live
      <3>2. Carrying(e)' = Carrying(e) \cup {t}
        BY <3>1 DEF Carrying, Live
      <3>3. Cardinality(Carrying(e)') = Cardinality(Carrying(e)) + 1
        BY <2>1, <3>2, SpentCounts, FS_AddElement
      <3> QED
        BY <2>2, <3>3
    <2>3. CASE h # e
      <3>1. \A u \in TaskIds : u \in Carrying(e)' <=> u \in Carrying(e)
        BY <1>2, <1>3, <2>3 DEF Carrying, Live
      <3>2. Carrying(e)' = Carrying(e)
        BY <3>1 DEF Carrying, Live
      <3> QED
        BY <2>3, <3>2, SpentCounts
    <2> QED
      BY <2>2, <2>3
  <1>7. QueuedFor(oppQ, e)' = QueuedFor(oppQ, e)
    BY <1>4 DEF QueuedFor
  <1> QED
    BY <1>5, <1>6, <1>7, SpentCounts DEF Spent

LEMMA DropSpent ==
  ASSUME TypeOK, NEW e \in Events, Spent(e), DropAtCapacity
  PROVE  Spent(e)'
  <1> DEFINE h == Head(arbQ)
  <1>1. /\ h \in Events /\ history \in Seq(Events) /\ history' = Append(history, h)
        /\ UNCHANGED <<evals, oppQ>>
    BY TailSeq DEF DropAtCapacity, Receive, Remember, TypeOK
  <1> HIDE DEF h
  <1>2. Cardinality(AdmittedAs(history, e)')
          = Cardinality(AdmittedAs(history, e)) + (IF h = e THEN 1 ELSE 0)
    <2>1. AdmittedAs(history, e)' = AdmittedAs(Append(history, h), e)
      BY <1>1 DEF AdmittedAs
    <2> QED
      BY <1>1, <2>1, AdmittedGrows
  <1>3. Carrying(e)' = Carrying(e) /\ QueuedFor(oppQ, e)' = QueuedFor(oppQ, e)
    BY <1>1 DEF Carrying, Live, QueuedFor
  <1> QED
    BY <1>2, <1>3, SpentCounts DEF Spent

(* A task that hands over its opportunity gives up its own claim to it.    *)
LEMMA SendSpent ==
  ASSUME TypeOK, NEW e \in Events, Spent(e), NEW t \in TaskIds, OpportunitySent(t)
  PROVE  Spent(e)'
  <1>1. evals[t] # NoTask /\ evals[t] \in Evaluations /\ oppQ \in Seq(Opportunities)
    BY DEF OpportunitySent, At, TypeOK
  <1>2. /\ evals' = [evals EXCEPT ![t] = NoTask] /\ UNCHANGED history
        /\ \E minOut \in SellOutputs : oppQ' = Append(oppQ, Opportunity(t, minOut))
    BY DEF OpportunitySent, Finish
  <1>3. PICK minOut \in SellOutputs : oppQ' = Append(oppQ, Opportunity(t, minOut))
    BY <1>2
  <1> DEFINE o == Opportunity(t, minOut)
  <1>4. o \in Opportunities
    <2>1. Amount(t) \in Nat
      BY <1>1, LoanNat DEF Amount, Evaluations
    <2> QED
      BY <1>1, <2>1 DEF Opportunity, Opportunities, Evaluations
  <1>5. Carries(o, e) <=> Carries(evals[t], e)
    BY DEF Opportunity, Carries
  <1> HIDE DEF o
  <1>6. Cardinality(QueuedFor(oppQ, e)')
          = Cardinality(QueuedFor(oppQ, e)) + (IF Carries(evals[t], e) THEN 1 ELSE 0)
    <2>1. QueuedFor(oppQ, e)' = QueuedFor(Append(oppQ, o), e)
      BY <1>3 DEF QueuedFor, o
    <2>2. Cardinality(QueuedFor(Append(oppQ, o), e))
            = Cardinality(QueuedFor(oppQ, e)) + (IF Carries(o, e) THEN 1 ELSE 0)
      BY <1>1, <1>4, QueuedGrows
    <2> QED
      BY <1>5, <2>1, <2>2
  <1>7. Cardinality(Carrying(e)')
          = Cardinality(Carrying(e)) - (IF Carries(evals[t], e) THEN 1 ELSE 0)
    BY <1>1, <1>2, CarryingEnds
  <1>8. AdmittedAs(history, e)' = AdmittedAs(history, e)
    BY <1>2 DEF AdmittedAs
  <1>9. CASE Carries(evals[t], e)
    BY <1>6, <1>7, <1>8, <1>9, SpentCounts DEF Spent
  <1>10. CASE ~Carries(evals[t], e)
    BY <1>6, <1>7, <1>8, <1>10, SpentCounts DEF Spent
  <1> QED
    BY <1>9, <1>10

LEMMA EndSpent ==
  ASSUME TypeOK, NEW e \in Events, Spent(e), NEW t \in TaskIds, evals[t] # NoTask,
         Finish(t), UNCHANGED <<oppQ, history>>
  PROVE  Spent(e)'
  <1>1. /\ Cardinality(Carrying(e)') \in Nat
        /\ Cardinality(Carrying(e)')
             = Cardinality(Carrying(e)) - (IF Carries(evals[t], e) THEN 1 ELSE 0)
    BY CarryingEnds DEF Finish
  <1>2. Cardinality(Carrying(e)') <= Cardinality(Carrying(e))
    BY <1>1, SpentCounts
  <1>3. /\ AdmittedAs(history, e)' = AdmittedAs(history, e)
        /\ QueuedFor(oppQ, e)' = QueuedFor(oppQ, e)
    BY DEF AdmittedAs, QueuedFor
  <1> QED
    BY <1>1, <1>2, <1>3, SpentCounts DEF Spent

LEMMA MoveSpent ==
  ASSUME TypeOK, NEW e \in Events, Spent(e), NEW t \in TaskIds, evals[t] # NoTask,
         NEW r \in Evaluations, r.token = evals[t].token, r.slot = evals[t].slot,
         evals' = [evals EXCEPT ![t] = r], UNCHANGED <<oppQ, history>>
  PROVE  Spent(e)'
  <1>1. Carrying(e)' = Carrying(e)
    BY CarryingMoves
  <1> QED
    BY <1>1 DEF Spent, AdmittedAs, QueuedFor

LEMMA EvaluateSpent ==
  ASSUME TypeOK, NEW e \in Events, Spent(e), NEW t \in TaskIds, Evaluate(t)
  PROVE  Spent(e)'
  <1>1. evals[t] # NoTask /\ evals[t] \in Evaluations
    BY NoTaskAssumption
    DEF Evaluate, SkipZeroLoan, BuyQuoteFails, BuyQuoteUnusable, BuyQuoteArrives,
        SellQuoteFails, Unprofitable, OpportunitySent, OpportunityDropped, At, TypeOK
  <1>2. CASE OpportunitySent(t)
    BY <1>2, SendSpent
  <1>3. CASE BuyQuoteFails(t) \/ SellQuoteFails(t) \/ Unprofitable(t) \/ OpportunityDropped(t)
    <2>1. Finish(t) /\ UNCHANGED <<oppQ, history>>
      BY <1>3 DEF BuyQuoteFails, SellQuoteFails, Unprofitable, OpportunityDropped
    <2> QED
      BY <1>1, <2>1, EndSpent
  <1>4. CASE SkipZeroLoan(t) \/ BuyQuoteUnusable(t)
    <2>1. NextLoan(t) /\ UNCHANGED <<oppQ, history>>
      BY <1>4 DEF SkipZeroLoan, BuyQuoteUnusable
    <2>2. CASE Finish(t)
      BY <1>1, <2>1, <2>2, EndSpent
    <2>3. CASE evals[t].loan < 3 /\ evals' = [evals EXCEPT ![t].loan = @ + 1]
      <3> DEFINE r == [evals[t] EXCEPT !.loan = @ + 1]
      <3>1. r \in Evaluations /\ r.token = evals[t].token /\ r.slot = evals[t].slot
        BY <1>1, <2>3 DEF Evaluations
      <3>2. evals' = [evals EXCEPT ![t] = r]
        BY <2>3
      <3> QED
        BY <1>1, <2>1, <3>1, <3>2, MoveSpent
    <2> QED
      BY <2>1, <2>2, <2>3 DEF NextLoan
  <1>5. CASE BuyQuoteArrives(t)
    <2> DEFINE r == [evals[t] EXCEPT !.pc = "sell"]
    <2>1. r \in Evaluations /\ r.token = evals[t].token /\ r.slot = evals[t].slot
      BY <1>1 DEF Evaluations
    <2>2. evals' = [evals EXCEPT ![t] = r] /\ UNCHANGED <<oppQ, history>>
      BY <1>5 DEF BuyQuoteArrives
    <2> QED
      BY <1>1, <2>1, <2>2, MoveSpent
  <1> QED
    BY <1>2, <1>3, <1>4, <1>5 DEF Evaluate

LEMMA SpentStep ==
  ASSUME TypeOK, [Next]_vars, NEW e \in Events, Spent(e)
  PROVE  Spent(e)'
  <1>1. CASE TakeOpportunity
    <2>1. /\ UNCHANGED <<evals, history>> /\ oppQ \in Seq(Opportunities)
          /\ oppQ # << >> /\ oppQ' = Tail(oppQ) /\ Tail(oppQ) \in Seq(Opportunities)
      BY <1>1, TailSeq DEF TakeOpportunity, TypeOK
    <2>2. QueuedFor(oppQ, e)' = QueuedFor(Tail(oppQ), e)
      BY <2>1 DEF QueuedFor
    <2>3. Cardinality(QueuedFor(oppQ, e)') <= Cardinality(QueuedFor(oppQ, e))
      BY <2>1, <2>2, TailQueued
    <2>4. Cardinality(QueuedFor(oppQ, e)') \in Nat
      BY <2>1, <2>2, QueuedFinite
    <2>5. Carrying(e)' = Carrying(e) /\ AdmittedAs(history, e)' = AdmittedAs(history, e)
      BY <2>1 DEF Carrying, Live, AdmittedAs
    <2> QED
      BY <2>3, <2>4, <2>5, SpentCounts DEF Spent
  <1>2. CASE DropReceiver
    <2>1. UNCHANGED <<evals, history>> /\ oppQ' = << >>
      BY <1>2 DEF DropReceiver
    <2>2. Cardinality(QueuedFor(oppQ, e)') = 0
      <3>1. QueuedFor(oppQ, e)' = {}
        BY <2>1 DEF QueuedFor
      <3> QED
        BY <3>1, FS_EmptySet
    <2>3. Carrying(e)' = Carrying(e) /\ AdmittedAs(history, e)' = AdmittedAs(history, e)
      BY <2>1 DEF Carrying, Live, AdmittedAs
    <2> QED
      BY <2>2, <2>3, SpentCounts DEF Spent
  <1>3. CASE \/ SkipStale \/ SkipDuplicate \/ ScannerCancel \/ ScannerSourceClosed
             \/ \E x \in Events : Deliver(x)
             \/ DropSender \/ Cancel \/ UNCHANGED vars
    <2>1. UNCHANGED <<evals, oppQ, history>>
      BY <1>3 DEF SkipStale, SkipDuplicate, ScannerCancel, ScannerSourceClosed, Deliver,
         DropSender, Cancel, vars
    <2> QED
      BY <2>1 DEF Spent, Carrying, Live, QueuedFor, AdmittedAs
  <1> QED
    BY <1>1, <1>2, <1>3, SpawnSpent, DropSpent, EvaluateSpent
       DEF Next, ScannerStep, HandleEvent, Environment, Terminated

(* No admission is handed to the executor twice, by whichever path its     *)
(* evaluation goes (src/scanner/mod.rs:98-103, 166-171).                   *)
THEOREM SpentOnce == Spec => []AdmissionsSpentOnce
  <1> DEFINE All == \A e \in Events : Spent(e)
  <1>1. Init => All
    <2> SUFFICES ASSUME Init, NEW e \in Events PROVE Spent(e)
      OBVIOUS
    <2>1. Carrying(e) = {} /\ QueuedFor(oppQ, e) = {} /\ AdmittedAs(history, e) = {}
      BY DEF Init, Carrying, Live, QueuedFor, AdmittedAs
    <2> QED
      BY <2>1, FS_EmptySet DEF Spent
  <1>2. ASSUME TypeOK, All, [Next]_vars PROVE All'
    BY <1>2, SpentStep
  <1>3. All => AdmissionsSpentOnce
    BY DEF Spent, AdmissionsSpentOnce, Carrying, Carries, QueuedFor, AdmittedAs
  <1> HIDE DEF All
  <1> QED
    BY <1>1, <1>2, <1>3, TypeCorrect, PTL DEF Spec

-----------------------------------------------------------------------------
(* A first sighting is never filtered out, and dropped only when every     *)
(* permit is out (src/scanner/mod.rs:63-105), if the sum of the age check  *)
(* does not wrap.                                                          *)
THEOREM FirstSightings ==
  ASSUME \A s \in Slots : s + MaxAge < U64
  PROVE  Spec => FirstSightingEvaluated
  <1> DEFINE Evaluated(e) ==
        /\ history' = Append(history, e)
        /\ \/ \E t \in TaskIds :
                /\ evals[t] = NoTask
                /\ evals'[t] = [token |-> e.token, slot |-> e.slot, loan |-> 1, pc |-> "buy"]
           \/ Cardinality(Live) = MaxConcurrency
  <1>1. ASSUME Inv, [Next]_vars, NEW e \in Events, Consumes(e), FirstSighting(e)
        PROVE  Evaluated(e)
    <2>1. /\ arbQ \in Seq(Events) /\ Len(arbQ') = Len(arbQ) - 1 /\ Len(arbQ) \in Nat
          /\ e = Head(arbQ)
      BY <1>1, TailSeq DEF Inv, TypeOK, Consumes
    <2>2. ~IsStale(e)
      <3> SUFFICES ASSUME recentKeys # << >> PROVE ~IsStale(e)
        BY DEF IsStale
      <3> DEFINE s == recentKeys[Len(recentKeys)].slot
      <3>1. Len(recentKeys) \in DOMAIN recentKeys /\ recentKeys[Len(recentKeys)] \in Events
        BY <1>1 DEF Inv, TypeOK
      <3>2. s \in Nat /\ e.slot \in Nat /\ s <= e.slot /\ MaxAge \in Nat /\ U64 \in Nat
        BY <1>1, <3>1, ScannerAssumption, WordAssumption DEF FirstSighting, Events
      <3>3. e.slot + MaxAge < U64
        BY DEF Events
      <3> HIDE DEF s
      <3>4. AddU64(e.slot, MaxAge) = e.slot + MaxAge
        BY <3>2, <3>3 DEF AddU64
      <3>5. ~(s > AddU64(e.slot, MaxAge))
        BY <3>2, <3>4
      <3> QED
        BY <3>5 DEF IsStale, s
    <2>3. ~IsDuplicate(e)
      BY <1>1 DEF IsDuplicate, FirstSighting
    <2>4. CASE DropAtCapacity
      <3>1. permits = 0 /\ history' = Append(history, e)
        BY <2>1, <2>4 DEF DropAtCapacity, Remember
      <3>2. Cardinality(Live) = MaxConcurrency
        BY <1>1, <3>1, LiveFinite DEF Inv, PermitsConserved
      <3> QED
        BY <3>1, <3>2
    <2>5. ASSUME NEW t \in TaskIds, SpawnEvaluation(t) PROVE Evaluated(e)
      <3>1. history' = Append(history, e) /\ evals[t] = NoTask
        BY <2>1, <2>5 DEF SpawnEvaluation, Remember
      <3>2. evals'[t] = [token |-> e.token, slot |-> e.slot, loan |-> 1, pc |-> "buy"]
        BY <1>1, <2>1, <2>5 DEF SpawnEvaluation, Inv, TypeOK
      <3> QED
        BY <3>1, <3>2
    <2>6. CASE SkipStale \/ SkipDuplicate
      BY <2>1, <2>2, <2>3, <2>6 DEF SkipStale, SkipDuplicate
    <2>7. ~ScannerCancel /\ ~ScannerSourceClosed
      BY <1>1 DEF ScannerCancel, ScannerSourceClosed, Consumes
    <2>8. ASSUME NEW t \in TaskIds, Evaluate(t) PROVE FALSE
      <3>1. arbQ' = arbQ
        BY <2>8 DEF Evaluate, SkipZeroLoan, BuyQuoteFails, BuyQuoteUnusable,
           BuyQuoteArrives, SellQuoteFails, Unprofitable, OpportunitySent, OpportunityDropped
      <3> QED
        BY <2>1, <3>1
    <2>9. CASE Environment \/ UNCHANGED vars
      <3>1. arbQ' = arbQ \/ \E x \in Events : arbQ' = Append(arbQ, x)
        BY <2>9 DEF Environment, Deliver, TakeOpportunity, DropReceiver, DropSender,
           Cancel, vars
      <3>2. ASSUME NEW x \in Events PROVE Len(Append(arbQ, x)) = Len(arbQ) + 1
        BY <2>1, AppendSeq
      <3> QED
        BY <2>1, <3>1, <3>2
    <2> QED
      BY <1>1, <2>4, <2>5, <2>6, <2>7, <2>8, <2>9
         DEF Next, ScannerStep, HandleEvent, Terminated
  <1>2. ASSUME Inv, [Next]_vars
        PROVE  \A e \in Events : Consumes(e) /\ FirstSighting(e) => Evaluated(e)
    BY <1>1, <1>2
  <1> QED
    BY <1>2, Invariance, PTL DEF Spec, FirstSightingEvaluated

=============================================================================
