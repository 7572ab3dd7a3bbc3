--------------------------- MODULE ExecutorProofs ---------------------------
(***************************************************************************)
(* Proofs about Executor, for every value of its constants.                *)
(***************************************************************************)
EXTENDS Executor, FiniteSetTheorems, TLAPS

-----------------------------------------------------------------------------
LEMMA MaxExecNat == MaxExec \in Nat
  BY ExecutorAssumption DEF MaxExec

LEMMA ProfitInt == \A o \in Opportunities : Profit(o) \in Int
  <1> SUFFICES ASSUME NEW o \in Opportunities PROVE Profit(o) \in Int
    OBVIOUS
  <1>1. U64 \in Nat \ {0} /\ TxCost \in Nat /\ o.minOut \in Nat /\ o.loan \in Nat
    BY WordAssumption, ExecutorAssumption
  <1>2. AsI64(o.minOut) \in Int /\ AsI64(o.loan) \in Int
    BY <1>1 DEF AsI64
  <1> DEFINE x == AsI64(o.minOut) - AsI64(o.loan) - TxCost
  <1>3. x \in Int
    BY <1>1, <1>2
  <1> HIDE DEF x
  <1>4. WrapI64(x) \in Int
    BY <1>1, <1>3 DEF WrapI64
  <1> QED
    BY <1>4 DEF Profit, EstimateProfit, x

(* A tip is an integer, and one that is paid is between MinTip and half of *)
(* the profit.                                                             *)
LEMMA TipClamped ==
  \A o \in Opportunities :
    /\ DynamicJitoTip(Profit(o)) \in Int
    /\ ~TipPanics(Profit(o)) => DynamicJitoTip(Profit(o)) \in MinTip..(Profit(o) \div 2)
  <1> SUFFICES ASSUME NEW o \in Opportunities
               PROVE  /\ DynamicJitoTip(Profit(o)) \in Int
                      /\ ~TipPanics(Profit(o)) =>
                           DynamicJitoTip(Profit(o)) \in MinTip..(Profit(o) \div 2)
    OBVIOUS
  <1> DEFINE p == Profit(o)
  <1>1. p \in Int /\ MinTip \in Int /\ TipFraction \in Int /\ U64 \in Int
    BY ProfitInt, TipAssumption, WordAssumption
  <1> HIDE DEF p
  <1>2. p * TipFraction \in Int
    BY <1>1
  <1>3. \A n \in Int : n \div TipScale \in Int
    BY TipAssumption
  <1>4. RawTip(p) \in Int
    BY <1>1, <1>2, <1>3 DEF RawTip
  <1>5. DynamicJitoTip(p) \in Int
    BY <1>1, <1>4 DEF DynamicJitoTip
  <1>6. ~TipPanics(p) => DynamicJitoTip(p) \in MinTip..(p \div 2)
    BY <1>1, <1>4 DEF DynamicJitoTip, TipPanics
  <1> QED
    BY <1>5, <1>6 DEF p

LEMMA AppendOne ==
  ASSUME NEW S, NEW s \in Seq(S), NEW e \in S
  PROVE  /\ Append(s, e) \in Seq(S)
         /\ Len(Append(s, e)) = Len(s) + 1
         /\ Append(s, e)[Len(s) + 1] = e
         /\ \A i \in 1..Len(s) : Append(s, e)[i] = s[i]
  OBVIOUS

LEMMA TailOne ==
  ASSUME NEW S, NEW s \in Seq(S), s # << >>
  PROVE  Head(s) \in S /\ Tail(s) \in Seq(S) /\ Len(Tail(s)) = Len(s) - 1
  OBVIOUS

-----------------------------------------------------------------------------
(* Why a bundle is worth it: from the moment a task has priced its         *)
(* opportunity, it carries a positive profit and a tip within its limits.  *)

WorthIt(b) ==
  /\ Profit(b.opp) > 0
  /\ b.tip >= MinTip
  /\ 2 * b.tip <= Profit(b.opp)

PricedPoints == {"accounts", "simulate", "send", "reply"}

TasksPriced ==
  \A t \in ExecIds :
    execs[t] # NoTask /\ execs[t].pc \in PricedPoints => WorthIt(execs[t])

Inv == TypeOK /\ ExecPermitsConserved /\ TasksPriced /\ BundlesWorthIt

(* What a step can do to the tasks and their permits.                      *)

Priced(r) == r \in Executions /\ (r.pc \in PricedPoints => WorthIt(r))

TaskStarts ==
  \E t \in ExecIds, r \in Executions :
    /\ execs[t] = NoTask /\ execPermits > 0 /\ Priced(r)
    /\ execs' = [execs EXCEPT ![t] = r]
    /\ execPermits' = execPermits - 1

TaskMoves ==
  \E t \in ExecIds, r \in Executions :
    /\ execs[t] # NoTask /\ Priced(r)
    /\ execs' = [execs EXCEPT ![t] = r]
    /\ execPermits' = execPermits

TaskEnds == \E t \in ExecIds : execs[t] # NoTask /\ Return(t)

ExecsChange == UNCHANGED <<execs, execPermits>> \/ TaskStarts \/ TaskMoves \/ TaskEnds

LEMMA NowNat == ASSUME TypeOK PROVE now \in Nat
  BY ExecutorAssumption DEF TypeOK

(* A move to another await point that leaves the bundle alone.             *)
LEMMA GotoMoves ==
  ASSUME TypeOK, TasksPriced, NEW t \in ExecIds, execs[t] # NoTask,
         NEW pc \in AwaitPoints \cup {"reply"}, NEW since \in Nat,
         pc \in PricedPoints => execs[t].pc \in PricedPoints,
         execs' = [execs EXCEPT ![t].pc = pc, ![t].since = since],
         execPermits' = execPermits
  PROVE  TaskMoves
  <1> DEFINE r == [execs[t] EXCEPT !.pc = pc, !.since = since]
  <1>1. execs[t] \in Executions
    BY DEF TypeOK
  <1>2. r \in Executions /\ r.opp = execs[t].opp /\ r.tip = execs[t].tip /\ r.pc = pc
    BY <1>1 DEF Executions
  <1>3. Priced(r)
    BY <1>2 DEF Priced, TasksPriced, WorthIt
  <1>4. execs' = [execs EXCEPT ![t] = r]
    OBVIOUS
  <1> QED
    BY <1>2, <1>3, <1>4 DEF TaskMoves

LEMMA TippedMoves ==
  ASSUME TypeOK, NEW t \in ExecIds, Tipped(t)
  PROVE  TaskMoves
  <1> DEFINE o == execs[t].opp
             r == [execs[t] EXCEPT !.pc = "accounts", !.tip = DynamicJitoTip(Profit(o)),
                                   !.since = now]
  <1>1. execs[t] # NoTask /\ execs[t] \in Executions
    BY DEF Tipped, At, TypeOK
  <1>2. o \in Opportunities
    BY <1>1 DEF Executions
  <1>3. Profit(o) \in Int /\ DynamicJitoTip(Profit(o)) \in Int
    BY <1>2, ProfitInt, TipClamped
  <1>4. /\ r \in Executions /\ r.opp = o
        /\ r.tip = DynamicJitoTip(Profit(o)) /\ r.pc = "accounts"
    BY <1>1, <1>3, NowNat DEF Executions, AwaitPoints
  <1>5. Profit(o) > 0 /\ ~TipPanics(Profit(o))
    BY DEF Tipped
  <1>6. DynamicJitoTip(Profit(o)) >= MinTip /\ 2 * DynamicJitoTip(Profit(o)) <= Profit(o)
    <2>1. MinTip \in Nat /\ MinTip <= Profit(o) \div 2 /\ 2 * (Profit(o) \div 2) <= Profit(o)
      BY <1>3, <1>5, TipAssumption DEF TipPanics
    <2>2. DynamicJitoTip(Profit(o)) \in MinTip..(Profit(o) \div 2)
      BY <1>2, <1>5, TipClamped
    <2> QED
      BY <1>3, <2>1, <2>2
  <1>7. Priced(r)
    BY <1>4, <1>5, <1>6 DEF Priced, WorthIt
  <1>8. execs' = [execs EXCEPT ![t] = r] /\ execPermits' = execPermits
    BY DEF Tipped
  <1> QED
    BY <1>1, <1>4, <1>7, <1>8 DEF TaskMoves

LEMMA ExecuteChange ==
  ASSUME TypeOK, TasksPriced, NEW t \in ExecIds, Execute(t)
  PROVE  ExecsChange
  <1>1. execs[t] # NoTask
    BY DEF Execute, SlotStale, SlotFresh, BuyInstructions, NotProfitable, TipPanic, Tipped,
       Signed, SimulationPasses, GiveUp, JitoAccepts, Submitted, ReplyLost, At
  <1>2. CASE SlotStale(t) \/ NotProfitable(t) \/ GiveUp(t) \/ Submitted(t) \/ ReplyLost(t)
    BY <1>1, <1>2 DEF SlotStale, NotProfitable, GiveUp, Submitted, ReplyLost,
       ExecsChange, TaskEnds
  <1>10. /\ "buyIx" \in AwaitPoints /\ "buyIx" \notin PricedPoints
         /\ "sellIx" \in AwaitPoints /\ "sellIx" \notin PricedPoints
    BY DEF AwaitPoints, PricedPoints
  <1>3. CASE SlotFresh(t)
    BY <1>1, <1>3, <1>10, GotoMoves, NowNat DEF SlotFresh, Goto, ExecsChange
  <1>4. CASE BuyInstructions(t)
    BY <1>1, <1>4, <1>10, GotoMoves, NowNat DEF BuyInstructions, Goto, ExecsChange
  <1>5. CASE TipPanic(t)
    BY <1>5 DEF TipPanic, ExecsChange
  <1>6. CASE Tipped(t)
    BY <1>6, TippedMoves DEF ExecsChange
  <1>7. CASE Signed(t)
    <2>1. execs[t].pc \in PricedPoints
      BY <1>7 DEF Signed, At, PricedPoints
    <2>2. CASE SkipSimulation
      BY <1>1, <1>7, <2>1, <2>2, GotoMoves, NowNat DEF Signed, Goto, AwaitPoints, ExecsChange
    <2>3. CASE ~SkipSimulation
      BY <1>1, <1>7, <2>1, <2>3, GotoMoves, NowNat DEF Signed, Goto, AwaitPoints, ExecsChange
    <2> QED
      BY <2>2, <2>3
  <1>8. CASE SimulationPasses(t)
    <2>1. execs[t].pc \in PricedPoints
      BY <1>8 DEF SimulationPasses, At, PricedPoints
    <2> QED
      BY <1>1, <1>8, <2>1, GotoMoves, NowNat DEF SimulationPasses, Goto, AwaitPoints, ExecsChange
  <1>9. CASE JitoAccepts(t)
    <2>1. execs[t].pc \in PricedPoints
      BY <1>9 DEF JitoAccepts, At, PricedPoints
    <2>2. execs[t] \in Executions /\ execs[t].since \in Nat
      BY <1>1 DEF TypeOK, Executions
    <2>3. [execs[t] EXCEPT !.pc = "reply"]
            = [execs[t] EXCEPT !.pc = "reply", !.since = execs[t].since]
      BY <2>2 DEF Executions
    <2>4. execs' = [execs EXCEPT ![t].pc = "reply", ![t].since = execs[t].since]
      BY <1>9, <2>3 DEF JitoAccepts
    <2> QED
      BY <1>1, <1>9, <2>1, <2>2, <2>4, GotoMoves DEF JitoAccepts, ExecsChange
  <1> QED
    BY <1>2, <1>3, <1>4, <1>5, <1>6, <1>7, <1>8, <1>9 DEF Execute

LEMMA ExecsStep ==
  ASSUME TypeOK, TasksPriced, [Next]_vars
  PROVE  ExecsChange
  <1>1. CASE DropOpportunity \/ ExecutorStops \/ Environment \/ UNCHANGED vars
    BY <1>1 DEF ExecsChange, DropOpportunity, ExecutorStops, Environment, Tick,
       DropOppSender, Cancel, SendOpportunity, vars, executorVars
  <1>2. ASSUME NEW t \in ExecIds, SpawnExecution(t) PROVE ExecsChange
    <2> DEFINE r == [opp |-> Head(oppQ), pc |-> "slot", tip |-> 0, since |-> now]
    <2>1. Head(oppQ) \in Opportunities
      BY <1>2 DEF SpawnExecution, ReceiveOpportunity, TypeOK
    <2>2. r \in Executions /\ Priced(r)
      BY <2>1, NowNat DEF Executions, Priced, PricedPoints, AwaitPoints
    <2> QED
      BY <1>2, <2>2 DEF SpawnExecution, ExecsChange, TaskStarts
  <1> QED
    BY <1>1, <1>2, ExecuteChange DEF Next, ExecutorStep, HandleOpportunity, Terminated

-----------------------------------------------------------------------------
LEMMA LiveFinite == IsFiniteSet(Live) /\ Cardinality(Live) \in Nat
  BY FS_Subset, FS_CardinalityType, ExecutorAssumption DEF Live

LEMMA PermitsStep ==
  ASSUME TypeOK, ExecPermitsConserved, ExecsChange
  PROVE  ExecPermitsConserved' /\ execPermits' \in 0..MaxExec
  <1>1. execPermits \in Nat /\ MaxExec \in Nat
    BY MaxExecNat DEF TypeOK
  <1>2. CASE UNCHANGED <<execs, execPermits>>
    BY <1>2 DEF TypeOK, ExecPermitsConserved, Live
  <1>3. CASE TaskStarts
    <2>1. PICK t \in ExecIds, r \in Executions :
            /\ execs[t] = NoTask /\ execPermits > 0
            /\ execs' = [execs EXCEPT ![t] = r]
            /\ execPermits' = execPermits - 1
      BY <1>3 DEF TaskStarts
    <2>2. Live' = Live \cup {t} /\ t \notin Live
      BY <2>1, NoTaskAssumption DEF TypeOK, Live
    <2>3. Cardinality(Live') = Cardinality(Live) + 1
      BY <2>2, LiveFinite, FS_AddElement
    <2> QED
      BY <1>1, <2>1, <2>3, LiveFinite DEF ExecPermitsConserved
  <1>4. CASE TaskMoves
    <2>1. PICK t \in ExecIds, r \in Executions :
            /\ execs[t] # NoTask
            /\ execs' = [execs EXCEPT ![t] = r]
            /\ execPermits' = execPermits
      BY <1>4 DEF TaskMoves
    <2>2. Live' = Live
      BY <2>1, NoTaskAssumption DEF TypeOK, Live
    <2> QED
      BY <2>1, <2>2 DEF TypeOK, ExecPermitsConserved
  <1>5. CASE TaskEnds
    <2>1. PICK t \in ExecIds : execs[t] # NoTask /\ Return(t)
      BY <1>5 DEF TaskEnds
    <2>2. Live' = Live \ {t} /\ t \in Live
      BY <2>1 DEF TypeOK, Live, Return
    <2>3. Cardinality(Live') = Cardinality(Live) - 1
      BY <2>2, LiveFinite, FS_RemoveElement
    <2>4. Cardinality(Live') \in Nat
      BY <2>2, LiveFinite, FS_Subset, FS_CardinalityType
    <2>5. execPermits' = execPermits + 1
      BY <2>1 DEF Return
    <2> QED
      BY <1>1, <2>3, <2>4, <2>5, LiveFinite DEF ExecPermitsConserved
  <1> QED
    BY <1>2, <1>3, <1>4, <1>5 DEF ExecsChange

LEMMA PricedStep ==
  ASSUME TypeOK, TasksPriced, ExecsChange
  PROVE  TasksPriced' /\ execs' \in [ExecIds -> Executions \cup {NoTask}]
  <1>1. execs \in [ExecIds -> Executions \cup {NoTask}]
    BY DEF TypeOK
  <1>2. CASE UNCHANGED <<execs, execPermits>>
    BY <1>1, <1>2 DEF TasksPriced, WorthIt
  <1>3. CASE TaskStarts \/ TaskMoves
    <2>1. PICK t \in ExecIds, r \in Executions :
            Priced(r) /\ execs' = [execs EXCEPT ![t] = r]
      BY <1>3 DEF TaskStarts, TaskMoves
    <2>2. execs' \in [ExecIds -> Executions \cup {NoTask}]
      BY <1>1, <2>1
    <2>3. ASSUME NEW u \in ExecIds, execs'[u] # NoTask, execs'[u].pc \in PricedPoints
          PROVE  WorthIt(execs'[u])
      <3>1. CASE u = t
        BY <1>1, <2>1, <2>3, <3>1 DEF Priced
      <3>2. CASE u # t
        BY <1>1, <2>1, <2>3, <3>2 DEF TasksPriced
      <3> QED
        BY <3>1, <3>2
    <2> QED
      BY <2>2, <2>3 DEF TasksPriced, WorthIt
  <1>4. CASE TaskEnds
    <2>1. PICK t \in ExecIds : execs' = [execs EXCEPT ![t] = NoTask]
      BY <1>4 DEF TaskEnds, Return
    <2> QED
      BY <1>1, <2>1 DEF TasksPriced, WorthIt
  <1> QED
    BY <1>2, <1>3, <1>4 DEF ExecsChange

-----------------------------------------------------------------------------
(* What a step can do to the queue and to the histories.                   *)

LEMMA OppQStep ==
  ASSUME TypeOK, [Next]_vars
  PROVE  \/ UNCHANGED <<oppQ, taken>>
         \/ oppQ # << >> /\ oppQ' = Tail(oppQ) /\ taken' = Append(taken, Head(oppQ))
         \/ oppQ' = << >> /\ UNCHANGED taken
         \/ /\ Len(oppQ) < OpportunityCap /\ UNCHANGED taken
            /\ \E o \in Opportunities : oppQ' = Append(oppQ, o)
  <1>1. CASE DropOpportunity \/ \E t \in ExecIds : SpawnExecution(t)
    BY <1>1 DEF DropOpportunity, SpawnExecution, ReceiveOpportunity
  <1>2. CASE ExecutorStops
    BY <1>2 DEF ExecutorStops
  <1>3. ASSUME NEW t \in ExecIds, Execute(t) PROVE UNCHANGED <<oppQ, taken>>
    BY <1>3 DEF Execute, SlotStale, SlotFresh, BuyInstructions, NotProfitable, TipPanic, Tipped,
       Signed, SimulationPasses, GiveUp, JitoAccepts, Submitted, ReplyLost, Goto, Return
  <1>4. CASE Environment \/ UNCHANGED vars
    BY <1>4 DEF Environment, Tick, DropOppSender, Cancel, SendOpportunity, vars, executorVars
  <1> QED
    BY <1>1, <1>2, <1>3, <1>4 DEF Next, ExecutorStep, HandleOpportunity, Terminated

LEMMA BundlesStep ==
  ASSUME TypeOK, [Next]_vars
  PROVE  \/ UNCHANGED <<accepted, reported>>
         \/ \E t \in ExecIds :
              /\ At(t, "send")
              /\ accepted' = Append(accepted, Bundle(t)) /\ UNCHANGED reported
         \/ \E t \in ExecIds :
              /\ At(t, "reply")
              /\ reported' = Append(reported, Bundle(t)) /\ UNCHANGED accepted
  <1>1. CASE HandleOpportunity \/ ExecutorStops
    BY <1>1 DEF HandleOpportunity, DropOpportunity, SpawnExecution, ExecutorStops
  <1>2. ASSUME NEW t \in ExecIds, Execute(t), ~JitoAccepts(t), ~Submitted(t)
        PROVE  UNCHANGED <<accepted, reported>>
    BY <1>2 DEF Execute, SlotStale, SlotFresh, BuyInstructions, NotProfitable, TipPanic, Tipped,
       Signed, SimulationPasses, GiveUp, ReplyLost, Goto
  <1>3. CASE \E t \in ExecIds : JitoAccepts(t) \/ Submitted(t)
    BY <1>3 DEF JitoAccepts, Submitted
  <1>4. CASE Environment \/ UNCHANGED vars
    BY <1>4 DEF Environment, Tick, DropOppSender, Cancel, SendOpportunity, vars, executorVars
  <1> QED
    BY <1>1, <1>2, <1>3, <1>4 DEF Next, ExecutorStep, Terminated

LEMMA ControlStep ==
  ASSUME TypeOK, [Next]_vars
  PROVE  /\ executorPc' \in {"loop", "done"}
         /\ crashed' \in BOOLEAN
         /\ now' \in 0..MaxSlot
         /\ cancelled' \in BOOLEAN /\ oppSenderGone' \in BOOLEAN
         /\ sent' \in 0..MaxSent
  <1>1. CASE ExecutorStep /\ UNCHANGED execEnvVars
    <2>1. executorPc' \in {"loop", "done"} /\ crashed' \in BOOLEAN
      BY <1>1 DEF TypeOK, ExecutorStep, HandleOpportunity, DropOpportunity, SpawnExecution,
         ExecutorStops, Execute, SlotStale, SlotFresh, BuyInstructions, NotProfitable,
         TipPanic, Tipped, Signed, SimulationPasses, GiveUp, JitoAccepts, Submitted,
         ReplyLost, Goto, Return
    <2> QED
      BY <1>1, <2>1 DEF TypeOK, execEnvVars
  <1>2. CASE Environment
    <2>1. now' = now \/ (now < MaxSlot /\ now' = now + 1)
      BY <1>2 DEF Environment, Tick, DropOppSender, Cancel, SendOpportunity
    <2>2. sent' = sent \/ (sent < MaxSent /\ sent' = sent + 1)
      BY <1>2 DEF Environment, Tick, DropOppSender, Cancel, SendOpportunity
    <2>3. now' \in 0..MaxSlot /\ sent' \in 0..MaxSent
      BY <2>1, <2>2, ExecutorAssumption DEF TypeOK
    <2>4. /\ executorPc' \in {"loop", "done"} /\ crashed' \in BOOLEAN
          /\ cancelled' \in BOOLEAN /\ oppSenderGone' \in BOOLEAN
      BY <1>2 DEF TypeOK, Environment, Tick, DropOppSender, Cancel, SendOpportunity,
         executorVars
    <2> QED
      BY <2>3, <2>4
  <1>3. CASE UNCHANGED vars
    BY <1>3 DEF TypeOK, vars, executorVars, execEnvVars
  <1> QED
    BY <1>1, <1>2, <1>3 DEF Next, Terminated

-----------------------------------------------------------------------------
LEMMA QueueTyped ==
  ASSUME TypeOK, [Next]_vars
  PROVE  /\ oppQ' \in Seq(Opportunities) /\ Len(oppQ') <= OpportunityCap
         /\ taken' \in Seq(Opportunities)
  <1>1. /\ OpportunityCap \in Nat /\ oppQ \in Seq(Opportunities)
        /\ Len(oppQ) <= OpportunityCap /\ taken \in Seq(Opportunities)
    BY ExecutorAssumption DEF TypeOK
  <1>2. CASE oppQ # << >> /\ oppQ' = Tail(oppQ) /\ taken' = Append(taken, Head(oppQ))
    <2>1. Head(oppQ) \in Opportunities /\ oppQ' \in Seq(Opportunities)
          /\ Len(oppQ') = Len(oppQ) - 1
      BY <1>1, <1>2, TailOne
    <2> QED
      BY <1>1, <1>2, <2>1, AppendOne
  <1>3. CASE /\ Len(oppQ) < OpportunityCap /\ UNCHANGED taken
             /\ \E o \in Opportunities : oppQ' = Append(oppQ, o)
    <2>1. PICK o \in Opportunities : oppQ' = Append(oppQ, o)
      BY <1>3
    <2>2. oppQ' \in Seq(Opportunities) /\ Len(oppQ') = Len(oppQ) + 1
      BY <1>1, <2>1, AppendOne
    <2> QED
      BY <1>1, <1>3, <2>2
  <1>4. CASE UNCHANGED <<oppQ, taken>>
    BY <1>1, <1>4
  <1>5. CASE oppQ' = << >> /\ UNCHANGED taken
    BY <1>1, <1>5
  <1> QED
    BY <1>2, <1>3, <1>4, <1>5, OppQStep

LEMMA BundlesTyped ==
  ASSUME Inv, [Next]_vars
  PROVE  /\ accepted' \in Seq(Bundles) /\ reported' \in Seq(Bundles)
         /\ BundlesWorthIt'
  <1>1. accepted \in Seq(Bundles) /\ reported \in Seq(Bundles)
    BY DEF Inv, TypeOK
  <1>2. \A i \in 1..Len(accepted) : WorthIt(accepted[i])
    BY <1>1 DEF Inv, BundlesWorthIt, WorthIt
  <1>3. ASSUME NEW t \in ExecIds, execs[t] # NoTask
        PROVE  Bundle(t) \in Bundles
    BY <1>3 DEF Inv, TypeOK, Bundle, Bundles, Executions
  <1>4. CASE UNCHANGED <<accepted, reported>>
    BY <1>1, <1>4 DEF Inv, BundlesWorthIt
  <1>5. ASSUME NEW t \in ExecIds, At(t, "send"),
               accepted' = Append(accepted, Bundle(t)), UNCHANGED reported
        PROVE  /\ accepted' \in Seq(Bundles) /\ reported' \in Seq(Bundles)
               /\ BundlesWorthIt'
    <2>1. execs[t] # NoTask /\ WorthIt(execs[t])
      BY <1>5 DEF At, Inv, TasksPriced, PricedPoints
    <2>2. Bundle(t) \in Bundles /\ WorthIt(Bundle(t))
      BY <1>3, <2>1 DEF Bundle, WorthIt
    <2>3. /\ accepted' \in Seq(Bundles) /\ Len(accepted') = Len(accepted) + 1
          /\ accepted'[Len(accepted) + 1] = Bundle(t)
          /\ \A i \in 1..Len(accepted) : accepted'[i] = accepted[i]
      BY <1>1, <1>5, <2>2, AppendOne
    <2>4. ASSUME NEW i \in 1..Len(accepted') PROVE WorthIt(accepted'[i])
      <3>1. CASE i = Len(accepted) + 1
        BY <2>2, <2>3, <3>1
      <3>2. CASE i # Len(accepted) + 1
        <4>1. i \in 1..Len(accepted)
          BY <1>1, <2>3, <2>4, <3>2
        <4> QED
          BY <1>2, <2>3, <4>1
      <3> QED
        BY <3>1, <3>2
    <2>5. BundlesWorthIt'
      BY <2>3, <2>4 DEF BundlesWorthIt, WorthIt
    <2> QED
      BY <1>1, <1>5, <2>3, <2>5
  <1>6. ASSUME NEW t \in ExecIds, At(t, "reply"),
               reported' = Append(reported, Bundle(t)), UNCHANGED accepted
        PROVE  /\ accepted' \in Seq(Bundles) /\ reported' \in Seq(Bundles)
               /\ BundlesWorthIt'
    <2>1. Bundle(t) \in Bundles
      BY <1>3, <1>6 DEF At
    <2>2. reported' \in Seq(Bundles)
      BY <1>1, <1>6, <2>1, AppendOne
    <2> QED
      BY <1>1, <1>6, <2>2 DEF Inv, BundlesWorthIt
  <1> QED
    BY <1>4, <1>5, <1>6, BundlesStep DEF Inv

LEMMA InitInv == Init => Inv
  <1> SUFFICES ASSUME Init PROVE Inv
    OBVIOUS
  <1>1. Live = {}
    BY DEF Init, Live
  <1>2. ExecPermitsConserved
    BY <1>1, FS_EmptySet, MaxExecNat DEF Init, ExecPermitsConserved
  <1>3. TasksPriced /\ BundlesWorthIt
    BY DEF Init, TasksPriced, BundlesWorthIt
  <1>4. /\ oppQ \in Seq(Opportunities) /\ Len(oppQ) <= OpportunityCap
        /\ taken \in Seq(Opportunities)
        /\ accepted \in Seq(Bundles) /\ reported \in Seq(Bundles)
    BY ExecutorAssumption DEF Init
  <1>5. execPermits \in 0..MaxExec /\ now \in 0..MaxSlot /\ sent \in 0..MaxSent
    BY MaxExecNat, ExecutorAssumption DEF Init
  <1>6. execs \in [ExecIds -> Executions \cup {NoTask}]
    BY DEF Init
  <1>7. TypeOK
    BY <1>4, <1>5, <1>6 DEF Init, TypeOK
  <1> QED
    BY <1>2, <1>3, <1>7 DEF Inv

(* Inv holds in every reachable state.                                     *)
THEOREM Invariance == Spec => []Inv
  <1>1. ASSUME Inv, [Next]_vars PROVE Inv'
    <2>1. ExecsChange
      BY <1>1, ExecsStep DEF Inv
    <2>2. ExecPermitsConserved' /\ execPermits' \in 0..MaxExec
      BY <1>1, <2>1, PermitsStep DEF Inv
    <2>3. TasksPriced' /\ execs' \in [ExecIds -> Executions \cup {NoTask}]
      BY <1>1, <2>1, PricedStep DEF Inv
    <2>4. accepted' \in Seq(Bundles) /\ reported' \in Seq(Bundles) /\ BundlesWorthIt'
      BY <1>1, BundlesTyped
    <2>5. TypeOK'
      BY <1>1, <2>2, <2>3, <2>4, QueueTyped, ControlStep DEF Inv, TypeOK
    <2> QED
      BY <2>2, <2>3, <2>4, <2>5 DEF Inv
  <1> QED
    BY <1>1, InitInv, PTL DEF Spec

(* Every variable keeps to its type, and the queue to its capacity.        *)
THEOREM TypeCorrect == Spec => []TypeOK
  BY Invariance, PTL DEF Inv

(* The semaphore of src/executor/mod.rs:42 never loses or forges a permit. *)
THEOREM PermitConservation == Spec => []ExecPermitsConserved
  BY Invariance, PTL DEF Inv

(* No bundle that costs more than it brings reaches Jito                   *)
(* (src/executor/mod.rs:131-139, 236), for every fraction, minimum tip,    *)
(* cost and word, and every number of tasks.                               *)
THEOREM BundlesPayOff == Spec => []BundlesWorthIt
  BY Invariance, PTL DEF Inv

-----------------------------------------------------------------------------
(* An opportunity is spent once: the count behind OpportunitiesSpentOnce.  *)

Occurrences(seq, o) == {i \in DOMAIN seq : seq[i] = o}
BundlesOf(seq, o) == {i \in DOMAIN seq : seq[i].opp = o}
Pending(o) == {t \in Live : execs[t].opp = o /\ execs[t].pc # "reply"}
Answering(o) == {t \in Live : execs[t].opp = o /\ execs[t].pc = "reply"}

SpentOnce(o) ==
  /\ Cardinality(Pending(o)) + Cardinality(BundlesOf(accepted, o))
       <= Cardinality(Occurrences(taken, o))
  /\ Cardinality(BundlesOf(reported, o)) + Cardinality(Answering(o))
       <= Cardinality(BundlesOf(accepted, o))

LEMMA PositionsFinite ==
  ASSUME NEW S, NEW s \in Seq(S), NEW D, D \subseteq DOMAIN s
  PROVE  IsFiniteSet(D) /\ Cardinality(D) \in Nat
  <1>1. DOMAIN s = 1..Len(s) /\ Len(s) \in Nat
    OBVIOUS
  <1>2. IsFiniteSet(1..Len(s))
    BY <1>1, FS_Interval
  <1> QED
    BY <1>1, <1>2, FS_Subset, FS_CardinalityType

(* One more element is one more occurrence, or none.                       *)
LEMMA OccurrencesGrow ==
  ASSUME NEW S, NEW s \in Seq(S), NEW e \in S, NEW o
  PROVE  /\ Cardinality(Occurrences(s, o)) \in Nat
         /\ Cardinality(Occurrences(Append(s, e), o))
              = Cardinality(Occurrences(s, o)) + (IF e = o THEN 1 ELSE 0)
  <1> DEFINE D == Occurrences(s, o)
             E == Occurrences(Append(s, e), o)
  <1>1. IsFiniteSet(D) /\ Cardinality(D) \in Nat
    BY PositionsFinite DEF Occurrences
  <1>2. /\ DOMAIN s = 1..Len(s) /\ Len(s) \in Nat
        /\ DOMAIN Append(s, e) = 1..(Len(s) + 1)
        /\ Append(s, e)[Len(s) + 1] = e
        /\ \A i \in 1..Len(s) : Append(s, e)[i] = s[i]
    OBVIOUS
  <1>3. Len(s) + 1 \notin D
    BY <1>2 DEF Occurrences
  <1>4. CASE e = o
    <2>1. E = D \cup {Len(s) + 1}
      BY <1>2, <1>4 DEF Occurrences
    <2>2. Cardinality(E) = Cardinality(D) + 1
      BY <1>1, <1>3, <2>1, FS_AddElement
    <2> QED
      BY <1>1, <1>4, <2>2
  <1>5. CASE e # o
    <2>1. E = D
      BY <1>2, <1>5 DEF Occurrences
    <2> QED
      BY <1>1, <1>5, <2>1
  <1> QED
    BY <1>4, <1>5

LEMMA BundlesOfGrow ==
  ASSUME NEW S, NEW s \in Seq(S), NEW e \in S, NEW o
  PROVE  /\ Cardinality(BundlesOf(s, o)) \in Nat
         /\ Cardinality(BundlesOf(Append(s, e), o))
              = Cardinality(BundlesOf(s, o)) + (IF e.opp = o THEN 1 ELSE 0)
  <1> DEFINE D == BundlesOf(s, o)
             E == BundlesOf(Append(s, e), o)
  <1>1. IsFiniteSet(D) /\ Cardinality(D) \in Nat
    BY PositionsFinite DEF BundlesOf
  <1>2. /\ DOMAIN s = 1..Len(s) /\ Len(s) \in Nat
        /\ DOMAIN Append(s, e) = 1..(Len(s) + 1)
        /\ Append(s, e)[Len(s) + 1] = e
        /\ \A i \in 1..Len(s) : Append(s, e)[i] = s[i]
    OBVIOUS
  <1>3. Len(s) + 1 \notin D
    BY <1>2 DEF BundlesOf
  <1>4. CASE e.opp = o
    <2>1. E = D \cup {Len(s) + 1}
      BY <1>2, <1>4 DEF BundlesOf
    <2>2. Cardinality(E) = Cardinality(D) + 1
      BY <1>1, <1>3, <2>1, FS_AddElement
    <2> QED
      BY <1>1, <1>4, <2>2
  <1>5. CASE e.opp # o
    <2>1. E = D
      BY <1>2, <1>5 DEF BundlesOf
    <2> QED
      BY <1>1, <1>5, <2>1
  <1> QED
    BY <1>4, <1>5

LEMMA TasksFinite ==
  ASSUME NEW o
  PROVE  /\ IsFiniteSet(Pending(o)) /\ Cardinality(Pending(o)) \in Nat
         /\ IsFiniteSet(Answering(o)) /\ Cardinality(Answering(o)) \in Nat
  <1>1. Pending(o) \subseteq Live /\ Answering(o) \subseteq Live
    BY DEF Pending, Answering
  <1> QED
    BY <1>1, LiveFinite, FS_Subset, FS_CardinalityType

(* Every number the bound is about is a natural number.                    *)
LEMMA CountsNat ==
  ASSUME TypeOK, NEW o
  PROVE  /\ Cardinality(Pending(o)) \in Nat /\ Cardinality(Answering(o)) \in Nat
         /\ Cardinality(BundlesOf(accepted, o)) \in Nat
         /\ Cardinality(BundlesOf(reported, o)) \in Nat
         /\ Cardinality(Occurrences(taken, o)) \in Nat
  <1>1. /\ accepted \in Seq(Bundles) /\ reported \in Seq(Bundles)
        /\ taken \in Seq(Opportunities)
    BY DEF TypeOK
  <1>2. BundlesOf(accepted, o) \subseteq DOMAIN accepted
    BY DEF BundlesOf
  <1>3. BundlesOf(reported, o) \subseteq DOMAIN reported
    BY DEF BundlesOf
  <1>4. Occurrences(taken, o) \subseteq DOMAIN taken
    BY DEF Occurrences
  <1> QED
    BY <1>1, <1>2, <1>3, <1>4, PositionsFinite, TasksFinite

(* A task that ends leaves the sets; one that goes on stays in its set.    *)
LEMMA ReturnSpends ==
  ASSUME TypeOK, NEW o, NEW t \in ExecIds, execs' = [execs EXCEPT ![t] = NoTask]
  PROVE  /\ Pending(o)' = Pending(o) \ {t}
         /\ Answering(o)' = Answering(o) \ {t}
         /\ Cardinality(Pending(o)') <= Cardinality(Pending(o))
         /\ Cardinality(Answering(o)') <= Cardinality(Answering(o))
  <1>1. Pending(o)' = Pending(o) \ {t} /\ Answering(o)' = Answering(o) \ {t}
    BY DEF TypeOK, Pending, Answering, Live
  <1> QED
    BY <1>1, TasksFinite, FS_Subset

LEMMA MoveSpends ==
  ASSUME TypeOK, NEW o, NEW t \in ExecIds, NEW r \in Executions,
         execs[t] # NoTask, execs[t].pc # "reply",
         r.pc # "reply", r.opp = execs[t].opp,
         execs' = [execs EXCEPT ![t] = r]
  PROVE  Pending(o)' = Pending(o) /\ Answering(o)' = Answering(o)
  <1>1. r # NoTask
    BY NoTaskAssumption
  <1>2. \A u \in ExecIds : execs'[u] = IF u = t THEN r ELSE execs[u]
    BY DEF TypeOK
  <1>3. \A u \in ExecIds : u \in Pending(o)' <=> u \in Pending(o)
    BY <1>1, <1>2 DEF Pending, Live
  <1>4. \A u \in ExecIds : u \in Answering(o)' <=> u \in Answering(o)
    BY <1>1, <1>2 DEF Answering, Live
  <1> QED
    BY <1>3, <1>4 DEF Pending, Answering, Live

histories == <<taken, accepted, reported>>

LEMMA MovesOnly ==
  ASSUME TypeOK, NEW t \in ExecIds,
         SlotFresh(t) \/ BuyInstructions(t) \/ Tipped(t) \/ Signed(t) \/ SimulationPasses(t)
  PROVE  /\ UNCHANGED histories
         /\ execs[t] # NoTask /\ execs[t].pc # "reply"
         /\ \E r \in Executions :
              /\ r.pc # "reply" /\ r.opp = execs[t].opp
              /\ execs' = [execs EXCEPT ![t] = r]
  <1>1. ASSUME NEW pc \in AwaitPoints,
               execs[t] # NoTask, Goto(t, pc)
        PROVE  /\ UNCHANGED histories
               /\ \E r \in Executions :
                    /\ r.pc # "reply" /\ r.opp = execs[t].opp
                    /\ execs' = [execs EXCEPT ![t] = r]
    <2> DEFINE r == [execs[t] EXCEPT !.pc = pc, !.since = now]
    <2>1. execs[t] \in Executions
      BY <1>1 DEF TypeOK
    <2>2. r \in Executions /\ r.pc = pc /\ r.opp = execs[t].opp
      BY <2>1, NowNat DEF Executions
    <2>3. execs' = [execs EXCEPT ![t] = r] /\ UNCHANGED histories
      BY <1>1 DEF Goto, histories
    <2> QED
      BY <1>1, <2>2, <2>3 DEF AwaitPoints
  <1>2. CASE SlotFresh(t)
    BY <1>1, <1>2 DEF SlotFresh, At, AwaitPoints
  <1>3. CASE BuyInstructions(t)
    BY <1>1, <1>3 DEF BuyInstructions, At, AwaitPoints
  <1>4. CASE Signed(t)
    <2>1. CASE SkipSimulation
      BY <1>1, <1>4, <2>1 DEF Signed, At, AwaitPoints
    <2>2. CASE ~SkipSimulation
      BY <1>1, <1>4, <2>2 DEF Signed, At, AwaitPoints
    <2> QED
      BY <2>1, <2>2
  <1>5. CASE SimulationPasses(t)
    BY <1>1, <1>5 DEF SimulationPasses, At, AwaitPoints
  <1>6. CASE Tipped(t)
    <2> DEFINE r == [execs[t] EXCEPT !.pc = "accounts",
                                     !.tip = DynamicJitoTip(Profit(execs[t].opp)),
                                     !.since = now]
    <2>1. execs[t] # NoTask /\ execs[t] \in Executions /\ execs[t].pc = "sellIx"
      BY <1>6 DEF Tipped, At, TypeOK
    <2>2. execs[t].opp \in Opportunities
      BY <2>1 DEF Executions
    <2>3. DynamicJitoTip(Profit(execs[t].opp)) \in Int
      BY <2>2, TipClamped
    <2>4. r \in Executions /\ r.pc = "accounts" /\ r.opp = execs[t].opp
      BY <2>1, <2>3, NowNat DEF Executions, AwaitPoints
    <2>5. execs' = [execs EXCEPT ![t] = r] /\ UNCHANGED histories
      BY <1>6 DEF Tipped, histories
    <2> QED
      BY <2>1, <2>4, <2>5
  <1> QED
    BY <1>2, <1>3, <1>4, <1>5, <1>6

(* A task starts on an opportunity that has just been counted as taken.    *)
LEMMA SpawnSpends ==
  ASSUME TypeOK, NEW o, SpentOnce(o), NEW t \in ExecIds, SpawnExecution(t)
  PROVE  SpentOnce(o)'
  <1> DEFINE r == [opp |-> Head(oppQ), pc |-> "slot", tip |-> 0, since |-> now]
  <1>1. Head(oppQ) \in Opportunities /\ taken \in Seq(Opportunities)
    BY TailOne DEF SpawnExecution, ReceiveOpportunity, TypeOK
  <1>2. r \in Executions /\ r # NoTask /\ r.opp = Head(oppQ) /\ r.pc = "slot"
    BY <1>1, NowNat, NoTaskAssumption DEF Executions, AwaitPoints
  <1>3. \A u \in ExecIds : execs'[u] = IF u = t THEN r ELSE execs[u]
    BY DEF SpawnExecution, TypeOK
  <1>4. execs[t] = NoTask /\ UNCHANGED <<accepted, reported>>
    BY DEF SpawnExecution
  <1> HIDE DEF r
  <1>5. t \notin Pending(o) /\ t \notin Answering(o)
    BY <1>4 DEF Pending, Answering, Live
  <1>6. Answering(o)' = Answering(o)
    <2>1. \A u \in ExecIds : u \in Answering(o)' <=> u \in Answering(o)
      BY <1>2, <1>3, <1>4 DEF Answering, Live
    <2> QED
      BY <2>1 DEF Answering, Live
  <1>7. Pending(o)' = IF Head(oppQ) = o THEN Pending(o) \cup {t} ELSE Pending(o)
    <2>1. \A u \in ExecIds :
            u \in Pending(o)' <=> u \in Pending(o) \/ (u = t /\ Head(oppQ) = o)
      BY <1>2, <1>3, <1>4 DEF Pending, Live
    <2> QED
      BY <2>1 DEF Pending, Live
  <1>8. Cardinality(Pending(o)')
          = Cardinality(Pending(o)) + (IF Head(oppQ) = o THEN 1 ELSE 0)
    <2>1. CASE Head(oppQ) = o
      <3>1. Pending(o)' = Pending(o) \cup {t}
        BY <1>7, <2>1
      <3>2. Cardinality(Pending(o)') = Cardinality(Pending(o)) + 1
        BY <1>5, <3>1, TasksFinite, FS_AddElement
      <3> QED
        BY <2>1, <3>2
    <2>2. CASE Head(oppQ) # o
      <3>1. Pending(o)' = Pending(o)
        BY <1>7, <2>2
      <3> QED
        BY <2>2, <3>1, TasksFinite
    <2> QED
      BY <2>1, <2>2
  <1>9. Cardinality(Occurrences(taken, o)')
          = Cardinality(Occurrences(taken, o)) + (IF Head(oppQ) = o THEN 1 ELSE 0)
    <2>1. taken' = Append(taken, Head(oppQ))
      BY DEF SpawnExecution, ReceiveOpportunity
    <2>2. Occurrences(taken, o)' = Occurrences(Append(taken, Head(oppQ)), o)
      BY <2>1 DEF Occurrences
    <2> QED
      BY <1>1, <2>2, OccurrencesGrow
  <1>10. /\ Cardinality(BundlesOf(accepted, o)') = Cardinality(BundlesOf(accepted, o))
         /\ Cardinality(BundlesOf(reported, o)') = Cardinality(BundlesOf(reported, o))
    BY <1>4 DEF BundlesOf
  <1> QED
    BY <1>6, <1>8, <1>9, <1>10, CountsNat DEF SpentOnce

(* The opportunity of a bundle Jito takes is pending no longer.            *)
LEMMA AcceptSpends ==
  ASSUME TypeOK, NEW o, SpentOnce(o), NEW t \in ExecIds, JitoAccepts(t)
  PROVE  SpentOnce(o)'
  <1> DEFINE r == [execs[t] EXCEPT !.pc = "reply"]
             one == IF execs[t].opp = o THEN 1 ELSE 0
  <1>1. /\ execs[t] # NoTask /\ execs[t].pc = "send" /\ execs[t] \in Executions
        /\ UNCHANGED <<taken, reported>> /\ accepted' = Append(accepted, Bundle(t))
    BY DEF JitoAccepts, At, TypeOK
  <1>2. r \in Executions /\ r # NoTask /\ r.opp = execs[t].opp /\ r.pc = "reply"
    BY <1>1, NoTaskAssumption DEF Executions
  <1>3. \A u \in ExecIds : execs'[u] = IF u = t THEN r ELSE execs[u]
    BY DEF JitoAccepts, TypeOK
  <1> HIDE DEF r
  <1>4. Pending(o)' = Pending(o) \ {t}
    <2>1. \A u \in ExecIds : u \in Pending(o)' <=> u \in Pending(o) /\ u # t
      BY <1>1, <1>2, <1>3 DEF Pending, Live
    <2> QED
      BY <2>1 DEF Pending, Live
  <1>5. Answering(o)' = IF execs[t].opp = o THEN Answering(o) \cup {t} ELSE Answering(o)
    <2>1. \A u \in ExecIds :
            u \in Answering(o)' <=> u \in Answering(o) \/ (u = t /\ execs[t].opp = o)
      BY <1>1, <1>2, <1>3 DEF Answering, Live
    <2> QED
      BY <2>1 DEF Answering, Live
  <1>6. t \notin Answering(o) /\ (t \in Pending(o) <=> execs[t].opp = o)
    BY <1>1 DEF Pending, Answering, Live
  <1>7. Cardinality(Pending(o)') = Cardinality(Pending(o)) - one
    <2>1. CASE execs[t].opp = o
      <3>1. t \in Pending(o) /\ Pending(o)' = Pending(o) \ {t}
        BY <1>4, <1>6, <2>1
      <3>2. Cardinality(Pending(o)') = Cardinality(Pending(o)) - 1
        BY <3>1, TasksFinite, FS_RemoveElement
      <3> QED
        BY <2>1, <3>2
    <2>2. CASE execs[t].opp # o
      <3>1. Pending(o)' = Pending(o)
        BY <1>4, <1>6, <2>2
      <3> QED
        BY <3>1, <2>2, TasksFinite
    <2> QED
      BY <2>1, <2>2
  <1>8. Cardinality(Answering(o)') = Cardinality(Answering(o)) + one
    <2>1. CASE execs[t].opp = o
      <3>1. Answering(o)' = Answering(o) \cup {t}
        BY <1>5, <2>1
      <3> QED
        BY <1>6, <2>1, <3>1, TasksFinite, FS_AddElement
    <2>2. CASE execs[t].opp # o
      <3>1. Answering(o)' = Answering(o)
        BY <1>5, <2>2
      <3> QED
        BY <2>2, <3>1, TasksFinite
    <2> QED
      BY <2>1, <2>2
  <1>9. Bundle(t) \in Bundles /\ Bundle(t).opp = execs[t].opp /\ accepted \in Seq(Bundles)
    BY <1>1 DEF Bundle, Bundles, Executions, TypeOK
  <1>10. Cardinality(BundlesOf(accepted, o)') = Cardinality(BundlesOf(accepted, o)) + one
    <2>1. BundlesOf(accepted, o)' = BundlesOf(Append(accepted, Bundle(t)), o)
      BY <1>1 DEF BundlesOf
    <2> QED
      BY <1>9, <2>1, BundlesOfGrow
  <1>11. /\ Cardinality(BundlesOf(reported, o)') = Cardinality(BundlesOf(reported, o))
         /\ Cardinality(Occurrences(taken, o)') = Cardinality(Occurrences(taken, o))
    BY <1>1 DEF BundlesOf, Occurrences
  <1>12. one \in {0, 1}
    OBVIOUS
  <1> HIDE DEF one
  <1> QED
    BY <1>7, <1>8, <1>10, <1>11, <1>12, CountsNat DEF SpentOnce

(* A bundle is reported by the task that stops waiting for its answer.     *)
LEMMA ReportSpends ==
  ASSUME TypeOK, NEW o, SpentOnce(o), NEW t \in ExecIds, Submitted(t)
  PROVE  SpentOnce(o)'
  <1> DEFINE one == IF execs[t].opp = o THEN 1 ELSE 0
  <1>1. /\ execs[t] # NoTask /\ execs[t].pc = "reply" /\ execs[t] \in Executions
        /\ UNCHANGED <<taken, accepted>> /\ reported' = Append(reported, Bundle(t))
        /\ execs' = [execs EXCEPT ![t] = NoTask]
    BY DEF Submitted, Return, At, TypeOK
  <1>2. /\ Answering(o)' = Answering(o) \ {t}
        /\ Cardinality(Pending(o)') <= Cardinality(Pending(o))
    BY <1>1, ReturnSpends
  <1>3. t \in Answering(o) <=> execs[t].opp = o
    BY <1>1 DEF Answering, Live
  <1>4. Cardinality(Answering(o)') = Cardinality(Answering(o)) - one
    <2>1. CASE execs[t].opp = o
      <3>1. t \in Answering(o) /\ Answering(o)' = Answering(o) \ {t}
        BY <1>2, <1>3, <2>1
      <3>2. Cardinality(Answering(o)') = Cardinality(Answering(o)) - 1
        BY <3>1, TasksFinite, FS_RemoveElement
      <3> QED
        BY <2>1, <3>2
    <2>2. CASE execs[t].opp # o
      <3>1. Answering(o)' = Answering(o)
        BY <1>2, <1>3, <2>2
      <3> QED
        BY <3>1, <2>2, TasksFinite
    <2> QED
      BY <2>1, <2>2
  <1>5. Bundle(t) \in Bundles /\ Bundle(t).opp = execs[t].opp /\ reported \in Seq(Bundles)
    BY <1>1 DEF Bundle, Bundles, Executions, TypeOK
  <1>6. Cardinality(BundlesOf(reported, o)') = Cardinality(BundlesOf(reported, o)) + one
    <2>1. BundlesOf(reported, o)' = BundlesOf(Append(reported, Bundle(t)), o)
      BY <1>1 DEF BundlesOf
    <2> QED
      BY <1>5, <2>1, BundlesOfGrow
  <1>7. /\ Cardinality(BundlesOf(accepted, o)') = Cardinality(BundlesOf(accepted, o))
        /\ Cardinality(Occurrences(taken, o)') = Cardinality(Occurrences(taken, o))
    BY <1>1 DEF BundlesOf, Occurrences
  <1>8. one \in {0, 1} /\ Cardinality(Pending(o)') \in Nat
    <2>1. Pending(o)' = Pending(o) \ {t}
      BY <1>1, ReturnSpends
    <2> QED
      BY <2>1, TasksFinite, FS_Subset, FS_CardinalityType
  <1> HIDE DEF one
  <1> QED
    BY <1>2, <1>4, <1>6, <1>7, <1>8, CountsNat DEF SpentOnce

(* What leaves the counts alone, and what only takes a task away.          *)
LEMMA SameSpends ==
  ASSUME TypeOK, NEW o, SpentOnce(o), UNCHANGED <<execs, histories>>
  PROVE  SpentOnce(o)'
  BY DEF SpentOnce, Pending, Answering, Live, BundlesOf, Occurrences, histories

LEMMA EndSpends ==
  ASSUME TypeOK, NEW o, SpentOnce(o), NEW t \in ExecIds,
         execs' = [execs EXCEPT ![t] = NoTask], UNCHANGED histories
  PROVE  SpentOnce(o)'
  <1>1. /\ Pending(o)' = Pending(o) \ {t} /\ Answering(o)' = Answering(o) \ {t}
        /\ Cardinality(Pending(o)') <= Cardinality(Pending(o))
        /\ Cardinality(Answering(o)') <= Cardinality(Answering(o))
    BY ReturnSpends
  <1>2. Cardinality(Pending(o)') \in Nat /\ Cardinality(Answering(o)') \in Nat
    BY <1>1, TasksFinite, FS_Subset, FS_CardinalityType
  <1>3. /\ BundlesOf(accepted, o)' = BundlesOf(accepted, o)
        /\ BundlesOf(reported, o)' = BundlesOf(reported, o)
        /\ Occurrences(taken, o)' = Occurrences(taken, o)
    BY DEF BundlesOf, Occurrences, histories
  <1> QED
    BY <1>1, <1>2, <1>3, CountsNat DEF SpentOnce

LEMMA DropSpends ==
  ASSUME TypeOK, NEW o, SpentOnce(o), DropOpportunity
  PROVE  SpentOnce(o)'
  <1>1. /\ taken \in Seq(Opportunities) /\ Head(oppQ) \in Opportunities
        /\ taken' = Append(taken, Head(oppQ)) /\ UNCHANGED <<execs, accepted, reported>>
    BY TailOne DEF DropOpportunity, ReceiveOpportunity, TypeOK
  <1>2. Cardinality(Occurrences(taken, o)')
          = Cardinality(Occurrences(taken, o)) + (IF Head(oppQ) = o THEN 1 ELSE 0)
    <2>1. Occurrences(taken, o)' = Occurrences(Append(taken, Head(oppQ)), o)
      BY <1>1 DEF Occurrences
    <2> QED
      BY <1>1, <2>1, OccurrencesGrow
  <1>3. /\ Pending(o)' = Pending(o) /\ Answering(o)' = Answering(o)
        /\ BundlesOf(accepted, o)' = BundlesOf(accepted, o)
        /\ BundlesOf(reported, o)' = BundlesOf(reported, o)
    BY <1>1 DEF Pending, Answering, Live, BundlesOf
  <1> QED
    BY <1>2, <1>3, CountsNat DEF SpentOnce

LEMMA SpentStep ==
  ASSUME TypeOK, [Next]_vars, NEW o, SpentOnce(o)
  PROVE  SpentOnce(o)'
  <1>1. ASSUME NEW t \in ExecIds, Execute(t) PROVE SpentOnce(o)'
    <2>1. CASE \/ SlotFresh(t) \/ BuyInstructions(t) \/ Tipped(t)
               \/ Signed(t) \/ SimulationPasses(t)
      <3>1. PICK r \in Executions :
              /\ r.pc # "reply" /\ r.opp = execs[t].opp
              /\ execs' = [execs EXCEPT ![t] = r]
        BY <2>1, MovesOnly
      <3>2. execs[t] # NoTask /\ execs[t].pc # "reply" /\ UNCHANGED histories
        BY <2>1, MovesOnly
      <3>3. Pending(o)' = Pending(o) /\ Answering(o)' = Answering(o)
        BY <3>1, <3>2, MoveSpends
      <3> QED
        BY <3>2, <3>3 DEF SpentOnce, BundlesOf, Occurrences, histories
    <2>2. CASE SlotStale(t) \/ NotProfitable(t) \/ GiveUp(t) \/ ReplyLost(t)
      <3>1. execs' = [execs EXCEPT ![t] = NoTask] /\ UNCHANGED histories
        BY <2>2 DEF SlotStale, NotProfitable, GiveUp, ReplyLost, Return, histories
      <3> QED
        BY <3>1, EndSpends
    <2>3. CASE TipPanic(t)
      BY <2>3, SameSpends DEF TipPanic, histories
    <2>4. CASE JitoAccepts(t)
      BY <2>4, AcceptSpends
    <2>5. CASE Submitted(t)
      BY <2>5, ReportSpends
    <2> QED
      BY <1>1, <2>1, <2>2, <2>3, <2>4, <2>5 DEF Execute
  <1>2. CASE ExecutorStops \/ Environment \/ UNCHANGED vars
    BY <1>2, SameSpends DEF ExecutorStops, Environment, Tick, DropOppSender, Cancel,
       SendOpportunity, vars, executorVars, histories
  <1> QED
    BY <1>1, <1>2, SpawnSpends, DropSpends
       DEF Next, ExecutorStep, HandleOpportunity, Terminated

(* No opportunity is submitted twice, retried after a lost answer, or      *)
(* reported without Jito having taken it (src/executor/mod.rs:62-81, 236), *)
(* for every number of tasks and opportunities.                            *)
THEOREM SpentOnceHolds == Spec => []OpportunitiesSpentOnce
  <1> DEFINE Spent == \A o \in Opportunities : SpentOnce(o)
  <1>1. Init => Spent
    <2> SUFFICES ASSUME Init, NEW o \in Opportunities PROVE SpentOnce(o)
      OBVIOUS
    <2>1. /\ Pending(o) = {} /\ Answering(o) = {} /\ BundlesOf(accepted, o) = {}
          /\ BundlesOf(reported, o) = {} /\ Occurrences(taken, o) = {}
      BY DEF Init, Pending, Answering, Live, BundlesOf, Occurrences
    <2> QED
      BY <2>1, FS_EmptySet DEF SpentOnce
  <1>2. ASSUME TypeOK, Spent, [Next]_vars PROVE Spent'
    BY <1>2, SpentStep
  <1>3. Spent => OpportunitiesSpentOnce
    BY DEF SpentOnce, OpportunitiesSpentOnce, Pending, Answering, BundlesOf, Occurrences
  <1> HIDE DEF Spent
  <1> QED
    BY <1>1, <1>2, <1>3, TypeCorrect, PTL DEF Spec

-----------------------------------------------------------------------------
(* How old a bundle can be.                                                *)

(* The slots that pass at most from the age check to the request of pc.    *)
Waited(pc) ==
  CASE pc = "buyIx"    -> 0
    [] pc = "sellIx"   -> Timeout["buyIx"]
    [] pc = "accounts" -> Timeout["buyIx"] + Timeout["sellIx"]
    [] pc = "simulate" -> Timeout["buyIx"] + Timeout["sellIx"] + Timeout["accounts"]
    [] pc = "send"     -> Timeout["buyIx"] + Timeout["sellIx"] + Timeout["accounts"]
                            + (IF SkipSimulation THEN 0 ELSE Timeout["simulate"])

(* A pending request has not timed out, and was made in time.              *)
RequestInTime(r, slot) ==
  r.pc \in AwaitPoints =>
    /\ r.pc = "simulate" => ~SkipSimulation
    /\ slot <= r.since + Timeout[r.pc]
    /\ r.pc # "slot" => r.since <= r.opp.slot + MaxAge + RpcLag + Waited(r.pc)

TasksInTime == \A t \in ExecIds : execs[t] # NoTask => RequestInTime(execs[t], now)

LEMMA TimesNat ==
  /\ \A pc \in AwaitPoints : Timeout[pc] \in Nat
  /\ MaxAge \in Nat /\ RpcLag \in Nat /\ SkipSimulation \in BOOLEAN
  /\ \A pc \in AwaitPoints \ {"slot"} : Waited(pc) \in Nat
  BY ExecutorAssumption DEF AwaitPoints, Waited

(* The slot check: the sum may wrap, which only makes it stricter.         *)
LEMMA FreshInTime ==
  ASSUME TypeOK, NEW t \in ExecIds, SlotFresh(t)
  PROVE  now <= execs[t].opp.slot + MaxAge + RpcLag
  <1>1. PICK current \in RpcSlots : current <= AddU64(execs[t].opp.slot, MaxAge)
    BY DEF SlotFresh, IsFresh
  <1>2. execs[t].opp \in Opportunities
    BY DEF SlotFresh, TypeOK, At, Executions
  <1>3. execs[t].opp.slot \in Nat /\ MaxAge \in Nat /\ RpcLag \in Nat /\ U64 \in Nat \ {0}
    BY <1>2, ExecutorAssumption, WordAssumption
  <1>4. current \in Int /\ current + RpcLag >= now /\ now \in Int
    BY <1>1, NowNat DEF RpcSlots
  <1> DEFINE sum == execs[t].opp.slot + MaxAge
  <1>5. sum \in Nat
    BY <1>3
  <1> HIDE DEF sum
  <1>6. sum % U64 <= sum /\ sum % U64 \in Int
    BY <1>3, <1>5
  <1>7. current <= sum % U64
    BY <1>1 DEF AddU64, sum
  <1>8. now <= sum + RpcLag
    BY <1>3, <1>4, <1>5, <1>6, <1>7
  <1> QED
    BY <1>8 DEF sum

(* A task that goes on to its next request makes it in time if the last    *)
(* was.                                                                    *)
LEMMA NextInTime ==
  ASSUME TypeOK, NEW o \in Opportunities, NEW since \in Nat,
         NEW from \in AwaitPoints \ {"slot"}, NEW to \in AwaitPoints \ {"slot"},
         now <= since + Timeout[from],
         since <= o.slot + MaxAge + RpcLag + Waited(from),
         Waited(from) + Timeout[from] <= Waited(to)
  PROVE  now <= o.slot + MaxAge + RpcLag + Waited(to)
  <1>1. o.slot \in Nat /\ now \in Nat
    BY ExecutorAssumption, NowNat
  <1> QED
    BY <1>1, TimesNat

LEMMA ExecuteInTime ==
  ASSUME TypeOK, TasksInTime, NEW t \in ExecIds, Execute(t), now' = now
  PROVE  TasksInTime'
  <1>1. execs[t] # NoTask /\ execs[t] \in Executions
    BY DEF TypeOK, Execute, SlotStale, SlotFresh, BuyInstructions, NotProfitable, TipPanic,
       Tipped, Signed, SimulationPasses, GiveUp, JitoAccepts, Submitted, ReplyLost, At
  <1>2. /\ execs[t].opp \in Opportunities /\ execs[t].since \in Nat
        /\ RequestInTime(execs[t], now)
    BY <1>1 DEF Executions, TasksInTime
  <1>3. ASSUME NEW r, execs' = [execs EXCEPT ![t] = r], r # NoTask => RequestInTime(r, now)
        PROVE  TasksInTime'
    <2> SUFFICES ASSUME NEW u \in ExecIds, execs'[u] # NoTask
                 PROVE  RequestInTime(execs'[u], now')
      BY DEF TasksInTime
    <2>1. CASE u = t
      BY <1>3, <2>1 DEF TypeOK
    <2>2. CASE u # t
      BY <1>3, <2>2 DEF TypeOK, TasksInTime
    <2> QED
      BY <2>1, <2>2
  <1>4. ASSUME NEW pc \in AwaitPoints \ {"slot"}, NEW r \in Executions,
               r.pc = pc, r.opp = execs[t].opp, r.since = now,
               execs' = [execs EXCEPT ![t] = r],
               now <= execs[t].opp.slot + MaxAge + RpcLag + Waited(pc),
               pc = "simulate" => ~SkipSimulation
        PROVE  TasksInTime'
    <2>1. now <= now + Timeout[pc]
      BY NowNat, TimesNat
    <2>2. RequestInTime(r, now)
      BY <1>4, <2>1 DEF RequestInTime
    <2> QED
      BY <1>3, <1>4, <2>2
  <1>5. ASSUME NEW pc \in AwaitPoints \ {"slot"}, Goto(t, pc),
               now <= execs[t].opp.slot + MaxAge + RpcLag + Waited(pc),
               pc = "simulate" => ~SkipSimulation
        PROVE  TasksInTime'
    <2> DEFINE r == [execs[t] EXCEPT !.pc = pc, !.since = now]
    <2>1. r \in Executions /\ r.pc = pc /\ r.opp = execs[t].opp /\ r.since = now
      BY <1>1, NowNat DEF Executions
    <2>2. execs' = [execs EXCEPT ![t] = r]
      BY <1>5 DEF Goto
    <2> HIDE DEF r
    <2> QED
      BY <1>4, <1>5, <2>1, <2>2
  <1>6. ASSUME NEW from \in AwaitPoints \ {"slot"}, NEW to \in AwaitPoints \ {"slot"},
               execs[t].pc = from, Waited(from) + Timeout[from] <= Waited(to)
        PROVE  now <= execs[t].opp.slot + MaxAge + RpcLag + Waited(to)
    BY <1>2, <1>6, NextInTime DEF RequestInTime
  <1>7. CASE SlotFresh(t)
    <2>1. now <= execs[t].opp.slot + MaxAge + RpcLag + Waited("buyIx")
      BY <1>2, <1>7, FreshInTime, ExecutorAssumption, TimesNat DEF Waited
    <2> QED
      BY <1>5, <1>7, <2>1 DEF SlotFresh, AwaitPoints
  <1>8. CASE BuyInstructions(t)
    <2>1. Waited("buyIx") + Timeout["buyIx"] <= Waited("sellIx")
      BY TimesNat DEF Waited, AwaitPoints
    <2> QED
      BY <1>5, <1>6, <1>8, <2>1 DEF BuyInstructions, At, AwaitPoints
  <1>9. CASE Tipped(t)
    <2> DEFINE r == [execs[t] EXCEPT !.pc = "accounts",
                                     !.tip = DynamicJitoTip(Profit(execs[t].opp)),
                                     !.since = now]
    <2>1. DynamicJitoTip(Profit(execs[t].opp)) \in Int
      BY <1>2, TipClamped
    <2>2. r \in Executions /\ r.pc = "accounts" /\ r.opp = execs[t].opp /\ r.since = now
      BY <1>1, <2>1, NowNat DEF Executions, AwaitPoints
    <2>3. execs' = [execs EXCEPT ![t] = r]
      BY <1>9 DEF Tipped
    <2>4. Waited("sellIx") + Timeout["sellIx"] <= Waited("accounts")
      BY TimesNat DEF Waited, AwaitPoints
    <2>5. now <= execs[t].opp.slot + MaxAge + RpcLag + Waited("accounts")
      BY <1>6, <1>9, <2>4 DEF Tipped, At, AwaitPoints
    <2> HIDE DEF r
    <2> QED
      BY <1>4, <2>2, <2>3, <2>5 DEF AwaitPoints
  <1>10. CASE Signed(t)
    <2>1. CASE SkipSimulation
      <3>1. Waited("accounts") + Timeout["accounts"] <= Waited("send")
        BY <2>1, TimesNat DEF Waited, AwaitPoints
      <3> QED
        BY <1>5, <1>6, <1>10, <2>1, <3>1 DEF Signed, At, AwaitPoints
    <2>2. CASE ~SkipSimulation
      <3>1. Waited("accounts") + Timeout["accounts"] <= Waited("simulate")
        BY TimesNat DEF Waited, AwaitPoints
      <3> QED
        BY <1>5, <1>6, <1>10, <2>2, <3>1 DEF Signed, At, AwaitPoints
    <2> QED
      BY <2>1, <2>2
  <1>11. CASE SimulationPasses(t)
    <2>1. ~SkipSimulation
      BY <1>2, <1>11 DEF SimulationPasses, At, RequestInTime, AwaitPoints
    <2>2. Waited("simulate") + Timeout["simulate"] <= Waited("send")
      BY <2>1, TimesNat DEF Waited, AwaitPoints
    <2> QED
      BY <1>5, <1>6, <1>11, <2>2 DEF SimulationPasses, At, AwaitPoints
  <1>12. CASE JitoAccepts(t)
    <2> DEFINE r == [execs[t] EXCEPT !.pc = "reply"]
    <2>1. r.pc = "reply" /\ execs' = [execs EXCEPT ![t] = r]
      BY <1>1, <1>12 DEF JitoAccepts, Executions
    <2>2. RequestInTime(r, now)
      BY <2>1 DEF RequestInTime, AwaitPoints
    <2> HIDE DEF r
    <2> QED
      BY <1>3, <2>1, <2>2
  <1>13. CASE SlotStale(t) \/ NotProfitable(t) \/ GiveUp(t) \/ Submitted(t) \/ ReplyLost(t)
    BY <1>3, <1>13 DEF SlotStale, NotProfitable, GiveUp, Submitted, ReplyLost, Return
  <1>14. CASE TipPanic(t)
    BY <1>14 DEF TipPanic, TasksInTime, RequestInTime
  <1> QED
    BY <1>7, <1>8, <1>9, <1>10, <1>11, <1>12, <1>13, <1>14 DEF Execute

LEMMA StepInTime == ASSUME TypeOK, TasksInTime, [Next]_vars PROVE TasksInTime'
  <1>1. ASSUME NEW t \in ExecIds, Execute(t), UNCHANGED execEnvVars PROVE TasksInTime'
    BY <1>1, ExecuteInTime DEF execEnvVars
  <1>2. ASSUME NEW t \in ExecIds, SpawnExecution(t), UNCHANGED execEnvVars PROVE TasksInTime'
    <2> DEFINE r == [opp |-> Head(oppQ), pc |-> "slot", tip |-> 0, since |-> now]
    <2> SUFFICES ASSUME NEW u \in ExecIds, execs'[u] # NoTask
                 PROVE  RequestInTime(execs'[u], now')
      BY DEF TasksInTime
    <2>1. execs' = [execs EXCEPT ![t] = r] /\ now' = now
      BY <1>2 DEF SpawnExecution, execEnvVars
    <2>2. now <= now + Timeout["slot"]
      BY NowNat, TimesNat DEF AwaitPoints
    <2>3. RequestInTime(r, now)
      BY <2>2 DEF RequestInTime
    <2> HIDE DEF r
    <2>4. CASE u = t
      BY <2>1, <2>3, <2>4 DEF TypeOK
    <2>5. CASE u # t
      BY <2>1, <2>5 DEF TypeOK, TasksInTime
    <2> QED
      BY <2>4, <2>5
  <1>3. CASE Tick
    <2> SUFFICES ASSUME NEW u \in ExecIds, execs'[u] # NoTask
                 PROVE  RequestInTime(execs'[u], now')
      BY DEF TasksInTime
    <2>1. execs' = execs /\ now' = now + 1
      BY <1>3 DEF Tick, executorVars
    <2>2. CASE execs[u].pc \in AwaitPoints
      <3>1. now < execs[u].since + Timeout[execs[u].pc]
        BY <1>3, <2>1, <2>2 DEF Tick, At
      <3>2. execs[u].since \in Nat
        BY <2>1 DEF TypeOK, Executions
      <3>3. now + 1 <= execs[u].since + Timeout[execs[u].pc]
        BY <2>2, <3>1, <3>2, NowNat, TimesNat
      <3> QED
        BY <2>1, <3>3 DEF TasksInTime, RequestInTime
    <2>3. CASE execs[u].pc \notin AwaitPoints
      BY <2>1, <2>3 DEF RequestInTime
    <2> QED
      BY <2>2, <2>3
  <1>4. UNCHANGED <<execs, now>> => TasksInTime'
    BY DEF TasksInTime, RequestInTime
  <1>5. CASE (DropOpportunity \/ ExecutorStops) /\ UNCHANGED execEnvVars
    BY <1>4, <1>5 DEF DropOpportunity, ExecutorStops, execEnvVars
  <1>6. CASE DropOppSender \/ Cancel \/ \E o \in Opportunities : SendOpportunity(o)
    BY <1>4, <1>6 DEF DropOppSender, Cancel, SendOpportunity, executorVars
  <1>7. CASE UNCHANGED vars
    BY <1>4, <1>7 DEF vars, executorVars, execEnvVars
  <1> QED
    BY <1>1, <1>2, <1>3, <1>5, <1>6, <1>7
       DEF Next, ExecutorStep, HandleOpportunity, Environment, Terminated

(* Whatever the timeouts, the lag and the interleaving of tasks, no bundle *)
(* Jito takes is older than the limit by more than they add up to: the age *)
(* check and every request after it come in the right order and once       *)
(* (src/executor/mod.rs:94-236).  The sum of the check may wrap.           *)
THEOREM InTime == Spec => SubmittedInTime
  <1> DEFINE Timely ==
        accepted' # accepted =>
          now <= accepted'[Len(accepted')].opp.slot + MaxAge + RpcLag + SlotsToSubmit
  <1>1. Init => TasksInTime
    BY DEF Init, TasksInTime
  <1>2. TypeOK /\ TasksInTime /\ [Next]_vars => TasksInTime'
    BY StepInTime
  <1>3. ASSUME TypeOK, TasksInTime, [Next]_vars, accepted' # accepted
        PROVE  now <= accepted'[Len(accepted')].opp.slot + MaxAge + RpcLag + SlotsToSubmit
    <2>1. PICK t \in ExecIds : At(t, "send") /\ accepted' = Append(accepted, Bundle(t))
      BY <1>3, BundlesStep
    <2>2. /\ execs[t] # NoTask /\ execs[t].pc = "send" /\ execs[t] \in Executions
          /\ accepted \in Seq(Bundles)
      BY <1>3, <2>1 DEF At, TypeOK
    <2>3. execs[t].opp \in Opportunities /\ execs[t].since \in Nat
      BY <2>2 DEF Executions
    <2>4. Bundle(t) \in Bundles /\ Bundle(t).opp = execs[t].opp
      BY <2>2 DEF Bundle, Bundles, Executions
    <2>5. accepted'[Len(accepted')] = Bundle(t)
      BY <2>1, <2>2, <2>4, AppendOne
    <2>6. /\ now <= execs[t].since + Timeout["send"]
          /\ execs[t].since <= execs[t].opp.slot + MaxAge + RpcLag + Waited("send")
      BY <1>3, <2>2 DEF TasksInTime, RequestInTime, AwaitPoints
    <2>7. execs[t].opp.slot \in Nat /\ now \in Nat
      BY <1>3, <2>3, ExecutorAssumption, NowNat
    <2>8. SlotsToSubmit = Waited("send") + Timeout["send"]
      BY DEF SlotsToSubmit, Waited
    <2>9. Waited("send") \in Nat /\ Timeout["send"] \in Nat
      BY TimesNat DEF AwaitPoints
    <2> HIDE DEF Waited
    <2>10. now <= execs[t].opp.slot + MaxAge + RpcLag + SlotsToSubmit
      BY <2>3, <2>6, <2>7, <2>8, <2>9, ExecutorAssumption
    <2>11. accepted'[Len(accepted')].opp = execs[t].opp
      BY <2>4, <2>5
    <2> QED
      BY <2>10, <2>11
  <1>4. TypeOK /\ TasksInTime /\ [Next]_vars => [Timely]_vars
    BY <1>3
  <1> HIDE DEF Timely
  <1>5. [][Timely]_vars => SubmittedInTime
    BY DEF Timely, SubmittedInTime
  <1> QED
    BY <1>1, <1>2, <1>4, <1>5, TypeCorrect, PTL DEF Spec

=============================================================================
