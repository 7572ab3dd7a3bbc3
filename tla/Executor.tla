----------------------------- MODULE Executor ------------------------------
(***************************************************************************)
(* The executor (src/executor/mod.rs): one loop that takes opportunities   *)
(* and spawns an execution task for each while it has a permit; and the    *)
(* execution tasks, which check the age of their opportunity, build one    *)
(* transaction and submit it to Jito as a bundle (src/jito/mod.rs).        *)
(*                                                                         *)
(* The build is the release build: a panic aborts the process              *)
(* (Cargo.toml:73) and arithmetic wraps (:75).                             *)
(*                                                                         *)
(* An action is what one task does between two awaits.  As in Scanner, the *)
(* actions of the component mention no environment variable except those   *)
(* they read (now, cancelled, oppSenderGone).                              *)
(***************************************************************************)
EXTENDS Integers, Sequences, FiniteSets, Money

CONSTANTS
  Opportunities,          \* records with fields slot, loan and minOut
  MaxAge,                 \* config.max_opportunity_age_slots
  OpportunityCap,         \* OPPORTUNITY_CHANNEL_CAPACITY: 16 in the code
  ScannerMaxConcurrency,  \* config.scanner_max_concurrency
  MobileMaxExec,          \* MOBILE_MAX_EXEC_CONCURRENCY: 2 in the code
  ExecIds,                \* names for the execution tasks
  NoTask,                 \* what execs holds for a name not in use
  SkipSimulation,         \* config.skip_simulation
  RpcLag,                 \* slots the RPC node's answer may be behind the chain
  Timeout,                \* for each request, the slots until it has timed out
  MaxSlot,                \* bound on the chain's slot
  MaxSent                 \* bound on the opportunities the environment sends

(* config.scanner_max_concurrency.min(MOBILE_MAX_EXEC_CONCURRENCY)         *)
MaxExec ==
  IF ScannerMaxConcurrency <= MobileMaxExec THEN ScannerMaxConcurrency ELSE MobileMaxExec

(* A request is pending: for the slot, for the swap instructions of either *)
(* quote, for lookup tables and blockhash, for the simulation, to Jito.    *)
AwaitPoints == {"slot", "buyIx", "sellIx", "accounts", "simulate", "send"}

ASSUME ExecutorAssumption ==
  /\ \A o \in Opportunities :
       /\ o.slot \in Nat
       /\ o.loan \in 0..(U64 - 1)
       /\ o.minOut \in 0..(U64 - 1)
  /\ MaxAge \in Nat
  /\ OpportunityCap \in Nat \ {0}
  /\ ScannerMaxConcurrency \in Nat
  /\ MobileMaxExec \in Nat
  /\ IsFiniteSet(ExecIds) /\ Cardinality(ExecIds) >= MaxExec
  /\ SkipSimulation \in BOOLEAN
  /\ RpcLag \in Nat
  /\ Timeout \in [AwaitPoints -> Nat]
  /\ MaxSlot \in Nat
  /\ MaxSent \in Nat

(* An execution task waits for an answer; of Jito's, "send" is before the  *)
(* bundle is taken and "reply" after.  since is the chain's slot when the  *)
(* request was made: nothing but Tick reads it.                            *)
Executions ==
  [opp : Opportunities, pc : AwaitPoints \cup {"reply"}, tip : Int, since : Nat]

ASSUME NoTaskAssumption == NoTask \notin Executions

Bundles == [opp : Opportunities, tip : Int]

VARIABLES
  oppQ,           \* opportunity channel, oldest first
  execPermits,    \* permits left in the semaphore
  execs,          \* ExecIds -> execution task, or NoTask
  executorPc,     \* "loop" or "done" (run() has returned)
  crashed,        \* a panic has aborted the process
  taken,          \* every opportunity the loop received (for properties)
  accepted,       \* bundles Jito has taken, in order
  reported,       \* bundles logged as submitted
  now,            \* environment: the chain's slot
  cancelled,      \* environment: the token is cancelled
  oppSenderGone,  \* environment: every Sender<ArbOpportunity> is dropped
  sent            \* environment: opportunities sent so far

execEnvVars == <<now, cancelled, oppSenderGone, sent>>
executorVars == <<oppQ, execPermits, execs, executorPc, crashed, taken, accepted, reported>>
vars == <<executorVars, execEnvVars>>

Init ==
  /\ oppQ = << >>
  /\ execPermits = MaxExec
  /\ execs = [t \in ExecIds |-> NoTask]
  /\ executorPc = "loop"
  /\ crashed = FALSE
  /\ taken = << >>
  /\ accepted = << >>
  /\ reported = << >>
  /\ now = 0
  /\ cancelled = FALSE
  /\ oppSenderGone = FALSE
  /\ sent = 0

-----------------------------------------------------------------------------
(* The loop.                                                               *)

ReceiveOpportunity ==
  /\ executorPc = "loop" /\ oppQ # << >>
  /\ oppQ' = Tail(oppQ)
  /\ taken' = Append(taken, Head(oppQ))

DropOpportunity ==
  /\ ReceiveOpportunity
  /\ execPermits = 0
  /\ UNCHANGED <<execPermits, execs, executorPc, crashed, accepted, reported>>

SpawnExecution(t) ==
  /\ ReceiveOpportunity
  /\ execPermits > 0 /\ execs[t] = NoTask
  /\ execPermits' = execPermits - 1
  /\ execs' = [execs EXCEPT ![t] =
                 [opp |-> Head(oppQ), pc |-> "slot", tip |-> 0, since |-> now]]
  /\ UNCHANGED <<executorPc, crashed, accepted, reported>>

(* Mutant of ExecutorStops: the token is not watched.                      *)
ExecutorStops_WhenDrained ==
  /\ executorPc = "loop"
  /\ oppSenderGone /\ oppQ = << >>
  /\ executorPc' = "done"
  /\ UNCHANGED <<oppQ, execPermits, execs, crashed, taken, accepted, reported>>

(* run() returns: the token is cancelled, or every sender is dropped and   *)
(* the queue is empty.  Its Receiver is dropped with what is queued.       *)
ExecutorStops ==
  /\ executorPc = "loop"
  /\ cancelled \/ (oppSenderGone /\ oppQ = << >>)
  /\ executorPc' = "done"
  /\ oppQ' = << >>
  /\ UNCHANGED <<execPermits, execs, crashed, taken, accepted, reported>>

-----------------------------------------------------------------------------
(* The execution tasks.                                                    *)

At(t, pc) == execs[t] # NoTask /\ execs[t].pc = pc

Goto(t, pc) ==
  /\ execs' = [execs EXCEPT ![t].pc = pc, ![t].since = now]
  /\ UNCHANGED <<oppQ, execPermits, executorPc, crashed, taken, accepted, reported>>

(* Mutant of Return: add_permits(1) besides the permit that is dropped.    *)
Return_TwoPermits(t) ==
  /\ execs' = [execs EXCEPT ![t] = NoTask]
  /\ execPermits' = execPermits + 2
  /\ UNCHANGED <<oppQ, executorPc, crashed, taken>>

(* Mutant of Return: the permit is not moved into the task.                *)
Return_KeepsPermit(t) ==
  /\ execs' = [execs EXCEPT ![t] = NoTask]
  /\ UNCHANGED <<oppQ, execPermits, executorPc, crashed, taken>>

(* The task returns and drops its permit.                                  *)
Return(t) ==
  /\ execs' = [execs EXCEPT ![t] = NoTask]
  /\ execPermits' = execPermits + 1
  /\ UNCHANGED <<oppQ, executorPc, crashed, taken>>

(* get_slot(): a slot of the chain at most RpcLag behind it.               *)
RpcSlots == {s \in 0..now : s + RpcLag >= now}

(* Mutant of IsFresh: the "generous 2x multiplier" of executor:58.         *)
IsFresh_TwiceTheAge(o, current) == current <= AddU64(o.slot, 2 * MaxAge)

IsFresh(o, current) == current <= AddU64(o.slot, MaxAge)

SlotStale(t) ==
  /\ At(t, "slot")
  /\ \E current \in RpcSlots : ~IsFresh(execs[t].opp, current)
  /\ Return(t) /\ UNCHANGED <<accepted, reported>>

SlotFresh(t) ==
  /\ At(t, "slot")
  /\ \E current \in RpcSlots : IsFresh(execs[t].opp, current)
  /\ Goto(t, "buyIx")

BuyInstructions(t) == At(t, "buyIx") /\ Goto(t, "sellIx")

(* The sell instructions arrive: without another await the task assembles  *)
(* the transaction, estimates the profit again from the same quote, and    *)
(* computes the tip.                                                       *)
Profit(o) == EstimateProfit(o.loan, o.minOut)

NotProfitable(t) ==
  /\ At(t, "sellIx")
  /\ Profit(execs[t].opp) <= 0
  /\ Return(t) /\ UNCHANGED <<accepted, reported>>

(* clamp() panics, and the process aborts.                                 *)
TipPanic(t) ==
  /\ At(t, "sellIx")
  /\ Profit(execs[t].opp) > 0 /\ TipPanics(Profit(execs[t].opp))
  /\ crashed' = TRUE
  /\ UNCHANGED <<oppQ, execPermits, execs, executorPc, taken, accepted, reported>>

Tipped(t) ==
  /\ At(t, "sellIx")
  /\ Profit(execs[t].opp) > 0 /\ ~TipPanics(Profit(execs[t].opp))
  /\ execs' = [execs EXCEPT ![t].pc = "accounts",
                            ![t].tip = DynamicJitoTip(Profit(execs[t].opp)),
                            ![t].since = now]
  /\ UNCHANGED <<oppQ, execPermits, executorPc, crashed, taken, accepted, reported>>

(* Blockhash and lookup tables arrive; a table that fails is left out.     *)
Signed(t) ==
  /\ At(t, "accounts")
  /\ Goto(t, IF SkipSimulation THEN "send" ELSE "simulate")

SimulationPasses(t) == At(t, "simulate") /\ Goto(t, "send")

(* A request fails, or what it returned cannot be used: `?` or a return.   *)
GiveUp(t) ==
  /\ \E pc \in AwaitPoints : At(t, pc)
  /\ Return(t) /\ UNCHANGED <<accepted, reported>>

(* send_bundle: Jito takes the bundle before its answer is back.           *)
Bundle(t) == [opp |-> execs[t].opp, tip |-> execs[t].tip]

JitoAccepts(t) ==
  /\ At(t, "send")
  /\ accepted' = Append(accepted, Bundle(t))
  /\ execs' = [execs EXCEPT ![t].pc = "reply"]
  /\ UNCHANGED <<oppQ, execPermits, executorPc, crashed, taken, reported>>

Submitted(t) ==
  /\ At(t, "reply")
  /\ reported' = Append(reported, Bundle(t))
  /\ Return(t) /\ UNCHANGED accepted

(* Mutant of ReplyLost: a lost answer is retried.                          *)
ReplyLost_Retries(t) == At(t, "reply") /\ Goto(t, "send")

(* The answer is lost, late, or not the JSON expected: an error is logged. *)
ReplyLost(t) ==
  /\ At(t, "reply")
  /\ Return(t) /\ UNCHANGED <<accepted, reported>>

-----------------------------------------------------------------------------
Execute(t) ==
  \/ SlotStale(t) \/ SlotFresh(t) \/ BuyInstructions(t)
  \/ NotProfitable(t) \/ TipPanic(t) \/ Tipped(t)
  \/ Signed(t) \/ SimulationPasses(t) \/ GiveUp(t)
  \/ JitoAccepts(t) \/ Submitted(t) \/ ReplyLost(t)

HandleOpportunity == DropOpportunity \/ \E t \in ExecIds : SpawnExecution(t)

ExecutorStep ==
  \/ HandleOpportunity \/ ExecutorStops
  \/ \E t \in ExecIds : Execute(t)

(* The environment: the chain moves on, the scanner sends what it likes.   *)
(* A request that is still pending has not timed out.                      *)
Tick ==
  /\ now < MaxSlot
  /\ \A t \in ExecIds, pc \in AwaitPoints :
       At(t, pc) => now < execs[t].since + Timeout[pc]
  /\ now' = now + 1
  /\ UNCHANGED <<executorVars, cancelled, oppSenderGone, sent>>

SendOpportunity(o) ==
  /\ ~oppSenderGone /\ executorPc = "loop"
  /\ sent < MaxSent /\ Len(oppQ) < OpportunityCap
  /\ o.slot <= now
  /\ oppQ' = Append(oppQ, o)
  /\ sent' = sent + 1
  /\ UNCHANGED <<execPermits, execs, executorPc, crashed, taken, accepted, reported,
                 now, cancelled, oppSenderGone>>

DropOppSender ==
  /\ ~oppSenderGone
  /\ oppSenderGone' = TRUE
  /\ UNCHANGED <<executorVars, now, cancelled, sent>>

Cancel ==
  /\ ~cancelled
  /\ cancelled' = TRUE
  /\ UNCHANGED <<executorVars, now, oppSenderGone, sent>>

Environment ==
  \/ Tick \/ DropOppSender \/ Cancel
  \/ \E o \in Opportunities : SendOpportunity(o)

Terminated ==
  /\ executorPc = "done"
  /\ \A t \in ExecIds : execs[t] = NoTask
  /\ UNCHANGED vars

(* Nothing runs after an abort.                                            *)
Next ==
  \/ /\ ~crashed
     /\ \/ ExecutorStep /\ UNCHANGED execEnvVars
        \/ Environment
        \/ Terminated
  \/ crashed /\ UNCHANGED vars

Spec == Init /\ [][Next]_vars

(* As in Scanner: every request has a timeout, and select! does not starve *)
(* a ready branch.                                                         *)
Runs(A) == ~crashed /\ A /\ UNCHANGED execEnvVars

Fairness ==
  /\ WF_vars(Runs(HandleOpportunity))
  /\ WF_vars(Runs(ExecutorStops))
  /\ \A t \in ExecIds : WF_vars(Runs(Execute(t)))

FairSpec == Spec /\ Fairness

-----------------------------------------------------------------------------
(* Properties.                                                             *)

Live == {t \in ExecIds : execs[t] # NoTask}

(* Every variable holds a value of its kind.                               *)
TypeOK ==
  /\ oppQ \in Seq(Opportunities) /\ Len(oppQ) <= OpportunityCap
  /\ execPermits \in 0..MaxExec
  /\ execs \in [ExecIds -> Executions \cup {NoTask}]
  /\ executorPc \in {"loop", "done"}
  /\ crashed \in BOOLEAN
  /\ taken \in Seq(Opportunities)
  /\ accepted \in Seq(Bundles)
  /\ reported \in Seq(Bundles)
  /\ now \in 0..MaxSlot
  /\ cancelled \in BOOLEAN /\ oppSenderGone \in BOOLEAN
  /\ sent \in 0..MaxSent

(* Permits are neither leaked nor forged, whichever way a task ends        *)
(* (src/executor/mod.rs:42, 63-81): a leak would silence the executor.     *)
ExecPermitsConserved == execPermits + Cardinality(Live) = MaxExec

(* No bundle costs more than it brings: each pays at least the minimum tip *)
(* and at most half of a positive profit, the profit the scanner saw       *)
(* (src/executor/mod.rs:131-139, 236).                                     *)
BundlesWorthIt ==
  \A i \in DOMAIN accepted :
    LET profit == Profit(accepted[i].opp)
    IN  /\ profit > 0
        /\ accepted[i].tip >= MinTip
        /\ 2 * accepted[i].tip <= profit

(* An opportunity is spent once.  Of each, the tasks that may still submit *)
(* it and the bundles submitted do not outnumber the times it was taken,   *)
(* and none is reported that Jito did not take: no retry, no second bundle *)
(* after a lost answer (src/executor/mod.rs:62-81, 236-242).               *)
OpportunitiesSpentOnce ==
  \A o \in Opportunities :
    LET of(seq) == Cardinality({i \in DOMAIN seq : seq[i].opp = o})
    IN  /\ Cardinality({t \in Live : execs[t].opp = o /\ execs[t].pc # "reply"}) + of(accepted)
             <= Cardinality({i \in DOMAIN taken : taken[i] = o})
        /\ of(reported) + Cardinality({t \in Live : execs[t].opp = o /\ execs[t].pc = "reply"})
             <= of(accepted)

(* How old a bundle can be.  The age is checked once and four or five      *)
(* requests follow, on which other tasks run and the chain moves on: when  *)
(* Jito takes the bundle, its opportunity is older than the limit by the   *)
(* lag of the node and the timeouts of those requests at most              *)
(* (src/executor/mod.rs:94-236, src/jupiter/mod.rs:18, src/jito/mod.rs:19).*)
SlotsToSubmit ==
  Timeout["buyIx"] + Timeout["sellIx"] + Timeout["accounts"]
    + (IF SkipSimulation THEN 0 ELSE Timeout["simulate"]) + Timeout["send"]

SubmittedInTime ==
  [][accepted' # accepted =>
       now <= accepted'[Len(accepted')].opp.slot + MaxAge + RpcLag + SlotsToSubmit]_vars

(* Once the token is cancelled or the scanner and its tasks are gone, run()*)
(* returns and every task ends; or the process has aborted                 *)
(* (src/executor/mod.rs:46-53).                                            *)
ShutdownCompletes ==
  (cancelled \/ oppSenderGone) ~> (crashed \/ (executorPc = "done" /\ Live = {}))

-----------------------------------------------------------------------------
(* What a comment says, and the code does not keep.                        *)

(* "Minimum tip: 1_000 lamports (ensures bundle is submitted even on tiny  *)
(* profits)." (src/config/mod.rs:182): an opportunity with any positive    *)
(* profit, once its sell instructions are in, gets a tip.  clamp(1_000,    *)
(* profit / 2) panics below a profit of 2_000, which aborts the bot.       *)
TinyProfitsTipped ==
  [][\A t \in ExecIds :
       At(t, "sellIx") /\ Profit(execs[t].opp) > 0 => ~TipPanic(t)]_vars

=============================================================================
