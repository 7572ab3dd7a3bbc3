------------------------------ MODULE Scanner ------------------------------
(***************************************************************************)
(* The scanner (src/scanner/mod.rs): one loop that takes events from the   *)
(* migration channel, filters them, and spawns an evaluation task for each *)
(* event it admits while it has a permit; and the evaluation tasks, which  *)
(* price one round trip each and hand a profitable one to the executor.    *)
(*                                                                         *)
(* An action is what one task does between two awaits.  An iteration of    *)
(* the loop awaits only recv(), so it is one action per path through it.   *)
(* The actions mention no variable of the environment except the three     *)
(* they read (cancelled, senderGone, receiverGone), so that other modules  *)
(* can instantiate them; Next adds an environment of the loosest kind.     *)
(***************************************************************************)
EXTENDS Integers, Sequences, FiniteSets, Money

CONSTANTS
  Tokens,                 \* accounts an event can name
  Slots,                  \* slots an event can carry
  MaxAge,                 \* config.max_opportunity_age_slots
  RecentCap,              \* capacity of recent_keys: 32 in the code
  DedupSlots,             \* width of the duplicate window: 5 in the code
  MigrationCap,           \* MIGRATION_CHANNEL_CAPACITY: 128 in the code
  OpportunityCap,         \* OPPORTUNITY_CHANNEL_CAPACITY: 16 in the code
  ScannerMaxConcurrency,  \* config.scanner_max_concurrency
  MobileMaxConcurrency,   \* MOBILE_MAX_CONCURRENCY: 4 in the code
  TaskIds,                \* names for the evaluation tasks
  NoTask,                 \* what evals holds for a name not in use
  MaxLoan,                \* config.max_loan_lamports
  MinProfit,              \* config.min_profit_lamports
  SellOutputs,            \* other_amount_threshold of a sell quote
  MaxEvents               \* bound on the events the environment sends

(* config.scanner_max_concurrency.min(MOBILE_MAX_CONCURRENCY)              *)
MaxConcurrency ==
  IF ScannerMaxConcurrency <= MobileMaxConcurrency
  THEN ScannerMaxConcurrency
  ELSE MobileMaxConcurrency

ASSUME ScannerAssumption ==
  /\ Slots \subseteq Nat
  /\ MaxAge \in Nat
  /\ RecentCap \in Nat \ {0}
  /\ DedupSlots \in Nat \ {0}
  /\ MigrationCap \in Nat \ {0}
  /\ OpportunityCap \in Nat \ {0}
  /\ ScannerMaxConcurrency \in Nat
  /\ MobileMaxConcurrency \in Nat
  /\ IsFiniteSet(TaskIds) /\ Cardinality(TaskIds) >= MaxConcurrency
  /\ MaxLoan \in 0..(U64 - 1)
  /\ MinProfit \in 0..(U64 - 1)
  /\ SellOutputs \subseteq 0..(U64 - 1)
  /\ MaxEvents \in Nat

LoanAmounts == <<MaxLoan, MaxLoan \div 2, MaxLoan \div 4>>

Events == [token : Tokens, slot : Slots]

(* An evaluation task: the event it was spawned for, the index in          *)
(* LoanAmounts it is at, and the quote it waits for.                       *)
Evaluations == [token : Tokens, slot : Slots, loan : 1..3, pc : {"buy", "sell"}]

ASSUME NoTaskAssumption == NoTask \notin Evaluations

Opportunities ==
  [token : Tokens, slot : Slots, loan : Nat, minOut : SellOutputs]

VARIABLES
  arbQ,          \* migration channel, oldest event first
  recentKeys,    \* recent_keys, newest at the end
  permits,       \* permits left in the semaphore
  evals,         \* TaskIds -> evaluation task, or NoTask
  oppQ,          \* opportunity channel, oldest first
  scannerPc,     \* "loop" or "done" (run() has returned)
  history,       \* every event ever pushed on recent_keys (for properties)
  cancelled,     \* environment: the token is cancelled
  senderGone,    \* environment: every Sender<ArbEvent> is dropped
  receiverGone,  \* environment: the Receiver<ArbOpportunity> is dropped
  delivered      \* environment: events sent so far

envVars == <<cancelled, senderGone, receiverGone, delivered>>
vars == <<arbQ, recentKeys, permits, evals, oppQ, scannerPc, history, envVars>>

Init ==
  /\ arbQ = << >>
  /\ recentKeys = << >>
  /\ permits = MaxConcurrency
  /\ evals = [t \in TaskIds |-> NoTask]
  /\ oppQ = << >>
  /\ scannerPc = "loop"
  /\ history = << >>
  /\ cancelled = FALSE
  /\ senderGone = FALSE
  /\ receiverGone = FALSE
  /\ delivered = 0

-----------------------------------------------------------------------------
(* The loop.                                                               *)

(* newest_slot > event.slot + max_event_age_slots, with newest_slot the    *)
(* slot of the last key pushed.                                            *)
IsStale(e) ==
  recentKeys # << >> /\ recentKeys[Len(recentKeys)].slot > AddU64(e.slot, MaxAge)

(* Mutant of IsDuplicate: the token is not compared.                       *)
IsDuplicate_AnyToken(e) ==
  \E i \in DOMAIN recentKeys : e.slot < recentKeys[i].slot + DedupSlots

(* Mutant of IsDuplicate: the window is one slot short.                    *)
IsDuplicate_ShortWindow(e) ==
  \E i \in DOMAIN recentKeys :
    recentKeys[i].token = e.token /\ e.slot + 1 < recentKeys[i].slot + DedupSlots

(* event.slot.saturating_sub(slot) < 5 for some recorded key of the token. *)
IsDuplicate(e) ==
  \E i \in DOMAIN recentKeys :
    recentKeys[i].token = e.token /\ e.slot < recentKeys[i].slot + DedupSlots

(* Mutant of Remember: pop_front is forgotten.                             *)
Remember_NoEviction(e) ==
  /\ recentKeys' = Append(recentKeys, e)
  /\ history' = Append(history, e)

(* Mutant of Remember: pop_back for pop_front.                             *)
Remember_EvictsNewest(e) ==
  /\ recentKeys' = Append(IF Len(recentKeys) >= RecentCap
                          THEN SubSeq(recentKeys, 1, RecentCap - 1) ELSE recentKeys, e)
  /\ history' = Append(history, e)

Remember(e) ==
  /\ recentKeys' = Append(IF Len(recentKeys) >= RecentCap
                          THEN Tail(recentKeys) ELSE recentKeys, e)
  /\ history' = Append(history, e)

(* recv() returned an event.  A select! takes either of two ready branches,*)
(* so the loop may still take events after the token is cancelled.         *)
Receive == scannerPc = "loop" /\ arbQ # << >> /\ arbQ' = Tail(arbQ)

SkipStale ==
  /\ Receive
  /\ IsStale(Head(arbQ))
  /\ UNCHANGED <<recentKeys, permits, evals, oppQ, scannerPc, history>>

SkipDuplicate ==
  /\ Receive
  /\ ~IsStale(Head(arbQ))
  /\ IsDuplicate(Head(arbQ))
  /\ UNCHANGED <<recentKeys, permits, evals, oppQ, scannerPc, history>>

(* The key is recorded before the permit is tried: an event dropped here   *)
(* still suppresses the duplicates that follow it.                         *)
DropAtCapacity ==
  /\ Receive
  /\ ~IsStale(Head(arbQ)) /\ ~IsDuplicate(Head(arbQ))
  /\ Remember(Head(arbQ))
  /\ permits = 0
  /\ UNCHANGED <<permits, evals, oppQ, scannerPc>>

SpawnEvaluation(t) ==
  /\ Receive
  /\ ~IsStale(Head(arbQ)) /\ ~IsDuplicate(Head(arbQ))
  /\ Remember(Head(arbQ))
  /\ permits > 0
  /\ evals[t] = NoTask
  /\ permits' = permits - 1
  /\ evals' = [evals EXCEPT ![t] = [token |-> Head(arbQ).token,
                                    slot  |-> Head(arbQ).slot,
                                    loan  |-> 1, pc |-> "buy"]]
  /\ UNCHANGED <<oppQ, scannerPc>>

(* run() returns and drops its Receiver with what is queued.               *)
ScannerCancel ==
  /\ scannerPc = "loop" /\ cancelled
  /\ scannerPc' = "done"
  /\ arbQ' = << >>
  /\ UNCHANGED <<recentKeys, permits, evals, oppQ, history>>

(* Mutant of ScannerSourceClosed: a closed channel does not end the loop.  *)
ScannerSourceClosed_IfCancelled ==
  /\ scannerPc = "loop" /\ arbQ = << >> /\ senderGone /\ cancelled
  /\ scannerPc' = "done"
  /\ UNCHANGED <<arbQ, recentKeys, permits, evals, oppQ, history>>

(* recv() returned None: the queue is empty and every sender is dropped.   *)
ScannerSourceClosed ==
  /\ scannerPc = "loop" /\ arbQ = << >> /\ senderGone
  /\ scannerPc' = "done"
  /\ UNCHANGED <<arbQ, recentKeys, permits, evals, oppQ, history>>

-----------------------------------------------------------------------------
(* The evaluation tasks.  They outlive the loop: nothing cancels them.     *)

Amount(t) == LoanAmounts[evals[t].loan]
At(t, pc) == evals[t] # NoTask /\ evals[t].pc = pc

(* Mutant of Finish: the permit is not moved into the task.                *)
Finish_KeepsPermit(t) ==
  /\ evals' = [evals EXCEPT ![t] = NoTask]
  /\ UNCHANGED permits

(* The task returns and drops its permit.                                  *)
Finish(t) ==
  /\ evals' = [evals EXCEPT ![t] = NoTask]
  /\ permits' = permits + 1

(* Mutant of NextLoan: after the last loan, the first again.               *)
NextLoan_StartsOver(t) ==
  /\ evals' = [evals EXCEPT ![t].loan = IF @ < 3 THEN @ + 1 ELSE 1]
  /\ UNCHANGED permits

(* `continue`: the next loan amount, or the end of the task.               *)
NextLoan(t) ==
  \/ /\ evals[t].loan < 3
     /\ evals' = [evals EXCEPT ![t].loan = @ + 1]
     /\ UNCHANGED permits
  \/ evals[t].loan = 3 /\ Finish(t)

SkipZeroLoan(t) ==
  /\ At(t, "buy") /\ Amount(t) = 0
  /\ NextLoan(t)
  /\ UNCHANGED <<arbQ, recentKeys, oppQ, scannerPc, history>>

BuyQuoteFails(t) ==
  /\ At(t, "buy") /\ Amount(t) # 0
  /\ Finish(t)
  /\ UNCHANGED <<arbQ, recentKeys, oppQ, scannerPc, history>>

(* other_amount_threshold does not parse, or is 0.                         *)
BuyQuoteUnusable(t) ==
  /\ At(t, "buy") /\ Amount(t) # 0
  /\ NextLoan(t)
  /\ UNCHANGED <<arbQ, recentKeys, oppQ, scannerPc, history>>

BuyQuoteArrives(t) ==
  /\ At(t, "buy") /\ Amount(t) # 0
  /\ evals' = [evals EXCEPT ![t].pc = "sell"]
  /\ UNCHANGED <<arbQ, recentKeys, permits, oppQ, scannerPc, history>>

(* The request fails, or its threshold does not parse.                     *)
SellQuoteFails(t) ==
  /\ At(t, "sell")
  /\ Finish(t)
  /\ UNCHANGED <<arbQ, recentKeys, oppQ, scannerPc, history>>

(* Mutant of Profitable: the profit is compared before the cost.           *)
Profitable_BeforeCost(t, minOut) == minOut - Amount(t) >= MinProfit

(* profit >= config.min_profit_lamports as i64.                            *)
Profitable(t, minOut) == EstimateProfit(Amount(t), minOut) >= AsI64(MinProfit)

(* No smaller loan is tried: the task breaks out of its loop.              *)
Unprofitable(t) ==
  /\ At(t, "sell")
  /\ \E minOut \in SellOutputs : ~Profitable(t, minOut)
  /\ Finish(t)
  /\ UNCHANGED <<arbQ, recentKeys, oppQ, scannerPc, history>>

Opportunity(t, minOut) ==
  [token |-> evals[t].token, slot |-> evals[t].slot,
   loan |-> Amount(t), minOut |-> minOut]

(* Mutant of OpportunitySent: no break after try_send.                     *)
OpportunitySent_KeepsTrying(t) ==
  /\ At(t, "sell")
  /\ ~receiverGone /\ Len(oppQ) < OpportunityCap
  /\ \E minOut \in SellOutputs :
       Profitable(t, minOut) /\ oppQ' = Append(oppQ, Opportunity(t, minOut))
  /\ evals[t].loan < 3
  /\ evals' = [evals EXCEPT ![t].loan = @ + 1, ![t].pc = "buy"]
  /\ UNCHANGED <<arbQ, recentKeys, permits, scannerPc, history>>

(* Mutant of OpportunitySent: the capacity is not respected.               *)
OpportunitySent_Unbounded(t) ==
  /\ At(t, "sell")
  /\ ~receiverGone
  /\ \E minOut \in SellOutputs :
       Profitable(t, minOut) /\ oppQ' = Append(oppQ, Opportunity(t, minOut))
  /\ Finish(t)
  /\ UNCHANGED <<arbQ, recentKeys, scannerPc, history>>

OpportunitySent(t) ==
  /\ At(t, "sell")
  /\ ~receiverGone /\ Len(oppQ) < OpportunityCap
  /\ \E minOut \in SellOutputs :
       Profitable(t, minOut) /\ oppQ' = Append(oppQ, Opportunity(t, minOut))
  /\ Finish(t)
  /\ UNCHANGED <<arbQ, recentKeys, scannerPc, history>>

(* try_send fails: the channel is full, or closed.                         *)
OpportunityDropped(t) ==
  /\ At(t, "sell")
  /\ receiverGone \/ Len(oppQ) >= OpportunityCap
  /\ \E minOut \in SellOutputs : Profitable(t, minOut)
  /\ Finish(t)
  /\ UNCHANGED <<arbQ, recentKeys, oppQ, scannerPc, history>>

-----------------------------------------------------------------------------
HandleEvent ==
  \/ SkipStale \/ SkipDuplicate \/ DropAtCapacity
  \/ \E t \in TaskIds : SpawnEvaluation(t)

Evaluate(t) ==
  \/ SkipZeroLoan(t)
  \/ BuyQuoteFails(t) \/ BuyQuoteUnusable(t) \/ BuyQuoteArrives(t)
  \/ SellQuoteFails(t) \/ Unprofitable(t)
  \/ OpportunitySent(t) \/ OpportunityDropped(t)

ScannerStep ==
  \/ HandleEvent \/ ScannerCancel \/ ScannerSourceClosed
  \/ \E t \in TaskIds : Evaluate(t)

(* The environment: a listener that sends what it likes, an executor that  *)
(* takes what is queued and may go away, and a token anyone may cancel.    *)
Deliver(e) ==
  /\ ~senderGone /\ scannerPc = "loop"
  /\ delivered < MaxEvents
  /\ Len(arbQ) < MigrationCap
  /\ arbQ' = Append(arbQ, e)
  /\ delivered' = delivered + 1
  /\ UNCHANGED <<recentKeys, permits, evals, oppQ, scannerPc, history,
                 cancelled, senderGone, receiverGone>>

TakeOpportunity ==
  /\ ~receiverGone /\ oppQ # << >>
  /\ oppQ' = Tail(oppQ)
  /\ UNCHANGED <<arbQ, recentKeys, permits, evals, scannerPc, history, envVars>>

DropReceiver ==
  /\ ~receiverGone
  /\ receiverGone' = TRUE
  /\ oppQ' = << >>
  /\ UNCHANGED <<arbQ, recentKeys, permits, evals, scannerPc, history,
                 cancelled, senderGone, delivered>>

DropSender ==
  /\ ~senderGone
  /\ senderGone' = TRUE
  /\ UNCHANGED <<arbQ, recentKeys, permits, evals, oppQ, scannerPc, history,
                 cancelled, receiverGone, delivered>>

Cancel ==
  /\ ~cancelled
  /\ cancelled' = TRUE
  /\ UNCHANGED <<arbQ, recentKeys, permits, evals, oppQ, scannerPc, history,
                 senderGone, receiverGone, delivered>>

Environment ==
  \/ \E e \in Events : Deliver(e)
  \/ TakeOpportunity \/ DropReceiver \/ DropSender \/ Cancel

(* The only way to stop: the loop has returned and no task is left.        *)
Terminated ==
  /\ scannerPc = "done"
  /\ \A t \in TaskIds : evals[t] = NoTask
  /\ UNCHANGED vars

Next ==
  \/ ScannerStep /\ UNCHANGED envVars
  \/ Environment
  \/ Terminated

Spec == Init /\ [][Next]_vars

(* Tokio keeps polling a task that is ready; every request ends, because   *)
(* the HTTP client has a timeout; and select! picks at random among ready  *)
(* branches, so a cancelled token is noticed.  The environment is not fair.*)
Fairness ==
  /\ WF_vars(HandleEvent /\ UNCHANGED envVars)
  /\ WF_vars(ScannerCancel /\ UNCHANGED envVars)
  /\ WF_vars(ScannerSourceClosed /\ UNCHANGED envVars)
  /\ \A t \in TaskIds : WF_vars(Evaluate(t) /\ UNCHANGED envVars)

FairSpec == Spec /\ Fairness

-----------------------------------------------------------------------------
(* Properties.                                                             *)

Live == {t \in TaskIds : evals[t] # NoTask}

(* Every variable holds a value of its kind, and no queue or buffer is     *)
(* longer than its capacity (src/scanner/mod.rs:13, 31-36, 78).            *)
TypeOK ==
  /\ arbQ \in Seq(Events) /\ Len(arbQ) <= MigrationCap
  /\ recentKeys \in Seq(Events) /\ Len(recentKeys) <= RecentCap
  /\ permits \in 0..MaxConcurrency
  /\ evals \in [TaskIds -> Evaluations \cup {NoTask}]
  /\ oppQ \in Seq(Opportunities) /\ Len(oppQ) <= OpportunityCap
  /\ scannerPc \in {"loop", "done"}
  /\ history \in Seq(Events)
  /\ cancelled \in BOOLEAN /\ senderGone \in BOOLEAN /\ receiverGone \in BOOLEAN
  /\ delivered \in 0..MaxEvents

(* Permits are neither leaked nor forged, whichever way a task ends: each  *)
(* is in the semaphore or held by one live task (src/scanner/mod.rs:29,    *)
(* 85-105).  A leak would silence the scanner, since at zero permits every *)
(* event is dropped.                                                       *)
PermitsConserved == permits + Cardinality(Live) = MaxConcurrency

(* recent_keys holds the last admissions and nothing else: all of them, or *)
(* the newest RecentCap (src/scanner/mod.rs:78-81).                        *)
RingIsSuffix ==
  /\ Len(recentKeys) = IF Len(history) <= RecentCap THEN Len(history) ELSE RecentCap
  /\ \A i \in 1..Len(recentKeys) :
       recentKeys[i] = history[Len(history) - Len(recentKeys) + i]

(* An admission is spent once: the live tasks and the queued opportunities *)
(* that carry an event never outnumber its admissions, so no path through  *)
(* an evaluation hands the executor the same round trip twice              *)
(* (src/scanner/mod.rs:98-103, 166-171).                                   *)
AdmissionsSpentOnce ==
  \A e \in Events :
    LET carries(r) == r.token = e.token /\ r.slot = e.slot
    IN  Cardinality({t \in Live : carries(evals[t])})
          + Cardinality({i \in DOMAIN oppQ : carries(oppQ[i])})
        <= Cardinality({i \in DOMAIN history : history[i] = e})

(* What the filter must never lose: an event of a token that is not in the *)
(* buffer, at a slot no older than any recorded one, is recorded, and gets *)
(* a task unless all MaxConcurrency tasks are in flight                    *)
(* (src/scanner/mod.rs:63-105).                                            *)
FirstSighting(e) ==
  \A i \in DOMAIN recentKeys :
    recentKeys[i].token # e.token /\ recentKeys[i].slot <= e.slot

Consumes(e) ==
  /\ scannerPc = "loop" /\ scannerPc' = "loop"
  /\ arbQ # << >> /\ e = Head(arbQ) /\ arbQ' = Tail(arbQ)

FirstSightingEvaluated ==
  [][\A e \in Events :
       Consumes(e) /\ FirstSighting(e)
         => /\ history' = Append(history, e)
            /\ \/ \E t \in TaskIds :
                    /\ evals[t] = NoTask
                    /\ evals'[t] = [token |-> e.token, slot |-> e.slot,
                                   loan |-> 1, pc |-> "buy"]
               \/ Cardinality(Live) = MaxConcurrency]_vars

(* The scanner admits what AdmissionFilter allows, and keeps its promises, *)
(* although it remembers RecentCap keys only (src/scanner/mod.rs:56-81).   *)
Filter == INSTANCE AdmissionFilter WITH admitted <- history

ImplementsFilter == Filter!Spec

(* Once the token is cancelled or the listener is gone, run() returns and  *)
(* every task it spawned ends, even with the migration channel full        *)
(* (src/scanner/mod.rs:47-54, 98-103).                                     *)
ShutdownCompletes ==
  (cancelled \/ senderGone) ~> (scannerPc = "done" /\ Live = {})

(* Every evaluation ends, whatever the quotes say: it holds a permit       *)
(* (src/scanner/mod.rs:126-184).                                           *)
EvaluationEnds ==
  \A t \in TaskIds : (evals[t] # NoTask) ~> (evals[t] = NoTask)

=============================================================================
