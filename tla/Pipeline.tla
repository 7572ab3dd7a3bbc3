------------------------------ MODULE Pipeline ------------------------------
(***************************************************************************)
(* The bot's pipeline (src/main.rs): the listener, the scanner with its    *)
(* evaluation tasks and the executor with its execution tasks, over the    *)
(* two channels and the one CancellationToken they share.                  *)
(*                                                                         *)
(* The actions are those of the components.  What each of them leaves to   *)
(* its environment is here what the others do: the migration channel's     *)
(* receiver is gone when the scanner has returned, its only sender when    *)
(* the listener has; the opportunity channel's receiver is gone when the   *)
(* executor has returned.  Its senders are the scanner's and the clone of  *)
(* it that every evaluation task holds.                                    *)
(***************************************************************************)
EXTENDS Integers, Sequences, FiniteSets, Money

CONSTANTS
  Keys, DexPrograms, Wsol, SystemProgram, Unreadable, Transactions, AccountUpdates,
  InitialBackoff, MaxBackoff, MaxUpdates,                              \* Listener
  Slots, MaxAge, RecentCap, DedupSlots, MigrationCap, OpportunityCap,
  ScannerMaxConcurrency, MobileMaxConcurrency, TaskIds, NoTask,
  MaxLoan, MinProfit, SellOutputs,                                     \* Scanner
  MobileMaxExec, ExecIds, SkipSimulation, RpcLag, Timeout, MaxSlot     \* Executor

VARIABLES
  listenerPc, backoff, sustained, network, stream, updates,            \* Listener
  arbQ,                                                    \* migration channel
  recentKeys, permits, evals, scannerPc, history,                      \* Scanner
  oppQ,                                                  \* opportunity channel
  execPermits, execs, executorPc, crashed, taken, accepted, reported,  \* Executor
  now,            \* the chain's slot
  cancelled,      \* the token is cancelled
  oppSenderGone,  \* every Sender<ArbOpportunity> is dropped
  emitted,        \* every event put on the migration channel (for properties)
  found           \* opportunities put on the opportunity channel (for bounds)

listenerOnly == <<listenerPc, backoff, sustained, stream, updates, emitted>>
scannerOnly == <<recentKeys, permits, evals, scannerPc, history, found>>
executorOnly ==
  <<execPermits, execs, executorPc, crashed, taken, accepted, reported>>
vars == <<listenerOnly, scannerOnly, executorOnly, arbQ, oppQ, network, now,
          cancelled, oppSenderGone>>

-----------------------------------------------------------------------------
L == INSTANCE Listener WITH receiverGone <- scannerPc = "done"

S == INSTANCE Scanner WITH
       Tokens       <- Keys,
       MaxEvents    <- MaxUpdates,
       senderGone   <- listenerPc = "done",
       receiverGone <- executorPc = "done",
       delivered    <- Len(emitted)

(* What the scanner can put on the opportunity channel.                    *)
FoundOpportunities ==
  [token : Keys, slot : Slots,
   loan : {MaxLoan, MaxLoan \div 2, MaxLoan \div 4}, minOut : SellOutputs]

E == INSTANCE Executor WITH
       Opportunities <- FoundOpportunities,
       MaxSent       <- MaxUpdates,
       sent          <- found

ASSUME PipelineAssumption ==
  /\ L!ListenerAssumption /\ L!UpdateAssumption
  /\ S!ScannerAssumption /\ S!NoTaskAssumption
  /\ E!ExecutorAssumption /\ E!NoTaskAssumption
  /\ \A u \in Transactions \cup AccountUpdates : u.slot \in Slots

(* Each component's Init says of the others that they have not returned.   *)
Init ==
  /\ listenerPc = "check" /\ scannerPc = "loop" /\ executorPc = "loop"
  /\ emitted = << >>
  /\ found = 0
  /\ L!Init /\ S!Init /\ E!Init

-----------------------------------------------------------------------------
(* The components.  Nothing runs once a panic has aborted the process.     *)

(* What a stream delivers has happened on the chain.                       *)
ListenerMoves(A) ==
  /\ ~crashed /\ A
  /\ emitted' = emitted \o SubSeq(arbQ', Len(arbQ) + 1, Len(arbQ'))
  /\ \A i \in DOMAIN emitted' : emitted'[i].slot <= now
  /\ UNCHANGED <<scannerOnly, executorOnly, oppQ, network, now, cancelled, oppSenderGone>>

ScannerMoves(A) ==
  /\ ~crashed /\ A
  /\ found' = found + (IF Len(oppQ') > Len(oppQ) THEN 1 ELSE 0)
  /\ UNCHANGED <<listenerOnly, executorOnly, network, now, cancelled, oppSenderGone>>

ExecutorMoves(A) ==
  /\ ~crashed /\ A
  /\ UNCHANGED <<listenerOnly, scannerOnly, arbQ, network, now, cancelled, oppSenderGone>>

(* run() has dropped the scanner's Sender, and the last task its clone.    *)
DropOppSender ==
  /\ ~crashed /\ ~oppSenderGone
  /\ scannerPc = "done" /\ \A t \in TaskIds : evals[t] = NoTask
  /\ oppSenderGone' = TRUE
  /\ UNCHANGED <<listenerOnly, scannerOnly, executorOnly, arbQ, oppQ, network, now,
                 cancelled>>

(* A signal, `q`, or the memory guard.                                     *)
Cancel ==
  /\ ~crashed /\ ~cancelled
  /\ cancelled' = TRUE
  /\ UNCHANGED <<listenerOnly, scannerOnly, executorOnly, arbQ, oppQ, network, now,
                 oppSenderGone>>

(* The network and the chain.                                              *)
Network ==
  /\ ~crashed
  /\ UNCHANGED <<scannerOnly, executorOnly, oppQ, now, oppSenderGone, emitted>>
  /\ L!NetworkDown \/ L!NetworkUp

Tick ==
  /\ ~crashed
  /\ UNCHANGED <<listenerOnly, scannerOnly, arbQ, network>>
  /\ E!Tick

Live == {t \in TaskIds : evals[t] # NoTask}
LiveExecs == {t \in ExecIds : execs[t] # NoTask}

Stopped ==
  /\ listenerPc = "done" /\ scannerPc = "done" /\ executorPc = "done"
  /\ Live = {} /\ LiveExecs = {}

(* The only ways to stop: every task has ended, or the process aborted.    *)
Terminated == (crashed \/ (Stopped /\ oppSenderGone)) /\ UNCHANGED vars

Next ==
  \/ ListenerMoves(L!ListenerStep)
  \/ ScannerMoves(S!ScannerStep)
  \/ ExecutorMoves(E!ExecutorStep)
  \/ DropOppSender \/ Cancel \/ Network \/ Tick
  \/ Terminated

Spec == Init /\ [][Next]_vars

(* The fairness of the components, for the reasons they give.  A healthy   *)
(* stream need not deliver or end, nor need the network recover.           *)
Fairness ==
  /\ WF_vars(ListenerMoves((L!StopIfCancelled \/ L!Connect) /\ UNCHANGED updates))
  /\ WF_vars(ListenerMoves(L!Connecting /\ UNCHANGED updates))
  /\ WF_vars(ListenerMoves(L!StreamCancelled /\ UNCHANGED updates))
  /\ WF_vars(ListenerMoves((L!BackoffOver \/ L!BackoffCancelled) /\ UNCHANGED updates))
  /\ WF_vars(ScannerMoves(S!HandleEvent))
  /\ WF_vars(ScannerMoves(S!ScannerCancel))
  /\ WF_vars(ScannerMoves(S!ScannerSourceClosed))
  /\ \A t \in TaskIds : WF_vars(ScannerMoves(S!Evaluate(t)))
  /\ WF_vars(DropOppSender)
  /\ WF_vars(ExecutorMoves(E!HandleOpportunity))
  /\ WF_vars(ExecutorMoves(E!ExecutorStops))
  /\ \A t \in ExecIds : WF_vars(ExecutorMoves(E!Execute(t)))

FairSpec == Spec /\ Fairness

-----------------------------------------------------------------------------
(* Properties.                                                             *)

(* Each component, run with the others, behaves as it does in the          *)
(* environment its own module gives it, so that what is checked there      *)
(* holds of the bot: the others keep to the channels' bounds, lose nothing *)
(* that is queued but by closing, and use the token only to cancel         *)
(* (src/main.rs:68-72, 123-160).                                           *)
ComponentsFit == L!Spec /\ S!Spec /\ E!Spec

(* From the update to Jito: at most one bundle for each event the listener *)
(* emitted, on one of the three loans, at a guaranteed profit of the       *)
(* configured minimum at least, half of which is kept.  Three components   *)
(* drop, remember and count; none of them sees both ends                   *)
(* (src/scanner/mod.rs:56-103, 126-184; src/executor/mod.rs:62-81,         *)
(* 131-139).                                                               *)
AsBundle(b) ==
  [token |-> b.opp.token, slot |-> b.opp.slot, loan |-> b.opp.loan,
   minOut |-> b.opp.minOut, tip |-> b.tip]

Promise ==
  INSTANCE Bot WITH
    Tokens    <- Keys,
    sightings <- emitted,
    bundles   <- [i \in DOMAIN accepted |-> AsBundle(accepted[i])]

KeepsPromise == Promise!Spec

(* A minimum profit of two minimum tips keeps the tip's clamp from         *)
(* aborting the bot: what the scanner let through is what the executor     *)
(* computes the tip from (src/scanner/mod.rs:157-171,                      *)
(* src/executor/mod.rs:131-139, src/config/mod.rs:175-184).                *)
NeverAborts == 2 * MinTip <= MinProfit /\ MinProfit < U64 \div 2 => ~crashed

(* While the recent keys hold every event admitted, the bundles of one     *)
(* token are DedupSlots apart: nothing after the filter submits one twice, *)
(* whichever order the tasks end in (src/scanner/mod.rs:56-81).            *)
BundlesSpaced ==
  Len(history) <= RecentCap =>
    \A i, j \in DOMAIN accepted :
      /\ i # j
      /\ accepted[i].opp.token = accepted[j].opp.token
      => \/ accepted[i].opp.slot >= accepted[j].opp.slot + DedupSlots
         \/ accepted[j].opp.slot >= accepted[i].opp.slot + DedupSlots

(* No component returns while the others go on: run() returns only because *)
(* the token is cancelled, there being no other way to lose a channel      *)
(* (src/listener/mod.rs:44-74, src/scanner/mod.rs:46-54,                   *)
(* src/executor/mod.rs:45-53).                                             *)
NobodyQuitsAlone ==
  listenerPc = "done" \/ scannerPc = "done" \/ executorPc = "done" => cancelled

(* Once the token is cancelled every component returns and every task they *)
(* spawned ends, with whatever is queued between them, and all Senders are *)
(* dropped; or the process has aborted (src/main.rs:215-226).              *)
PipelineStops == cancelled ~> (crashed \/ (Stopped /\ oppSenderGone))

=============================================================================
