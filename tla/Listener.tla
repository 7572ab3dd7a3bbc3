----------------------------- MODULE Listener ------------------------------
(***************************************************************************)
(* The listener (src/listener/mod.rs): it keeps a gRPC subscription alive, *)
(* reconnecting with a backoff, and turns what the stream delivers into    *)
(* events for the scanner.                                                 *)
(*                                                                         *)
(* The server is the environment: the network is up or down, and a stream  *)
(* that was open when it went down ends with an error or stalls, that is,  *)
(* stays open and never delivers again.                                    *)
(***************************************************************************)
EXTENDS Integers, Sequences, FiniteSets, Functions

CONSTANTS
  Keys,            \* accounts
  DexPrograms,     \* keys of detectable_dex_map()
  Wsol,            \* wsol_mint()
  SystemProgram,
  Unreadable,      \* a key that is missing or is not 32 bytes
  Transactions,    \* transaction updates: [slot, instructions], an
                   \* instruction being [program, accounts]
  AccountUpdates,  \* account updates: [slot, key, owner]
  MigrationCap,    \* MIGRATION_CHANNEL_CAPACITY: 128 in the code
  InitialBackoff,  \* 5 in the code
  MaxBackoff,      \* MAX_BACKOFF_SECS: 60 in the code
  MaxUpdates       \* bound on the updates the server sends

ASSUME ListenerAssumption ==
  /\ DexPrograms \subseteq Keys /\ {Wsol, SystemProgram} \subseteq Keys
  /\ Unreadable \notin Keys
  /\ MigrationCap \in Nat \ {0}
  /\ InitialBackoff \in Nat \ {0}
  /\ MaxBackoff \in Nat /\ InitialBackoff <= MaxBackoff
  /\ MaxUpdates \in Nat

Account == Keys \cup {Unreadable}
Instruction == [program : Account, accounts : Seq(Account)]
Transaction == [slot : Nat, instructions : Seq(Instruction)]
AccountUpdate == [slot : Nat, key : Account, owner : Account]

ASSUME UpdateAssumption ==
  Transactions \subseteq Transaction /\ AccountUpdates \subseteq AccountUpdate

VARIABLES
  listenerPc,    \* "check" (top of run's loop), "connecting", "streaming",
                 \* "backoff" or "done"
  backoff,       \* backoff_secs
  arbQ,          \* migration channel, oldest event first
  sustained,     \* this connection has delivered an update (for properties)
  cancelled,     \* environment: the token is cancelled
  receiverGone,  \* environment: the scanner dropped its Receiver
  network,       \* environment: "up" or "down"
  stream,        \* environment: "healthy" or "stalled", "none" if not open
  updates        \* environment: updates delivered so far

listenerVars == <<listenerPc, backoff, arbQ, sustained>>
vars == <<listenerVars, cancelled, receiverGone, network, stream, updates>>

Init ==
  /\ listenerPc = "check"
  /\ backoff = InitialBackoff
  /\ arbQ = << >>
  /\ sustained = FALSE
  /\ cancelled = FALSE
  /\ receiverGone = FALSE
  /\ network = "up"
  /\ stream = "none"
  /\ updates = 0

-----------------------------------------------------------------------------
(* What an update emits.                                                   *)

(* The accounts of a DEX instruction that count as a token: any but the    *)
(* program itself, WSOL and the system program.                            *)
Names(ix) ==
  {j \in DOMAIN ix.accounts :
     ix.accounts[j] \notin {Unreadable, ix.program, Wsol, SystemProgram}}

(* Mutant of Hits: only the first DEX instruction is scanned.              *)
Hits_FirstDexOnly(tx) ==
  {i \in DOMAIN tx.instructions :
     /\ tx.instructions[i].program \in DexPrograms
     /\ Names(tx.instructions[i]) # {}
     /\ \A j \in 1..(i - 1) : tx.instructions[j].program \notin DexPrograms}

(* Instructions are scanned in order, an instruction's accounts in order;  *)
(* the first hit is emitted and ends the scan.                             *)
Hits(tx) ==
  {i \in DOMAIN tx.instructions :
     /\ tx.instructions[i].program \in DexPrograms
     /\ Names(tx.instructions[i]) # {}}

Least(S) == CHOOSE i \in S : \A j \in S : i <= j

FromTransaction(tx) ==
  IF Hits(tx) = {} THEN << >>
  ELSE LET ix == tx.instructions[Least(Hits(tx))]
       IN  <<[token |-> ix.accounts[Least(Names(ix))], slot |-> tx.slot]>>

(* The account itself, whatever it is, if a DEX program owns it.           *)
FromAccountUpdate(u) ==
  IF u.key # Unreadable /\ u.owner \in DexPrograms
  THEN <<[token |-> u.key, slot |-> u.slot]>>
  ELSE << >>

(* try_send: the event is lost if the channel is full or closed.           *)
TrySend(events) ==
  arbQ' = IF receiverGone \/ Len(arbQ) >= MigrationCap THEN arbQ ELSE arbQ \o events

-----------------------------------------------------------------------------
(* run and run_inner.                                                      *)

StopIfCancelled ==
  /\ listenerPc = "check" /\ cancelled
  /\ listenerPc' = "done"
  /\ UNCHANGED <<backoff, arbQ, sustained, stream>>

Connect ==
  /\ listenerPc = "check" /\ ~cancelled
  /\ listenerPc' = "connecting"
  /\ sustained' = FALSE
  /\ UNCHANGED <<backoff, arbQ, stream>>

(* connect() and subscribe_with_request(): not in a select!, so a token    *)
(* cancelled meanwhile is noticed only when they are over.                 *)
Subscribed ==
  /\ listenerPc = "connecting" /\ network = "up"
  /\ listenerPc' = "streaming"
  /\ stream' = "healthy"
  /\ UNCHANGED <<backoff, arbQ, sustained>>

(* Mutant of Fails: an error ends run.                                     *)
Fails_NoRetry ==
  /\ listenerPc' = "done"
  /\ stream' = "none"
  /\ UNCHANGED <<backoff, arbQ, sustained>>

(* run_inner returns an error: run stops if the token is cancelled, else   *)
(* waits.                                                                  *)
Fails ==
  /\ listenerPc' = IF cancelled THEN "done" ELSE "backoff"
  /\ stream' = "none"
  /\ UNCHANGED <<backoff, arbQ, sustained>>

ConnectFails == listenerPc = "connecting" /\ network = "down" /\ Fails

(* Mutant of StreamEnds: no idle timeout.                                  *)
StreamEnds_NoIdleTimeout ==
  listenerPc = "streaming" /\ stream # "stalled" /\ Fails

(* The stream yields an error, ends, or gives nothing for                  *)
(* STREAM_IDLE_TIMEOUT_SECS, because it has stalled or has nothing to give.*)
StreamEnds == listenerPc = "streaming" /\ Fails

(* Mutant of StreamCancelled: the token is looked at after a timeout only. *)
StreamCancelled_WhenStalled ==
  /\ listenerPc = "streaming" /\ cancelled /\ stream = "stalled"
  /\ listenerPc' = "done"
  /\ stream' = "none"
  /\ UNCHANGED <<backoff, arbQ, sustained>>

StreamCancelled ==
  /\ listenerPc = "streaming" /\ cancelled
  /\ listenerPc' = "done"
  /\ stream' = "none"
  /\ UNCHANGED <<backoff, arbQ, sustained>>

Deliver(events) ==
  /\ listenerPc = "streaming" /\ stream = "healthy"
  /\ updates < MaxUpdates /\ updates' = updates + 1
  /\ TrySend(events)
  /\ sustained' = TRUE
  /\ UNCHANGED <<listenerPc, backoff, stream>>

(* The transaction part of the subscription: an empty account_include asks *)
(* for every transaction (but votes and failed ones).                      *)
TransactionFilter == [accountInclude |-> {}]

Mentions(tx) ==
  UNION {{tx.instructions[i].program} \cup Range(tx.instructions[i].accounts) :
           i \in DOMAIN tx.instructions}

Matches(tx) ==
  \/ TransactionFilter.accountInclude = {}
  \/ TransactionFilter.accountInclude \cap Mentions(tx) # {}

ProcessTransaction(tx) == Matches(tx) /\ Deliver(FromTransaction(tx))
ProcessAccountUpdate(u) == Deliver(FromAccountUpdate(u))

(* A ping, a slot, an update with its transaction missing.                 *)
IgnoreUpdate == Deliver(<< >>)

(* Mutant of BackoffOver: min(MAX_BACKOFF_SECS) is forgotten.              *)
BackoffOver_NoMaximum ==
  /\ listenerPc = "backoff"
  /\ backoff' = 2 * backoff
  /\ listenerPc' = "check"
  /\ UNCHANGED <<arbQ, sustained, stream>>

BackoffOver ==
  /\ listenerPc = "backoff"
  /\ backoff' = IF 2 * backoff <= MaxBackoff THEN 2 * backoff ELSE MaxBackoff
  /\ listenerPc' = "check"
  /\ UNCHANGED <<arbQ, sustained, stream>>

BackoffCancelled ==
  /\ listenerPc = "backoff" /\ cancelled
  /\ listenerPc' = "done"
  /\ UNCHANGED <<backoff, arbQ, sustained, stream>>

-----------------------------------------------------------------------------
Receive ==
  \/ \E tx \in Transactions : ProcessTransaction(tx)
  \/ \E u \in AccountUpdates : ProcessAccountUpdate(u)
  \/ IgnoreUpdate

Control ==
  \/ StopIfCancelled \/ Connect \/ Subscribed \/ ConnectFails
  \/ StreamEnds \/ StreamCancelled
  \/ BackoffOver \/ BackoffCancelled

ListenerStep == Receive \/ (Control /\ UNCHANGED updates)

(* The environment.                                                        *)
NetworkDown ==
  /\ network = "up"
  /\ network' = "down"
  /\ stream' = IF stream = "none" THEN "none" ELSE "stalled"
  /\ UNCHANGED <<listenerVars, cancelled, receiverGone, updates>>

NetworkUp ==
  /\ network = "down"
  /\ network' = "up"
  /\ UNCHANGED <<listenerVars, cancelled, receiverGone, stream, updates>>

TakeEvent ==
  /\ ~receiverGone /\ arbQ # << >>
  /\ arbQ' = Tail(arbQ)
  /\ UNCHANGED <<listenerPc, backoff, sustained, cancelled, receiverGone,
                 network, stream, updates>>

DropReceiver ==
  /\ ~receiverGone
  /\ receiverGone' = TRUE
  /\ arbQ' = << >>
  /\ UNCHANGED <<listenerPc, backoff, sustained, cancelled, network, stream, updates>>

Cancel ==
  /\ ~cancelled
  /\ cancelled' = TRUE
  /\ UNCHANGED <<listenerVars, receiverGone, network, stream, updates>>

Environment == NetworkDown \/ NetworkUp \/ TakeEvent \/ DropReceiver \/ Cancel

Own(A) == A /\ UNCHANGED <<cancelled, receiverGone, network>>

Next == Own(ListenerStep) \/ Environment

Spec == Init /\ [][Next]_vars

(* connect() has a timeout of 10 s, subscribe_with_request one of 30 s, a  *)
(* read one of 120 s, and a backoff ends; the network may come and go while*)
(* they run.  A stalled stream ends by the idle timeout at the latest; a   *)
(* healthy one need not end, nor deliver.  The environment is not fair.    *)
Connecting == Subscribed \/ ConnectFails

Fairness ==
  /\ WF_vars(Own((StopIfCancelled \/ Connect) /\ UNCHANGED updates))
  /\ WF_vars(Own(Connecting /\ UNCHANGED updates))
  /\ WF_vars(Own(StreamEnds /\ stream = "stalled" /\ UNCHANGED updates))
  /\ WF_vars(Own(StreamCancelled /\ UNCHANGED updates))
  /\ WF_vars(Own((BackoffOver \/ BackoffCancelled) /\ UNCHANGED updates))

FairSpec == Spec /\ Fairness

-----------------------------------------------------------------------------
(* Properties.                                                             *)

(* Every variable holds a value of its kind; a stream is open exactly      *)
(* while run_inner reads it.                                               *)
TypeOK ==
  /\ listenerPc \in {"check", "connecting", "streaming", "backoff", "done"}
  /\ backoff \in InitialBackoff..MaxBackoff
  /\ Len(arbQ) <= MigrationCap
  /\ \A i \in DOMAIN arbQ : arbQ[i].token \in Keys
  /\ stream = "none" <=> listenerPc # "streaming"

(* The accounts of DEX instructions that could be a token.                 *)
DexKeys(tx) ==
  {k \in Keys \ {Wsol, SystemProgram} :
     \E i \in DOMAIN tx.instructions :
       /\ tx.instructions[i].program \in DexPrograms \ {k}
       /\ \E j \in DOMAIN tx.instructions[i].accounts :
            tx.instructions[i].accounts[j] = k}

Emits(slot, keys) ==
  /\ Len(arbQ') = Len(arbQ) + 1
  /\ arbQ'[Len(arbQ')].slot = slot
  /\ arbQ'[Len(arbQ')].token \in keys

(* No DEX activity is overlooked: a transaction that has any DEX           *)
(* instruction with a usable account yields exactly one event, for one of  *)
(* those accounts and at the transaction's slot, and an account that a DEX *)
(* program owns yields one for itself, unless the channel is full or closed*)
(* (src/listener/mod.rs:207-238, 247-266).                                 *)
ReportsActivity ==
  ~receiverGone /\ Len(arbQ) < MigrationCap =>
    /\ \A tx \in Transactions :
         ProcessTransaction(tx) /\ DexKeys(tx) # {} => Emits(tx.slot, DexKeys(tx))
    /\ \A u \in AccountUpdates :
         ProcessAccountUpdate(u) /\ u.key \in Keys /\ u.owner \in DexPrograms
           => Emits(u.slot, {u.key})

DexActivityReported == [][ReportsActivity]_vars

(* Once the token is cancelled run() returns, also out of a connection     *)
(* attempt or a backoff (src/listener/mod.rs:47-49, 57-68, 161).           *)
CancelStops == cancelled ~> listenerPc = "done"

(* If the network comes back for good, so does a healthy subscription: a   *)
(* stream that stalled while it was down is not waited on for ever         *)
(* (src/listener/mod.rs:51-72, 155-170).                                   *)
Recovers ==
  <>[](network = "up") => []<>(stream = "healthy" \/ listenerPc = "done")

-----------------------------------------------------------------------------
(* What comments say, and the code does not keep.                          *)

(* "Do not reset here; backoff resets only after a sustained connection."  *)
(* (src/listener/mod.rs:70): the wait that follows a connection which has  *)
(* delivered is the initial one.  Nothing ever resets backoff_secs.        *)
BackoffResets ==
  listenerPc = "backoff" /\ sustained => backoff = InitialBackoff

=============================================================================
