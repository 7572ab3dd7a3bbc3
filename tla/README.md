# Verification of solana_arb_bot

TLA+ models of the bot in `src/`, TLC configurations that check them on small
instances, and TLAPS proofs of what matters most for every instance. Paths such
as `src/scanner/mod.rs:63` are relative to the repository.

## 1. The system

The bot watches Solana over gRPC, prices a WSOL → token → WSOL round trip for
every account it sees in DEX traffic, and submits the profitable ones to Jito
as one transaction inside a MarginFi flash loan. It is one process on a
two-worker Tokio runtime. Its tasks share a cancellation token and two bounded
channels:

```
 gRPC stream            128 ArbEvents             16 ArbOpportunities
 ----------> listener ----------------> scanner ----------------------> executor --> Jito
                                        | <= 4 evaluation tasks         | <= 2 execution tasks
                                        +--> Jupiter quotes             +--> RPC, Jupiter, RPC, Jito

 signal task, resource guard, TUI, main: fire or watch the token
```

Every send on a channel is `try_send`: what does not fit is dropped. Every
permit is taken with `try_acquire`: what has no permit is dropped. Nothing is
persisted, so there is no recovery after a crash to model.

| Component | State | Operations | Hard behaviour | What makes it correct |
|---|---|---|---|---|
| Listener `listener/mod.rs` | backoff, open stream | connect, subscribe, read, reconnect; turn a transaction or account update into at most one event | stalled streams, cancellation while connecting, full channel | one event for each transaction with DEX activity and each account of a DEX program; recovers when the network does; stops when cancelled |
| Scanner `scanner/mod.rs` | ring of 32 recent keys, 4 permits, evaluation tasks | age check, deduplication, permit, spawn; per task up to three loan amounts, two quotes each | events out of order, ring and permits at their limit, failures in the middle of an evaluation | duplicates are spaced; first sightings are evaluated; permits are conserved; one opportunity per admission; evaluations end |
| Executor `executor/mod.rs` | 2 permits, execution tasks | age check, instructions, profit check, tip, signing, simulation, submission | chain moves on, RPC lags, answer of Jito lost, tip panics | no bundle that costs more than it brings; no opportunity twice; the age of a submitted one is bounded; permits conserved |
| Transaction `executor/mod.rs:105-157`, `flash_loan/mod.rs` | instruction list | assemble, patch the index | list depends on what Jupiter returns | the patched index is that of `end_flashloan`; trade and tip are inside the loan |
| Arithmetic `jupiter/mod.rs:157-173`, `config/mod.rs:169-200` | none | profit, tip, cost | wrap-around, casts, `clamp` | exact where amounts fit; tip between the minimum and half of the profit |
| main, guard, signal, TUI task `main.rs`, `resource_guard.rs`, `safety/mod.rs`, `tui/mod.rs` | token, task handles, terminal mode | cancel, select, join, teardown | races of every way to stop; each terminal call of the TUI may fail | the bot stops when anyone has reason to; components are waited for; the terminal is given back unless a call on it fails |
| TUI state `tui_logger.rs`, `tui/app.rs`, `tui/mod.rs`, `tui/widgets/logs_viewer.rs` | channel of 64, capped tables and log, scroll offset, filter, pause | log event, receive, key, wheel, page | events lost in a burst; lines that move under a reader | counters and tables agree; a record comes before its line and nothing is shown twice; the page is full and stays in place |
| The bot as a whole `main.rs` | the two channels, the token | all of the above | every component's environment is the others | at most one worthwhile bundle for each event; no tip aborts it; nobody stops alone; all stop when cancelled |
| Configuration `config/mod.rs` | immutable | parse, convert SOL to lamports | floating point | not modelled: floating point |
| Jupiter and Jito clients | HTTP pools | requests | timeouts | an answer or a failure in the modules of their callers |
| Rendering `tui/ui.rs`, `tui/widgets/` | none | draw | - | not modelled but for the page of the log viewer: it changes no state |

`PROJECT.json` lists the hazards of this code at their lines, with the
properties that watch them.

## 2. Modules

| Module | Models | Remarks |
|---|---|---|
| `Money` | profit, tip, cost, the additions of the age checks | operators on a word of `U64` values |
| `AdmissionFilter` | **abstract**: which events may be admitted, given all that were | one variable, the history of admissions |
| `Scanner` | `scanner::run` and `evaluate_triangular_opportunity` | implements `AdmissionFilter` |
| `Executor` | `executor::run`, `execute_opportunity`, `send_bundle` | uses `Money` |
| `TxLayout` | the assembled instruction list | operators |
| `Assembly` | one execution from Jupiter's first answer to the list it signs | composes `Money` and `TxLayout`; the step `Tipped` of `Executor`, opened |
| `Listener` | `listener::run`, `run_inner`, `process_*` | with a network that goes down, comes back and stalls streams |
| `Bot` | **abstract**: what the bot promises its owner | sightings in, bundles out |
| `Pipeline` | listener, scanner and executor over the real channels and token | composes their instances; implements `Bot` and each of the three |
| `Lifecycle` | `main` and everything that fires or watches the token | components appear as running or not |
| `TuiFeed` | **abstract**: what the TUI shows of what is logged | logged in, shown out |
| `TuiApp` | the log layer, its channel, the `App` state, keys, and the log viewer's page | implements `TuiFeed` |
| `MC*` | instances for TLC | |
| `*Proofs` | proofs about the module of that name (`AssemblyProofs`: and about `Money`; `TuiProofs`: and about `TuiFeed`) | see 5 |

**State and actions.** Variables keep the names of the code where there is one
(`recent_keys` is `recentKeys`, `backoff_secs` is `backoff`). A channel is a
sequence; a semaphore is a number of permits; a task is an entry of a function
from names to records with a program counter, or `NoTask`. History variables
(`history`, `taken`, `accepted`, `reported`, `sustained`, `quit`, `failed`) are
written and never read by the modelled code; they exist for properties. The
field `since` of an execution is the slot of its last request; only the chain's
`Tick` reads it, which does not move on past a pending request's timeout.

**Atomicity.** An action is what one task does between two awaits. In the
scanner's and the executor's loops the only await is `recv`, and nothing else
touches the ring or *takes* permits, so an iteration is one action; permits
that other tasks return meanwhile can only turn a drop into a spawn, which is
the behaviour where they return first. In an evaluation or an execution each
request is a point where others run. A task's last action also returns its
permit, since nothing it does in between is visible to another task.

**Environment.** `Scanner`, `Executor` and `Listener` have an environment of
the loosest kind: it sends any events, goes away or cancels at any time. So what
is checked about a component does not depend on the others. Their actions leave
environment variables alone.

**Composition.** `Pipeline` takes the components' actions as they are and
gives them each other as environment. The variable of one's environment is a
state of another: the migration channel's receiver is gone when `scannerPc` is
`"done"`, its sender when `listenerPc` is; the opportunity channel's receiver
when `executorPc` is. Its *senders* are the scanner's and one clone in every
evaluation task, so `DropOppSender` waits for all of them. What is left as
environment is the chain, the network and whoever cancels. `ComponentsFit` says
that each component then behaves as in its own module, so what is checked or
proved there holds of the bot. `Lifecycle` does not use `Pipeline`: it needs of
a component only that it may end or panic, which `PipelineStops` and
`NobodyQuitsAlone` justify from the other side.

**Build.** Arithmetic and panics are those of the release profile:
`overflow-checks = false` and `panic = "abort"` (`Cargo.toml:73-75`).
`Lifecycle` has both kinds of build (the variable `panicAbort`, which `Init`
leaves open), because the code handles panicked tasks (`main.rs:158-175`), which
only exist in a build that unwinds. It runs with a TUI and without one alike.

**The terminal.** In `Lifecycle` every terminal call of `run_tui` is a step that
may fail: `EnableRaw`, `EnterScreen`, `InstallHook` set up, `DisableRaw` and
`LeaveScreen` tear down, and a failure takes the `?` out of `run_tui` with the
terminal as it then is. Between two steps any other task may panic; `Hook` is
what the panic hook then does, if it is installed.

## 3. Runs

| Run | Shows | Bounds, and why they are enough |
|---|---|---|
| `assembly` | `EstimateIsExact`, `TradePays`, `PatchedIndexIsEnd`, `TradeInsideLoan` | all 64 × 64 pairs of loan and output of a 6-bit word: both signs, both wrap-arounds, a tip below, between and above its limits; each with every pair of answers of up to 2 setup instructions, with cleanup or without |
| `filter` | `DedupSpacing`, `DriftBounded` | 3 tokens, 4 slots, a window of 2 over 2 keys, histories of 5: the window is outrun |
| `scanner` | safety and refinement | 2 tokens, slots {1, 2, 4} (duplicate, fresh, stale with an age limit of 1), ring of 2 with 4 events, 2 permits, both channels of capacity 1, loans 2, 1 and 0; symmetric in tokens and task names |
| `scanner_live` | `ShutdownCompletes`, `EvaluationEnds` | 1 token, 3 events, 2 permits; no symmetry |
| `executor` | safety and shutdown | 2 permits, 3 opportunities (no gain, too small a gain, a good one), slots to 5, a node 1 slot behind, an age limit of 1; the chain may move on by one slot while the buy instructions and while Jito's answer is awaited, so that a bundle can reach the bound of `SubmittedInTime`, and there is a slot left to pass it |
| `executor_tip` | violation of `TinyProfitsTipped` | one opportunity |
| `listener` | `DexActivityReported`, `CancelStops`, `Recovers` | 4 kinds of transaction and 3 of account update, channel of 2, the backoff of the code (5 s to 60 s), 4 updates |
| `listener_backoff` | violation of `BackoffResets` | the same instance |
| `pipeline` | `ComponentsFit`, `KeepsPromise`, `NeverAborts`, `BundlesSpaced`, `NobodyQuitsAlone`, `PipelineStops` | one token, two updates at slots 0 and 2, a duplicate window of 2, so that the second event is a duplicate, fresh, or makes the first stale, depending on the order; 2 evaluations, 1 execution and channels of 1: every queue overflows; requests time out after 2 slots, all the slots there are; the two outputs give a profit of exactly two minimum tips and one just below |
| `tui` | `TypeOK`, `RecordsAgree`, `LineAfterRecord`, `PageFilled`, `PlaceKept`, `ImplementsFeed` | 2 tasks that log, 4 log events, 2 inputs, a channel of 2, tables of 1, a chart of 2, a log of 3 lines, pages of 0 to 2 lines: every buffer evicts and the channel drops |
| `lifecycle` | `TypeOK`, `TerminalGivenBack`, `JoinsEveryComponent`, `BotStops` | no bound: the state is finite; both builds, with a TUI and without, and every terminal call may fail |
| `lifecycle_join` | violation of `CleanShutdown` | the same instance |

Every property of a passing run has a mutant, a definition `X_What` before the
`X` it would replace: a plausible bug that TLC finds by that property.

### Findings

1. **A small profit aborts the bot** (`TinyProfitsTipped`). `tip.clamp(1_000,
   profit_lamports / 2)` at `config/mod.rs:184` panics when the profit is below
   2 000 lamports; the release profile aborts. `config/mod.rs:182` promises a
   tip "even on tiny profits". `MIN_PROFIT_SOL` is the only protection.
2. **main panics on its way out** (`CleanShutdown`). The `select!` of `main.rs`
   takes the output of the handle that ended; the `join!` at `main.rs:234`
   polls it again. A component that ends before main is polled after a Ctrl+C
   is enough.
3. **The backoff never resets** (`BackoffResets`), against `listener/mod.rs:70`.

Other places where the code and its comments differ, seen while modelling and
visible in the models, for which there is no run:

- `scanner/mod.rs:118` falls back to smaller loans "only if max is
  unprofitable"; an unprofitable price ends the evaluation (`:181`), and only an
  unusable buy quote leads to a smaller loan (`NextLoan`).
- `scanner/mod.rs:38` drops events older than the limit; the check is against
  the last admission, so ages add up. `DriftBounded` says by how much.
- `.env.example:40` discards opportunities over the age limit; the executor
  looks once, before four or five more requests (`SubmittedInTime` is what holds:
  the limit, the node's lag and the timeouts of those requests add up), and the
  sum wraps for a limit near the top of `u64`.
- `flash_loan/mod.rs:74` wants `end_flashloan` last; cleanup instructions follow
  it (`executor/mod.rs:146`). `EndIsFound` is what the patched index needs.
- `config/mod.rs:110` says the resource guard throttles the scanner; it stops
  the bot (`GuardTick`), as `.env.example:52` says.
- `listener/mod.rs:92` subscribes to transactions "only for known DEX programs";
  `account_include` is empty, so every transaction passes (`TransactionFilter`).
- `tui/mod.rs:237` and the help panel call `g` "Jump to top"; it sets
  `log_scroll` to 0, which is the bottom (`HomeKey`).
- `logs_viewer.rs:16` scrolls to the bottom "unless the user has scrolled up":
  from the bottom, `k` does nothing, `j` jumps to the second line, and an eviction
  at the second line snaps back to the bottom. `PlaceKept` is what holds. With a
  filter, an eviction of a line that does not match shifts the page.
- `opp_scroll` is changed by keys and read by nobody; the filters "ERROR" and
  "WARN" match texts and targets, not levels; nothing sends
  `TuiEvent::CriticalError`; and the TUI channel is never closed, since a Sender
  lives in the log layer (`tui/mod.rs:150`).
- `main.rs:160-175` reports a component that "exited unexpectedly" while the
  others run; without a panic there is no such state (`NobodyQuitsAlone`).
- `tui/mod.rs:96` wants the teardown always to run. Its calls end in `?` (`:85-91`):
  if leaving raw mode fails, the alternate screen is not left either, and a set-up
  that fails after `:62` undoes nothing. main does not join the TUI task either, so
  on SIGTERM it may return while the TUI is in its loop. `TerminalGivenBack` is
  what holds.

## 4. Fairness

Safety is checked and proved without fairness. Liveness assumes:

- *weak fairness of each task's steps*: Tokio polls a task that is ready, and
  every await ends, because each HTTP client has a timeout (5 s for Jito), as
  have connecting (10 s), subscribing (30 s) and reading (120 s);
- *weak fairness of the cancelled branch* of each `select!`: branches are polled
  in random order, so a branch that stays ready is taken;
- in `Listener`, *weak fairness of the idle timeout for a stalled stream* only: a
  healthy stream need not end or deliver;
- in `Lifecycle`, main goes on when it can, and a component that can finish does:
  that is what `ShutdownCompletes` and `CancelStops` check in the components'
  modules. Nothing is assumed of the TUI, the guard or the signal task: main does
  not wait for them;
- in `Pipeline`, the fairness of the three components, and *weak fairness of
  `DropOppSender`*: a task that has ended drops what it holds.

The environment is never fair: nobody needs to send, cancel or repair anything.
One assumption about time is a guard: a request is over when its `Timeout` has
passed, so the chain does not move on past it (`Tick` of `Executor`). Only
`SubmittedInTime` depends on it; `Timeout` is any function to numbers of slots.

## 5. Proofs

All proofs hold for every value of the constants that satisfies the named
`ASSUME`s: any number of tokens, slots and tasks, any capacities, any word.

- `AdmissionFilterProofs`: `Spacing` (`[]DedupSpacing`). It is inductive with the
  type invariant: only the new last element can break it, and `Spaced` speaks of
  every earlier admission that is near enough. `Drift` (`[]DriftBounded`) adds up
  `NotStale` along the history, and assumes that the sum of slot and age does
  not wrap.
- `ScannerProofs`: the inductive invariant is `Inv`, the conjunction of
  `TypeOK`, `PermitsConserved` and `RingIsSuffix`. Types need it: a permit is
  returned only by a live task, so `permits` stays below the maximum because of
  conservation; and a queue is as long as the actions let it be. From it follow
  `TypeCorrect`, `PermitConservation` and `RingCorrect`.
  `Refinement` (`Spec => ImplementsFilter`): the only steps that change
  `history` push an event, and then the ring's test is the abstract one, because
  the ring is the suffix of the history that `AdmissionFilter` calls `Recent`
  (`RingReadsHistory`). `ScannerSpacing` and `ScannerDrift` carry `Spacing` and
  `Drift` over to the scanner (`SameFilter` bridges two instances of one module).
  `SpentOnce` counts, for each event, tasks and queued opportunities against
  admissions: a task that ends without sending lowers one side, one that sends
  moves its unit from the tasks to the queue. `FirstSightings` assumes that the
  sum of slot and age does not wrap: where it does, a first sighting is dropped
  as stale.
- `ExecutorProofs`: `Inv` adds `TasksPriced` to types, permits and
  `BundlesWorthIt`. The profit is checked and the tip computed three awaits
  before the bundle is sent, so `BundlesWorthIt` is not inductive alone: a task
  past its pricing must be known to carry a positive profit and a tip within
  `TipClamped`, at every await until Jito's answer. From it follow `TypeCorrect`,
  `PermitConservation` and `BundlesPayOff`. `SpentOnceHolds` counts as `SpentOnce`
  does. `InTime` (`Spec => SubmittedInTime`) needs `TasksInTime`: a task at its n-th
  request has made it no later than the age limit, the lag and the timeouts of the
  requests before it (`Waited`) allow, and the request has not timed out. The slot
  check starts this (`FreshInTime`, where the sum wraps as well: wrapping only
  lowers the limit), and each answer adds one timeout (`NextInTime`).
- `AssemblyProofs`: of the arithmetic, `EstimateExact` (no wrap-around turns a loss
  into a profit while amounts fit an `i64` with the cost to spare), `TipBounds` (a
  tip that is paid leaves half of the profit, whatever the fraction) and
  `PanicRange` (exactly the profits below twice the minimum have no tip). Of
  assembled transactions, `EstimatesExact`, `TransactionsPay` (of the lamports in
  the tip instruction itself, where amounts fit), `IndexCorrect` and
  `LoanCorrect`, for any number of setup instructions. The list is a
  concatenation; the lemmas say where each part of it starts (`SwapShape` and what
  is built on it), and the theorems read positions off.
- `ListenerProofs`: `Inv` is `TypeOK` and the kind of the queue's elements.
  `NothingOverlooked` (`Spec => DexActivityReported`) is about transactions and
  account updates, and needs of it only that the queue is a sequence; the work is in
  the scan of a transaction, where the first instruction that yields a key is
  chosen among any number of them (`UsableIsHit`, `HitIsUsable`).
  `BackoffOnlyGrows` (`[][backoff' >= backoff]_vars`) is the other side of the
  finding on `BackoffResets`: no step makes the backoff shorter, so the run's
  counterexample is not a matter of its instance.
- `LifecycleProofs`: `Inv` is `TypeOK`, `TerminalGivenBack` and `HookSet`. A panic
  gives the terminal back only if the hook is set, and a call that fails may leave
  it taken, so the invariant must know for each place of the TUI task what the
  terminal may be and whether there is a hook (`HookSet`). `HookInv` shows once what
  a panic of any task does, whether or not the process survives it. From it follow `TypeCorrect` and
  `TerminalRestored`. `EndsInOrder` says in what order things end: while nobody
  cancels and nothing panics every component runs and main waits; main returns
  after every component. A component returns uncancelled only when one
  upstream of it has ended, so the first to end has panicked.
- `PipelineProofs`: `Inv` is what one component may rely on in another.
  `EventsCounted` is the heart: every event emitted is queued, evaluated, found or
  gone, and counted once, which is why the bounds of one component's environment
  are kept by the others. `SlotsPast` says that nothing in flight is younger than
  the chain, `SendersCounted` that the executor's channel closes last.
  `Composition` (`Spec => ComponentsFit`) shows for each component that every
  step of the bot is one of its steps or a stutter. With it, theorems about a
  component hold of the bot: `BotBundlesPayOff`, `BotSpendsOnce` and
  `BotAdmissionsSpentOnce`, `BotSubmitsInTime`, `BotFirstSightings` and
  `BotOverlooksNothing` do this (`SameExecutor`, `SameScanner` and `SameListener`
  only bridge two instances of one module). `QuitTogether` is part
  of `Inv`. `BotNeverAborts` follows an opportunity from the evaluation that found
  it worth `MinProfit`, through the channel, to the task that computes its tip
  (`AllWorth`), so that the clamp cannot panic if `MinProfit` is two minimum tips
  or more. `SpentOnceAcross` counts for each token and slot what is queued,
  evaluated, found, in execution and submitted: never more than was admitted, and
  that never more than was emitted. A bundle Jito took while its task waits for the
  reply counts as the bundle, not as the execution. This is the bound `Bot` puts on
  its `Submit`, so with `AllWorth` and `BotBundlesPayOff` every step of the bot is
  one of `Bot`'s or a stutter (`BotKeepsPromise`). From the same count and the
  scanner's `ScannerSpacing`, two bundles of a token come from two admissions, which
  are `DedupSlots` apart (`BotSpacesBundles`).
- `TuiProofs`: `TypeCorrect` first, by itself inductive. What counters and buffers
  show is stated with `Select`, a recursive function, and the lemmas about it
  (`ChosenValues`, `ChosenPrefix`, `SelectAppend`, `SelectTyped`, `SelectAll`) go by
  induction over the length of the sequence. Since the library's induction
  theorems take an operator, which the provers cannot instantiate, the induction
  is by least counterexample: `WFMin` gives the set of lengths where the claim
  fails a smallest element (`Induction`). `RecordsTrue` then shows that pushing
  with eviction and taking the newest part of the history are the same
  (`LastOfAppend`). `LinesFollow` needs `Sequenced`: order in the channel alone is
  not inductive, since a line that a task is about to send must be known not to
  be in the channel or on the screen, and no two tasks send the line of one log
  event. `PageAlwaysFilled` follows from the types, for every scroll position;
  `PlaceIsKept` is an action property and compares the page before and after an
  eviction. `Refinement` (`Spec => ImplementsFeed`) needs `Single` as well: in the
  channel a log event has at most its structured event and then its line. A first
  send is `Log`, whatever of it is lost; a second one, a key and the end of the
  loop are `Lose` or a stutter; taking from the channel is `Show`, or `Lose` while
  paused. `FeedOrdered` proves of `TuiFeed` that nothing is shown twice or out of
  order, and `ShownOnce` carries that over.

Assumptions: the named `ASSUME`s of the modules, which TLC evaluates in the
runs, and where a theorem says so, that the sum of the age check does not wrap.
`BotKeepsPromise` is stated for amounts that fit an i64 with the cost to spare
(`AmountsFit`): beyond them an estimate wraps and may pass for a profit.

`BotNeverAborts` assumes a minimum profit of two minimum tips.

Every safety property that a passing run checks is stated by a theorem, under
the assumptions above. Only model-checked is what holds under fairness, which
is out of the prover's reach:
`ShutdownCompletes`, `EvaluationEnds`, `CancelStops`, `Recovers`, `BotStops`,
`JoinsEveryComponent` and `PipelineStops`. The three violations are TLC's.

## 6. What is not modelled

- *Configuration*: parsing, the checks on SOL amounts and their conversion to
  lamports are floating point. Their results are constants of the modules.
- *HTTP, JSON, base64, PDA derivation, signatures, lookup tables*: a request or
  a construction succeeds or fails. Which tip account is drawn is not modelled.
- *Flash loan accounts*: metas and discriminators are data that nothing in the
  code branches on; position and index are in `TxLayout`.
- *Rendering*, but for the log viewer's page, and log texts, but for which
  filter matches them and which record they become.
- *Mouse capture and the cursor*: they are switched with the alternate screen, in
  the same calls or right after it.
- *A crash and restart*: nothing is persisted, so a restart is `Init`.
- What the chain does with a bundle is not part of the code.

## 7. Plan

Done, in this order: `Money`, `AdmissionFilter`, `Scanner` and `Executor` with
their proofs; `TxLayout`, `Listener`, `Lifecycle`; `TuiApp`, `Assembly`, `Bot`
and `Pipeline`; proofs about `Assembly`, `Listener`, `Lifecycle` and
`Pipeline`, the counting invariants of scanner and executor, and the refinement
of `Bot`; proofs about `TuiApp`, `TuiFeed` and its refinement, the order in which
`Lifecycle` ends, and more of the components' theorems for the composed bot.

Left: an abstract specification of a worker pool (permits and tasks) that both
scanner and executor implement.
