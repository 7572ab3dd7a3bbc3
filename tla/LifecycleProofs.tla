-------------------------- MODULE LifecycleProofs ---------------------------
(***************************************************************************)
(* Proofs about Lifecycle: its types, the terminal that is given back      *)
(* however the TUI is left, and the order in which everything ends.        *)
(***************************************************************************)
EXTENDS Lifecycle, TLAPS

(* What each place of the TUI task knows of the terminal and of the hook.  *)
HookSet ==
  /\ tuiPc \in {"off", "setup"} => ~raw
  /\ tuiPc \in {"off", "setup", "screen"} => ~screen
  /\ tuiPc \in {"off", "setup", "screen", "hook"} => ~hooked
  /\ tuiPc \in {"running", "teardown", "leaving"} => hooked
  /\ tuiPc = "leaving" => ~raw
  /\ quit => tuiPc \in {"teardown", "leaving", "ended"}

Inv == TypeOK /\ HookSet /\ TerminalGivenBack

LEMMA InitInv == ASSUME Init PROVE Inv
  BY LifecycleAssumption
     DEF Init, Inv, TypeOK, TuiPcs, HookSet, TerminalGivenBack, Components

(* What a panic does to the terminal, whether or not the process survives. *)
LEMMA HookInv ==
  ASSUME Inv, ~Aborted, Hook,
         UNCHANGED <<panicAbort, hooked, quit>>,
         mainPc' \in {mainPc, "panicked"},
         \/ tuiPc' = tuiPc
         \/ tuiPc = "running" /\ tuiPc' = "ended"
  PROVE  /\ raw' \in BOOLEAN /\ screen' \in BOOLEAN /\ failed' \in BOOLEAN
         /\ HookSet' /\ TerminalGivenBack'
  <1>1. CASE hooked
    BY <1>1 DEF Hook, Aborted, Inv, TypeOK, TuiPcs, Polled, HookSet, TerminalGivenBack
  <1>2. CASE ~hooked
    BY <1>2 DEF Hook, terminal, Aborted, Inv, TypeOK, TuiPcs, Polled, HookSet, TerminalGivenBack
  <1> QED
    BY <1>1, <1>2 DEF Inv, TypeOK

LEMMA MainInv == ASSUME Inv, ~Aborted, Main PROVE Inv'
  <1>1. CASE SelectCancelled
    BY <1>1 DEF Inv, TypeOK, TuiPcs, Polled, HookSet, TerminalGivenBack,
                Aborted, SelectCancelled, others, tui, terminal
  <1>2. CASE SelectTui
    BY <1>2 DEF Inv, TypeOK, TuiPcs, Polled, HookSet, TerminalGivenBack,
                Aborted, SelectTui, others, tui, terminal
  <1>3. CASE JoinPanics
    BY <1>3, HookInv DEF Inv, TypeOK, JoinPanics, others
  <1>4. CASE JoinDone
    BY <1>4 DEF Inv, TypeOK, TuiPcs, Polled, HookSet, TerminalGivenBack,
                Aborted, JoinDone, others, tui, terminal
  <1>5. ASSUME NEW c \in Components, SelectHandle(c) PROVE Inv'
    BY <1>5 DEF Inv, TypeOK, TuiPcs, Polled, HookSet, TerminalGivenBack,
                Aborted, SelectHandle, others, tui, terminal
  <1> QED
    BY <1>1, <1>2, <1>3, <1>4, <1>5 DEF Main

LEMMA TuiInv == ASSUME Inv, ~Aborted, Tui PROVE Inv'
  <1>1. CASE EnableRaw
    BY <1>1 DEF Inv, TypeOK, TuiPcs, Polled, HookSet, TerminalGivenBack,
                Aborted, EnableRaw, main, others, terminal
  <1>2. CASE EnterScreen
    BY <1>2 DEF Inv, TypeOK, TuiPcs, Polled, HookSet, TerminalGivenBack,
                Aborted, EnterScreen, main, others, terminal
  <1>3. CASE InstallHook
    BY <1>3 DEF Inv, TypeOK, TuiPcs, Polled, HookSet, TerminalGivenBack,
                Aborted, InstallHook, main, others, terminal
  <1>4. CASE TuiSeesCancel
    BY <1>4 DEF Inv, TypeOK, TuiPcs, Polled, HookSet, TerminalGivenBack,
                Aborted, TuiSeesCancel, main, others, terminal
  <1>5. CASE TuiQuit
    BY <1>5 DEF Inv, TypeOK, TuiPcs, Polled, HookSet, TerminalGivenBack,
                Aborted, TuiQuit, main, others, terminal
  <1>6. CASE TuiBreaks
    BY <1>6 DEF Inv, TypeOK, TuiPcs, Polled, HookSet, TerminalGivenBack,
                Aborted, TuiBreaks, main, others, terminal
  <1>7. CASE DisableRaw
    BY <1>7 DEF Inv, TypeOK, TuiPcs, Polled, HookSet, TerminalGivenBack,
                Aborted, DisableRaw, main, others, terminal
  <1>8. CASE LeaveScreen
    BY <1>8 DEF Inv, TypeOK, TuiPcs, Polled, HookSet, TerminalGivenBack,
                Aborted, LeaveScreen, main, others, terminal
  <1>9. CASE TuiPanics
    BY <1>9, HookInv DEF Inv, TypeOK, TuiPcs, TuiPanics, Dies, others
  <1> QED
    BY <1>1, <1>2, <1>3, <1>4, <1>5, <1>6, <1>7, <1>8, <1>9 DEF Tui

LEMMA OthersInv ==
  ASSUME Inv, ~Aborted,
         \/ GuardTick \/ GuardStops \/ Signal
         \/ \E c \in Components : (Finishes(c) \/ Panics(c))
  PROVE  Inv'
  <1>1. CASE GuardTick
    BY <1>1 DEF Inv, TypeOK, TuiPcs, Polled, HookSet, TerminalGivenBack,
                Aborted, GuardTick, main, tui, terminal
  <1>2. CASE GuardStops
    BY <1>2 DEF Inv, TypeOK, TuiPcs, Polled, HookSet, TerminalGivenBack,
                Aborted, GuardStops, main, tui, terminal
  <1>3. CASE Signal
    BY <1>3 DEF Inv, TypeOK, TuiPcs, Polled, HookSet, TerminalGivenBack,
                Aborted, Signal, main, tui, terminal
  <1>4. ASSUME NEW c \in Components, Finishes(c) PROVE Inv'
    BY <1>4 DEF Inv, TypeOK, TuiPcs, Polled, HookSet, TerminalGivenBack,
                Aborted, Finishes, main, tui, terminal
  <1>5. ASSUME NEW c \in Components, Panics(c) PROVE Inv'
    BY <1>5, HookInv DEF Inv, TypeOK, Panics, Dies
  <1> QED
    BY <1>1, <1>2, <1>3, <1>4, <1>5

THEOREM Inductive == Spec => []Inv
  <1>1. Inv /\ [Next]_vars => Inv'
    <2> SUFFICES ASSUME Inv, [Next]_vars PROVE Inv'
      OBVIOUS
    <2>1. CASE UNCHANGED vars
      BY <2>1 DEF Inv, TypeOK, TuiPcs, Polled, HookSet, TerminalGivenBack, Aborted,
                  vars, main, others, tui, terminal
    <2>2. CASE Next
      BY <2>1, <2>2, MainInv, TuiInv, OthersInv DEF Next
    <2> QED
      BY <2>1, <2>2
  <1> QED
    BY InitInv, <1>1, PTL DEF Spec

(* Every variable keeps its kind, and once the user, a signal or the       *)
(* memory guard has asked the bot to stop, the token is cancelled          *)
(* (src/main.rs:117, src/resource_guard.rs:86, src/tui/mod.rs:134).        *)
THEOREM TypeCorrect == Spec => []TypeOK
  <1>1. Inv => TypeOK
    BY DEF Inv
  <1> QED
    BY Inductive, <1>1, PTL

(* In either kind of build, whatever panics, whichever `?` of the setup or *)
(* the teardown ends the TUI, a terminal that is not given back belongs to *)
(* a TUI still in its loop or on its way out, or a call that should give it*)
(* back has failed (src/tui/mod.rs:62-91, 132-136).                        *)
THEOREM TerminalRestored == Spec => []TerminalGivenBack
  <1>1. Inv => TerminalGivenBack
    BY DEF Inv
  <1> QED
    BY Inductive, <1>1, PTL

-----------------------------------------------------------------------------
(* Who ends before whom.                                                   *)

(* Until the token is cancelled or something panics, every component runs  *)
(* and main waits.                                                         *)
RunsUntilTold ==
  \/ cancelled \/ mainPc = "panicked"
  \/ \E c \in Components : component[c] = "panicked"
  \/ mainPc = "select" /\ \A c \in Components : component[c] = "running"

(* main returns after every component, with the token cancelled and every  *)
(* handle joined.  It panics only for a handle the select! has used up, or *)
(* because a panic ends the process.                                       *)
MainLast ==
  /\ mainPc \in {"join", "stopped"} => cancelled
  /\ mainPc = "stopped" =>
       consumed = {} /\ \A c \in Components : component[c] # "running"
  /\ mainPc = "panicked" => consumed # {} \/ panicAbort
  /\ \A c \in consumed : component[c] # "running"

Order == RunsUntilTold /\ MainLast

LEMMA MainOrder == ASSUME Inv, Order, ~Aborted, Main PROVE Order'
  <1>1. CASE SelectCancelled
    BY <1>1 DEF Inv, TypeOK, Order, RunsUntilTold, MainLast, Aborted, SelectCancelled, others, tui
  <1>2. CASE SelectTui
    BY <1>2 DEF Inv, TypeOK, Order, RunsUntilTold, MainLast, Aborted, SelectTui, others, tui
  <1>3. CASE JoinPanics
    BY <1>3 DEF Inv, TypeOK, Order, RunsUntilTold, MainLast, Aborted, JoinPanics, others
  <1>4. CASE JoinDone
    BY <1>4 DEF Inv, TypeOK, Order, RunsUntilTold, MainLast, Aborted, JoinDone, others, tui
  <1>5. ASSUME NEW c \in Components, SelectHandle(c) PROVE Order'
    BY <1>5 DEF Inv, TypeOK, Order, RunsUntilTold, MainLast, Aborted, SelectHandle, others, tui
  <1> QED
    BY <1>1, <1>2, <1>3, <1>4, <1>5 DEF Main

(* A panic of the TUI ends the process, or only the TUI.                   *)
LEMMA TuiOrder == ASSUME Inv, Order, ~Aborted, Tui PROVE Order'
  <1> USE DEF Tui, EnableRaw, EnterScreen, InstallHook, TuiSeesCancel, TuiQuit, TuiBreaks,
              TuiPanics, DisableRaw, LeaveScreen, main, others, Dies
  <1>1. /\ UNCHANGED <<component, consumed, panicAbort>>
        /\ cancelled' = cancelled \/ cancelled'
    OBVIOUS
  <1>2. mainPc' = mainPc \/ (mainPc' = "panicked" /\ panicAbort)
    OBVIOUS
  <1> QED
    BY <1>1, <1>2 DEF Order, RunsUntilTold, MainLast, Aborted

(* A component returns uncancelled only when one upstream of it has ended, *)
(* and the first to end so has panicked.                                   *)
LEMMA OthersOrder ==
  ASSUME Inv, Order, ~Aborted,
         \/ GuardTick \/ GuardStops \/ Signal
         \/ \E c \in Components : (Finishes(c) \/ Panics(c))
  PROVE  Order'
  <1>1. CASE GuardTick \/ GuardStops \/ Signal
    BY <1>1 DEF Order, RunsUntilTold, MainLast, GuardTick, GuardStops, Signal, main
  <1>2. ASSUME NEW c \in Components, Finishes(c) PROVE Order'
    <2>1. /\ component[c] = "running" /\ component' = [component EXCEPT ![c] = "finished"]
          /\ UNCHANGED <<mainPc, cancelled, consumed, panicAbort>>
          /\ component \in [Components -> {"running", "finished", "panicked"}]
      BY <1>2 DEF Finishes, main, Inv, TypeOK
    <2>2. \A u \in Upstream(c) : u \in Components
      BY DEF Upstream, Components
    <2>3. cancelled \/ \E u \in Components : component[u] # "running"
      BY <1>2, <2>2 DEF Finishes
    <2>4. RunsUntilTold'
      BY <2>1, <2>3 DEF Order, RunsUntilTold, Aborted
    <2>5. MainLast'
      BY <2>1 DEF Order, MainLast, Aborted, Inv, TypeOK
    <2> QED
      BY <2>4, <2>5 DEF Order
  <1>3. ASSUME NEW c \in Components, Panics(c) PROVE Order'
    <2>1. /\ component[c] = "running" /\ component' = [component EXCEPT ![c] = "panicked"]
          /\ UNCHANGED <<cancelled, consumed, panicAbort>>
          /\ mainPc' = mainPc \/ (mainPc' = "panicked" /\ panicAbort)
          /\ component \in [Components -> {"running", "finished", "panicked"}]
      BY <1>3 DEF Panics, Dies, Inv, TypeOK
    <2>2. RunsUntilTold'
      BY <2>1 DEF RunsUntilTold
    <2>3. MainLast'
      BY <2>1 DEF Order, MainLast, Aborted, Inv, TypeOK
    <2> QED
      BY <2>2, <2>3 DEF Order
  <1> QED
    BY <1>1, <1>2, <1>3

(* While nobody cancels and nothing panics, no component returns and main  *)
(* waits; main returns last, and panics only where the join! polls a handle*)
(* twice or the build aborts (src/main.rs:156-237).                        *)
THEOREM EndsInOrder == Spec => [](RunsUntilTold /\ MainLast)
  <1>1. Init => Order
    BY DEF Init, Order, RunsUntilTold, MainLast
  <1>2. Inv /\ Order /\ [Next]_vars => Order'
    <2> SUFFICES ASSUME Inv, Order, [Next]_vars PROVE Order'
      OBVIOUS
    <2>1. CASE UNCHANGED vars
      BY <2>1 DEF Order, RunsUntilTold, MainLast, vars, main, others
    <2>2. CASE Next
      BY <2>1, <2>2, MainOrder, TuiOrder, OthersOrder DEF Next
    <2> QED
      BY <2>1, <2>2
  <1>3. Order => RunsUntilTold /\ MainLast
    BY DEF Order
  <1> QED
    BY <1>1, <1>2, <1>3, Inductive, PTL DEF Spec

=============================================================================
