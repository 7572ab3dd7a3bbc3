----------------------------- MODULE Lifecycle -----------------------------
(***************************************************************************)
(* How the bot starts and stops (src/main.rs): the cancellation token and  *)
(* the tasks that watch it or fire it - listener, scanner and executor,    *)
(* resource guard (src/resource_guard.rs), signal task (src/safety/mod.rs) *)
(* and TUI (src/tui/mod.rs) - and main, which waits in a select! over the  *)
(* token and the task handles and then joins the handles.                  *)
(*                                                                         *)
(* The three components appear as running or not; the modules Listener,    *)
(* Scanner and Executor say what they do and that they stop.               *)
(***************************************************************************)
EXTENDS Integers, FiniteSets

CONSTANTS
  MaxMemory,    \* config.max_memory_mb
  Rss           \* what rss_mb() may read: megabytes

ASSUME LifecycleAssumption ==
  /\ MaxMemory \in Nat
  /\ Rss \subseteq Nat

Components == {"listener", "scanner", "executor"}

VARIABLES
  panicAbort,  \* panic = "abort" (Cargo.toml:73); FALSE in a dev build
  mainPc,      \* "select", "join", "stopped" (main returned) or "panicked"
  cancelled,   \* the token is cancelled
  consumed,    \* handles whose output main has already taken
  component,   \* Components -> "running", "finished" or "panicked"
  guardPc,     \* resource guard: "running" or "done"
  signalPc,    \* signal task: "waiting" or "done"
  tuiPc,       \* TUI: "off", "ended", or what it does next (TuiPcs)
  raw,         \* the terminal is in raw mode
  screen,      \* it shows the alternate screen
  hooked,      \* the panic hook that restores the terminal is installed
  failed,      \* a call on the terminal has failed (for properties)
  quit         \* the user has pressed q (for properties)

main == <<mainPc, cancelled, consumed>>
others == <<component, guardPc, signalPc>>
terminal == <<raw, screen, failed>>
tui == <<tuiPc, terminal, hooked, quit>>
vars == <<panicAbort, main, others, tui>>

(* "off" under --no-tui and in a build without the tui feature.  From      *)
(* "setup" to "hook", and from "teardown" to "leaving", the TUI is inside  *)
(* one poll: it awaits nothing.                                            *)
Polled == {"screen", "hook", "teardown", "leaving"}
TuiPcs == {"off", "setup", "running", "ended"} \cup Polled

Init ==
  /\ panicAbort \in BOOLEAN
  /\ mainPc = "select"
  /\ cancelled = FALSE
  /\ consumed = {}
  /\ component = [c \in Components |-> "running"]
  /\ guardPc = IF MaxMemory = 0 THEN "done" ELSE "running"
  /\ signalPc = "waiting"
  /\ tuiPc \in {"off", "setup"}
  /\ raw = FALSE /\ screen = FALSE
  /\ hooked = FALSE
  /\ failed = FALSE
  /\ quit = FALSE

-----------------------------------------------------------------------------
(* A panic: the hook runs first, tries both calls and ignores their errors;*)
(* then the process aborts, or only the task that panicked ends.           *)
Hook ==
  IF hooked
  THEN /\ raw' \in {FALSE, raw}
       /\ screen' \in {FALSE, screen}
       /\ failed' = (failed \/ raw' \/ screen')
  ELSE UNCHANGED terminal

Dies == mainPc' = IF panicAbort THEN "panicked" ELSE mainPc

(* The components.  The listener returns only when cancelled; the scanner  *)
(* also when the listener's Sender is gone, the executor when the scanner's*)
(* and its tasks' are.                                                     *)
Upstream(c) == CASE c = "listener" -> {}
                 [] c = "scanner"  -> {"listener"}
                 [] c = "executor" -> {"scanner"}

Finishes(c) ==
  /\ component[c] = "running"
  /\ \/ cancelled
     \/ \E u \in Upstream(c) : component[u] # "running"
  /\ component' = [component EXCEPT ![c] = "finished"]
  /\ UNCHANGED <<panicAbort, main, guardPc, signalPc, tui>>

Panics(c) ==
  /\ component[c] = "running"
  /\ component' = [component EXCEPT ![c] = "panicked"]
  /\ Hook
  /\ Dies
  /\ UNCHANGED <<panicAbort, cancelled, consumed, guardPc, signalPc, tuiPc, hooked, quit>>

CriticalThreshold == (MaxMemory * 90) \div 100

(* Mutant of GuardTick: the guard only logs and returns.                   *)
GuardTick_NoCancel ==
  /\ guardPc = "running"
  /\ \E rss \in Rss : rss >= CriticalThreshold
  /\ guardPc' = "done"
  /\ UNCHANGED <<panicAbort, main, component, signalPc, tui>>

(* The guard ticks: at 90 % of the limit it cancels the token; below, it   *)
(* only logs.                                                              *)
GuardTick ==
  /\ guardPc = "running"
  /\ \E rss \in Rss : rss >= CriticalThreshold
  /\ cancelled' = TRUE
  /\ guardPc' = "done"
  /\ UNCHANGED <<panicAbort, mainPc, consumed, component, signalPc, tui>>

GuardStops ==
  /\ guardPc = "running" /\ cancelled
  /\ guardPc' = "done"
  /\ UNCHANGED <<panicAbort, main, component, signalPc, tui>>

(* SIGINT or SIGTERM.                                                      *)
Signal ==
  /\ signalPc = "waiting"
  /\ signalPc' = "done"
  /\ cancelled' = TRUE
  /\ UNCHANGED <<panicAbort, mainPc, consumed, component, guardPc, tui>>

-----------------------------------------------------------------------------
(* The TUI task.  Each call on the terminal is a step of its own, since    *)
(* another thread may abort the process between two of them, and each may  *)
(* fail; the `?` after it then ends the task where it is.                  *)

EnableRaw ==
  /\ tuiPc = "setup"
  /\ \/ raw' = TRUE /\ tuiPc' = "screen" /\ UNCHANGED failed
     \/ failed' = TRUE /\ tuiPc' = "ended" /\ UNCHANGED raw
  /\ UNCHANGED <<panicAbort, main, others, screen, hooked, quit>>

(* The alternate screen, and the Terminal made on it.                      *)
EnterScreen ==
  /\ tuiPc = "screen"
  /\ \/ screen' = TRUE /\ tuiPc' = "hook" /\ UNCHANGED failed
     \/ screen' \in BOOLEAN /\ failed' = TRUE /\ tuiPc' = "ended"
  /\ UNCHANGED <<panicAbort, main, others, raw, hooked, quit>>

InstallHook ==
  /\ tuiPc = "hook"
  /\ hooked' = TRUE
  /\ tuiPc' = "running"
  /\ UNCHANGED <<panicAbort, main, others, terminal, quit>>

(* The event loop ends because the token is cancelled, the user quits,     *)
(* drawing fails or the terminal is closed.                                *)
TuiSeesCancel ==
  /\ tuiPc = "running" /\ cancelled
  /\ tuiPc' = "teardown"
  /\ UNCHANGED <<panicAbort, main, others, terminal, hooked, quit>>

TuiQuit ==
  /\ tuiPc = "running"
  /\ quit' = TRUE
  /\ cancelled' = TRUE
  /\ tuiPc' = "teardown"
  /\ UNCHANGED <<panicAbort, mainPc, consumed, others, terminal, hooked>>

(* Mutant of TuiBreaks: a failed draw leaves run_tui by a `?`.             *)
TuiBreaks_NoTeardown ==
  /\ tuiPc = "running"
  /\ tuiPc' = "ended"
  /\ UNCHANGED <<panicAbort, main, others, terminal, hooked, quit>>

TuiBreaks ==
  /\ tuiPc = "running"
  /\ tuiPc' = "teardown"
  /\ UNCHANGED <<panicAbort, main, others, terminal, hooked, quit>>

TuiPanics ==
  /\ tuiPc = "running"
  /\ tuiPc' = "ended"
  /\ Hook
  /\ Dies
  /\ UNCHANGED <<panicAbort, cancelled, consumed, others, hooked, quit>>

(* The teardown.  Leaving raw mode does nothing where the hook has done it *)
(* already; when it fails, the alternate screen is not left either.        *)
DisableRaw ==
  /\ tuiPc = "teardown"
  /\ \/ raw' = FALSE /\ tuiPc' = "leaving" /\ UNCHANGED failed
     \/ raw /\ failed' = TRUE /\ tuiPc' = "ended" /\ UNCHANGED raw
  /\ UNCHANGED <<panicAbort, main, others, screen, hooked, quit>>

LeaveScreen ==
  /\ tuiPc = "leaving"
  /\ tuiPc' = "ended"
  /\ \/ screen' = FALSE /\ UNCHANGED failed
     \/ screen' \in {FALSE, screen} /\ failed' = TRUE
  /\ UNCHANGED <<panicAbort, main, others, raw, hooked, quit>>

-----------------------------------------------------------------------------
(* main.  Each branch of the select! ends with the token cancelled, by the *)
(* branch or by main.rs:233; ready branches are tried in random order.     *)

SelectCancelled ==
  /\ mainPc = "select" /\ cancelled
  /\ mainPc' = "join"
  /\ UNCHANGED <<panicAbort, cancelled, consumed, others, tui>>

(* Mutant of SelectTui: nobody cancels the token.                          *)
SelectTui_NoCancel ==
  /\ mainPc = "select" /\ tuiPc = "ended"
  /\ mainPc' = "join"
  /\ UNCHANGED <<panicAbort, cancelled, consumed, others, tui>>

SelectTui ==
  /\ mainPc = "select" /\ tuiPc = "ended"
  /\ mainPc' = "join"
  /\ cancelled' = TRUE
  /\ UNCHANGED <<panicAbort, consumed, others, tui>>

(* Mutant of SelectHandle: the executor's handle is not waited for.        *)
SelectHandle_NoExecutor(c) ==
  /\ mainPc = "select" /\ component[c] # "running" /\ c # "executor"
  /\ mainPc' = "join"
  /\ cancelled' = TRUE
  /\ consumed' = consumed \cup {c}
  /\ UNCHANGED <<panicAbort, others, tui>>

SelectHandle(c) ==
  /\ mainPc = "select" /\ component[c] # "running"
  /\ mainPc' = "join"
  /\ cancelled' = TRUE
  /\ consumed' = consumed \cup {c}
  /\ UNCHANGED <<panicAbort, others, tui>>

(* join! polls every handle; polling one whose output was taken panics.    *)
JoinPanics ==
  /\ mainPc = "join" /\ consumed # {}
  /\ mainPc' = "panicked"
  /\ Hook
  /\ UNCHANGED <<panicAbort, cancelled, consumed, others, tuiPc, hooked, quit>>

(* main returns, and the runtime drops the tasks that are left: a TUI in   *)
(* its loop where it waits, one in a poll when the poll is over.           *)
JoinDone ==
  /\ mainPc = "join" /\ consumed = {}
  /\ \A c \in Components : component[c] # "running"
  /\ mainPc' = "stopped"
  /\ UNCHANGED <<panicAbort, cancelled, consumed, others, tui>>

Main ==
  \/ SelectCancelled \/ SelectTui \/ JoinPanics \/ JoinDone
  \/ \E c \in Components : SelectHandle(c)

Tui ==
  \/ EnableRaw \/ EnterScreen \/ InstallHook
  \/ TuiSeesCancel \/ TuiQuit \/ TuiBreaks \/ TuiPanics
  \/ DisableRaw \/ LeaveScreen

Ended == mainPc \in {"stopped", "panicked"}

(* Nothing runs after an abort.  After main's return, or its panic in a    *)
(* build that unwinds, the other threads run until the runtime has stopped *)
(* them.                                                                   *)
Aborted == panicAbort /\ mainPc = "panicked"

Next ==
  \/ /\ ~Aborted
     /\ \/ Main \/ Tui
        \/ GuardTick \/ GuardStops \/ Signal
        \/ \E c \in Components : (Finishes(c) \/ Panics(c))
  \/ Ended /\ UNCHANGED vars

Spec == Init /\ [][Next]_vars

(* main is polled when it can go on, a select! does not starve a branch,   *)
(* and a component that can finish does (proved or checked in its module). *)
Fairness ==
  /\ WF_vars(~Ended /\ Main)
  /\ \A c \in Components : WF_vars(~Ended /\ Finishes(c))

FairSpec == Spec /\ Fairness

-----------------------------------------------------------------------------
(* Properties.                                                             *)

(* Every variable holds a value of its kind; whoever has a reason to stop  *)
(* the bot has told everyone.                                              *)
TypeOK ==
  /\ panicAbort \in BOOLEAN
  /\ mainPc \in {"select", "join", "stopped", "panicked"}
  /\ cancelled \in BOOLEAN
  /\ consumed \subseteq Components
  /\ component \in [Components -> {"running", "finished", "panicked"}]
  /\ guardPc \in {"running", "done"}
  /\ signalPc \in {"waiting", "done"}
  /\ tuiPc \in TuiPcs
  /\ raw \in BOOLEAN /\ screen \in BOOLEAN
  /\ hooked \in BOOLEAN /\ failed \in BOOLEAN /\ quit \in BOOLEAN
  /\ (quit \/ signalPc = "done"
        \/ (guardPc = "done" /\ MaxMemory # 0)) => cancelled

(* main leaves nothing behind.  When the select! ends by the token or the  *)
(* TUI, main returns, and only after every component has ended, so that    *)
(* the runtime's exit does not cut off their loops                         *)
(* (src/main.rs:160, 190, 233-237).                                        *)
JoinsEveryComponent ==
  (mainPc = "join" /\ consumed = {})
    ~> \/ mainPc = "stopped" /\ \A c \in Components : component[c] # "running"
       \/ Aborted

(* However the TUI is left, and whatever races with it, the terminal is    *)
(* given back unless one of the calls that do it fails.  A terminal still  *)
(* taken belongs to a TUI that is in its loop or is about to give it back, *)
(* and after q only to the latter; and an abort, by whichever task, leaves *)
(* it so only before the hook is there                                     *)
(* (src/tui/mod.rs:62-91, 132-136).                                        *)
TerminalGivenBack ==
  (raw \/ screen) /\ ~failed =>
    /\ tuiPc \in Polled \cup {"running"}
    /\ quit => tuiPc \in {"teardown", "leaving"}
    /\ Aborted => ~hooked

(* Nobody is left behind: once the token is cancelled, or a component or   *)
(* the TUI has ended, main ends (src/main.rs:156-236).                     *)
BotStops ==
  (\/ cancelled \/ tuiPc = "ended"
   \/ \E c \in Components : component[c] # "running") ~> Ended

-----------------------------------------------------------------------------
(* What a comment says, and the code does not keep.                        *)

(* "If any critical task panics, cancel all others for a clean shutdown."  *)
(* (src/main.rs:158): main itself does not panic on the way out.  But the  *)
(* select! takes the output of the handle that ended, and join! polls it   *)
(* again.  The same happens on a plain Ctrl+C when a component ends before *)
(* main looks and the select! picks its branch.                            *)
CleanShutdown == [][~JoinPanics]_vars

=============================================================================
