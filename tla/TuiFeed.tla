------------------------------ MODULE TuiFeed ------------------------------
(***************************************************************************)
(* What the TUI promises of the log it shows, without the tasks that log,  *)
(* the two sends of the layer, the channel and the user.  A log event      *)
(* yields a line and, if its message is a known one, a structured event    *)
(* before it.  Each may be lost, at any time and without the other; what   *)
(* is shown is shown once, and an event never after its line.              *)
(*                                                                         *)
(*   - logged  : the number of log events so far;                          *)
(*   - pending : what may still be shown: [what, id, line];                *)
(*   - shown   : what has been shown, oldest first.                        *)
(*                                                                         *)
(* TuiApp implements this specification.                                   *)
(***************************************************************************)
EXTENDS Integers, Sequences

CONSTANT Messages   \* what can be logged: [kind, matches]

VARIABLES logged, pending, shown

feedVars == <<logged, pending, shown>>

(* What log event n yields.                                                *)
Yields(n, l) ==
  {[what |-> what, id |-> n, line |-> l] : what \in {"line"} \cup ({l.kind} \ {"other"})}

Init == logged = 0 /\ pending = {} /\ shown = << >>

(* Part of what a log event yields may be lost at once.                    *)
Log ==
  \E l \in Messages :
    /\ logged' = logged + 1
    /\ \E S \in SUBSET Yields(logged + 1, l) : pending' = pending \cup S
    /\ UNCHANGED shown

(* After the structured event only its line may follow, after the line     *)
(* nothing.                                                                *)
Show(ev) ==
  /\ ev \in pending
  /\ shown' = Append(shown, ev)
  /\ pending' = {p \in pending : p.id = ev.id => p.what = "line" /\ ev.what # "line"}
  /\ UNCHANGED logged

(* A channel that is full or closed, or a paused App.                      *)
Lose ==
  /\ pending' \subseteq pending
  /\ UNCHANGED <<logged, shown>>

Next == Log \/ Lose \/ \E ev \in pending : Show(ev)

Spec == Init /\ [][Next]_feedVars

-----------------------------------------------------------------------------
(* Of one log event the user sees at most one structured event and one     *)
(* line, in this order (src/tui_logger.rs:103-125).                        *)
OnceInOrder ==
  \A i, j \in DOMAIN shown :
    i < j /\ shown[i].id = shown[j].id
      => shown[i].what # "line" /\ shown[j].what = "line"

=============================================================================
