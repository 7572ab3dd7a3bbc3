------------------------------- MODULE TuiApp ------------------------------
(***************************************************************************)
(* What the user of the TUI sees: the tracing layer that turns log events  *)
(* into TuiEvents (src/tui_logger.rs), the bounded channel they go through *)
(* (src/main.rs:54-59), the App state the TUI task keeps (src/tui/app.rs,  *)
(* src/tui/mod.rs), and the page of the log viewer                         *)
(* (src/tui/widgets/logs_viewer.rs:11-27).                                 *)
(*                                                                         *)
(* The layer runs in the task that logs, and there are several, on several *)
(* threads: its two try_sends are two steps, and the TUI task or another   *)
(* task may come in between.  A log event is known by its number: 1 for    *)
(* the first, and so on.  Amounts, names and texts are left out, and with  *)
(* them the running sums; what matters of a text is which filters it       *)
(* matches.                                                                *)
(***************************************************************************)
EXTENDS Integers, Sequences

CONSTANTS
  Tasks,             \* tasks that log
  Idle,              \* what emitting holds for a task outside the layer
  Lines,             \* Tasks -> its log events: [kind, matches]; kind is "opportunity",
                     \* "bundle" or "other", matches a set of filters
  TuiCap,            \* capacity of the TUI channel: 64 in the code
  MaxOpportunities,  \* MAX_OPPORTUNITIES: 20 in the code
  MaxSparkline,      \* MAX_SPARKLINE: 30 in the code
  MaxBundles,        \* MAX_BUNDLES: 20 in the code
  MaxLogs,           \* MAX_LOGS: 100 in the code
  Heights,           \* lines the log viewer may have room for
  MouseEnabled,      \* args.tui_mouse
  MaxEmitted,        \* bound on the log events
  MaxInputs          \* bound on the terminal events

Tabs == <<"Dashboard", "Opportunities", "Logs", "Help">>
Filters == <<"none", "ERROR", "WARN", "opportunity">>
Kinds == {"opportunity", "bundle", "other"}

(* What a task logs, what goes through the channel, and what the log keeps.*)
LogEvents == [kind : Kinds, matches : SUBSET {"ERROR", "WARN", "opportunity"}]
TuiEvents == [what : Kinds \cup {"line"}, id : 1..MaxEmitted, line : LogEvents]
LogLines == [id : 1..MaxEmitted, matches : SUBSET {"ERROR", "WARN", "opportunity"}]

ASSUME TuiAssumption ==
  /\ Lines \in [Tasks -> SUBSET LogEvents]
  /\ TuiCap \in Nat \ {0}
  /\ MaxOpportunities \in Nat \ {0} /\ MaxSparkline \in Nat \ {0}
  /\ MaxBundles \in Nat \ {0} /\ MaxLogs \in Nat \ {0}
  /\ Heights \subseteq Nat
  /\ MouseEnabled \in BOOLEAN
  /\ MaxEmitted \in Nat /\ MaxInputs \in Nat

VARIABLES
  emitted,        \* log events so far
  emitting,       \* Tasks -> log event whose line is still to be sent, or Idle
  tuiQ,           \* TUI channel, oldest first: [what, id, line]
  ended,          \* the event loop is left, and the Receiver dropped
  oppsFound,      \* app.opportunities_found
  opps,           \* app.opportunities
  sparkline,      \* app.profit_sparkline
  bundlesSent,    \* app.bundles_submitted
  bundles,        \* app.bundles
  logs,           \* app.logs
  app,            \* the rest of App: active_tab, paused, log_filter (their
                  \* positions in Tabs and Filters), log_scroll, opp_scroll,
                  \* error_banner, mouse_enabled
  handled,        \* every TuiEvent that changed the App (for properties)
  inputs          \* environment: terminal events so far

emitVars == <<emitted, emitting>>
records == <<oppsFound, opps, sparkline, bundlesSent, bundles, logs>>
vars == <<emitVars, tuiQ, ended, records, app, handled, inputs>>

Init ==
  /\ emitted = 0
  /\ emitting = [w \in Tasks |-> Idle]
  /\ tuiQ = << >>
  /\ ended = FALSE
  /\ oppsFound = 0 /\ opps = << >> /\ sparkline = << >>
  /\ bundlesSent = 0 /\ bundles = << >>
  /\ logs = << >>
  /\ app = [tab |-> 1, paused |-> FALSE, filter |-> 1, logScroll |-> 0,
            oppScroll |-> 0, banner |-> FALSE, mouse |-> MouseEnabled]
  /\ handled = << >>
  /\ inputs = 0

-----------------------------------------------------------------------------
(* The layer.                                                              *)

Record(e) == [what |-> e.line.kind, id |-> e.id, line |-> e.line]
Line(e) == [what |-> "line", id |-> e.id, line |-> e.line]

(* try_send: lost if the channel is full or closed.                        *)
TrySend(ev) ==
  tuiQ' = IF ended \/ Len(tuiQ) >= TuiCap THEN tuiQ ELSE Append(tuiQ, ev)

(* Mutant of OnEvent: both events at once, the line first.                 *)
OnEvent_LineFirst(w, l) ==
  /\ emitted < MaxEmitted /\ emitting[w] = Idle
  /\ emitted' = emitted + 1
  /\ LET e == [id |-> emitted + 1, line |-> l]
     IN  /\ tuiQ' = IF ended \/ Len(tuiQ) >= TuiCap THEN tuiQ
                    ELSE tuiQ \o (IF l.kind = "other" THEN <<Line(e)>>
                                  ELSE <<Line(e), Record(e)>>)
         /\ UNCHANGED emitting
  /\ UNCHANGED <<ended, records, app, handled, inputs>>

(* on_event as far as the first try_send: the structured event of a known  *)
(* message, or the line of any other.                                      *)
OnEvent(w, l) ==
  /\ emitted < MaxEmitted /\ emitting[w] = Idle
  /\ emitted' = emitted + 1
  /\ LET e == [id |-> emitted + 1, line |-> l]
     IN  \/ /\ l.kind = "other"
            /\ TrySend(Line(e))
            /\ UNCHANGED emitting
         \/ /\ l.kind # "other"
            /\ TrySend(Record(e))
            /\ emitting' = [emitting EXCEPT ![w] = e]
  /\ UNCHANGED <<ended, records, app, handled, inputs>>

(* Mutant of ForwardLine: a retry the wrong way round, of the line that    *)
(* was sent.                                                               *)
ForwardLine_Again(w) ==
  /\ emitting[w] # Idle
  /\ TrySend(Line(emitting[w]))
  /\ emitting' = IF Len(tuiQ) = TuiCap THEN [emitting EXCEPT ![w] = Idle] ELSE emitting
  /\ UNCHANGED <<emitted, ended, records, app, handled, inputs>>

(* "Always forward the raw log line."                                      *)
ForwardLine(w) ==
  /\ emitting[w] # Idle
  /\ TrySend(Line(emitting[w]))
  /\ emitting' = [emitting EXCEPT ![w] = Idle]
  /\ UNCHANGED <<emitted, ended, records, app, handled, inputs>>

-----------------------------------------------------------------------------
(* The TUI task: what it receives.                                         *)

(* pop_front if len() >= cap, then push_back.                              *)
Push(buffer, cap, x) ==
  Append(IF Len(buffer) >= cap THEN Tail(buffer) ELSE buffer, x)

(* Mutant of AddOpportunity: one cap for both buffers.                     *)
AddOpportunity_OneCap(ev) ==
  IF app.paused
  THEN UNCHANGED <<oppsFound, opps, sparkline, handled>>
  ELSE /\ oppsFound' = oppsFound + 1
       /\ sparkline' = Push(sparkline, MaxOpportunities, ev.id)
       /\ opps' = Push(opps, MaxOpportunities, ev.id)
       /\ handled' = Append(handled, ev)

AddOpportunity(ev) ==
  IF app.paused
  THEN UNCHANGED <<oppsFound, opps, sparkline, handled>>
  ELSE /\ oppsFound' = oppsFound + 1
       /\ sparkline' = Push(sparkline, MaxSparkline, ev.id)
       /\ opps' = Push(opps, MaxOpportunities, ev.id)
       /\ handled' = Append(handled, ev)

AddBundle(ev) ==
  /\ bundlesSent' = bundlesSent + 1
  /\ bundles' = Push(bundles, MaxBundles, ev.id)
  /\ handled' = Append(handled, ev)

(* Mutant of AddLog: the scroll position is not moved with the lines.      *)
AddLog_KeepsScroll(ev) ==
  /\ logs' = Push(logs, MaxLogs, [id |-> ev.id, matches |-> ev.line.matches])
  /\ UNCHANGED app
  /\ handled' = Append(handled, ev)

(* Mutant of AddLog: nothing is evicted.                                   *)
AddLog_NoEviction(ev) ==
  /\ logs' = Append(logs, [id |-> ev.id, matches |-> ev.line.matches])
  /\ UNCHANGED app
  /\ handled' = Append(handled, ev)

(* When a line is evicted, the scroll position moves with the lines.       *)
AddLog(ev) ==
  /\ logs' = Push(logs, MaxLogs, [id |-> ev.id, matches |-> ev.line.matches])
  /\ app' = IF Len(logs) >= MaxLogs /\ app.logScroll > 0
            THEN [app EXCEPT !.logScroll = @ - 1] ELSE app
  /\ handled' = Append(handled, ev)

Received(what) ==
  /\ ~ended /\ tuiQ # << >> /\ Head(tuiQ).what = what
  /\ tuiQ' = Tail(tuiQ)
  /\ UNCHANGED <<emitVars, ended, inputs>>

OpportunityReceived ==
  /\ Received("opportunity")
  /\ AddOpportunity(Head(tuiQ))
  /\ UNCHANGED <<bundlesSent, bundles, logs, app>>

BundleReceived ==
  /\ Received("bundle")
  /\ AddBundle(Head(tuiQ))
  /\ UNCHANGED <<oppsFound, opps, sparkline, logs, app>>

LineReceived ==
  /\ Received("line")
  /\ AddLog(Head(tuiQ))
  /\ UNCHANGED <<oppsFound, opps, sparkline, bundlesSent, bundles>>

-----------------------------------------------------------------------------
(* The TUI task: what the user does.                                       *)

Input(newApp) ==
  /\ ~ended /\ inputs < MaxInputs
  /\ inputs' = inputs + 1
  /\ app' = newApp
  /\ UNCHANGED <<emitVars, tuiQ, ended, records, handled>>

Next4(i) == (i % 4) + 1
Prev4(i) == ((i + 2) % 4) + 1
Minus1(n) == IF n > 0 THEN n - 1 ELSE 0

TabKey == Input([app EXCEPT !.tab = Next4(@)]) \/ Input([app EXCEPT !.tab = Prev4(@)])
JumpKey == \E i \in DOMAIN Tabs : Input([app EXCEPT !.tab = i])
PauseKey == Input([app EXCEPT !.paused = ~@])
ClearKey == Input([app EXCEPT !.banner = FALSE])
MouseKey == Input([app EXCEPT !.mouse = ~@])
FilterKey == Input([app EXCEPT !.filter = Next4(@), !.logScroll = 0])

(* Only the Logs and the Opportunities tab scroll.                         *)
ScrollKey ==
  \/ Tabs[app.tab] = "Logs" /\ Input([app EXCEPT !.logScroll = @ + 1])
  \/ Tabs[app.tab] = "Logs" /\ Input([app EXCEPT !.logScroll = Minus1(@)])
  \/ Tabs[app.tab] = "Opportunities" /\ Input([app EXCEPT !.oppScroll = @ + 1])
  \/ Tabs[app.tab] = "Opportunities" /\ Input([app EXCEPT !.oppScroll = Minus1(@)])

(* The wheel scrolls the log, whatever tab is shown.                       *)
Wheel ==
  /\ app.mouse
  /\ \/ Input([app EXCEPT !.logScroll = @ + 1])
     \/ Input([app EXCEPT !.logScroll = Minus1(@)])

(* g and G alike.                                                          *)
HomeKey == Input([app EXCEPT !.logScroll = 0, !.oppScroll = 0])

TerminalError == Input([app EXCEPT !.banner = TRUE])

(* q, a cancelled token, a closed terminal or a failed draw.               *)
Leave ==
  /\ ~ended
  /\ ended' = TRUE
  /\ tuiQ' = << >>
  /\ UNCHANGED <<emitVars, records, app, handled, inputs>>

-----------------------------------------------------------------------------
Layer == \E w \in Tasks : ForwardLine(w) \/ \E l \in Lines[w] : OnEvent(w, l)

User ==
  \/ TabKey \/ JumpKey \/ PauseKey \/ ClearKey \/ MouseKey \/ FilterKey
  \/ ScrollKey \/ Wheel \/ HomeKey \/ TerminalError

Receives == OpportunityReceived \/ BundleReceived \/ LineReceived

(* Nobody has to log or to press a key.                                    *)
Quiet == tuiQ = << >> /\ UNCHANGED vars

Next == Layer \/ Receives \/ User \/ Leave \/ Quiet

Spec == Init /\ [][Next]_vars

-----------------------------------------------------------------------------
(* The page of the log viewer, for h lines.                                *)

Shown == {l \in LogLines : app.filter = 1 \/ Filters[app.filter] \in l.matches}

(* The elements of s that are in S, in their order: chosen[n] are those    *)
(* among the first n.                                                      *)
Chosen(s, S) ==
  LET chosen[n \in 0..Len(s)] ==
        IF n = 0 THEN << >>
        ELSE IF s[n] \in S THEN Append(chosen[n - 1], s[n]) ELSE chosen[n - 1]
  IN  chosen

Select(s, S) == Chosen(s, S)[Len(s)]

(* filtered_logs()                                                         *)
Filtered == Select(logs, Shown)

Least(m, n) == IF m <= n THEN m ELSE n

(* Mutant of FirstRow: the scroll position is used as it is.               *)
FirstRow_NoClamp(h) ==
  IF app.logScroll = 0
  THEN IF Len(Filtered) > h THEN Len(Filtered) - h ELSE 0
  ELSE app.logScroll

(* 0 stands for the bottom; any other position is capped there.            *)
FirstRow(h) ==
  LET bottom == IF Len(Filtered) > h THEN Len(Filtered) - h ELSE 0
  IN  IF app.logScroll = 0 THEN bottom ELSE Least(app.logScroll, bottom)

(* skip(scroll).take(visible_height)                                       *)
Page(h) ==
  SubSeq(Filtered, FirstRow(h) + 1, Least(FirstRow(h) + h, Len(Filtered)))

-----------------------------------------------------------------------------
(* Properties.                                                             *)

(* Every variable holds a value of its kind, and no buffer is longer than  *)
(* its cap (src/tui/app.rs:6-13).                                          *)
TypeOK ==
  /\ emitted \in 0..MaxEmitted
  /\ emitting \in [Tasks -> [id : 1..emitted, line : LogEvents] \cup {Idle}]
  /\ tuiQ \in Seq(TuiEvents) /\ Len(tuiQ) <= TuiCap
  /\ ended \in BOOLEAN
  /\ oppsFound \in Nat /\ bundlesSent \in Nat
  /\ opps \in Seq(1..MaxEmitted) /\ Len(opps) <= MaxOpportunities
  /\ sparkline \in Seq(1..MaxEmitted) /\ Len(sparkline) <= MaxSparkline
  /\ bundles \in Seq(1..MaxEmitted) /\ Len(bundles) <= MaxBundles
  /\ logs \in Seq(LogLines) /\ Len(logs) <= MaxLogs
  /\ app \in [tab : 1..4, paused : BOOLEAN, filter : 1..4, logScroll : 0..inputs,
              oppScroll : 0..inputs, banner : BOOLEAN, mouse : BOOLEAN]
  /\ handled \in Seq(TuiEvents)
  /\ inputs \in 0..MaxInputs

Ids(s) == [i \in DOMAIN s |-> s[i].id]
Are(what) == [what : {what}, id : 1..MaxEmitted, line : LogEvents]
Of(what) == Ids(Select(handled, Are(what)))
LastOf(s, n) == SubSeq(s, Len(s) - Least(n, Len(s)) + 1, Len(s))

(* Counters, tables and the chart tell one story: the counters count what  *)
(* was taken in, and each buffer holds the newest part of it, in order     *)
(* (src/tui/app.rs:153-200).                                               *)
RecordsAgree ==
  /\ oppsFound = Len(Of("opportunity"))
  /\ opps = LastOf(Of("opportunity"), MaxOpportunities)
  /\ sparkline = LastOf(Of("opportunity"), MaxSparkline)
  /\ bundlesSent = Len(Of("bundle"))
  /\ bundles = LastOf(Of("bundle"), MaxBundles)
  /\ Ids(logs) = LastOf(Of("line"), MaxLogs)

(* The line of an opportunity or a bundle never comes before its           *)
(* structured event: by the time a user reads the line, the event has been *)
(* counted or lost (src/tui_logger.rs:103-125).                            *)
Arrivals == handled \o tuiQ

LineAfterRecord ==
  \A i, j \in DOMAIN Arrivals :
    Arrivals[i].id = Arrivals[j].id /\ Arrivals[j].what = "line" => i <= j

(* What may still be shown is in the channel, or is the line of an event   *)
(* that a task is forwarding.  TuiApp keeps the promise of TuiFeed: tasks, *)
(* channel and user together lose events but never repeat or overtake one  *)
(* (src/tui_logger.rs:94-126, src/main.rs:54-59, src/tui/mod.rs:145-151,   *)
(* 273-290).                                                               *)
Pending ==
  {tuiQ[i] : i \in DOMAIN tuiQ}
    \cup {Line(emitting[w]) : w \in {v \in Tasks : emitting[v] # Idle}}

Feed == INSTANCE TuiFeed WITH
          Messages <- LogEvents,
          logged   <- emitted,
          pending  <- Pending,
          shown    <- handled

ImplementsFeed == Feed!Spec

(* However events, keys, filters and evictions follow each other, the page *)
(* is as full as it can be: scrolling never runs past the last line        *)
(* (src/tui/widgets/logs_viewer.rs:17-27).                                 *)
PageFilled ==
  \A h \in Heights : Len(Page(h)) = Least(h, Len(Filtered))

(* A user who has scrolled to a line other than the first two keeps the    *)
(* place: without a filter, the top line of the page stays while lines     *)
(* arrive and old ones are evicted (src/tui/app.rs:187-200).               *)
PlaceKept ==
  [][\A h \in Heights :
       /\ LineReceived /\ app.filter = 1 /\ h > 0
       /\ 1 < app.logScroll /\ app.logScroll <= Len(logs) - h
       => Page(h)'[1] = Page(h)[1]]_vars

=============================================================================
