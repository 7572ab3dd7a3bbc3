------------------------------ MODULE MCTuiApp -----------------------------
(***************************************************************************)
(* TuiApp on a small instance: an evaluation task, which finds             *)
(* opportunities and reports errors, and the executor, which submits.      *)
(***************************************************************************)
EXTENDS TuiApp

CONSTANTS evaluation, executor

MCTasks == {evaluation, executor}

MCLines ==
  [w \in MCTasks |->
     IF w = executor THEN {[kind |-> "bundle", matches |-> {}]}
     ELSE {[kind |-> "opportunity", matches |-> {"opportunity"}],
           [kind |-> "other", matches |-> {"ERROR"}]}]

=============================================================================
